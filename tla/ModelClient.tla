---------------------------- MODULE ModelClient -----------------------------
(***************************************************************************)
(* The client of the model provider (ai/sakana_client.py, ai/errors.py):   *)
(* complete, with its retries, and stream, which is never retried.         *)
(*                                                                         *)
(* The provider is external: it may answer anything, or not at all, and    *)
(* httpx then raises a timeout or a transport error.  Of a body only what  *)
(* the client tells apart is kept; the backoff is "some time" (at most     *)
(* 8 s, a Retry-After header included).                                    *)
(***************************************************************************)
EXTENDS Integers, Sequences

CONSTANTS
  Request,
  MaxRetries,   \* LLM_MAX_RETRIES
  Answer        \* what may come back

\* arrived tells a response from the two exceptions, which have no status.
Answers == [arrived: {"response", "timeout", "transport"}, status: Nat,
            quota: BOOLEAN, body: {"reply", "unusable", "garbage", "none"}]

ASSUME ModelAssumption == MaxRetries \in Nat /\ Answer \subseteq Answers

VARIABLE call     \* the call each request makes

Outcome == {"reply", "llm_error", "llm_timeout", "llm_rate_limited",
            "llm_not_configured", "internal_error"}

Call == [stage: {"none", "sent", "asleep", "open", "over"},
         attempt: 0..MaxRetries,
         heard: Seq(Answer),        \* history: all that complete got back, in order
         text: BOOLEAN,             \* a stream has delivered some text
         outcome: Outcome \union {"pending"}]

NoCall == [stage |-> "none", attempt |-> 0, heard |-> <<>>, text |-> FALSE,
           outcome |-> "pending"]

-----------------------------------------------------------------------------
RetryStatus == {408, 409, 429, 500, 502, 503, 504}

\* Mutated: the status is looked at first, and a 429 is retried whatever it says.
RaiseForStatus_StatusFirst(a) ==
  IF a.status \in RetryStatus THEN "retry"
  ELSE IF a.status \in {401, 403} THEN "llm_not_configured" ELSE "llm_error"

\* What a response other than 200 means: an error at once, or another attempt.
RaiseForStatus(a) ==
  CASE a.status \in {401, 403} \/ a.quota -> "llm_not_configured"
    [] a.status \notin RetryStatus \union {401, 403} /\ ~a.quota -> "llm_error"
    [] OTHER -> "retry"

Exhausted(a) == IF a.status = 429 THEN "llm_rate_limited" ELSE "llm_error"

\* A 200: response.json() raises what nobody catches if it is not JSON.
Parse(a) ==
  CASE a.body = "reply" -> "reply"
    [] a.body = "garbage" -> "internal_error"
    [] OTHER -> "llm_error"

\* What the exception or the last response of all attempts becomes.
Final(a) ==
  CASE a.arrived = "timeout" -> "llm_timeout"
    [] a.arrived = "transport" -> "llm_error"
    [] a.arrived = "response" -> Exhausted(a)

\* The result of one attempt, "retry" if another one may follow.
Attempted(a) ==
  CASE a.arrived # "response" -> "retry"
    [] a.arrived = "response" /\ a.status = 200 -> Parse(a)
    [] OTHER -> RaiseForStatus(a)

-----------------------------------------------------------------------------
Update(r, c) == call' = [call EXCEPT ![r] = c]

Send(r) == Update(r, [NoCall EXCEPT !.stage = "sent"])

Over(r, a, outcome) ==
  Update(r, [call[r] EXCEPT !.stage = "over", !.outcome = outcome,
                            !.heard = Append(@, a)])

Sleep(r, a) == Update(r, [call[r] EXCEPT !.stage = "asleep", !.heard = Append(@, a)])

\* Mutated: one attempt too many.
LastAttempt_OffByOne(r) == call[r].attempt > MaxRetries

LastAttempt(r) == call[r].attempt = MaxRetries

\* complete: something comes back for the attempt that is out.
Hear(r, a) ==
  /\ call[r].stage = "sent"
  /\ LET result == Attempted(a) IN
     \/ result # "retry" /\ Over(r, a, result)
     \/ result = "retry" /\ LastAttempt(r) /\ Over(r, a, Final(a))
     \/ result = "retry" /\ ~LastAttempt(r) /\ Sleep(r, a)

\* Mutated: the attempt is not counted.
Wake_Uncounted(r) ==
  /\ call[r].stage = "asleep"
  /\ Update(r, [call[r] EXCEPT !.stage = "sent", !.heard = <<>>])

Wake(r) ==
  /\ call[r].stage = "asleep"
  /\ Update(r, [call[r] EXCEPT !.stage = "sent", !.attempt = @ + 1])

\* stream: the response begins, or fails: any status but 200 and any exception
\* is final here, and the handler treats all failures alike.
StreamOver(r, outcome) ==
  Update(r, [call[r] EXCEPT !.stage = "over", !.outcome = outcome])

StreamOpens(r) ==
  /\ call[r].stage = "sent"
  /\ \/ Update(r, [call[r] EXCEPT !.stage = "open"])
     \/ StreamOver(r, "llm_error")

Delta(r) ==
  /\ call[r].stage = "open"
  /\ Update(r, [call[r] EXCEPT !.text = TRUE])

\* "[DONE]", or the end of the body without it; or an exception on the way: a
\* timeout, a broken connection, a frame whose delta is not an object.
StreamCloses(r) ==
  /\ call[r].stage = "open"
  /\ StreamOver(r, "reply") \/ StreamOver(r, "llm_error")

-----------------------------------------------------------------------------
(* What a caller of complete may rely on, said without the loop. *)

\* Another attempt might go better.
Transient(a) ==
  \/ a.arrived # "response"
  \/ a.status \in RetryStatus /\ ~a.quota

Explains(a, outcome) ==
  CASE outcome = "reply" -> a.status = 200 /\ a.body = "reply"
    [] outcome = "llm_timeout" -> a.arrived = "timeout"
    [] outcome = "llm_rate_limited" -> a.status = 429 /\ ~a.quota
    [] outcome = "llm_not_configured" -> a.status \in {401, 403} \/ a.quota
    [] outcome = "internal_error" -> a.status = 200 /\ a.body = "garbage"
    [] OTHER -> \/ a.arrived = "transport"
                \/ a.arrived = "response" /\ a.status \notin {401, 403, 429}
=============================================================================
