---------------------------- MODULE ChatService -----------------------------
(***************************************************************************)
(* One process of the service, from the arrival of a request to its        *)
(* answer: the rate limiter, the pool of database connections and the      *)
(* calls to the model.                                                     *)
(*                                                                         *)
(* A request takes a connection with its first query, which authenticates  *)
(* it, and keeps it until its transaction ends: chat until the model has   *)
(* answered, chat_stream only until CommitRoute commits, before the first  *)
(* byte is sent.  The reply of a stream needs a connection once more.      *)
(***************************************************************************)
EXTENDS RateLimiter, ModelClient, FiniteSets

CONSTANTS
  ClientOf,     \* where each request comes from
  Kinds,        \* what each request may ask for
  PoolSize,     \* pool_size + max_overflow
  RateLimitEnabled

\* options: the limiter sees one that is no preflight (CORSMiddleware, outside
\* it, answers those), and no route takes it.
Kind == {"chat", "stream", "read", "login", "readyz", "options"}

ASSUME ServiceAssumption ==
  /\ ClientOf \in [Request -> Client] /\ Kinds \in [Request -> SUBSET Kind]
  /\ PoolSize \in Nat /\ RateLimitEnabled \in BOOLEAN

VARIABLES
  request,   \* the kind and the stage of each request
  conn       \* the requests that have a connection checked out

vars == <<hits, recent, call, request, conn>>

\* At rest, a request may be made (again): as another one, with the same name.
Rest == {"idle", "limited", "crashed"}
Stage == Rest \union {"queued", "working", "asking", "streaming", "requeued", "storing"}
Holding == {"working", "asking", "storing"}

TypeOK ==
  /\ LimiterTypeOK
  /\ call \in [Request -> Call]
  /\ request \in [Request -> [kind: Kind, stage: Stage]]
  /\ conn \subseteq Request

Init ==
  /\ LimiterInit
  /\ call = [r \in Request |-> NoCall]
  /\ request \in [Request -> {[kind |-> "readyz", stage |-> "idle"]}]
  /\ conn = {}

Goto(r, stage) == request' = [request EXCEPT ![r].stage = stage]
At(r, stage) == request[r].stage = stage
Is(r, kind) == request[r].kind = kind

-----------------------------------------------------------------------------
(* The middleware. *)

Exempt == {"readyz"}

Bypasses(kind) == ~RateLimitEnabled \/ kind = "options" \/ kind \in Exempt

BucketOf(kind) ==
  CASE kind = "login" -> "auth"
    [] kind \in {"chat", "stream"} -> "chat"
    [] OTHER -> "default"

KeyOf(r, kind) == <<ClientOf[r], BucketOf(kind)>>

Arrive(r, kind) ==
  LET become(stage) == request' = [request EXCEPT ![r] = [kind |-> kind, stage |-> stage]]
      through == become(IF kind = "options" THEN "idle" ELSE "queued")
  IN
  /\ request[r].stage \in Rest
  /\ \/ Bypasses(kind) /\ through /\ UNCHANGED <<hits, recent>>
     \/ ~Bypasses(kind) /\ Admit(KeyOf(r, kind)) /\ through
     \/ ~Bypasses(kind) /\ Refuse(KeyOf(r, kind)) /\ become("limited")
     \/ ~Bypasses(kind) /\ Crash(KeyOf(r, kind)) /\ become("crashed")
  /\ UNCHANGED <<call, conn>>

-----------------------------------------------------------------------------
(* Connections. *)

Checkout(r, from, to) ==
  /\ At(r, from) /\ Cardinality(conn) < PoolSize
  /\ Goto(r, to)
  /\ conn' = conn \union {r}
  /\ UNCHANGED <<hits, recent, call>>

\* The pool gives up after 30 s without a free connection.
CheckoutFails(r) ==
  /\ At(r, "queued") \/ At(r, "requeued")
  /\ Cardinality(conn) >= PoolSize
  /\ Goto(r, "idle")
  /\ call' = [call EXCEPT ![r] = NoCall]
  /\ UNCHANGED <<hits, recent, conn>>

\* Mutated: the rollback of a failed chat forgets its connection.
End_Leaks(r) ==
  /\ Goto(r, "idle")
  /\ conn' = IF call[r].outcome \in {"pending", "reply"} THEN conn \ {r} ELSE conn
  /\ call' = [call EXCEPT ![r] = NoCall]
  /\ UNCHANGED <<hits, recent>>

\* The transaction ends, by commit or rollback, and the answer is sent.
End(r) ==
  /\ Goto(r, "idle")
  /\ conn' = conn \ {r}
  /\ call' = [call EXCEPT ![r] = NoCall]
  /\ UNCHANGED <<hits, recent>>

-----------------------------------------------------------------------------
(* Handlers. *)

Begin(r) == Checkout(r, "queued", "working")

\* The handler answers, or fails, without the model: a chat that is invalid or
\* has no provider ends here as well.
Finish(r) == At(r, "working") /\ End(r)

AskModel(r) ==
  /\ At(r, "working") /\ Is(r, "chat")
  /\ Send(r) /\ Goto(r, "asking")
  /\ UNCHANGED <<hits, recent, conn>>

HearModel(r, a) ==
  /\ At(r, "asking") /\ Hear(r, a)
  /\ UNCHANGED <<hits, recent, request, conn>>

AskAgain(r) ==
  /\ At(r, "asking") /\ Wake(r)
  /\ UNCHANGED <<hits, recent, request, conn>>

\* The reply is committed, or the error rolls the prompt back.
AnswerChat(r) == At(r, "asking") /\ call[r].stage = "over" /\ End(r)

\* The prompt is committed, and then the stream begins.
StartStream(r) ==
  /\ At(r, "working") /\ Is(r, "stream")
  /\ Send(r) /\ Goto(r, "streaming")
  /\ conn' = conn \ {r}
  /\ UNCHANGED <<hits, recent>>

Stream(r) ==
  /\ At(r, "streaming")
  /\ StreamOpens(r) \/ Delta(r) \/ StreamCloses(r)
  /\ UNCHANGED <<hits, recent, request, conn>>

\* The finally block: whatever text there is will be stored.
LeaveStream(r, stage) ==
  /\ At(r, "streaming")
  /\ Goto(r, stage)
  /\ call' = [call EXCEPT ![r] = NoCall]
  /\ UNCHANGED <<hits, recent, conn>>

EndStream(r) ==
  /\ call[r].stage = "over"
  /\ LeaveStream(r, IF call[r].text THEN "requeued" ELSE "idle")

\* The client goes away; the generator is closed, and the finally block may be
\* cancelled at its first await.
Disconnect(r) ==
  /\ call[r].stage # "over"
  /\ \/ call[r].text /\ LeaveStream(r, "requeued")
     \/ LeaveStream(r, "idle")

Store(r) == Checkout(r, "requeued", "storing")
FinishStore(r) == At(r, "storing") /\ End(r)

-----------------------------------------------------------------------------
Progress(r) ==
  \/ Begin(r) \/ CheckoutFails(r) \/ Finish(r)
  \/ AskModel(r) \/ AskAgain(r) \/ AnswerChat(r)
  \/ StartStream(r) \/ Stream(r) \/ EndStream(r) \/ Store(r) \/ FinishStore(r)
  \/ \E a \in Answer : HearModel(r, a)

Next ==
  \/ Tick /\ UNCHANGED <<call, request, conn>>
  \/ \E r \in Request :
       \/ \E kind \in Kinds[r] : Arrive(r, kind)
       \/ Progress(r)
       \/ Disconnect(r)

\* The pool answers within 30 s, the provider or a timeout within 120 s of its
\* last byte, a sleep ends; what the provider sends is finite.
Fairness == \A r \in Request : WF_vars(Progress(r))

Spec == Init /\ [][Next]_vars /\ Fairness

-----------------------------------------------------------------------------
(* Properties. *)

\* A request is let through if and only if it bypasses the limiter or less than
\* the limit of its bucket was let through in the 60 s that end now, both ends
\* included, for this client: other buckets and what bypasses never use it up,
\* and what is older never counts (middleware/core.py 86-97, 142-158).
Spent(r, kind) == LET k == KeyOf(r, kind) IN Len(recent[k]) >= Limit[k[2]]

DecidesExactly == \A r \in Request :
  LET kind == request'[r].kind
      stage == request'[r].stage
  IN request[r].stage \in Rest /\ request'[r] # request[r] =>
       \/ stage \in {"queued", "idle"} /\ (Bypasses(kind) \/ ~Spent(r, kind))
       \/ stage \in {"limited", "crashed"} /\ ~Bypasses(kind) /\ Spent(r, kind)

LimiterIsExact == [][DecidesExactly]_vars

\* Whoever waits, streams or has its answer holds no connection, whichever way
\* it came there, and the pool is never overdrawn.
ConnectionsAreReturned ==
  /\ conn = {r \in Request : request[r].stage \in Holding}
  /\ Cardinality(conn) <= PoolSize

\* What complete returns or raises is explained by the last thing it heard; all
\* before it could have gone better the next time, and it gives up on such a
\* thing only after MaxRetries + 1 attempts (sakana_client.py 132-184).
ErrorsAreExplained == \A r \in Request :
  At(r, "asking") /\ call[r].stage = "over" =>
    LET n == Len(call[r].heard)
        last == call[r].heard[n]
    IN /\ Explains(last, call[r].outcome)
       /\ \A i \in 1..n - 1 : Transient(call[r].heard[i])
       /\ Transient(last) => n = MaxRetries + 1

\* Every request that is let through comes to an end, also when all connections
\* are held by chats that wait for the model.
EveryRequestEnds == \A r \in Request :
  request[r].stage \notin Rest ~> request[r].stage \in Rest
=============================================================================
