---------------------------- MODULE RateLimiter -----------------------------
(***************************************************************************)
(* RateLimitMiddleware (middleware/core.py) of one process: for each       *)
(* client and bucket, the times of the requests it let through.  It is a   *)
(* sliding log, although its docstring calls it a fixed window.            *)
(*                                                                         *)
(* A time is kept as its age in ticks; an age beyond the window stays at   *)
(* Window + 1.  A key that is never used again keeps its times (nothing    *)
(* removes them), which here costs nothing.                                *)
(***************************************************************************)
EXTENDS Naturals, Sequences

CONSTANTS
  Client,
  Limit,      \* per bucket: how many requests a window admits
  Window      \* 60 seconds, in ticks

Bucket == {"auth", "chat", "default"}
Key == Client \X Bucket

ASSUME LimitAssumption == Limit \in [Bucket -> Nat] /\ Window \in Nat

VARIABLES
  hits,     \* _hits: per key the ages, the oldest first
  recent    \* history: the ages of what was let through, forgotten in time

LimiterTypeOK ==
  /\ hits \in [Key -> Seq(0..Window + 1)]
  /\ recent \in [Key -> Seq(0..Window)]

LimiterInit ==
  /\ hits = [k \in Key |-> <<>>]
  /\ recent = [k \in Key |-> <<>>]

InWindow(age) == age <= Window
Aged(s) == [i \in DOMAIN s |-> IF InWindow(s[i]) THEN s[i] + 1 ELSE s[i]]

\* popleft while the oldest is older than the window: so many are dropped.
Expired(s) == CHOOSE n \in 0..Len(s) :
  /\ \A i \in 1..n : ~InWindow(s[i])
  /\ n < Len(s) => InWindow(s[n + 1])

Young(s) == SubSeq(s, Expired(s) + 1, Len(s))

\* Time passes.
Tick ==
  /\ hits' = [k \in Key |-> Aged(hits[k])]
  /\ recent' = [k \in Key |-> Young(Aged(recent[k]))]

\* Mutated: a request exactly one window old is no longer counted.
Kept_Open(k) == SelectSeq(hits[k], LAMBDA age : age < Window)

Kept(k) == Young(hits[k])

Full(k) == Len(Kept(k)) >= Limit[k[2]]

Admit(k) ==
  /\ ~Full(k)
  /\ hits' = [hits EXCEPT ![k] = Append(Kept(k), 0)]
  /\ recent' = [recent EXCEPT ![k] = Append(@, 0)]

\* 429 with a Retry-After computed from the oldest time.
Refuse(k) ==
  /\ Full(k) /\ Kept(k) # <<>>
  /\ hits' = [hits EXCEPT ![k] = Kept(k)]
  /\ UNCHANGED recent

\* With a limit of zero there is no oldest time: IndexError, a 500.
Crash(k) ==
  /\ Full(k) /\ Kept(k) = <<>>
  /\ hits' = [hits EXCEPT ![k] = Kept(k)]
  /\ UNCHANGED recent
=============================================================================
