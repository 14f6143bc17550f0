------------------------- MODULE ChatServiceProofs --------------------------
(***************************************************************************)
(* Proofs about ChatService for every number of requests and clients,      *)
(* every set of answers, every limit, window, pool size and number of      *)
(* retries.                                                                *)
(***************************************************************************)
EXTENDS ChatService, WellFoundedInduction, SequenceTheorems, FiniteSetTheorems, TLAPS

-----------------------------------------------------------------------------
(* What dropping the expired times does to a log, for every limit, window   *)
(* and number of clients.  That popleft stops at all is because Nat is      *)
(* well-founded; the rest is arithmetic on positions.                       *)

Log == Seq(0..Window + 1)

\* The oldest come first.
Sorted(s) == \A i, j \in 1..Len(s) : i <= j => s[i] >= s[j]

\* n times of s are dropped.
Drops(s, n) ==
  /\ \A i \in 1..n : ~InWindow(s[i])
  /\ n < Len(s) => InWindow(s[n + 1])

LEMMA LogIs ==
  ASSUME NEW s \in Log
  PROVE  /\ Len(s) \in Nat /\ DOMAIN s = 1..Len(s)
         /\ \A i \in 1..Len(s) : s[i] \in 0..Window + 1
  BY LenProperties, ElementOfSeq DEF Log

LEMMA LeastElement ==
  ASSUME NEW T \in SUBSET Nat, T # {}
  PROVE  \E n \in T : \A m \in T : n <= m
  <1>1. PICK n \in T : \A m \in T : ~(<<m, n>> \in OpToRel(<, Nat))
    BY NatLessThanWellFounded, WFMin
  <1>2. \A m \in T : ~(m < n)
    BY <1>1 DEF OpToRel
  <1>3. QED
    BY <1>2

\* The loop has a result.
LEMMA ExpiredDef ==
  ASSUME NEW s \in Log
  PROVE  Expired(s) \in 0..Len(s) /\ Drops(s, Expired(s))
  <1> DEFINE T == {i \in 1..Len(s) : InWindow(s[i])}
  <1>1. \E n \in 0..Len(s) : Drops(s, n)
    <2>1. CASE T = {}
      BY <2>1 DEF Drops, Log
    <2>2. CASE T # {}
      <3>1. PICK i \in T : \A j \in T : i <= j
        <4>1. T \in SUBSET Nat
          OBVIOUS
        <4>2. QED
          BY <2>2, <4>1, LeastElement
      <3>2. i - 1 \in 0..Len(s) /\ Drops(s, i - 1)
        BY <3>1 DEF Drops, Log
      <3>3. QED
        BY <3>2
    <2>3. QED
      BY <2>1, <2>2
  <1>2. QED
    BY <1>1 DEF Expired, Drops

\* In a sorted log it is the only one: all that stays is in the window.
LEMMA ExpiredUnique ==
  ASSUME NEW s \in Log, Sorted(s), NEW n \in 0..Len(s), Drops(s, n)
  PROVE  Expired(s) = n
  <1>1. Expired(s) \in 0..Len(s) /\ Drops(s, Expired(s))
    BY ExpiredDef
  <1>2. Len(s) \in Nat
    BY DEF Log
  <1>3. ~(Expired(s) < n)
    BY <1>1, <1>2 DEF Drops
  <1>4. ~(n < Expired(s))
    BY <1>1, <1>2 DEF Drops
  <1>5. QED
    BY <1>1, <1>2, <1>3, <1>4

LEMMA YoungIs ==
  ASSUME NEW s \in Log, Sorted(s)
  PROVE  /\ Young(s) \in Seq(0..Window) /\ Young(s) \in Log
         /\ Len(Young(s)) = Len(s) - Expired(s)
         /\ \A i \in 1..Len(Young(s)) : Young(s)[i] = s[Expired(s) + i]
  <1>1. Expired(s) \in 0..Len(s) /\ Drops(s, Expired(s))
    BY ExpiredDef
  <1>2. Len(s) \in Nat /\ \A i \in 1..Len(s) : s[i] \in 0..Window + 1
    BY LogIs
  <1>3. \A i \in Expired(s) + 1..Len(s) : s[i] \in 0..Window
    BY <1>1, <1>2, LimitAssumption DEF Drops, Sorted, InWindow
  <1>4. /\ Young(s) \in Seq(0..Window)
        /\ Len(Young(s)) = Len(s) - Expired(s)
        /\ \A i \in 1..Len(Young(s)) : Young(s)[i] = s[Expired(s) + i]
    BY <1>1, <1>2, <1>3, SubSeqProperties DEF Young
  <1>5. Young(s) \in Log
    BY <1>4, LimitAssumption, SeqMonotonic DEF Log
  <1>6. QED
    BY <1>4, <1>5

\* What is left of a log is sorted, and what is added is the youngest.
LEMMA YoungIsSorted ==
  ASSUME NEW s \in Log, Sorted(s) PROVE Sorted(Young(s))
  <1>1. /\ Expired(s) \in 0..Len(s)
        /\ Len(s) \in Nat /\ \A i \in 1..Len(s) : s[i] \in 0..Window + 1
    BY ExpiredDef, LogIs
  <1>2. /\ Len(Young(s)) = Len(s) - Expired(s)
        /\ \A i \in 1..Len(Young(s)) : Young(s)[i] = s[Expired(s) + i]
    BY YoungIs
  <1>3. \A i \in 1..Len(Young(s)) : Expired(s) + i \in 1..Len(s)
    BY <1>1, <1>2
  <1>4. QED
    BY <1>1, <1>2, <1>3 DEF Sorted

LEMMA Grows ==
  ASSUME NEW s \in Seq(0..Window), Sorted(s)
  PROVE  /\ Append(s, 0) \in Seq(0..Window) /\ Append(s, 0) \in Log
         /\ Sorted(Append(s, 0))
  <1>1. 0 \in 0..Window /\ 0..Window \subseteq 0..Window + 1
    BY LimitAssumption
  <1>2. Append(s, 0) \in Seq(0..Window) /\ Append(s, 0) \in Log
    BY <1>1, AppendProperties, SeqMonotonic DEF Log
  <1>3. /\ Len(s) \in Nat /\ \A i \in 1..Len(s) : s[i] \in 0..Window
        /\ Len(Append(s, 0)) = Len(s) + 1
        /\ \A i \in 1..Len(s) : Append(s, 0)[i] = s[i]
        /\ Append(s, 0)[Len(s) + 1] = 0
    <2>1. Len(s) \in Nat /\ \A i \in 1..Len(s) : s[i] \in 0..Window
      BY LenProperties, ElementOfSeq
    <2>2. QED
      BY <1>1, <2>1, AppendProperties
  <1>4. Sorted(Append(s, 0))
    <2> SUFFICES ASSUME NEW i \in 1..Len(s) + 1, NEW j \in 1..Len(s) + 1, i <= j
                 PROVE  Append(s, 0)[i] >= Append(s, 0)[j]
      BY <1>3 DEF Sorted
    <2>1. CASE j = Len(s) + 1
      BY <1>3, <2>1, LimitAssumption
    <2>2. CASE j # Len(s) + 1
      BY <1>3, <2>2 DEF Sorted
    <2>3. QED
      BY <2>1, <2>2
  <1>5. QED
    BY <1>2, <1>4

\* Nothing is dropped from a log all of which is in the window.
LEMMA YoungStays ==
  ASSUME NEW s \in Seq(0..Window), Sorted(s) PROVE s \in Log /\ Young(s) = s
  <1>1. s \in Log
    BY LimitAssumption, SeqMonotonic DEF Log
  <1>2. 0 \in 0..Len(s) /\ Drops(s, 0)
    BY LimitAssumption DEF Drops, InWindow
  <1>3. Expired(s) = 0
    BY <1>1, <1>2, ExpiredUnique
  <1>4. QED
    BY <1>1, <1>3, SubSeqFull DEF Young

LEMMA AgedIs ==
  ASSUME NEW s \in Log, Sorted(s)
  PROVE  /\ Aged(s) \in Log /\ Sorted(Aged(s)) /\ Len(Aged(s)) = Len(s)
         /\ \A i \in 1..Len(s) : Aged(s)[i] = IF InWindow(s[i]) THEN s[i] + 1 ELSE s[i]
  <1>1. /\ Len(s) \in Nat /\ DOMAIN s = 1..Len(s)
        /\ \A i \in 1..Len(s) : s[i] \in 0..Window + 1
    BY LogIs
  <1>2. /\ DOMAIN Aged(s) = 1..Len(s)
        /\ \A i \in 1..Len(s) : Aged(s)[i] = IF InWindow(s[i]) THEN s[i] + 1 ELSE s[i]
        /\ \A i \in 1..Len(s) : Aged(s)[i] \in 0..Window + 1
    BY <1>1, LimitAssumption DEF Aged, InWindow
  <1>3. Aged(s) \in Log /\ Len(Aged(s)) = Len(s)
    BY <1>1, <1>2, IsASeq DEF Log, Aged
  <1>4. Sorted(Aged(s))
    BY <1>1, <1>2, <1>3, LimitAssumption DEF Sorted, InWindow
  <1>5. QED
    BY <1>2, <1>3, <1>4

\* Dropping early or late makes no difference: what is dropped at one time
\* would be dropped at any later one.
LEMMA DropsAnytime ==
  ASSUME NEW s \in Log, Sorted(s)
  PROVE  Young(Aged(Young(s))) = Young(Aged(s))
  <1> DEFINE n == Expired(s)
             y == Young(s)
             a == Aged(s)
             m == Expired(a)
  <1>1. /\ n \in 0..Len(s) /\ Drops(s, n)
        /\ Len(s) \in Nat /\ \A i \in 1..Len(s) : s[i] \in 0..Window + 1
    BY ExpiredDef, LogIs
  <1>2. /\ y \in Log /\ Sorted(y) /\ Len(y) = Len(s) - n
        /\ \A i \in 1..Len(y) : y[i] = s[n + i]
    BY YoungIs, YoungIsSorted
  <1>3. /\ a \in Log /\ Sorted(a) /\ Len(a) = Len(s)
        /\ \A i \in 1..Len(s) : a[i] = IF InWindow(s[i]) THEN s[i] + 1 ELSE s[i]
    BY AgedIs
  <1>4. m \in 0..Len(a) /\ Drops(a, m)
    BY <1>3, ExpiredDef
  <1>5. /\ Aged(y) \in Log /\ Sorted(Aged(y)) /\ Len(Aged(y)) = Len(y)
        /\ \A i \in 1..Len(y) : Aged(y)[i] = IF InWindow(y[i]) THEN y[i] + 1 ELSE y[i]
    BY <1>2, AgedIs
  <1> HIDE DEF n, y, a, m
  <1>6. n <= m
    <2> SUFFICES ASSUME m < n PROVE FALSE
      BY <1>1, <1>3, <1>4
    <2>1. m + 1 \in 1..n /\ m + 1 \in 1..Len(s) /\ InWindow(a[m + 1])
      BY <1>1, <1>3, <1>4 DEF Drops
    <2>2. ~InWindow(s[m + 1])
      BY <1>1, <2>1 DEF Drops
    <2>3. a[m + 1] = s[m + 1]
      BY <1>3, <2>1, <2>2
    <2>4. QED
      BY <2>1, <2>2, <2>3
  <1>7. \A i \in 1..Len(y) : Aged(y)[i] = a[n + i]
    BY <1>1, <1>2, <1>3, <1>5
  <1>8. m - n \in 0..Len(Aged(y)) /\ Drops(Aged(y), m - n)
    <2>1. m - n \in 0..Len(Aged(y))
      BY <1>1, <1>2, <1>3, <1>4, <1>5, <1>6
    <2>2. ASSUME NEW i \in 1..m - n PROVE ~InWindow(Aged(y)[i])
      <3>1. n + i \in 1..m /\ i \in 1..Len(y)
        BY <1>1, <1>2, <1>3, <1>4, <1>5, <2>1
      <3>2. QED
        BY <1>4, <1>7, <3>1 DEF Drops
    <2>3. ASSUME m - n < Len(Aged(y)) PROVE InWindow(Aged(y)[m - n + 1])
      <3>1. m < Len(a) /\ m - n + 1 \in 1..Len(y) /\ n + (m - n + 1) = m + 1
        BY <1>1, <1>2, <1>3, <1>4, <1>5, <2>1, <2>3
      <3>2. QED
        BY <1>4, <1>7, <3>1 DEF Drops
    <2>4. QED
      BY <2>1, <2>2, <2>3 DEF Drops
  <1>9. Expired(Aged(y)) = m - n
    BY <1>5, <1>8, ExpiredUnique
  <1>10. /\ Young(a) \in Seq(0..Window) /\ Len(Young(a)) = Len(a) - m
         /\ \A i \in 1..Len(Young(a)) : Young(a)[i] = a[m + i]
    BY <1>3, YoungIs DEF m
  <1>11. /\ Young(Aged(y)) \in Seq(0..Window)
         /\ Len(Young(Aged(y))) = Len(y) - (m - n)
         /\ \A i \in 1..Len(Young(Aged(y))) : Young(Aged(y))[i] = Aged(y)[m - n + i]
    BY <1>5, <1>9, YoungIs
  <1>12. Len(Young(Aged(y))) = Len(Young(a))
    BY <1>1, <1>2, <1>3, <1>4, <1>10, <1>11
  <1>13. ASSUME NEW i \in 1..Len(Young(a)) PROVE Young(Aged(y))[i] = Young(a)[i]
    <2>1. m - n + i \in 1..Len(y) /\ n + (m - n + i) = m + i
      BY <1>1, <1>2, <1>3, <1>4, <1>6, <1>10
    <2>2. QED
      BY <1>7, <1>10, <1>11, <1>12, <2>1
  <1>14. Young(Aged(y)) = Young(a)
    BY <1>10, <1>11, <1>12, <1>13, SeqEqual
  <1>15. QED
    BY <1>14 DEF y, a

-----------------------------------------------------------------------------
(***************************************************************************)
(* The logs hold, besides expired times, exactly what was let through in   *)
(* the window that ends now.                                               *)
(***************************************************************************)
LimiterInv ==
  /\ hits \in [Key -> Log]
  /\ recent \in [Key -> Seq(0..Window)]
  /\ \A k \in Key : Sorted(hits[k]) /\ recent[k] = Young(hits[k])

LEMMA LimiterTyped == LimiterInv => LimiterTypeOK
  BY DEF LimiterInv, LimiterTypeOK, Log

LEMMA InitLimiterInv == LimiterInit => LimiterInv
  <1> SUFFICES ASSUME LimiterInit PROVE LimiterInv
    OBVIOUS
  <1>1. << >> \in Seq(0..Window) /\ << >> \in Log /\ Sorted(<< >>)
    BY EmptySeq DEF Log, Sorted
  <1>2. Young(<< >>) = << >>
    BY <1>1, YoungStays
  <1>3. QED
    BY <1>1, <1>2 DEF LimiterInit, LimiterInv

LEMMA TickLimiterInv == ASSUME LimiterInv, Tick PROVE LimiterInv'
  <1> SUFFICES ASSUME NEW k \in Key
               PROVE  /\ hits'[k] \in Log /\ Sorted(hits'[k])
                      /\ recent'[k] \in Seq(0..Window) /\ recent'[k] = Young(hits'[k])
    BY DEF LimiterInv, Tick
  <1>1. hits[k] \in Log /\ Sorted(hits[k]) /\ recent[k] = Young(hits[k])
    BY DEF LimiterInv
  <1>2. hits'[k] = Aged(hits[k]) /\ recent'[k] = Young(Aged(recent[k]))
    BY DEF Tick
  <1>3. hits'[k] \in Log /\ Sorted(hits'[k])
    BY <1>1, <1>2, AgedIs
  <1>4. recent'[k] = Young(hits'[k])
    BY <1>1, <1>2, DropsAnytime
  <1>5. QED
    BY <1>3, <1>4, YoungIs

\* A step of the limiter on k, after which its log is s.
LEMMA StepLimiterInv ==
  ASSUME LimiterInv, NEW k \in Key, NEW s \in Seq(0..Window), Sorted(s),
         hits' = [hits EXCEPT ![k] = s], recent' = [recent EXCEPT ![k] = s]
  PROVE  LimiterInv'
  <1>1. s \in Log /\ Young(s) = s
    BY YoungStays
  <1>2. QED
    BY <1>1 DEF LimiterInv

LEMMA KeptIsRecent ==
  ASSUME LimiterInv, NEW k \in Key
  PROVE  /\ Kept(k) = recent[k] /\ Kept(k) \in Seq(0..Window) /\ Sorted(Kept(k))
         /\ recent = [recent EXCEPT ![k] = Kept(k)]
  BY YoungIsSorted DEF LimiterInv, Kept

LEMMA AdmitLimiterInv == ASSUME LimiterInv, NEW k \in Key, Admit(k) PROVE LimiterInv'
  BY KeptIsRecent, Grows, StepLimiterInv DEF Admit

LEMMA RefuseLimiterInv ==
  ASSUME LimiterInv, NEW k \in Key, Refuse(k) \/ Crash(k) PROVE LimiterInv'
  BY KeptIsRecent, StepLimiterInv DEF Refuse, Crash

-----------------------------------------------------------------------------
(* The whole service. *)

ServiceTyped ==
  /\ call \in [Request -> Call]
  /\ request \in [Request -> [kind: Kind, stage: Stage]]

(***************************************************************************)
(* A call c of a request at a stage: a sleeping call has an attempt left,  *)
(* and of a chat that asks, everything heard is counted, transient but for *)
(* the end, and the end explains the outcome.                              *)
(***************************************************************************)
Concluded(c) ==
  LET n == Len(c.heard) IN
  /\ Explains(c.heard[n], c.outcome)
  /\ Transient(c.heard[n]) => n = MaxRetries + 1

CallSound(stage, c) ==
  LET n == Len(c.heard) IN
  /\ c.stage = "asleep" => c.attempt < MaxRetries
  /\ stage = "asking" =>
       /\ c.stage \in {"sent", "asleep", "over"}
       /\ n = IF c.stage = "sent" THEN c.attempt ELSE c.attempt + 1
       /\ \A i \in 1..n : c.stage # "over" \/ i < n => Transient(c.heard[i])
       /\ c.stage = "over" => Concluded(c)

CallsSound == \A r \in Request : CallSound(request[r].stage, call[r])

\* Who holds a connection is determined by the stages of the requests.
Pool == IsFiniteSet(conn) /\ ConnectionsAreReturned

IInv == LimiterInv /\ ServiceTyped /\ CallsSound /\ Pool

-----------------------------------------------------------------------------
(* Outcomes. *)

\* An attempt that ends the loop is explained by its answer, which no retry
\* would have improved; one that may be retried was transient, and explains
\* what becomes of it if it was the last.
LEMMA OutcomeExplained ==
  ASSUME NEW a \in Answers
  PROVE  /\ Attempted(a) # "retry" => /\ Attempted(a) \in Outcome
                                      /\ Explains(a, Attempted(a)) /\ ~Transient(a)
         /\ Attempted(a) = "retry" => /\ Final(a) \in Outcome
                                      /\ Explains(a, Final(a)) /\ Transient(a)
  <1> USE DEF Answers, Outcome, Explains, Transient, RetryStatus
  <1>1. CASE a.arrived # "response"
    BY <1>1 DEF Attempted, Final
  <1>2. CASE a.arrived = "response" /\ a.status = 200
    <2>1. Attempted(a) = Parse(a)
      BY <1>2 DEF Attempted
    <2>2. Parse(a) \in Outcome /\ Explains(a, Parse(a)) /\ ~Transient(a) /\ Parse(a) # "retry"
      BY <1>2 DEF Parse
    <2>3. QED
      BY <2>1, <2>2
  <1>3. CASE a.arrived = "response" /\ a.status # 200
    <2>1. Attempted(a) = RaiseForStatus(a) /\ Final(a) = Exhausted(a)
      BY <1>3 DEF Attempted, Final
    <2>2. RaiseForStatus(a) # "retry" =>
            /\ RaiseForStatus(a) \in Outcome
            /\ Explains(a, RaiseForStatus(a)) /\ ~Transient(a)
      BY <1>3 DEF RaiseForStatus
    <2>3. RaiseForStatus(a) = "retry" =>
            Exhausted(a) \in Outcome /\ Explains(a, Exhausted(a)) /\ Transient(a)
      BY <1>3 DEF RaiseForStatus, Exhausted
    <2>4. QED
      BY <2>1, <2>2, <2>3
  <1>4. QED
    BY <1>1, <1>2, <1>3

-----------------------------------------------------------------------------
(* One request moves. *)

LEMMA PoolStep ==
  ASSUME IInv, NEW r \in Request, NEW q \in [kind: Kind, stage: Stage],
         request' = [request EXCEPT ![r] = q],
         conn' = IF q.stage \in Holding THEN conn \union {r} ELSE conn \ {r},
         q.stage \in Holding => request[r].stage \in Holding \/ Cardinality(conn) < PoolSize
  PROVE  Pool'
  <1>1. /\ IsFiniteSet(conn) /\ Cardinality(conn) \in Nat /\ Cardinality(conn) <= PoolSize
        /\ conn = {p \in Request : request[p].stage \in Holding}
        /\ PoolSize \in Nat
    BY FS_CardinalityType, ServiceAssumption DEF IInv, Pool, ConnectionsAreReturned
  <1>2. conn' = {p \in Request : request'[p].stage \in Holding}
    BY <1>1 DEF IInv, ServiceTyped
  <1>3. IsFiniteSet(conn') /\ Cardinality(conn') <= PoolSize
    <2>1. CASE q.stage \in Holding /\ r \notin conn
      <3>1. conn' = conn \union {r} /\ Cardinality(conn) < PoolSize
        BY <1>1, <2>1
      <3>2. /\ IsFiniteSet(conn \union {r})
            /\ Cardinality(conn \union {r}) = Cardinality(conn) + 1
        <4>1. IsFiniteSet(conn)
          BY <1>1
        <4>2. QED
          BY <2>1, <4>1, FS_AddElement
      <3>3. Cardinality(conn) + 1 <= PoolSize
        BY <1>1, <3>1
      <3>4. QED
        BY <3>1, <3>2, <3>3
    <2>2. CASE q.stage \in Holding /\ r \in conn
      <3>1. conn' = conn
        BY <2>2
      <3>2. QED
        BY <1>1, <3>1
    <2>3. CASE q.stage \notin Holding
      <3>1. conn' = conn \ {r} /\ conn \ {r} \subseteq conn
        BY <2>3
      <3>2. QED
        BY <1>1, <3>1, FS_Subset, FS_CardinalityType
    <2>4. QED
      BY <2>1, <2>2, <2>3
  <1>4. QED
    BY <1>2, <1>3 DEF Pool, ConnectionsAreReturned

LEMMA Step ==
  ASSUME IInv, NEW r \in Request, NEW q \in [kind: Kind, stage: Stage], NEW c \in Call,
         LimiterInv',
         request' = [request EXCEPT ![r] = q], call' = [call EXCEPT ![r] = c],
         CallSound(q.stage, c),
         conn' = IF q.stage \in Holding THEN conn \union {r} ELSE conn \ {r},
         q.stage \in Holding => request[r].stage \in Holding \/ Cardinality(conn) < PoolSize
  PROVE  IInv'
  <1>1. ServiceTyped'
    BY DEF IInv, ServiceTyped
  <1>2. CallsSound'
    BY DEF IInv, ServiceTyped, CallsSound
  <1>3. Pool'
    BY PoolStep
  <1>4. QED
    BY <1>1, <1>2, <1>3 DEF IInv

LEMMA LimiterRests == LimiterInv /\ UNCHANGED <<hits, recent>> => LimiterInv'
  BY DEF LimiterInv

LEMMA NoCallSound ==
  ASSUME NEW stage, stage # "asking"
  PROVE  NoCall \in Call /\ CallSound(stage, NoCall)
  BY ModelAssumption, EmptySeq DEF NoCall, Call, CallSound

\* What is known of a request and its call.
LEMMA Known ==
  ASSUME IInv, NEW r \in Request
  PROVE  /\ request[r] \in [kind: Kind, stage: Stage]
         /\ call[r] \in Call /\ call = [call EXCEPT ![r] = call[r]]
         /\ CallSound(request[r].stage, call[r])
         /\ r \in conn <=> request[r].stage \in Holding
  BY DEF IInv, ServiceTyped, CallsSound, Pool, ConnectionsAreReturned

\* The request goes to another stage, and only there gets or keeps a connection.
LEMMA StageStep ==
  ASSUME IInv, NEW r \in Request, NEW stage \in Stage, NEW c \in Call,
         Goto(r, stage), call' = [call EXCEPT ![r] = c],
         CallSound(stage, c), UNCHANGED <<hits, recent>>,
         conn' = IF stage \in Holding THEN conn \union {r} ELSE conn \ {r},
         stage \in Holding => request[r].stage \in Holding \/ Cardinality(conn) < PoolSize
  PROVE  IInv'
  <1> DEFINE q == [request[r] EXCEPT !.stage = stage]
  <1>1. q \in [kind: Kind, stage: Stage] /\ q.stage = stage
    BY Known
  <1>2. request' = [request EXCEPT ![r] = q]
    BY DEF Goto
  <1>3. LimiterInv'
    BY LimiterRests DEF IInv
  <1> HIDE DEF q
  <1>4. QED
    BY <1>1, <1>2, <1>3, Step

\* The call makes progress and the request stays where it is.
LEMMA CallStep ==
  ASSUME IInv, NEW r \in Request, NEW c \in Call,
         call' = [call EXCEPT ![r] = c], CallSound(request[r].stage, c),
         UNCHANGED <<hits, recent, request, conn>>
  PROVE  IInv'
  <1>1. request' = [request EXCEPT ![r] = request[r]]
    BY DEF IInv, ServiceTyped
  <1>2. conn' = IF request[r].stage \in Holding THEN conn \union {r} ELSE conn \ {r}
    BY Known
  <1>3. LimiterInv'
    BY LimiterRests DEF IInv
  <1>4. QED
    BY <1>1, <1>2, <1>3, Known, Step

\* A call of no meaning to CallSound: asked by no chat, and not asleep.
LEMMA OtherCallSound ==
  ASSUME NEW stage, NEW c, stage # "asking", c.stage # "asleep"
  PROVE  CallSound(stage, c)
  BY DEF CallSound

\* The first attempt is out and nothing is heard yet.
LEMMA SentSound ==
  ASSUME NEW stage, NEW c, c = [NoCall EXCEPT !.stage = "sent"]
  PROVE  c \in Call /\ CallSound(stage, c)
  <1>1. c = [stage |-> "sent", attempt |-> 0, heard |-> <<>>, text |-> FALSE,
             outcome |-> "pending"]
    BY DEF NoCall
  <1>2. c.stage = "sent" /\ c.attempt = 0 /\ c.heard = <<>>
    BY <1>1
  <1>3. <<>> \in Seq(Answer) /\ Len(c.heard) = 0
    BY <1>2
  <1>4. c \in Call
    <2>1. 0 \in 0..MaxRetries
      BY ModelAssumption
    <2>2. [stage |-> "sent", attempt |-> 0, heard |-> <<>>, text |-> FALSE,
           outcome |-> "pending"] \in Call
      BY <1>3, <2>1 DEF Call
    <2>3. QED
      BY <1>1, <2>2
  <1>5. CallSound(stage, c)
    BY <1>2, <1>3 DEF CallSound
  <1>6. QED
    BY <1>4, <1>5

-----------------------------------------------------------------------------
(* The actions. *)

LEMMA ArriveIInv ==
  ASSUME IInv, NEW r \in Request, NEW kind \in Kinds[r], Arrive(r, kind) PROVE IInv'
  <1>1. kind \in Kind /\ KeyOf(r, kind) \in Key
    BY ServiceAssumption DEF KeyOf, Key, BucketOf, Bucket, Kind
  <1>2. /\ request[r].stage \in Rest /\ r \notin conn
        /\ CallSound(request[r].stage, call[r])
    BY Known DEF Arrive, Rest, Holding
  <1>3. LimiterInv'
    BY <1>1, LimiterRests, AdmitLimiterInv, RefuseLimiterInv DEF IInv, Arrive
  <1>4. PICK stage \in {"idle", "queued", "limited", "crashed"} :
          request' = [request EXCEPT ![r] = [kind |-> kind, stage |-> stage]]
    BY DEF Arrive
  <1> DEFINE q == [kind |-> kind, stage |-> stage]
  <1>5. q \in [kind: Kind, stage: Stage] /\ q.stage \notin Holding /\ q.stage # "asking"
    BY <1>1 DEF Stage, Rest, Holding
  <1>6. CallSound(q.stage, call[r])
    BY <1>2, <1>5 DEF CallSound
  <1>7. call' = [call EXCEPT ![r] = call[r]] /\ conn' = conn \ {r}
    BY <1>2, Known DEF Arrive
  <1> HIDE DEF q
  <1>8. request' = [request EXCEPT ![r] = q]
    BY <1>4 DEF q
  <1>9. QED
    BY <1>3, <1>5, <1>6, <1>7, <1>8, Known, Step

LEMMA CheckoutIInv ==
  ASSUME IInv, NEW r \in Request, NEW from, NEW to \in {"working", "storing"},
         Checkout(r, from, to)
  PROVE  IInv'
  <1>1. CallSound(to, call[r])
    BY Known DEF CallSound
  <1>2. to \in Stage /\ to \in Holding
    BY DEF Stage, Holding
  <1>3. QED
    BY <1>1, <1>2, Known, StageStep DEF Checkout

LEMMA EndIInv ==
  ASSUME IInv, NEW r \in Request, End(r) PROVE IInv'
  <1>1. "idle" \in Stage /\ "idle" \notin Holding
    BY DEF Stage, Rest, Holding
  <1>2. QED
    BY <1>1, NoCallSound, StageStep DEF End

LEMMA CheckoutFailsIInv ==
  ASSUME IInv, NEW r \in Request, CheckoutFails(r) PROVE IInv'
  <1>1. "idle" \in Stage /\ "idle" \notin Holding /\ r \notin conn
    BY Known DEF Stage, Rest, Holding, CheckoutFails, At
  <1>2. conn' = conn \ {r}
    BY <1>1 DEF CheckoutFails
  <1>3. QED
    BY <1>1, <1>2, NoCallSound, StageStep DEF CheckoutFails

LEMMA AskModelIInv ==
  ASSUME IInv, NEW r \in Request, AskModel(r) PROVE IInv'
  <1> DEFINE c == [NoCall EXCEPT !.stage = "sent"]
  <1>1. c \in Call /\ CallSound("asking", c)
    BY SentSound
  <1>2. "asking" \in Stage /\ "asking" \in Holding /\ request[r].stage \in Holding
    BY DEF Stage, Holding, AskModel, At
  <1>3. conn' = conn \union {r}
    BY <1>2, Known DEF AskModel
  <1>4. call' = [call EXCEPT ![r] = c]
    BY DEF AskModel, Send, Update
  <1> HIDE DEF c
  <1>5. QED
    BY <1>1, <1>2, <1>3, <1>4, StageStep DEF AskModel

LEMMA HearModelIInv ==
  ASSUME IInv, NEW r \in Request, NEW a \in Answer, HearModel(r, a) PROVE IInv'
  <1> DEFINE c == call[r]
             n == Len(c.heard)
             d(stage, outcome) == [c EXCEPT !.stage = stage, !.outcome = outcome,
                                            !.heard = Append(@, a)]
  <1>1. /\ request[r].stage = "asking" /\ c \in Call /\ c.stage = "sent" /\ n = c.attempt
        /\ \A i \in 1..n : Transient(c.heard[i])
        /\ a \in Answers
    BY Known, ModelAssumption DEF HearModel, Hear, At, CallSound
  <1>2. /\ n \in Nat /\ Append(c.heard, a) \in Seq(Answer)
        /\ Len(Append(c.heard, a)) = n + 1
        /\ \A i \in 1..n : Append(c.heard, a)[i] = c.heard[i]
        /\ Append(c.heard, a)[n + 1] = a
    BY <1>1, LenProperties, AppendProperties DEF Call
  <1>3. ASSUME NEW outcome \in Outcome, call' = [call EXCEPT ![r] = d("over", outcome)],
               Explains(a, outcome), Transient(a) => c.attempt = MaxRetries
        PROVE  IInv'
    <2>1. d("over", outcome) \in Call
      BY <1>1, <1>2 DEF Call
    <2>2. CallSound("asking", d("over", outcome))
      BY <1>1, <1>2, <1>3 DEF CallSound, Concluded, Call
    <2>3. QED
      BY <1>1, <1>3, <2>1, <2>2, CallStep DEF HearModel
  <1>4. ASSUME call' = [call EXCEPT ![r] = [c EXCEPT !.stage = "asleep", !.heard = Append(@, a)]],
               Transient(a), c.attempt # MaxRetries
        PROVE  IInv'
    <2> DEFINE e == [c EXCEPT !.stage = "asleep", !.heard = Append(@, a)]
    <2>1. e \in Call
      BY <1>1, <1>2 DEF Call
    <2>2. CallSound("asking", e)
      BY <1>1, <1>2, <1>4, ModelAssumption DEF CallSound, Call
    <2>3. QED
      BY <1>1, <1>4, <2>1, <2>2, CallStep DEF HearModel
  <1>5. CASE Attempted(a) # "retry"
    <2>1. call' = [call EXCEPT ![r] = d("over", Attempted(a))]
      BY <1>5 DEF HearModel, Hear, Over, Update
    <2>2. QED
      BY <1>1, <1>3, <1>5, <2>1, OutcomeExplained
  <1>6. CASE Attempted(a) = "retry" /\ LastAttempt(r)
    <2>1. call' = [call EXCEPT ![r] = d("over", Final(a))]
      BY <1>6 DEF HearModel, Hear, Over, Update
    <2>2. QED
      BY <1>1, <1>3, <1>6, <2>1, OutcomeExplained DEF LastAttempt
  <1>7. CASE Attempted(a) = "retry" /\ ~LastAttempt(r)
    BY <1>1, <1>4, <1>7, OutcomeExplained DEF HearModel, Hear, Sleep, Update, LastAttempt
  <1>8. QED
    BY <1>5, <1>6, <1>7

LEMMA AskAgainIInv ==
  ASSUME IInv, NEW r \in Request, AskAgain(r) PROVE IInv'
  <1> DEFINE c == call[r]
             d == [c EXCEPT !.stage = "sent", !.attempt = @ + 1]
  <1>1. /\ c \in Call /\ c.stage = "asleep" /\ request[r].stage = "asking"
        /\ CallSound("asking", c)
    BY Known DEF AskAgain, Wake, At
  <1>2. /\ c.attempt \in 0..MaxRetries /\ c.attempt < MaxRetries /\ MaxRetries \in Nat
        /\ Len(c.heard) = c.attempt + 1
        /\ \A i \in 1..Len(c.heard) : Transient(c.heard[i])
    BY <1>1, ModelAssumption DEF Call, CallSound
  <1>3. d.stage = "sent" /\ d.attempt = c.attempt + 1 /\ d.heard = c.heard
    BY <1>1 DEF Call
  <1>4. d \in Call
    <2>1. c.attempt + 1 \in 0..MaxRetries
      BY <1>2
    <2>2. \A n \in 0..MaxRetries : [c EXCEPT !.stage = "sent", !.attempt = n] \in Call
      BY <1>1 DEF Call
    <2>3. QED
      BY <2>1, <2>2
  <1>5. CallSound("asking", d)
    BY <1>2, <1>3 DEF CallSound
  <1>6. call' = [call EXCEPT ![r] = d]
    BY DEF AskAgain, Wake, Update
  <1> HIDE DEF d
  <1>7. QED
    BY <1>1, <1>4, <1>5, <1>6, CallStep DEF AskAgain

LEMMA StartStreamIInv ==
  ASSUME IInv, NEW r \in Request, StartStream(r) PROVE IInv'
  <1> DEFINE c == [NoCall EXCEPT !.stage = "sent"]
  <1>1. c \in Call /\ CallSound("streaming", c)
    BY SentSound
  <1>2. "streaming" \in Stage /\ "streaming" \notin Holding
    BY DEF Stage, Holding
  <1>3. call' = [call EXCEPT ![r] = c]
    BY DEF StartStream, Send, Update
  <1> HIDE DEF c
  <1>4. QED
    BY <1>1, <1>2, <1>3, StageStep DEF StartStream

LEMMA StreamIInv ==
  ASSUME IInv, NEW r \in Request, Stream(r) PROVE IInv'
  <1>1. call[r] \in Call /\ request[r].stage = "streaming"
    BY Known DEF Stream, At
  <1>2. ASSUME NEW c \in Call, c.stage # "asleep", call' = [call EXCEPT ![r] = c]
        PROVE  IInv'
    BY <1>1, <1>2, OtherCallSound, CallStep DEF Stream
  <1>3. ASSUME NEW outcome \in Outcome, StreamOver(r, outcome) PROVE IInv'
    <2> DEFINE c == [call[r] EXCEPT !.stage = "over", !.outcome = outcome]
    <2>1. c \in Call /\ c.stage # "asleep"
      BY <1>1 DEF Call
    <2>2. call' = [call EXCEPT ![r] = c]
      BY <1>3 DEF StreamOver, Update
    <2> HIDE DEF c
    <2>3. QED
      BY <1>2, <2>1, <2>2
  <1>4. "reply" \in Outcome /\ "llm_error" \in Outcome
    BY DEF Outcome
  <1>5. CASE Update(r, [call[r] EXCEPT !.stage = "open"])
    <2> DEFINE c == [call[r] EXCEPT !.stage = "open"]
    <2>1. c \in Call /\ c.stage # "asleep"
      BY <1>1 DEF Call
    <2>2. call' = [call EXCEPT ![r] = c]
      BY <1>5 DEF Update
    <2> HIDE DEF c
    <2>3. QED
      BY <1>2, <2>1, <2>2
  <1>6. CASE Delta(r)
    <2> DEFINE c == [call[r] EXCEPT !.text = TRUE]
    <2>1. c \in Call /\ c.stage # "asleep"
      BY <1>1, <1>6 DEF Call, Delta
    <2>2. call' = [call EXCEPT ![r] = c]
      BY <1>6 DEF Delta, Update
    <2> HIDE DEF c
    <2>3. QED
      BY <1>2, <2>1, <2>2
  <1>7. QED
    BY <1>3, <1>4, <1>5, <1>6 DEF Stream, StreamOpens, StreamCloses

LEMMA LeaveStreamIInv ==
  ASSUME IInv, NEW r \in Request, NEW stage \in {"requeued", "idle"}, LeaveStream(r, stage)
  PROVE  IInv'
  <1>1. stage \in Stage /\ stage \notin Holding /\ stage # "asking" /\ r \notin conn
    BY Known DEF Stage, Rest, Holding, LeaveStream, At
  <1>2. conn' = conn \ {r}
    BY <1>1 DEF LeaveStream
  <1>3. QED
    BY <1>1, <1>2, NoCallSound, StageStep DEF LeaveStream

-----------------------------------------------------------------------------
LEMMA InitIInv == Init => IInv
  <1> SUFFICES ASSUME Init PROVE IInv
    OBVIOUS
  <1>1. LimiterInv
    BY InitLimiterInv DEF Init
  <1>2. /\ request \in [Request -> [kind: Kind, stage: Stage]]
        /\ \A r \in Request : request[r].stage = "idle"
    BY DEF Init, Kind, Stage, Rest
  <1>3. ServiceTyped /\ CallsSound
    BY <1>2, NoCallSound DEF Init, ServiceTyped, CallsSound
  <1>4. Pool
    BY <1>2, FS_EmptySet, ServiceAssumption DEF Init, Pool, ConnectionsAreReturned, Holding
  <1>5. QED
    BY <1>1, <1>3, <1>4 DEF IInv

LEMMA NextIInv == IInv /\ [Next]_vars => IInv'
  <1> SUFFICES ASSUME IInv, [Next]_vars PROVE IInv'
    OBVIOUS
  <1>1. CASE UNCHANGED vars
    BY <1>1, LimiterRests DEF vars, IInv, ServiceTyped, CallsSound, Pool,
                             ConnectionsAreReturned
  <1>2. CASE Tick /\ UNCHANGED <<call, request, conn>>
    BY <1>2, TickLimiterInv DEF IInv, ServiceTyped, CallsSound, Pool,
                               ConnectionsAreReturned
  <1>3. ASSUME NEW r \in Request, NEW kind \in Kinds[r], Arrive(r, kind) PROVE IInv'
    BY <1>3, ArriveIInv
  <1>4. ASSUME NEW r \in Request, Progress(r) PROVE IInv'
    <2>1. CASE Begin(r) \/ Store(r)
      BY <2>1, CheckoutIInv DEF Begin, Store
    <2>2. CASE CheckoutFails(r)
      BY <2>2, CheckoutFailsIInv
    <2>3. CASE Finish(r) \/ AnswerChat(r) \/ FinishStore(r)
      BY <2>3, EndIInv DEF Finish, AnswerChat, FinishStore
    <2>4. CASE AskModel(r) \/ AskAgain(r) \/ StartStream(r) \/ Stream(r)
      BY <2>4, AskModelIInv, AskAgainIInv, StartStreamIInv, StreamIInv
    <2>5. CASE EndStream(r)
      BY <2>5, LeaveStreamIInv DEF EndStream
    <2>6. CASE \E a \in Answer : HearModel(r, a)
      BY <2>6, HearModelIInv
    <2>7. QED
      BY <1>4, <2>1, <2>2, <2>3, <2>4, <2>5, <2>6 DEF Progress
  <1>5. ASSUME NEW r \in Request, Disconnect(r) PROVE IInv'
    BY <1>5, LeaveStreamIInv DEF Disconnect
  <1>6. QED
    BY <1>1, <1>2, <1>3, <1>4, <1>5 DEF Next

LEMMA Invariant == Spec => []IInv
  BY InitIInv, NextIInv, PTL DEF Spec

-----------------------------------------------------------------------------
(* What follows. *)

\* Every reachable state is well typed.
THEOREM TypeCorrect == Spec => []TypeOK
  <1>1. IInv => TypeOK
    BY LimiterTyped DEF IInv, TypeOK, ServiceTyped, Pool, ConnectionsAreReturned
  <1>2. QED
    BY <1>1, Invariant, PTL

\* Whatever the model answers, and whoever goes away, a connection is held only
\* by a request that is in its transaction, and the pool is not overdrawn.
THEOREM ConnectionsAreReturnedHolds == Spec => []ConnectionsAreReturned
  <1>1. IInv => ConnectionsAreReturned
    BY DEF IInv, Pool
  <1>2. QED
    BY <1>1, Invariant, PTL

\* Whatever the provider answers, in whatever order, the outcome of a chat is
\* explained by the last answer, and all attempts are used before it gives up.
THEOREM ErrorsAreExplainedHolds == Spec => []ErrorsAreExplained
  <1>1. ASSUME IInv PROVE ErrorsAreExplained
    <2> SUFFICES ASSUME NEW r \in Request, At(r, "asking"), call[r].stage = "over"
                 PROVE  LET n == Len(call[r].heard) IN
                        /\ Concluded(call[r])
                        /\ \A i \in 1..n - 1 : Transient(call[r].heard[i])
      BY DEF ErrorsAreExplained, Concluded
    <2>1. call[r] \in Call /\ CallSound("asking", call[r])
      BY <1>1, Known DEF At
    <2>2. Len(call[r].heard) \in Nat
      BY <2>1, LenProperties DEF Call
    <2>3. QED
      BY <2>1, <2>2 DEF CallSound
  <1>2. IInv => ErrorsAreExplained
    BY <1>1
  <1>3. QED
    BY <1>2, Invariant, PTL

\* For every limit, zero included, and every window, with the limiter on or off,
\* a request is let through if and only if it bypasses the limiter or the window
\* that ends now has room for it.
THEOREM LimiterIsExactHolds == Spec => LimiterIsExact
  <1>1. ASSUME IInv, Next PROVE DecidesExactly
    <2> SUFFICES ASSUME NEW r \in Request, request[r].stage \in Rest, request'[r] # request[r]
                 PROVE  LET kind == request'[r].kind
                            stage == request'[r].stage
                        IN \/ /\ stage \in {"queued", "idle"}
                              /\ Bypasses(kind) \/ ~Spent(r, kind)
                           \/ /\ stage \in {"limited", "crashed"}
                              /\ ~Bypasses(kind) /\ Spent(r, kind)
      BY DEF DecidesExactly
    <2>1. ASSUME NEW p \in Request, NEW k \in Kinds[p], Arrive(p, k), p # r PROVE FALSE
      BY <1>1, <2>1 DEF Arrive, IInv, ServiceTyped
    <2>2. ASSUME NEW p \in Request, Progress(p) \/ Disconnect(p) PROVE FALSE
      <3>1. request[p].stage \notin Rest
        BY <2>2 DEF Progress, Disconnect, Begin, Store, Checkout, CheckoutFails, Finish,
             AskModel, HearModel, AskAgain, AnswerChat, StartStream, Stream, EndStream,
             LeaveStream, FinishStore, At, Rest
      <3>2. request' = request \/ \E stage : request' = [request EXCEPT ![p].stage = stage]
        BY <2>2 DEF Progress, Disconnect, Begin, Store, Checkout, CheckoutFails, Finish,
             AskModel, HearModel, AskAgain, AnswerChat, StartStream, Stream, EndStream,
             LeaveStream, FinishStore, End, Goto
      <3>3. QED
        BY <1>1, <3>1, <3>2 DEF IInv, ServiceTyped
    <2>3. PICK kind \in Kinds[r] : Arrive(r, kind)
      BY <1>1, <2>1, <2>2 DEF Next
    <2>4. kind \in Kind /\ KeyOf(r, kind) \in Key
      BY ServiceAssumption DEF KeyOf, Key, BucketOf, Bucket, Kind
    <2>5. Full(KeyOf(r, kind)) <=> Spent(r, kind)
      BY <1>1, <2>4, KeptIsRecent DEF IInv, Full, Spent
    <2>6. request'[r].kind = kind
      BY <1>1, <2>3 DEF Arrive, IInv, ServiceTyped
    <2>7. \/ Bypasses(kind) /\ request'[r].stage \in {"queued", "idle"}
          \/ /\ ~Bypasses(kind) /\ ~Full(KeyOf(r, kind))
             /\ request'[r].stage \in {"queued", "idle"}
          \/ /\ ~Bypasses(kind) /\ Full(KeyOf(r, kind))
             /\ request'[r].stage \in {"limited", "crashed"}
      BY <1>1, <2>3 DEF Arrive, Admit, Refuse, Crash, IInv, ServiceTyped
    <2>8. QED
      BY <2>5, <2>6, <2>7
  <1>2. IInv /\ [Next]_vars => [DecidesExactly]_vars
    BY <1>1
  <1>3. QED
    BY <1>2, Invariant, PTL DEF Spec, LimiterIsExact
=============================================================================
