--------------------------- MODULE EmailLinksProofs ---------------------------
(***************************************************************************)
(* Proofs about EmailLinks for every number of users, links and concurrent *)
(* requests.                                                               *)
(***************************************************************************)
EXTENDS EmailLinks, FiniteSetTheorems, TLAPS

(***************************************************************************)
(* What the requests in flight may rely on.  A request that mints knows a  *)
(* value nobody else has; one that has claimed a link owns it: the row is  *)
(* used, has had no effect yet, and no other request has claimed it.       *)
(***************************************************************************)
Minting(r) == handler[r].stage \in {"send", "commit"}
Redeeming(r) == handler[r].stage \in {"claim", "claimed", "effect"}
Owns(r) == handler[r].stage \in {"claimed", "effect"}

Mints ==
  \A r \in Request : Minting(r) =>
    /\ handler[r].caller \in Caller
    /\ handler[r].user \in User
    /\ handler[r].link \in Link \ Stored
    /\ \A q \in Request : handler[q].link = handler[r].link => q = r
    /\ \A l \in handler[r].seen :
         /\ l \in Stored
         /\ row[l].user = handler[r].user
         /\ row[l].purpose = PurposeOf(handler[r].caller)

Redeems ==
  \A r \in Request : Redeeming(r) =>
    /\ handler[r].link \in Stored
    /\ row[handler[r].link].user = handler[r].user
    /\ row[handler[r].link].purpose = handler[r].caller

Owners ==
  \A r \in Request : Owns(r) =>
    /\ row[handler[r].link].used
    /\ redeemed[handler[r].link] = 0
    /\ \A q \in Request : Owns(q) /\ handler[q].link = handler[r].link => q = r

\* A link that is unused, or not stored, has had no effect.
EffectNeedsClaim ==
  \A l \in Link : redeemed[l] > 0 => l \in Stored /\ row[l].used

\* The effects so far can be counted.
FiniteEffects ==
  \A u \in User, p \in Purpose : IsFiniteSet(Redeemed(u, p))

Requests == Mints /\ Redeems /\ Owners
Effects == EffectNeedsClaim /\ RedeemedOnce /\ FiniteEffects /\ EffectsAreRedeemed

IInv == TypeOK /\ Requests /\ Effects

-----------------------------------------------------------------------------
(***************************************************************************)
(* What no step does to the table: rows stay, with their user and purpose, *)
(* and a used link stays used.                                             *)
(***************************************************************************)
RowsKept ==
  /\ Stored \subseteq Stored'
  /\ row' \in [Stored' -> Row]
  /\ \A l \in Stored : /\ row'[l].user = row[l].user
                       /\ row'[l].purpose = row[l].purpose
                       /\ row[l].used => row'[l].used

LEMMA SameRows ==
  ASSUME TypeOK, row' = row
  PROVE  RowsKept /\ Stored' = Stored
  BY DEF RowsKept, Stored, TypeOK

\* One row is changed, in nothing but used and expired.
LEMMA RowChanged ==
  ASSUME TypeOK, NEW l \in Stored,
         row' = [row EXCEPT ![l].used = TRUE] \/ row' = [row EXCEPT ![l].expired = TRUE]
  PROVE  /\ RowsKept /\ Stored' = Stored
         /\ \A k \in Stored \ {l} : row'[k] = row[k]
         /\ row' = [row EXCEPT ![l].used = TRUE] => row'[l].used
         /\ row' = [row EXCEPT ![l].expired = TRUE] => row'[l].used = row[l].used
  <1>1. row \in [Stored -> Row] /\ row[l] \in Row
    BY DEF TypeOK
  <1>2. Stored' = Stored /\ \A k \in Stored \ {l} : row'[k] = row[k]
    BY <1>1 DEF Stored
  <1>3. /\ row'[l] \in Row
        /\ row'[l].user = row[l].user /\ row'[l].purpose = row[l].purpose
        /\ row[l].used => row'[l].used
        /\ row' = [row EXCEPT ![l].used = TRUE] => row'[l].used
        /\ row' = [row EXCEPT ![l].expired = TRUE] => row'[l].used = row[l].used
    <2>1. CASE row' = [row EXCEPT ![l].used = TRUE]
      <3>1. row'[l] = [row[l] EXCEPT !.used = TRUE]
        BY <1>1, <2>1
      <3>2. QED
        BY <1>1, <3>1, <2>1 DEF Row
    <2>2. CASE row' = [row EXCEPT ![l].expired = TRUE]
      <3>1. row'[l] = [row[l] EXCEPT !.expired = TRUE]
        BY <1>1, <2>2
      <3>2. QED
        BY <1>1, <3>1, <2>2 DEF Row
    <2>3. QED
      BY <2>1, <2>2
  <1>4. row' \in [Stored' -> Row]
    BY <1>1, <1>2, <1>3
  <1>5. QED
    BY <1>2, <1>3, <1>4 DEF RowsKept

\* The commit of an issue stores one link and marks those it saw as used.
LEMMA StoreIs ==
  ASSUME TypeOK, Requests, NEW r \in Request, handler[r].stage = "commit",
         row' = Store(handler[r])
  PROVE  /\ RowsKept
         /\ Stored' = Stored \union {handler[r].link}
         /\ ~row'[handler[r].link].used
         /\ \A l \in Stored : l \notin handler[r].seen => row'[l] = row[l]
  <1> DEFINE h == handler[r]
  <1>1. /\ h.caller \in Caller /\ h.user \in User
        /\ h.link \in Link /\ h.link \notin Stored
    BY DEF Requests, Mints, Minting
  <1>2. row \in [Stored -> Row]
    BY DEF TypeOK
  <1> HIDE DEF h
  <1>3. row' = [l \in Stored \union {h.link} |->
                 IF l = h.link THEN Inserted(h)
                 ELSE IF l \in h.seen THEN [row[l] EXCEPT !.used = TRUE] ELSE row[l]]
    BY DEF Store, h
  <1>4. Stored' = Stored \union {h.link}
    BY <1>3 DEF Stored
  <1>5. row'[h.link] = Inserted(h)
    BY <1>3
  <1>6. Inserted(h) \in Row /\ ~Inserted(h).used
    BY <1>1 DEF Inserted, Row, PurposeOf, Purpose
  <1>7. ASSUME NEW l \in Stored
        PROVE  /\ row'[l] \in Row
               /\ row'[l].user = row[l].user /\ row'[l].purpose = row[l].purpose
               /\ row[l].used => row'[l].used
               /\ l \notin h.seen => row'[l] = row[l]
    <2>1. row'[l] = IF l \in h.seen THEN [row[l] EXCEPT !.used = TRUE] ELSE row[l]
      BY <1>1, <1>3
    <2>2. row[l] \in Row
      BY <1>2
    <2>3. QED
      BY <2>1, <2>2 DEF Row
  <1>8. row' \in [Stored' -> Row]
    BY <1>3, <1>4, <1>5, <1>6, <1>7
  <1>9. QED
    BY <1>4, <1>5, <1>6, <1>7, <1>8 DEF RowsKept, h

-----------------------------------------------------------------------------
(* What a step of r does to the requests. *)

\* r ends: what the other requests rely on stays true.  A link it stored was
\* known to it alone, and so is one it has just redeemed.
LEMMA AnswerKeeps ==
  ASSUME TypeOK, Requests, NEW r \in Request, Answer(r), RowsKept,
         \A l \in Stored' \ Stored : Minting(r) /\ l = handler[r].link,
         \A q \in Request \ {r} : Owns(q) => redeemed'[handler[q].link] = 0
  PROVE  Requests' /\ handler' \in [Request -> Handler]
  <1>1. handler \in [Request -> Handler] /\ Idle \in Handler
    BY DEF TypeOK, Handler, Idle, Stage, Caller
  <1>2. handler' \in [Request -> Handler]
    BY <1>1 DEF Answer
  <1>3. \A q \in Request \ {r} : handler'[q] = handler[q]
    BY <1>1 DEF Answer
  <1>4. handler'[r].stage = "idle" /\ handler'[r].link = None
    BY <1>1 DEF Answer, Idle
  <1>5. ~Minting(r)' /\ ~Redeeming(r)' /\ ~Owns(r)'
    BY <1>4 DEF Minting, Redeeming, Owns
  <1>6. \A q \in Request \ {r} : /\ Minting(q)' <=> Minting(q)
                                 /\ Redeeming(q)' <=> Redeeming(q)
                                 /\ Owns(q)' <=> Owns(q)
    BY <1>3 DEF Minting, Redeeming, Owns
  <1>7. Mints'
    <2> SUFFICES ASSUME NEW q \in Request \ {r}, Minting(q)
                 PROVE  /\ handler[q].caller \in Caller
                        /\ handler[q].user \in User
                        /\ handler[q].link \in Link \ Stored'
                        /\ \A p \in Request : handler'[p].link = handler[q].link => p = q
                        /\ \A l \in handler[q].seen :
                             /\ l \in Stored'
                             /\ row'[l].user = handler[q].user
                             /\ row'[l].purpose = PurposeOf(handler[q].caller)
      BY <1>3, <1>5, <1>6 DEF Mints
    <2>1. /\ handler[q].caller \in Caller
          /\ handler[q].user \in User
          /\ handler[q].link \in Link \ Stored
          /\ \A p \in Request : handler[p].link = handler[q].link => p = q
          /\ \A l \in handler[q].seen :
               /\ l \in Stored
               /\ row[l].user = handler[q].user
               /\ row[l].purpose = PurposeOf(handler[q].caller)
      BY DEF Requests, Mints
    <2>2. handler[q].link \notin Stored'
      BY <2>1
    <2>3. \A p \in Request : handler'[p].link = handler[q].link => p = q
      BY <1>3, <1>4, <2>1, NoneAssumption
    <2>4. QED
      BY <2>1, <2>2, <2>3 DEF RowsKept
  <1>8. Redeems'
    BY <1>3, <1>5, <1>6 DEF Requests, Redeems, RowsKept
  <1>9. Owners'
    BY <1>3, <1>5, <1>6 DEF Requests, Redeems, Owners, RowsKept, Owns, Redeeming
  <1>10. QED
    BY <1>2, <1>7, <1>8, <1>9 DEF Requests

\* Nothing happens to the requests.
LEMMA SameRequests ==
  ASSUME TypeOK, Requests, handler' = handler, RowsKept, Stored' = Stored, redeemed' = redeemed
  PROVE  Requests'
  <1>1. Mints'
    BY DEF Requests, Mints, Minting, RowsKept
  <1>2. Redeems'
    BY DEF Requests, Redeems, Redeeming, RowsKept
  <1>3. Owners'
    BY DEF Requests, Redeems, Redeeming, Owners, Owns, RowsKept
  <1>4. QED
    BY <1>1, <1>2, <1>3 DEF Requests

\* r starts, with a value of its own or with a stored link to redeem.
LEMMA StartKeeps ==
  ASSUME TypeOK, Requests, NEW r \in Request, NEW h \in Handler,
         handler' = [handler EXCEPT ![r] = h], row' = row, redeemed' = redeemed,
         \/ /\ h.stage = "send" /\ h.caller \in Caller /\ h.user \in User
            /\ h.link \in Link \ Taken
            /\ h.seen = Outstanding(h.user, PurposeOf(h.caller))
         \/ /\ h.stage = "claim" /\ h.link \in Stored
            /\ row[h.link].user = h.user /\ row[h.link].purpose = h.caller
  PROVE  Requests' /\ handler' \in [Request -> Handler]
  <1>1. handler \in [Request -> Handler] /\ handler' \in [Request -> Handler]
    BY DEF TypeOK
  <1>2. handler'[r] = h /\ \A q \in Request \ {r} : handler'[q] = handler[q]
    BY <1>1
  <1>3. Stored' = Stored /\ ~Owns(r)'
    BY <1>2 DEF Stored, Owns
  <1>4. Mints'
    <2> SUFFICES ASSUME NEW q \in Request, Minting(q)'
                 PROVE  /\ handler'[q].caller \in Caller
                        /\ handler'[q].user \in User
                        /\ handler'[q].link \in Link \ Stored
                        /\ \A p \in Request : handler'[p].link = handler'[q].link => p = q
                        /\ \A l \in handler'[q].seen :
                             /\ l \in Stored
                             /\ row[l].user = handler'[q].user
                             /\ row[l].purpose = PurposeOf(handler'[q].caller)
      BY <1>3 DEF Mints
    <2>1. CASE q = r
      <3>1. /\ h.caller \in Caller /\ h.user \in User /\ h.link \in Link \ Taken
            /\ h.seen = Outstanding(h.user, PurposeOf(h.caller))
        BY <1>2, <2>1 DEF Minting
      <3>2. \A p \in Request \ {r} : handler'[p].link # h.link
        BY <1>2, <3>1 DEF Taken
      <3>3. QED
        BY <1>2, <2>1, <3>1, <3>2 DEF Outstanding, Taken
    <2>2. CASE q # r
      <3>1. /\ handler[q].caller \in Caller
            /\ handler[q].user \in User
            /\ handler[q].link \in Link \ Stored
            /\ \A p \in Request : handler[p].link = handler[q].link => p = q
            /\ \A l \in handler[q].seen :
                 /\ l \in Stored
                 /\ row[l].user = handler[q].user
                 /\ row[l].purpose = PurposeOf(handler[q].caller)
        BY <1>2, <2>2 DEF Requests, Mints, Minting
      <3>2. h.link # handler[q].link
        BY <3>1 DEF Taken
      <3>3. QED
        BY <1>2, <2>2, <3>1, <3>2
    <2>3. QED
      BY <2>1, <2>2
  <1>5. Redeems'
    BY <1>2, <1>3 DEF Requests, Redeems, Redeeming
  <1>6. Owners'
    BY <1>2, <1>3 DEF Requests, Owners, Owns
  <1>7. QED
    BY <1>1, <1>4, <1>5, <1>6 DEF Requests

\* r goes on to its next stage; it owns its link when it comes to claimed.
LEMMA StageKeeps ==
  ASSUME TypeOK, Requests, NEW r \in Request, NEW s \in Stage,
         handler' = [handler EXCEPT ![r].stage = s],
         RowsKept, Stored' = Stored, redeemed' = redeemed,
         \/ s = "commit" /\ Minting(r)
         \/ /\ s \in {"claimed", "effect"} /\ Redeeming(r)
            /\ row'[handler[r].link].used /\ redeemed[handler[r].link] = 0
            /\ \A q \in Request : Owns(q) /\ handler[q].link = handler[r].link => q = r
  PROVE  Requests' /\ handler' \in [Request -> Handler]
  <1>1. handler \in [Request -> Handler] /\ handler[r] \in Handler
    BY DEF TypeOK
  <1>2. /\ handler'[r] = [handler[r] EXCEPT !.stage = s]
        /\ \A q \in Request \ {r} : handler'[q] = handler[q]
    BY <1>1
  <1>3. /\ handler'[r] \in Handler /\ handler'[r].stage = s
        /\ handler'[r].caller = handler[r].caller /\ handler'[r].user = handler[r].user
        /\ handler'[r].link = handler[r].link /\ handler'[r].seen = handler[r].seen
    BY <1>1, <1>2 DEF Handler
  <1>4. handler' \in [Request -> Handler]
    BY <1>1, <1>3
  <1>5. \A q \in Request :
          /\ handler'[q].caller = handler[q].caller /\ handler'[q].user = handler[q].user
          /\ handler'[q].link = handler[q].link /\ handler'[q].seen = handler[q].seen
    BY <1>2, <1>3
  <1>6. \A q \in Request : /\ Minting(q)' => Minting(q)
                           /\ Redeeming(q)' => Redeeming(q)
                           /\ Owns(q)' => Owns(q) \/ q = r
    BY <1>2, <1>3 DEF Minting, Redeeming, Owns
  <1>7. Mints'
    <2> SUFFICES ASSUME NEW q \in Request, Minting(q)
                 PROVE  /\ handler[q].caller \in Caller
                        /\ handler[q].user \in User
                        /\ handler[q].link \in Link \ Stored
                        /\ \A p \in Request : handler[p].link = handler[q].link => p = q
                        /\ \A l \in handler[q].seen :
                             /\ l \in Stored
                             /\ row'[l].user = handler[q].user
                             /\ row'[l].purpose = PurposeOf(handler[q].caller)
      BY <1>5, <1>6 DEF Mints
    <2>1. QED
      BY DEF Requests, Mints, RowsKept
  <1>8. Redeems'
    BY <1>5, <1>6 DEF Requests, Redeems, RowsKept
  <1>9. Owners'
    <2> SUFFICES ASSUME NEW q \in Request, Owns(q)'
                 PROVE  /\ row'[handler[q].link].used
                        /\ redeemed[handler[q].link] = 0
                        /\ \A p \in Request : Owns(p)' /\ handler[p].link = handler[q].link => p = q
      BY <1>5 DEF Owners
    <2>1. CASE q = r
      <3>1. s \in {"claimed", "effect"}
        BY <1>3, <2>1 DEF Owns
      <3>2. QED
        BY <1>6, <2>1, <3>1
    <2>2. CASE q # r
      <3>1. /\ handler[q].link \in Stored /\ row[handler[q].link].used
            /\ redeemed[handler[q].link] = 0
            /\ \A p \in Request : Owns(p) /\ handler[p].link = handler[q].link => p = q
        BY <1>6, <2>2 DEF Requests, Redeems, Owners, Owns, Redeeming
      <3>2. Owns(r)' => handler[r].link # handler[q].link
        BY <1>3, <1>6, <2>2 DEF Owns
      <3>3. QED
        BY <1>6, <3>1, <3>2 DEF RowsKept
    <2>3. QED
      BY <2>1, <2>2
  <1>10. QED
    BY <1>4, <1>7, <1>8, <1>9 DEF Requests

-----------------------------------------------------------------------------
(* What a step does to the effects. *)

\* New rows have had no effect: nothing else is counted than before.
LEMMA SameEffects ==
  ASSUME TypeOK, Effects, RowsKept, Stored' \subseteq Link,
         redeemed' = redeemed, verified' = verified, epoch' = epoch
  PROVE  Effects'
  <1>1. \A l \in Stored' : redeemed[l] > 0 => l \in Stored
    BY DEF Effects, EffectNeedsClaim
  <1>2. \A u, p : Redeemed(u, p)' = Redeemed(u, p)
    BY <1>1 DEF Redeemed, RowsKept
  <1>3. EffectNeedsClaim' /\ RedeemedOnce'
    BY DEF Effects, EffectNeedsClaim, RedeemedOnce, RowsKept
  <1>4. FiniteEffects'
    BY <1>2 DEF Effects, FiniteEffects
  <1>5. EffectsAreRedeemed'
    BY <1>2 DEF Effects, EffectsAreRedeemed
  <1>6. QED
    BY <1>3, <1>4, <1>5 DEF Effects

\* A link that r owns takes effect: it is one more of its user and purpose.
LEMMA OneMoreEffect ==
  ASSUME TypeOK, Requests, Effects, NEW r \in Request, Owns(r), row' = row,
         redeemed' = [redeemed EXCEPT ![handler[r].link] = @ + 1]
  PROVE  /\ EffectNeedsClaim' /\ RedeemedOnce'
         /\ redeemed' \in [Link -> Nat]
         /\ \A q \in Request \ {r} : Owns(q) => redeemed'[handler[q].link] = 0
         /\ handler[r].user \in User /\ handler[r].caller \in Purpose
         /\ \A u \in User, p \in Purpose : u = handler[r].user /\ p = handler[r].caller =>
              /\ handler[r].link \notin Redeemed(u, p)
              /\ Redeemed(u, p)' = Redeemed(u, p) \union {handler[r].link}
         /\ \A u \in User, p \in Purpose : u # handler[r].user \/ p # handler[r].caller =>
              Redeemed(u, p)' = Redeemed(u, p)
  <1> DEFINE l == handler[r].link
  <1>1. /\ l \in Stored /\ l \in Link
        /\ row[l] \in Row /\ row[l].user = handler[r].user /\ row[l].purpose = handler[r].caller
        /\ row[l].used /\ redeemed[l] = 0
        /\ \A q \in Request : Owns(q) /\ handler[q].link = l => q = r
    BY DEF Requests, Redeems, Owners, Owns, Redeeming, TypeOK
  <1>2. redeemed \in [Link -> Nat]
    BY DEF TypeOK
  <1> HIDE DEF l
  <1>3. /\ redeemed'[l] = 1 /\ \A k \in Link \ {l} : redeemed'[k] = redeemed[k]
        /\ redeemed' \in [Link -> Nat]
    BY <1>1, <1>2 DEF l
  <1>4. Stored' = Stored
    BY DEF Stored
  <1>5. EffectNeedsClaim' /\ RedeemedOnce'
    BY <1>1, <1>3, <1>4 DEF Effects, EffectNeedsClaim, RedeemedOnce
  <1>6. \A q \in Request \ {r} : Owns(q) => redeemed'[handler[q].link] = 0
    <2> SUFFICES ASSUME NEW q \in Request \ {r}, Owns(q)
                 PROVE  redeemed'[handler[q].link] = 0
      OBVIOUS
    <2>1. handler[q].link # l /\ handler[q].link \in Link /\ redeemed[handler[q].link] = 0
      BY <1>1 DEF Requests, Redeems, Owners, Owns, Redeeming, TypeOK
    <2>2. QED
      BY <1>3, <2>1
  <1>7. handler[r].user \in User /\ handler[r].caller \in Purpose
    BY <1>1 DEF Row
  <1>8. \A u, p : Redeemed(u, p)' = {k \in Stored : row[k].user = u /\ row[k].purpose = p /\ redeemed'[k] > 0}
    BY <1>4 DEF Redeemed
  <1>9. \A u, p, k : k # l /\ k \in Link => (k \in Redeemed(u, p)' <=> k \in Redeemed(u, p))
    BY <1>3, <1>8 DEF Redeemed
  <1>10. \A u, p : Redeemed(u, p) \subseteq Link /\ Redeemed(u, p)' \subseteq Link
    BY <1>8 DEF Redeemed, TypeOK
  <1>11. \A u, p : /\ l \notin Redeemed(u, p)
                   /\ l \in Redeemed(u, p)' <=> (u = handler[r].user /\ p = handler[r].caller)
    BY <1>1, <1>3, <1>8 DEF Redeemed
  <1>12. ASSUME NEW u, NEW p, u = handler[r].user, p = handler[r].caller
         PROVE  Redeemed(u, p)' = Redeemed(u, p) \union {l}
    <2>1. \A k : k \in Redeemed(u, p)' <=> k \in Redeemed(u, p) \union {l}
      BY <1>9, <1>10, <1>11, <1>12
    <2>2. QED
      BY <2>1
  <1>13. ASSUME NEW u \in User, NEW p \in Purpose, u # handler[r].user \/ p # handler[r].caller
         PROVE  Redeemed(u, p)' = Redeemed(u, p)
    <2>1. \A k : k \in Redeemed(u, p)' <=> k \in Redeemed(u, p)
      BY <1>9, <1>10, <1>11, <1>13
    <2>2. QED
      BY <2>1
  <1>14. QED
    BY <1>3, <1>5, <1>6, <1>7, <1>11, <1>12, <1>13 DEF l

LEMMA EffectsKeepFinite ==
  ASSUME TypeOK, Requests, Effects, NEW r \in Request, Owns(r), row' = row,
         redeemed' = [redeemed EXCEPT ![handler[r].link] = @ + 1]
  PROVE  FiniteEffects'
  <1> SUFFICES ASSUME NEW u \in User, NEW p \in Purpose
               PROVE  IsFiniteSet(Redeemed(u, p)')
    BY DEF FiniteEffects
  <1>1. IsFiniteSet(Redeemed(u, p))
    BY DEF Effects, FiniteEffects
  <1>2. IsFiniteSet(Redeemed(u, p) \union {handler[r].link})
    BY <1>1, FS_AddElement
  <1>3. \/ Redeemed(u, p)' = Redeemed(u, p)
        \/ Redeemed(u, p)' = Redeemed(u, p) \union {handler[r].link}
    BY OneMoreEffect
  <1>4. QED
    BY <1>1, <1>2, <1>3

-----------------------------------------------------------------------------
(* Every step keeps the invariant. *)

LEMMA BeginIssueKeeps ==
  ASSUME IInv, NEW r \in Request, NEW caller \in Caller, NEW u \in User,
         BeginIssue(r, caller, u)
  PROVE  IInv'
  <1>1. UNCHANGED data
    BY DEF BeginIssue
  <1>2. PICK l \in Link \ Taken :
          handler' = [handler EXCEPT ![r] =
            [stage |-> "send", caller |-> caller, user |-> u, link |-> l,
             seen |-> Outstanding(u, PurposeOf(caller))]]
    BY DEF BeginIssue
  <1> DEFINE h == [stage |-> "send", caller |-> caller, user |-> u, link |-> l,
                   seen |-> Outstanding(u, PurposeOf(caller))]
  <1>3. h \in Handler
    BY DEF IInv, TypeOK, Handler, Stage, Outstanding
  <1>4. /\ h.stage = "send" /\ h.caller \in Caller /\ h.user \in User
        /\ h.link \in Link \ Taken
        /\ h.seen = Outstanding(h.user, PurposeOf(h.caller))
    OBVIOUS
  <1> HIDE DEF h
  <1>5. Requests' /\ handler' \in [Request -> Handler]
    BY <1>1, <1>2, <1>3, <1>4, StartKeeps DEF data, IInv, h
  <1>6. Effects'
    BY <1>1, SameRows, SameEffects DEF data, IInv, TypeOK
  <1>7. TypeOK'
    BY <1>1, <1>5 DEF data, IInv, TypeOK, Stored
  <1>8. QED
    BY <1>5, <1>6, <1>7 DEF IInv

LEMMA BeginConsumeKeeps ==
  ASSUME IInv, NEW r \in Request, NEW l, NEW p \in Purpose, BeginConsume(r, l, p)
  PROVE  IInv'
  <1> DEFINE h == [stage |-> "claim", caller |-> p, user |-> row[l].user,
                   link |-> l, seen |-> {}]
  <1>1. /\ UNCHANGED data /\ l \in Stored /\ row[l].purpose = p
        /\ handler' = [handler EXCEPT ![r] = h]
    BY DEF BeginConsume, Acceptable
  <1>2. h \in Handler
    BY <1>1 DEF IInv, TypeOK, Row, Handler, Stage
  <1>3. /\ h.stage = "claim" /\ h.link \in Stored
        /\ row[h.link].user = h.user /\ row[h.link].purpose = h.caller
    BY <1>1
  <1> HIDE DEF h
  <1>4. Requests' /\ handler' \in [Request -> Handler]
    BY <1>1, <1>2, <1>3, StartKeeps DEF data, IInv
  <1>5. Effects'
    BY <1>1, SameRows, SameEffects DEF data, IInv, TypeOK
  <1>6. TypeOK'
    BY <1>1, <1>4 DEF data, IInv, TypeOK, Stored
  <1>7. QED
    BY <1>4, <1>5, <1>6 DEF IInv

\* r ends and nothing else has changed but the mailbox or the sessions.
LEMMA AnswerOnlyKeeps ==
  ASSUME IInv, NEW r \in Request, Answer(r), UNCHANGED data
  PROVE  IInv'
  <1>1. RowsKept /\ Stored' = Stored
    BY SameRows DEF IInv, data
  <1>2. Requests' /\ handler' \in [Request -> Handler]
    BY <1>1, AnswerKeeps DEF data, IInv, Requests, Owners
  <1>3. Effects'
    BY <1>1, SameEffects DEF data, IInv, TypeOK
  <1>4. TypeOK'
    BY <1>2 DEF data, IInv, TypeOK, Stored
  <1>5. QED
    BY <1>2, <1>3, <1>4 DEF IInv

\* r goes on, and at most a row has changed.
LEMMA StepKeeps ==
  ASSUME IInv, NEW r \in Request, NEW s \in Stage,
         handler' = [handler EXCEPT ![r].stage = s],
         RowsKept, Stored' = Stored, mailbox' \subseteq Link,
         UNCHANGED <<account, active, verified, epoch, signedIn, redeemed>>,
         \/ s = "commit" /\ Minting(r)
         \/ /\ s \in {"claimed", "effect"} /\ Redeeming(r)
            /\ row'[handler[r].link].used /\ redeemed[handler[r].link] = 0
            /\ \A q \in Request : Owns(q) /\ handler[q].link = handler[r].link => q = r
  PROVE  IInv'
  <1>1. Requests' /\ handler' \in [Request -> Handler]
    BY StageKeeps DEF IInv
  <1>2. Effects'
    BY SameEffects DEF IInv, TypeOK
  <1>3. TypeOK'
    BY <1>1 DEF IInv, TypeOK, RowsKept
  <1>4. QED
    BY <1>1, <1>2, <1>3 DEF IInv

LEMMA MailKeeps ==
  ASSUME IInv, NEW r \in Request, SendMail(r) \/ MailFails(r)
  PROVE  IInv'
  <1>1. Minting(r) /\ handler[r].link \in Link /\ "commit" \in Stage
    BY DEF SendMail, MailFails, Minting, IInv, Requests, Mints, Stage
  <1>2. CASE SendMail(r)
    <2>1. RowsKept /\ Stored' = Stored /\ mailbox' \subseteq Link
      BY <1>1, <1>2, SameRows DEF SendMail, IInv, TypeOK
    <2>2. QED
      BY <1>1, <1>2, <2>1, StepKeeps DEF SendMail
  <1>3. CASE MailFails(r) /\ handler[r].caller = "register"
    <2>1. RowsKept /\ Stored' = Stored /\ mailbox' \subseteq Link
      BY <1>3, SameRows DEF MailFails, data, IInv, TypeOK
    <2>2. QED
      BY <1>1, <1>3, <2>1, StepKeeps DEF MailFails, data
  <1>4. CASE MailFails(r) /\ handler[r].caller # "register"
    BY <1>4, AnswerOnlyKeeps DEF MailFails
  <1>5. QED
    BY <1>2, <1>3, <1>4

LEMMA CommitIssueKeeps ==
  ASSUME IInv, NEW r \in Request, CommitIssue(r)
  PROVE  IInv'
  <1>1. /\ handler[r].stage = "commit" /\ row' = Store(handler[r]) /\ Answer(r)
        /\ UNCHANGED <<mailbox, active, verified, epoch, redeemed>>
        /\ \/ UNCHANGED <<account, signedIn>>
           \/ /\ account' = account \union {handler[r].user}
              /\ signedIn' = [signedIn EXCEPT ![handler[r].user] = TRUE]
    BY DEF CommitIssue
  <1>2. Minting(r) /\ handler[r].user \in User /\ handler[r].link \in Link
    BY <1>1 DEF Minting, IInv, Requests, Mints
  <1>3. RowsKept /\ Stored' = Stored \union {handler[r].link}
    BY <1>1, StoreIs DEF IInv
  <1>4. Stored' \subseteq Link
    BY <1>2, <1>3 DEF IInv, TypeOK
  <1>5. Requests' /\ handler' \in [Request -> Handler]
    BY <1>1, <1>2, <1>3, AnswerKeeps DEF IInv, Requests, Owners
  <1>6. Effects'
    BY <1>1, <1>3, <1>4, SameEffects DEF IInv
  <1>7. account' \subseteq User /\ signedIn' \in [User -> BOOLEAN]
    BY <1>1, <1>2 DEF IInv, TypeOK
  <1>8. TypeOK'
    BY <1>1, <1>3, <1>4, <1>5, <1>7 DEF IInv, TypeOK, RowsKept
  <1>9. QED
    BY <1>5, <1>6, <1>8 DEF IInv

\* The conditional UPDATE hits one request only: whoever claimed the link
\* before has left the row used.
LEMMA ClaimKeeps ==
  ASSUME IInv, NEW r \in Request, Claim(r)
  PROVE  IInv'
  <1> DEFINE l == handler[r].link
  <1>1. /\ ~row[l].used /\ row' = [row EXCEPT ![l].used = TRUE]
        /\ handler' = [handler EXCEPT ![r].stage = "claimed"]
        /\ UNCHANGED <<mailbox, account, active, verified, epoch, signedIn, redeemed>>
        /\ Redeeming(r) /\ "claimed" \in Stage
    BY DEF Claim, Redeeming, Stage
  <1>2. l \in Stored /\ l \in Link
    BY <1>1 DEF IInv, Requests, Redeems, TypeOK
  <1>3. RowsKept /\ Stored' = Stored /\ row'[l].used
    BY <1>1, <1>2, RowChanged DEF IInv
  <1>4. redeemed[l] = 0
    BY <1>1, <1>2 DEF IInv, TypeOK, Effects, EffectNeedsClaim
  <1>5. \A q \in Request : Owns(q) => handler[q].link # l
    BY <1>1 DEF IInv, Requests, Owners
  <1>6. mailbox' \subseteq Link
    BY <1>1 DEF IInv, TypeOK
  <1>7. QED
    BY <1>1, <1>3, <1>4, <1>5, <1>6, StepKeeps

LEMMA LoadUserKeeps ==
  ASSUME IInv, NEW r \in Request, LoadUser(r)
  PROVE  IInv'
  <1>1. /\ UNCHANGED data /\ handler' = [handler EXCEPT ![r].stage = "effect"]
        /\ Owns(r) /\ Redeeming(r) /\ "effect" \in Stage
    BY DEF LoadUser, Owns, Redeeming, Stage
  <1>2. RowsKept /\ Stored' = Stored /\ mailbox' \subseteq Link
    BY <1>1, SameRows DEF data, IInv, TypeOK
  <1>3. /\ row'[handler[r].link].used /\ redeemed[handler[r].link] = 0
        /\ \A q \in Request : Owns(q) /\ handler[q].link = handler[r].link => q = r
    BY <1>1 DEF data, IInv, Requests, Owners
  <1>4. QED
    BY <1>1, <1>2, <1>3, StepKeeps DEF data

LEMMA FinishVerifyKeeps ==
  ASSUME IInv, NEW r \in Request, FinishVerify(r)
  PROVE  IInv'
  <1> DEFINE u == handler[r].user
  <1>1. /\ Owns(r) /\ handler[r].caller = "email_verify" /\ Answer(r)
        /\ verified' = [verified EXCEPT ![u] = TRUE]
        /\ redeemed' = [redeemed EXCEPT ![handler[r].link] = @ + 1]
        /\ row' = row /\ UNCHANGED <<mailbox, account, active, epoch, signedIn>>
    BY DEF FinishVerify, Owns
  <1>2. RowsKept /\ Stored' = Stored
    BY <1>1, SameRows DEF IInv
  <1>3. /\ EffectNeedsClaim' /\ RedeemedOnce' /\ FiniteEffects'
        /\ redeemed' \in [Link -> Nat]
        /\ \A q \in Request \ {r} : Owns(q) => redeemed'[handler[q].link] = 0
        /\ u \in User
    BY <1>1, OneMoreEffect, EffectsKeepFinite DEF IInv
  <1>4. Requests' /\ handler' \in [Request -> Handler]
    BY <1>1, <1>2, <1>3, AnswerKeeps DEF IInv
  <1>5. TypeOK'
    BY <1>1, <1>2, <1>3, <1>4 DEF IInv, TypeOK, RowsKept
  <1>6. EffectsAreRedeemed'
    <2> SUFFICES ASSUME NEW v \in User
                 PROVE  /\ verified'[v] <=> Redeemed(v, "email_verify")' # {}
                        /\ epoch[v] = Cardinality(Redeemed(v, "password_reset")')
      BY <1>1 DEF EffectsAreRedeemed
    <2>1. /\ verified[v] <=> Redeemed(v, "email_verify") # {}
          /\ epoch[v] = Cardinality(Redeemed(v, "password_reset"))
      BY DEF IInv, Effects, EffectsAreRedeemed
    <2>2. Redeemed(v, "password_reset")' = Redeemed(v, "password_reset")
      BY <1>1, OneMoreEffect DEF IInv, Purpose
    <2>3. CASE v = u
      <3>1. Redeemed(v, "email_verify")' = Redeemed(v, "email_verify") \union {handler[r].link}
        BY <1>1, <2>3, OneMoreEffect DEF IInv, Purpose
      <3>2. verified'[v] = TRUE
        BY <1>1, <1>3, <2>3 DEF IInv, TypeOK
      <3>3. QED
        BY <2>1, <2>2, <3>1, <3>2
    <2>4. CASE v # u
      <3>1. Redeemed(v, "email_verify")' = Redeemed(v, "email_verify")
        BY <1>1, <2>4, OneMoreEffect DEF IInv, Purpose
      <3>2. verified'[v] = verified[v]
        BY <1>1, <2>4 DEF IInv, TypeOK
      <3>3. QED
        BY <2>1, <2>2, <3>1, <3>2
    <2>5. QED
      BY <2>3, <2>4
  <1>7. QED
    BY <1>3, <1>4, <1>5, <1>6 DEF IInv, Effects

LEMMA FinishResetKeeps ==
  ASSUME IInv, NEW r \in Request, FinishReset(r)
  PROVE  IInv'
  <1> DEFINE u == handler[r].user
  <1>1. /\ Owns(r) /\ handler[r].caller = "password_reset" /\ Answer(r)
        /\ epoch' = [epoch EXCEPT ![u] = @ + 1]
        /\ signedIn' = [signedIn EXCEPT ![u] = FALSE]
        /\ redeemed' = [redeemed EXCEPT ![handler[r].link] = @ + 1]
        /\ row' = row /\ UNCHANGED <<mailbox, account, active, verified>>
    BY DEF FinishReset, Owns
  <1>2. RowsKept /\ Stored' = Stored
    BY <1>1, SameRows DEF IInv
  <1>3. /\ EffectNeedsClaim' /\ RedeemedOnce' /\ FiniteEffects'
        /\ redeemed' \in [Link -> Nat]
        /\ \A q \in Request \ {r} : Owns(q) => redeemed'[handler[q].link] = 0
        /\ u \in User
    BY <1>1, OneMoreEffect, EffectsKeepFinite DEF IInv
  <1>4. Requests' /\ handler' \in [Request -> Handler]
    BY <1>1, <1>2, <1>3, AnswerKeeps DEF IInv
  <1>5. epoch' \in [User -> Nat] /\ signedIn' \in [User -> BOOLEAN]
    BY <1>1, <1>3 DEF IInv, TypeOK
  <1>6. TypeOK'
    BY <1>1, <1>2, <1>3, <1>4, <1>5 DEF IInv, TypeOK, RowsKept
  <1>7. EffectsAreRedeemed'
    <2> SUFFICES ASSUME NEW v \in User
                 PROVE  /\ verified[v] <=> Redeemed(v, "email_verify")' # {}
                        /\ epoch'[v] = Cardinality(Redeemed(v, "password_reset")')
      BY <1>1 DEF EffectsAreRedeemed
    <2>1. /\ verified[v] <=> Redeemed(v, "email_verify") # {}
          /\ epoch[v] = Cardinality(Redeemed(v, "password_reset"))
          /\ IsFiniteSet(Redeemed(v, "password_reset"))
      BY DEF IInv, Effects, EffectsAreRedeemed, FiniteEffects, Purpose
    <2>2. Redeemed(v, "email_verify")' = Redeemed(v, "email_verify")
      BY <1>1, OneMoreEffect DEF IInv, Purpose
    <2>3. CASE v = u
      <3>1. /\ handler[r].link \notin Redeemed(v, "password_reset")
            /\ Redeemed(v, "password_reset")' =
                 Redeemed(v, "password_reset") \union {handler[r].link}
        BY <1>1, <2>3, OneMoreEffect DEF IInv, Purpose
      <3>2. Cardinality(Redeemed(v, "password_reset")') =
              Cardinality(Redeemed(v, "password_reset")) + 1
        BY <2>1, <3>1, FS_AddElement
      <3>3. epoch'[v] = epoch[v] + 1
        BY <1>1, <1>3, <2>3 DEF IInv, TypeOK
      <3>4. QED
        BY <2>1, <2>2, <3>2, <3>3
    <2>4. CASE v # u
      <3>1. Redeemed(v, "password_reset")' = Redeemed(v, "password_reset")
        BY <1>1, <2>4, OneMoreEffect DEF IInv, Purpose
      <3>2. epoch'[v] = epoch[v]
        BY <1>1, <2>4 DEF IInv, TypeOK
      <3>3. QED
        BY <2>1, <2>2, <3>1, <3>2
    <2>5. QED
      BY <2>3, <2>4
  <1>8. QED
    BY <1>3, <1>4, <1>6, <1>7 DEF IInv, Effects

\* Time, operators and logins touch neither the requests nor the effects.
LEMMA EnvironmentKeeps ==
  ASSUME IInv, Environment
  PROVE  IInv'
  <1>1. /\ RowsKept /\ Stored' = Stored
        /\ UNCHANGED <<mailbox, account, verified, epoch, handler, redeemed>>
        /\ active' \in [User -> BOOLEAN] /\ signedIn' \in [User -> BOOLEAN]
    <2>1. ASSUME NEW l \in Stored, Expire(l)
          PROVE  RowsKept /\ Stored' = Stored
      BY <2>1, RowChanged DEF Expire, IInv
    <2>2. ASSUME NEW u \in User, SetActive(u) \/ SignIn(u)
          PROVE  RowsKept /\ Stored' = Stored
      BY <2>2, SameRows DEF SetActive, SignIn, IInv
    <2>3. QED
      BY <2>1, <2>2 DEF Environment, Expire, SetActive, SignIn, IInv, TypeOK
  <1>2. Requests'
    BY <1>1, SameRequests DEF IInv
  <1>3. Effects'
    BY <1>1, SameEffects DEF IInv, TypeOK
  <1>4. TypeOK'
    BY <1>1 DEF IInv, TypeOK, RowsKept
  <1>5. QED
    BY <1>2, <1>3, <1>4 DEF IInv

LEMMA InitIInv == Init => IInv
  <1> SUFFICES ASSUME Init PROVE IInv
    OBVIOUS
  <1>1. Stored = {} /\ \A r \in Request : handler[r] = Idle
    BY DEF Init, Stored
  <1>2. TypeOK
    BY <1>1 DEF Init, TypeOK, Stored, Handler, Idle, Stage, Caller
  <1>3. Requests
    BY <1>1 DEF Requests, Mints, Redeems, Owners, Minting, Redeeming, Owns, Idle
  <1>4. \A u, p : Redeemed(u, p) = {}
    BY <1>1 DEF Redeemed
  <1>5. Effects
    <2>1. \A l \in Link : redeemed[l] = 0
      BY DEF Init
    <2>2. EffectNeedsClaim /\ RedeemedOnce
      BY <2>1 DEF EffectNeedsClaim, RedeemedOnce
    <2>3. FiniteEffects
      BY <1>4, FS_EmptySet DEF FiniteEffects
    <2>4. EffectsAreRedeemed
      <3>1. \A u \in User : verified[u] = FALSE /\ epoch[u] = 0
        BY DEF Init
      <3>2. QED
        BY <1>4, <3>1, FS_EmptySet DEF EffectsAreRedeemed
    <2>5. QED
      BY <2>2, <2>3, <2>4 DEF Effects
  <1>6. QED
    BY <1>2, <1>3, <1>5 DEF IInv

LEMMA NextKeeps == IInv /\ [Next]_vars => IInv'
  <1> SUFFICES ASSUME IInv, [Next]_vars PROVE IInv'
    OBVIOUS
  <1>1. ASSUME NEW r \in Request, Issue(r)
        PROVE  IInv'
    BY <1>1, BeginIssueKeeps, MailKeeps, CommitIssueKeeps DEF Issue
  <1>2. ASSUME NEW r \in Request, Consume(r)
        PROVE  IInv'
    BY <1>2, BeginConsumeKeeps, ClaimKeeps, LoadUserKeeps, FinishVerifyKeeps,
       FinishResetKeeps, AnswerOnlyKeeps DEF Consume, ClaimMisses
  <1>3. ASSUME NEW r \in Request, Fail(r)
        PROVE  IInv'
    BY <1>3, AnswerOnlyKeeps DEF Fail
  <1>4. CASE UNCHANGED vars
    <2>1. RowsKept /\ Stored' = Stored
      BY <1>4, SameRows DEF vars, IInv
    <2>2. Requests' /\ Effects'
      BY <1>4, <2>1, SameRequests, SameEffects DEF vars, IInv, TypeOK
    <2>3. QED
      BY <1>4, <2>1, <2>2 DEF vars, IInv, TypeOK
  <1>5. QED
    BY <1>1, <1>2, <1>3, <1>4, EnvironmentKeeps DEF Next

THEOREM Invariance == Spec => []IInv
  BY InitIInv, NextKeeps, PTL DEF Spec

-----------------------------------------------------------------------------
(***************************************************************************)
(* A second invariant, about accounts: links are stored for accounts only, *)
(* so a registration has seen none, and whoever else is about to commit a   *)
(* link has an account and has delivered the link.                         *)
(***************************************************************************)
LinksHaveAccounts == \A l \in Stored : row[l].user \in account

Issuers ==
  \A r \in Request : Minting(r) =>
    IF handler[r].caller = "register"
    THEN handler[r].seen = {}
    ELSE /\ handler[r].user \in account
         /\ handler[r].stage = "commit" => handler[r].link \in mailbox

Accounts == AccountsHaveLinks /\ LinksHaveAccounts /\ Issuers

\* No link is stored and no account opened, and who signs in has one.
LEMMA SameAccounts ==
  ASSUME Accounts, RowsKept, Stored' = Stored, account' = account,
         \A u \in User : signedIn'[u] => signedIn[u] \/ u \in account
  PROVE  AccountsHaveLinks' /\ LinksHaveAccounts'
  BY DEF Accounts, AccountsHaveLinks, LinksHaveAccounts, RowsKept

\* Whoever mints after the step did so before, at the same stage.
LEMMA SameIssuers ==
  ASSUME Accounts, account' = account, mailbox \subseteq mailbox',
         \A r \in Request : Minting(r)' => handler'[r] = handler[r]
  PROVE  Issuers'
  BY DEF Accounts, Issuers, Minting

LEMMA InitAccounts == Init => Accounts
  <1> SUFFICES ASSUME Init PROVE Accounts
    OBVIOUS
  <1>1. Stored = {} /\ account = {} /\ \A u \in User : ~signedIn[u]
    BY DEF Init, Stored
  <1>2. \A r \in Request : ~Minting(r)
    BY DEF Init, Idle, Minting
  <1>3. QED
    BY <1>1, <1>2 DEF Accounts, AccountsHaveLinks, LinksHaveAccounts, Issuers

LEMMA BeginIssueAccounts ==
  ASSUME IInv, Accounts, NEW r \in Request, NEW caller \in Caller, NEW u \in User,
         BeginIssue(r, caller, u)
  PROVE  Accounts'
  <1>1. RowsKept /\ Stored' = Stored /\ UNCHANGED data
    BY SameRows DEF BeginIssue, data, IInv
  <1>2. AccountsHaveLinks' /\ LinksHaveAccounts'
    BY <1>1, SameAccounts DEF data
  <1>3. PICK l : handler' = [handler EXCEPT ![r] =
          [stage |-> "send", caller |-> caller, user |-> u, link |-> l,
           seen |-> Outstanding(u, PurposeOf(caller))]]
    BY DEF BeginIssue
  <1>4. /\ handler'[r].stage = "send" /\ handler'[r].caller = caller
        /\ handler'[r].user = u /\ handler'[r].seen = Outstanding(u, PurposeOf(caller))
        /\ \A q \in Request \ {r} : handler'[q] = handler[q]
    BY <1>3 DEF IInv, TypeOK
  <1>5. CASE caller = "register"
    <2>1. u \notin account
      BY <1>5 DEF BeginIssue
    <2>2. handler'[r].seen = {}
      BY <2>1, <1>4 DEF Outstanding, Accounts, LinksHaveAccounts
    <2>3. QED
      BY <1>1, <1>2, <1>4, <1>5, <2>2 DEF Accounts, Issuers, Minting, data
  <1>6. CASE caller # "register"
    <2>1. u \in account
      BY <1>6 DEF BeginIssue, Caller
    <2>2. QED
      BY <1>1, <1>2, <1>4, <1>6, <2>1 DEF Accounts, Issuers, Minting, data
  <1>7. QED
    BY <1>5, <1>6

LEMMA SendMailAccounts ==
  ASSUME IInv, Accounts, NEW r \in Request, SendMail(r)
  PROVE  Accounts'
  <1>1. RowsKept /\ Stored' = Stored
    BY SameRows DEF SendMail, IInv
  <1>2. AccountsHaveLinks' /\ LinksHaveAccounts'
    BY <1>1, SameAccounts DEF SendMail
  <1>3. /\ handler[r].stage = "send" /\ handler'[r] = [handler[r] EXCEPT !.stage = "commit"]
        /\ \A q \in Request \ {r} : handler'[q] = handler[q]
    BY DEF SendMail, IInv, TypeOK
  <1>4. handler[r] \in Handler
    BY DEF IInv, TypeOK
  <1>5. /\ handler'[r].caller = handler[r].caller /\ handler'[r].user = handler[r].user
        /\ handler'[r].seen = handler[r].seen /\ handler'[r].link = handler[r].link
    BY <1>3, <1>4 DEF Handler
  <1>6. account' = account /\ mailbox' = mailbox \union {handler[r].link}
    BY DEF SendMail
  <1>7. Issuers'
    BY <1>3, <1>5, <1>6 DEF Accounts, Issuers, Minting
  <1>8. QED
    BY <1>2, <1>7 DEF Accounts

LEMMA MailFailsAccounts ==
  ASSUME IInv, Accounts, NEW r \in Request, MailFails(r)
  PROVE  Accounts'
  <1>1. RowsKept /\ Stored' = Stored /\ UNCHANGED data
    BY SameRows DEF MailFails, data, IInv
  <1>2. AccountsHaveLinks' /\ LinksHaveAccounts'
    BY <1>1, SameAccounts DEF data
  <1>3. \A q \in Request \ {r} : handler'[q] = handler[q]
    BY DEF MailFails, Answer, IInv, TypeOK
  <1>4. CASE handler[r].caller = "register"
    <2>1. handler[r].stage = "send" /\ handler'[r] = [handler[r] EXCEPT !.stage = "commit"]
      BY <1>4 DEF MailFails, IInv, TypeOK
    <2>2. handler[r] \in Handler
      BY DEF IInv, TypeOK
    <2>3. handler'[r].caller = handler[r].caller /\ handler'[r].seen = handler[r].seen
      BY <2>1, <2>2 DEF Handler
    <2>4. Issuers'
      BY <1>1, <1>3, <1>4, <2>1, <2>3 DEF Accounts, Issuers, Minting, data
    <2>5. QED
      BY <1>2, <2>4 DEF Accounts
  <1>5. CASE handler[r].caller # "register"
    <2>1. handler'[r] = Idle
      BY <1>5 DEF MailFails, Answer, IInv, TypeOK
    <2>2. Issuers'
      BY <1>1, <1>3, <2>1, SameIssuers DEF Minting, Idle, data
    <2>3. QED
      BY <1>2, <2>2 DEF Accounts
  <1>6. QED
    BY <1>4, <1>5

LEMMA CommitIssueAccounts ==
  ASSUME IInv, Accounts, NEW r \in Request, CommitIssue(r)
  PROVE  Accounts'
  <1> DEFINE h == handler[r]
  <1>1. /\ RowsKept /\ Stored' = Stored \union {h.link}
        /\ h.stage = "commit" /\ h.caller \in Caller /\ h.user \in User
    BY StoreIs DEF CommitIssue, IInv, Requests, Mints, Minting
  <1>2. row'[h.link] = Inserted(h)
    BY DEF CommitIssue, Store
  <1>3. row'[h.link].user = h.user /\ row'[h.link].purpose = PurposeOf(h.caller)
    BY <1>2 DEF Inserted
  <1>4. /\ mailbox' = mailbox
        /\ \A q \in Request : handler'[q] = handler[q] \/ handler'[q] = Idle
    BY DEF CommitIssue, Answer, IInv, TypeOK
  <1>5. account' = account \union {h.user}
    <2>1. h.caller # "register" => h.user \in account
      BY <1>1 DEF Accounts, Issuers, Minting
    <2>2. QED
      BY <2>1 DEF CommitIssue
  <1>6. \A u \in User : signedIn'[u] => signedIn[u] \/ u = h.user
    BY DEF CommitIssue, IInv, TypeOK
  <1>7. Issuers'
    BY <1>4, <1>5 DEF Accounts, Issuers, Minting, Idle
  <1> HIDE DEF h
  <1>8. LinksHaveAccounts'
    BY <1>1, <1>3, <1>5 DEF Accounts, LinksHaveAccounts, RowsKept
  <1>9. h.caller # "register" => h.user \in account
    BY <1>1 DEF Accounts, Issuers, Minting, h
  <1>10. AccountsHaveLinks'
    <2> SUFFICES ASSUME NEW u \in User
                 PROVE  /\ u \in account' <=> \E l \in Stored' :
                             row'[l].user = u /\ row'[l].purpose = "email_verify"
                        /\ signedIn'[u] => u \in account'
      BY DEF AccountsHaveLinks
    <2>1. CASE u = h.user
      <3>1. CASE h.caller = "register"
        BY <1>1, <1>3, <1>5, <2>1, <3>1 DEF PurposeOf
      <3>2. CASE h.caller # "register"
        BY <1>1, <1>5, <1>9, <2>1, <3>2 DEF Accounts, AccountsHaveLinks, RowsKept
      <3>3. QED
        BY <3>1, <3>2
    <2>2. CASE u # h.user
      BY <1>1, <1>3, <1>5, <1>6, <2>2 DEF Accounts, AccountsHaveLinks, RowsKept
    <2>3. QED
      BY <2>1, <2>2
  <1>11. QED
    BY <1>7, <1>8, <1>10 DEF Accounts

\* The remaining steps store no link, open no account and mint nothing.
LEMMA OtherAccounts ==
  ASSUME IInv, Accounts,
         \/ \E r \in Request : Consume(r) \/ Fail(r)
         \/ Environment
         \/ UNCHANGED vars
  PROVE  Accounts'
  <1>1. account' = account /\ mailbox' = mailbox
    BY DEF Consume, BeginConsume, Claim, ClaimMisses, LoadUser, FinishVerify, FinishReset,
       Fail, Environment, Expire, SetActive, SignIn, data, vars
  <1>2. RowsKept /\ Stored' = Stored
    <2>1. CASE row' = row
      BY <2>1, SameRows DEF IInv
    <2>2. ASSUME NEW r \in Request, Claim(r)
          PROVE  RowsKept /\ Stored' = Stored
      <3>1. handler[r].link \in Stored
        BY <2>2 DEF Claim, IInv, Requests, Redeems, Redeeming
      <3>2. QED
        BY <2>2, <3>1, RowChanged DEF Claim, IInv
    <2>3. ASSUME NEW l \in Stored, Expire(l)
          PROVE  RowsKept /\ Stored' = Stored
      BY <2>3, RowChanged DEF Expire, IInv
    <2>4. QED
      BY <2>1, <2>2, <2>3 DEF Consume, BeginConsume, ClaimMisses, LoadUser, FinishVerify,
         FinishReset, Fail, Environment, SetActive, SignIn, data, vars
  <1>3. \A u \in User : signedIn'[u] => signedIn[u] \/ u \in account
    <2>1. CASE signedIn' = signedIn
      BY <2>1
    <2>2. ASSUME NEW v \in User, SignIn(v)
          PROVE  \A u \in User : signedIn'[u] => signedIn[u] \/ u \in account
      BY <2>2 DEF SignIn, IInv, TypeOK
    <2>3. ASSUME NEW r \in Request, FinishReset(r)
          PROVE  \A u \in User : signedIn'[u] => signedIn[u] \/ u \in account
      BY <2>3 DEF FinishReset, IInv, TypeOK
    <2>4. QED
      BY <2>1, <2>2, <2>3 DEF Consume, BeginConsume, Claim, ClaimMisses, LoadUser,
         FinishVerify, Fail, Environment, Expire, SetActive, data, vars
  <1>4. \A r \in Request : Minting(r)' => handler'[r] = handler[r]
    <2>1. CASE handler' = handler
      BY <2>1
    <2>2. ASSUME NEW r \in Request, Consume(r) \/ Fail(r)
          PROVE  \A q \in Request : Minting(q)' => handler'[q] = handler[q]
      <3>1. \A q \in Request \ {r} : handler'[q] = handler[q]
        BY <2>2 DEF Consume, BeginConsume, Claim, ClaimMisses, LoadUser, FinishVerify,
           FinishReset, Fail, Answer, IInv, TypeOK
      <3>2. ~Minting(r)'
        BY <2>2 DEF Consume, BeginConsume, Claim, ClaimMisses, LoadUser, FinishVerify,
           FinishReset, Fail, Answer, IInv, TypeOK, Minting, Idle, Handler
      <3>3. QED
        BY <3>1, <3>2
    <2>3. QED
      BY <2>1, <2>2 DEF Environment, Expire, SetActive, SignIn, vars
  <1>5. QED
    BY <1>1, <1>2, <1>3, <1>4, SameAccounts, SameIssuers DEF Accounts

LEMMA NextAccounts == IInv /\ Accounts /\ [Next]_vars => Accounts'
  BY BeginIssueAccounts, SendMailAccounts, MailFailsAccounts, CommitIssueAccounts,
     OtherAccounts DEF Next, Issue

THEOREM AccountsInvariance == Spec => []Accounts
  BY Invariance, InitAccounts, NextAccounts, PTL DEF Spec

-----------------------------------------------------------------------------
(* The properties. *)

\* Links, requests and accounts are always well typed.
THEOREM TypeCorrect == Spec => []TypeOK
  <1>1. IInv => TypeOK
    BY DEF IInv
  <1>2. QED
    BY <1>1, Invariance, PTL

\* However many requests present a link at the same time, and wherever a worker
\* is lost, it takes effect at most once (account.py 97-121).
THEOREM RedeemedOnceHolds == Spec => []RedeemedOnce
  <1>1. IInv => RedeemedOnce
    BY DEF IInv, Effects
  <1>2. QED
    BY <1>1, Invariance, PTL

\* As many password resets as redeemed reset links of the user, verified only
\* by a verification link of the user, and an account exactly where there is
\* such a link (account.py 76-121, auth.py 83-107).
THEOREM EveryEffectHasItsLinkHolds == Spec => []EveryEffectHasItsLink
  <1>1. IInv /\ Accounts => EveryEffectHasItsLink
    BY DEF IInv, Effects, Accounts, EveryEffectHasItsLink
  <1>2. QED
    BY <1>1, Invariance, AccountsInvariance, PTL

\* A used link stays used; it becomes used by its claim or in exchange for a
\* newer, delivered and outstanding one of the same user and purpose, and by
\* nothing else (account.py 47-152).
THEOREM LinksAreSingleUseHolds == Spec => LinksAreSingleUse
  <1>1. ASSUME IInv, Accounts, Next
        PROVE  KeepsLinks
    <2>1. CASE row' = row
      BY <2>1 DEF KeepsLinks, Stored
    <2>2. ASSUME NEW r \in Request, Claim(r)
          PROVE  KeepsLinks
      <3>1. handler[r].link \in Stored /\ handler[r].stage = "claim"
        BY <1>1, <2>2 DEF Claim, IInv, Requests, Redeems, Redeeming
      <3>2. RowsKept /\ \A k \in Stored \ {handler[r].link} : row'[k] = row[k]
        BY <1>1, <2>2, <3>1, RowChanged DEF Claim, IInv
      <3>3. QED
        BY <3>1, <3>2 DEF KeepsLinks, RowsKept
    <2>3. ASSUME NEW r \in Request, CommitIssue(r)
          PROVE  KeepsLinks
      <3>1. /\ handler[r].stage = "commit" /\ RowsKept
            /\ Stored' = Stored \union {handler[r].link}
            /\ ~row'[handler[r].link].used
            /\ \A l \in Stored : l \notin handler[r].seen => row'[l] = row[l]
        BY <1>1, <2>3, StoreIs DEF CommitIssue, IInv
      <3>2. /\ handler[r].link \notin Stored
            /\ \A l \in handler[r].seen : /\ row[l].user = handler[r].user
                                         /\ row[l].purpose = PurposeOf(handler[r].caller)
        BY <1>1, <3>1 DEF IInv, Requests, Mints, Minting
      <3>3. \A l \in handler[r].seen : handler[r].link \in mailbox
        BY <1>1, <3>1 DEF Accounts, Issuers, Minting
      <3>4. \A l \in handler[r].seen : Replaces(r, l)
        BY <3>1, <3>2, <3>3 DEF Replaces
      <3>5. QED
        BY <3>1, <3>4 DEF KeepsLinks, RowsKept
    <2>4. ASSUME NEW l \in Stored, Expire(l)
          PROVE  KeepsLinks
      <3>1. RowsKept /\ \A k \in Stored : row'[k].used = row[k].used
        <4>1. row' = [row EXCEPT ![l].expired = TRUE]
          BY <2>4 DEF Expire
        <4>2. /\ RowsKept /\ \A k \in Stored \ {l} : row'[k] = row[k]
              /\ row'[l].used = row[l].used
          BY <1>1, <4>1, RowChanged DEF IInv
        <4>3. QED
          BY <4>2
      <3>2. QED
        BY <3>1 DEF KeepsLinks, RowsKept
    <2>5. ASSUME NEW r \in Request, Issue(r) \/ Consume(r) \/ Fail(r)
          PROVE  CommitIssue(r) \/ Claim(r) \/ row' = row
      <3>1. CASE Issue(r)
        BY <3>1 DEF Issue, BeginIssue, SendMail, MailFails, data
      <3>2. CASE Consume(r)
        BY <3>2 DEF Consume, BeginConsume, ClaimMisses, LoadUser, FinishVerify, FinishReset, data
      <3>3. CASE Fail(r)
        BY <3>3 DEF Fail, data
      <3>4. QED
        BY <2>5, <3>1, <3>2, <3>3
    <2>6. ASSUME NEW u \in User, SetActive(u) \/ SignIn(u)
          PROVE  row' = row
      BY <2>6 DEF SetActive, SignIn
    <2>7. QED
      BY <1>1, <2>1, <2>2, <2>3, <2>4, <2>5, <2>6 DEF Next, Environment
  <1>2. IInv /\ Accounts /\ [Next]_vars => [KeepsLinks]_vars
    BY <1>1
  <1>3. QED
    BY <1>2, Invariance, AccountsInvariance, PTL DEF Spec, LinksAreSingleUse
=============================================================================
