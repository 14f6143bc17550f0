------------------------ MODULE RefreshTokensProofs ------------------------
(***************************************************************************)
(* Proofs about RefreshTokens for every number of users, tokens, families  *)
(* and concurrent requests.                                                *)
(***************************************************************************)
EXTENDS RefreshTokens, TLAPS

(***************************************************************************)
(* What a request in flight knows stays true of the table: the token it    *)
(* read is still a row of the same user.  Together with the two invariants *)
(* of the table this is inductive.                                         *)
(***************************************************************************)
HandlerOK ==
  \A r \in Request :
    /\ handler[r].op # "idle" => handler[r].user \in User
    /\ handler[r].op = "idle" => handler[r] = Idle
    /\ handler[r].op \in {"refresh", "replay"} => handler[r].token # None
    /\ handler[r].token # None =>
         /\ handler[r].token \in Issued
         /\ row[handler[r].token].user = handler[r].user

IInv == TypeOK /\ HandlerOK /\ Lineage /\ OneLoginPerFamily

-----------------------------------------------------------------------------
(* What the statements do to the table. *)

\* A refresh or login leaves every old row in place and adds one.
LEMMA IssueShape ==
  ASSUME NEW rows, NEW t, NEW u, NEW f, NEW e, Issue(rows, t, u, f, e)
  PROVE  /\ t \in Token /\ t \notin Issued
         /\ Issued' = Issued \union {t}
         /\ row'[t] = [user |-> u, family |-> f, rotated_to |-> None,
                       revoked |-> FALSE, expired |-> FALSE, epoch |-> e]
         /\ \A x \in Issued : row'[x] = rows[x]
  BY DEF Issue, Issued

\* A bulk revocation changes revoked_at of the rows of S and nothing else.
LEMMA RevokeShape ==
  ASSUME TypeOK, NEW S, Revoke(S)
  PROVE  /\ Issued' = Issued
         /\ row' \in [Issued -> Row]
         /\ \A x \in Issued :
              /\ row'[x].user = row[x].user
              /\ row'[x].family = row[x].family
              /\ row'[x].epoch = row[x].epoch
              /\ row'[x].rotated_to = row[x].rotated_to
              /\ row'[x].expired = row[x].expired
              /\ row'[x].revoked = (row[x].revoked \/ x \in S)
  <1>1. row \in [Issued -> Row] /\ Issued' = Issued
    BY DEF TypeOK, Revoke, Issued
  <1>2. ASSUME NEW x \in Issued
        PROVE  /\ row'[x] \in Row
               /\ row'[x].user = row[x].user
               /\ row'[x].family = row[x].family
               /\ row'[x].epoch = row[x].epoch
               /\ row'[x].rotated_to = row[x].rotated_to
               /\ row'[x].expired = row[x].expired
               /\ row'[x].revoked = (row[x].revoked \/ x \in S)
    <2>1. row'[x] = IF x \in S THEN [row[x] EXCEPT !.revoked = TRUE] ELSE row[x]
      BY DEF Revoke
    <2>2. row[x] \in Row
      BY <1>1
    <2>3. CASE x \in S
      BY <2>1, <2>2, <2>3 DEF Row
    <2>4. CASE x \notin S
      BY <2>1, <2>2, <2>4 DEF Row
    <2>5. QED
      BY <2>3, <2>4
  <1>3. row' = [t \in Issued |-> row'[t]]
    BY DEF Revoke
  <1>4. QED
    BY <1>1, <1>2, <1>3

\* The request r is answered or fails, and no row changes its user.
LEMMA AnswerKeepsHandlers ==
  ASSUME IInv, NEW r \in Request, handler' = [handler EXCEPT ![r] = Idle],
         Issued \subseteq Issued', \A x \in Issued : row'[x].user = row[x].user
  PROVE  HandlerOK' /\ handler' \in [Request -> Handler]
  <1>1. handler' \in [Request -> Handler]
    BY DEF IInv, TypeOK, Handler, Idle, Op
  <1>2. ASSUME NEW q \in Request
        PROVE  handler'[q] = handler[q] \/ handler'[q] = Idle
    BY DEF IInv, TypeOK
  <1>3. QED
    BY <1>1, <1>2 DEF IInv, HandlerOK, Idle

\* A request starts after reading token t of user u, or no token.
LEMMA StartKeeps ==
  ASSUME IInv, NEW r \in Request, NEW op \in Op \ {"idle"}, NEW u \in User,
         NEW t \in Issued \union {None}, NEW e \in Nat,
         t # None => row[t].user = u,
         op \in {"refresh", "replay"} => t # None,
         Start(r, op, u, t, e)
  PROVE  IInv'
  <1>1. UNCHANGED <<row, active, epoch, closed>> /\ Issued' = Issued
    BY DEF Start, Issued
  <1>2. handler' = [handler EXCEPT ![r] =
                     [op |-> op, user |-> u, token |-> t, epoch |-> e]]
    BY DEF Start
  <1>3. handler' \in [Request -> Handler]
    BY <1>2 DEF IInv, TypeOK, Handler
  <1>4. TypeOK'
    BY <1>1, <1>3 DEF IInv, TypeOK
  <1>5. HandlerOK'
    BY <1>1, <1>2 DEF IInv, HandlerOK, TypeOK, Idle
  <1>6. Lineage' /\ OneLoginPerFamily'
    BY <1>1 DEF IInv, Lineage, OneLoginPerFamily
  <1>7. QED
    BY <1>4, <1>5, <1>6 DEF IInv

\* A bulk revocation keeps the table well formed.
LEMMA RevokeKeepsTable ==
  ASSUME IInv, NEW S \in SUBSET Issued, Revoke(S)
  PROVE  /\ Issued' = Issued /\ row' \in [Issued -> Row]
         /\ closed' \subseteq Family
         /\ \A x \in Issued : row'[x].user = row[x].user
         /\ Lineage' /\ OneLoginPerFamily'
  <1>1. /\ Issued' = Issued /\ row' \in [Issued -> Row]
        /\ \A x \in Issued :
              /\ row'[x].user = row[x].user
              /\ row'[x].family = row[x].family
              /\ row'[x].epoch = row[x].epoch
              /\ row'[x].rotated_to = row[x].rotated_to
              /\ row'[x].revoked = (row[x].revoked \/ x \in S)
    BY RevokeShape DEF IInv
  <1>2. closed' \subseteq Family
    BY DEF Revoke, IInv, TypeOK, Row
  <1>3. Lineage'
    <2> SUFFICES ASSUME NEW x \in Issued, row[x].rotated_to # None
                 PROVE  /\ row'[x].revoked
                        /\ row[x].rotated_to \in Issued \ {x}
                        /\ row'[row[x].rotated_to].family = row'[x].family
      BY <1>1 DEF Lineage
    <2>1. /\ row[x].revoked /\ row[x].rotated_to \in Issued \ {x}
          /\ row[row[x].rotated_to].family = row[x].family
      BY DEF IInv, Lineage
    <2>2. row'[x].revoked
      BY <1>1, <2>1
    <2>3. row'[row[x].rotated_to].family = row'[x].family
      BY <1>1, <2>1
    <2>4. QED
      BY <2>1, <2>2, <2>3
  <1>4. OneLoginPerFamily'
    BY <1>1 DEF IInv, OneLoginPerFamily
  <1>5. QED
    BY <1>1, <1>2, <1>3, <1>4

-----------------------------------------------------------------------------
(* Every step keeps the invariant. *)

LEMMA InitIInv == Init => IInv
  <1> SUFFICES ASSUME Init PROVE IInv
    OBVIOUS
  <1>1. Issued = {}
    BY DEF Init, Issued
  <1>2. TypeOK
    BY <1>1 DEF Init, TypeOK, Issued, Handler, Idle, Op
  <1>3. HandlerOK
    BY DEF Init, HandlerOK, Idle
  <1>4. QED
    BY <1>1, <1>2, <1>3 DEF IInv, Lineage, OneLoginPerFamily

LEMMA BeginKeeps ==
  ASSUME IInv, NEW u \in User, Begin(u)
  PROVE  IInv'
  <1> PICK r \in Request :
        \/ BeginLogin(r, u)
        \/ BeginPassword(r, u)
        \/ \E t \in TokensOf(u) : BeginRefresh(r, t) \/ BeginReplay(r, t)
        \/ \E t \in Issued \union {None} : BeginLogout(r, u, t)
    BY DEF Begin
  <1>0. epoch[u] \in Nat /\ None \notin Issued /\ \A t \in Issued : row[t] \in Row
    BY NoneAssumption DEF IInv, TypeOK
  <1>1. CASE BeginLogin(r, u)
    BY <1>0, <1>1, StartKeeps DEF BeginLogin, Op
  <1>2. CASE BeginPassword(r, u)
    BY <1>0, <1>2, StartKeeps DEF BeginPassword, Op
  <1>3. ASSUME NEW t \in TokensOf(u), BeginRefresh(r, t)
        PROVE  IInv'
    BY <1>0, <1>3, StartKeeps DEF BeginRefresh, Op, TokensOf, Row
  <1>4. ASSUME NEW t \in TokensOf(u), BeginReplay(r, t)
        PROVE  IInv'
    BY <1>0, <1>4, StartKeeps DEF BeginReplay, Op, TokensOf, Row
  <1>5. ASSUME NEW t \in Issued \union {None}, BeginLogout(r, u, t)
        PROVE  IInv'
    BY <1>0, <1>5, StartKeeps DEF BeginLogout, Presentable, Op, TokensOf
  <1>6. QED
    BY <1>1, <1>2, <1>3, <1>4, <1>5

LEMMA FinishLoginKeeps ==
  ASSUME IInv, NEW r \in Request, FinishLogin(r)
  PROVE  IInv'
  <1>1. PICK t \in Token, f \in UnusedFamilies :
               Issue(row, t, handler[r].user, f, handler[r].epoch)
    BY DEF FinishLogin
  <1> DEFINE new == [user |-> handler[r].user, family |-> f, rotated_to |-> None,
                     revoked |-> FALSE, expired |-> FALSE,
                     epoch |-> handler[r].epoch]
  <1>2. /\ t \notin Issued /\ Issued' = Issued \union {t}
        /\ row'[t] = new /\ \A x \in Issued : row'[x] = row[x]
    BY <1>1, IssueShape
  <1>3. new \in Row
    BY DEF FinishLogin, Respond, IInv, HandlerOK, TypeOK, Handler, Row, UnusedFamilies
  <1>4. row' \in [Issued' -> Row]
    <2>1. \A x \in Issued' : row'[x] \in Row
      BY <1>2, <1>3 DEF IInv, TypeOK
    <2>2. row' = [x \in Issued' |-> row'[x]]
      BY <1>1, <1>2 DEF Issue
    <2>3. QED
      BY <2>1, <2>2
  <1>5. HandlerOK' /\ handler' \in [Request -> Handler]
    BY <1>2, AnswerKeepsHandlers DEF FinishLogin, Respond
  <1>6. TypeOK'
    BY <1>2, <1>4, <1>5 DEF FinishLogin, IInv, TypeOK
  <1>7. \A x \in Issued : row[x].family # f
    BY DEF UnusedFamilies, Families
  <1>8. Lineage'
    BY <1>2 DEF IInv, Lineage
  <1>9. OneLoginPerFamily'
    BY <1>2, <1>7 DEF IInv, OneLoginPerFamily
  <1>10. QED
    BY <1>5, <1>6, <1>8, <1>9 DEF IInv

LEMMA FinishRefreshKeeps ==
  ASSUME IInv, NEW r \in Request, FinishRefresh(r)
  PROVE  IInv'
  <1> DEFINE t == handler[r].token
             rows(n) == Spend(t, n)
  <1>1. PICK n \in Token :
               Issue(rows(n), n, row[t].user, row[t].family, row[t].epoch)
    BY DEF FinishRefresh
  <1>2. t \in Issued /\ row \in [Issued -> Row] /\ Issued \subseteq Token
    BY DEF FinishRefresh, Respond, IInv, HandlerOK, TypeOK
  <1> DEFINE new == [user |-> row[t].user, family |-> row[t].family,
                     rotated_to |-> None, revoked |-> FALSE,
                     expired |-> FALSE, epoch |-> row[t].epoch]
  <1>3. /\ n \notin Issued /\ Issued' = Issued \union {n}
        /\ row'[n] = new /\ \A x \in Issued : row'[x] = rows(n)[x]
    <2> HIDE DEF t, rows
    <2> QED BY <1>1, IssueShape DEF new
  <1>4. /\ row'[t] = [row[t] EXCEPT !.rotated_to = n, !.revoked = TRUE]
        /\ \A x \in Issued \ {t} : row'[x] = row[x]
    BY <1>2, <1>3 DEF Spend
  <1>5. row[t] \in Row
    BY <1>2
  <1>6. /\ row'[t] \in Row /\ new \in Row
        /\ row'[t].user = row[t].user /\ row'[t].family = row[t].family
        /\ row'[t].epoch = row[t].epoch
        /\ row'[t].rotated_to = n /\ row'[t].revoked
    BY <1>4, <1>5 DEF Row
  <1>7. \A x \in Issued : /\ row'[x].user = row[x].user
                          /\ row'[x].family = row[x].family
                          /\ row'[x].epoch = row[x].epoch
    BY <1>4, <1>6
  <1>8. row' \in [Issued' -> Row]
    <2>1. \A x \in Issued' : row'[x] \in Row
      BY <1>2, <1>3, <1>4, <1>6
    <2>2. row' = [x \in Issued' |-> row'[x]]
      BY <1>1, <1>3 DEF Issue
    <2>3. QED
      BY <2>1, <2>2
  <1>9. HandlerOK' /\ handler' \in [Request -> Handler]
    <2>1. handler' = [handler EXCEPT ![r] = Idle]
      BY DEF FinishRefresh, Respond
    <2>2. Issued \subseteq Issued'
      BY <1>3
    <2>3. QED
      BY <2>1, <2>2, <1>7, AnswerKeepsHandlers
  <1>10. TypeOK'
    BY <1>3, <1>8, <1>9, <1>2 DEF FinishRefresh, IInv, TypeOK
  <1>11. Lineage'
    <2> SUFFICES ASSUME NEW x \in Issued', row'[x].rotated_to # None
                 PROVE  /\ row'[x].revoked
                        /\ row'[x].rotated_to \in Issued' \ {x}
                        /\ row'[row'[x].rotated_to].family = row'[x].family
      BY DEF Lineage
    <2>1. CASE x = t
      BY <2>1, <1>2, <1>3, <1>6
    <2>2. CASE x = n
      BY <2>2, <1>3
    <2>3. CASE x \in Issued \ {t}
      BY <2>3, <1>3, <1>4, <1>7 DEF IInv, Lineage
    <2>4. QED
      BY <2>1, <2>2, <2>3, <1>3
  <1>12. OneLoginPerFamily'
    <2>1. \A x, y \in Issued : row'[x].family = row'[y].family =>
             row'[x].user = row'[y].user /\ row'[x].epoch = row'[y].epoch
      BY <1>7 DEF IInv, OneLoginPerFamily
    <2>2. /\ row'[n].user = row'[t].user /\ row'[n].epoch = row'[t].epoch
          /\ row'[n].family = row'[t].family
      BY <1>3, <1>6
    <2>3. QED
      BY <2>1, <2>2, <1>2, <1>3 DEF OneLoginPerFamily
  <1>13. QED
    BY <1>9, <1>10, <1>11, <1>12 DEF IInv

LEMMA FinishReplayKeeps ==
  ASSUME IInv, NEW r \in Request, FinishReplay(r)
  PROVE  IInv'
  <1> DEFINE S == Session(handler[r].token)
  <1>1. /\ S \subseteq Issued /\ Revoke(S)
        /\ handler' = [handler EXCEPT ![r] = Idle] /\ UNCHANGED <<active, epoch>>
    BY DEF FinishReplay, Respond, Session, Tokens
  <1> HIDE DEF S
  <1>2. /\ Issued' = Issued /\ row' \in [Issued -> Row] /\ closed' \subseteq Family
        /\ \A x \in Issued : row'[x].user = row[x].user
        /\ Lineage' /\ OneLoginPerFamily'
    BY <1>1, RevokeKeepsTable
  <1>3. HandlerOK' /\ handler' \in [Request -> Handler]
    BY <1>1, <1>2, AnswerKeepsHandlers
  <1>4. QED
    BY <1>1, <1>2, <1>3 DEF IInv, TypeOK

LEMMA FinishLogoutKeeps ==
  ASSUME IInv, NEW r \in Request, FinishLogout(r)
  PROVE  IInv'
  <1> DEFINE S == IF handler[r].token = None THEN TokensOf(handler[r].user)
                  ELSE Session(handler[r].token)
  <1>1. /\ S \subseteq Issued /\ Revoke(S)
        /\ handler' = [handler EXCEPT ![r] = Idle] /\ UNCHANGED <<active, epoch>>
    BY DEF FinishLogout, Respond, Session, Tokens, TokensOf
  <1> HIDE DEF S
  <1>2. /\ Issued' = Issued /\ row' \in [Issued -> Row] /\ closed' \subseteq Family
        /\ \A x \in Issued : row'[x].user = row[x].user
        /\ Lineage' /\ OneLoginPerFamily'
    BY <1>1, RevokeKeepsTable
  <1>3. HandlerOK' /\ handler' \in [Request -> Handler]
    BY <1>1, <1>2, AnswerKeepsHandlers
  <1>4. QED
    BY <1>1, <1>2, <1>3 DEF IInv, TypeOK

LEMMA FinishPasswordKeeps ==
  ASSUME IInv, NEW r \in Request, FinishPassword(r)
  PROVE  IInv'
  <1> DEFINE S == TokensOf(handler[r].user)
  <1>1. /\ S \subseteq Issued /\ Revoke(S)
        /\ handler' = [handler EXCEPT ![r] = Idle] /\ UNCHANGED active
    BY DEF FinishPassword, Respond, TokensOf
  <1>2. epoch' \in [User -> Nat]
    <2>1. handler[r].user \in User
      BY DEF FinishPassword, Respond, IInv, HandlerOK
    <2>2. epoch' = [epoch EXCEPT ![handler[r].user] = epoch[handler[r].user] + 1]
      BY DEF FinishPassword
    <2>3. QED
      BY <2>1, <2>2 DEF IInv, TypeOK
  <1> HIDE DEF S
  <1>3. /\ Issued' = Issued /\ row' \in [Issued -> Row] /\ closed' \subseteq Family
        /\ \A x \in Issued : row'[x].user = row[x].user
        /\ Lineage' /\ OneLoginPerFamily'
    BY <1>1, RevokeKeepsTable
  <1>4. HandlerOK' /\ handler' \in [Request -> Handler]
    BY <1>1, <1>3, AnswerKeepsHandlers
  <1>5. QED
    BY <1>1, <1>2, <1>3, <1>4 DEF IInv, TypeOK

LEMMA FailKeeps ==
  ASSUME IInv, NEW r \in Request, Fail(r)
  PROVE  IInv'
  <1>1. UNCHANGED <<row, active, epoch, closed>> /\ Issued' = Issued
    BY DEF Fail, Issued
  <1>2. HandlerOK' /\ handler' \in [Request -> Handler]
    BY <1>1, AnswerKeepsHandlers DEF Fail
  <1>3. QED
    BY <1>1, <1>2 DEF IInv, TypeOK, Lineage, OneLoginPerFamily

LEMMA FinishKeeps ==
  ASSUME IInv, NEW r \in Request, Finish(r)
  PROVE  IInv'
  BY FinishLoginKeeps, FinishRefreshKeeps, FinishReplayKeeps,
     FinishLogoutKeeps, FinishPasswordKeeps, FailKeeps DEF Finish

\* Expiry and account activation touch no field the invariant is about.
LEMMA EnvironmentKeeps ==
  ASSUME IInv, Environment
  PROVE  IInv'
  <1>1. ASSUME NEW t \in Issued, Expire(t)
        PROVE  IInv'
    <2>1. /\ Issued' = Issued /\ row' = [row EXCEPT ![t].expired = TRUE]
          /\ UNCHANGED <<active, epoch, handler, closed>>
      BY <1>1 DEF Expire, Issued, IInv, TypeOK
    <2>2. /\ row' \in [Issued -> Row]
          /\ \A x \in Issued :
               /\ row'[x].user = row[x].user /\ row'[x].family = row[x].family
               /\ row'[x].epoch = row[x].epoch
               /\ row'[x].rotated_to = row[x].rotated_to
               /\ row'[x].revoked = row[x].revoked
      BY <2>1 DEF IInv, TypeOK, Row
    <2>3. TypeOK'
      BY <2>1, <2>2 DEF IInv, TypeOK
    <2>4. HandlerOK'
      BY <2>1, <2>2 DEF IInv, HandlerOK
    <2>5. Lineage' /\ OneLoginPerFamily'
      BY <2>1, <2>2 DEF IInv, Lineage, OneLoginPerFamily
    <2>6. QED
      BY <2>3, <2>4, <2>5 DEF IInv
  <1>2. ASSUME NEW u \in User, SetActive(u)
        PROVE  IInv'
    BY <1>2 DEF SetActive, IInv, TypeOK, HandlerOK, Lineage, OneLoginPerFamily, Issued
  <1>3. QED
    BY <1>1, <1>2 DEF Environment

LEMMA NextKeeps == IInv /\ [Next]_vars => IInv'
  <1> SUFFICES ASSUME IInv, [Next]_vars PROVE IInv'
    OBVIOUS
  <1>1. CASE Next
    BY <1>1, BeginKeeps, FinishKeeps, EnvironmentKeeps DEF Next
  <1>2. CASE UNCHANGED vars
    BY <1>2 DEF vars, IInv, TypeOK, HandlerOK, Lineage, OneLoginPerFamily, Issued
  <1>3. QED
    BY <1>1, <1>2

THEOREM Invariance == Spec => []IInv
  BY InitIInv, NextKeeps, PTL DEF Spec

-----------------------------------------------------------------------------
(* Theorems about every interleaving. *)

\* The table and the requests in flight are always well typed.
THEOREM TypeCorrect == Spec => []TypeOK
  <1>1. IInv => TypeOK
    BY DEF IInv
  <1>2. QED
    BY <1>1, Invariance, PTL

\* A spent token is revoked and points into its own session (auth.py 181-185).
THEOREM LineageHolds == Spec => []Lineage
  <1>1. IInv => Lineage
    BY DEF IInv
  <1>2. QED
    BY <1>1, Invariance, PTL

\* All tokens of a family belong to one user and one login (auth.py 56-71).
THEOREM OneLoginPerFamilyHolds == Spec => []OneLoginPerFamily
  <1>1. IInv => OneLoginPerFamily
    BY DEF IInv
  <1>2. QED
    BY <1>1, Invariance, PTL

(***************************************************************************)
(* What one step may do to a row: users and families never change, a        *)
(* revoked, expired or spent row stays so, and a new row belongs to a fresh *)
(* family or replaces a token that a refresh in flight had read.            *)
(***************************************************************************)
StepShape ==
  /\ Issued \subseteq Issued'
  /\ \A t \in Issued :
       /\ row'[t].user = row[t].user
       /\ row'[t].family = row[t].family
       /\ row[t].revoked => row'[t].revoked
       /\ row[t].expired => row'[t].expired
       /\ row[t].rotated_to # None => row'[t].rotated_to # None
  /\ \A t \in Issued' \ Issued :
       \/ row'[t].family \notin Families
       \/ \E r \in Request : /\ handler[r].op = "refresh"
                             /\ row'[t].family = row[handler[r].token].family

\* A refresh in flight after a step was in flight before it, or has just
\* found its token usable.
HandlerShape ==
  \A r \in Request : handler'[r].op = "refresh" =>
    \/ handler'[r] = handler[r]
    \/ handler'[r].token \in Issued /\ handler'[r].token \in Usable(row[handler'[r].token].family)

LEMMA RevokeStepShape ==
  ASSUME IInv, NEW S, Revoke(S)
  PROVE  StepShape
  BY RevokeShape DEF IInv, StepShape

LEMMA LoginStepShape ==
  ASSUME IInv, NEW r \in Request, FinishLogin(r)
  PROVE  StepShape
  <1>1. PICK t \in Token, f \in UnusedFamilies :
               Issue(row, t, handler[r].user, f, handler[r].epoch)
    BY DEF FinishLogin
  <1>2. /\ Issued' = Issued \union {t}
        /\ row'[t] = [user |-> handler[r].user, family |-> f, rotated_to |-> None,
                      revoked |-> FALSE, expired |-> FALSE,
                      epoch |-> handler[r].epoch]
        /\ \A x \in Issued : row'[x] = row[x]
    BY <1>1, IssueShape
  <1>3. row'[t].family = f
    BY <1>2
  <1>4. QED
    BY <1>2, <1>3 DEF StepShape, UnusedFamilies

LEMMA RefreshStepShape ==
  ASSUME IInv, NEW r \in Request, FinishRefresh(r)
  PROVE  StepShape
  <1> DEFINE t == handler[r].token
             rows(n) == Spend(t, n)
  <1>1. PICK n \in Token :
               Issue(rows(n), n, row[t].user, row[t].family, row[t].epoch)
    BY DEF FinishRefresh
  <1>2. t \in Issued /\ row \in [Issued -> Row] /\ handler[r].op = "refresh"
    BY DEF FinishRefresh, Respond, IInv, HandlerOK, TypeOK
  <1>3. /\ Issued' = Issued \union {n} /\ row'[n].family = row[t].family
        /\ \A x \in Issued : row'[x] = rows(n)[x]
    <2> HIDE DEF t, rows
    <2>1. /\ Issued' = Issued \union {n}
          /\ row'[n] = [user |-> row[t].user, family |-> row[t].family,
                        rotated_to |-> None, revoked |-> FALSE,
                        expired |-> FALSE, epoch |-> row[t].epoch]
          /\ \A x \in Issued : row'[x] = rows(n)[x]
      BY <1>1, IssueShape
    <2> QED BY <2>1
  <1>4. /\ row'[t] = [row[t] EXCEPT !.rotated_to = n, !.revoked = TRUE]
        /\ \A x \in Issued \ {t} : row'[x] = row[x]
    BY <1>2, <1>3 DEF Spend
  <1>5. row[t] \in Row /\ n # None
    BY <1>2, NoneAssumption
  <1>6. /\ row'[t].user = row[t].user /\ row'[t].family = row[t].family
        /\ row'[t].rotated_to = n /\ row'[t].revoked
        /\ row'[t].expired = row[t].expired
    BY <1>4, <1>5 DEF Row
  <1>7. \A x \in Issued : /\ row'[x].user = row[x].user
                          /\ row'[x].family = row[x].family
                          /\ row[x].revoked => row'[x].revoked
                          /\ row[x].expired => row'[x].expired
                          /\ row[x].rotated_to # None => row'[x].rotated_to # None
    BY <1>4, <1>5, <1>6
  <1>8. QED
    BY <1>2, <1>3, <1>7 DEF StepShape

LEMMA SameRowsStepShape ==
  ASSUME row' = row
  PROVE  StepShape
  BY DEF StepShape, Issued

LEMMA ExpireStepShape ==
  ASSUME IInv, NEW t \in Issued, Expire(t)
  PROVE  StepShape
  <1>1. Issued' = Issued /\ row' = [row EXCEPT ![t].expired = TRUE]
    BY DEF Expire, Issued, IInv, TypeOK
  <1>2. \A x \in Issued :
          /\ row'[x].user = row[x].user /\ row'[x].family = row[x].family
          /\ row'[x].rotated_to = row[x].rotated_to
          /\ row'[x].revoked = row[x].revoked
          /\ row[x].expired => row'[x].expired
    BY <1>1 DEF IInv, TypeOK, Row
  <1>3. QED
    BY <1>1, <1>2 DEF StepShape

LEMMA BeginShape ==
  ASSUME IInv, NEW u \in User, Begin(u)
  PROVE  StepShape /\ HandlerShape
  <1>1. row' = row
    BY DEF Begin, BeginLogin, BeginPassword, BeginRefresh, BeginReplay, BeginLogout, Start
  <1>2. PICK r \in Request :
          \/ BeginLogin(r, u)
          \/ BeginPassword(r, u)
          \/ \E t \in TokensOf(u) : BeginRefresh(r, t) \/ BeginReplay(r, t)
          \/ \E t \in Issued \union {None} : BeginLogout(r, u, t)
    BY DEF Begin
  <1>3. /\ \A q \in Request \ {r} : handler'[q] = handler[q]
        /\ handler'[r].op = "refresh" =>
             /\ handler'[r].token \in Issued
             /\ handler'[r].token \in Usable(row[handler'[r].token].family)
    <2> USE DEF Start, IInv, TypeOK
    <2>1. CASE BeginLogin(r, u) \/ BeginPassword(r, u)
      BY <2>1 DEF BeginLogin, BeginPassword
    <2>2. CASE \E t \in TokensOf(u) : BeginRefresh(r, t)
      BY <2>2 DEF BeginRefresh, Exchangeable, TokensOf, Usable, Unrevoked, Tokens
    <2>3. CASE \E t \in TokensOf(u) : BeginReplay(r, t)
      BY <2>3 DEF BeginReplay
    <2>4. CASE \E t \in Issued \union {None} : BeginLogout(r, u, t)
      BY <2>4 DEF BeginLogout
    <2>5. QED
      BY <1>2, <2>1, <2>2, <2>3, <2>4
  <1>4. HandlerShape
    BY <1>3 DEF HandlerShape
  <1>5. QED
    BY <1>1, <1>4, SameRowsStepShape

LEMMA FinishShape ==
  ASSUME IInv, NEW r \in Request, Finish(r)
  PROVE  StepShape /\ HandlerShape
  <1>1. handler' = [handler EXCEPT ![r] = Idle]
    BY DEF Finish, FinishLogin, FinishRefresh, FinishReplay, FinishLogout,
           FinishPassword, Fail, Respond
  <1>2. HandlerShape
    BY <1>1 DEF HandlerShape, IInv, TypeOK, Idle
  <1>3. StepShape
    <2>1. CASE FinishLogin(r)
      BY <2>1, LoginStepShape
    <2>2. CASE FinishRefresh(r)
      BY <2>2, RefreshStepShape
    <2>3. CASE FinishReplay(r)
      BY <2>3, RevokeStepShape DEF FinishReplay
    <2>4. CASE FinishLogout(r)
      BY <2>4, RevokeStepShape DEF FinishLogout
    <2>5. CASE FinishPassword(r)
      BY <2>5, RevokeStepShape DEF FinishPassword
    <2>6. CASE Fail(r)
      BY <2>6, SameRowsStepShape DEF Fail
    <2>7. QED
      BY <2>1, <2>2, <2>3, <2>4, <2>5, <2>6 DEF Finish
  <1>4. QED
    BY <1>2, <1>3

LEMMA EveryStepShape ==
  ASSUME IInv, [Next]_vars
  PROVE  StepShape /\ HandlerShape
  <1>1. CASE Environment
    BY <1>1, ExpireStepShape, SameRowsStepShape
       DEF Environment, Expire, SetActive, HandlerShape
  <1>2. CASE UNCHANGED vars
    BY <1>2, SameRowsStepShape DEF vars, HandlerShape
  <1>3. QED
    BY <1>1, <1>2, BeginShape, FinishShape DEF Next

\* Families have one user, and logout selects the presented token by user.
LEMMA RevokedByOwner ==
  ASSUME IInv, [Next]_vars, NEW t \in Issued, ~row[t].revoked, row'[t].revoked
  PROVE  \E r \in Request : handler[r].user = row[t].user /\ handler'[r] = Idle
  <1>0. /\ row \in [Issued -> Row] /\ handler \in [Request -> Handler]
        /\ OneLoginPerFamily /\ HandlerOK
    BY DEF IInv, TypeOK
  <1>1. row' # row
    OBVIOUS
  <1>2. PICK r \in Request : Finish(r)
    <2>1. ASSUME NEW u \in User, Begin(u)
          PROVE  row' = row
      BY <2>1 DEF Begin, BeginLogin, BeginPassword, BeginRefresh, BeginReplay,
                  BeginLogout, Start
    <2>2. ~Environment
      <3>1. ASSUME NEW x \in Issued, Expire(x)
            PROVE  row'[t].revoked = row[t].revoked
        BY <3>1, <1>0 DEF Expire, Row
      <3>2. ASSUME NEW u \in User, SetActive(u)
            PROVE  row' = row
        BY <3>2 DEF SetActive
      <3>3. QED
        BY <1>1, <3>1, <3>2 DEF Environment
    <2>3. QED
      BY <1>1, <2>1, <2>2 DEF Next, vars
  <1>3. handler'[r] = Idle
    BY <1>0, <1>2 DEF Finish, FinishLogin, FinishRefresh, FinishReplay,
                      FinishLogout, FinishPassword, Fail, Respond
  <1>4. ASSUME NEW S, Revoke(S)
        PROVE  t \in S
    BY <1>0, <1>4 DEF Revoke
  <1>5. handler[r].user = row[t].user
    <2>1. CASE FinishLogin(r)
      <3>1. row'[t] = row[t]
        BY <2>1 DEF FinishLogin, Issue, Issued
      <3>2. QED
        BY <3>1
    <2>2. CASE FinishRefresh(r)
      <3> DEFINE p == handler[r].token
      <3>1. p \in Issued /\ row[p].user = handler[r].user
        BY <2>2, <1>0 DEF FinishRefresh, Respond, HandlerOK
      <3>2. PICK n \in Token : row'[t] = Spend(p, n)[t]
        BY <2>2 DEF FinishRefresh, Issue, Issued
      <3>3. t = p
        BY <3>1, <3>2, <1>0 DEF Spend
      <3>4. QED
        BY <3>1, <3>3
    <2>3. CASE FinishReplay(r)
      <3>1. t \in Session(handler[r].token)
        BY <2>3, <1>4 DEF FinishReplay
      <3>2. handler[r].token \in Issued /\ row[handler[r].token].user = handler[r].user
        BY <2>3, <1>0 DEF FinishReplay, Respond, HandlerOK
      <3>3. QED
        BY <3>1, <3>2, <1>0 DEF Session, Tokens, OneLoginPerFamily
    <2>4. CASE FinishLogout(r)
      <3>1. t \in IF handler[r].token = None THEN TokensOf(handler[r].user)
                  ELSE Session(handler[r].token)
        BY <2>4, <1>4 DEF FinishLogout
      <3>2. handler[r].token # None =>
               handler[r].token \in Issued /\ row[handler[r].token].user = handler[r].user
        BY <1>0 DEF HandlerOK
      <3>3. QED
        BY <3>1, <3>2, <1>0 DEF Session, Tokens, TokensOf, OneLoginPerFamily
    <2>5. CASE FinishPassword(r)
      <3>1. t \in TokensOf(handler[r].user)
        BY <2>5, <1>4 DEF FinishPassword
      <3>2. QED
        BY <3>1 DEF TokensOf
    <2>6. CASE Fail(r)
      BY <2>6, <1>1 DEF Fail
    <2>7. QED
      BY <1>2, <2>1, <2>2, <2>3, <2>4, <2>5, <2>6 DEF Finish
  <1>6. QED
    BY <1>3, <1>5

\* No step brings a revoked or spent token back, and a token is revoked only by
\* the answer to a request of its own user (auth.py 153-219).
THEOREM RevocationIsPermanentHolds == Spec => RevocationIsPermanent
  <1>1. IInv /\ [Next]_vars => KeepsRevocations
    BY EveryStepShape, RevokedByOwner DEF StepShape, KeepsRevocations
  <1>2. QED
    BY <1>1, Invariance, PTL DEF Spec, RevocationIsPermanent

\* What a login adds to the table.
LEMMA LoginIs ==
  ASSUME IInv, NEW r \in Request, FinishLogin(r)
  PROVE  \E t \in Token \ Issued, f \in UnusedFamilies :
           /\ Issued' = Issued \union {t}
           /\ row'[t].user = handler[r].user /\ row'[t].family = f
           /\ row'[t].epoch = handler[r].epoch /\ ~row'[t].revoked
           /\ \A x \in Issued : row'[x] = row[x]
  <1>1. PICK t \in Token, f \in UnusedFamilies :
               Issue(row, t, handler[r].user, f, handler[r].epoch)
    BY DEF FinishLogin
  <1>2. /\ t \notin Issued /\ Issued' = Issued \union {t}
        /\ row'[t] = [user |-> handler[r].user, family |-> f, rotated_to |-> None,
                      revoked |-> FALSE, expired |-> FALSE, epoch |-> handler[r].epoch]
        /\ \A x \in Issued : row'[x] = row[x]
    BY <1>1, IssueShape
  <1>3. /\ row'[t].user = handler[r].user /\ row'[t].family = f
        /\ row'[t].epoch = handler[r].epoch /\ ~row'[t].revoked
    BY <1>2
  <1>4. QED
    BY <1>2, <1>3

\* What a refresh does to the table.
LEMMA RefreshIs ==
  ASSUME IInv, NEW r \in Request, FinishRefresh(r)
  PROVE  LET t == handler[r].token IN
         /\ handler[r].op = "refresh" /\ t \in Issued
         /\ row'[t].revoked
         /\ row'[t].user = row[t].user /\ row'[t].family = row[t].family
         /\ \A x \in Issued \ {t} : row'[x] = row[x]
         /\ \E n \in Token \ Issued :
              /\ Issued' = Issued \union {n} /\ row'[t].rotated_to = n
              /\ row'[n].user = row[t].user /\ row'[n].family = row[t].family
              /\ row'[n].epoch = row[t].epoch /\ ~row'[n].revoked
  <1> DEFINE t == handler[r].token
             rows(n) == Spend(t, n)
  <1>1. PICK n \in Token :
               Issue(rows(n), n, row[t].user, row[t].family, row[t].epoch)
    BY DEF FinishRefresh
  <1>2. handler[r].op = "refresh" /\ t \in Issued /\ row \in [Issued -> Row]
    BY DEF FinishRefresh, Respond, IInv, HandlerOK, TypeOK
  <1>3. /\ n \notin Issued /\ Issued' = Issued \union {n}
        /\ row'[n] = [user |-> row[t].user, family |-> row[t].family,
                      rotated_to |-> None, revoked |-> FALSE,
                      expired |-> FALSE, epoch |-> row[t].epoch]
        /\ \A x \in Issued : row'[x] = rows(n)[x]
    <2> HIDE DEF t, rows
    <2> QED BY <1>1, IssueShape
  <1>4. /\ row'[t] = [row[t] EXCEPT !.rotated_to = n, !.revoked = TRUE]
        /\ \A x \in Issued \ {t} : row'[x] = row[x]
    BY <1>2, <1>3 DEF Spend
  <1>5. /\ row'[t].user = row[t].user /\ row'[t].family = row[t].family
        /\ row'[t].rotated_to = n /\ row'[t].revoked
    BY <1>2, <1>4 DEF Row
  <1>6. /\ row'[n].user = row[t].user /\ row'[n].family = row[t].family
        /\ row'[n].epoch = row[t].epoch /\ ~row'[n].revoked
    BY <1>3
  <1>7. QED
    BY <1>2, <1>3, <1>4, <1>5, <1>6

\* The session of a token is a set of whole sessions of its user.
LEMMA SessionIsOfOneUser ==
  ASSUME IInv, NEW t \in Issued
  PROVE  /\ Session(t) \subseteq TokensOf(row[t].user)
         /\ \A x \in Session(t), y \in Issued : row[y].family = row[x].family => y \in Session(t)
  BY DEF IInv, OneLoginPerFamily, Session, Tokens, TokensOf

\* ... and so are all the tokens of a user.
LEMMA TokensOfIsSessions ==
  ASSUME IInv, NEW u
  PROVE  \A x \in TokensOf(u), y \in Issued : row[y].family = row[x].family => y \in TokensOf(u)
  BY DEF IInv, OneLoginPerFamily, TokensOf

\* What the three handlers that end sessions revoke.
LEMMA RevokingIs ==
  ASSUME IInv, NEW r \in Request,
         FinishReplay(r) \/ FinishLogout(r) \/ FinishPassword(r)
  PROVE  \E S \in SUBSET TokensOf(handler[r].user) :
           /\ Revoke(S)
           /\ \A x \in S, y \in Issued : row[y].family = row[x].family => y \in S
           /\ epoch' = epoch \/ S = TokensOf(handler[r].user)
  <1>1. CASE FinishReplay(r)
    <2>1. handler[r].token \in Issued /\ row[handler[r].token].user = handler[r].user
      BY <1>1 DEF FinishReplay, Respond, IInv, HandlerOK
    <2>2. Revoke(Session(handler[r].token)) /\ epoch' = epoch
      BY <1>1 DEF FinishReplay
    <2>3. QED
      BY <2>1, <2>2, SessionIsOfOneUser
  <1>2. CASE FinishLogout(r) /\ handler[r].token # None
    <2>1. handler[r].token \in Issued /\ row[handler[r].token].user = handler[r].user
      BY <1>2 DEF IInv, HandlerOK
    <2>2. Revoke(Session(handler[r].token)) /\ epoch' = epoch
      BY <1>2 DEF FinishLogout
    <2>3. QED
      BY <2>1, <2>2, SessionIsOfOneUser
  <1>3. CASE FinishLogout(r) /\ handler[r].token = None
    <2>1. Revoke(TokensOf(handler[r].user))
      BY <1>3 DEF FinishLogout
    <2>2. QED
      BY <2>1, TokensOfIsSessions
  <1>4. CASE FinishPassword(r)
    <2>1. Revoke(TokensOf(handler[r].user))
      BY <1>4 DEF FinishPassword
    <2>2. QED
      BY <2>1, TokensOfIsSessions
  <1>5. QED
    BY <1>1, <1>2, <1>3, <1>4


\* The tokens that a revocation leaves usable were so before.
LEMMA RevokingGainsNothing ==
  ASSUME IInv, NEW S, Revoke(S), NEW f
  PROVE  Unrevoked(Tokens(f))' \subseteq Unrevoked(Tokens(f))
  BY RevokeShape DEF IInv, Unrevoked, Tokens

\* A session gains a usable token only in exchange for the one a refresh has
\* read; a second one stays only if that one was revoked meanwhile (auth.py
\* 181-186).
THEOREM TokensAreExchangedHolds == Spec => TokensAreExchanged
  <1>1. ASSUME IInv, [Next]_vars, NEW f \in Families,
               ~(Unrevoked(Tokens(f))' \subseteq Unrevoked(Tokens(f)))
        PROVE  \E old \in Tokens(f), new \in Token \ Issued :
                 /\ InFlight("refresh", {old})
                 /\ row'[old].rotated_to = new
                 /\ Unrevoked(Tokens(f))' = (Unrevoked(Tokens(f)) \ {old}) \union {new}
    <2>1. row' # row
      BY <1>1 DEF Unrevoked, Tokens, Issued
    <2>2. ~Environment
      <3>1. ASSUME NEW t \in Issued, Expire(t)
            PROVE  FALSE
        <4>1. /\ Issued' = Issued
              /\ \A x \in Issued : /\ row'[x].family = row[x].family
                                   /\ row'[x].revoked = row[x].revoked
          BY <1>1, <3>1 DEF Expire, Issued, IInv, TypeOK, Row
        <4>2. QED
          BY <1>1, <4>1 DEF Unrevoked, Tokens
      <3>2. QED
        BY <2>1, <3>1 DEF Environment, SetActive
    <2>3. PICK r \in Request : Finish(r)
      <3>1. ASSUME NEW u \in User, Begin(u)
            PROVE  row' = row
        BY <3>1 DEF Begin, BeginLogin, BeginPassword, BeginRefresh, BeginReplay,
                    BeginLogout, Start
      <3>2. QED
        BY <1>1, <2>1, <2>2, <3>1 DEF Next, vars
    <2>4. ~FinishLogin(r)
      <3> SUFFICES ASSUME FinishLogin(r) PROVE FALSE
        OBVIOUS
      <3>1. PICK t \in Token \ Issued, g \in UnusedFamilies :
              /\ Issued' = Issued \union {t} /\ row'[t].family = g
              /\ \A x \in Issued : row'[x] = row[x]
        BY <1>1, LoginIs
      <3>2. g # f
        BY DEF UnusedFamilies
      <3>3. QED
        BY <1>1, <3>1, <3>2 DEF Unrevoked, Tokens
    <2>5. FinishRefresh(r)
      BY <1>1, <2>1, <2>3, <2>4, RevokingIs, RevokingGainsNothing DEF Finish, Fail
    <2> DEFINE old == handler[r].token
    <2>6. /\ handler[r].op = "refresh" /\ old \in Issued
          /\ row'[old].revoked /\ row'[old].family = row[old].family
          /\ \A x \in Issued \ {old} : row'[x] = row[x]
      BY <1>1, <2>5, RefreshIs
    <2>7. PICK new \in Token \ Issued :
            /\ Issued' = Issued \union {new} /\ row'[old].rotated_to = new
            /\ row'[new].family = row[old].family /\ ~row'[new].revoked
      BY <1>1, <2>5, RefreshIs
    <2>8. InFlight("refresh", {old})
      BY <2>6 DEF InFlight
    <2> HIDE DEF old
    <2>9. row[old].family = f
      BY <1>1, <2>6, <2>7 DEF Unrevoked, Tokens
    <2>10. ASSUME NEW x
           PROVE  x \in Unrevoked(Tokens(f))' <=> x \in (Unrevoked(Tokens(f)) \ {old}) \union {new}
      BY <2>6, <2>7, <2>9 DEF Unrevoked, Tokens
    <2>11. Unrevoked(Tokens(f))' = (Unrevoked(Tokens(f)) \ {old}) \union {new}
      BY <2>10
    <2>12. old \in Tokens(f)
      BY <2>6, <2>9 DEF Tokens
    <2>13. QED
      BY <2>7, <2>8, <2>11, <2>12
  <1>2. IInv /\ [Next]_vars => GainsByExchange
    BY <1>1 DEF GainsByExchange
  <1>3. QED
    BY <1>2, Invariance, PTL DEF Spec, TokensAreExchanged

\* A session without usable token and without refresh in flight never has a
\* usable token again, whatever requests follow, and logout, replay detection
\* and password changes end it at once: it is over as soon as the refreshes that
\* were in flight are (auth.py 134-219).
THEOREM OverIsFinalHolds == Spec => OverIsFinal
  <1>1. ASSUME IInv, [Next]_vars, NEW f \in Families, Over(f)
        PROVE  Over(f)'
    <2>1. StepShape /\ HandlerShape
      BY <1>1, EveryStepShape
    <2>2. \A r \in Request : handler[r].op = "refresh" =>
             /\ handler[r].token \in Issued
             /\ row[handler[r].token].family # f
      <3>1. \A r \in Request : handler[r].op = "refresh" => handler[r].token \in Issued
        BY <1>1 DEF IInv, HandlerOK
      <3>2. QED
        BY <1>1, <3>1 DEF Over, InFlight, Tokens
    <2>3. \A t \in Tokens(f)' : t \in Tokens(f)
      BY <2>1, <2>2 DEF StepShape, Tokens
    <2>4. \A t \in Tokens(f) : row[t].revoked \/ row[t].expired
      BY <1>1 DEF Over, Usable, Unrevoked
    <2>5. f \in Families'
      BY <2>1 DEF StepShape, Families
    <2>6. Usable(f)' = {}
      BY <2>1, <2>3, <2>4 DEF StepShape, Usable, Unrevoked, Tokens
    <2>7. ASSUME NEW r \in Request, handler'[r].op = "refresh"
          PROVE  handler'[r].token \notin Tokens(f)'
      <3>1. CASE handler'[r] = handler[r]
        BY <2>3, <2>2, <2>7, <3>1 DEF Tokens
      <3>2. CASE /\ handler'[r].token \in Issued
                 /\ handler'[r].token \in Usable(row[handler'[r].token].family)
        BY <3>2, <2>3, <2>4 DEF Usable, Unrevoked
      <3>3. QED
        BY <2>1, <2>7, <3>1, <3>2 DEF HandlerShape
    <2>8. QED
      BY <2>5, <2>6, <2>7 DEF Over, InFlight
  <1>2. ASSUME IInv, [Next]_vars, NEW f \in closed' \ closed, ~InFlight("refresh", Tokens(f))
        PROVE  Over(f)'
    <2>1. PICK r \in Request : FinishReplay(r) \/ FinishLogout(r) \/ FinishPassword(r)
      <3>1. closed' # closed
        OBVIOUS
      <3>2. QED
        BY <1>2, <3>1 DEF Next, vars, Begin, BeginLogin, BeginPassword, BeginRefresh,
           BeginReplay, BeginLogout, Start, Finish, FinishLogin, FinishRefresh, Fail,
           Environment, Expire, SetActive
    <2>2. PICK S \in SUBSET TokensOf(handler[r].user) :
            /\ Revoke(S)
            /\ \A x \in S, y \in Issued : row[y].family = row[x].family => y \in S
      BY <1>2, <2>1, RevokingIs
    <2>3. PICK x \in S : row[x].family = f
      BY <2>2 DEF Revoke
    <2>4. x \in Issued /\ \A y \in Tokens(f) : y \in S
      BY <2>2, <2>3 DEF TokensOf, Tokens
    <2>5. /\ Issued' = Issued /\ Tokens(f)' = Tokens(f)
          /\ \A y \in Tokens(f) : row'[y].revoked
      <3>1. /\ Issued' = Issued
            /\ \A y \in Issued : row'[y].family = row[y].family
            /\ \A y \in S : y \in Issued => row'[y].revoked
        BY <1>2, <2>2, RevokeShape DEF IInv
      <3>2. \A y : y \in Tokens(f)' <=> y \in Tokens(f)
        BY <3>1 DEF Tokens
      <3>3. QED
        BY <2>4, <3>1, <3>2 DEF Tokens
    <2>6. f \in Families' /\ Usable(f)' = {}
      BY <2>3, <2>4, <2>5, <1>2, <2>2, RevokeShape DEF IInv, Families, Usable, Unrevoked
    <2>7. handler' = [handler EXCEPT ![r] = Idle]
      BY <2>1 DEF FinishReplay, FinishLogout, FinishPassword, Respond
    <2>8. \A q \in Request : handler'[q] = handler[q] \/ handler'[q] = Idle
      BY <1>2, <2>7 DEF IInv, TypeOK
    <2>9. ~InFlight("refresh", Tokens(f))'
      BY <1>2, <2>5, <2>8 DEF InFlight, Idle
    <2>10. QED
      BY <2>5, <2>6, <2>9 DEF Over
  <1>3. IInv /\ [Next]_vars => KeepsOver
    BY <1>1, <1>2 DEF KeepsOver
  <1>4. QED
    BY <1>3, Invariance, PTL DEF Spec, OverIsFinal

\* A new token belongs to the user of a login or refresh that was in flight.
LEMMA NewTokensUser ==
  ASSUME IInv, [Next]_vars, NEW t \in Issued' \ Issued
  PROVE  \E r \in Request : /\ handler[r].op \in {"login", "refresh"}
                            /\ handler[r].user = row'[t].user
  <1>1. Issued' # Issued
    OBVIOUS
  <1>2. PICK r \in Request : Finish(r)
    <2>1. ASSUME NEW u \in User, Begin(u)
          PROVE  row' = row
      BY <2>1 DEF Begin, BeginLogin, BeginPassword, BeginRefresh, BeginReplay,
                  BeginLogout, Start
    <2>2. ~Environment
      BY <1>1 DEF Environment, Expire, SetActive, Issued, IInv, TypeOK
    <2>3. QED
      BY <1>1, <2>1, <2>2 DEF Next, vars, Issued
  <1>3. CASE FinishLogin(r)
    <2>1. handler[r].op = "login"
      BY <1>3 DEF FinishLogin, Respond
    <2>2. PICK n : Issued' = Issued \union {n} /\ row'[n].user = handler[r].user
      BY <1>3, LoginIs
    <2>3. QED
      BY <2>1, <2>2
  <1>4. CASE FinishRefresh(r)
    <2>1. handler[r].op = "refresh" /\ row[handler[r].token].user = handler[r].user
      BY <1>4, NoneAssumption, RefreshIs DEF IInv, HandlerOK
    <2>2. PICK n : Issued' = Issued \union {n} /\ row'[n].user = row[handler[r].token].user
      BY <1>4, RefreshIs
    <2>3. QED
      BY <2>1, <2>2
  <1>5. QED
    BY <1>1, <1>2, <1>3, <1>4, RevokingIs, RevokeShape DEF Finish, Fail, IInv, Issued

\* An account that is deactivated with nothing in flight gets no token, and
\* nothing that could get it one begins, until it is active again (auth.py 121
\* and 178).
THEOREM BarredStaysOutHolds == Spec => BarredStaysOut
  <1>1. ASSUME IInv, [Next]_vars, NEW u \in User, Barred(u)
        PROVE  TokensOf(u)' = TokensOf(u) /\ (Barred(u)' \/ active'[u])
    <2>1. StepShape
      BY <1>1, EveryStepShape
    <2>2. TokensOf(u)' = TokensOf(u)
      <3>1. \A t \in Issued' \ Issued : row'[t].user # u
        BY <1>1, NewTokensUser DEF Barred
      <3>2. QED
        BY <2>1, <3>1 DEF StepShape, TokensOf
    <2>3. ASSUME NEW r \in Request, handler'[r].user = u,
                 handler'[r].op \in {"login", "refresh"}
          PROVE  FALSE
      <3>1. handler'[r] # handler[r]
        BY <1>1, <2>3 DEF Barred
      <3>2. PICK v \in User : Begin(v)
        <4>1. ASSUME NEW q \in Request, Finish(q)
              PROVE  handler'[r] = handler[r] \/ handler'[r] = Idle
          BY <1>1, <4>1 DEF Finish, FinishLogin, FinishRefresh, FinishReplay, FinishLogout,
             FinishPassword, Fail, Respond, IInv, TypeOK
        <4>2. QED
          BY <1>1, <2>3, <3>1, <4>1 DEF Next, vars, Environment, Expire, SetActive, Idle
      <3>3. PICK q \in Request :
              \/ BeginLogin(q, v)
              \/ BeginPassword(q, v)
              \/ \E t \in TokensOf(v) : BeginRefresh(q, t) \/ BeginReplay(q, t)
              \/ \E t \in Issued \union {None} : BeginLogout(q, v, t)
        BY <3>2 DEF Begin
      <3>4. BeginLogin(q, v) \/ \E t \in TokensOf(v) : BeginRefresh(q, t)
        BY <2>3, <3>1, <3>3, <1>1 DEF BeginPassword, BeginReplay, BeginLogout, Start, IInv, TypeOK
      <3>5. active[v] /\ handler'[r].user = v
        BY <3>1, <3>4, <1>1 DEF BeginLogin, BeginRefresh, Exchangeable, TokensOf, Start,
           IInv, TypeOK
      <3>6. QED
        BY <1>1, <2>3, <3>5 DEF Barred
    <2>4. QED
      BY <2>2, <2>3 DEF Barred
  <1>2. IInv /\ [Next]_vars => KeepsBarred
    BY <1>1 DEF KeepsBarred
  <1>3. QED
    BY <1>2, Invariance, PTL DEF Spec, BarredStaysOut

-----------------------------------------------------------------------------
(***************************************************************************)
(* The specification in which the requests of one user do not overlap.     *)
(*                                                                         *)
(* No other request of the user can then come between the two steps of     *)
(* one, so what a request has read is still true at its commit: the        *)
(* password a login has verified is the current one and the token a        *)
(* refresh has found exchangeable is unrevoked.                            *)
(***************************************************************************)
OneAtATime ==
  \A q, r \in Request : handler[q] # Idle /\ handler[q].user = handler[r].user => q = r

StillTrue ==
  \A r \in Request :
    /\ handler[r].op = "login" => handler[r].epoch = epoch[handler[r].user]
    /\ handler[r].op = "refresh" => ~row[handler[r].token].revoked

ClosedWereOpened == closed \subseteq Families

Promises == OneUsableToken /\ NoSessionOutlivesItsPassword /\ ClosedSessionsAreDead

SerialInv == IInv /\ OneAtATime /\ StillTrue /\ ClosedWereOpened /\ Promises

\* Every step of the serial specification is one of the other.
LEMMA SerialIsNext == SerialNext => Next
  BY DEF SerialNext, Next

\* r is answered: the other requests are those of other users.
LEMMA AnswerLeavesOthers ==
  ASSUME SerialInv, NEW r \in Request, handler[r] # Idle,
         handler' = [handler EXCEPT ![r] = Idle]
  PROVE  /\ OneAtATime'
         /\ \A q \in Request : handler'[q] # Idle =>
              handler'[q] = handler[q] /\ handler[q].user # handler[r].user
  <1>1. \A q \in Request : handler'[q] = IF q = r THEN Idle ELSE handler[q]
    BY DEF SerialInv, IInv, TypeOK
  <1>2. ASSUME NEW q \in Request, handler'[q] # Idle
        PROVE  handler'[q] = handler[q] /\ handler[q].user # handler[r].user
    BY <1>1, <1>2 DEF SerialInv, OneAtATime
  <1>3. ASSUME NEW p \in Request, NEW q \in Request, handler'[p] # Idle,
               handler'[p].user = handler'[q].user
        PROVE  p = q
    <2>1. handler'[p].user # None
      BY <1>2, <1>3, NoneAssumption DEF SerialInv, IInv, HandlerOK, TypeOK, Handler
    <2>2. handler'[q] # Idle
      BY <1>3, <2>1 DEF Idle
    <2>3. QED
      BY <1>2, <1>3, <2>2 DEF SerialInv, OneAtATime
  <1>4. QED
    BY <1>2, <1>3 DEF OneAtATime

\* The rows stay as they are and nothing is closed.
LEMMA SameRowsKeepPromises ==
  ASSUME SerialInv, row' = row, UNCHANGED <<epoch, closed>>
  PROVE  ClosedWereOpened' /\ Promises'
  BY DEF SerialInv, ClosedWereOpened, Promises, OneUsableToken, Families,
         NoSessionOutlivesItsPassword, ClosedSessionsAreDead, Issued

\* A request starts and what it will rely on is true.
LEMMA StartKeepsSerial ==
  ASSUME SerialInv, IInv', NEW r \in Request, NEW u \in User, ~Busy(u),
         NEW op, NEW t, NEW e, Start(r, op, u, t, e),
         op = "login" => e = epoch[u],
         op = "refresh" => ~row[t].revoked
  PROVE  SerialInv'
  <1>1. UNCHANGED <<row, active, epoch, closed>>
    BY DEF Start
  <1>2. \A q \in Request : handler'[q] =
          IF q = r THEN [op |-> op, user |-> u, token |-> t, epoch |-> e] ELSE handler[q]
    BY DEF Start, SerialInv, IInv, TypeOK
  <1>3. OneAtATime'
    BY <1>2 DEF SerialInv, OneAtATime, Busy
  <1>4. StillTrue'
    BY <1>1, <1>2 DEF SerialInv, StillTrue
  <1>5. QED
    BY <1>1, <1>3, <1>4, SameRowsKeepPromises DEF SerialInv

LEMMA BeginKeepsSerial ==
  ASSUME SerialInv, IInv', NEW u \in User, ~Busy(u), Begin(u)
  PROVE  SerialInv'
  <1> PICK r \in Request :
        \/ BeginLogin(r, u)
        \/ BeginPassword(r, u)
        \/ \E t \in TokensOf(u) : BeginRefresh(r, t) \/ BeginReplay(r, t)
        \/ \E t \in Issued \union {None} : BeginLogout(r, u, t)
    BY DEF Begin
  <1>1. CASE BeginLogin(r, u)
    BY <1>1, StartKeepsSerial DEF BeginLogin
  <1>2. CASE BeginPassword(r, u)
    BY <1>2, StartKeepsSerial DEF BeginPassword
  <1>3. ASSUME NEW t \in TokensOf(u), BeginRefresh(r, t)
        PROVE  SerialInv'
    BY <1>3, StartKeepsSerial DEF BeginRefresh, Exchangeable, TokensOf
  <1>4. ASSUME NEW t \in TokensOf(u), BeginReplay(r, t)
        PROVE  SerialInv'
    BY <1>4, StartKeepsSerial DEF BeginReplay, TokensOf
  <1>5. ASSUME NEW t \in Issued \union {None}, BeginLogout(r, u, t)
        PROVE  SerialInv'
    BY <1>5, StartKeepsSerial DEF BeginLogout
  <1>6. QED
    BY <1>1, <1>2, <1>3, <1>4, <1>5

LEMMA FinishLoginKeepsSerial ==
  ASSUME SerialInv, IInv', NEW r \in Request, FinishLogin(r)
  PROVE  SerialInv'
  <1>1. PICK t \in Token \ Issued, f \in UnusedFamilies :
           /\ Issued' = Issued \union {t}
           /\ row'[t].user = handler[r].user /\ row'[t].family = f
           /\ row'[t].epoch = handler[r].epoch /\ ~row'[t].revoked
           /\ \A x \in Issued : row'[x] = row[x]
    BY LoginIs DEF SerialInv
  <1>2. /\ handler[r].op = "login" /\ handler' = [handler EXCEPT ![r] = Idle]
        /\ UNCHANGED <<epoch, closed>>
    BY DEF FinishLogin, Respond
  <1>3. handler[r] # Idle
    BY <1>2 DEF Idle
  <1>4. \A x \in Issued : row[x].family # f
    BY <1>1 DEF UnusedFamilies, Families
  <1>5. f \notin closed
    BY <1>4 DEF SerialInv, ClosedWereOpened, Families
  <1>6. OneAtATime' /\ \A q \in Request : handler'[q] # Idle => handler'[q] = handler[q]
    BY <1>2, <1>3, AnswerLeavesOthers
  <1>7. StillTrue'
    BY <1>1, <1>2, <1>6 DEF SerialInv, StillTrue, IInv, HandlerOK, Idle
  <1>8. OneUsableToken'
    BY <1>1, <1>4 DEF SerialInv, Promises, OneUsableToken
  <1>9. NoSessionOutlivesItsPassword'
    BY <1>1, <1>2 DEF SerialInv, Promises, NoSessionOutlivesItsPassword, StillTrue
  <1>10. ClosedSessionsAreDead'
    BY <1>1, <1>2, <1>5 DEF SerialInv, Promises, ClosedSessionsAreDead
  <1>11. ClosedWereOpened'
    BY <1>1, <1>2 DEF SerialInv, ClosedWereOpened, Families
  <1>12. QED
    BY <1>6, <1>7, <1>8, <1>9, <1>10, <1>11 DEF SerialInv, Promises

LEMMA FinishRefreshKeepsSerial ==
  ASSUME SerialInv, IInv', NEW r \in Request, FinishRefresh(r)
  PROVE  SerialInv'
  <1> DEFINE t == handler[r].token
  <1>1. /\ t \in Issued /\ ~row[t].revoked
        /\ row'[t].revoked
        /\ row'[t].user = row[t].user /\ row'[t].family = row[t].family
        /\ \A x \in Issued \ {t} : row'[x] = row[x]
    BY RefreshIs DEF SerialInv, StillTrue
  <1>2. PICK n \in Token \ Issued :
          /\ Issued' = Issued \union {n}
          /\ row'[n].user = row[t].user /\ row'[n].family = row[t].family
          /\ row'[n].epoch = row[t].epoch /\ ~row'[n].revoked
    BY RefreshIs DEF SerialInv, StillTrue
  <1>3. /\ handler[r].op = "refresh" /\ handler' = [handler EXCEPT ![r] = Idle]
        /\ UNCHANGED <<epoch, closed>>
    BY DEF FinishRefresh, Respond
  <1>4. handler[r] # Idle /\ handler[r].user = row[t].user
    BY <1>1, <1>3, NoneAssumption DEF Idle, SerialInv, IInv, HandlerOK
  <1> HIDE DEF t
  <1>5. /\ OneAtATime'
        /\ \A q \in Request : handler'[q] # Idle =>
             handler'[q] = handler[q] /\ handler[q].user # handler[r].user
    BY <1>3, <1>4, AnswerLeavesOthers
  <1>6. row[t].family \notin closed
    BY <1>1 DEF SerialInv, Promises, ClosedSessionsAreDead
  <1>7. \A x \in Issued \ {t} : row[x].family = row[t].family => row[x].revoked
    BY <1>1 DEF SerialInv, Promises, OneUsableToken
  <1>8. StillTrue'
    <2>1. ASSUME NEW q \in Request, handler'[q].op = "refresh"
          PROVE  ~row'[handler'[q].token].revoked
      <3>1. handler'[q] = handler[q] /\ handler[q].user # handler[r].user
        BY <1>5, <2>1 DEF Idle
      <3>2. /\ handler[q].token \in Issued
            /\ row[handler[q].token].user = handler[q].user
            /\ ~row[handler[q].token].revoked
        BY <2>1, <3>1 DEF SerialInv, IInv, HandlerOK, StillTrue
      <3>3. handler[q].token # t
        BY <1>4, <3>1, <3>2
      <3>4. QED
        BY <1>1, <3>1, <3>2, <3>3
    <2>2. ASSUME NEW q \in Request, handler'[q].op = "login"
          PROVE  handler'[q].epoch = epoch'[handler'[q].user]
      BY <1>3, <1>5, <2>2 DEF SerialInv, StillTrue, Idle
    <2>3. QED
      BY <2>1, <2>2 DEF StillTrue
  <1>9. OneUsableToken'
    BY <1>1, <1>2, <1>7 DEF SerialInv, Promises, OneUsableToken
  <1>10. NoSessionOutlivesItsPassword'
    BY <1>1, <1>2, <1>3 DEF SerialInv, Promises, NoSessionOutlivesItsPassword
  <1>11. ClosedSessionsAreDead'
    BY <1>1, <1>2, <1>3, <1>6 DEF SerialInv, Promises, ClosedSessionsAreDead
  <1>12. ClosedWereOpened'
    <2>1. Families \subseteq Families'
      BY <1>1, <1>2 DEF Families
    <2>2. QED
      BY <1>3, <2>1 DEF SerialInv, ClosedWereOpened
  <1>13. QED
    BY <1>5, <1>8, <1>9, <1>10, <1>11, <1>12 DEF SerialInv, Promises

\* Whole sessions of the user of r are ended, and only that user's password
\* may change, in which case all of them are.
LEMMA RevokeKeepsSerial ==
  ASSUME SerialInv, IInv', NEW r \in Request, handler[r] # Idle,
         handler' = [handler EXCEPT ![r] = Idle],
         NEW S \in SUBSET TokensOf(handler[r].user), Revoke(S),
         \A x \in S, y \in Issued : row[y].family = row[x].family => y \in S,
         \A u \in User \ {handler[r].user} : epoch'[u] = epoch[u],
         epoch' = epoch \/ S = TokensOf(handler[r].user)
  PROVE  SerialInv'
  <1>1. /\ Issued' = Issued
        /\ \A x \in Issued :
              /\ row'[x].user = row[x].user
              /\ row'[x].family = row[x].family
              /\ row'[x].epoch = row[x].epoch
              /\ row'[x].revoked = (row[x].revoked \/ x \in S)
    BY RevokeShape DEF SerialInv, IInv
  <1>2. closed' = closed \union {row[x].family : x \in S} /\ S \subseteq Issued
    BY DEF Revoke, TokensOf
  <1>3. /\ OneAtATime'
        /\ \A q \in Request : handler'[q] # Idle =>
             handler'[q] = handler[q] /\ handler[q].user # handler[r].user
    BY AnswerLeavesOthers
  <1>4. StillTrue'
    <2>1. ASSUME NEW q \in Request, handler'[q].op = "refresh"
          PROVE  ~row'[handler'[q].token].revoked
      <3>1. handler'[q] = handler[q] /\ handler[q].user # handler[r].user
        BY <1>3, <2>1 DEF Idle
      <3>2. /\ handler[q].token \in Issued
            /\ row[handler[q].token].user = handler[q].user
            /\ ~row[handler[q].token].revoked
        BY <2>1, <3>1 DEF SerialInv, IInv, HandlerOK, StillTrue
      <3>3. handler[q].token \notin S
        BY <3>1, <3>2 DEF TokensOf
      <3>4. QED
        BY <1>1, <3>1, <3>2, <3>3
    <2>2. ASSUME NEW q \in Request, handler'[q].op = "login"
          PROVE  handler'[q].epoch = epoch'[handler'[q].user]
      <3>1. handler'[q] = handler[q] /\ handler[q].user # handler[r].user
        BY <1>3, <2>2 DEF Idle
      <3>2. handler[q].user \in User
        BY <2>2, <3>1 DEF SerialInv, IInv, HandlerOK
      <3>3. handler[q].epoch = epoch[handler[q].user]
        BY <2>2, <3>1 DEF SerialInv, StillTrue
      <3>4. QED
        BY <3>1, <3>2, <3>3
    <2>3. QED
      BY <2>1, <2>2 DEF StillTrue
  <1>5. OneUsableToken'
    BY <1>1 DEF SerialInv, Promises, OneUsableToken
  <1>6. NoSessionOutlivesItsPassword'
    <2> SUFFICES ASSUME NEW x \in Issued, ~row'[x].revoked
                 PROVE  row'[x].epoch = epoch'[row'[x].user]
      BY <1>1 DEF NoSessionOutlivesItsPassword
    <2>1. ~row[x].revoked /\ x \notin S /\ row[x].user \in User
      BY <1>1 DEF SerialInv, IInv, TypeOK, Row
    <2>2. epoch'[row[x].user] = epoch[row[x].user]
      BY <2>1 DEF TokensOf
    <2>3. row[x].epoch = epoch[row[x].user]
      BY <2>1 DEF SerialInv, Promises, NoSessionOutlivesItsPassword
    <2>4. QED
      BY <1>1, <2>2, <2>3
  <1>7. ClosedSessionsAreDead'
    <2> SUFFICES ASSUME NEW x \in Issued, row[x].family \in closed'
                 PROVE  row[x].revoked \/ x \in S
      BY <1>1 DEF ClosedSessionsAreDead
    <2>1. CASE row[x].family \in closed
      BY <2>1 DEF SerialInv, Promises, ClosedSessionsAreDead
    <2>2. CASE \E y \in S : row[x].family = row[y].family
      BY <2>2
    <2>3. QED
      BY <1>2, <2>1, <2>2
  <1>8. ClosedWereOpened'
    <2>1. Families' = Families
      BY <1>1 DEF Families
    <2>2. {row[x].family : x \in S} \subseteq Families
      BY <1>2 DEF Families
    <2>3. QED
      BY <1>2, <2>1, <2>2 DEF SerialInv, ClosedWereOpened
  <1>9. QED
    BY <1>3, <1>4, <1>5, <1>6, <1>7, <1>8 DEF SerialInv, Promises

LEMMA RevokingKeepsSerial ==
  ASSUME SerialInv, IInv', NEW r \in Request,
         FinishReplay(r) \/ FinishLogout(r) \/ FinishPassword(r)
  PROVE  SerialInv'
  <1>1. PICK S \in SUBSET TokensOf(handler[r].user) :
           /\ Revoke(S)
           /\ \A x \in S, y \in Issued : row[y].family = row[x].family => y \in S
           /\ epoch' = epoch \/ S = TokensOf(handler[r].user)
    BY RevokingIs DEF SerialInv
  <1>2. handler[r] # Idle /\ handler' = [handler EXCEPT ![r] = Idle]
    BY DEF FinishReplay, FinishLogout, FinishPassword, Respond, Idle
  <1>3. \A u \in User \ {handler[r].user} : epoch'[u] = epoch[u]
    BY DEF FinishReplay, FinishLogout, FinishPassword, SerialInv, IInv, TypeOK
  <1>4. QED
    BY <1>1, <1>2, <1>3, RevokeKeepsSerial

LEMMA FailKeepsSerial ==
  ASSUME SerialInv, IInv', NEW r \in Request, Fail(r)
  PROVE  SerialInv'
  <1>1. /\ handler[r] # Idle /\ handler' = [handler EXCEPT ![r] = Idle]
        /\ row' = row /\ UNCHANGED <<epoch, closed>>
    BY DEF Fail
  <1>2. OneAtATime' /\ \A q \in Request : handler'[q] # Idle => handler'[q] = handler[q]
    BY <1>1, AnswerLeavesOthers
  <1>3. StillTrue'
    BY <1>1, <1>2 DEF SerialInv, StillTrue, Idle
  <1>4. QED
    BY <1>1, <1>2, <1>3, SameRowsKeepPromises DEF SerialInv

\* What time does to a row is in none of the promises.
LEMMA EnvironmentKeepsSerial ==
  ASSUME SerialInv, IInv', Environment
  PROVE  SerialInv'
  <1>1. ASSUME NEW t \in Issued, Expire(t)
        PROVE  SerialInv'
    <2>1. /\ Issued' = Issued /\ row' = [row EXCEPT ![t].expired = TRUE]
          /\ UNCHANGED <<active, epoch, handler, closed>>
      BY <1>1 DEF Expire, Issued, SerialInv, IInv, TypeOK
    <2>2. \A x \in Issued :
            /\ row'[x].user = row[x].user /\ row'[x].family = row[x].family
            /\ row'[x].epoch = row[x].epoch
            /\ row'[x].revoked = row[x].revoked
      BY <2>1 DEF SerialInv, IInv, TypeOK, Row
    <2>3. OneAtATime' /\ ClosedWereOpened'
      BY <2>1, <2>2 DEF SerialInv, OneAtATime, ClosedWereOpened, Families
    <2>4. StillTrue'
      BY <2>1, <2>2 DEF SerialInv, StillTrue, IInv, HandlerOK
    <2>5. Promises'
      BY <2>1, <2>2 DEF SerialInv, Promises, OneUsableToken,
         NoSessionOutlivesItsPassword, ClosedSessionsAreDead
    <2>6. QED
      BY <2>3, <2>4, <2>5 DEF SerialInv
  <1>2. ASSUME NEW u \in User, SetActive(u)
        PROVE  SerialInv'
    BY <1>2, SameRowsKeepPromises DEF SetActive, SerialInv, OneAtATime, StillTrue
  <1>3. QED
    BY <1>1, <1>2 DEF Environment

LEMMA InitSerialInv == Init => SerialInv
  <1> SUFFICES ASSUME Init PROVE SerialInv
    OBVIOUS
  <1>1. IInv /\ Issued = {}
    BY InitIInv DEF Init, Issued
  <1>2. QED
    BY <1>1 DEF Init, SerialInv, OneAtATime, StillTrue, ClosedWereOpened, Promises, Idle,
       OneUsableToken, NoSessionOutlivesItsPassword, ClosedSessionsAreDead

LEMMA SerialNextKeeps == SerialInv /\ [SerialNext]_vars => SerialInv'
  <1> SUFFICES ASSUME SerialInv, [SerialNext]_vars PROVE SerialInv'
    OBVIOUS
  <1>1. IInv'
    BY NextKeeps, SerialIsNext DEF SerialInv
  <1>2. CASE \E u \in User : ~Busy(u) /\ Begin(u)
    BY <1>1, <1>2, BeginKeepsSerial
  <1>3. CASE \E r \in Request : Finish(r)
    BY <1>1, <1>3, FinishLoginKeepsSerial, FinishRefreshKeepsSerial,
       RevokingKeepsSerial, FailKeepsSerial DEF Finish
  <1>4. CASE Environment
    BY <1>1, <1>4, EnvironmentKeepsSerial
  <1>5. CASE UNCHANGED vars
    BY <1>1, <1>5, SameRowsKeepPromises DEF vars, SerialInv, OneAtATime, StillTrue
  <1>6. QED
    BY <1>2, <1>3, <1>4, <1>5 DEF SerialNext

THEOREM SerialInvariance == SerialSpec => []SerialInv
  BY InitSerialInv, SerialNextKeeps, PTL DEF SerialSpec

\* A session never has two usable tokens, although a refresh marks its token by
\* primary key and not by what it found (auth.py 3-5 and 153-186).
THEOREM OneUsableTokenHolds == SerialSpec => []OneUsableToken
  <1>1. SerialInv => OneUsableToken
    BY DEF SerialInv, Promises
  <1>2. QED
    BY <1>1, SerialInvariance, PTL

\* Every usable token descends from a login with the current password: a change
\* or reset ends all older sessions (account.py 7-9).
THEOREM NoSessionOutlivesItsPasswordHolds == SerialSpec => []NoSessionOutlivesItsPassword
  <1>1. SerialInv => NoSessionOutlivesItsPassword
    BY DEF SerialInv, Promises
  <1>2. QED
    BY <1>1, SerialInvariance, PTL

\* No token of a session that a response reported as ended is usable: a refresh
\* does not bring it back (auth.py 134-219).
THEOREM ClosedSessionsAreDeadHolds == SerialSpec => []ClosedSessionsAreDead
  <1>1. SerialInv => ClosedSessionsAreDead
    BY DEF SerialInv, Promises
  <1>2. QED
    BY <1>1, SerialInvariance, PTL

-----------------------------------------------------------------------------
(***************************************************************************)
(* The serial specification implements SessionChain: a committed login     *)
(* opens a session, a committed refresh exchanges its one usable token,    *)
(* replay, logout and password change close whole sessions, and every      *)
(* other step changes nothing the abstract specification sees.             *)
(***************************************************************************)
Live == [f \in Family |-> Unrevoked(Tokens(f))]

\* The usable tokens of a session, read off the table.
LEMMA LiveIs ==
  ASSUME NEW f \in Family, NEW x
  PROVE  x \in Live[f] <=> x \in Issued /\ row[x].family = f /\ ~row[x].revoked
  BY DEF Live, Unrevoked, Tokens

LEMMA LiveBecomes ==
  ASSUME NEW f \in Family, NEW L,
         \A x : x \in L <=> x \in Issued' /\ row'[x].family = f /\ ~row'[x].revoked
  PROVE  Live'[f] = L
  <1>1. Live'[f] = {t \in Issued' : row'[t].family = f /\ ~row'[t].revoked}
    BY DEF Live, Unrevoked, Tokens
  <1>2. \A x : x \in Live'[f] <=> x \in L
    BY <1>1
  <1>3. QED
    BY <1>2

LEMMA LiveStays ==
  ASSUME NEW f \in Family,
         \A x : x \in Live[f] <=> x \in Issued' /\ row'[x].family = f /\ ~row'[x].revoked
  PROVE  Live'[f] = Live[f]
  BY LiveBecomes

\* Nothing that the abstract specification sees has changed.
LEMMA SameChain ==
  ASSUME Issued' = Issued, closed' = closed,
         \A x \in Issued : /\ row'[x].family = row[x].family
                           /\ row'[x].revoked = row[x].revoked
  PROVE  UNCHANGED Chain!vars
  <1>1. Families' = Families
    BY DEF Families
  <1>2. ASSUME NEW f \in Family
        PROVE  Live'[f] = Live[f]
    <2>1. \A x : x \in Live[f] <=> x \in Issued' /\ row'[x].family = f /\ ~row'[x].revoked
      BY LiveIs
    <2>2. QED
      BY <2>1, LiveStays
  <1>3. Live' = Live
    BY <1>2 DEF Live
  <1>4. QED
    BY <1>1, <1>3 DEF Chain!vars, Live

LEMMA LoginOpens ==
  ASSUME SerialInv, NEW r \in Request, FinishLogin(r)
  PROVE  Chain!Next
  <1>1. PICK t \in Token \ Issued, f \in UnusedFamilies :
           /\ Issued' = Issued \union {t}
           /\ row'[t].user = handler[r].user /\ row'[t].family = f
           /\ row'[t].epoch = handler[r].epoch /\ ~row'[t].revoked
           /\ \A x \in Issued : row'[x] = row[x]
    BY LoginIs DEF SerialInv
  <1>2. f \in Family \ Families /\ \A x \in Issued : row[x].family # f
    BY DEF UnusedFamilies, Families
  <1>3. Families' = Families \union {f}
    BY <1>1 DEF Families
  <1>4. ASSUME NEW g \in Family
        PROVE  Live'[g] = IF g = f THEN {t} ELSE Live[g]
    <2>1. CASE g = f
      <3>1. \A x : x \in {t} <=> x \in Issued' /\ row'[x].family = g /\ ~row'[x].revoked
        BY <1>1, <1>2, <2>1
      <3>2. Live'[g] = {t}
        BY <3>1, LiveBecomes
      <3>3. QED
        BY <2>1, <3>2
    <2>2. CASE g # f
      <3>1. \A x : x \in Live[g] <=> x \in Issued' /\ row'[x].family = g /\ ~row'[x].revoked
        BY <1>1, <2>2, LiveIs
      <3>2. Live'[g] = Live[g]
        BY <3>1, LiveStays
      <3>3. QED
        BY <2>2, <3>2
    <2>3. QED
      BY <2>1, <2>2
  <1>5. Live' = [Live EXCEPT ![f] = {t}]
    BY <1>4 DEF Live
  <1>6. Chain!Open(f, t)
    BY <1>1, <1>2, <1>3, <1>5 DEF Chain!Open, Chain!Mint, Live, FinishLogin
  <1>7. QED
    BY <1>1, <1>2, <1>6 DEF Chain!Next

LEMMA RefreshRotates ==
  ASSUME SerialInv, NEW r \in Request, FinishRefresh(r)
  PROVE  Chain!Next
  <1> DEFINE t == handler[r].token
             f == row[t].family
  <1>1. /\ t \in Issued /\ ~row[t].revoked
        /\ row'[t].revoked /\ row'[t].family = row[t].family
        /\ \A x \in Issued \ {t} : row'[x] = row[x]
    BY RefreshIs DEF SerialInv, StillTrue
  <1>2. PICK n \in Token \ Issued :
          /\ Issued' = Issued \union {n}
          /\ row'[n].user = row[t].user /\ row'[n].family = row[t].family
          /\ row'[n].epoch = row[t].epoch /\ ~row'[n].revoked
    BY RefreshIs DEF SerialInv, StillTrue
  <1>3. f \in Family
    BY <1>1 DEF SerialInv, IInv, TypeOK, Row
  <1> HIDE DEF t
  <1>4. \A x \in Issued \ {t} : row[x].family = f => row[x].revoked
    BY <1>1 DEF SerialInv, Promises, OneUsableToken
  <1>5. f \notin closed
    BY <1>1 DEF SerialInv, Promises, ClosedSessionsAreDead
  <1>6. Live[f] = {t}
    BY <1>1, <1>3, <1>4, LiveIs
  <1>7. ASSUME NEW g \in Family
        PROVE  Live'[g] = IF g = f THEN {n} ELSE Live[g]
    <2>1. CASE g = f
      <3>1. \A x : x \in {n} <=> x \in Issued' /\ row'[x].family = g /\ ~row'[x].revoked
        BY <1>1, <1>2, <1>4, <2>1
      <3>2. Live'[g] = {n}
        BY <3>1, LiveBecomes
      <3>3. QED
        BY <2>1, <3>2
    <2>2. CASE g # f
      <3>1. \A x : x \in Live[g] <=> x \in Issued' /\ row'[x].family = g /\ ~row'[x].revoked
        BY <1>1, <1>2, <2>2, LiveIs
      <3>2. Live'[g] = Live[g]
        BY <3>1, LiveStays
      <3>3. QED
        BY <2>2, <3>2
    <2>3. QED
      BY <2>1, <2>2
  <1>8. Live' = [Live EXCEPT ![f] = {n}]
    BY <1>7 DEF Live
  <1>9. Families' = Families
    BY <1>1, <1>2 DEF Families
  <1>10. UNCHANGED closed
    BY DEF FinishRefresh
  <1>11. Chain!Rotate(f, n)
    <2>1. Chain!Mint(f, n)
      BY <1>2, <1>8, <1>10 DEF Chain!Mint, Live
    <2>2. \E old \in Issued : Live[f] = {old}
      BY <1>1, <1>6
    <2>3. QED
      BY <2>1, <2>2, <1>5, <1>9 DEF Chain!Rotate, Live
  <1>12. QED
    BY <1>2, <1>3, <1>11 DEF Chain!Next

LEMMA RevokingCloses ==
  ASSUME SerialInv, NEW r \in Request,
         FinishReplay(r) \/ FinishLogout(r) \/ FinishPassword(r)
  PROVE  Chain!Next
  <1>1. PICK S \in SUBSET TokensOf(handler[r].user) :
           /\ Revoke(S)
           /\ \A x \in S, y \in Issued : row[y].family = row[x].family => y \in S
           /\ epoch' = epoch \/ S = TokensOf(handler[r].user)
    BY RevokingIs DEF SerialInv
  <1> DEFINE Ended == {row[x].family : x \in S}
  <1>2. S \subseteq Issued /\ closed' = closed \union Ended
    BY <1>1 DEF TokensOf, Revoke
  <1>3. /\ Issued' = Issued
        /\ \A x \in Issued :
              /\ row'[x].family = row[x].family
              /\ row'[x].revoked = (row[x].revoked \/ x \in S)
    BY <1>1, RevokeShape DEF SerialInv, IInv
  <1>4. Families' = Families
    BY <1>3 DEF Families
  <1>5. Ended \in SUBSET Families
    BY <1>2 DEF Families
  <1>6. \A x \in Issued : x \in S <=> row[x].family \in Ended
    BY <1>1, <1>2
  <1> HIDE DEF Ended
  <1>7. ASSUME NEW g \in Family
        PROVE  Live'[g] = IF g \in Ended THEN {} ELSE Live[g]
    <2>1. CASE g \in Ended
      <3>1. \A x \in Issued' : row'[x].family = g => row'[x].revoked
        BY <1>3, <1>6, <2>1
      <3>2. Live'[g] = {}
        BY <3>1 DEF Live, Unrevoked, Tokens
      <3>3. QED
        BY <2>1, <3>2
    <2>2. CASE g \notin Ended
      <3>1. \A x : x \in Live[g] <=> x \in Issued' /\ row'[x].family = g /\ ~row'[x].revoked
        <4>1. \A x \in Issued : row[x].family = g => (row'[x].revoked <=> row[x].revoked)
          BY <1>3, <1>6, <2>2
        <4>2. QED
          BY <1>3, <4>1, LiveIs
      <3>2. Live'[g] = Live[g]
        BY <3>1, LiveStays
      <3>3. QED
        BY <2>2, <3>2
    <2>3. QED
      BY <2>1, <2>2
  <1>8. Live' = [g \in Family |-> IF g \in Ended THEN {} ELSE Live[g]]
    BY <1>7 DEF Live
  <1>9. Chain!Close(Ended)
    BY <1>2, <1>3, <1>4, <1>8 DEF Chain!Close, Live
  <1>10. QED
    BY <1>5, <1>9 DEF Chain!Next

LEMMA ChainInit == Init => Chain!Init
  <1> SUFFICES ASSUME Init PROVE Chain!Init
    OBVIOUS
  <1>1. Issued = {} /\ Families = {}
    BY DEF Init, Issued, Families
  <1>2. \A f \in Family : Live[f] = {}
    BY <1>1, LiveIs
  <1>3. Live = [f \in Family |-> {}]
    BY <1>2 DEF Live
  <1>4. QED
    BY <1>1, <1>3 DEF Chain!Init, Init, Live

LEMMA ChainStep ==
  ASSUME SerialInv, [SerialNext]_vars
  PROVE  [Chain!Next]_(Chain!vars)
  <1>1. ASSUME NEW u \in User, Begin(u)
        PROVE  UNCHANGED Chain!vars
    <2>1. UNCHANGED <<row, closed>>
      BY <1>1 DEF Begin, BeginLogin, BeginPassword, BeginRefresh, BeginReplay,
                  BeginLogout, Start
    <2>2. QED
      BY <2>1, SameChain DEF Issued
  <1>2. ASSUME NEW r \in Request, Finish(r)
        PROVE  Chain!Next \/ UNCHANGED Chain!vars
    <2>1. CASE Fail(r)
      BY <2>1, SameChain DEF Fail, Issued
    <2>2. QED
      BY <1>2, <2>1, LoginOpens, RefreshRotates, RevokingCloses DEF Finish
  <1>3. ASSUME NEW t \in Issued, Expire(t)
        PROVE  UNCHANGED Chain!vars
    <2>1. /\ Issued' = Issued /\ row' = [row EXCEPT ![t].expired = TRUE]
          /\ closed' = closed
      BY <1>3 DEF Expire, Issued, SerialInv, IInv, TypeOK
    <2>2. \A x \in Issued : row'[x].family = row[x].family /\ row'[x].revoked = row[x].revoked
      BY <2>1 DEF SerialInv, IInv, TypeOK, Row
    <2>3. QED
      BY <2>1, <2>2, SameChain
  <1>4. ASSUME NEW u \in User, SetActive(u)
        PROVE  UNCHANGED Chain!vars
    BY <1>4, SameChain DEF SetActive, Issued
  <1>5. CASE UNCHANGED vars
    BY <1>5, SameChain DEF vars, Issued
  <1>6. QED
    BY <1>1, <1>2, <1>3, <1>4, <1>5 DEF SerialNext, Environment

\* The table, the handlers and the revocations together behave like the chain
\* of tokens the documentation promises (auth.py 3-8), as long as the requests
\* of one user do not overlap.
THEOREM ImplementsSessionChainHolds == SerialSpec => ImplementsSessionChain
  <1>1. Init => Chain!Init
    BY ChainInit
  <1>2. SerialInv /\ [SerialNext]_vars => [Chain!Next]_(Chain!vars)
    BY ChainStep
  <1>3. QED
    BY <1>1, <1>2, SerialInvariance, PTL DEF SerialSpec, ImplementsSessionChain, Chain!Spec
=============================================================================
