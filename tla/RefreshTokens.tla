--------------------------- MODULE RefreshTokens ---------------------------
(***************************************************************************)
(* The refresh_tokens table and every handler of the identity service that *)
(* writes it: login, refresh, logout, password change and password reset   *)
(* (routers/auth.py, routers/account.py).                                  *)
(*                                                                         *)
(* A handler runs in one database transaction, READ COMMITTED, committed   *)
(* by CommitRoute after the handler returns (routing.py).  It therefore    *)
(* takes two steps here: Begin..., in which it reads and validates what it *)
(* needs, and Finish..., in which its writes become visible.  Any number   *)
(* of other handlers, of other workers, run in between; nothing read in    *)
(* the first step is checked again in the second.  A handler that answers  *)
(* 401 at its first step changes nothing and is not a step.                *)
(*                                                                         *)
(* A bulk UPDATE and the commit after it are one step: until the commit    *)
(* the rows stay locked against other writers, and a reader that still     *)
(* sees the old rows behaves like one that read just before the UPDATE.    *)
(***************************************************************************)
EXTENDS Naturals

CONSTANTS
  User,         \* rows of the users table
  Token,        \* refresh token values (their hashes), fresh when minted
  Family,       \* family ids, fresh when minted
  Request,      \* requests that may be in flight at the same time
  None,         \* SQL NULL
  MaxEpoch      \* bound: how many times a password may change in a run

ASSUME NoneAssumption == None \notin User \union Token \union Family
ASSUME EpochAssumption == MaxEpoch \in Nat

VARIABLES
  row,       \* refresh_tokens: a row for each token value issued so far
  active,    \* users.is_active
  epoch,     \* users.hashed_password: how often it has been replaced
  handler,   \* what each request in flight has read and is about to write
  closed     \* history: the sessions a response has reported as ended

vars == <<row, active, epoch, handler, closed>>

(***************************************************************************)
(* A row.  revoked_at and expires_at are kept as what they are compared    *)
(* for; epoch is the password the session's login presented: the code does *)
(* not store it, the properties need it.                                   *)
(***************************************************************************)
Row == [user: User, family: Family, rotated_to: Token \union {None},
        revoked: BOOLEAN, expired: BOOLEAN, epoch: Nat]

Op == {"idle", "login", "refresh", "replay", "logout", "password"}

Handler == [op: Op, user: User \union {None}, token: Token \union {None},
            epoch: Nat]

Idle == [op |-> "idle", user |-> None, token |-> None, epoch |-> 0]

Issued == DOMAIN row
Tokens(f) == {t \in Issued : row[t].family = f}
TokensOf(u) == {t \in Issued : row[t].user = u}
Families == {row[t].family : t \in Issued}
\* The session a token belongs to, which replay detection and logout revoke.
Session_OneToken(t) == {t}   \* mutated: only the presented token
Session(t) == Tokens(row[t].family)

\* New family ids are never in use.
UnusedFamilies == Family \ Families

Unrevoked(S) == {t \in S : ~row[t].revoked}
InFlight(op, S) == \E r \in Request : handler[r].op = op /\ handler[r].token \in S
Busy(u) == \E r \in Request : handler[r].user = u

TypeOK ==
  /\ Issued \subseteq Token
  /\ row \in [Issued -> Row]
  /\ active \in [User -> BOOLEAN]
  /\ epoch \in [User -> Nat]
  /\ handler \in [Request -> Handler]
  /\ closed \subseteq Family

Init ==
  /\ row = [t \in {} |-> None]
  /\ active = [u \in User |-> TRUE]
  /\ epoch = [u \in User |-> 0]
  /\ handler = [r \in Request |-> Idle]
  /\ closed = {}

-----------------------------------------------------------------------------
(* The statements the handlers are made of.  A definition Op_Bug is a mutated *)
(* form of Op: a plausible mistake in the code that a property must notice.   *)

\* Mutated: the new row's family_id is left NULL.
Issue_NoFamily(rows, t, u, f, e) ==
  /\ t \in Token \ Issued
  /\ row' = [x \in Issued \union {t} |->
              IF x = t
              THEN [user |-> u, family |-> None, rotated_to |-> None,
                    revoked |-> FALSE, expired |-> FALSE, epoch |-> e]
              ELSE rows[x]]

\* INSERT of a row for the fresh token t (_issue_refresh_token), after the
\* updates in rows.
Issue(rows, t, u, f, e) ==
  /\ t \in Token \ Issued
  /\ row' = [x \in Issued \union {t} |->
              IF x = t
              THEN [user |-> u, family |-> f, rotated_to |-> None,
                    revoked |-> FALSE, expired |-> FALSE, epoch |-> e]
              ELSE rows[x]]

\* The presented row t as refresh leaves it: spent on the token new.
Spend_NotRevoked(t, new) == [row EXCEPT ![t].rotated_to = new]   \* mutated
Spend(t, new) == [row EXCEPT ![t].rotated_to = new, ![t].revoked = TRUE]

\* Mutated: the bulk revocation also clears rotated_to.
Revoke_Forgets(S) ==
  /\ row' = [t \in Issued |->
              IF t \in S
              THEN [row[t] EXCEPT !.revoked = TRUE, !.rotated_to = None] ELSE row[t]]
  /\ closed' = closed \union {row[t].family : t \in S}

\* UPDATE refresh_tokens SET revoked_at = now WHERE ... AND revoked_at IS NULL,
\* S being the tokens of the sessions the handler means to end.
Revoke(S) ==
  /\ row' = [t \in Issued |->
              IF t \in S THEN [row[t] EXCEPT !.revoked = TRUE] ELSE row[t]]
  /\ closed' = closed \union {row[t].family : t \in S}

Start(r, op, u, t, e) ==
  /\ handler[r] = Idle
  /\ handler' = [handler EXCEPT ![r] =
                  [op |-> op, user |-> u, token |-> t, epoch |-> e]]
  /\ UNCHANGED <<row, active, epoch, closed>>

Respond(r, op) ==
  /\ handler[r].op = op
  /\ handler' = [handler EXCEPT ![r] = Idle]

-----------------------------------------------------------------------------
(* The handlers. *)

\* Mutated: login forgets is_active, which refresh still checks.
BeginLogin_Inactive(r, u) == Start(r, "login", u, None, epoch[u])

\* login: the user is read and the password verified against the hash read.
BeginLogin(r, u) ==
  /\ active[u]
  /\ Start(r, "login", u, None, epoch[u])

\* login commits: the first token of a new family.
FinishLogin(r) ==
  /\ Respond(r, "login")
  /\ \E t \in Token, f \in UnusedFamilies :
       Issue(row, t, handler[r].user, f, handler[r].epoch)
  /\ UNCHANGED <<active, epoch, closed>>

\* Mutated: a revoked token is still exchanged.
Exchangeable_Revoked(t) ==
  row[t].rotated_to = None /\ ~row[t].expired /\ active[row[t].user]

Exchangeable(t) ==
  /\ row[t].rotated_to = None
  /\ ~row[t].revoked
  /\ ~row[t].expired
  /\ active[row[t].user]

\* refresh: the row of the presented token is read and found exchangeable.
BeginRefresh(r, t) ==
  /\ Exchangeable(t)
  /\ Start(r, "refresh", row[t].user, t, row[t].epoch)

\* refresh commits: the replacement is inserted and the presented row is
\* marked by primary key, whatever has happened to it since it was read.
FinishRefresh(r) ==
  LET t == handler[r].token IN
  /\ Respond(r, "refresh")
  /\ \E new \in Token :
       Issue(Spend(t, new), new, row[t].user, row[t].family, row[t].epoch)
  /\ UNCHANGED <<active, epoch, closed>>

\* refresh: the presented token is found to have been exchanged already.
BeginReplay(r, t) ==
  /\ row[t].rotated_to # None
  /\ Start(r, "replay", row[t].user, t, row[t].epoch)

\* ... and its whole family is revoked and committed before the 401.
FinishReplay(r) ==
  /\ Respond(r, "replay")
  /\ Revoke(Session(handler[r].token))
  /\ UNCHANGED <<active, epoch>>

\* The tokens logout finds for a caller: the caller's own, or none is presented.
Presentable(u) == TokensOf(u) \union {None}

\* logout: the caller is authenticated; t is a refresh token of the caller, or
\* None when every session is to be signed out.
BeginLogout(r, u, t) ==
  /\ active[u]
  /\ t \in Presentable(u)
  /\ Start(r, "logout", u, t, epoch[u])

FinishLogout(r) ==
  LET t == handler[r].token IN
  /\ Respond(r, "logout")
  /\ Revoke(IF t = None THEN TokensOf(handler[r].user)
                        ELSE Session(t))
  /\ UNCHANGED <<active, epoch>>

\* password/change and password/reset: the caller has shown the current
\* password, or the link's single-use claim, and is an active user.
BeginPassword(r, u) ==
  /\ active[u]
  /\ Start(r, "password", u, None, epoch[u])

\* Mutated: the sessions are left alone.
FinishPassword_KeepsSessions(r) ==
  LET u == handler[r].user IN
  /\ Respond(r, "password")
  /\ epoch[u] < MaxEpoch
  /\ epoch' = [epoch EXCEPT ![u] = @ + 1]
  /\ UNCHANGED <<row, closed, active>>

\* ... the new hash is stored and every session of the user revoked.
FinishPassword(r) ==
  LET u == handler[r].user IN
  /\ Respond(r, "password")
  /\ epoch[u] < MaxEpoch
  /\ epoch' = [epoch EXCEPT ![u] = @ + 1]
  /\ Revoke(TokensOf(u))
  /\ UNCHANGED active

\* A request fails before its commit (worker lost, connection lost, commit
\* error): the session dependency rolls back and nothing was written.
Fail(r) ==
  /\ handler[r] # Idle
  /\ handler' = [handler EXCEPT ![r] = Idle]
  /\ UNCHANGED <<row, active, epoch, closed>>

-----------------------------------------------------------------------------
(* The environment. *)

\* Time passes expires_at.
Expire(t) ==
  /\ ~row[t].expired
  /\ row' = [row EXCEPT ![t].expired = TRUE]
  /\ UNCHANGED <<active, epoch, handler, closed>>

\* An operator deactivates or reactivates an account in the database.
SetActive(u) ==
  /\ active' = [active EXCEPT ![u] = ~@]
  /\ UNCHANGED <<row, epoch, handler, closed>>

-----------------------------------------------------------------------------
Begin(u) ==
  \E r \in Request :
    \/ BeginLogin(r, u)
    \/ BeginPassword(r, u)
    \/ \E t \in TokensOf(u) : BeginRefresh(r, t) \/ BeginReplay(r, t)
    \/ \E t \in Issued \union {None} : BeginLogout(r, u, t)

Finish(r) ==
  \/ FinishLogin(r)
  \/ FinishRefresh(r)
  \/ FinishReplay(r)
  \/ FinishLogout(r)
  \/ FinishPassword(r)
  \/ Fail(r)

Environment ==
  \/ \E t \in Issued : Expire(t)
  \/ \E u \in User : SetActive(u)

Next ==
  \/ \E u \in User : Begin(u)
  \/ \E r \in Request : Finish(r)
  \/ Environment

Spec == Init /\ [][Next]_vars

(***************************************************************************)
(* The same system when the requests of one user never overlap: what the   *)
(* web client arranges within one tab for refresh (one shared promise), and *)
(* what a user does who waits for each answer.  The code does not enforce  *)
(* it; the properties below say which guarantees rest on it.               *)
(***************************************************************************)
SerialNext ==
  \/ \E u \in User : ~Busy(u) /\ Begin(u)
  \/ \E r \in Request : Finish(r)
  \/ Environment

SerialSpec == Init /\ [][SerialNext]_vars

-----------------------------------------------------------------------------
(* Properties of every interleaving (Spec). *)

\* A spent token is revoked, and what it was exchanged for is a row of the
\* same session: rotated_to never leads out of a family (refresh_tokens).
Lineage ==
  \A t \in Issued : row[t].rotated_to # None =>
    LET new == row[t].rotated_to IN
    /\ row[t].revoked
    /\ new \in Issued \ {t}
    /\ row[new].family = row[t].family

\* All tokens of a family descend from one login: one user, one password.
\* Revoking a family (replay, logout) therefore signs out one user only.
OneLoginPerFamily ==
  \A s, t \in Issued : row[s].family = row[t].family =>
    row[s].user = row[t].user /\ row[s].epoch = row[t].epoch

\* A session gains a usable token only by exchange.  The token presented is
\* revoked by it; so a second usable token appears beside the first only if the
\* one presented had been revoked, by another answer, after it was read: when
\* two refreshes or a refresh and a logout overlap, and never otherwise
\* (auth.py 181-186).
GainsByExchange ==
  \A f \in Families :
    LET before == Unrevoked(Tokens(f))
        after == Unrevoked(Tokens(f))'
    IN ~(after \subseteq before) =>
         \E old \in Tokens(f), new \in Token \ Issued :
           /\ InFlight("refresh", {old})
           /\ row'[old].rotated_to = new
           /\ after = (before \ {old}) \union {new}

TokensAreExchanged == [][GainsByExchange]_vars

\* No step of any handler makes a revoked or spent token usable again, or
\* drops a row: replay detection never forgets what it has to detect.  And a
\* token is revoked only by the answer to a request of its own user, whatever
\* token that request presents (auth.py 153-219).
KeepsRevocations ==
  \A t \in Issued :
    /\ t \in Issued'
    /\ row[t].revoked => row'[t].revoked
    /\ row[t].rotated_to # None => row'[t].rotated_to # None
    /\ ~row[t].revoked /\ row'[t].revoked =>
         \E r \in Request : handler[r].user = row[t].user /\ handler'[r] = Idle

RevocationIsPermanent == [][KeepsRevocations]_vars

\* A session is over: every token of it is revoked or expired and no refresh
\* that found one of them exchangeable is still in flight.
Usable(f) == {t \in Unrevoked(Tokens(f)) : ~row[t].expired}
Over(f) == f \in Families /\ Usable(f) = {} /\ ~InFlight("refresh", Tokens(f))

\* A session that is over, also by expiry, never comes back; and one that a
\* response reports as ended, by logout, replay detection, password change or
\* reset, is over in the same step unless a refresh of it is in flight: all that
\* survives or revives a closed session is a refresh that had already read its
\* token when it was closed (auth.py 134-219, account.py 222-231).
KeepsOver ==
  /\ \A f \in Families : Over(f) => Over(f)'
  /\ \A f \in closed' \ closed : InFlight("refresh", Tokens(f)) \/ Over(f)'

OverIsFinal == [][KeepsOver]_vars

\* A deactivated account gets no token until it is reactivated, except from a
\* login or refresh that was in flight when it was deactivated; none begins
\* afterwards (auth.py 121, 178).
Barred(u) ==
  /\ ~active[u]
  /\ \A r \in Request :
       handler[r].user = u => handler[r].op \notin {"login", "refresh"}

KeepsBarred == \A u \in User :
  Barred(u) => TokensOf(u)' = TokensOf(u) /\ (Barred(u)' \/ active'[u])

BarredStaysOut == [][KeepsBarred]_vars

-----------------------------------------------------------------------------
(* Properties that hold when the requests of one user do not overlap. *)

\* A session has at most one usable token (routers/auth.py, lines 3-5).
OneUsableToken ==
  \A s, t \in Issued : row[s].family = row[t].family /\ ~row[s].revoked /\ ~row[t].revoked => s = t

\* Every usable token descends from a login with the current password:
\* no session survives a password change or reset (account.py, lines 7-9).
NoSessionOutlivesItsPassword ==
  \A t \in Issued : ~row[t].revoked => row[t].epoch = epoch[row[t].user]

\* Once a response has reported a session as ended, none of its tokens is
\* usable: logout reaches the rotated descendants, replay the whole family.
ClosedSessionsAreDead ==
  \A t \in Issued : row[t].family \in closed => row[t].revoked

\* The table implements the promised chain of tokens.
Chain == INSTANCE SessionChain WITH
  used <- Issued,
  opened <- Families,
  closed <- closed,
  live <- [f \in Family |-> Unrevoked(Tokens(f))]

ImplementsSessionChain == Chain!Spec
=============================================================================
