----------------------------- MODULE EmailLinks -----------------------------
(***************************************************************************)
(* The verification_tokens table and the handlers of routers/account.py    *)
(* and routers/auth.py that mint and redeem its single-use links: register, *)
(* verify/request, password/forgot, verify/confirm and password/reset.      *)
(*                                                                         *)
(* Minting: the link is mailed before the transaction that stores it       *)
(* commits.  Redeeming: the link is claimed by a conditional UPDATE that    *)
(* commits at once; the effect is a second transaction.  A worker may be    *)
(* lost between any two of these steps.                                     *)
(*                                                                         *)
(* Issuing first marks the outstanding links of the user used; the UPDATE   *)
(* sees the rows committed when it starts and its effect is visible when    *)
(* the handler commits, so handler.seen is that set of rows.  Waiting for  *)
(* row locks is left out: it only removes interleavings.                   *)
(***************************************************************************)
EXTENDS Naturals, FiniteSets

CONSTANTS
  User,       \* email addresses; an account may or may not exist for one
  Link,       \* link values (their hashes), fresh when minted
  Request,    \* requests that may be in flight at the same time
  None,       \* SQL NULL
  MaxEpoch    \* bound: how many resets of one user's password a run covers

ASSUME NoneAssumption == None \notin User \union Link
ASSUME EpochAssumption == MaxEpoch \in Nat

Caller == {"register", "verify_request", "forgot"}
Purpose == {"email_verify", "password_reset"}
PurposeOf_Typo(caller) ==   \* mutated: a purpose nobody redeems
  IF caller = "forgot" THEN "password_forgot" ELSE "email_verify"
PurposeOf(caller) == IF caller = "forgot" THEN "password_reset" ELSE "email_verify"

Row == [user: User, purpose: Purpose, used: BOOLEAN, expired: BOOLEAN]

VARIABLES
  row,        \* verification_tokens: a row for each committed link
  mailbox,    \* links delivered to their user
  account,    \* users rows: addresses that have an account
  active,     \* users.is_active
  verified,   \* users.email_verified_at is set
  epoch,      \* users.hashed_password: how often a reset has replaced it
  signedIn,   \* the user holds an unrevoked refresh token
  handler,    \* the requests in flight
  redeemed    \* history: how often each link has taken effect

data == <<row, mailbox, account, active, verified, epoch, signedIn, redeemed>>
vars == <<row, mailbox, account, active, verified, epoch, signedIn,
          handler, redeemed>>

Idle == [stage |-> "idle", caller |-> "register", user |-> None, link |-> None,
         seen |-> {}]

Stage == {"idle", "send", "commit", "claim", "claimed", "effect"}

Handler == [stage: Stage, caller: Caller \union Purpose,
            user: User \union {None}, link: Link \union {None},
            seen: SUBSET Link]

Stored == DOMAIN row
Taken == Stored \union mailbox \union {handler[r].link : r \in Request}

\* The links an issue invalidates.
Outstanding(u, p) ==
  {l \in Stored : row[l].user = u /\ row[l].purpose = p /\ ~row[l].used}

TypeOK ==
  /\ Stored \subseteq Link
  /\ row \in [Stored -> Row]
  /\ mailbox \subseteq Link
  /\ account \subseteq User
  /\ active \in [User -> BOOLEAN]
  /\ verified \in [User -> BOOLEAN]
  /\ epoch \in [User -> Nat]
  /\ signedIn \in [User -> BOOLEAN]
  /\ handler \in [Request -> Handler]
  /\ redeemed \in [Link -> Nat]

Init ==
  /\ row = [l \in {} |-> None]
  /\ mailbox = {} /\ account = {}
  /\ active = [u \in User |-> TRUE]
  /\ verified = [u \in User |-> FALSE]
  /\ epoch = [u \in User |-> 0]
  /\ signedIn = [u \in User |-> FALSE]
  /\ handler = [r \in Request |-> Idle]
  /\ redeemed = [l \in Link |-> 0]

Answer(r) == handler' = [handler EXCEPT ![r] = Idle]

-----------------------------------------------------------------------------
(* Minting a link. *)

\* The users row of an account being registered: inserting a second one waits
\* (unique index) until the first is committed or gone.
Registering(u) ==
  \E r \in Request : /\ handler[r].stage \in {"send", "commit"}
                     /\ handler[r].caller = "register"
                     /\ handler[r].user = u

\* The handler has selected the user and found that it may have a link; the
\* outstanding ones are marked used and a new value is generated.
BeginIssue(r, caller, u) ==
  /\ handler[r] = Idle
  /\ CASE caller = "register" -> u \notin account /\ ~Registering(u)
       [] caller = "verify_request" -> u \in account /\ ~verified[u]
       [] caller = "forgot" -> u \in account /\ active[u]
  /\ \E l \in Link \ Taken :
       handler' = [handler EXCEPT ![r] =
         [stage |-> "send", caller |-> caller, user |-> u, link |-> l,
          seen |-> Outstanding(u, PurposeOf(caller))]]
  /\ UNCHANGED data

\* The mail server takes the message.
SendMail(r) ==
  /\ handler[r].stage = "send"
  /\ mailbox' = mailbox \union {handler[r].link}
  /\ handler' = [handler EXCEPT ![r].stage = "commit"]
  /\ UNCHANGED <<row, account, active, verified, epoch, signedIn, redeemed>>

\* Mutated: every caller goes on, as register does.
MailFails_Ignored(r) ==
  /\ handler[r].stage = "send"
  /\ handler' = [handler EXCEPT ![r].stage = "commit"]
  /\ UNCHANGED data

\* The mail server does not: register logs the exception and goes on, the
\* other two let it propagate, which answers 500 and rolls everything back.
MailFails(r) ==
  /\ handler[r].stage = "send"
  /\ IF handler[r].caller = "register"
     THEN handler' = [handler EXCEPT ![r].stage = "commit"]
     ELSE Answer(r)
  /\ UNCHANGED data

\* The table with the link of h stored; those seen outstanding are used.
Inserted(h) == [user |-> h.user, purpose |-> PurposeOf(h.caller),
                used |-> FALSE, expired |-> FALSE]
Store(h) ==
  [l \in Stored \union {h.link} |->
    IF l = h.link THEN Inserted(h)
    ELSE IF l \in h.seen THEN [row[l] EXCEPT !.used = TRUE] ELSE row[l]]

\* The commit: the links seen outstanding are used, the new one is stored;
\* registering also stores the account (unique by address) and a session.
CommitIssue(r) ==
  LET h == handler[r] IN
  /\ h.stage = "commit"
  /\ row' = Store(h)
  /\ IF h.caller = "register"
     THEN /\ account' = account \union {h.user}
          /\ signedIn' = [signedIn EXCEPT ![h.user] = TRUE]
     ELSE UNCHANGED <<account, signedIn>>
  /\ Answer(r)
  /\ UNCHANGED <<mailbox, active, verified, epoch, redeemed>>

-----------------------------------------------------------------------------
(* Redeeming a link. *)

\* The presented link is read by value and purpose and has not expired.
\* Whether it has been used is left to the claim.
Acceptable_AnyPurpose(l, purpose) == ~row[l].expired   \* mutated
Acceptable(l, purpose) == row[l].purpose = purpose /\ ~row[l].expired

BeginConsume(r, l, purpose) ==
  /\ handler[r] = Idle
  /\ l \in Stored
  /\ Acceptable(l, purpose)
  /\ handler' = [handler EXCEPT ![r] =
       [stage |-> "claim", caller |-> purpose, user |-> row[l].user,
        link |-> l, seen |-> {}]]
  /\ UNCHANGED data

\* Mutated: the claim trusts the row read before.
Claim_Unconditional(r) ==
  /\ handler[r].stage = "claim"
  /\ row' = [row EXCEPT ![handler[r].link].used = TRUE]
  /\ handler' = [handler EXCEPT ![r].stage = "claimed"]
  /\ UNCHANGED <<mailbox, account, active, verified, epoch, signedIn, redeemed>>

\* UPDATE ... SET used_at = now WHERE used_at IS NULL hits the row: committed.
Claim(r) ==
  LET l == handler[r].link IN
  /\ handler[r].stage = "claim"
  /\ ~row[l].used
  /\ row' = [row EXCEPT ![l].used = TRUE]
  /\ handler' = [handler EXCEPT ![r].stage = "claimed"]
  /\ UNCHANGED <<mailbox, account, active, verified, epoch, signedIn, redeemed>>

\* ... or misses it: 401.
ClaimMisses(r) ==
  /\ handler[r].stage = "claim"
  /\ row[handler[r].link].used
  /\ Answer(r)
  /\ UNCHANGED data

\* In a new transaction the link's user is read and found active.
LoadUser(r) ==
  /\ handler[r].stage = "claimed"
  /\ active[handler[r].user]
  /\ handler' = [handler EXCEPT ![r].stage = "effect"]
  /\ UNCHANGED data

\* verify/confirm commits: the address is marked verified.
FinishVerify(r) ==
  LET h == handler[r] IN
  /\ h.stage = "effect" /\ h.caller = "email_verify"
  /\ verified' = [verified EXCEPT ![h.user] = TRUE]
  /\ redeemed' = [redeemed EXCEPT ![h.link] = @ + 1]
  /\ Answer(r)
  /\ UNCHANGED <<row, mailbox, account, active, epoch, signedIn>>

\* password/reset commits: the password is replaced, every session revoked.
FinishReset(r) ==
  LET h == handler[r] IN
  /\ h.stage = "effect" /\ h.caller = "password_reset"
  /\ epoch[h.user] < MaxEpoch
  /\ epoch' = [epoch EXCEPT ![h.user] = @ + 1]
  /\ signedIn' = [signedIn EXCEPT ![h.user] = FALSE]
  /\ redeemed' = [redeemed EXCEPT ![h.link] = @ + 1]
  /\ Answer(r)
  /\ UNCHANGED <<row, mailbox, account, active, verified>>

\* A request ends without committing what it has not committed yet: the
\* worker is lost, the commit fails, or (after the claim) the account turns
\* out to be inactive.
Fail(r) ==
  /\ handler[r] # Idle
  /\ Answer(r)
  /\ UNCHANGED data

-----------------------------------------------------------------------------
(* The environment. *)

Expire(l) ==
  /\ ~row[l].expired
  /\ row' = [row EXCEPT ![l].expired = TRUE]
  /\ UNCHANGED <<mailbox, account, active, verified, epoch, signedIn,
                 handler, redeemed>>

\* An operator deactivates or reactivates the account.
SetActive(u) ==
  /\ u \in account
  /\ active' = [active EXCEPT ![u] = ~@]
  /\ UNCHANGED <<row, mailbox, account, verified, epoch, signedIn,
                 handler, redeemed>>

\* The user logs in again.
SignIn(u) ==
  /\ u \in account /\ active[u] /\ ~signedIn[u]
  /\ signedIn' = [signedIn EXCEPT ![u] = TRUE]
  /\ UNCHANGED <<row, mailbox, account, active, verified, epoch,
                 handler, redeemed>>

-----------------------------------------------------------------------------
Issue(r) ==
  \/ \E caller \in Caller, u \in User : BeginIssue(r, caller, u)
  \/ SendMail(r)
  \/ MailFails(r)
  \/ CommitIssue(r)

Consume(r) ==
  \/ \E l \in mailbox, p \in Purpose : BeginConsume(r, l, p)
  \/ Claim(r)
  \/ ClaimMisses(r)
  \/ LoadUser(r)
  \/ FinishVerify(r)
  \/ FinishReset(r)

Environment ==
  \/ \E l \in Stored : Expire(l)
  \/ \E u \in User : SetActive(u) \/ SignIn(u)

Next ==
  \/ \E r \in Request : Issue(r) \/ Consume(r) \/ Fail(r)
  \/ Environment

Spec == Init /\ [][Next]_vars

-----------------------------------------------------------------------------
(* Properties. *)

\* A link takes effect at most once, however many requests present it at the
\* same time and wherever a worker is lost (account.py 97-121).
RedeemedOnce == \A l \in Link : redeemed[l] <= 1

\* Every effect on an account was paid for by a link of its own, of the right
\* user and purpose: as many password resets as redeemed reset links, verified
\* only by a verification link (account.py 76-82).
Redeemed(u, p) ==
  {l \in Stored : row[l].user = u /\ row[l].purpose = p /\ redeemed[l] > 0}

EffectsAreRedeemed ==
  \A u \in User : /\ verified[u] <=> Redeemed(u, "email_verify") # {}
                  /\ epoch[u] = Cardinality(Redeemed(u, "password_reset"))

\* An account is stored together with its first verification link, whether or
\* not the mail server takes it, and nobody is signed in before (auth.py 83-107).
AccountsHaveLinks ==
  \A u \in User :
    /\ u \in account <=> \E l \in Stored : row[l].user = u /\ row[l].purpose = "email_verify"
    /\ signedIn[u] => u \in account

EveryEffectHasItsLink == EffectsAreRedeemed /\ AccountsHaveLinks

\* A used link is never outstanding again, and a link becomes used only when
\* it is claimed or in exchange for a newer one: of the same user and purpose,
\* stored and outstanding from that step on, and already delivered.  A mail
\* that fails therefore never costs the user the links delivered before
\* (account.py 47-121, 140-152).
Replaces(r, l) ==
  LET h == handler[r] IN
  /\ h.stage = "commit" /\ h.user = row[l].user
  /\ PurposeOf(h.caller) = row[l].purpose
  /\ h.link \in mailbox /\ h.link \in Stored' \ Stored
  /\ ~row'[h.link].used

KeepsLinks ==
  \A l \in Stored :
    /\ l \in Stored'
    /\ row[l].used => row'[l].used
    /\ ~row[l].used /\ row'[l].used =>
         \E r \in Request :
           \/ handler[r].stage = "claim" /\ handler[r].link = l
           \/ Replaces(r, l)

LinksAreSingleUse == [][KeepsLinks]_vars
=============================================================================
