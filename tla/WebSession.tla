----------------------------- MODULE WebSession -----------------------------
(***************************************************************************)
(* The web client's session (apps/web/lib/api.ts, useAuth.ts) with the     *)
(* sessions of the server (SessionChain) behind a network that may lose    *)
(* any request or answer.                                                  *)
(*                                                                         *)
(* Tabs of one browser share localStorage; the promise that collapses      *)
(* refreshes is a variable of each tab.  A tab runs one piece of script at *)
(* a time: what follows an await happens in one step, and everybody who    *)
(* awaits a refresh goes on before the tab does anything else.             *)
(*                                                                         *)
(* Pairs of tokens are numbered in the order in which they are minted, a   *)
(* session has the number of its first pair.  Access tokens live equally   *)
(* long, so they expire in this order.                                     *)
(***************************************************************************)
EXTENDS Naturals, FiniteSets

CONSTANTS
  Tab,
  Call,       \* calls of api.* that may be in flight at the same time
  MaxMinted   \* bound: how many pairs the server mints

ASSUME MaxMintedAssumption == MaxMinted \in Nat

Token == 1 .. MaxMinted
Family == Token
None == 0               \* null

VARIABLES
  used, opened, closed, live,   \* the server's sessions, see SessionChain
  family,     \* the session of each token handed out
  expired,    \* the access tokens up to this one have expired
  store,      \* localStorage: the pair socialai.access, socialai.refresh
  promise,    \* refreshInFlight of each tab
  call,       \* the calls in flight
  replayed,   \* history: sessions revoked because a spent token was presented
  doubtful,   \* history: sessions of which a refresh was lost, or was sent by
              \* one tab while another's was in flight
  signedOut   \* history: a logout has ended and no login since

server == <<used, opened, closed, live, family>>
vars == <<server, expired, store, promise, call, replayed, doubtful, signedOut>>

Server == INSTANCE SessionChain

Kind == {"call", "load", "logout", "login"}

NoPromise == [stage |-> "none", token |-> None, answer |-> None]
Promise == [stage: {"none", "sent", "answered", "settled"},
            token: Token \union {None}, answer: Token \union {None}]

Idle == [kind |-> "call", tab |-> None, stage |-> "idle", access |-> None,
         refresh |-> None, retried |-> FALSE]

\* access: the token in the header, or of the login's answer.
\* refresh: the token in the body of a logout.
CallState == [kind: Kind, tab: Tab \union {None},
              stage: {"idle", "sent", "answered", "waiting"},
              access: Token \union {None}, refresh: Token \union {None},
              retried: BOOLEAN]

TypeOK ==
  /\ used \subseteq Token /\ opened \subseteq Family /\ closed \subseteq opened
  /\ live \in [Family -> SUBSET used]
  /\ family \in [Token -> Family \union {None}]
  /\ expired \in 0 .. Cardinality(used)
  /\ store \in used \union {None}
  /\ promise \in [Tab -> Promise]
  /\ call \in [Call -> CallState]
  /\ replayed \subseteq closed /\ doubtful \subseteq opened
  /\ signedOut \in BOOLEAN

Init ==
  /\ Server!Init
  /\ family = [t \in Token |-> None]
  /\ expired = 0
  /\ store = None
  /\ promise = [b \in Tab |-> NoPromise]
  /\ call = [c \in Call |-> Idle]
  /\ replayed = {} /\ doubtful = {}
  /\ signedOut = FALSE

Fresh == Cardinality(used) + 1

Valid(access) == access > expired

-----------------------------------------------------------------------------
(* A call is sent, raises or ends. *)

\* load does nothing without a token.  The pages that send the other calls are
\* shown after a login, and send them also when the pair has been cleared since.
Send(c, b, kind) ==
  /\ call[c] = Idle
  /\ kind # "login" => opened # {}
  /\ kind = "load" => store # None
  /\ call' = [call EXCEPT ![c] =
       [kind |-> kind, tab |-> b, stage |-> "sent",
        access |-> IF kind = "login" THEN None ELSE store,
        refresh |-> IF kind = "logout" THEN store ELSE None,
        retried |-> FALSE]]
  /\ UNCHANGED <<server, expired, store, promise, replayed, doubtful, signedOut>>

\* What is left of the stored pair s when the calls C raise: logout clears it
\* in its finally, load in its catch.
StoreAfter(s, C) ==
  IF \E c \in C : call[c].kind \in {"load", "logout"} THEN None ELSE s

SignedOutAfter(C) == signedOut \/ \E c \in C : call[c].kind = "logout"

Raise(c) ==
  /\ call' = [call EXCEPT ![c] = Idle]
  /\ store' = StoreAfter(store, {c})
  /\ signedOut' = SignedOutAfter({c})
  /\ UNCHANGED <<server, expired, promise, replayed, doubtful>>

\* fetch rejects (the request or its answer is lost), or the answer is an error
\* other than 401.
Lose(c) ==
  /\ call[c].stage \in {"sent", "answered"}
  /\ Raise(c)

\* The access token is good and the call has no effect on the session.
Succeed(c) ==
  /\ call[c].stage = "sent" /\ call[c].kind \in {"call", "load"}
  /\ Valid(call[c].access)
  /\ call' = [call EXCEPT ![c] = Idle]
  /\ UNCHANGED <<server, expired, store, promise, replayed, doubtful, signedOut>>

-----------------------------------------------------------------------------
(* Login and logout. *)

\* The server opens a session.
Admit(c) ==
  /\ call[c].stage = "sent" /\ call[c].kind = "login"
  /\ \E t \in {Fresh} :
       /\ Server!Open(t, t)
       /\ family' = [family EXCEPT ![t] = t]
       /\ call' = [call EXCEPT ![c].stage = "answered", ![c].access = t]
  /\ UNCHANGED <<expired, store, promise, replayed, doubtful, signedOut>>

\* The answer arrives and its pair is stored.
LoggedIn(c) ==
  /\ call[c].stage = "answered" /\ call[c].kind = "login"
  /\ store' = call[c].access
  /\ signedOut' = FALSE
  /\ call' = [call EXCEPT ![c] = Idle]
  /\ UNCHANGED <<server, expired, promise, replayed, doubtful>>

Dismiss_ByToken(c) ==   \* mutated: the token itself is revoked, not its family
  /\ call[c].stage = "sent" /\ call[c].kind = "logout"
  /\ Valid(call[c].access)
  /\ Server!Close({call[c].refresh})
  /\ call' = [call EXCEPT ![c].stage = "answered"]
  /\ UNCHANGED <<family, expired, store, promise, replayed, doubtful, signedOut>>

\* The server revokes the family of the token in the body, or without one every
\* session of the user.
Dismiss(c) ==
  /\ call[c].stage = "sent" /\ call[c].kind = "logout"
  /\ Valid(call[c].access)
  /\ Server!Close(IF call[c].refresh = None THEN opened
                  ELSE {family[call[c].refresh]})
  /\ call' = [call EXCEPT ![c].stage = "answered"]
  /\ UNCHANGED <<family, expired, store, promise, replayed, doubtful, signedOut>>

LoggedOut(c) ==
  /\ call[c].stage = "answered" /\ call[c].kind = "logout"
  /\ Raise(c)

-----------------------------------------------------------------------------
(* Refresh. *)

InFlight(b) == promise[b].stage \in {"sent", "answered"}

\* The call is answered 401: its token has expired or it had none.
Unauthorised(c) ==
  /\ call[c].stage = "sent" /\ call[c].kind # "login"
  /\ ~Valid(call[c].access)

Resent(c, access) ==
  [call[c] EXCEPT !.stage = "sent", !.access = access, !.retried = TRUE]

\* There is nothing to refresh with, or the call is a retry: the 401 stands.
GiveUp(c) ==
  /\ Unauthorised(c)
  /\ call[c].retried \/ store = None
  /\ Raise(c)

\* A refresh of the tab is in flight: the call waits for it.
Join(c) ==
  /\ Unauthorised(c)
  /\ ~call[c].retried /\ store # None
  /\ InFlight(call[c].tab)
  /\ call' = [call EXCEPT ![c].stage = "waiting"]
  /\ UNCHANGED <<server, expired, store, promise, replayed, doubtful, signedOut>>

\* The refresh has just settled and its promise is not cleared yet.
Reuse(c) ==
  /\ Unauthorised(c)
  /\ ~call[c].retried /\ store # None
  /\ promise[call[c].tab].stage = "settled"
  /\ IF promise[call[c].tab].answer = None
     THEN Raise(c)
     ELSE /\ call' = [call EXCEPT ![c] = Resent(c, store)]
          /\ UNCHANGED <<server, expired, store, promise, replayed, doubtful, signedOut>>

MayRefresh_Anytime(b) == promise[b].stage # "settled"   \* mutated: not collapsed
MayRefresh(b) == promise[b].stage = "none"

\* The call sends the tab's refresh with the stored token.
Refresh(c) ==
  LET b == call[c].tab IN
  /\ Unauthorised(c)
  /\ ~call[c].retried /\ store # None
  /\ MayRefresh(b)
  /\ promise' = [promise EXCEPT ![b] = [stage |-> "sent", token |-> store, answer |-> None]]
  /\ call' = [call EXCEPT ![c].stage = "waiting"]
  /\ doubtful' = IF \E o \in Tab \ {b} : InFlight(o) /\ promise[o].token = store
                 THEN doubtful \union {family[store]} ELSE doubtful
  /\ UNCHANGED <<server, expired, store, replayed, signedOut>>

\* The server exchanges the usable token of the session.
Rotate(b) ==
  LET t == promise[b].token IN
  /\ promise[b].stage = "sent"
  /\ t \in live[family[t]]
  /\ \E n \in {Fresh} :
       /\ Server!Rotate(family[t], n)
       /\ family' = [family EXCEPT ![n] = family[t]]
       /\ promise' = [promise EXCEPT ![b].stage = "answered", ![b].answer = n]
  /\ UNCHANGED <<expired, store, call, replayed, doubtful, signedOut>>

\* The token is spent or its session closed: the server closes it and says 401.
Refuse(b) ==
  LET t == promise[b].token IN
  /\ promise[b].stage = "sent"
  /\ t \notin live[family[t]]
  /\ Server!Close({family[t]})
  /\ replayed' = IF family[t] \in closed THEN replayed ELSE replayed \union {family[t]}
  /\ promise' = [promise EXCEPT ![b].stage = "answered"]
  /\ UNCHANGED <<family, expired, store, call, doubtful, signedOut>>

\* The server answers 429 or 5xx and has changed nothing.
Fail(b) ==
  /\ promise[b].stage = "sent"
  /\ promise' = [promise EXCEPT ![b].stage = "answered"]
  /\ UNCHANGED <<server, expired, store, call, replayed, doubtful, signedOut>>

Waiting(b) == {c \in Call : call[c].stage = "waiting" /\ call[c].tab = b}

\* Mutated: only one of those who wait goes on.
Wake_One(b, n) ==
  \E d \in Waiting(b) :
    call' = [call EXCEPT ![d] = IF n = None THEN Idle ELSE Resent(d, n)]

\* The promise settles and all who wait for it go on, with n or raising.
Wake(b, n) ==
  call' = [c \in Call |-> IF c \notin Waiting(b) THEN call[c]
                          ELSE IF n = None THEN Idle ELSE Resent(c, n)]

Refreshed_KeepsOld(b) ==   \* mutated: the new refresh token is not stored
  /\ promise[b].stage = "answered" /\ promise[b].answer # None
  /\ promise' = [promise EXCEPT ![b].stage = "settled"]
  /\ Wake(b, promise[b].answer)
  /\ UNCHANGED <<server, expired, store, replayed, doubtful, signedOut>>

Refreshed(b) ==
  /\ promise[b].stage = "answered" /\ promise[b].answer # None
  /\ promise' = [promise EXCEPT ![b].stage = "settled"]
  /\ store' = promise[b].answer
  /\ Wake(b, store')
  /\ UNCHANGED <<server, expired, replayed, doubtful, signedOut>>

\* A refresh that is not answered 200 clears the pair; those who wait raise.
Refused(b) ==
  /\ promise[b].stage = "answered" /\ promise[b].answer = None
  /\ promise' = [promise EXCEPT ![b].stage = "settled"]
  /\ store' = None
  /\ Wake(b, None)
  /\ signedOut' = SignedOutAfter(Waiting(b))
  /\ UNCHANGED <<server, expired, replayed, doubtful>>

\* fetch rejects: the stored pair is kept, unless one who waits clears it.
LoseRefresh(b) ==
  /\ InFlight(b)
  /\ promise' = [promise EXCEPT ![b].stage = "settled", ![b].answer = None]
  /\ store' = StoreAfter(store, Waiting(b))
  /\ Wake(b, None)
  /\ signedOut' = SignedOutAfter(Waiting(b))
  /\ doubtful' = doubtful \union {family[promise[b].token]}
  /\ UNCHANGED <<server, expired, replayed>>

\* setTimeout clears refreshInFlight.
Forget(b) ==
  /\ promise[b].stage = "settled"
  /\ promise' = [promise EXCEPT ![b] = NoPromise]
  /\ UNCHANGED <<server, expired, store, call, replayed, doubtful, signedOut>>

Expire ==
  /\ expired < Cardinality(used)
  /\ expired' = expired + 1
  /\ UNCHANGED <<server, store, promise, call, replayed, doubtful, signedOut>>

-----------------------------------------------------------------------------
\* What the network or the script will do with a call that waits for an answer.
Answer(c) ==
  Lose(c) \/ Succeed(c) \/ Admit(c) \/ LoggedIn(c) \/ Dismiss(c) \/ LoggedOut(c)
  \/ GiveUp(c) \/ Join(c) \/ Reuse(c) \/ Refresh(c)

AnswerRefresh(b) ==
  Rotate(b) \/ Refuse(b) \/ Fail(b) \/ Refreshed(b) \/ Refused(b)
  \/ LoseRefresh(b) \/ Forget(b)

Next ==
  \/ \E c \in Call, b \in Tab, kind \in Kind : Send(c, b, kind)
  \/ \E c \in Call : Answer(c)
  \/ \E b \in Tab : AnswerRefresh(b)
  \/ Expire

Fairness ==
  /\ \A c \in Call : WF_vars(Answer(c))
  /\ \A b \in Tab : WF_vars(AnswerRefresh(b))

Spec == Init /\ [][Next]_vars /\ Fairness

-----------------------------------------------------------------------------
(* Properties. *)

\* The stored refresh token is the usable one of its session, unless the answer
\* that replaces it is on its way, the session has been closed, or a refresh was
\* lost or sent by two tabs.
StoredTokenIsUsable ==
  store # None =>
    \/ store \in live[family[store]]
    \/ family[store] \in closed \union doubtful
    \/ \E b \in Tab : InFlight(b) /\ promise[b].token = store

\* The client does not trip the server's replay detection: a session is revoked
\* as replayed only if a refresh was lost or two tabs sent one together.
\* (Comment of api.ts, lines 4-8: all concurrent 401s share a refresh.)
NoSelfReplay == replayed \subseteq doubtful

\* Every call comes to an end: nobody waits for a refresh that never settles,
\* and no chain of 401s and retries goes on for ever.
CallsEnd == \A c \in Call : call[c].stage # "idle" ~> call[c].stage = "idle"

-----------------------------------------------------------------------------
(* What a comment promises and a refresh in flight defeats. *)

\* "Local state is cleared even if the server call fails, otherwise a network
\* blip leaves the user apparently signed in." (api.ts 260-261)
LogoutSignsOut == signedOut => store = None
=============================================================================
