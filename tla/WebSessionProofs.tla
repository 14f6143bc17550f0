-------------------------- MODULE WebSessionProofs --------------------------
(***************************************************************************)
(* Proofs about WebSession for every number of tabs and of calls in flight, *)
(* and every number of pairs the server mints.                              *)
(***************************************************************************)
EXTENDS WebSession, FiniteSetTheorems, TLAPS

(***************************************************************************)
(* Where a refresh token is.  It is on its way to the client in the answer *)
(* of a login or of a refresh, and then in the client's hands: stored, or  *)
(* in a refresh that is in flight.                                         *)
(***************************************************************************)
Arriving(c) == call[c].stage = "answered" /\ call[c].kind = "login"
Minted(b) == promise[b].stage = "answered" /\ promise[b].answer # None
InHand(t) == t = store \/ \E b \in Tab : InFlight(b) /\ promise[b].token = t

\* The session is lost to the client, or may be.
Doomed(f) == f \in closed \union doubtful

Usable(t) == t \in live[family[t]]
Sound(t) == Usable(t) \/ Doomed(family[t])

ServerOK ==
  /\ used \subseteq Token /\ opened \subseteq Family /\ closed \subseteq opened
  /\ live \in [Family -> SUBSET used]
  /\ family \in [Token -> Family \union {None}]
  /\ expired \in 0 .. Cardinality(used)
  /\ \A t \in used : family[t] \in opened
  /\ \A f \in Family : \A t, u \in live[f] : t = u

\* A call and a promise of the client, of which the server has minted U.
CallOK(x, U) ==
  /\ x \in CallState
  /\ x.stage # "idle" => x.tab \in Tab
  /\ x.refresh \in U \union {None}
  /\ x.stage = "answered" /\ x.kind = "login" => x.access \in U

PromiseOK(p, U) ==
  /\ p \in Promise
  /\ p.stage \in {"sent", "answered"} => p.token \in U
  /\ p.stage = "answered" /\ p.answer # None => p.answer \in U
  /\ p.stage = "sent" => p.answer = None

CallsOK == call \in [Call -> CallState] /\ \A c \in Call : CallOK(call[c], used)
PromisesOK == promise \in [Tab -> Promise] /\ \A b \in Tab : PromiseOK(promise[b], used)
StoreOK == store \in used \union {None}
HistoryOK ==
  /\ replayed \subseteq closed /\ doubtful \subseteq opened
  /\ signedOut \in BOOLEAN
  /\ NoSelfReplay

Typed == ServerOK /\ StoreOK /\ CallsOK /\ PromisesOK /\ HistoryOK

(***************************************************************************)
(* What makes StoredTokenIsUsable and NoSelfReplay inductive: a token that *)
(* is sent is as good as the stored one was; who else sends it makes its   *)
(* session doubtful; and a token on its way is nowhere else, so that no    *)
(* refresh in flight can spend it before it is stored.                     *)
(***************************************************************************)
SentIsSound ==
  \A b \in Tab : promise[b].stage = "sent" => Sound(promise[b].token)

SharedIsDoubtful ==
  \A b, o \in Tab :
    b # o /\ InFlight(b) /\ InFlight(o) /\ promise[b].token = promise[o].token
      => family[promise[b].token] \in doubtful

Fit(t) == Sound(t) /\ ~InHand(t)

OnTheWay ==
  /\ \A c \in Call : Arriving(c) => Fit(call[c].access)
  /\ \A b \in Tab : Minted(b) => Fit(promise[b].answer)

OneCopy ==
  /\ \A c, d \in Call : Arriving(c) /\ Arriving(d) /\ call[c].access = call[d].access => c = d
  /\ \A b, o \in Tab : Minted(b) /\ Minted(o) /\ promise[b].answer = promise[o].answer => b = o
  /\ \A c \in Call, b \in Tab : Arriving(c) /\ Minted(b) => call[c].access # promise[b].answer

Custody ==
  /\ StoredTokenIsUsable /\ SentIsSound /\ SharedIsDoubtful
  /\ OnTheWay /\ OneCopy

IInv == Typed /\ Custody

-----------------------------------------------------------------------------
(* What a step keeps. *)

\* The tokens handed out keep their sessions, and stay usable unless their
\* session is closed.
TokensKept ==
  /\ used \subseteq used' /\ closed \subseteq closed' /\ doubtful \subseteq doubtful'
  /\ \A t \in used : family'[t] = family[t]
  /\ \A t \in used : t \in live[family[t]] => t \in live'[family[t]] \/ family[t] \in closed'

\* No answer arrives that did not before.
CallsKept ==
  \A c \in Call : Arriving(c)' => Arriving(c) /\ call'[c].access = call[c].access

\* No refresh is sent or answered with a token.
PromisesKept ==
  \A b \in Tab :
    /\ InFlight(b)' => InFlight(b) /\ promise'[b].token = promise[b].token
    /\ promise'[b].stage = "sent" => promise[b].stage = "sent"
    /\ Minted(b)' => Minted(b) /\ promise'[b].answer = promise[b].answer

\* The stored pair stays or is cleared, and a refresh with it that stays in
\* flight no longer leaves its session doubtful.
StoreKept ==
  /\ store' \in {None, store}
  /\ store' # None => \A b \in Tab :
       InFlight(b) /\ promise[b].token = store
         => InFlight(b)' \/ family[store] \in doubtful'

LEMMA NoneIsNoToken == None \notin Token
  BY DEF None, Token

LEMMA SoundKept ==
  ASSUME Typed, TokensKept, NEW t \in used, Sound(t)
  PROVE  Sound(t)'
  BY DEF Sound, Usable, Doomed, TokensKept

LEMMA InHandKept ==
  ASSUME PromisesKept, StoreKept, NEW t \in Token, InHand(t)'
  PROVE  InHand(t)
  <1>1. CASE t = store'
    BY <1>1, NoneIsNoToken DEF StoreKept, InHand
  <1>2. CASE \E b \in Tab : InFlight(b)' /\ promise'[b].token = t
    BY <1>2 DEF PromisesKept, InHand
  <1>3. QED
    BY <1>1, <1>2 DEF InHand

LEMMA FitKept ==
  ASSUME Typed, TokensKept, PromisesKept, StoreKept, NEW t \in used, Fit(t)
  PROVE  Fit(t)'
  <1>1. t \in Token
    BY DEF Typed, ServerOK
  <1>2. QED
    BY <1>1, SoundKept, InHandKept DEF Fit

LEMMA TokensAreUsed ==
  ASSUME IInv
  PROVE  /\ used \subseteq Token /\ None \notin used
         /\ store \in used \union {None}
         /\ \A b \in Tab : InFlight(b) => promise[b].token \in used
         /\ \A b \in Tab : Minted(b) => promise[b].answer \in used
         /\ \A c \in Call : Arriving(c) => call[c].access \in used
  BY NoneIsNoToken DEF IInv, Typed, ServerOK, StoreOK, CallsOK, PromisesOK, CallOK, PromiseOK,
     InFlight, Minted, Arriving

\* A step that only loses tokens keeps what the client holds, and what is on its
\* way.
LEMMA HandsKept ==
  ASSUME IInv, TokensKept, PromisesKept, StoreKept
  PROVE  /\ StoredTokenIsUsable' /\ SentIsSound' /\ SharedIsDoubtful'
         /\ \A t \in used : Fit(t) => Fit(t)'
         /\ \A b \in Tab : Minted(b)' => Fit(promise[b].answer)'
  <1>1. StoredTokenIsUsable'
    <2> SUFFICES ASSUME store' # None PROVE Sound(store)' \/ \E b \in Tab : (InFlight(b) /\ promise[b].token = store)'
      BY DEF StoredTokenIsUsable, Sound, Usable, Doomed
    <2>1. store' = store /\ store \in used
      BY TokensAreUsed DEF StoreKept
    <2>2. CASE Sound(store)
      BY <2>1, <2>2, SoundKept DEF IInv, Sound, Usable, Doomed, TokensKept
    <2>3. CASE \E b \in Tab : InFlight(b) /\ promise[b].token = store
      <3>1. PICK b \in Tab : InFlight(b) /\ promise[b].token = store
        BY <2>3
      <3>2. CASE InFlight(b)'
        BY <2>1, <3>1, <3>2 DEF PromisesKept
      <3>3. CASE family[store] \in doubtful'
        BY <2>1, <3>3 DEF Sound, Doomed, TokensKept
      <3>4. QED
        BY <3>1, <3>2, <3>3 DEF StoreKept
    <2>4. QED
      BY <2>1, <2>2, <2>3 DEF IInv, Custody, StoredTokenIsUsable, Sound, Usable, Doomed
  <1>2. SentIsSound'
    <2> SUFFICES ASSUME NEW b \in Tab, promise'[b].stage = "sent" PROVE Sound(promise[b].token)'
      BY DEF SentIsSound
    <2>1. promise[b].stage = "sent" /\ promise'[b].token = promise[b].token /\ promise[b].token \in used
      BY TokensAreUsed DEF PromisesKept, InFlight
    <2>2. Sound(promise[b].token)
      BY <2>1 DEF IInv, Custody, SentIsSound
    <2>3. \A t \in used : Sound(t) => Sound(t)'
      BY SoundKept DEF IInv
    <2>4. QED
      BY <2>1, <2>2, <2>3 DEF Sound, Usable, Doomed
  <1>3. SharedIsDoubtful'
    BY TokensAreUsed DEF SharedIsDoubtful, PromisesKept, TokensKept, IInv, Custody
  <1>4. \A t \in used : Fit(t) => Fit(t)'
    BY FitKept DEF IInv
  <1>5. ASSUME NEW b \in Tab, Minted(b)' PROVE Fit(promise[b].answer)'
    <2>1. promise'[b].answer = promise[b].answer /\ promise[b].answer \in used /\ Fit(promise[b].answer)
      BY TokensAreUsed, <1>5 DEF PromisesKept, IInv, Custody, OnTheWay
    <2>2. QED
      BY <1>4, <2>1 DEF Fit, Sound, Usable, Doomed, InHand
  <1>6. QED
    BY <1>1, <1>2, <1>3, <1>4, <1>5

\* Such a step on which no answer of a login arrives keeps the custody.
LEMMA CustodyKept ==
  ASSUME IInv, TokensKept, CallsKept, PromisesKept, StoreKept
  PROVE  Custody'
  <1>1. /\ StoredTokenIsUsable' /\ SentIsSound' /\ SharedIsDoubtful'
        /\ \A t \in used : Fit(t) => Fit(t)'
        /\ \A b \in Tab : Minted(b)' => Fit(promise[b].answer)'
    BY HandsKept
  <1>2. ASSUME NEW c \in Call, Arriving(c)' PROVE Fit(call[c].access)'
    <2>1. call'[c].access = call[c].access /\ call[c].access \in used /\ Fit(call[c].access)
      BY TokensAreUsed, <1>2 DEF CallsKept, IInv, Custody, OnTheWay
    <2>2. QED
      BY <1>1, <2>1 DEF Fit, Sound, Usable, Doomed, InHand
  <1>3. OnTheWay'
    BY <1>1, <1>2 DEF OnTheWay
  <1>4. OneCopy'
    BY DEF OneCopy, CallsKept, PromisesKept, IInv, Custody
  <1>5. QED
    BY <1>1, <1>3, <1>4 DEF Custody

-----------------------------------------------------------------------------
(* Types. *)

LEMMA CallsStay ==
  ASSUME CallsOK, used \subseteq used', UNCHANGED call
  PROVE  CallsOK' /\ CallsKept
  BY DEF CallsOK, CallOK, CallsKept, Arriving

LEMMA PromisesStay ==
  ASSUME PromisesOK, used \subseteq used', UNCHANGED promise
  PROVE  PromisesOK' /\ PromisesKept
  BY DEF PromisesOK, PromiseOK, PromisesKept, InFlight, Minted

LEMMA OneCallChanges ==
  ASSUME CallsOK, used \subseteq used',
         NEW c \in Call, NEW x, CallOK(x, used'), call' = [call EXCEPT ![c] = x]
  PROVE  CallsOK'
  <1>1. call' \in [Call -> CallState] /\ call'[c] = x /\ \A d \in Call \ {c} : call'[d] = call[d]
    BY DEF CallsOK, CallOK
  <1>2. \A d \in Call : CallOK(call'[d], used')
    BY <1>1 DEF CallsOK, CallOK
  <1>3. QED
    BY <1>1, <1>2 DEF CallsOK, CallOK

LEMMA OnePromiseChanges ==
  ASSUME PromisesOK, used \subseteq used',
         NEW b \in Tab, NEW p, PromiseOK(p, used'), promise' = [promise EXCEPT ![b] = p]
  PROVE  PromisesOK'
  <1>1. promise' \in [Tab -> Promise] /\ promise'[b] = p /\ \A o \in Tab \ {b} : promise'[o] = promise[o]
    BY DEF PromisesOK, PromiseOK
  <1>2. \A o \in Tab : PromiseOK(promise'[o], used')
    BY <1>1 DEF PromisesOK, PromiseOK
  <1>3. QED
    BY <1>1, <1>2 DEF PromisesOK, PromiseOK

\* A call that changes to something other than a login's answer.
LEMMA CallsKeptBut ==
  ASSUME CallsOK, NEW c \in Call, NEW x, call' = [call EXCEPT ![c] = x],
         ~(x.stage = "answered" /\ x.kind = "login")
  PROVE  CallsKept
  BY DEF CallsOK, CallsKept, Arriving

LEMMA IdleOK ==
  ASSUME NEW U
  PROVE  CallOK(Idle, U) /\ PromiseOK(NoPromise, U) /\ Idle.stage = "idle" /\ NoPromise.stage = "none"
  BY DEF CallOK, PromiseOK, Idle, NoPromise, CallState, Promise, Kind

LEMMA UsedIsFinite ==
  ASSUME ServerOK
  PROVE  IsFiniteSet(used) /\ Cardinality(used) \in Nat
  <1>1. IsFiniteSet(Token)
    BY FS_Interval, MaxMintedAssumption DEF Token
  <1>2. QED
    BY <1>1, FS_Subset, FS_CardinalityType DEF ServerOK

\* The server does nothing.
LEMMA ServerStays ==
  ASSUME ServerOK, UNCHANGED <<server, expired>>, doubtful \subseteq doubtful'
  PROVE  ServerOK' /\ TokensKept
  BY DEF ServerOK, server, TokensKept

\* The server closes sessions.
LEMMA ServerCloses ==
  ASSUME ServerOK, NEW S \in SUBSET opened, Server!Close(S),
         UNCHANGED <<family, expired, doubtful>>
  PROVE  ServerOK' /\ TokensKept
  <1>1. /\ used' = used /\ opened' = opened /\ closed' = closed \union S
        /\ live' = [f \in Family |-> IF f \in S THEN {} ELSE live[f]]
        /\ family' = family /\ expired' = expired /\ doubtful' = doubtful
    BY DEF Server!Close
  <1>2. live' \in [Family -> SUBSET used'] /\ \A f \in Family : live'[f] \subseteq live[f]
    BY <1>1 DEF ServerOK
  <1>3. ServerOK'
    BY <1>1, <1>2 DEF ServerOK
  <1>4. TokensKept
    BY <1>1, <1>2 DEF ServerOK, TokensKept
  <1>5. QED
    BY <1>3, <1>4

\* The server mints a pair.
LEMMA ServerMints ==
  ASSUME ServerOK, NEW f \in Family, NEW t, Server!Mint(f, t),
         family' = [family EXCEPT ![t] = f], UNCHANGED expired,
         opened' = opened \union {f}
  PROVE  /\ ServerOK' /\ t \in Token \ used /\ used' = used \union {t}
         /\ closed' = closed /\ family'[t] = f /\ live'[f] = {t}
         /\ \A u \in used : family'[u] = family[u]
         /\ \A g \in Family \ {f} : live'[g] = live[g]
  <1>1. /\ t \in Token \ used /\ used' = used \union {t} /\ closed' = closed
        /\ live' = [live EXCEPT ![f] = {t}]
    BY DEF Server!Mint
  <1>2. /\ live' \in [Family -> SUBSET used'] /\ live'[f] = {t}
        /\ \A g \in Family \ {f} : live'[g] = live[g]
    BY <1>1 DEF ServerOK
  <1>3. /\ family' \in [Token -> Family \union {None}] /\ family'[t] = f
        /\ \A u \in used : family'[u] = family[u]
    BY <1>1 DEF ServerOK
  <1>4. expired' \in 0 .. Cardinality(used')
    <2>1. Cardinality(used') = Cardinality(used) + 1 /\ Cardinality(used) \in Nat
      BY <1>1, UsedIsFinite, FS_AddElement
    <2>2. expired \in 0 .. Cardinality(used)
      BY DEF ServerOK
    <2>3. expired \in 0 .. Cardinality(used) + 1
      BY <2>1, <2>2
    <2>4. QED
      BY <2>1, <2>3
  <1>5. \A g \in Family : \A u, v \in live'[g] : u = v
    BY <1>2 DEF ServerOK
  <1>6. \A u \in used' : family'[u] \in opened'
    BY <1>1, <1>3 DEF ServerOK
  <1>7. ServerOK'
    BY <1>1, <1>2, <1>3, <1>4, <1>5, <1>6 DEF ServerOK
  <1>8. QED
    BY <1>1, <1>2, <1>3, <1>7

-----------------------------------------------------------------------------
(* Steps of the client that change no promise. *)

\* Of the history, only a refusal changes which sessions were replayed.
LEMMA HistoryKept ==
  ASSUME Typed, UNCHANGED replayed, closed \subseteq closed',
         doubtful \subseteq doubtful', doubtful' \subseteq opened', signedOut' \in BOOLEAN
  PROVE  HistoryOK'
  BY DEF Typed, HistoryOK, NoSelfReplay

LEMMA StoreStays ==
  ASSUME UNCHANGED <<store, promise>>
  PROVE  StoreKept
  BY DEF StoreKept, InFlight

\* One call changes, to something other than a login's answer, and the stored
\* pair stays or is cleared.
LEMMA OneCallKeeps ==
  ASSUME IInv, UNCHANGED <<server, expired, promise, replayed, doubtful>>,
         NEW c \in Call, NEW x, CallOK(x, used), call' = [call EXCEPT ![c] = x],
         ~(x.stage = "answered" /\ x.kind = "login"),
         store' \in {None, store}, signedOut' \in BOOLEAN
  PROVE  IInv'
  <1>1. ServerOK' /\ TokensKept
    BY ServerStays DEF IInv, Typed
  <1>2. used' = used /\ CallsOK' /\ CallsKept
    BY OneCallChanges, CallsKeptBut DEF IInv, Typed, server
  <1>3. PromisesOK' /\ PromisesKept
    BY <1>2, PromisesStay DEF IInv, Typed
  <1>4. StoreOK' /\ StoreKept
    BY <1>2 DEF IInv, Typed, StoreOK, StoreKept, InFlight
  <1>5. HistoryOK'
    BY <1>1, HistoryKept DEF IInv, Typed, TokensKept, HistoryOK, server
  <1>6. Custody'
    BY <1>1, <1>2, <1>3, <1>4, CustodyKept
  <1>7. QED
    BY <1>1, <1>2, <1>3, <1>4, <1>5, <1>6 DEF IInv, Typed

\* What the store and the calls are.
LEMMA ClientTyped ==
  ASSUME IInv
  PROVE  /\ used \subseteq Token /\ None \notin used /\ store \in used \union {None}
         /\ signedOut \in BOOLEAN
         /\ \A c \in Call : call[c] \in CallState /\ CallOK(call[c], used)
         /\ \A b \in Tab : promise[b] \in Promise /\ PromiseOK(promise[b], used)
  BY NoneIsNoToken DEF IInv, Typed, ServerOK, StoreOK, HistoryOK, CallsOK, PromisesOK,
     CallOK, PromiseOK

LEMMA SendKeeps ==
  ASSUME IInv, NEW c \in Call, NEW b \in Tab, NEW kind \in Kind, Send(c, b, kind)
  PROVE  IInv'
  <1> DEFINE x == [kind |-> kind, tab |-> b, stage |-> "sent",
                   access |-> IF kind = "login" THEN None ELSE store,
                   refresh |-> IF kind = "logout" THEN store ELSE None,
                   retried |-> FALSE]
  <1>1. CallOK(x, used) /\ x.stage = "sent"
    BY ClientTyped DEF CallOK, CallState
  <1>2. call' = [call EXCEPT ![c] = x]
    BY DEF Send
  <1>3. UNCHANGED <<server, expired, promise, replayed, doubtful>> /\ store' = store /\ signedOut' = signedOut
    BY DEF Send
  <1> HIDE DEF x
  <1>4. QED
    BY <1>1, <1>2, <1>3, OneCallKeeps, ClientTyped

LEMMA RaiseKeeps ==
  ASSUME IInv, NEW c \in Call, Raise(c)
  PROVE  IInv'
  <1>1. store' \in {None, store} /\ signedOut' \in BOOLEAN
    BY ClientTyped DEF Raise, StoreAfter, SignedOutAfter
  <1>2. QED
    BY <1>1, IdleOK, OneCallKeeps DEF Raise

LEMMA SucceedKeeps ==
  ASSUME IInv, NEW c \in Call, Succeed(c)
  PROVE  IInv'
  BY IdleOK, OneCallKeeps, ClientTyped DEF Succeed

LEMMA WaitingOK ==
  ASSUME IInv, NEW c \in Call, call[c].stage # "idle"
  PROVE  LET x == [call[c] EXCEPT !.stage = "waiting"] IN
         CallOK(x, used) /\ x.stage = "waiting"
  <1>1. call[c] \in CallState /\ CallOK(call[c], used)
    BY ClientTyped
  <1>2. QED
    BY <1>1 DEF CallOK, CallState

LEMMA JoinKeeps ==
  ASSUME IInv, NEW c \in Call, Join(c)
  PROVE  IInv'
  <1> DEFINE x == [call[c] EXCEPT !.stage = "waiting"]
  <1>1. CallOK(x, used) /\ x.stage = "waiting"
    BY WaitingOK DEF Join, Unauthorised
  <1>2. call' = [call EXCEPT ![c] = x]
    BY DEF Join
  <1> HIDE DEF x
  <1>3. QED
    BY <1>1, <1>2, OneCallKeeps, ClientTyped DEF Join

LEMMA ResentOK ==
  ASSUME IInv, NEW c \in Call, call[c].stage # "idle", NEW n \in used
  PROVE  CallOK(Resent(c, n), used) /\ Resent(c, n).stage = "sent"
  <1>1. call[c] \in CallState /\ CallOK(call[c], used) /\ n \in Token
    BY ClientTyped
  <1>2. QED
    BY <1>1 DEF CallOK, CallState, Resent

LEMMA ReuseKeeps ==
  ASSUME IInv, NEW c \in Call, Reuse(c)
  PROVE  IInv'
  <1>1. CASE Raise(c)
    BY <1>1, RaiseKeeps
  <1>2. CASE /\ call' = [call EXCEPT ![c] = Resent(c, store)]
             /\ UNCHANGED <<server, expired, store, promise, replayed, doubtful, signedOut>>
    <2>1. store \in used /\ call[c].stage # "idle"
      BY ClientTyped DEF Reuse, Unauthorised
    <2>2. CallOK(Resent(c, store), used) /\ Resent(c, store).stage = "sent"
      BY <2>1, ResentOK
    <2>3. QED
      BY <1>2, <2>2, OneCallKeeps, ClientTyped
  <1>3. QED
    BY <1>1, <1>2 DEF Reuse

LEMMA GiveUpKeeps ==
  ASSUME IInv, NEW c \in Call, Lose(c) \/ LoggedOut(c) \/ GiveUp(c)
  PROVE  IInv'
  BY RaiseKeeps DEF Lose, LoggedOut, GiveUp

LEMMA DismissKeeps ==
  ASSUME IInv, NEW c \in Call, Dismiss(c)
  PROVE  IInv'
  <1> DEFINE x == [call[c] EXCEPT !.stage = "answered"]
             S == IF call[c].refresh = None THEN opened ELSE {family[call[c].refresh]}
  <1>1. CallOK(x, used) /\ ~(x.stage = "answered" /\ x.kind = "login")
    <2>1. call[c] \in CallState /\ CallOK(call[c], used) /\ call[c].stage = "sent" /\ call[c].kind = "logout"
      BY ClientTyped DEF Dismiss
    <2>2. QED
      BY <2>1 DEF CallOK, CallState
  <1>2. S \in SUBSET opened
    <2>1. call[c].refresh \in used \union {None}
      BY ClientTyped DEF CallOK
    <2>2. QED
      BY <2>1 DEF IInv, Typed, ServerOK
  <1>3. /\ Server!Close(S) /\ call' = [call EXCEPT ![c] = x]
        /\ UNCHANGED <<family, expired, store, promise, replayed, doubtful, signedOut>>
    BY DEF Dismiss
  <1> HIDE DEF x, S
  <1>4. ServerOK' /\ TokensKept
    BY <1>2, <1>3, ServerCloses DEF IInv, Typed
  <1>5. used' = used
    BY <1>3 DEF Server!Close
  <1>6. CallsOK' /\ CallsKept
    BY <1>1, <1>3, <1>5, OneCallChanges, CallsKeptBut DEF IInv, Typed
  <1>7. PromisesOK' /\ PromisesKept
    BY <1>3, <1>5, PromisesStay DEF IInv, Typed
  <1>8. StoreOK' /\ StoreKept
    BY <1>3, <1>5, StoreStays DEF IInv, Typed, StoreOK
  <1>9. HistoryOK'
    <2>1. opened' = opened
      BY <1>3 DEF Server!Close
    <2>2. QED
      BY <1>3, <1>4, <2>1, HistoryKept DEF IInv, Typed, HistoryOK, TokensKept
  <1>10. QED
    BY <1>4, <1>6, <1>7, <1>8, <1>9, CustodyKept DEF IInv, Typed

LEMMA ExpireKeeps ==
  ASSUME IInv, Expire
  PROVE  IInv'
  <1>1. Cardinality(used) \in Nat
    BY UsedIsFinite DEF IInv, Typed
  <1>2. /\ expired \in 0 .. Cardinality(used) /\ expired < Cardinality(used) /\ expired' = expired + 1
        /\ UNCHANGED <<server, store, promise, call, replayed, doubtful, signedOut>>
    BY DEF Expire, IInv, Typed, ServerOK
  <1>3. expired' \in 0 .. Cardinality(used)
    BY <1>1, <1>2
  <1>4. ServerOK' /\ TokensKept
    BY <1>2, <1>3 DEF IInv, Typed, ServerOK, TokensKept, server
  <1>5. CallsOK' /\ CallsKept /\ PromisesOK' /\ PromisesKept
    BY <1>2, <1>4, CallsStay, PromisesStay DEF IInv, Typed, TokensKept
  <1>6. StoreOK' /\ StoreKept
    BY <1>2, StoreStays DEF IInv, Typed, StoreOK, server
  <1>7. HistoryOK'
    BY <1>2, <1>4, HistoryKept DEF IInv, Typed, HistoryOK, TokensKept, server
  <1>8. QED
    BY <1>4, <1>5, <1>6, <1>7, CustodyKept DEF IInv, Typed

-----------------------------------------------------------------------------
(* A login. *)

LEMMA AdmitKeeps ==
  ASSUME IInv, NEW c \in Call, Admit(c)
  PROVE  IInv'
  <1>0. PICK t \in {Fresh} : /\ Server!Open(t, t)
                             /\ family' = [family EXCEPT ![t] = t]
                             /\ call' = [call EXCEPT ![c].stage = "answered", ![c].access = t]
    BY DEF Admit
  <1> DEFINE x == [call[c] EXCEPT !.stage = "answered", !.access = t]
  <1>1. /\ t \in Family \ opened /\ opened' = opened \union {t} /\ Server!Mint(t, t)
        /\ UNCHANGED <<expired, store, promise, replayed, doubtful, signedOut>>
    BY <1>0 DEF Admit, Server!Open
  <1>2. /\ ServerOK' /\ t \in Token \ used /\ used' = used \union {t}
        /\ closed' = closed /\ family'[t] = t /\ live'[t] = {t}
        /\ \A u \in used : family'[u] = family[u]
        /\ \A g \in Family \ {t} : live'[g] = live[g]
    BY <1>0, <1>1, ServerMints DEF IInv, Typed
  <1>3. TokensKept
    <2>1. \A u \in used : family[u] \in Family \ {t}
      BY <1>1 DEF IInv, Typed, ServerOK
    <2>2. QED
      BY <1>1, <1>2, <2>1 DEF TokensKept
  <1>4. CallOK(x, used') /\ x.stage = "answered" /\ x.access = t /\ x.kind = "login"
    <2>1. call[c] \in CallState /\ CallOK(call[c], used) /\ call[c].stage = "sent" /\ call[c].kind = "login"
      BY ClientTyped DEF Admit
    <2>2. QED
      BY <1>2, <2>1 DEF CallOK, CallState
  <1>5. call' = [call EXCEPT ![c] = x]
    <2>1. call \in [Call -> CallState]
      BY DEF IInv, Typed, CallsOK
    <2>2. QED
      BY <1>0, <2>1
  <1> HIDE DEF x
  <1>6. CallsOK'
    BY <1>2, <1>4, <1>5, OneCallChanges DEF IInv, Typed
  <1>7. PromisesOK' /\ PromisesKept
    BY <1>1, <1>2, PromisesStay DEF IInv, Typed
  <1>8. StoreOK' /\ StoreKept
    BY <1>1, <1>2, StoreStays DEF IInv, Typed, StoreOK
  <1>9. HistoryOK'
    BY <1>1, <1>2, HistoryKept DEF IInv, Typed, HistoryOK
  <1>10. Custody'
    <2>0. /\ Arriving(c)' /\ call'[c].access = t
          /\ \A d \in Call \ {c} : call'[d] = call[d]
      BY <1>4, <1>5 DEF IInv, Typed, CallsOK, Arriving
    <2>1. Fit(t)'
      <3>1. t # store /\ \A b \in Tab : InFlight(b) => promise[b].token # t
        <4>1. t \notin used /\ t # None
          BY <1>2, NoneIsNoToken
        <4>2. QED
          BY <4>1, TokensAreUsed
      <3>2. ~InHand(t)'
        BY <1>1, <3>1 DEF InHand, InFlight
      <3>3. Sound(t)'
        BY <1>2 DEF Sound, Usable
      <3>4. QED
        BY <3>2, <3>3 DEF Fit
    <2>2. /\ StoredTokenIsUsable' /\ SentIsSound' /\ SharedIsDoubtful'
          /\ \A u \in used : Fit(u) => Fit(u)'
          /\ \A b \in Tab : Minted(b)' => Fit(promise[b].answer)'
      BY <1>3, <1>7, <1>8, HandsKept
    <2>3. ASSUME NEW d \in Call, Arriving(d)' PROVE Fit(call[d].access)'
      <3>1. CASE d = c
        BY <2>0, <2>1, <3>1 DEF Fit, Sound, Usable, Doomed, InHand
      <3>2. CASE d # c
        <4>1. call'[d] = call[d] /\ Arriving(d)
          BY <2>0, <2>3, <3>2 DEF Arriving
        <4>2. Fit(call[d].access) /\ call[d].access \in used
          BY <4>1, TokensAreUsed DEF IInv, Custody, OnTheWay
        <4>3. QED
          BY <2>2, <4>1, <4>2 DEF Fit, Sound, Usable, Doomed, InHand
      <3>3. QED
        BY <3>1, <3>2
    <2>4. OneCopy'
      <3>1. \A d \in Call \ {c} : Arriving(d)' => Arriving(d) /\ call'[d].access = call[d].access /\ call[d].access # t
        BY <1>2, <2>0, TokensAreUsed DEF Arriving
      <3>2. \A b \in Tab : Minted(b)' => Minted(b) /\ promise'[b].answer = promise[b].answer /\ promise[b].answer # t
        BY <1>2, <1>7, TokensAreUsed DEF PromisesKept
      <3>3. QED
        BY <2>0, <3>1, <3>2 DEF OneCopy, IInv, Custody
    <2>5. QED
      BY <2>2, <2>3, <2>4 DEF Custody, OnTheWay
  <1>11. QED
    BY <1>2, <1>6, <1>7, <1>8, <1>9, <1>10 DEF IInv, Typed

\* The answer of a login is stored: it was nowhere else.
LEMMA LoggedInKeeps ==
  ASSUME IInv, NEW c \in Call, LoggedIn(c)
  PROVE  IInv'
  <1>1. /\ Arriving(c) /\ store' = call[c].access /\ call' = [call EXCEPT ![c] = Idle]
        /\ UNCHANGED <<server, expired, promise, replayed, doubtful>> /\ signedOut' = FALSE
    BY DEF LoggedIn, Arriving
  <1>2. /\ call[c].access \in used /\ Fit(call[c].access) /\ used' = used
        /\ closed' = closed /\ live' = live /\ family' = family /\ opened' = opened
    BY <1>1, TokensAreUsed DEF IInv, Custody, OnTheWay, server
  <1>3. ServerOK' /\ TokensKept
    BY <1>1, ServerStays DEF IInv, Typed
  <1>4. CallsOK'
    BY <1>1, <1>2, IdleOK, OneCallChanges DEF IInv, Typed
  <1>5. PromisesOK' /\ StoreOK'
    BY <1>1, <1>2, PromisesStay DEF IInv, Typed, StoreOK
  <1>6. HistoryOK'
    BY <1>1, <1>2, HistoryKept DEF IInv, Typed, HistoryOK
  <1>7. \A d \in Call : Arriving(d)' => d # c /\ Arriving(d) /\ call'[d] = call[d]
    BY <1>1, IdleOK DEF IInv, Typed, CallsOK, Arriving
  <1>8. /\ \A b \in Tab : (InFlight(b)' <=> InFlight(b)) /\ (Minted(b)' <=> Minted(b))
        /\ \A t : Sound(t)' <=> Sound(t)
    BY <1>1, <1>2 DEF InFlight, Minted, Sound, Usable, Doomed
  <1>9. \A t \in used : Fit(t) /\ t # store' => Fit(t)'
    BY <1>1, <1>8 DEF Fit, InHand
  <1>10. StoredTokenIsUsable' /\ SentIsSound' /\ SharedIsDoubtful'
    <2>1. StoredTokenIsUsable'
      BY <1>1, <1>2 DEF StoredTokenIsUsable, Fit, Sound, Usable, Doomed
    <2>2. SentIsSound'
      BY <1>1, <1>2 DEF IInv, Custody, SentIsSound, Sound, Usable, Doomed
    <2>3. SharedIsDoubtful'
      BY <1>1, <1>2, <1>8 DEF IInv, Custody, SharedIsDoubtful
    <2>4. QED
      BY <2>1, <2>2, <2>3
  <1>11. OnTheWay'
    <2>1. ASSUME NEW d \in Call, Arriving(d)' PROVE Fit(call[d].access)'
      <3>1. /\ d # c /\ Arriving(d) /\ call'[d] = call[d]
            /\ call[d].access \in used /\ Fit(call[d].access) /\ call[d].access # store'
        BY <1>1, <1>7, <2>1, TokensAreUsed DEF IInv, Custody, OnTheWay, OneCopy
      <3>2. QED
        BY <1>9, <3>1 DEF Fit, Sound, Usable, Doomed, InHand
    <2>2. ASSUME NEW b \in Tab, Minted(b)' PROVE Fit(promise[b].answer)'
      <3>1. /\ Minted(b) /\ promise'[b] = promise[b]
            /\ promise[b].answer \in used /\ Fit(promise[b].answer) /\ promise[b].answer # store'
        BY <1>1, <1>8, <2>2, TokensAreUsed DEF IInv, Custody, OnTheWay, OneCopy
      <3>2. QED
        BY <1>9, <3>1 DEF Fit, Sound, Usable, Doomed, InHand
    <2>3. QED
      BY <2>1, <2>2 DEF OnTheWay
  <1>12. OneCopy'
    BY <1>1, <1>7, <1>8 DEF IInv, Custody, OneCopy
  <1>13. QED
    BY <1>3, <1>4, <1>5, <1>6, <1>10, <1>11, <1>12 DEF IInv, Typed, Custody

-----------------------------------------------------------------------------
(* Refresh. *)

LEMMA WakeKeeps ==
  ASSUME IInv, NEW b \in Tab, NEW n \in used \union {None}, Wake(b, n), used' = used
  PROVE  CallsOK' /\ CallsKept
  <1>1. ASSUME NEW c \in Call
        PROVE  CallOK(call'[c], used) /\ (Arriving(c)' => Arriving(c) /\ call'[c].access = call[c].access)
    <2>1. CASE c \notin Waiting(b)
      BY <2>1, ClientTyped DEF Wake, Arriving
    <2>2. CASE c \in Waiting(b) /\ n = None
      BY <2>2, IdleOK DEF Wake, Arriving
    <2>3. CASE c \in Waiting(b) /\ n # None
      <3>1. CallOK(Resent(c, n), used) /\ Resent(c, n).stage = "sent" /\ call'[c] = Resent(c, n)
        BY <2>3, ResentOK DEF Wake, Waiting
      <3>2. QED
        BY <3>1 DEF Arriving
    <2>4. QED
      BY <2>1, <2>2, <2>3
  <1>2. call' \in [Call -> CallState]
    <2>1. DOMAIN call' = Call /\ call' = [c \in Call |-> call'[c]]
      BY DEF Wake
    <2>2. \A c \in Call : call'[c] \in CallState
      BY <1>1 DEF CallOK
    <2>3. QED
      BY <2>1, <2>2
  <1>3. QED
    BY <1>1, <1>2 DEF CallsOK, CallsKept

\* The promise of one tab changes, no token is sent or answered, and if the
\* stored one leaves its hands its session is doubtful.
LEMMA OnePromiseKeeps ==
  ASSUME IInv, UNCHANGED <<server, expired, replayed>>,
         doubtful \subseteq doubtful', doubtful' \subseteq opened, signedOut' \in BOOLEAN,
         NEW b \in Tab, NEW p, PromiseOK(p, used), promise' = [promise EXCEPT ![b] = p],
         p.stage # "sent",
         p.stage = "answered" => /\ p.answer = None
                                 /\ InFlight(b) /\ p.token = promise[b].token,
         CallsOK', CallsKept, store' \in {None, store},
         store' # None /\ InFlight(b) /\ promise[b].token = store
           => p.stage = "answered" \/ family[store] \in doubtful'
  PROVE  IInv'
  <1>1. ServerOK' /\ TokensKept
    BY ServerStays DEF IInv, Typed
  <1>2. used' = used /\ opened' = opened /\ closed' = closed
    BY DEF server
  <1>3. PromisesOK'
    BY <1>2, OnePromiseChanges DEF IInv, Typed
  <1>4. promise'[b] = p /\ \A o \in Tab \ {b} : promise'[o] = promise[o]
    BY DEF IInv, Typed, PromisesOK
  <1>5. PromisesKept
    BY <1>4 DEF PromisesKept, InFlight, Minted
  <1>6. StoreOK' /\ StoreKept
    BY <1>2, <1>4 DEF IInv, Typed, StoreOK, StoreKept, InFlight
  <1>7. HistoryOK'
    BY <1>2, HistoryKept DEF IInv, Typed
  <1>8. Custody'
    BY <1>1, <1>5, <1>6, CustodyKept
  <1>9. QED
    BY <1>1, <1>3, <1>6, <1>7, <1>8 DEF IInv, Typed

LEMMA FailKeeps ==
  ASSUME IInv, NEW b \in Tab, Fail(b)
  PROVE  IInv'
  <1> DEFINE p == [promise[b] EXCEPT !.stage = "answered"]
  <1>1. promise[b] \in Promise /\ PromiseOK(promise[b], used) /\ promise[b].stage = "sent"
    BY ClientTyped DEF Fail
  <1>2. /\ PromiseOK(p, used) /\ p.stage = "answered" /\ p.answer = None
        /\ InFlight(b) /\ p.token = promise[b].token
    BY <1>1 DEF PromiseOK, Promise, InFlight
  <1>3. promise' = [promise EXCEPT ![b] = p]
    BY DEF Fail
  <1> HIDE DEF p
  <1>4. UNCHANGED <<server, expired, store, call, replayed, doubtful, signedOut>>
    BY DEF Fail
  <1>5. CallsOK' /\ CallsKept
    BY <1>4, CallsStay DEF IInv, Typed, server
  <1>6. doubtful \subseteq opened /\ signedOut \in BOOLEAN
    BY DEF IInv, Typed, HistoryOK
  <1>7. QED
    BY <1>2, <1>3, <1>4, <1>5, <1>6, OnePromiseKeeps

LEMMA ForgetKeeps ==
  ASSUME IInv, NEW b \in Tab, Forget(b)
  PROVE  IInv'
  <1>1. /\ UNCHANGED <<server, expired, store, call, replayed, doubtful, signedOut>>
        /\ promise' = [promise EXCEPT ![b] = NoPromise] /\ ~InFlight(b)
    BY DEF Forget, InFlight
  <1>2. CallsOK' /\ CallsKept
    BY <1>1, CallsStay DEF IInv, Typed, server
  <1>3. doubtful \subseteq opened /\ signedOut \in BOOLEAN
    BY DEF IInv, Typed, HistoryOK
  <1>4. PromiseOK(NoPromise, used) /\ NoPromise.stage = "none"
    BY IdleOK
  <1>5. QED
    BY <1>1, <1>2, <1>3, <1>4, OnePromiseKeeps

\* A refresh that has settled.
LEMMA SettledOK ==
  ASSUME IInv, NEW b \in Tab, NEW p,
         \/ p = [promise[b] EXCEPT !.stage = "settled"]
         \/ p = [promise[b] EXCEPT !.stage = "settled", !.answer = None]
  PROVE  PromiseOK(p, used) /\ p.stage = "settled"
  <1>1. promise[b] \in Promise /\ PromiseOK(promise[b], used)
    BY ClientTyped
  <1>2. QED
    BY <1>1 DEF PromiseOK, Promise

LEMMA RefusedKeeps ==
  ASSUME IInv, NEW b \in Tab, Refused(b)
  PROVE  IInv'
  <1> DEFINE p == [promise[b] EXCEPT !.stage = "settled"]
  <1>1. /\ UNCHANGED <<server, expired, replayed, doubtful>> /\ store' = None /\ Wake(b, None)
        /\ promise' = [promise EXCEPT ![b] = p] /\ signedOut' = SignedOutAfter(Waiting(b))
    BY DEF Refused
  <1>2. PromiseOK(p, used) /\ p.stage = "settled"
    BY SettledOK
  <1> HIDE DEF p
  <1>3. CallsOK' /\ CallsKept
    BY <1>1, WakeKeeps DEF server
  <1>4. doubtful \subseteq opened /\ signedOut' \in BOOLEAN
    BY <1>1 DEF IInv, Typed, HistoryOK, SignedOutAfter
  <1>5. QED
    BY <1>1, <1>2, <1>3, <1>4, OnePromiseKeeps

LEMMA LoseRefreshKeeps ==
  ASSUME IInv, NEW b \in Tab, LoseRefresh(b)
  PROVE  IInv'
  <1> DEFINE p == [promise[b] EXCEPT !.stage = "settled", !.answer = None]
  <1>1. /\ UNCHANGED <<server, expired, replayed>> /\ InFlight(b) /\ Wake(b, None)
        /\ store' = StoreAfter(store, Waiting(b)) /\ signedOut' = SignedOutAfter(Waiting(b))
        /\ doubtful' = doubtful \union {family[promise[b].token]}
    BY DEF LoseRefresh
  <1>2. promise' = [promise EXCEPT ![b] = p]
    <2>1. promise \in [Tab -> Promise]
      BY DEF IInv, Typed, PromisesOK
    <2>2. QED
      BY <2>1 DEF LoseRefresh
  <1>3. PromiseOK(p, used) /\ p.stage = "settled"
    BY SettledOK
  <1> HIDE DEF p
  <1>4. CallsOK' /\ CallsKept
    BY <1>1, WakeKeeps DEF server
  <1>5. doubtful' \subseteq opened /\ signedOut' \in BOOLEAN /\ store' \in {None, store}
    BY <1>1, TokensAreUsed DEF IInv, Typed, ServerOK, HistoryOK, SignedOutAfter, StoreAfter
  <1>6. store' # None /\ promise[b].token = store => family[store] \in doubtful'
    BY <1>1
  <1>7. QED
    BY <1>1, <1>2, <1>3, <1>4, <1>5, <1>6, OnePromiseKeeps

\* The server closes the session of a spent token.  By SentIsSound it had been
\* closed, or is doubtful.
LEMMA RefuseKeeps ==
  ASSUME IInv, NEW b \in Tab, Refuse(b)
  PROVE  IInv'
  <1> DEFINE t == promise[b].token
             p == [promise[b] EXCEPT !.stage = "answered"]
  <1>1. promise[b] \in Promise /\ PromiseOK(promise[b], used) /\ promise[b].stage = "sent"
    BY ClientTyped DEF Refuse
  <1>2. /\ PromiseOK(p, used) /\ p.stage = "answered" /\ p.answer = None
        /\ InFlight(b) /\ p.token = t /\ t \in used
    BY <1>1 DEF PromiseOK, Promise, InFlight
  <1>3. /\ promise' = [promise EXCEPT ![b] = p] /\ Server!Close({family[t]})
        /\ t \notin live[family[t]]
        /\ replayed' = IF family[t] \in closed THEN replayed ELSE replayed \union {family[t]}
        /\ UNCHANGED <<family, expired, store, call, doubtful, signedOut>>
    BY DEF Refuse
  <1>4. Sound(t) /\ family[t] \in opened
    BY <1>1, <1>2 DEF IInv, Typed, ServerOK, Custody, SentIsSound
  <1> HIDE DEF p, t
  <1>5. ServerOK' /\ TokensKept
    BY <1>3, <1>4, ServerCloses DEF IInv, Typed
  <1>6. used' = used /\ opened' = opened /\ closed' = closed \union {family[t]}
    BY <1>3 DEF Server!Close
  <1>7. CallsOK' /\ CallsKept
    BY <1>3, <1>6, CallsStay DEF IInv, Typed
  <1>8. PromisesOK'
    BY <1>2, <1>3, <1>6, OnePromiseChanges DEF IInv, Typed
  <1>9. promise'[b] = p /\ \A o \in Tab \ {b} : promise'[o] = promise[o]
    BY <1>3 DEF IInv, Typed, PromisesOK
  <1>10. PromisesKept
    BY <1>2, <1>9 DEF PromisesKept, InFlight, Minted, t
  <1>11. StoreOK' /\ StoreKept
    BY <1>2, <1>3, <1>6, <1>9 DEF IInv, Typed, StoreOK, StoreKept, InFlight
  <1>12. HistoryOK'
    <2>1. replayed' \subseteq replayed \union {family[t]}
      BY <1>3
    <2>2. replayed' \subseteq closed'
      BY <1>6, <2>1 DEF IInv, Typed, HistoryOK
    <2>3. replayed' \subseteq doubtful
      BY <1>3, <1>4 DEF IInv, Typed, HistoryOK, NoSelfReplay, Sound, Usable, Doomed
    <2>4. QED
      BY <1>3, <1>6, <2>2, <2>3 DEF IInv, Typed, HistoryOK, NoSelfReplay
  <1>13. Custody'
    BY <1>5, <1>7, <1>10, <1>11, CustodyKept
  <1>14. QED
    BY <1>5, <1>7, <1>8, <1>11, <1>12, <1>13 DEF IInv, Typed

\* The answer of a refresh is stored: it was nowhere else.
LEMMA RefreshedKeeps ==
  ASSUME IInv, NEW b \in Tab, Refreshed(b)
  PROVE  IInv'
  <1> DEFINE n == promise[b].answer
             p == [promise[b] EXCEPT !.stage = "settled"]
  <1>1. /\ Minted(b) /\ promise' = [promise EXCEPT ![b] = p] /\ store' = n /\ Wake(b, n)
        /\ UNCHANGED <<server, expired, replayed, doubtful, signedOut>>
    BY DEF Refreshed, Minted, Wake
  <1>2. PromiseOK(p, used) /\ p.stage = "settled"
    BY SettledOK
  <1>3. n \in used /\ Fit(n)
    BY <1>1, TokensAreUsed DEF IInv, Custody, OnTheWay
  <1> HIDE DEF p
  <1>4. used' = used /\ closed' = closed /\ live' = live /\ family' = family /\ opened' = opened
    BY <1>1 DEF server
  <1>5. ServerOK' /\ TokensKept
    BY <1>1, ServerStays DEF IInv, Typed
  <1>6. CallsOK' /\ CallsKept
    BY <1>1, <1>3, <1>4, WakeKeeps
  <1>7. PromisesOK' /\ StoreOK'
    BY <1>1, <1>2, <1>3, <1>4, OnePromiseChanges DEF IInv, Typed, StoreOK
  <1>8. HistoryOK'
    BY <1>1, <1>4, HistoryKept DEF IInv, Typed, HistoryOK
  <1>9. promise'[b] = p /\ \A o \in Tab \ {b} : promise'[o] = promise[o]
    BY <1>1 DEF IInv, Typed, PromisesOK
  <1>10. /\ \A o \in Tab : InFlight(o)' \/ Minted(o)' \/ promise'[o].stage = "sent"
                             => o # b /\ promise'[o] = promise[o]
         /\ \A t : Sound(t)' <=> Sound(t)
    BY <1>1, <1>2, <1>4, <1>9 DEF InFlight, Minted, Sound, Usable, Doomed
  <1>11. \A t \in used : Fit(t) /\ t # store' => Fit(t)'
    BY <1>10 DEF Fit, InHand, InFlight
  <1>12. StoredTokenIsUsable'
    BY <1>1, <1>3, <1>4 DEF StoredTokenIsUsable, Fit, Sound, Usable, Doomed
  <1>13. SentIsSound' /\ SharedIsDoubtful'
    <2>1. SentIsSound'
      BY <1>1, <1>4, <1>10 DEF IInv, Custody, SentIsSound, Sound, Usable, Doomed
    <2>2. SharedIsDoubtful'
      BY <1>1, <1>4, <1>10 DEF IInv, Custody, SharedIsDoubtful, InFlight
    <2>3. QED
      BY <2>1, <2>2
  <1>14. OnTheWay'
    <2>1. ASSUME NEW c \in Call, Arriving(c)' PROVE Fit(call[c].access)'
      <3>1. /\ Arriving(c) /\ call'[c].access = call[c].access
            /\ call[c].access \in used /\ Fit(call[c].access) /\ call[c].access # store'
        BY <1>1, <1>6, <2>1, TokensAreUsed DEF CallsKept, IInv, Custody, OnTheWay, OneCopy
      <3>2. QED
        BY <1>11, <3>1 DEF Fit, Sound, Usable, Doomed, InHand
    <2>2. ASSUME NEW o \in Tab, Minted(o)' PROVE Fit(promise[o].answer)'
      <3>0. o # b /\ promise'[o] = promise[o] /\ Minted(o)
        BY <1>10, <2>2 DEF Minted
      <3>1. promise[o].answer \in used /\ Fit(promise[o].answer) /\ promise[o].answer # store'
        BY <1>1, <3>0, TokensAreUsed DEF IInv, Custody, OnTheWay, OneCopy
      <3>2. QED
        BY <1>11, <3>0, <3>1 DEF Fit, Sound, Usable, Doomed, InHand
    <2>3. QED
      BY <2>1, <2>2 DEF OnTheWay
  <1>15. OneCopy'
    <2>1. \A o \in Tab : Minted(o)' => Minted(o) /\ promise'[o].answer = promise[o].answer
      BY <1>10 DEF Minted
    <2>2. QED
      BY <1>6, <2>1 DEF IInv, Custody, OneCopy, CallsKept
  <1>16. QED
    BY <1>5, <1>6, <1>7, <1>8, <1>12, <1>13, <1>14, <1>15 DEF IInv, Typed, Custody

\* The stored token is sent.  If it was not sound another tab had sent it, and
\* now its session is doubtful.
LEMMA RefreshKeeps ==
  ASSUME IInv, NEW c \in Call, Refresh(c)
  PROVE  IInv'
  <1> DEFINE b == call[c].tab
             x == [call[c] EXCEPT !.stage = "waiting"]
             p == [stage |-> "sent", token |-> store, answer |-> None]
  <1>0. call[c].stage = "sent" /\ b \in Tab /\ store \in used
    BY ClientTyped DEF Refresh, Unauthorised, CallOK
  <1>1. /\ promise[b].stage = "none"
        /\ promise' = [promise EXCEPT ![b] = p] /\ call' = [call EXCEPT ![c] = x]
        /\ doubtful' = IF \E o \in Tab \ {b} : InFlight(o) /\ promise[o].token = store
                       THEN doubtful \union {family[store]} ELSE doubtful
        /\ UNCHANGED <<server, expired, store, replayed, signedOut>>
    BY DEF Refresh, MayRefresh
  <1>2. CallOK(x, used) /\ x.stage = "waiting"
    BY <1>0, WaitingOK
  <1>3. PromiseOK(p, used) /\ p.stage = "sent" /\ p.token = store
    BY <1>0, ClientTyped DEF PromiseOK, Promise
  <1> HIDE DEF x, p
  <1>4. used' = used /\ closed' = closed /\ live' = live /\ family' = family /\ opened' = opened
    BY <1>1 DEF server
  <1>5. doubtful \subseteq doubtful' /\ doubtful' \subseteq opened
    BY <1>0, <1>1 DEF IInv, Typed, ServerOK, HistoryOK
  <1> HIDE DEF b
  <1>6. ServerOK' /\ TokensKept
    BY <1>1, <1>5, ServerStays DEF IInv, Typed
  <1>7. CallsOK' /\ CallsKept
    BY <1>1, <1>2, <1>4, OneCallChanges, CallsKeptBut DEF IInv, Typed
  <1>8. PromisesOK' /\ StoreOK'
    BY <1>0, <1>1, <1>3, <1>4, OnePromiseChanges DEF IInv, Typed, StoreOK
  <1>9. HistoryOK'
    BY <1>1, <1>4, <1>5, HistoryKept DEF IInv, Typed, HistoryOK
  <1>10. promise'[b] = p /\ \A o \in Tab \ {b} : promise'[o] = promise[o]
    BY <1>0, <1>1 DEF IInv, Typed, PromisesOK
  <1>11. \A o \in Tab \ {b} : InFlight(o) /\ promise[o].token = store => family[store] \in doubtful'
    BY <1>1
  <1>12. \A t \in used : Sound(t) => Sound(t)'
    BY <1>6, SoundKept DEF IInv, Typed
  <1>13. StoredTokenIsUsable'
    BY <1>0, <1>1, <1>3, <1>10 DEF StoredTokenIsUsable, InFlight
  <1>14. SentIsSound'
    <2>1. Sound(store)'
      <3>1. Sound(store) \/ \E o \in Tab : InFlight(o) /\ promise[o].token = store
        BY <1>0, TokensAreUsed DEF IInv, Custody, StoredTokenIsUsable, Sound, Usable, Doomed
      <3>2. ~InFlight(b)
        BY <1>1 DEF InFlight
      <3>3. Sound(store) \/ family[store] \in doubtful'
        BY <1>11, <3>1, <3>2
      <3>4. QED
        BY <1>0, <1>1, <1>4, <1>12, <3>3 DEF Sound, Usable, Doomed
    <2>2. ASSUME NEW o \in Tab, promise'[o].stage = "sent" PROVE Sound(promise[o].token)'
      <3>1. CASE o = b
        BY <1>1, <1>3, <1>10, <2>1, <3>1 DEF Sound, Usable, Doomed
      <3>2. CASE o # b
        <4>1. promise'[o] = promise[o] /\ promise[o].token \in used /\ Sound(promise[o].token)
          BY <1>10, <2>2, <3>2, TokensAreUsed DEF IInv, Custody, SentIsSound, InFlight
        <4>2. QED
          BY <1>12, <4>1 DEF Sound, Usable, Doomed
      <3>3. QED
        BY <3>1, <3>2
    <2>3. QED
      BY <2>2 DEF SentIsSound
  <1>15. SharedIsDoubtful'
    <2> SUFFICES ASSUME NEW o \in Tab, NEW q \in Tab, o # q, InFlight(o)', InFlight(q)',
                        promise'[o].token = promise'[q].token
                 PROVE  family'[promise'[o].token] \in doubtful'
      BY DEF SharedIsDoubtful
    <2>1. CASE o # b /\ q # b
      BY <1>4, <1>5, <1>10, <2>1 DEF IInv, Custody, SharedIsDoubtful, InFlight
    <2>2. CASE o = b \/ q = b
      BY <1>3, <1>4, <1>10, <1>11, <2>2 DEF InFlight
    <2>3. QED
      BY <2>1, <2>2
  <1>16. \A t \in used : Fit(t) => Fit(t)'
    <2>1. \A t : InHand(t)' => InHand(t)
      BY <1>1, <1>3, <1>10 DEF InHand, InFlight
    <2>2. QED
      BY <1>12, <2>1 DEF Fit
  <1>17. \A o \in Tab : Minted(o)' => Minted(o) /\ promise'[o].answer = promise[o].answer
    BY <1>3, <1>10 DEF Minted
  <1>18. OnTheWay'
    <2>1. ASSUME NEW d \in Call, Arriving(d)' PROVE Fit(call[d].access)'
      <3>1. call'[d].access = call[d].access /\ call[d].access \in used /\ Fit(call[d].access)
        BY <1>7, <2>1, TokensAreUsed DEF CallsKept, IInv, Custody, OnTheWay
      <3>2. QED
        BY <1>16, <3>1 DEF Fit, Sound, Usable, Doomed, InHand
    <2>2. ASSUME NEW o \in Tab, Minted(o)' PROVE Fit(promise[o].answer)'
      <3>1. promise'[o].answer = promise[o].answer /\ promise[o].answer \in used /\ Fit(promise[o].answer)
        BY <1>17, <2>2, TokensAreUsed DEF IInv, Custody, OnTheWay
      <3>2. QED
        BY <1>16, <3>1 DEF Fit, Sound, Usable, Doomed, InHand
    <2>3. QED
      BY <2>1, <2>2 DEF OnTheWay
  <1>19. OneCopy'
    BY <1>7, <1>17 DEF IInv, Custody, OneCopy, CallsKept
  <1>20. QED
    BY <1>6, <1>7, <1>8, <1>9, <1>13, <1>14, <1>15, <1>18, <1>19 DEF IInv, Typed, Custody

\* The server exchanges the token of one tab.  Who else has sent it is doubtful,
\* and no token on its way is spent by it.
LEMMA RotateKeeps ==
  ASSUME IInv, NEW b \in Tab, Rotate(b)
  PROVE  IInv'
  <1> DEFINE t == promise[b].token
             f == family[t]
  <1>0. promise[b].stage = "sent" /\ t \in live[f] /\ InFlight(b) /\ t \in used /\ f \in opened /\ f \in Family
    BY TokensAreUsed DEF Rotate, InFlight, IInv, Typed, ServerOK
  <1>1. PICK n \in {Fresh} :
          /\ Server!Rotate(f, n) /\ family' = [family EXCEPT ![n] = f]
          /\ promise' = [promise EXCEPT ![b].stage = "answered", ![b].answer = n]
    BY DEF Rotate
  <1>2. UNCHANGED <<expired, store, call, replayed, doubtful, signedOut>>
    BY DEF Rotate
  <1> DEFINE p == [promise[b] EXCEPT !.stage = "answered", !.answer = n]
  <1>3. promise' = [promise EXCEPT ![b] = p]
    <2>1. promise \in [Tab -> Promise]
      BY DEF IInv, Typed, PromisesOK
    <2>2. QED
      BY <1>1, <2>1
  <1>4. /\ ServerOK' /\ n \in Token \ used /\ used' = used \union {n}
        /\ closed' = closed /\ family'[n] = f /\ live'[f] = {n}
        /\ \A u \in used : family'[u] = family[u]
        /\ \A g \in Family \ {f} : live'[g] = live[g]
    <2>1. opened' = opened /\ Server!Mint(f, n)
      BY <1>1 DEF Server!Rotate
    <2>2. opened' = opened \union {f}
      BY <1>0, <2>1
    <2>3. QED
      BY <1>0, <1>1, <1>2, <2>1, <2>2, ServerMints DEF IInv, Typed
  <1>5. opened' = opened
    BY <1>1 DEF Server!Rotate
  <1>6. PromiseOK(p, used') /\ p.stage = "answered" /\ p.answer = n /\ p.token = t
    <2>1. promise[b] \in Promise /\ PromiseOK(promise[b], used)
      BY ClientTyped
    <2>2. QED
      BY <1>0, <1>4, <2>1 DEF PromiseOK, Promise
  <1> HIDE DEF p
  <1>7. promise'[b] = p /\ \A o \in Tab \ {b} : promise'[o] = promise[o]
    BY <1>3 DEF IInv, Typed, PromisesOK
  <1>8. \A o \in Tab : /\ InFlight(o)' <=> InFlight(o)
                       /\ InFlight(o) => promise'[o].token = promise[o].token
    BY <1>0, <1>6, <1>7 DEF InFlight
  <1> HIDE DEF t, f
  <1>9. PromisesOK' /\ CallsOK' /\ CallsKept
    BY <1>2, <1>3, <1>4, <1>6, OnePromiseChanges, CallsStay DEF IInv, Typed
  <1>10. StoreOK' /\ HistoryOK'
    BY <1>2, <1>4, <1>5, HistoryKept DEF IInv, Typed, StoreOK, HistoryOK
  <1>11. \A u \in used : Sound(u) /\ u # t => Sound(u)'
    <2>1. \A u \in live[f] : u = t
      BY <1>0 DEF IInv, Typed, ServerOK
    <2>2. \A u \in used : family[u] \in Family
      BY DEF IInv, Typed, ServerOK
    <2>3. QED
      BY <1>2, <1>4, <2>1, <2>2 DEF Sound, Usable, Doomed
  <1>12. \A u : InHand(u)' => InHand(u)
    BY <1>2, <1>8 DEF InHand
  <1>13. \A u \in used : Fit(u) => Fit(u)'
    <2>1. InHand(t)
      BY <1>0 DEF InHand, t
    <2>2. QED
      BY <1>11, <1>12, <2>1 DEF Fit
  <1>14. Fit(n)'
    <2>1. Sound(n)'
      BY <1>4 DEF Sound, Usable
    <2>2. ~InHand(n)
      <3>1. n \notin used /\ n # None
        BY <1>4, NoneIsNoToken
      <3>2. QED
        BY <3>1, TokensAreUsed DEF InHand
    <2>3. QED
      BY <1>12, <2>1, <2>2 DEF Fit
  <1>15. StoredTokenIsUsable'
    <2> SUFFICES ASSUME store # None
                 PROVE  Sound(store)' \/ \E o \in Tab : InFlight(o)' /\ promise'[o].token = store
      BY <1>2 DEF StoredTokenIsUsable, Sound, Usable, Doomed
    <2>1. store \in used
      BY TokensAreUsed
    <2>2. CASE store = t
      BY <1>0, <1>8, <2>2 DEF t
    <2>3. CASE store # t /\ Sound(store)
      BY <1>2, <1>11, <2>1, <2>3 DEF Sound, Usable, Doomed
    <2>4. CASE \E o \in Tab : InFlight(o) /\ promise[o].token = store
      BY <1>8, <2>4
    <2>5. QED
      BY <2>2, <2>3, <2>4 DEF IInv, Custody, StoredTokenIsUsable, Sound, Usable, Doomed
  <1>16. SentIsSound'
    <2> SUFFICES ASSUME NEW o \in Tab, promise'[o].stage = "sent" PROVE Sound(promise[o].token)'
      BY DEF SentIsSound
    <2>1. o # b /\ promise'[o] = promise[o] /\ InFlight(o)
      BY <1>6, <1>7 DEF InFlight
    <2>2. promise[o].token \in used /\ Sound(promise[o].token)
      BY <2>1, TokensAreUsed DEF IInv, Custody, SentIsSound
    <2>3. promise[o].token = t => family[t] \in doubtful
      BY <1>0, <2>1 DEF IInv, Custody, SharedIsDoubtful, t
    <2>4. CASE promise[o].token = t
      BY <1>2, <1>4, <2>1, <2>2, <2>3, <2>4 DEF Sound, Usable, Doomed
    <2>5. CASE promise[o].token # t
      BY <1>11, <2>1, <2>2, <2>5 DEF Sound, Usable, Doomed
    <2>6. QED
      BY <2>4, <2>5
  <1>17. SharedIsDoubtful'
    BY <1>2, <1>4, <1>8, TokensAreUsed DEF IInv, Custody, SharedIsDoubtful
  <1>18. OnTheWay'
    <2>1. ASSUME NEW d \in Call, Arriving(d)' PROVE Fit(call[d].access)'
      <3>1. call'[d].access = call[d].access /\ call[d].access \in used /\ Fit(call[d].access)
        BY <1>9, <2>1, TokensAreUsed DEF CallsKept, IInv, Custody, OnTheWay
      <3>2. QED
        BY <1>13, <3>1 DEF Fit, Sound, Usable, Doomed, InHand
    <2>2. ASSUME NEW o \in Tab, Minted(o)' PROVE Fit(promise[o].answer)'
      <3>1. CASE o = b
        BY <1>6, <1>7, <1>14, <3>1 DEF Fit, Sound, Usable, Doomed, InHand
      <3>2. CASE o # b
        <4>1. Minted(o) /\ promise'[o] = promise[o]
          BY <1>7, <2>2, <3>2 DEF Minted
        <4>2. promise[o].answer \in used /\ Fit(promise[o].answer)
          BY <4>1, TokensAreUsed DEF IInv, Custody, OnTheWay
        <4>3. QED
          BY <1>13, <4>1, <4>2 DEF Fit, Sound, Usable, Doomed, InHand
      <3>3. QED
        BY <3>1, <3>2
    <2>3. QED
      BY <2>1, <2>2 DEF OnTheWay
  <1>19. OneCopy'
    <2>1. \A o \in Tab \ {b} : Minted(o)' => Minted(o) /\ promise'[o].answer = promise[o].answer /\ promise[o].answer # n
      BY <1>4, <1>7, TokensAreUsed DEF Minted
    <2>2. \A c \in Call : Arriving(c)' => Arriving(c) /\ call'[c].access = call[c].access /\ call[c].access # n
      BY <1>4, <1>9, TokensAreUsed DEF CallsKept
    <2>3. promise'[b].answer = n
      BY <1>6, <1>7
    <2>4. QED
      BY <2>1, <2>2, <2>3 DEF IInv, Custody, OneCopy
  <1>20. QED
    BY <1>4, <1>9, <1>10, <1>15, <1>16, <1>17, <1>18, <1>19 DEF IInv, Typed, Custody

-----------------------------------------------------------------------------
(* The invariant. *)

LEMMA InitIInv == Init => IInv
  <1> SUFFICES ASSUME Init PROVE IInv
    OBVIOUS
  <1>1. /\ used = {} /\ opened = {} /\ closed = {} /\ live = [f \in Family |-> {}]
        /\ family = [t \in Token |-> None] /\ expired = 0 /\ store = None
        /\ promise = [b \in Tab |-> NoPromise] /\ call = [c \in Call |-> Idle]
        /\ replayed = {} /\ doubtful = {} /\ signedOut = FALSE
    BY DEF Init, Server!Init
  <1>2. ServerOK
    BY <1>1, FS_EmptySet DEF ServerOK
  <1>3. \A c \in Call : call[c] = Idle /\ CallOK(call[c], used) /\ ~Arriving(c)
    BY <1>1, IdleOK DEF Arriving
  <1>4. \A b \in Tab : promise[b] = NoPromise /\ PromiseOK(promise[b], used) /\ ~InFlight(b) /\ ~Minted(b)
    BY <1>1, IdleOK DEF InFlight, Minted
  <1>5. CallsOK /\ PromisesOK
    BY <1>1, <1>3, <1>4, IdleOK DEF CallsOK, PromisesOK, CallOK, PromiseOK
  <1>6. StoreOK /\ HistoryOK
    BY <1>1 DEF StoreOK, HistoryOK, NoSelfReplay
  <1>7. Custody
    BY <1>1, <1>3, <1>4, IdleOK DEF Custody, StoredTokenIsUsable, SentIsSound, SharedIsDoubtful, OnTheWay, OneCopy
  <1>8. QED
    BY <1>2, <1>5, <1>6, <1>7 DEF IInv, Typed

LEMMA NextKeeps == IInv /\ [Next]_vars => IInv'
  <1> SUFFICES ASSUME IInv, [Next]_vars PROVE IInv'
    OBVIOUS
  <1>1. CASE \E c \in Call, b \in Tab, kind \in Kind : Send(c, b, kind)
    BY <1>1, SendKeeps
  <1>2. ASSUME NEW c \in Call, Answer(c) PROVE IInv'
    BY <1>2, GiveUpKeeps, SucceedKeeps, AdmitKeeps, LoggedInKeeps, DismissKeeps, JoinKeeps,
       ReuseKeeps, RefreshKeeps DEF Answer
  <1>3. ASSUME NEW b \in Tab, AnswerRefresh(b) PROVE IInv'
    BY <1>3, RotateKeeps, RefuseKeeps, FailKeeps, RefreshedKeeps, RefusedKeeps, LoseRefreshKeeps,
       ForgetKeeps DEF AnswerRefresh
  <1>4. CASE Expire
    BY <1>4, ExpireKeeps
  <1>5. CASE UNCHANGED vars
    <2>1. UNCHANGED <<server, expired, promise, store, call, replayed, doubtful, signedOut>>
      BY <1>5 DEF vars
    <2>2. ServerOK' /\ TokensKept
      BY <2>1, ServerStays DEF IInv, Typed
    <2>3. CallsOK' /\ CallsKept /\ PromisesOK' /\ PromisesKept
      BY <2>1, <2>2, CallsStay, PromisesStay DEF IInv, Typed, TokensKept
    <2>4. StoreOK' /\ StoreKept
      BY <2>1, StoreStays DEF IInv, Typed, StoreOK, server
    <2>5. HistoryOK'
      BY <2>1, HistoryKept DEF IInv, Typed, HistoryOK, server
    <2>6. QED
      BY <2>2, <2>3, <2>4, <2>5, CustodyKept DEF IInv, Typed
  <1>6. QED
    BY <1>1, <1>2, <1>3, <1>4, <1>5 DEF Next

\* Every token is where IInv says, whatever is lost, in any number of tabs.
THEOREM Invariance == Spec => []IInv
  BY InitIInv, NextKeeps, PTL DEF Spec

-----------------------------------------------------------------------------
(* What follows for the properties that are checked. *)

\* The variables of client and server have their types, for any number of tabs,
\* calls and pairs (the types of api.ts and of the sessions of SessionChain).
THEOREM TypeCorrect == Spec => []TypeOK
  <1>1. IInv => TypeOK
    BY DEF IInv, Typed, ServerOK, StoreOK, CallsOK, PromisesOK, HistoryOK, TypeOK
  <1>2. QED
    BY <1>1, Invariance, PTL

\* The stored refresh token is usable, or its successor is on its way, or the
\* session is closed or doubtful (api.ts: request, refreshTokens, login, logout).
THEOREM StoredTokenIsUsableHolds == Spec => []StoredTokenIsUsable
  <1>1. IInv => StoredTokenIsUsable
    BY DEF IInv, Custody
  <1>2. QED
    BY <1>1, Invariance, PTL

\* The refreshes that the client collapses never trip the replay detection of the
\* server: a session is revoked as replayed only if a refresh was lost or two
\* tabs sent one together (comment of api.ts, lines 4-8).
THEOREM NoSelfReplayHolds == Spec => []NoSelfReplay
  <1>1. IInv => NoSelfReplay
    BY DEF IInv, Typed, HistoryOK
  <1>2. QED
    BY <1>1, Invariance, PTL

-----------------------------------------------------------------------------
(***************************************************************************)
(* The server that the client talks to is the abstract one, of which       *)
(* RefreshTokensProofs shows that the table and its handlers implement it. *)
(* What the abstract one promises is stated here once, for any system that *)
(* implements it.                                                          *)
(***************************************************************************)
ChainInv ==
  /\ opened \subseteq Family /\ closed \subseteq opened
  /\ live \in [Family -> SUBSET used]
  /\ \A f \in closed : live[f] = {}
  /\ \A f \in Family : \A t, u \in live[f] : t = u

LEMMA ServerSteps ==
  ASSUME IInv, [Next]_vars
  PROVE  [Server!Next]_(Server!vars)
  <1>1. ASSUME NEW c \in Call, Admit(c) PROVE Server!Next
    <2>1. PICK t \in {Fresh} : Server!Open(t, t)
      BY <1>1 DEF Admit
    <2>2. t \in Family /\ t \in Token
      BY <2>1 DEF Server!Open, Family
    <2>3. QED
      BY <2>1, <2>2 DEF Server!Next
  <1>2. ASSUME NEW c \in Call, Dismiss(c) PROVE Server!Next
    <2>1. call[c].refresh \in used \union {None}
      BY ClientTyped DEF CallOK
    <2>2. PICK S \in SUBSET opened : Server!Close(S)
      BY <1>2, <2>1 DEF Dismiss, IInv, Typed, ServerOK
    <2>3. QED
      BY <2>2 DEF Server!Next
  <1>3. ASSUME NEW b \in Tab, Rotate(b) PROVE Server!Next
    <2>1. promise[b].token \in used
      BY <1>3, TokensAreUsed DEF Rotate, InFlight
    <2>2. PICK n \in {Fresh} : Server!Rotate(family[promise[b].token], n)
      BY <1>3 DEF Rotate
    <2>3. n \in Token
      BY <2>2 DEF Server!Rotate, Server!Mint
    <2>4. family[promise[b].token] \in Family
      BY <2>1 DEF IInv, Typed, ServerOK
    <2>5. QED
      BY <2>2, <2>3, <2>4 DEF Server!Next
  <1>4. ASSUME NEW b \in Tab, Refuse(b) PROVE Server!Next
    <2>1. promise[b].token \in used
      BY <1>4, TokensAreUsed DEF Refuse, InFlight
    <2>2. {family[promise[b].token]} \in SUBSET opened
      BY <2>1 DEF IInv, Typed, ServerOK
    <2>3. Server!Close({family[promise[b].token]})
      BY <1>4 DEF Refuse
    <2>4. QED
      BY <2>2, <2>3 DEF Server!Next
  <1>5. CASE \E c \in Call, b \in Tab, kind \in Kind : Send(c, b, kind)
    BY <1>5 DEF Send, server, Server!vars
  <1>6. ASSUME NEW c \in Call, Answer(c) PROVE Server!Next \/ UNCHANGED Server!vars
    BY <1>1, <1>2, <1>6 DEF Answer, Lose, Succeed, LoggedIn, LoggedOut, GiveUp, Join, Reuse,
       Refresh, Raise, server, Server!vars
  <1>7. ASSUME NEW b \in Tab, AnswerRefresh(b) PROVE Server!Next \/ UNCHANGED Server!vars
    BY <1>3, <1>4, <1>7 DEF AnswerRefresh, Fail, Refreshed, Refused, LoseRefresh, Forget,
       server, Server!vars
  <1>8. CASE Expire \/ UNCHANGED vars
    BY <1>8 DEF Expire, vars, server, Server!vars
  <1>9. QED
    BY <1>5, <1>6, <1>7, <1>8 DEF Next

LEMMA ChainKeeps == ChainInv /\ [Server!Next]_(Server!vars) => ChainInv'
  <1> SUFFICES ASSUME ChainInv, [Server!Next]_(Server!vars) PROVE ChainInv'
    OBVIOUS
  <1>1. ASSUME NEW f \in Family \ closed, NEW t, Server!Mint(f, t),
               opened \subseteq opened', opened' \subseteq opened \union {f}
        PROVE  ChainInv'
    BY <1>1 DEF ChainInv, Server!Mint
  <1>2. ASSUME NEW f \in Family, NEW t \in Token, Server!Open(f, t) \/ Server!Rotate(f, t)
        PROVE  ChainInv'
    <2>1. /\ f \notin closed /\ Server!Mint(f, t)
          /\ opened \subseteq opened' /\ opened' \subseteq opened \union {f}
      BY <1>2 DEF Server!Open, Server!Rotate, ChainInv
    <2>2. QED
      BY <1>1, <2>1
  <1>3. ASSUME NEW S \in SUBSET opened, Server!Close(S) PROVE ChainInv'
    <2>1. /\ used' = used /\ opened' = opened /\ closed' = closed \union S
          /\ live' = [f \in Family |-> IF f \in S THEN {} ELSE live[f]]
      BY <1>3 DEF Server!Close
    <2>2. live' \in [Family -> SUBSET used'] /\ \A f \in Family : live'[f] = IF f \in S THEN {} ELSE live[f]
      BY <2>1 DEF ChainInv
    <2>3. \A f \in closed' : live'[f] = {}
      BY <2>1, <2>2 DEF ChainInv
    <2>4. QED
      BY <2>1, <2>2, <2>3 DEF ChainInv
  <1>4. CASE UNCHANGED Server!vars
    BY <1>4 DEF ChainInv, Server!vars
  <1>5. QED
    BY <1>2, <1>3, <1>4 DEF Server!Next

\* Whatever the client and the network do, the server's sessions behave as
\* SessionChain says: no action of the client reaches into them (auth.py 3-8).
THEOREM ServerIsASessionChain == Spec => Server!Spec
  <1>1. Init => Server!Init
    BY DEF Init
  <1>2. IInv /\ [Next]_vars => [Server!Next]_(Server!vars)
    BY ServerSteps
  <1>3. QED
    BY <1>1, <1>2, Invariance, PTL DEF Spec, Server!Spec

\* The chain itself: a session that has been closed has no usable token ever
\* again, and no session has two (auth.py 3-8).
THEOREM ChainIsSound == Server!Spec => []ChainInv
  <1>1. Server!Init => ChainInv
    BY DEF Server!Init, ChainInv
  <1>2. QED
    BY <1>1, ChainKeeps, PTL DEF Server!Spec
=============================================================================
