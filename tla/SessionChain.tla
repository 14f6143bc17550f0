---------------------------- MODULE SessionChain ----------------------------
(***************************************************************************)
(* What the documentation of routers/auth.py (lines 3-8) promises about    *)
(* sessions, without requests: a session (a family) is opened by a login,  *)
(* has exactly one usable token at a time, exchanges it for a fresh one,   *)
(* and once closed is never usable again.                                  *)
(***************************************************************************)
CONSTANTS Family, Token

VARIABLES
  used,      \* token values handed out so far
  opened,    \* sessions ever opened
  closed,    \* sessions reported as ended
  live       \* the usable tokens of each session

vars == <<used, opened, closed, live>>

Init ==
  /\ used = {}
  /\ opened = {}
  /\ closed = {}
  /\ live = [f \in Family |-> {}]

Mint(f, t) ==
  /\ t \in Token \ used
  /\ used' = used \union {t}
  /\ live' = [live EXCEPT ![f] = {t}]
  /\ UNCHANGED closed

\* A login opens a session with its first token.
Open(f, t) ==
  /\ f \in Family \ opened
  /\ opened' = opened \union {f}
  /\ Mint(f, t)

\* The one usable token of a session is exchanged for a fresh one.
Rotate(f, t) ==
  /\ f \notin closed
  /\ \E old \in used : live[f] = {old}
  /\ Mint(f, t)
  /\ UNCHANGED opened

\* Logout, replay detection, password change or reset closes sessions.
Close(S) ==
  /\ live' = [f \in Family |-> IF f \in S THEN {} ELSE live[f]]
  /\ closed' = closed \union S
  /\ UNCHANGED <<used, opened>>

Next ==
  \/ \E f \in Family, t \in Token : Open(f, t) \/ Rotate(f, t)
  \/ \E S \in SUBSET opened : Close(S)

Spec == Init /\ [][Next]_vars
=============================================================================
