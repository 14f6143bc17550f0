--------------------------- MODULE StartupProofs ----------------------------
(***************************************************************************)
(* Proofs about Startup for every number of processes and every set of     *)
(* settings they may be started with.                                      *)
(***************************************************************************)
EXTENDS Startup, TLAPS

(***************************************************************************)
(* Why the processes agree: the file is empty as long as one process, and  *)
(* no other, is about to write it, and afterwards holds what that process  *)
(* uses.  Only processes without configured keys, outside production, take *)
(* part, and what settings another process has does not matter to it.      *)
(***************************************************************************)
\* A process that runs has read settings, which the guard has let pass.
BootedWell == \A w \in Worker : stage[w] # "down" => settings[w] \in Accepted

OnlyWithoutKeys == \A w \in Worker : stage[w] \in Loading =>
  ~KeysConfigured(settings[w]) /\ ~InProduction(settings[w])

\* Where the pair of a process is from.
OwnPairs == \A w \in Worker :
  /\ stage[w] # "ready" => pair[w] = None
  /\ stage[w] = "ready" /\ KeysConfigured(settings[w]) => pair[w] = "configured"

OneWriter ==
  /\ \A w \in Worker : stage[w] = "write" => file = "empty"
  /\ \A v, w \in Worker : stage[v] = "write" /\ stage[w] = "write" => v = w

IInv == TypeOK /\ BootedWell /\ OnlyWithoutKeys /\ OwnPairs /\ OneWriter /\ WorkersAgree

-----------------------------------------------------------------------------
LEMMA InitIInv == Init => IInv
  BY DEF Init, IInv, TypeOK, Stage, Loading, BootedWell, OnlyWithoutKeys, OwnPairs,
         OneWriter, WorkersAgree

\* A step that takes w to another stage, with the settings it has then, and
\* leaves file and pairs alone.
LEMMA StageOnly ==
  ASSUME IInv, NEW w \in Worker, NEW s \in Stage \ {"write", "ready"},
         Goto(w, s), UNCHANGED <<pair, file, lone>>, pair[w] = None,
         settings' \in [Worker -> Accepted \union {None}],
         \A v \in Worker \ {w} : settings'[v] = settings[v],
         s # "down" => settings'[w] \in Accepted,
         s \in Loading => ~KeysConfigured(settings'[w]) /\ ~InProduction(settings'[w])
  PROVE  IInv'
  <1> USE DEF IInv, Goto
  <1>1. TypeOK'
    BY DEF TypeOK
  <1>2. BootedWell'
    BY DEF TypeOK, BootedWell
  <1>3. OnlyWithoutKeys'
    BY DEF TypeOK, OnlyWithoutKeys
  <1>4. OwnPairs'
    BY DEF TypeOK, OwnPairs
  <1>5. OneWriter'
    BY DEF TypeOK, OneWriter
  <1>6. WorkersAgree'
    BY DEF TypeOK, WorkersAgree
  <1>7. QED
    BY <1>1, <1>2, <1>3, <1>4, <1>5, <1>6

\* ... and does so without reading settings again.
LEMMA StageAlone ==
  ASSUME IInv, NEW w \in Worker, NEW s \in Stage \ {"down", "write", "ready"},
         Goto(w, s), UNCHANGED <<settings, pair, file, lone>>,
         stage[w] \notin {"down", "ready"},
         s \in Loading => ~KeysConfigured(settings[w]) /\ ~InProduction(settings[w])
  PROVE  IInv'
  <1>1. pair[w] = None /\ settings'[w] \in Accepted
    BY DEF IInv, OwnPairs, BootedWell
  <1>2. settings' \in [Worker -> Accepted \union {None}]
    BY DEF IInv, TypeOK
  <1>3. QED
    BY <1>1, <1>2, StageOnly

LEMMA BootIInv == ASSUME IInv, NEW w \in Worker, Boot(w) PROVE IInv'
  <1>1. PICK s \in Accepted : settings' = [settings EXCEPT ![w] = s]
    BY DEF Boot
  <1>2. /\ settings' \in [Worker -> Accepted \union {None}] /\ settings'[w] = s
        /\ \A v \in Worker \ {w} : settings'[v] = settings[v]
    BY <1>1 DEF IInv, TypeOK
  <1>3. pair[w] = None
    BY DEF Boot, IInv, OwnPairs
  <1>4. QED
    BY <1>2, <1>3, StageOnly DEF Boot, Stage, Loading

LEMMA DieIInv == ASSUME IInv, NEW w \in Worker, Die(w) PROVE IInv'
  <1> USE DEF Die, Goto, IInv
  <1>1. TypeOK'
    BY DEF TypeOK, Stage
  <1>2. BootedWell'
    BY DEF TypeOK, BootedWell
  <1>3. OnlyWithoutKeys'
    BY DEF TypeOK, OnlyWithoutKeys, Loading
  <1>4. OwnPairs'
    BY DEF TypeOK, OwnPairs
  <1>5. OneWriter'
    BY DEF TypeOK, OneWriter
  <1>6. WorkersAgree'
    BY DEF TypeOK, WorkersAgree
  <1>7. QED
    BY <1>1, <1>2, <1>3, <1>4, <1>5, <1>6

LEMMA GetKeysIInv == ASSUME IInv, NEW w \in Worker, GetKeys(w) PROVE IInv'
  <1>1. CASE KeysConfigured(settings[w]) /\ Use(w, "configured")
    <2> USE <1>1 DEF GetKeys, Use, Goto, IInv
    <2>1. TypeOK'
      BY DEF TypeOK, Stage
    <2>2. BootedWell'
      BY DEF TypeOK, BootedWell
    <2>3. OnlyWithoutKeys'
      BY DEF TypeOK, OnlyWithoutKeys, Loading
    <2>4. OwnPairs'
      BY DEF TypeOK, OwnPairs
    <2>5. OneWriter'
      BY DEF TypeOK, OneWriter
    <2>6. WorkersAgree'
      BY DEF TypeOK, WorkersAgree
    <2>7. QED
      BY <2>1, <2>2, <2>3, <2>4, <2>5, <2>6
  <1>2. CASE /\ ~KeysConfigured(settings[w]) /\ ~InProduction(settings[w])
             /\ Goto(w, "exists") /\ UNCHANGED pair
    BY <1>2, StageAlone DEF GetKeys, Stage, Loading
  <1>3. QED
    BY <1>1, <1>2 DEF GetKeys

\* A process that takes over a pair while it loads: the file's, or its own.
LEMMA UseIInv ==
  ASSUME IInv, NEW w \in Worker, NEW p \in Worker, Use(w, p),
         stage[w] \in Loading, UNCHANGED settings,
         file' \in Worker \union {"empty", "absent"}, lone' \in SUBSET Worker,
         lone \subseteq lone', w \in lone' \/ p = file',
         \/ file' = file /\ stage[w] # "write"
         \/ stage[w] = "write"
  PROVE  IInv'
  <1> USE DEF IInv, Use, Goto
  <1>1. TypeOK'
    BY DEF TypeOK, Stage
  <1>2. BootedWell'
    BY DEF TypeOK, BootedWell, Loading
  <1>3. OnlyWithoutKeys'
    BY DEF TypeOK, OnlyWithoutKeys, Loading
  <1>4. OwnPairs'
    BY DEF TypeOK, OwnPairs, OnlyWithoutKeys
  <1>5. OneWriter'
    BY DEF TypeOK, OneWriter
  <1>6. WorkersAgree'
    <2> SUFFICES ASSUME NEW v \in Worker \ lone', stage'[v] = "ready",
                        ~KeysConfigured(settings[v])
                 PROVE  pair'[v] = file'
      <3>1. ASSUME NEW v \in Worker, stage'[v] = "ready", KeysConfigured(settings[v])
            PROVE  pair'[v] = "configured"
        BY <1>4, <3>1 DEF OwnPairs
      <3>2. QED
        BY <3>1 DEF TypeOK, WorkersAgree
    <2>1. CASE v = w
      BY <2>1 DEF TypeOK
    <2>2. CASE v # w
      <3>1. stage[v] = "ready" /\ pair'[v] = pair[v] /\ v \notin lone
        BY <2>2 DEF TypeOK
      <3>2. pair[v] = file
        BY <3>1 DEF WorkersAgree
      <3>3. stage[w] # "write"
        <4>1. CASE file = "empty"
          <5>1. pair[v] \in Worker \union {"configured", None}
            BY DEF TypeOK
          <5>2. QED
            BY <3>2, <4>1, <5>1, NameAssumption
        <4>2. CASE file # "empty"
          BY <4>2 DEF OneWriter
        <4>3. QED
          BY <4>1, <4>2
      <3>4. QED
        BY <3>1, <3>2, <3>3
    <2>3. QED
      BY <2>1, <2>2
  <1>7. QED
    BY <1>1, <1>2, <1>3, <1>4, <1>5, <1>6

\* What a process that loads keys may rely on when it goes on loading.
LEMMA KeepsLoading ==
  ASSUME IInv, NEW w \in Worker, stage[w] \in Loading
  PROVE  ~KeysConfigured(settings[w]) /\ ~InProduction(settings[w])
  BY DEF IInv, OnlyWithoutKeys

LEMMA PathExistsIInv == ASSUME IInv, NEW w \in Worker, PathExists(w) PROVE IInv'
  <1>1. stage[w] \in Loading
    BY DEF PathExists, Loading
  <1>2. CASE file = "absent"
    BY <1>1, <1>2, KeepsLoading, StageAlone DEF PathExists, Stage, Loading
  <1>3. CASE file # "absent"
    BY <1>1, <1>3, KeepsLoading, StageAlone DEF PathExists, Stage, Loading
  <1>4. QED
    BY <1>2, <1>3

LEMMA ReadIInv == ASSUME IInv, NEW w \in Worker, Read(w) PROVE IInv'
  <1>1. stage[w] = "read" /\ stage[w] \in Loading
    BY DEF Read, Loading
  <1>2. CASE file \in Worker /\ Use(w, file)
    BY <1>1, <1>2, UseIInv DEF Read, IInv, TypeOK
  <1>3. CASE file = "empty" /\ Goto(w, "create") /\ UNCHANGED pair
    BY <1>1, <1>3, KeepsLoading, StageAlone DEF Read, Stage, Loading
  <1>4. QED
    BY <1>2, <1>3 DEF Read

LEMMA CreateIInv == ASSUME IInv, NEW w \in Worker, Create(w) PROVE IInv'
  <1>1. stage[w] = "create" /\ stage[w] \in Loading
    BY DEF Create, Loading
  <1>2. ~KeysConfigured(settings[w]) /\ ~InProduction(settings[w])
    BY <1>1, KeepsLoading
  <1>3. CASE file = "absent" /\ file' = "empty" /\ Goto(w, "write") /\ UNCHANGED <<pair, lone>>
    <2> USE <1>2, <1>3 DEF Create, Goto, IInv
    <2>1. TypeOK'
      BY DEF TypeOK, Stage, Loading
    <2>2. BootedWell'
      BY DEF TypeOK, BootedWell
    <2>3. OnlyWithoutKeys'
      BY DEF TypeOK, OnlyWithoutKeys
    <2>4. OwnPairs'
      BY DEF TypeOK, OwnPairs
    <2>5. OneWriter'
      BY DEF TypeOK, OneWriter
    <2>6. WorkersAgree'
      BY NameAssumption DEF TypeOK, WorkersAgree
    <2>7. QED
      BY <2>1, <2>2, <2>3, <2>4, <2>5, <2>6
  <1>4. CASE file # "absent" /\ Goto(w, "exists") /\ UNCHANGED <<pair, file, lone>>
    BY <1>2, <1>4, StageAlone DEF Create, Stage, Loading
  <1>5. CASE file = "absent" /\ Use(w, w) /\ lone' = lone \union {w} /\ UNCHANGED file
    BY <1>1, <1>5, UseIInv DEF Create, IInv, TypeOK
  <1>6. QED
    BY <1>3, <1>4, <1>5 DEF Create

LEMMA WriteIInv == ASSUME IInv, NEW w \in Worker, Write(w) PROVE IInv'
  <1>1. stage[w] = "write" /\ stage[w] \in Loading
    BY DEF Write, Loading
  <1>2. QED
    BY <1>1, UseIInv DEF Write, IInv, TypeOK

LEMMA FailIInv == ASSUME IInv, NEW w \in Worker, WriteFails(w) \/ GiveUp(w) PROVE IInv'
  <1>1. stage[w] \in Loading /\ Goto(w, "idle") /\ UNCHANGED <<settings, pair, file, lone>>
    BY DEF WriteFails, GiveUp, Loading
  <1>2. QED
    BY <1>1, KeepsLoading, StageAlone DEF Stage, Loading

LEMMA NextIInv == IInv /\ [Next]_vars => IInv'
  <1> SUFFICES ASSUME IInv, [Next]_vars PROVE IInv'
    OBVIOUS
  <1>1. CASE UNCHANGED vars
    BY <1>1 DEF vars, IInv, TypeOK, BootedWell, OnlyWithoutKeys, OwnPairs, OneWriter,
                WorkersAgree
  <1>2. ASSUME NEW w \in Worker,
               Boot(w) \/ GetKeys(w) \/ Load(w) \/ WriteFails(w) \/ GiveUp(w) \/ Die(w)
        PROVE  IInv'
    BY <1>2, BootIInv, GetKeysIInv, PathExistsIInv, ReadIInv, CreateIInv, WriteIInv,
       FailIInv, DieIInv DEF Load
  <1>3. QED
    BY <1>1, <1>2 DEF Next

LEMMA Invariant == Spec => []IInv
  BY InitIInv, NextIInv, PTL DEF Spec

-----------------------------------------------------------------------------
(* What follows. *)

\* Every reachable state is well typed.
THEOREM TypeCorrect == Spec => []TypeOK
  <1>1. IInv => TypeOK
    BY DEF IInv
  <1>2. QED
    BY <1>1, Invariant, PTL

\* Any number of processes, started, lost and restarted in any order, use one
\* key pair, except those that could not create the file.
THEOREM WorkersAgreeHolds == Spec => []WorkersAgree
  <1>1. IInv => WorkersAgree
    BY DEF IInv
  <1>2. QED
    BY <1>1, Invariant, PTL

\* Whatever settings a process is started with, beside and after processes with
\* others: if they are of production, it uses no pair but the configured one, never
\* comes to load one, and has the real provider.
THEOREM ProductionIsRealHolds == Spec => []ProductionIsReal
  <1>1. ASSUME IInv PROVE ProductionIsReal
    <2> SUFFICES ASSUME NEW w \in Worker, stage[w] # "down", InProduction(settings[w])
                 PROVE  /\ KeysConfigured(settings[w])
                        /\ stage[w] \notin Loading
                        /\ pair[w] \in {None, "configured"}
                        /\ stage[w] = "ready" => pair[w] = "configured"
                        /\ Provider(settings[w]) = "sakana"
      BY DEF ProductionIsReal
    <2>1. settings[w] \in Setting /\ Acceptable(settings[w])
      BY <1>1, ConfigurationAssumption DEF IInv, BootedWell, Accepted, Boots
    <2>2. settings[w].sakanaKey = "real" /\ KeysConfigured(settings[w])
      BY <2>1 DEF Acceptable, Setting, KeysConfigured
    <2>3. Provider(settings[w]) = "sakana"
      BY <2>2 DEF Provider, LlmEnabled
    <2>4. QED
      BY <1>1, <2>2, <2>3 DEF IInv, OnlyWithoutKeys, OwnPairs
  <1>2. IInv => ProductionIsReal
    BY <1>1
  <1>3. QED
    BY <1>2, Invariant, PTL

KeyStays == file \in Worker => file' = file

\* A key that has reached the file stays there: no process that starts later
\* and no retry of _load_or_create_dev_keys replaces it, so that the tokens
\* signed with it stay valid.
THEOREM KeyFileIsPermanent == Spec => [][KeyStays]_vars
  <1>1. IInv /\ [Next]_vars => [KeyStays]_vars
    <2> SUFFICES ASSUME IInv, Next, file \in Worker PROVE file' = file
      BY DEF KeyStays
    <2>1. PICK w \in Worker :
            Boot(w) \/ GetKeys(w) \/ Load(w) \/ WriteFails(w) \/ GiveUp(w) \/ Die(w)
      BY DEF Next
    <2>2. file \notin {"absent", "empty"}
      BY NameAssumption
    <2>3. ~Write(w)
      BY <2>2 DEF Write, IInv, OneWriter
    <2>4. QED
      BY <2>1, <2>2, <2>3 DEF Boot, GetKeys, Load, PathExists, Read, Create, WriteFails,
                             GiveUp, Die
  <1>2. QED
    BY <1>1, Invariant, PTL DEF Spec
=============================================================================
