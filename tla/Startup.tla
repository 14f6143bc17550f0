------------------------------ MODULE Startup -------------------------------
(***************************************************************************)
(* Worker processes start, read their settings, and agree on the key pair  *)
(* that signs access tokens (auth/tokens.py).                              *)
(*                                                                         *)
(* Without configured keys, the first request of a process that needs them *)
(* reads the pair from a file all processes share, or generates a pair and *)
(* creates the file.  Creating the file (O_EXCL) and writing the pair are  *)
(* two calls of the operating system: another process may find the file    *)
(* empty, and the creator may be lost in between, or fail to write.        *)
(*                                                                         *)
(* A pair is named after the process that generated it, and a configured   *)
(* one is "configured".  The environment may be another one at each start, *)
(* as in a rolling deployment; a process reads it once (get_settings is    *)
(* cached), so that processes with different settings run side by side.    *)
(***************************************************************************)
EXTENDS Settings

CONSTANTS
  Worker,          \* the processes of a deployment
  Configuration,   \* the settings they may be started with
  None             \* no pair, no settings

ASSUME ConfigurationAssumption == Configuration \subseteq Setting
ASSUME NameAssumption ==
  /\ Worker \intersect {"configured", "absent", "empty", None} = {}
  /\ None \notin {"configured", "absent", "empty"}

VARIABLES
  settings,   \* the settings each process has read when it started
  stage,      \* what each process is doing
  pair,       \* _keys: the key pair each process uses
  file,       \* the shared key file: absent, empty, or whose pair it holds
  lone        \* history: processes that could not create the file

vars == <<settings, stage, pair, file, lone>>

\* The settings a process starts with; with any other Settings() raises, and
\* there is no process.
Accepted == {s \in Configuration : Boots(s)}

Loading == {"exists", "read", "create", "write"}
Stage == {"down", "idle", "ready"} \union Loading

TypeOK ==
  /\ settings \in [Worker -> Accepted \union {None}]
  /\ stage \in [Worker -> Stage]
  /\ pair \in [Worker -> Worker \union {"configured", None}]
  /\ file \in Worker \union {"absent", "empty"}
  /\ lone \subseteq Worker

Init ==
  /\ settings = [w \in Worker |-> None]
  /\ stage = [w \in Worker |-> "down"]
  /\ pair = [w \in Worker |-> None]
  /\ file = "absent"
  /\ lone = {}

Goto(w, s) == stage' = [stage EXCEPT ![w] = s]

\* w goes on with pair p.
Use(w, p) == Goto(w, "ready") /\ pair' = [pair EXCEPT ![w] = p]

-----------------------------------------------------------------------------
\* The process imports its settings.
Boot(w) ==
  /\ stage[w] = "down"
  /\ \E s \in Accepted : settings' = [settings EXCEPT ![w] = s]
  /\ Goto(w, "idle")
  /\ UNCHANGED <<pair, file, lone>>

\* The first request that needs keys.
GetKeys(w) ==
  /\ stage[w] = "idle"
  /\ \/ KeysConfigured(settings[w]) /\ Use(w, "configured")
     \/ /\ ~KeysConfigured(settings[w]) /\ ~InProduction(settings[w])
        /\ Goto(w, "exists") /\ UNCHANGED pair
  /\ UNCHANGED <<settings, file, lone>>

PathExists(w) ==
  /\ stage[w] = "exists"
  /\ Goto(w, IF file = "absent" THEN "create" ELSE "read")
  /\ UNCHANGED <<settings, pair, file, lone>>

\* Mutated: the file is taken to hold a key.
Read_Unchecked(w) ==
  /\ stage[w] = "read"
  /\ Use(w, file)
  /\ UNCHANGED <<settings, file, lone>>

\* A file without a key in it is "unreadable; regenerating".
Read(w) ==
  /\ stage[w] = "read"
  /\ \/ file \in Worker /\ Use(w, file)
     \/ file = "empty" /\ Goto(w, "create") /\ UNCHANGED pair
  /\ UNCHANGED <<settings, file, lone>>

\* Mutated: the file is opened without O_EXCL, which truncates it; the loser
\* tries to create the file again instead of reading it.
Create_Truncates(w) ==
  /\ stage[w] = "create"
  /\ file' = "empty" /\ Goto(w, "write")
  /\ UNCHANGED <<settings, pair, lone>>
Create_Retries(w) ==
  /\ stage[w] = "create"
  /\ file = "absent" /\ file' = "empty" /\ Goto(w, "write")
  /\ UNCHANGED <<settings, pair, lone>>

\* A pair has been generated; the file is created, exists already, or cannot
\* be created, in which case the pair is used for this process alone.
Create(w) ==
  /\ stage[w] = "create"
  /\ \/ file = "absent" /\ file' = "empty" /\ Goto(w, "write") /\ UNCHANGED <<pair, lone>>
     \/ file # "absent" /\ Goto(w, "exists") /\ UNCHANGED <<pair, file, lone>>
     \/ file = "absent" /\ Use(w, w) /\ lone' = lone \union {w} /\ UNCHANGED file
  /\ UNCHANGED settings

Write(w) ==
  /\ stage[w] = "write"
  /\ file' = w
  /\ Use(w, w)
  /\ UNCHANGED <<settings, lone>>

\* The disk is full: the request fails, the next one tries again.
WriteFails(w) ==
  /\ stage[w] = "write"
  /\ Goto(w, "idle")
  /\ UNCHANGED <<settings, pair, file, lone>>

\* The file was created and will never be written.
Broken == file = "empty" /\ \A w \in Worker : stage[w] # "write"

\* Each attempt that finds the file empty calls the function again, one frame
\* deeper, until Python raises RecursionError and the request fails.  This
\* takes about a thousand generated keys, so the writer is not just slow.
GiveUp(w) ==
  /\ Broken /\ stage[w] = "exists"
  /\ Goto(w, "idle")
  /\ UNCHANGED <<settings, pair, file, lone>>

\* The process is lost or replaced, and its memory with it; it may be started
\* again, with other settings.
Die(w) ==
  /\ stage[w] # "down"
  /\ Goto(w, "down")
  /\ settings' = [settings EXCEPT ![w] = None]
  /\ pair' = [pair EXCEPT ![w] = None]
  /\ lone' = lone \ {w}
  /\ UNCHANGED file

-----------------------------------------------------------------------------
Load(w) == PathExists(w) \/ Read(w) \/ Create(w) \/ Write(w)

Next == \E w \in Worker :
  Boot(w) \/ GetKeys(w) \/ Load(w) \/ WriteFails(w) \/ GiveUp(w) \/ Die(w)

\* A process that has started to load its keys is synchronous: it goes on.
Fairness == \A w \in Worker : WF_vars(Load(w))

Spec == Init /\ [][Next]_vars /\ Fairness

-----------------------------------------------------------------------------
(* Properties. *)

\* "concurrently starting workers agree on one winner" (tokens.py 82): whatever
\* they overlap in, and however often they are restarted and reconfigured, all
\* processes sign and verify with the pair of their settings if there is one, and
\* with the one pair in the file if not, except those that could not create it;
\* a file that was created and is empty is nobody's pair.
WorkersAgree ==
  \A w \in Worker \ lone : stage[w] = "ready" =>
    IF KeysConfigured(settings[w]) THEN pair[w] = "configured"
                                   ELSE pair[w] = file /\ file \in Worker

\* A process that runs in production has both keys configured (it could answer
\* nobody otherwise) and uses them, never those of the temp directory, and has a
\* real provider, also beside processes of other settings and after them (config.py
\* 157-187; get_keys and get_llm_client ask again, with conditions of their own).
ProductionIsReal ==
  \A w \in Worker : stage[w] # "down" /\ InProduction(settings[w]) =>
    /\ KeysConfigured(settings[w])
    /\ stage[w] \notin Loading
    /\ pair[w] \in {None, "configured"}
    /\ stage[w] = "ready" => pair[w] = "configured"
    /\ Provider(settings[w]) = "sakana"

\* A process that loads its keys gets them, however many others load them at
\* the same time, unless it is lost or the file was created and never written:
\* from a broken file no process recovers, although "a corrupt cache must not be
\* fatal" (tokens.py 77).
KeysArrive == \A w \in Worker :
  stage[w] \in Loading ~> stage[w] \notin Loading \/ Broken
=============================================================================
