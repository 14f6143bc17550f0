--------------------------- MODULE Conversations ---------------------------
(***************************************************************************)
(* Conversations and their messages (routers/chat.py): chat, chat_stream   *)
(* and delete_conversation.                                                *)
(*                                                                         *)
(* A turn is one chat request.  It reads the conversation and its last     *)
(* sequence number, waits for the model for seconds, and only then writes; *)
(* other turns on the same conversation run meanwhile.  chat commits the   *)
(* prompt and the reply together; chat_stream commits the prompt, streams, *)
(* and commits the reply in a second transaction.                          *)
(*                                                                         *)
(* The reply's text is kept as "full" or "partial", the prompt has none;   *)
(* the history replayed to the model is not kept.                          *)
(***************************************************************************)
EXTENDS Naturals, FiniteSets

CONSTANTS
  Workspace,
  Conversation,   \* conversation ids, fresh when created
  Turn,           \* the chat requests of a run, each made once
  None            \* no conversation

ASSUME NoneAssumption == None \notin Conversation

VARIABLES
  home,       \* conversations: the workspace of each committed row
  message,    \* messages: the committed rows
  turn,       \* the state of each chat request
  crowded     \* history: conversations that had two turns in flight at once

vars == <<home, message, turn, crowded>>

Stage == {"new", "waiting", "flushed", "streaming", "done", "failed", "ended"}

Progress == [stage: Stage, workspace: Workspace, conversation: Conversation \union {None},
             fresh: BOOLEAN, sequence: Nat, text: {"empty", "some"}]

Message == [conversation: Conversation, sequence: Nat, turn: Turn,
            role: {"user", "assistant"}, text: {"prompt", "full", "partial"}]

Exists == DOMAIN home
In(c) == {m \in message : m.conversation = c}

\* The number after the newest message, 0 in an empty conversation.
Newest(c) == CHOOSE n \in {m.sequence : m \in In(c)} : \A m \in In(c) : m.sequence <= n
NextSequence_Count(c) == Cardinality(In(c))                            \* mutated
NextSequence_Same(c) == IF In(c) = {} THEN 0 ELSE Newest(c)            \* mutated
NextSequence(c) == IF In(c) = {} THEN 0 ELSE Newest(c) + 1

TypeOK ==
  /\ Exists \subseteq Conversation /\ home \in [Exists -> Workspace]
  /\ message \subseteq Message
  /\ turn \in [Turn -> Progress]
  /\ crowded \subseteq Conversation

Init ==
  /\ home = [c \in {} |-> None]
  /\ message = {}
  /\ turn \in [Turn -> {[stage |-> "new", workspace |-> w, conversation |-> None,
                         fresh |-> FALSE, sequence |-> 0, text |-> "empty"] : w \in Workspace}]
  /\ crowded = {}

-----------------------------------------------------------------------------
Prompt(t) == [conversation |-> turn[t].conversation, sequence |-> turn[t].sequence,
              turn |-> t, role |-> "user", text |-> "prompt"]

\* Mutated: numbered when it is stored; stored with a role nobody reads.
Reply_Renumbered(t, text) ==
  [conversation |-> turn[t].conversation, sequence |-> NextSequence(turn[t].conversation),
   turn |-> t, role |-> "assistant", text |-> text]
Reply_Role(t, text) ==
  [conversation |-> turn[t].conversation, sequence |-> turn[t].sequence + 1,
   turn |-> t, role |-> "model", text |-> text]
Reply(t, text) == [conversation |-> turn[t].conversation,
                   sequence |-> turn[t].sequence + 1,
                   turn |-> t, role |-> "assistant", text |-> text]

Goto(t, stage) ==
  /\ turn' = [turn EXCEPT ![t].stage = stage]
  /\ UNCHANGED crowded

\* Ids of conversations created by turns still in flight are taken.
Taken == Exists \union {turn[t].conversation : t \in Turn}

\* The conversations a turn may continue: those of its workspace.
Loadable_Any(t) == Exists   \* mutated: no workspace clause
Loadable(t) == {c \in Exists : home[c] = turn[t].workspace}

InFlight(c) ==
  \E t \in Turn : /\ turn[t].conversation = c
                  /\ turn[t].stage \in {"waiting", "flushed", "streaming"}

\* Load the conversation of the caller's workspace or create a new one, and
\* read its last sequence number.
Read(t, stage) ==
  /\ turn[t].stage = "new"
  /\ \E c \in Conversation :
       /\ c \in Loadable(t) \/ c \notin Taken
       /\ turn' = [turn EXCEPT ![t].stage = stage, ![t].conversation = c,
                               ![t].fresh = c \notin Exists,
                               ![t].sequence = NextSequence(c)]
       /\ crowded' = crowded \union {x \in {c} : InFlight(x)}
  /\ UNCHANGED <<home, message>>

\* Inserting messages of turn t: a new conversation is inserted with them, an
\* old one must still exist (foreign key).
Insert(t, rows) ==
  LET c == turn[t].conversation IN
  /\ message' = message \union rows
  /\ \/ c \in Exists /\ UNCHANGED home
     \/ /\ turn[t].fresh /\ c \notin Exists
        /\ home' = [x \in Exists \union {c} |->
                     IF x = c THEN turn[t].workspace ELSE home[x]]

-----------------------------------------------------------------------------
(* POST /chat *)

BeginChat(t) == Read(t, "waiting")

\* The model has answered: prompt and reply are committed together.
FinishChat(t) ==
  /\ turn[t].stage = "waiting"
  /\ Insert(t, {Prompt(t), Reply(t, "full")})
  /\ turn' = [turn EXCEPT ![t].stage = "done", ![t].text = "some"]
  /\ UNCHANGED crowded

-----------------------------------------------------------------------------
(* POST /chat/stream *)

\* The prompt is flushed; it becomes visible when CommitRoute commits.
BeginStream(t) == Read(t, "flushed")

CommitPrompt(t) ==
  /\ turn[t].stage = "flushed"
  /\ Insert(t, {Prompt(t)})
  /\ Goto(t, "streaming")

\* The model sends text, and it is forwarded to the client.
Delta(t) ==
  /\ turn[t].stage = "streaming"
  /\ turn' = [turn EXCEPT ![t].text = "some"]
  /\ UNCHANGED <<home, message, crowded>>

\* The finally block: what has been received is committed as the reply.
Persist(t, text) ==
  IF turn[t].text = "some"
  THEN /\ turn[t].conversation \in Exists
       /\ message' = message \union {Reply(t, text)}
       /\ UNCHANGED home
  ELSE UNCHANGED <<home, message>>

\* The model's stream ends normally: the client is told "done" afterwards.
FinishStream(t) ==
  /\ turn[t].stage = "streaming"
  /\ Persist(t, "full")
  /\ Goto(t, "done")

\* Mutated: the reply is persisted after the loop and not in a finally block.
StreamFails_Forgets(t) ==
  /\ turn[t].stage = "streaming"
  /\ Goto(t, "failed")
  /\ UNCHANGED <<home, message>>

\* The model's stream raises and the error is sent, or the client disconnects
\* and the generator is closed: the finally block runs all the same, and "done"
\* is never sent.
StreamFails(t) ==
  /\ turn[t].stage = "streaming"
  /\ Persist(t, "partial")
  /\ Goto(t, "failed")

\* A request that has not committed all it was going to commit ends: the model
\* fails, a row it refers to is gone, the worker is lost, or the client
\* disconnects and the generator is cancelled before the finally block commits.
Abort(t) ==
  /\ turn[t].stage \in {"waiting", "flushed", "streaming"}
  /\ Goto(t, "ended")
  /\ UNCHANGED <<home, message>>

-----------------------------------------------------------------------------
(* DELETE /chat/conversations/{id}: the messages, then the conversation, in  *)
(* one transaction; rows inserted in between go with it (ON DELETE CASCADE). *)
Delete(c) ==
  /\ c \in Exists
  /\ home' = [x \in Exists \ {c} |-> home[x]]
  /\ message' = message \ In(c)
  /\ UNCHANGED <<turn, crowded>>

-----------------------------------------------------------------------------
Begin(t) == BeginChat(t) \/ BeginStream(t)

Continue(t) ==
  \/ FinishChat(t)
  \/ CommitPrompt(t)
  \/ Delta(t)
  \/ FinishStream(t)
  \/ StreamFails(t)
  \/ Abort(t)

Next ==
  \/ \E t \in Turn : Begin(t) \/ Continue(t)
  \/ \E c \in Conversation : Delete(c)

Spec == Init /\ [][Next]_vars

-----------------------------------------------------------------------------
(* Properties of every interleaving. *)

\* Every message is in an existing conversation of the workspace its author
\* wrote from: a turn that outlives its conversation leaves nothing behind.
MessagesHaveAHome ==
  \A m \in message : /\ m.conversation \in Exists
                     /\ home[m.conversation] = turn[m.turn].workspace

\* A stored reply directly follows the prompt it answers, in the same
\* conversation, even when turns overlap.
ReplyFollowsItsPrompt ==
  \A m \in message : m.role = "assistant" =>
    \E p \in message : /\ p.role = "user" /\ p.turn = m.turn
                       /\ p.conversation = m.conversation
                       /\ m.sequence = p.sequence + 1

\* Numbers are never skipped, so the newest message has the highest number
\* and the next turn continues after it.
SequencesHaveNoGaps ==
  \A m \in message : m.sequence > 0 =>
    \E p \in In(m.conversation) : p.sequence = m.sequence - 1

\* How much of the reply a turn that ended in this stage has received.
Received(stage) == IF stage = "failed" THEN "partial" ELSE "full"

\* A turn whose last commit succeeded is stored with what it has received of
\* the reply, unless the conversation has been deleted since.
EndedStored ==
  \A t \in Turn : turn[t].stage \in {"done", "failed"} /\ turn[t].conversation \in Exists =>
    /\ Prompt(t) \in message
    /\ turn[t].text = "some" => Reply(t, Received(turn[t].stage)) \in message

\* A stored reply is of a turn that ended, truncated exactly if the turn failed.
RepliesEnded ==
  \A m \in message : m.role = "assistant" =>
    /\ turn[m.turn].stage \in {"done", "failed"}
    /\ m.text = Received(turn[m.turn].stage)

\* What is stored is what the client has been told: "done" stands for the whole
\* reply, committed before (chat answers after its commit, "done" follows the
\* commit of the finally block); a truncated reply is stored, without loss of
\* what was received, and only for a turn that was never told "done".
StoredAsTold == EndedStored /\ RepliesEnded

\* Where turns did not overlap, no two messages have the same number: reading
\* the last number, calling the model and inserting is safe for one turn at a
\* time, also when turns fail, disconnect or the conversation is continued.
NumberedOnce(c) ==
  \A m, n \in In(c) : m.sequence = n.sequence => m = n

UniqueUnlessCrowded == \A c \in Conversation \ crowded : NumberedOnce(c)

-----------------------------------------------------------------------------
(* What the documentation says of all conversations. *)

\* "Monotonic per conversation" (models.py 210): ordering by sequence is an
\* order of the messages.
SequencesAreUnique == \A c \in Conversation : NumberedOnce(c)
=============================================================================
