-------------------------- MODULE ConversationsProofs --------------------------
(***************************************************************************)
(* Proofs about Conversations for every number of workspaces,              *)
(* conversations and overlapping turns.                                    *)
(***************************************************************************)
EXTENDS Conversations, TLAPS

(***************************************************************************)
(* The properties of the stored messages rest on what a turn that has read *)
(* the conversation may still rely on when it writes.                      *)
(***************************************************************************)

\* A turn has read its conversation and stored nothing yet.
Waiting(t) == turn[t].stage \in {"waiting", "flushed"}
Writing(t) == Waiting(t) \/ turn[t].stage = "streaming"

KnowsConversation ==
  \A t \in Turn : turn[t].stage # "new" => turn[t].conversation \in Conversation

\* The id of a conversation not yet inserted is known to its creator only.
FreshAlone ==
  \A t \in Turn : Waiting(t) /\ turn[t].fresh =>
    /\ turn[t].conversation \notin Exists
    /\ turn[t].sequence = 0
    /\ \A u \in Turn : turn[u].conversation = turn[t].conversation => u = t

\* A turn writes to a conversation of its own workspace.
HomeAgrees ==
  \A t \in Turn : turn[t].conversation \in Exists =>
    home[turn[t].conversation] = turn[t].workspace

\* The newest message, of which NextSequence takes the number, exists.
HasNewest ==
  \A c \in Conversation : In(c) # {} =>
    \E m \in In(c) : \A p \in In(c) : p.sequence <= m.sequence

\* While a reply streams its prompt is stored, as long as the conversation is.
StreamStored ==
  \A t \in Turn : turn[t].stage = "streaming" /\ turn[t].conversation \in Exists =>
    Prompt(t) \in message

\* The number a turn has read continues a message that is still there.
ReadContinues ==
  \A t \in Turn :
    Waiting(t) /\ turn[t].sequence > 0 /\ turn[t].conversation \in Exists =>
      \E p \in In(turn[t].conversation) : p.sequence = turn[t].sequence - 1

AloneUnlessCrowded ==
  \A t, u \in Turn :
    /\ Writing(t) /\ Writing(u)
    /\ turn[t].conversation = turn[u].conversation
    /\ turn[t].conversation \notin crowded
    => t = u

\* The number a turn has read is still free when no other turn interferes.
OnTop ==
  \A t \in Turn : turn[t].conversation \notin crowded =>
    /\ Waiting(t) => \A m \in In(turn[t].conversation) : m.sequence < turn[t].sequence
    /\ turn[t].stage = "streaming" =>
         \A m \in In(turn[t].conversation) : m.sequence <= turn[t].sequence

Places == KnowsConversation /\ FreshAlone /\ HomeAgrees /\ MessagesHaveAHome
Stored == ReplyFollowsItsPrompt /\ StreamStored /\ EndedStored /\ RepliesEnded
Numbers == HasNewest /\ SequencesHaveNoGaps /\ ReadContinues
Alone == AloneUnlessCrowded /\ OnTop /\ UniqueUnlessCrowded

IInv == TypeOK /\ Places /\ Stored /\ Numbers /\ Alone

-----------------------------------------------------------------------------
(* What the steps of a turn change. *)

\* A turn that has read its conversation keeps everything but stage and text.
Moves(t) ==
  /\ turn' \in [Turn -> Progress]
  /\ \A u \in Turn : /\ turn'[u].conversation = turn[u].conversation
                     /\ turn'[u].workspace = turn[u].workspace
                     /\ turn'[u].fresh = turn[u].fresh
                     /\ turn'[u].sequence = turn[u].sequence
  /\ \A u \in Turn \ {t} : turn'[u] = turn[u]

LEMMA StageMoves ==
  ASSUME TypeOK, NEW t \in Turn, NEW s \in Stage, turn' = [turn EXCEPT ![t].stage = s]
  PROVE  Moves(t) /\ turn'[t].stage = s /\ turn'[t].text = turn[t].text
  <1>1. turn \in [Turn -> Progress] /\ turn[t] \in Progress
    BY DEF TypeOK
  <1>2. turn'[t] = [turn[t] EXCEPT !.stage = s] /\ \A u \in Turn \ {t} : turn'[u] = turn[u]
    BY <1>1
  <1>3. /\ turn'[t] \in Progress /\ turn'[t].stage = s
        /\ turn'[t].conversation = turn[t].conversation /\ turn'[t].text = turn[t].text
        /\ turn'[t].workspace = turn[t].workspace /\ turn'[t].fresh = turn[t].fresh
        /\ turn'[t].sequence = turn[t].sequence
    BY <1>1, <1>2 DEF Progress
  <1>4. turn' \in [Turn -> Progress]
    BY <1>1, <1>3
  <1>5. QED
    BY <1>2, <1>3, <1>4 DEF Moves

LEMMA TextMoves ==
  ASSUME TypeOK, NEW t \in Turn, NEW s \in Stage, NEW x \in {"empty", "some"},
         turn' = [turn EXCEPT ![t].stage = s, ![t].text = x]
  PROVE  Moves(t) /\ turn'[t].stage = s /\ turn'[t].text = x
  <1>1. turn \in [Turn -> Progress] /\ turn[t] \in Progress
    BY DEF TypeOK
  <1>2. /\ turn'[t] = [turn[t] EXCEPT !.stage = s, !.text = x]
        /\ \A u \in Turn \ {t} : turn'[u] = turn[u]
    BY <1>1
  <1>3. /\ turn'[t] \in Progress /\ turn'[t].stage = s /\ turn'[t].text = x
        /\ turn'[t].conversation = turn[t].conversation
        /\ turn'[t].workspace = turn[t].workspace /\ turn'[t].fresh = turn[t].fresh
        /\ turn'[t].sequence = turn[t].sequence
    BY <1>1, <1>2 DEF Progress
  <1>4. turn' \in [Turn -> Progress]
    BY <1>1, <1>3
  <1>5. QED
    BY <1>2, <1>3, <1>4 DEF Moves

\* What a turn is about to store does not change while it moves.
LEMMA MovesKeepsRows ==
  ASSUME NEW t \in Turn, Moves(t), NEW u \in Turn, NEW x
  PROVE  Prompt(u)' = Prompt(u) /\ Reply(u, x)' = Reply(u, x)
  BY DEF Moves, Prompt, Reply

\* The rows a turn stores.
LEMMA RowsAre ==
  ASSUME IInv, NEW t \in Turn, Writing(t), NEW x \in {"full", "partial"}
  PROVE  /\ turn[t].conversation \in Conversation /\ turn[t].sequence \in Nat
         /\ Prompt(t) \in Message /\ Reply(t, x) \in Message
         /\ Prompt(t).conversation = turn[t].conversation
         /\ Reply(t, x).conversation = turn[t].conversation
         /\ Prompt(t).turn = t /\ Reply(t, x).turn = t
         /\ Prompt(t).role = "user" /\ Reply(t, x).role = "assistant"
         /\ Prompt(t).sequence = turn[t].sequence
         /\ Reply(t, x).sequence = turn[t].sequence + 1
  <1>1. turn[t] \in Progress /\ turn[t].conversation \in Conversation
    BY DEF IInv, TypeOK, Places, KnowsConversation, Writing, Waiting
  <1>2. turn[t].sequence \in Nat
    BY <1>1 DEF Progress
  <1>3. QED
    BY <1>1, <1>2 DEF Prompt, Reply, Message

\* The messages of one conversation.
LEMMA InIs ==
  ASSUME NEW c, NEW m
  PROVE  m \in In(c) <=> m \in message /\ m.conversation = c
  BY DEF In

\* ... after the step.
Then(c) == {m \in message' : m.conversation = c}

LEMMA InNext ==
  ASSUME NEW c, NEW m
  PROVE  m \in Then(c) <=> m \in message' /\ m.conversation = c
  BY DEF Then

(***************************************************************************)
(* A step in which turn t stores rows: what FinishChat, CommitPrompt and   *)
(* the finally block of the stream have in common.                         *)
(***************************************************************************)
Stores(t, rows, x) ==
  /\ Writing(t) /\ Moves(t) /\ Insert(t, rows) /\ crowded' = crowded
  /\ rows \in {{Prompt(t)}, {Reply(t, x)}, {Prompt(t), Reply(t, x)}}
  /\ Prompt(t) \in message \union rows
  /\ Prompt(t) \in rows => Waiting(t)
  /\ turn[t].conversation \in Exists \/ Waiting(t)
  /\ turn'[t].stage \in {"streaming", "done", "failed"}
  /\ turn'[t].stage = "streaming" => rows = {Prompt(t)}
  /\ turn'[t].stage # "streaming" => x = Received(turn'[t].stage)
  /\ turn'[t].stage # "streaming" /\ turn'[t].text = "some" => Reply(t, x) \in rows

LEMMA StoresShape ==
  ASSUME IInv, NEW t \in Turn, NEW rows, NEW x \in {"full", "partial"}, Stores(t, rows, x)
  PROVE  LET c == turn[t].conversation IN
         /\ c \in Conversation
         /\ message' = message \union rows
         /\ \A m \in rows : /\ m \in Message /\ m.conversation = c /\ m.turn = t
                            /\ m.sequence \in {turn[t].sequence, turn[t].sequence + 1}
         /\ Exists' = Exists \union {c}
         /\ home' \in [Exists' -> Workspace]
         /\ home'[c] = turn[t].workspace
         /\ \A y \in Exists : home'[y] = home[y]
         /\ c \in Exists \/ (turn[t].fresh /\ Waiting(t))
  <1> DEFINE c == turn[t].conversation
  <1>1. c \in Conversation /\ turn[t].workspace \in Workspace
    BY RowsAre DEF Stores, IInv, TypeOK, Progress
  <1>2. /\ message' = message \union rows
        /\ \/ c \in Exists /\ UNCHANGED home
           \/ /\ turn[t].fresh /\ c \notin Exists
              /\ home' = [y \in Exists \union {c} |->
                            IF y = c THEN turn[t].workspace ELSE home[y]]
    BY DEF Stores, Insert
  <1>3. c \in Exists \/ Waiting(t)
    BY DEF Stores
  <1>4. /\ Prompt(t) \in Message /\ Reply(t, x) \in Message
        /\ Prompt(t).conversation = c /\ Reply(t, x).conversation = c
        /\ Prompt(t).turn = t /\ Reply(t, x).turn = t
        /\ Prompt(t).sequence = turn[t].sequence
        /\ Reply(t, x).sequence = turn[t].sequence + 1
    BY RowsAre DEF Stores
  <1>5. \A m \in rows : /\ m \in Message /\ m.conversation = c /\ m.turn = t
                        /\ m.sequence \in {turn[t].sequence, turn[t].sequence + 1}
    <2>1. \A m \in rows : m = Prompt(t) \/ m = Reply(t, x)
      BY DEF Stores
    <2>2. QED
      BY <1>4, <2>1
  <1> HIDE DEF c
  <1>6. home \in [Exists -> Workspace] /\ (c \in Exists => home[c] = turn[t].workspace)
    BY DEF IInv, TypeOK, Places, HomeAgrees, c
  <1>7. /\ Exists' = Exists \union {c} /\ home' \in [Exists' -> Workspace]
        /\ home'[c] = turn[t].workspace /\ \A y \in Exists : home'[y] = home[y]
    <2>1. CASE c \in Exists /\ UNCHANGED home
      BY <1>6, <2>1 DEF Exists
    <2>2. CASE c \notin Exists /\ home' = [y \in Exists \union {c} |->
                            IF y = c THEN turn[t].workspace ELSE home[y]]
      BY <1>1, <1>6, <2>2 DEF Exists
    <2>3. QED
      BY <1>2, <2>1, <2>2
  <1>8. c \in Exists \/ (turn[t].fresh /\ Waiting(t))
    BY <1>2, <1>3
  <1>9. QED
    BY <1>1, <1>2, <1>5, <1>7, <1>8 DEF c

LEMMA StoresKeepsPlaces ==
  ASSUME IInv, NEW t \in Turn, NEW rows, NEW x \in {"full", "partial"}, Stores(t, rows, x)
  PROVE  TypeOK' /\ Places'
  <1> DEFINE c == turn[t].conversation
  <1>1. /\ c \in Conversation
        /\ message' = message \union rows
        /\ \A m \in rows : m \in Message /\ m.conversation = c /\ m.turn = t
        /\ Exists' = Exists \union {c}
        /\ home' \in [Exists' -> Workspace]
        /\ home'[c] = turn[t].workspace
        /\ \A y \in Exists : home'[y] = home[y]
        /\ c \in Exists \/ (turn[t].fresh /\ Waiting(t))
    BY StoresShape
  <1>2. /\ turn' \in [Turn -> Progress] /\ crowded' = crowded
        /\ \A u \in Turn : /\ turn'[u].conversation = turn[u].conversation
                           /\ turn'[u].workspace = turn[u].workspace
                           /\ turn'[u].fresh = turn[u].fresh
                           /\ turn'[u].sequence = turn[u].sequence
        /\ \A u \in Turn \ {t} : turn'[u] = turn[u]
        /\ turn'[t].stage \in {"streaming", "done", "failed"}
    BY DEF Stores, Moves
  <1>3. TypeOK'
    BY <1>1, <1>2 DEF IInv, TypeOK
  <1>4. KnowsConversation'
    BY <1>1, <1>2 DEF IInv, Places, KnowsConversation
  <1>5. FreshAlone'
    <2> SUFFICES ASSUME NEW u \in Turn, Waiting(u)', turn[u].fresh
                 PROVE  /\ turn[u].conversation \notin Exists'
                        /\ turn[u].sequence = 0
                        /\ \A v \in Turn : turn[v].conversation = turn[u].conversation => v = u
      BY <1>2 DEF FreshAlone
    <2>1. u # t /\ Waiting(u)
      BY <1>2 DEF Waiting
    <2>2. QED
      BY <1>1, <2>1 DEF IInv, Places, FreshAlone
  <1>6. HomeAgrees'
    <2> SUFFICES ASSUME NEW u \in Turn, turn[u].conversation \in Exists'
                 PROVE  home'[turn[u].conversation] = turn[u].workspace
      BY <1>2 DEF HomeAgrees
    <2>1. CASE turn[u].conversation \in Exists
      BY <1>1, <2>1 DEF IInv, Places, HomeAgrees
    <2>2. CASE turn[u].conversation \notin Exists
      <3>1. turn[u].conversation = c /\ turn[t].fresh /\ Waiting(t)
        BY <1>1, <2>2
      <3>2. u = t
        BY <3>1 DEF IInv, Places, FreshAlone
      <3>3. QED
        BY <1>1, <3>2
    <2>3. QED
      BY <2>1, <2>2
  <1>7. MessagesHaveAHome'
    <2> SUFFICES ASSUME NEW m \in message'
                 PROVE  /\ m.conversation \in Exists'
                        /\ home'[m.conversation] = turn'[m.turn].workspace
      BY DEF MessagesHaveAHome
    <2>1. CASE m \in message
      BY <1>1, <1>2, <2>1 DEF IInv, TypeOK, Message, Places, MessagesHaveAHome
    <2>2. CASE m \in rows
      BY <1>1, <1>2, <2>2
    <2>3. QED
      BY <1>1, <2>1, <2>2
  <1>8. QED
    BY <1>3, <1>4, <1>5, <1>6, <1>7 DEF Places

LEMMA StoresKeepsStored ==
  ASSUME IInv, NEW t \in Turn, NEW rows, NEW x \in {"full", "partial"}, Stores(t, rows, x)
  PROVE  Stored'
  <1> DEFINE c == turn[t].conversation
  <1>1. /\ message' = message \union rows /\ Exists' = Exists \union {c}
        /\ c \in Exists \/ (turn[t].fresh /\ Waiting(t))
    BY StoresShape
  <1>2. /\ \A u \in Turn : turn'[u].conversation = turn[u].conversation
        /\ \A u \in Turn \ {t} : turn'[u] = turn[u]
        /\ Prompt(t) \in message'
    BY <1>1 DEF Stores, Moves
  <1>3. \A u \in Turn : \A y : Prompt(u)' = Prompt(u) /\ Reply(u, y)' = Reply(u, y)
    BY MovesKeepsRows DEF Stores
  <1>4. ReplyFollowsItsPrompt'
    <2> SUFFICES ASSUME NEW m \in message', m.role = "assistant"
                 PROVE  \E p \in message' : /\ p.role = "user" /\ p.turn = m.turn
                                            /\ p.conversation = m.conversation
                                            /\ m.sequence = p.sequence + 1
      BY DEF ReplyFollowsItsPrompt
    <2>1. CASE m \in message
      BY <1>1, <2>1 DEF IInv, Stored, ReplyFollowsItsPrompt
    <2>2. CASE m \in rows
      <3>1. m = Reply(t, x)
        BY <2>2, RowsAre DEF Stores
      <3>2. /\ Prompt(t).role = "user" /\ Prompt(t).turn = m.turn
            /\ Prompt(t).conversation = m.conversation
            /\ m.sequence = Prompt(t).sequence + 1
        BY <3>1, RowsAre DEF Stores
      <3>3. QED
        BY <1>2, <3>2
    <2>3. QED
      BY <1>1, <2>1, <2>2
  <1>5. \A u \in Turn \ {t} : turn[u].conversation \in Exists' => turn[u].conversation \in Exists
    BY <1>1 DEF IInv, Places, FreshAlone
  <1>6. StreamStored'
    BY <1>1, <1>2, <1>3, <1>5 DEF IInv, Stored, StreamStored
  <1>7. EndedStored'
    <2> SUFFICES ASSUME NEW u \in Turn, turn'[u].stage \in {"done", "failed"},
                        turn[u].conversation \in Exists'
                 PROVE  /\ Prompt(u) \in message'
                        /\ turn'[u].text = "some" =>
                             Reply(u, Received(turn'[u].stage)) \in message'
      BY <1>2, <1>3 DEF EndedStored, Received
    <2>1. CASE u = t
      BY <1>1, <1>2, <2>1 DEF Stores
    <2>2. CASE u # t
      BY <1>1, <1>2, <1>5, <2>2 DEF IInv, Stored, EndedStored
    <2>3. QED
      BY <2>1, <2>2
  <1>8. RepliesEnded'
    <2> SUFFICES ASSUME NEW m \in message', m.role = "assistant"
                 PROVE  /\ turn'[m.turn].stage \in {"done", "failed"}
                        /\ m.text = Received(turn'[m.turn].stage)
      BY DEF RepliesEnded, Received
    <2>1. CASE m \in message
      <3>1. /\ m.turn \in Turn /\ turn[m.turn].stage \in {"done", "failed"}
            /\ m.text = Received(turn[m.turn].stage)
        BY <2>1 DEF IInv, TypeOK, Message, Stored, RepliesEnded
      <3>2. m.turn # t
        BY <3>1 DEF Stores, Writing, Waiting
      <3>3. QED
        BY <1>2, <3>1, <3>2
    <2>2. CASE m \in rows
      <3>1. m = Reply(t, x) /\ Reply(t, x) # Prompt(t)
        BY <2>2, RowsAre DEF Stores
      <3>2. m.turn = t /\ m.text = x
        BY <3>1 DEF Reply
      <3>3. turn'[t].stage # "streaming"
        BY <2>2, <3>1 DEF Stores
      <3>4. QED
        BY <3>2, <3>3 DEF Stores
    <2>3. QED
      BY <1>1, <2>1, <2>2
  <1>9. QED
    BY <1>4, <1>6, <1>7, <1>8 DEF Stored

\* One more message leaves a newest one.
LEMMA NewestOfMore ==
  ASSUME NEW S, NEW m, \A p \in S \union {m} : p.sequence \in Nat,
         S # {} => \E n \in S : \A p \in S : p.sequence <= n.sequence
  PROVE  \E n \in S \union {m} : \A p \in S \union {m} : p.sequence <= n.sequence
  <1>1. CASE S = {}
    BY <1>1
  <1>2. CASE S # {}
    <2>1. PICK n \in S : \A p \in S : p.sequence <= n.sequence
      BY <1>2
    <2>2. CASE m.sequence <= n.sequence
      BY <2>1, <2>2
    <2>3. CASE n.sequence <= m.sequence
      BY <2>1, <2>3
    <2>4. m.sequence <= n.sequence \/ n.sequence <= m.sequence
      BY <2>1
    <2>5. QED
      BY <2>2, <2>3, <2>4
  <1>3. QED
    BY <1>1, <1>2

\* A number is free for the prompt, and continues what is stored.
LEMMA StoresKeepsNumbers ==
  ASSUME IInv, NEW t \in Turn, NEW rows, NEW x \in {"full", "partial"}, Stores(t, rows, x)
  PROVE  Numbers'
  <1> DEFINE c == turn[t].conversation
             s == turn[t].sequence
  <1>1. /\ c \in Conversation
        /\ message' = message \union rows /\ Exists' = Exists \union {c}
        /\ c \in Exists \/ (turn[t].fresh /\ Waiting(t))
        /\ \A m \in rows : m.conversation = c
    BY StoresShape
  <1>2. /\ \A u \in Turn : /\ turn'[u].conversation = turn[u].conversation
                           /\ turn'[u].sequence = turn[u].sequence
        /\ \A u \in Turn \ {t} : turn'[u] = turn[u]
        /\ Prompt(t) \in message' /\ ~Waiting(t)'
    BY <1>1 DEF Stores, Moves, Waiting
  <1>3. /\ s \in Nat
        /\ Prompt(t).conversation = c /\ Prompt(t).sequence = s
        /\ Reply(t, x).conversation = c /\ Reply(t, x).sequence = s + 1
    BY RowsAre DEF Stores
  <1>4. \A m \in rows : m = Prompt(t) \/ m = Reply(t, x)
    BY DEF Stores
  <1>5. \A d : Then(d) = In(d) \union {m \in rows : m.conversation = d}
    BY <1>1 DEF In, Then
  <1>6. \A m \in message : m.sequence \in Nat
    BY DEF IInv, TypeOK, Message
  <1>7. HasNewest'
    <2> SUFFICES ASSUME NEW d \in Conversation, Then(d) # {}
                 PROVE  \E m \in Then(d) : \A p \in Then(d) : p.sequence <= m.sequence
      BY DEF HasNewest, In, Then
    <2> DEFINE P == Prompt(t)
               R == Reply(t, x)
               OK(S) == /\ \A p \in S : p.sequence \in Nat
                        /\ S # {} => \E n \in S : \A p \in S : p.sequence <= n.sequence
    <2>1. OK(In(d))
      BY <1>6, InIs DEF IInv, Numbers, HasNewest
    <2>2. ASSUME NEW S, OK(S)
          PROVE  OK(S \union {P}) /\ OK(S \union {R})
      BY <1>3, <2>2, NewestOfMore
    <2>3. \/ Then(d) = In(d)
          \/ Then(d) = In(d) \union {P}
          \/ Then(d) = In(d) \union {R}
          \/ Then(d) = (In(d) \union {P}) \union {R}
      <3>1. CASE d # c
        BY <1>1, <1>5, <3>1
      <3>2. CASE d = c
        <4>1. Then(d) = In(d) \union rows
          BY <1>1, <1>5, <3>2
        <4>2. rows \in {{P}, {R}, {P, R}}
          BY DEF Stores
        <4>3. QED
          BY <4>1, <4>2
      <3>3. QED
        BY <3>1, <3>2
    <2> HIDE DEF OK, P, R
    <2>4. OK(Then(d))
      BY <2>1, <2>2, <2>3
    <2>5. QED
      BY <2>4 DEF OK
  <1>8. SequencesHaveNoGaps'
    <2> SUFFICES ASSUME NEW m \in message', m.sequence > 0
                 PROVE  \E p \in Then(m.conversation) : p.sequence = m.sequence - 1
      BY DEF SequencesHaveNoGaps, In, Then
    <2>1. CASE m \in message
      BY <1>5, <2>1 DEF IInv, Numbers, SequencesHaveNoGaps
    <2>2. CASE m = Reply(t, x)
      <3>1. Prompt(t) \in Then(c)
        BY <1>2, <1>3, InNext
      <3>2. QED
        BY <1>3, <2>2, <3>1
    <2>3. CASE m = Prompt(t) /\ m \in rows
      <3>1. Waiting(t) /\ s > 0 /\ m.conversation = c /\ m.sequence = s
        BY <1>3, <2>3 DEF Stores
      <3>2. c \in Exists
        BY <1>1, <3>1 DEF IInv, Places, FreshAlone
      <3>3. \E p \in In(c) : p.sequence = s - 1
        BY <3>1, <3>2 DEF IInv, Numbers, ReadContinues
      <3>4. QED
        BY <1>5, <3>1, <3>3
    <2>4. QED
      BY <1>1, <1>4, <2>1, <2>2, <2>3
  <1>9. ReadContinues'
    <2> SUFFICES ASSUME NEW u \in Turn, Waiting(u)', turn[u].sequence > 0,
                        turn[u].conversation \in Exists'
                 PROVE  \E p \in Then(turn[u].conversation) : p.sequence = turn[u].sequence - 1
      BY <1>2 DEF ReadContinues, In, Then
    <2>1. u # t /\ Waiting(u)
      BY <1>2 DEF Waiting
    <2>2. turn[u].conversation \in Exists
      BY <1>1, <2>1 DEF IInv, Places, FreshAlone
    <2>3. \E p \in In(turn[u].conversation) : p.sequence = turn[u].sequence - 1
      BY <2>1, <2>2 DEF IInv, Numbers, ReadContinues
    <2>4. QED
      BY <1>5, <2>3
  <1>10. QED
    BY <1>7, <1>8, <1>9 DEF Numbers

\* Without another turn in flight the numbers of the new rows are free.
LEMMA StoresKeepsAlone ==
  ASSUME IInv, NEW t \in Turn, NEW rows, NEW x \in {"full", "partial"}, Stores(t, rows, x)
  PROVE  Alone'
  <1> DEFINE c == turn[t].conversation
             s == turn[t].sequence
  <1>1. /\ c \in Conversation /\ message' = message \union rows
        /\ \A m \in rows : m.conversation = c
    BY StoresShape
  <1>2. /\ \A u \in Turn : /\ turn'[u].conversation = turn[u].conversation
                           /\ turn'[u].sequence = turn[u].sequence
        /\ \A u \in Turn \ {t} : turn'[u] = turn[u]
        /\ ~Waiting(t)' /\ crowded' = crowded /\ Writing(t)
        /\ turn'[t].stage = "streaming" => rows = {Prompt(t)}
        /\ Prompt(t) \in rows => Waiting(t)
    BY DEF Stores, Moves, Waiting
  <1>3. /\ s \in Nat
        /\ Prompt(t).conversation = c /\ Prompt(t).sequence = s
        /\ Reply(t, x).conversation = c /\ Reply(t, x).sequence = s + 1
    BY RowsAre DEF Stores
  <1>4. \A m \in rows : m = Prompt(t) \/ m = Reply(t, x)
    BY DEF Stores
  <1>5. \A d : d # c => Then(d) = In(d)
    BY <1>1 DEF In, Then
  <1>6. \A m \in Then(c) : m \in In(c) \/ m \in rows
    BY <1>1 DEF In, Then
  <1>7. \A m \in In(c) : m.sequence \in Nat
    BY InIs DEF IInv, TypeOK, Message
  <1>8. \A u \in Turn : Writing(u)' => Writing(u)
    BY <1>2 DEF Writing, Waiting
  <1>9. AloneUnlessCrowded'
    BY <1>2, <1>8 DEF IInv, Alone, AloneUnlessCrowded
  <1>10. c \notin crowded => \A m \in In(c) : /\ m.sequence <= s
                                              /\ Prompt(t) \in rows => m.sequence < s
    BY <1>2, <1>3, <1>7 DEF IInv, Alone, OnTop, Writing
  <1>11. OnTop'
    <2> SUFFICES ASSUME NEW u \in Turn, turn[u].conversation \notin crowded, Writing(u)'
                 PROVE  /\ Waiting(u)' => \A m \in Then(turn[u].conversation) :
                                            m.sequence < turn[u].sequence
                        /\ turn'[u].stage = "streaming" =>
                             \A m \in Then(turn[u].conversation) : m.sequence <= turn[u].sequence
      BY <1>2 DEF OnTop, Writing, In, Then
    <2>1. CASE u = t
      BY <1>2, <1>3, <1>6, <1>10, <2>1
    <2>2. CASE u # t
      <3>1. Writing(u) /\ turn'[u] = turn[u]
        BY <1>2, <1>8, <2>2
      <3>2. turn[u].conversation # c
        BY <1>2, <3>1, <2>2 DEF IInv, Alone, AloneUnlessCrowded
      <3>3. Then(turn[u].conversation) = In(turn[u].conversation)
        BY <1>5, <3>2
      <3>4. QED
        BY <3>1, <3>3 DEF IInv, Alone, OnTop, Waiting
    <2>3. QED
      BY <2>1, <2>2
  <1>12. UniqueUnlessCrowded'
    <2> SUFFICES ASSUME NEW d \in Conversation \ crowded, NEW m \in Then(d), NEW n \in Then(d),
                        m.sequence = n.sequence
                 PROVE  m = n
      BY <1>2 DEF UniqueUnlessCrowded, NumberedOnce, In, Then
    <2>1. CASE d # c
      BY <1>5, <2>1 DEF IInv, Alone, UniqueUnlessCrowded, NumberedOnce
    <2>2. CASE d = c
      <3>1. CASE m \in In(c) /\ n \in In(c)
        BY <2>2, <3>1 DEF IInv, Alone, UniqueUnlessCrowded, NumberedOnce
      <3>2. CASE m \in rows /\ n \in rows
        BY <1>3, <1>4, <3>2
      <3>3. CASE m \in In(c) /\ n \in rows
        BY <1>3, <1>4, <1>7, <1>10, <2>2, <3>3
      <3>4. CASE m \in rows /\ n \in In(c)
        BY <1>3, <1>4, <1>7, <1>10, <2>2, <3>4
      <3>5. QED
        BY <1>6, <2>2, <3>1, <3>2, <3>3, <3>4
    <2>3. QED
      BY <2>1, <2>2
  <1>13. QED
    BY <1>9, <1>11, <1>12 DEF Alone

LEMMA StoresKeeps ==
  ASSUME IInv, NEW t \in Turn, NEW rows, NEW x \in {"full", "partial"}, Stores(t, rows, x)
  PROVE  IInv'
  BY StoresKeepsPlaces, StoresKeepsStored, StoresKeepsNumbers, StoresKeepsAlone DEF IInv

(***************************************************************************)
(* A step in which turn t stores nothing: a delta, a failure, or the end   *)
(* of a stream that has sent no text.                                      *)
(***************************************************************************)
StoresNothing(t) ==
  /\ Writing(t) /\ Moves(t) /\ UNCHANGED <<home, message, crowded>>
  /\ turn'[t].stage \in {"streaming", "done", "failed", "ended"}
  /\ turn'[t].stage # "ended" => turn[t].stage = "streaming"
  /\ turn'[t].stage \in {"done", "failed"} => turn'[t].text # "some"

LEMMA NothingKeeps ==
  ASSUME IInv, NEW t \in Turn, StoresNothing(t)
  PROVE  IInv'
  <1>1. /\ turn' \in [Turn -> Progress]
        /\ home' = home /\ message' = message /\ crowded' = crowded
        /\ \A u \in Turn : /\ turn'[u].conversation = turn[u].conversation
                           /\ turn'[u].workspace = turn[u].workspace
                           /\ turn'[u].fresh = turn[u].fresh
                           /\ turn'[u].sequence = turn[u].sequence
        /\ \A u \in Turn \ {t} : turn'[u] = turn[u]
    BY DEF StoresNothing, Moves
  <1>2. Exists' = Exists /\ \A c : Then(c) = In(c)
    BY <1>1 DEF Exists, In, Then
  <1>3. \A u \in Turn : \A y : Prompt(u)' = Prompt(u) /\ Reply(u, y)' = Reply(u, y)
    BY MovesKeepsRows DEF StoresNothing
  <1>4. \A u \in Turn : /\ Waiting(u)' => Waiting(u)
                        /\ turn'[u].stage = "streaming" => turn[u].stage = "streaming"
                        /\ Writing(u)' => Writing(u)
                        /\ turn'[u].stage # "new" => turn[u].stage # "new"
    BY <1>1 DEF StoresNothing, Waiting, Writing
  <1>5. TypeOK'
    BY <1>1, <1>2 DEF IInv, TypeOK
  <1>6. Places'
    <2>1. KnowsConversation' /\ FreshAlone'
      BY <1>1, <1>2, <1>4 DEF IInv, Places, KnowsConversation, FreshAlone
    <2>2. HomeAgrees'
      BY <1>1, <1>2 DEF IInv, Places, HomeAgrees
    <2>3. MessagesHaveAHome'
      BY <1>1, <1>2 DEF IInv, TypeOK, Message, Places, MessagesHaveAHome
    <2>4. QED
      BY <2>1, <2>2, <2>3 DEF Places
  <1>7. Stored'
    <2>1. ReplyFollowsItsPrompt'
      BY <1>1 DEF IInv, Stored, ReplyFollowsItsPrompt
    <2>2. StreamStored'
      BY <1>1, <1>2, <1>3, <1>4 DEF IInv, Stored, StreamStored
    <2>3. EndedStored'
      <3> SUFFICES ASSUME NEW u \in Turn, turn'[u].stage \in {"done", "failed"},
                          turn[u].conversation \in Exists
                   PROVE  /\ Prompt(u) \in message
                          /\ turn'[u].text = "some" =>
                               Reply(u, Received(turn'[u].stage)) \in message
        BY <1>1, <1>2, <1>3 DEF EndedStored, Received
      <3>1. CASE u = t
        BY <3>1 DEF StoresNothing, IInv, Stored, StreamStored
      <3>2. CASE u # t
        BY <1>1, <3>2 DEF IInv, Stored, EndedStored
      <3>3. QED
        BY <3>1, <3>2
    <2>4. RepliesEnded'
      <3> SUFFICES ASSUME NEW m \in message, m.role = "assistant"
                   PROVE  /\ turn'[m.turn].stage \in {"done", "failed"}
                          /\ m.text = Received(turn'[m.turn].stage)
        BY <1>1 DEF RepliesEnded, Received
      <3>1. /\ m.turn \in Turn /\ turn[m.turn].stage \in {"done", "failed"}
            /\ m.text = Received(turn[m.turn].stage)
        BY DEF IInv, TypeOK, Message, Stored, RepliesEnded
      <3>2. m.turn # t
        BY <3>1 DEF StoresNothing, Writing, Waiting
      <3>3. QED
        BY <1>1, <3>1, <3>2
    <2>5. QED
      BY <2>1, <2>2, <2>3, <2>4 DEF Stored
  <1>8. Numbers'
    <2>1. HasNewest' /\ SequencesHaveNoGaps'
      BY <1>1 DEF IInv, Numbers, HasNewest, SequencesHaveNoGaps, In
    <2>2. ReadContinues'
      BY <1>1, <1>2, <1>4 DEF IInv, Numbers, ReadContinues, In
    <2>3. QED
      BY <2>1, <2>2 DEF Numbers
  <1>9. Alone'
    <2>1. AloneUnlessCrowded'
      BY <1>1, <1>4 DEF IInv, Alone, AloneUnlessCrowded
    <2>2. OnTop'
      BY <1>1, <1>4 DEF IInv, Alone, OnTop, In
    <2>3. UniqueUnlessCrowded'
      BY <1>1 DEF IInv, Alone, UniqueUnlessCrowded, NumberedOnce, In
    <2>4. QED
      BY <2>1, <2>2, <2>3 DEF Alone
  <1>10. QED
    BY <1>5, <1>6, <1>7, <1>8, <1>9 DEF IInv

-----------------------------------------------------------------------------
(* The steps of a turn that has read its conversation. *)

LEMMA FinishChatKeeps ==
  ASSUME IInv, NEW t \in Turn, FinishChat(t)
  PROVE  IInv'
  <1>1. Moves(t) /\ turn'[t].stage = "done" /\ turn'[t].text = "some"
    BY TextMoves DEF FinishChat, IInv, Stage
  <1>2. Stores(t, {Prompt(t), Reply(t, "full")}, "full")
    BY <1>1 DEF FinishChat, Stores, Writing, Waiting, Received
  <1>3. QED
    BY <1>2, StoresKeeps

LEMMA CommitPromptKeeps ==
  ASSUME IInv, NEW t \in Turn, CommitPrompt(t)
  PROVE  IInv'
  <1>1. Moves(t) /\ turn'[t].stage = "streaming"
    BY StageMoves DEF CommitPrompt, Goto, IInv, Stage
  <1>2. Stores(t, {Prompt(t)}, "full")
    BY <1>1 DEF CommitPrompt, Goto, Stores, Writing, Waiting
  <1>3. QED
    BY <1>2, StoresKeeps

\* The finally block stores the reply, or nothing when no text was received.
LEMMA PersistKeeps ==
  ASSUME IInv, NEW t \in Turn, turn[t].stage = "streaming",
         NEW s \in {"done", "failed"}, NEW x, x = Received(s),
         Persist(t, x), Goto(t, s)
  PROVE  IInv'
  <1>1. /\ Moves(t) /\ turn'[t].stage = s /\ turn'[t].text = turn[t].text
        /\ crowded' = crowded
    BY StageMoves DEF Goto, IInv, Stage
  <1>2. Writing(t) /\ ~Waiting(t) /\ x \in {"full", "partial"}
    BY DEF Writing, Waiting, Received
  <1>3. CASE turn[t].text = "some"
    <2>1. turn[t].conversation \in Exists /\ Insert(t, {Reply(t, x)})
      BY <1>3 DEF Persist, Insert
    <2>2. Prompt(t) \in message
      BY <2>1 DEF IInv, Stored, StreamStored
    <2>3. Prompt(t) # Reply(t, x)
      BY DEF Prompt, Reply
    <2>4. Stores(t, {Reply(t, x)}, x)
      BY <1>1, <1>2, <2>1, <2>2, <2>3 DEF Stores
    <2>5. QED
      BY <1>2, <2>4, StoresKeeps
  <1>4. CASE turn[t].text # "some"
    <2>1. StoresNothing(t)
      BY <1>1, <1>2, <1>4 DEF Persist, StoresNothing
    <2>2. QED
      BY <2>1, NothingKeeps
  <1>5. QED
    BY <1>3, <1>4

LEMMA ContinueKeeps ==
  ASSUME IInv, NEW t \in Turn, Continue(t)
  PROVE  IInv'
  <1>1. CASE Delta(t)
    <2>1. turn' = [turn EXCEPT ![t].stage = "streaming", ![t].text = "some"]
      BY <1>1 DEF Delta, IInv, TypeOK, Progress
    <2>2. Moves(t) /\ turn'[t].stage = "streaming"
      BY <2>1, TextMoves DEF IInv, Stage
    <2>3. StoresNothing(t)
      BY <1>1, <2>2 DEF Delta, StoresNothing, Writing
    <2>4. QED
      BY <2>3, NothingKeeps
  <1>2. CASE Abort(t)
    <2>1. Moves(t) /\ turn'[t].stage = "ended"
      BY <1>2, StageMoves DEF Abort, Goto, IInv, Stage
    <2>2. StoresNothing(t)
      BY <1>2, <2>1 DEF Abort, Goto, StoresNothing, Writing, Waiting
    <2>3. QED
      BY <2>2, NothingKeeps
  <1>3. CASE FinishStream(t)
    BY <1>3, PersistKeeps DEF FinishStream, Received
  <1>4. CASE StreamFails(t)
    BY <1>4, PersistKeeps DEF StreamFails, Received
  <1>5. QED
    BY <1>1, <1>2, <1>3, <1>4, FinishChatKeeps, CommitPromptKeeps DEF Continue

-----------------------------------------------------------------------------
(* A turn reads its conversation. *)

\* NextSequence is larger than every number in the conversation and, unless it
\* is 0, directly follows one of them.
LEMMA NextSequenceIs ==
  ASSUME IInv, NEW c \in Conversation
  PROVE  /\ NextSequence(c) \in Nat
         /\ \A m \in In(c) : m.sequence < NextSequence(c)
         /\ NextSequence(c) > 0 => \E p \in In(c) : p.sequence = NextSequence(c) - 1
         /\ In(c) = {} => NextSequence(c) = 0
  <1>1. \A m \in In(c) : m.sequence \in Nat
    BY InIs DEF IInv, TypeOK, Message
  <1>2. CASE In(c) = {}
    BY <1>2 DEF NextSequence
  <1>3. CASE In(c) # {}
    <2>1. PICK top \in In(c) : \A p \in In(c) : p.sequence <= top.sequence
      BY <1>3 DEF IInv, Numbers, HasNewest
    <2>2. top.sequence \in {m.sequence : m \in In(c)}
      OBVIOUS
    <2>3. /\ Newest(c) \in {m.sequence : m \in In(c)}
          /\ \A m \in In(c) : m.sequence <= Newest(c)
      BY <2>1, <2>2 DEF Newest
    <2>4. PICK p \in In(c) : p.sequence = Newest(c)
      BY <2>3
    <2>5. NextSequence(c) = Newest(c) + 1 /\ Newest(c) \in Nat
      BY <1>1, <1>3, <2>4 DEF NextSequence
    <2>6. QED
      BY <1>1, <1>3, <2>3, <2>4, <2>5
  <1>4. QED
    BY <1>2, <1>3

LEMMA ReadKeeps ==
  ASSUME IInv, NEW t \in Turn, NEW stage \in {"waiting", "flushed"}, Read(t, stage)
  PROVE  IInv'
  <1>1. PICK c \in Conversation :
          /\ c \in Loadable(t) \/ c \notin Taken
          /\ turn' = [turn EXCEPT ![t].stage = stage, ![t].conversation = c,
                                  ![t].fresh = c \notin Exists,
                                  ![t].sequence = NextSequence(c)]
          /\ crowded' = crowded \union {x \in {c} : InFlight(x)}
    BY DEF Read
  <1>2. /\ home' = home /\ message' = message /\ Exists' = Exists
        /\ turn[t].stage = "new"
    BY DEF Read, Exists
  <1>3. turn \in [Turn -> Progress] /\ turn[t] \in Progress
    BY DEF IInv, TypeOK
  <1> DEFINE n == NextSequence(c)
  <1>4. /\ n \in Nat
        /\ \A m \in In(c) : m.sequence < n
        /\ n > 0 => \E p \in In(c) : p.sequence = n - 1
        /\ In(c) = {} => n = 0
    BY NextSequenceIs
  <1> HIDE DEF n
  <1>5. \A u \in Turn \ {t} : turn'[u] = turn[u]
    BY <1>1, <1>3
  <1>6. /\ turn'[t] \in Progress
        /\ turn'[t].stage = stage /\ turn'[t].conversation = c
        /\ turn'[t].fresh = (c \notin Exists) /\ turn'[t].sequence = n
        /\ turn'[t].workspace = turn[t].workspace
    <2>1. turn'[t] = [turn[t] EXCEPT !.stage = stage, !.conversation = c,
                                     !.fresh = c \notin Exists, !.sequence = n]
      BY <1>1, <1>3 DEF n
    <2>2. (c \notin Exists) \in BOOLEAN
      OBVIOUS
    <2>3. QED
      BY <1>3, <1>4, <2>1, <2>2 DEF Progress, Stage
  <1>7. turn' \in [Turn -> Progress]
    BY <1>1, <1>3, <1>5, <1>6
  <1>8. c \in Exists => home[c] = turn[t].workspace
    BY <1>1 DEF Loadable, Taken
  <1>9. c \notin Exists => /\ \A u \in Turn : turn[u].conversation # c
                           /\ In(c) = {}
    BY <1>1 DEF Loadable, Taken, In, IInv, Places, MessagesHaveAHome
  <1>10. /\ crowded \subseteq crowded' /\ crowded' \subseteq Conversation
         /\ \A u \in Turn : Writing(u) /\ turn[u].conversation = c => c \in crowded'
    BY <1>1 DEF IInv, TypeOK, InFlight, Writing, Waiting
  <1>11. TypeOK'
    BY <1>2, <1>7, <1>10 DEF IInv, TypeOK
  <1>12. Places'
    <2>1. KnowsConversation'
      BY <1>5, <1>6 DEF IInv, Places, KnowsConversation
    <2>2. FreshAlone'
      <3> SUFFICES ASSUME NEW u \in Turn, Waiting(u)', turn'[u].fresh
                   PROVE  /\ turn'[u].conversation \notin Exists
                          /\ turn'[u].sequence = 0
                          /\ \A v \in Turn : turn'[v].conversation = turn'[u].conversation => v = u
        BY <1>2 DEF FreshAlone
      <3>1. CASE u = t
        BY <1>4, <1>5, <1>6, <1>9, <3>1
      <3>2. CASE u # t
        <4>1. Waiting(u) /\ turn[u].fresh /\ turn'[u] = turn[u]
          BY <1>5, <3>2 DEF Waiting
        <4>2. /\ turn[u].conversation \notin Exists /\ turn[u].sequence = 0
              /\ \A v \in Turn : turn[v].conversation = turn[u].conversation => v = u
          BY <4>1 DEF IInv, Places, FreshAlone
        <4>3. turn[u].conversation # c
          BY <1>9, <4>2
        <4>4. QED
          BY <1>5, <1>6, <4>1, <4>2, <4>3
      <3>3. QED
        BY <3>1, <3>2
    <2>3. HomeAgrees'
      BY <1>2, <1>5, <1>6, <1>8 DEF IInv, Places, HomeAgrees
    <2>4. MessagesHaveAHome'
      BY <1>2, <1>5, <1>6 DEF IInv, TypeOK, Message, Places, MessagesHaveAHome
    <2>5. QED
      BY <2>1, <2>2, <2>3, <2>4 DEF Places
  <1>13. \A u \in Turn \ {t} : \A y : Prompt(u)' = Prompt(u) /\ Reply(u, y)' = Reply(u, y)
    BY <1>5 DEF Prompt, Reply
  <1>14. Stored'
    <2>1. ReplyFollowsItsPrompt'
      BY <1>2 DEF IInv, Stored, ReplyFollowsItsPrompt
    <2>2. StreamStored'
      BY <1>2, <1>5, <1>6, <1>13 DEF IInv, Stored, StreamStored
    <2>3. EndedStored'
      BY <1>2, <1>5, <1>6, <1>13 DEF IInv, Stored, EndedStored, Received
    <2>4. RepliesEnded'
      <3> SUFFICES ASSUME NEW m \in message, m.role = "assistant"
                   PROVE  /\ turn'[m.turn].stage \in {"done", "failed"}
                          /\ m.text = Received(turn'[m.turn].stage)
        BY <1>2 DEF RepliesEnded, Received
      <3>1. /\ m.turn \in Turn /\ turn[m.turn].stage \in {"done", "failed"}
            /\ m.text = Received(turn[m.turn].stage)
        BY DEF IInv, TypeOK, Message, Stored, RepliesEnded
      <3>2. m.turn # t
        BY <1>2, <3>1
      <3>3. QED
        BY <1>5, <3>1, <3>2
    <2>5. QED
      BY <2>1, <2>2, <2>3, <2>4 DEF Stored
  <1>15. Numbers'
    <2>1. HasNewest' /\ SequencesHaveNoGaps'
      BY <1>2 DEF IInv, Numbers, HasNewest, SequencesHaveNoGaps, In
    <2>2. ReadContinues'
      <3> SUFFICES ASSUME NEW u \in Turn, Waiting(u)', turn'[u].sequence > 0,
                          turn'[u].conversation \in Exists
                   PROVE  \E p \in In(turn'[u].conversation) : p.sequence = turn'[u].sequence - 1
        BY <1>2 DEF ReadContinues, In
      <3>1. CASE u = t
        BY <1>4, <1>6, <3>1
      <3>2. CASE u # t
        BY <1>5, <3>2 DEF IInv, Numbers, ReadContinues, Waiting
      <3>3. QED
        BY <3>1, <3>2
    <2>3. QED
      BY <2>1, <2>2 DEF Numbers
  <1>16. Alone'
    <2>1. AloneUnlessCrowded'
      <3> SUFFICES ASSUME NEW u \in Turn, NEW v \in Turn, Writing(u)', Writing(v)',
                          turn'[u].conversation = turn'[v].conversation,
                          turn'[u].conversation \notin crowded'
                   PROVE  u = v
        BY DEF AloneUnlessCrowded
      <3>1. \A w \in Turn \ {t} : Writing(w)' <=> Writing(w)
        BY <1>5 DEF Writing, Waiting
      <3>2. QED
        BY <1>5, <1>6, <1>10, <3>1 DEF IInv, Alone, AloneUnlessCrowded
    <2>2. OnTop'
      <3> SUFFICES ASSUME NEW u \in Turn, turn'[u].conversation \notin crowded
                   PROVE  /\ Waiting(u)' => \A m \in In(turn'[u].conversation) :
                                              m.sequence < turn'[u].sequence
                          /\ turn'[u].stage = "streaming" =>
                               \A m \in In(turn'[u].conversation) : m.sequence <= turn'[u].sequence
        BY <1>2, <1>10 DEF OnTop, In
      <3>1. CASE u = t
        BY <1>4, <1>6, <3>1
      <3>2. CASE u # t
        BY <1>5, <3>2 DEF IInv, Alone, OnTop, Waiting
      <3>3. QED
        BY <3>1, <3>2
    <2>3. UniqueUnlessCrowded'
      BY <1>2, <1>10 DEF IInv, Alone, UniqueUnlessCrowded, NumberedOnce, In
    <2>4. QED
      BY <2>1, <2>2, <2>3 DEF Alone
  <1>17. QED
    BY <1>11, <1>12, <1>14, <1>15, <1>16 DEF IInv

-----------------------------------------------------------------------------
(* A conversation is deleted, with the messages it has at the commit. *)

LEMMA DeleteKeeps ==
  ASSUME IInv, NEW d \in Conversation, Delete(d)
  PROVE  IInv'
  <1>1. /\ Exists' = Exists \ {d} /\ turn' = turn /\ crowded' = crowded
        /\ home' \in [Exists' -> Workspace] /\ \A c \in Exists' : home'[c] = home[c]
        /\ \A m : m \in message' <=> m \in message /\ m.conversation # d
    BY DEF Delete, Exists, In, IInv, TypeOK
  <1>2. \A c : c # d => Then(c) = In(c)
    BY <1>1 DEF In, Then
  <1>3. Then(d) = {} /\ \A c : Then(c) \subseteq In(c)
    BY <1>1 DEF In, Then
  <1>4. TypeOK'
    BY <1>1 DEF IInv, TypeOK
  <1>5. Places'
    BY <1>1 DEF IInv, Places, KnowsConversation, FreshAlone, HomeAgrees,
                MessagesHaveAHome, Waiting
  <1>6. \A u \in Turn : \A y : Prompt(u)' = Prompt(u) /\ Reply(u, y)' = Reply(u, y)
    BY <1>1 DEF Prompt, Reply
  <1>7. \A u \in Turn : \A y : /\ Prompt(u).conversation = turn[u].conversation
                               /\ Reply(u, y).conversation = turn[u].conversation
    BY DEF Prompt, Reply
  <1>8. Stored'
    <2>1. ReplyFollowsItsPrompt'
      BY <1>1 DEF IInv, Stored, ReplyFollowsItsPrompt
    <2>2. ASSUME NEW u \in Turn, turn[u].conversation \in Exists', NEW m \in message,
                 m.conversation = turn[u].conversation
          PROVE  turn[u].conversation \in Exists /\ m \in message'
      BY <1>1, <2>2
    <2>3. StreamStored'
      <3>1. \A u \in Turn : turn[u].stage = "streaming" /\ turn[u].conversation \in Exists' =>
               Prompt(u) \in message'
        BY <1>1, <1>7, <2>2 DEF IInv, Stored, StreamStored
      <3>2. QED
        BY <1>1, <1>6, <3>1 DEF StreamStored
    <2>4. EndedStored'
      <3>1. \A u \in Turn : turn[u].stage \in {"done", "failed"}
                             /\ turn[u].conversation \in Exists' =>
               /\ Prompt(u) \in message'
               /\ turn[u].text = "some" => Reply(u, Received(turn[u].stage)) \in message'
        BY <1>1, <1>7, <2>2 DEF IInv, Stored, EndedStored
      <3>2. QED
        BY <1>1, <1>6, <3>1 DEF EndedStored, Received
    <2>5. RepliesEnded'
      BY <1>1 DEF IInv, Stored, RepliesEnded, Received
    <2>6. QED
      BY <2>1, <2>3, <2>4, <2>5 DEF Stored
  <1>9. Numbers'
    <2>1. HasNewest'
      <3>1. \A c \in Conversation : Then(c) # {} =>
               \E m \in Then(c) : \A p \in Then(c) : p.sequence <= m.sequence
        BY <1>2, <1>3 DEF IInv, Numbers, HasNewest
      <3>2. QED
        BY <3>1 DEF HasNewest, In, Then
    <2>2. SequencesHaveNoGaps'
      <3>1. \A m \in message' : m.sequence > 0 =>
               \E p \in Then(m.conversation) : p.sequence = m.sequence - 1
        BY <1>1, <1>2 DEF IInv, Numbers, SequencesHaveNoGaps
      <3>2. QED
        BY <3>1 DEF SequencesHaveNoGaps, In, Then
    <2>3. ReadContinues'
      <3>1. \A u \in Turn : Waiting(u) /\ turn[u].sequence > 0 /\ turn[u].conversation \in Exists' =>
               \E p \in Then(turn[u].conversation) : p.sequence = turn[u].sequence - 1
        BY <1>1, <1>2 DEF IInv, Numbers, ReadContinues
      <3>2. QED
        BY <1>1, <3>1 DEF ReadContinues, Waiting, In, Then
    <2>4. QED
      BY <2>1, <2>2, <2>3 DEF Numbers
  <1>10. Alone'
    <2>1. AloneUnlessCrowded'
      BY <1>1 DEF IInv, Alone, AloneUnlessCrowded, Writing, Waiting
    <2>2. OnTop'
      <3>1. \A u \in Turn : turn[u].conversation \notin crowded =>
               /\ Waiting(u) => \A m \in Then(turn[u].conversation) : m.sequence < turn[u].sequence
               /\ turn[u].stage = "streaming" =>
                    \A m \in Then(turn[u].conversation) : m.sequence <= turn[u].sequence
        BY <1>3 DEF IInv, Alone, OnTop
      <3>2. QED
        BY <1>1, <3>1 DEF OnTop, Waiting, In, Then
    <2>3. UniqueUnlessCrowded'
      <3>1. \A c \in Conversation \ crowded : \A m, n \in Then(c) : m.sequence = n.sequence => m = n
        BY <1>3 DEF IInv, Alone, UniqueUnlessCrowded, NumberedOnce
      <3>2. QED
        BY <1>1, <3>1 DEF UniqueUnlessCrowded, NumberedOnce, In, Then
    <2>4. QED
      BY <2>1, <2>2, <2>3 DEF Alone
  <1>11. QED
    BY <1>4, <1>5, <1>8, <1>9, <1>10 DEF IInv

-----------------------------------------------------------------------------
LEMMA InitIInv == Init => IInv
  <1> SUFFICES ASSUME Init PROVE IInv
    OBVIOUS
  <1>1. Exists = {} /\ message = {} /\ \A c : In(c) = {}
    BY DEF Init, Exists, In
  <1> DEFINE Fresh(w) == [stage |-> "new", workspace |-> w, conversation |-> None,
                          fresh |-> FALSE, sequence |-> 0, text |-> "empty"]
  <1>2. turn \in [Turn -> Progress] /\ \A t \in Turn : turn[t].stage = "new"
    <2>1. turn \in [Turn -> {Fresh(w) : w \in Workspace}]
      BY DEF Init
    <2>2. \A w \in Workspace : Fresh(w) \in Progress /\ Fresh(w).stage = "new"
      BY DEF Progress, Stage
    <2> HIDE DEF Fresh
    <2>3. \A t \in Turn : \E w \in Workspace : turn[t] = Fresh(w)
      BY <2>1
    <2>4. QED
      BY <2>1, <2>2, <2>3
  <1>3. TypeOK
    BY <1>1, <1>2 DEF Init, TypeOK, Exists
  <1>4. Places
    BY <1>1, <1>2 DEF Places, KnowsConversation, FreshAlone, HomeAgrees, MessagesHaveAHome, Waiting
  <1>5. Stored
    BY <1>1, <1>2 DEF Stored, ReplyFollowsItsPrompt, StreamStored, EndedStored, RepliesEnded
  <1>6. Numbers
    BY <1>1, <1>2 DEF Numbers, HasNewest, SequencesHaveNoGaps, ReadContinues, Waiting
  <1>7. Alone
    BY <1>1, <1>2 DEF Alone, AloneUnlessCrowded, OnTop, UniqueUnlessCrowded, NumberedOnce,
                      Writing, Waiting
  <1>8. QED
    BY <1>3, <1>4, <1>5, <1>6, <1>7 DEF IInv

LEMMA StutterKeeps ==
  ASSUME IInv, UNCHANGED vars
  PROVE  IInv'
  <1>1. TypeOK' /\ Places'
    BY DEF vars, IInv, TypeOK, Places, KnowsConversation, FreshAlone, HomeAgrees,
           MessagesHaveAHome, Waiting, Exists
  <1>2. Stored'
    BY DEF vars, IInv, Stored, ReplyFollowsItsPrompt, StreamStored, EndedStored,
           RepliesEnded, Received, Prompt, Reply, Exists
  <1>3. Numbers' /\ Alone'
    BY DEF vars, IInv, Numbers, HasNewest, SequencesHaveNoGaps, ReadContinues,
           Alone, AloneUnlessCrowded, OnTop, UniqueUnlessCrowded, NumberedOnce,
           Writing, Waiting, In, Exists
  <1>4. QED
    BY <1>1, <1>2, <1>3 DEF IInv

LEMMA NextKeeps == IInv /\ [Next]_vars => IInv'
  <1>1. ASSUME IInv, NEW t \in Turn, Begin(t)
        PROVE  IInv'
    BY <1>1, ReadKeeps DEF Begin, BeginChat, BeginStream
  <1>2. QED
    BY <1>1, ContinueKeeps, DeleteKeeps, StutterKeeps DEF Next

THEOREM Invariance == Spec => []IInv
  BY InitIInv, NextKeeps, PTL DEF Spec

-----------------------------------------------------------------------------
(* The properties. *)

\* Conversations, messages and turns are always well typed.
THEOREM TypeCorrect == Spec => []TypeOK
  <1>1. IInv => TypeOK
    BY DEF IInv
  <1>2. QED
    BY <1>1, Invariance, PTL

\* A message is only ever stored in an existing conversation of the workspace
\* its author wrote from, whatever is deleted meanwhile (chat.py 131-168).
THEOREM MessagesHaveAHomeHolds == Spec => []MessagesHaveAHome
  <1>1. IInv => MessagesHaveAHome
    BY DEF IInv, Places
  <1>2. QED
    BY <1>1, Invariance, PTL

\* A stored reply directly follows its prompt, also when the two are committed
\* by two transactions with other turns in between (chat.py 236-365).
THEOREM ReplyFollowsItsPromptHolds == Spec => []ReplyFollowsItsPrompt
  <1>1. IInv => ReplyFollowsItsPrompt
    BY DEF IInv, Stored
  <1>2. QED
    BY <1>1, Invariance, PTL

\* Overlapping, failing and disconnected turns leave no gap in the numbers.
THEOREM SequencesHaveNoGapsHolds == Spec => []SequencesHaveNoGaps
  <1>1. IInv => SequencesHaveNoGaps
    BY DEF IInv, Numbers
  <1>2. QED
    BY <1>1, Invariance, PTL

\* What was reported complete has been stored completely, and truncated text is
\* stored only for a turn that failed (chat.py 282-304).
THEOREM StoredAsToldHolds == Spec => []StoredAsTold
  <1>1. IInv => StoredAsTold
    BY DEF IInv, Stored, StoredAsTold
  <1>2. QED
    BY <1>1, Invariance, PTL

\* Numbers are unique in every conversation that never had two turns in flight
\* at once, however many turns failed in it (chat.py 75-87 and 170-219).
THEOREM UniqueUnlessCrowdedHolds == Spec => []UniqueUnlessCrowded
  <1>1. IInv => UniqueUnlessCrowded
    BY DEF IInv, Alone
  <1>2. QED
    BY <1>1, Invariance, PTL
=============================================================================
