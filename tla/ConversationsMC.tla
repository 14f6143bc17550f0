--------------------------- MODULE ConversationsMC ---------------------------
(* Conversations for TLC: workspaces, conversations and turns are            *)
(* interchangeable.                                                          *)
EXTENDS Conversations, TLC

Symmetry == Permutations(Workspace) \union Permutations(Conversation)
              \union Permutations(Turn)
=============================================================================
