-------------------------- MODULE MCConversations --------------------------
(* Conversations for TLC.                                                  *)
EXTENDS Conversations, TLC

Symmetry == Permutations(Requests)
=============================================================================
