---------------------------- MODULE MCDmConversation ----------------------------
(* A small instance of DmConversation. *)
EXTENDS DmConversation, TLC

CONSTANTS h1, h2, q1, q2

Symmetry == Permutations(Handler) \cup Permutations(Question)
=============================================================================
