------------------------- MODULE MCChatSessionCap -------------------------
(***************************************************************************)
(* Instances of ChatSessionCap for TLC.                                    *)
(***************************************************************************)
EXTENDS ChatSessionCap, TLC

Symmetry == Permutations(Turns) \cup Permutations(Sessions)
=============================================================================
