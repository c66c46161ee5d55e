---------------------------- MODULE MCObjectTree ----------------------------
(* Two commands and an upload over a tree of two names and one below each. *)
EXTENDS ObjectTree, TLC

\* Commands are alike, and no property asks for liveness.
Symmetry == Permutations(Ops)
==============================================================================
