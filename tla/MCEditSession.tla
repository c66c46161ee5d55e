--------------------------- MODULE MCEditSession ---------------------------
(* EditSession on small instances. *)
EXTENDS EditSession, TLC

\* Sessions and calls are interchangeable.
Symmetry == Permutations(Sessions) \cup Permutations(Calls)

============================================================================
