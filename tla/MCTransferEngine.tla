-------------------------- MODULE MCTransferEngine --------------------------
(* TransferEngine on small instances. *)
EXTENDS TransferEngine, TLC

\* Workers, clients and ids are interchangeable.
Symmetry == Permutations(Workers) \cup Permutations(Clients) \cup Permutations(Ids)

============================================================================
