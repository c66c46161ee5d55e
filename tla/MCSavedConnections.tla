------------------------ MODULE MCSavedConnections ------------------------
(* Two tasks of any kind over two bookmarks, a host with two keys of one
   algorithm and one of another. *)
EXTENDS SavedConnections, TLC

\* Tasks, bookmarks and keys are each alike, and no property asks for liveness.
Symmetry == {p @@ q @@ r : p \in Permutations(Actors), q \in Permutations(Marks),
                           r \in Permutations(Ed)}
==============================================================================
