----------------------------- MODULE StagedWrite -----------------------------
(***************************************************************************)
(* What an object store promises the callers of StorageBackend::write on S3,*)
(* Azure Blob and OneDrive: the object changes in one step from what it was *)
(* to the whole of one upload, an upload that answers Ok has made that step,*)
(* and one that fails or is dropped may still make it, but only whole.      *)
(* Where uploads of one name share their blocks (Azure), that holds unless  *)
(* two of them overlap.                                                     *)
(***************************************************************************)
CONSTANTS Writers

VARIABLES
  object,       \* "before", "lost", "mixed" or the writer whose bytes it holds
  phase,        \* each upload: "new", "going", "ok" or "over"
  published,    \* the uploads that have replaced the object
  clash,        \* have two uploads overlapped
  shared,       \* do uploads share their blocks
  convertible   \* may the old object have to be deleted to be replaced

vars == <<object, phase, published, clash, shared, convertible>>

Init ==
  /\ object = "before"
  /\ phase = [w \in Writers |-> "new"]
  /\ published = {}
  /\ clash = FALSE
  /\ shared \in BOOLEAN
  /\ convertible \in BOOLEAN

Begin(w) ==
  /\ phase[w] = "new"
  /\ phase' \in {[phase EXCEPT ![w] = "going"], [phase EXCEPT ![w] = "over"]}
  /\ clash' \in IF \E v \in Writers \ {w} : phase[v] # "new" THEN {clash, TRUE} ELSE {clash}
  /\ UNCHANGED <<object, published, shared, convertible>>

\* Late if the upload is over: its last request was still under way.
Publish(w) ==
  /\ phase[w] \in {"going", "over"}
  /\ w \notin published
  /\ object' = w
  /\ published' = published \cup {w}
  /\ UNCHANGED <<phase, clash, shared, convertible>>

Acknowledge(w) ==
  /\ phase[w] = "going"
  /\ w \in published
  /\ phase' = [phase EXCEPT ![w] = "ok"]
  /\ UNCHANGED <<object, published, clash, shared, convertible>>

\* One upload fails or is dropped, or the program ends and takes several with it.
GiveUp ==
  /\ phase' \in [Writers -> {"new", "going", "ok", "over"}]
  /\ \A w \in Writers : phase'[w] # phase[w] => phase[w] = "going" /\ phase'[w] = "over"
  /\ UNCHANGED <<object, published, clash, shared, convertible>>

\* The old object is of a kind that has to go before the new one can come.
Convert ==
  /\ convertible
  /\ published = {}
  /\ object' = "lost"
  /\ UNCHANGED <<phase, published, clash, shared, convertible>>

\* Uploads that overlap and share their blocks are promised nothing.
Interfere ==
  /\ shared /\ clash
  /\ object' \in {"before", "lost", "mixed"} \cup Writers
  /\ phase' \in [Writers -> {"new", "going", "ok", "over"}]
  /\ \A w \in Writers : phase'[w] # phase[w] => phase[w] = "going" /\ phase'[w] # "new"
  /\ published' \in SUBSET Writers
  /\ UNCHANGED <<clash, shared, convertible>>

Next ==
  \/ \E w \in Writers : Begin(w) \/ Publish(w) \/ Acknowledge(w)
  \/ GiveUp
  \/ Convert
  \/ Interfere

Spec == Init /\ [][Next]_vars
==============================================================================
