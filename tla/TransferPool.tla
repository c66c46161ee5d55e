---------------------------- MODULE TransferPool ----------------------------
(***************************************************************************)
(* What TransferEngine promises of its workers, whatever the files hold and *)
(* whatever commands come: a transfer is admitted only when it is not       *)
(* already in the pool, at most MaxWorkers are active, and every admitted   *)
(* transfer is served and leaves again. A restart empties the pool.         *)
(***************************************************************************)
EXTENDS Integers, FiniteSets

CONSTANTS Ids, MaxWorkers

VARIABLES
  waiting,  \* admitted, waiting for a permit
  active    \* holding a permit

poolVars == <<waiting, active>>

Init == waiting = {} /\ active = {}

Admit(id) ==
  /\ id \notin waiting \cup active
  /\ waiting' = waiting \cup {id}
  /\ UNCHANGED active

Serve(id) ==
  /\ id \in waiting
  /\ Cardinality(active) < MaxWorkers
  /\ waiting' = waiting \ {id}
  /\ active' = active \cup {id}

Finish(id) ==
  /\ id \in active
  /\ active' = active \ {id}
  /\ UNCHANGED waiting

Restart == waiting' = {} /\ active' = {}

Next ==
  \/ \E id \in Ids : Admit(id) \/ Serve(id) \/ Finish(id)
  \/ Restart

SafetySpec == Init /\ [][Next]_poolVars

\* First come, first served: no admitted transfer is passed over for ever.
Fairness == \A id \in Ids : SF_poolVars(Serve(id)) /\ WF_poolVars(Finish(id))

Spec == SafetySpec /\ Fairness

============================================================================
