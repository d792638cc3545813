----------------------------- MODULE PodCustody -----------------------------
(***************************************************************************)
(* What SimulationWorkflow promises about the pods it is given, without    *)
(* saying how: it uses one pod at a time, it gives every pod back (or has  *)
(* tried as often as it may), and it has given everything back when it     *)
(* ends.  With Recycle = FALSE a pod that was given back is never used     *)
(* again, which is what the pod swap is for.                               *)
(***************************************************************************)
CONSTANTS Pod, Recycle

VARIABLES custody,   \* [Pod -> {"free", "held", "released", "leaked"}]
          ended

vars == <<custody, ended>>

Init == custody = [p \in Pod |-> "free"] /\ ended = FALSE

Holding == {p \in Pod : custody[p] = "held"}

Acquire(p) == /\ ~ended /\ Holding = {}
              /\ custody[p] \in {"free"} \cup IF Recycle THEN {"released"} ELSE {}
              /\ custody' = [custody EXCEPT ![p] = "held"]
              /\ UNCHANGED ended

\* The pod is terminated, or every attempt to terminate it has failed.
GiveUp(p, how) == /\ custody[p] = "held"
                  /\ custody' = [custody EXCEPT ![p] = how]

End == ~ended /\ Holding = {} /\ ended' = TRUE /\ UNCHANGED custody

\* The last teardown is the last step.
Next == \/ \E p \in Pod : Acquire(p)
        \/ \E p \in Pod, how \in {"released", "leaked"} :
               GiveUp(p, how) /\ ended' \in {ended, TRUE}
        \/ End

Spec == Init /\ [][Next]_vars

=============================================================================
