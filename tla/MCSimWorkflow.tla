---------------------------- MODULE MCSimWorkflow ----------------------------
(* Instances of SimWorkflow for TLC.                                         *)
EXTENDS SimWorkflow, TLC

\* The retry policies of sim_workflow.py.
CodeAttempts ==
    [a \in Activity |->
        CASE a \in {"enrich", "derive"} -> 2
          [] a \in {"health", "poll"} -> 1
          [] a \in {"provision", "swap_clear", "finalize"} -> 3
          [] OTHER -> 5]

\* Two attempts wherever the code allows more than one.
FewAttempts == [a \in Activity |-> IF a \in {"health", "poll"} THEN 1 ELSE 2]

PodSymmetry == Permutations(Pod)

=============================================================================
