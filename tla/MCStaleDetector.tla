--------------------------- MODULE MCStaleDetector ---------------------------
(* Instances of StaleDetector for TLC.                                       *)
EXTENDS StaleDetector, TLC

\* The order of the code's budgets for a medium job, in coarse units.
Budgets == [s \in LiveStatus |->
    CASE s = "PENDING" -> 0 [] s = "PROVISIONING" -> 1
      [] s = "REPORTING" -> 1 [] s = "RUNNING" -> 2]

Symmetries == Permutations(Pod) \cup Permutations(Job)

=============================================================================
