--------------------------- MODULE MCPollWatchdog ---------------------------
(* Instances of PollWatchdog for TLC: the constants are numbers, given in    *)
(* the configurations.                                                       *)
EXTENDS PollWatchdog

\* The instance has pods that are slow and pods that must not be called so: at
\* some lengths of a round the detector has to keep quiet.
ASSUME PaceAssumption == ~TooLong(MinPace) /\ \E d \in 1..MaxTime : TooLong(d)

=============================================================================
