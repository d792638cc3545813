---------------------------- MODULE MCReportTask ----------------------------
(* Instances of ReportTask for TLC.                                          *)
EXTENDS ReportTask, TLC

WorkerSymmetry == Permutations(Worker)

=============================================================================
