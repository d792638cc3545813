--------------------------- MODULE MCOrphanCleanup ---------------------------
(* Instances of OrphanCleanup for TLC.                                       *)
EXTENDS OrphanCleanup, TLC

=============================================================================
