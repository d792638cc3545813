------------------------------ MODULE MCJobApi ------------------------------
(* Instances of JobApi for TLC.                                              *)
EXTENDS JobApi, TLC

Symmetries == Permutations(Request) \cup Permutations(Content)

=============================================================================
