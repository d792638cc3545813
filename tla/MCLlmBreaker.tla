---------------------------- MODULE MCLlmBreaker ----------------------------
(* Instances of LlmBreaker for TLC: the constants are numbers, given in the  *)
(* configurations.                                                           *)
EXTENDS LlmBreaker

=============================================================================
