---------------------------- MODULE MCSubmitPoll ----------------------------
(* Instances of SubmitPoll for TLC.  Three files: one that is asked for and  *)
(* never written, two that are.                                              *)
EXTENDS SubmitPoll

MCFiles == <<"curves", "posts", "chat">>
MCWritten == <<"chat", "posts">>

=============================================================================
