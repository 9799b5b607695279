---------------------------- MODULE MCSubmission ----------------------------
(***************************************************************************)
(* Instances of Submission for TLC.  Its requests are all alike.           *)
(***************************************************************************)
EXTENDS Submission, TLC

Symmetric == Permutations(Requests) \cup Permutations(Prints)
=============================================================================
