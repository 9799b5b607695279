----------------------------- MODULE MCAgentLoop -----------------------------
(***************************************************************************)
(* Instances of AgentLoop for TLC.                                         *)
(***************************************************************************)
EXTENDS AgentLoop, TLC

CONSTANTS s1, s2, s3, s4, s5

(* One function more than are looked up at once. *)
MCNamed == <<s1, s2, s3>>

(* The functions, and one of them may also be asked for in another way. *)
MCRequests == {LookUp(s) : s \in {s1, s2, s3, s4, s5}} \cup {[symbol |-> s4, how |-> "references"]}
=============================================================================
