--------------------------- MODULE MCRunLifecycle ---------------------------
(***************************************************************************)
(* Instances of RunLifecycle for TLC.  Runs are all alike, and so are the  *)
(* workers; the run that checks safety only uses both symmetries.          *)
(***************************************************************************)
EXTENDS RunLifecycle, TLC

Symmetric == Permutations(Runs) \cup Permutations(Workers)
=============================================================================
