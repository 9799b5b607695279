----------------------------- MODULE MCRunStore -----------------------------
(***************************************************************************)
(* Instances of RunStore for TLC.  Its threads are all alike.              *)
(***************************************************************************)
EXTENDS RunStore, TLC

Symmetric == Permutations(Threads)
=============================================================================
