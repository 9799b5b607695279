-------------------------- MODULE MCResumeHandlers --------------------------
(***************************************************************************)
(* Instances of ResumeHandlers for TLC.                                    *)
(***************************************************************************)
EXTENDS ResumeHandlers, TLC

Symmetry == Permutations(Requests) \cup Permutations(Commands)
=============================================================================
