------------------------------ MODULE MCCliRun ------------------------------
(***************************************************************************)
(* Instances of CliRun for TLC.                                            *)
(***************************************************************************)
EXTENDS CliRun, TLC

CONSTANTS c1, c2, p1, p2

Full(c, p, fix) ==
  [crash |-> c, params |-> p, scope |-> "full", fix |-> fix, reuse |-> TRUE]

(* One crash repaired, analysed with other parameters, or only prompted    *)
(* for, and another crash.                                                 *)
MCRequests == {Full(c1, p1, TRUE), Full(c1, p2, FALSE), Full(c2, p1, FALSE),
               [Full(c1, p1, FALSE) EXCEPT !.scope = "gen_prompt_only"]}

Symmetry == Permutations(Runs)
=============================================================================
