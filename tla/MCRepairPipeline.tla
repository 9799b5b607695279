-------------------------- MODULE MCRepairPipeline --------------------------
(***************************************************************************)
(* Instances of RepairPipeline for TLC: one run, with the developer as     *)
(* everyone else who changes the checkout.                                 *)
(***************************************************************************)
EXTENDS RepairPipeline
=============================================================================
