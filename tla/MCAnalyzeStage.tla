--------------------------- MODULE MCAnalyzeStage ---------------------------
(***************************************************************************)
(* Instances of AnalyzeStage for TLC.                                      *)
(***************************************************************************)
EXTENDS AnalyzeStage, TLC

CONSTANTS e1, e2, e3

(* Two models of one provider and one of another.                          *)
MCProvider == e1 :> "p" @@ e2 :> "p" @@ e3 :> "q"
MCNamed == <<>>
MCLadder == <<"floor", "raised", "default">>
=============================================================================
