---------------------------- MODULE AnalyzeStage ----------------------------
(***************************************************************************)
(* The analysis as one sequential program: the loop of AgentLoop, whose    *)
(* question to the model is the request of LlmCall (the call_llm hook,     *)
(* services/analyze_pipeline.py).                                          *)
(***************************************************************************)
EXTENDS AgentLoop, LlmCall

vars == <<loopVars, callVars>>

StageInit == Init /\ CallInit

Loop == LoopStep /\ UNCHANGED callVars

AskModel == Ask /\ Begin

Attempt == CallStep /\ UNCHANGED loopVars

(* The reply is handed to the loop.                                        *)
Answered ==
  /\ step = "ok"
  /\ \E a \in Answers : (a.text <=> best # "empty") /\ Receive(a)
  /\ CallOver

(* The exception of the request is told from others by its text.           *)
Failed ==
  /\ step = "failed"
  /\ CallFails(IF cause = "budget" THEN "llm_budget_exhausted" ELSE "llm_error")
  /\ CallOver

StageNext == Loop \/ AskModel \/ Attempt \/ Answered \/ Failed

(* One thread; a chat with the model returns or raises, as every adapter   *)
(* has a timeout.                                                          *)
StageSpec == StageInit /\ [][StageNext]_vars /\ WF_vars(StageNext)

---------------------------------------------------------------------------
StageTypeOK == LoopTypeOK /\ CallTypeOK

(* The analysis ends, with a reason, whatever the model answers and        *)
(* however its endpoints fail: rounds, revisions, attempts, repetitions    *)
(* and failovers are all bounded.                                          *)
StageEnds == <>(Ended /\ reason # None)
=============================================================================
