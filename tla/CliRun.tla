------------------------------- MODULE CliRun -------------------------------
(***************************************************************************)
(* What the CLI does with one crash (cli/main.py), as a process of its     *)
(* own: it looks in the replay cache (services/crash_replay_cache.py) for  *)
(* an earlier run of the same crash, analyses, repairs or replays an       *)
(* earlier patch, decides (tool_system/agent_runtime.py with               *)
(* services/decide_scorer.py and services/harness_judge.py), writes its    *)
(* report and enters it in the cache.  Several such processes run at once  *)
(* and share the index of the cache; each may be killed at any moment.     *)
(*                                                                         *)
(* A text is known by the run whose model wrote it, a patch by the run     *)
(* whose repair made it.  The workings of the repair are in                *)
(* RepairPipeline; here it has an outcome.                                 *)
(***************************************************************************)
EXTENDS Naturals, Sequences, FiniteSets

CONSTANTS Runs,        \* the CLI processes
          Crashes,     \* log, source commit, library directory, version
          Params,      \* the parameters of the prompt
          Requests,    \* what a run may be asked for
          MaxActive,   \* how many CLI processes there are at once
          None         \* no run, no file

ASSUME CliAssumption ==
  /\ None \notin Runs
  /\ Requests \subseteq [crash : Crashes, params : Params,
                         scope : {"full", "gen_prompt_only"},
                         fix : BOOLEAN, reuse : BOOLEAN]
  /\ MaxActive \in Nat

VARIABLES phase,    \* where each process is
          req,      \* its request
          hit,      \* what it found in the cache
          res,      \* its result
          rt,       \* the state of its agent runtime
          art,      \* the decision in 10_decide.json
          lesson,   \* what the memory of patterns was taught
          report,   \* what later runs read in its report
          index     \* the index of the cache: runs, oldest first

own == <<hit, res, rt, art, lesson>>
vars == <<phase, req, own, report, index>>

Decisions == {"accept", "partial", "pending", "reject"}
Texts == Runs \cup {None}
Fixes == {"none", "empty", "undone", "applied"}
Verdicts == {"none", "skipped", "unavailable", "not_configured", "unverified",
             "failed", "repair_applied", "verified"}
Checks == {"none", "passed", "failed"}

(* fix is what the result says of the repair, apply and patch what         *)
(* 08_apply_ai_fixes.json and 09_ai_fix.patch say.  "empty" is a repair    *)
(* without edits, "undone" one that was rolled back.                       *)
Result == [status : {"success", "error", "verification_pending", "approval_required"},
           located : {"usable", "no_code", "no_symbols", "nothing"},
           analysis : Texts, structured : BOOLEAN, grounded : BOOLEAN,
           fix : Fixes, safety : Checks, ver : Verdicts,
           apply : Fixes, patch : Texts, decide : Decisions \cup {None}]
NoResult == [status |-> "success", located |-> "nothing",
             analysis |-> None, structured |-> FALSE, grounded |-> FALSE,
             fix |-> "none", safety |-> "none", ver |-> "none",
             apply |-> "none", patch |-> None, decide |-> None]

NoHit == [level |-> "none", from |-> None, patch |-> None]
Observing == [stage |-> "observe", status |-> "running", decision |-> None]

Init ==
  /\ phase = [r \in Runs |-> "new"]
  /\ req = [r \in Runs |-> None]
  /\ hit = [r \in Runs |-> NoHit]
  /\ res = [r \in Runs |-> NoResult]
  /\ rt = [r \in Runs |-> Observing]
  /\ art = [r \in Runs |-> None]
  /\ lesson = [r \in Runs |-> "none"]
  /\ report = [r \in Runs |-> None]
  /\ index = <<>>

(* What only the process knows goes with it, and what no later run reads.  *)
Gone(r) ==
  /\ hit' = [hit EXCEPT ![r] = NoHit]
  /\ res' = [res EXCEPT ![r] = NoResult]
  /\ rt' = [rt EXCEPT ![r] = Observing]
  /\ art' = [art EXCEPT ![r] = None]
  /\ lesson' = [lesson EXCEPT ![r] = "none"]

Active == {r \in Runs : phase[r] \notin {"new", "ended", "dead"}}
Go(r, to) == phase' = [phase EXCEPT ![r] = to]
Transition(r, stage, status) ==
  rt' = [rt EXCEPT ![r].stage = stage, ![r].status = status]
Replaying(r) == hit[r].level = "conclusion"

---------------------------------------------------------------------------
(* lookup_crash_replay, called before anything else.                       *)

(* Mutant of Compatible: the parameters are not compared.                  *)
CompatibleScopes(q, s) == q.scope = "full" /\ req[s].scope = "full"

(* Evidence depends on the crash alone, a conclusion also on the prompt.   *)
SameEvidence(q, s) == q.crash = req[s].crash
Compatible(q, s) ==
  /\ q.scope = "full" /\ req[s].scope = "full"
  /\ q.params = req[s].params

EvidenceRows(q) == {i \in DOMAIN index : SameEvidence(q, index[i])}
ConclusionRows(q) == {i \in EvidenceRows(q) :
                        report[index[i]].conclusion /\ Compatible(q, index[i])}
Newest(rows) == {index[i] : i \in {n \in rows : \A m \in rows : m <= n}}

(* The patch goes with the conclusion if the fix was applied and covers    *)
(* the functions that the analysis wants changed.                          *)
Patch(s, covers) ==
  IF covers /\ report[s].apply = "applied" THEN report[s].patch ELSE None

Found(q, covers) ==
  IF ConclusionRows(q) # {}
    THEN {[level |-> "conclusion", from |-> s, patch |-> Patch(s, covers)] :
            s \in Newest(ConclusionRows(q))}
  ELSE IF EvidenceRows(q) # {}
    THEN {[level |-> "evidence", from |-> s, patch |-> None] :
            s \in Newest(EvidenceRows(q))}
  ELSE {NoHit}

Lookup(r) ==
  /\ phase[r] = "new"
  /\ Cardinality(Active) < MaxActive
  /\ \E q \in Requests, covers \in BOOLEAN :
       \E found \in IF q.reuse THEN Found(q, covers) ELSE {NoHit} :
         /\ req' = [req EXCEPT ![r] = q]
         /\ hit' = [hit EXCEPT ![r] = found]
  /\ Go(r, "looked")
  /\ UNCHANGED <<res, rt, art, lesson, report, index>>

---------------------------------------------------------------------------
(* AgentRuntime.run: the workflow and, in full scope, the context loop.    *)

Skipped(x) == x.located \in {"no_code", "no_symbols"}

(* A result with what was located, its analysis, whether that met the      *)
(* contract of the output, and whether it is grounded: a diagnosis by      *)
(* rules supports it, and no wrong schema, failing model or spent budget   *)
(* ended the analysis.                                                     *)
Analysis(located, text, structured, grounded) ==
  [NoResult EXCEPT !.located = located, !.analysis = text,
                   !.structured = structured, !.grounded = grounded]

(* A conclusion is copied into the result as it is in the report, without  *)
(* its structured form.                                                    *)
Copied(s) == Analysis("usable", report[s].text, FALSE, report[s].grounded)

(* Cached symbols are taken as they are, usable or not; cached code that   *)
(* is of no use would be located anew, but such runs are not in the index. *)
Located(r) ==
  IF hit[r].level = "evidence" THEN {report[hit[r].from].located}
                               ELSE {"usable", "no_code", "no_symbols"}

(* The workflow fails, stops where nothing of use is located, or ends with *)
(* what the model wrote in full scope; without an adapter for its model    *)
(* it writes nothing.  A diagnosis needs code.  A replay from a            *)
(* checkpoint, which comes before all this, is left out.                   *)
Analyze(r) ==
  /\ phase[r] = "looked"
  /\ \/ Replaying(r) /\ res' = [res EXCEPT ![r] = Copied(hit[r].from)]
     \/ ~Replaying(r) /\ res' = [res EXCEPT ![r].status = "error"]
     \/ /\ ~Replaying(r)
        /\ \E l \in Located(r), text \in {None, r}, s \in BOOLEAN, g \in BOOLEAN :
             /\ text = r => l = "usable" /\ req[r].scope = "full"
             /\ text = None => ~s
             /\ l = "no_code" => ~g
             /\ res' = [res EXCEPT ![r] = Analysis(l, text, s, g)]
  /\ Transition(r, "plan", "completed")
  /\ Go(r, "analyzed")
  /\ UNCHANGED <<req, hit, art, lesson, report, index>>

(* The context loop raises: the process ends without a report.             *)
AnalysisRaises(r) ==
  /\ phase[r] = "looked" /\ req[r].scope = "full" /\ ~Replaying(r)
  /\ Go(r, "dead")
  /\ Gone(r)
  /\ UNCHANGED <<req, report, index>>

---------------------------------------------------------------------------
(* score_repair_decision, without the diagnosis after a fix, which the CLI *)
(* turns off, and judge_run.                                               *)

PatchValid(x) == x.fix = "applied"
DiffPassed(x) == x.safety # "failed"
VerificationPassed(x) ==
  /\ x.ver \in {"none", "skipped", "repair_applied", "verified"}
  /\ x.fix # "none" => x.ver \notin {"none", "skipped"}

Score(x) ==
  IF Skipped(x) THEN "partial"
  ELSE IF x.fix = "none" /\ x.ver = "none" /\ x.status = "success" THEN "accept"
  ELSE IF x.status \in {"verification_pending", "approval_required"} THEN "pending"
  ELSE IF x.status = "error" \/ ~(PatchValid(x) /\ DiffPassed(x) /\ VerificationPassed(x))
    THEN "reject"
  ELSE IF x.ver = "repair_applied" THEN "partial" ELSE "accept"

(* Verdicts that say nothing against a repair.                             *)
Open == {"none", "skipped", "unavailable", "not_configured", "repair_applied"}
Attempted(x) == x.fix \in {"undone", "applied"}
Gates(x) ==
  /\ x.structured \/ x.analysis = None
  /\ x.grounded
  /\ Attempted(x) => x.safety = "passed" /\ x.ver = "verified"

Judge(x) ==
  IF Gates(x) THEN "accept"
  ELSE IF Attempted(x) /\ x.ver \in Open THEN "pending" ELSE "reject"

(* Mutant of Final: the judge's reject takes back an accept only from a    *)
(* run that repaired something.                                            *)
FinalOfRepairs(x) ==
  IF Judge(x) = "reject" /\ x.fix # "none" /\ Score(x) \in {"accept", "partial"}
    THEN "reject"
  ELSE IF Judge(x) = "pending" /\ Score(x) = "accept" THEN "pending" ELSE Score(x)

(* _finalize_decision: the judge may take back what the score accepts.     *)
Final(x) ==
  IF Judge(x) = "reject" /\ Score(x) \in {"accept", "partial"} THEN "reject"
  ELSE IF Judge(x) = "pending" /\ Score(x) = "accept" THEN "pending" ELSE Score(x)

Decide(r) ==
  /\ res' = [res EXCEPT ![r].decide = Final(res[r])]
  /\ rt' = [rt EXCEPT ![r] =
       [stage |-> "decide",
        status |-> IF res[r].status = "success" THEN "completed" ELSE "error",
        decision |-> Final(res[r])]]

---------------------------------------------------------------------------
(* AgentRuntime.run_repair_and_verify.                                     *)

ShouldRepair(r) ==
  /\ req[r].fix /\ req[r].scope = "full"
  /\ res[r].status = "success" /\ ~Skipped(res[r])

(* What run_repair_pipeline comes to, and whether it decides by itself.    *)
Outcome(status, fix, safety, ver, decides) ==
  [status |-> status, fix |-> fix, safety |-> safety, ver |-> ver, decides |-> decides]
Outcomes ==
  {Outcome("approval_required", "none", "none", "none", FALSE),
   Outcome("verification_pending", "none", "none", "not_configured", FALSE),
   Outcome("success", "empty", "none", "unavailable", FALSE),
   Outcome("success", "empty", "none", "skipped", TRUE),
   Outcome("error", "undone", "none", "unverified", TRUE),
   Outcome("error", "undone", "failed", "unverified", TRUE),
   Outcome("error", "undone", "passed", "unverified", TRUE),
   Outcome("error", "undone", "passed", "failed", TRUE),
   Outcome("error", "applied", "failed", "unverified", TRUE),
   Outcome("error", "applied", "passed", "failed", TRUE),
   Outcome("success", "applied", "passed", "repair_applied", TRUE),
   Outcome("success", "applied", "passed", "verified", TRUE)}

Repaired(r, o) ==
  [res[r] EXCEPT !.status = o.status, !.fix = o.fix, !.safety = o.safety,
                 !.ver = o.ver, !.apply = o.fix,
                 !.patch = IF o.fix = "applied" THEN r ELSE None]

(* The pipeline's own decision is the score, in the artifact too.  A run   *)
(* that has to wait for an approval or a command pauses undecided.         *)
Repair(r) ==
  /\ phase[r] = "analyzed" /\ ShouldRepair(r) /\ hit[r].patch = None
  /\ \E o \in Outcomes :
       LET x == Repaired(r, o)
           waits == o.status \in {"approval_required", "verification_pending"}
       IN /\ res' = [res EXCEPT ![r] = x]
          /\ art' = [art EXCEPT ![r] = IF o.decides THEN Score(x) ELSE @]
          /\ \/ waits /\ Transition(r, "verify", "pending")
             \/ ~waits /\ ~o.decides /\ Transition(r, "act", "running")
             \/ o.decides /\ rt' = [rt EXCEPT ![r] =
                  [stage |-> "decide", decision |-> Score(x),
                   status |-> IF Score(x) \in {"accept", "partial"}
                                THEN "completed" ELSE "error"]]
          /\ Go(r, IF ~waits THEN "repaired"
                   ELSE IF Replaying(r) THEN "replayed" ELSE "settled")
  /\ UNCHANGED <<req, hit, lesson, report, index>>

(* run_feedback_analyze: the model revises the analysis once, after the    *)
(* patch was made; should it raise, the process ends without a report.     *)
Revise(r) ==
  /\ phase[r] = "repaired"
  /\ res[r].ver = "failed" \/ Judge(res[r]) = "reject"
  /\ \/ /\ \E s \in {res[r].structured, TRUE} :
             res' = [res EXCEPT ![r].analysis = r, ![r].structured = s]
        /\ Go(r, "revised")
        /\ UNCHANGED <<hit, rt, art, lesson>>
     \/ Go(r, "dead") /\ Gone(r)
  /\ UNCHANGED <<req, report, index>>

(* Mutant of Settle: the final decision is not saved with the report.      *)
SettleUnsaved(r) ==
  /\ phase[r] \in {"repaired", "revised"}
  /\ Decide(r)
  /\ \E taught \in {"rejected", "none"} :
       lesson' = [lesson EXCEPT ![r] = IF res[r].ver = "failed" THEN taught ELSE @]
  /\ Go(r, IF Replaying(r) THEN "replayed" ELSE "settled")
  /\ UNCHANGED <<req, hit, art, report, index>>

(* The decision after a repair; record_run_memory teaches the memory of    *)
(* patterns what a verdict says of those that were used, if any were.      *)
Settle(r) ==
  /\ phase[r] \in {"repaired", "revised"}
  /\ Decide(r)
  /\ art' = [art EXCEPT ![r] = Final(res[r])]
  /\ \E taught \in {"rejected", "none"} :
       lesson' = [lesson EXCEPT ![r] = IF res[r].ver = "failed" THEN taught ELSE @]
  /\ Go(r, IF Replaying(r) THEN "replayed" ELSE "settled")
  /\ UNCHANGED <<req, hit, report, index>>

---------------------------------------------------------------------------
(* The branches of the CLI that do not call run_repair_and_verify.         *)

(* replay_cached_fix: the patch fits the new worktree or it does not.      *)
(* What the result says of a repair stays as it was.                       *)
ReplayFix(r) ==
  /\ phase[r] = "analyzed" /\ req[r].fix /\ hit[r].patch # None
  /\ \/ res' = [res EXCEPT ![r].apply = "applied", ![r].patch = hit[r].patch]
     \/ res' = [res EXCEPT ![r].apply = "undone"]
  /\ Go(r, "replayed")
  /\ UNCHANGED <<req, hit, rt, art, lesson, report, index>>

(* Without a repair, and after every replayed conclusion: the decision is  *)
(* made, once more after a repair, and not saved as an artifact.           *)
Close(r) ==
  /\ \/ phase[r] = "replayed"
     \/ /\ phase[r] = "analyzed" /\ ~ShouldRepair(r)
        /\ ~(req[r].fix /\ hit[r].patch # None)
  /\ Decide(r)
  /\ Go(r, "settled")
  /\ UNCHANGED <<req, hit, art, lesson, report, index>>

---------------------------------------------------------------------------
(* _write_cli_report with remember_crash_replay.                           *)

(* A run whose files are complete is entered, unless it located no code.   *)
Reusable(x) == x.located \in {"usable", "no_symbols"}

(* Mutant of ConclusionOk: the status of the summary is not looked at.     *)
ConclusionAnyStatus(r) ==
  /\ Reusable(res[r]) /\ req[r].scope = "full"
  /\ res[r].apply \in {"none", "applied"}

(* A conclusion: the run has succeeded in full scope, and no fix of it is  *)
(* recorded as failed.  A skipped run is summarised as partial.            *)
ConclusionOk(r) ==
  /\ Reusable(res[r]) /\ req[r].scope = "full"
  /\ res[r].status = "success" /\ ~Skipped(res[r])
  /\ res[r].apply \in {"none", "applied"}

(* What later runs read.  final_output.md is the analysis, or else the     *)
(* rendered result.  What they do not open is left out.                    *)
Written(r) ==
  LET x == res[r]
      ok == ConclusionOk(r)
  IN [conclusion |-> ok, located |-> x.located, grounded |-> x.grounded,
      text |-> IF ~ok THEN None ELSE IF x.analysis = None THEN r ELSE x.analysis,
      apply |-> IF ok THEN x.apply ELSE "none",
      patch |-> IF ok THEN x.patch ELSE None,
      safety |-> IF ok THEN x.safety ELSE "none",
      ver |-> IF ok THEN x.ver ELSE "none"]

Finish(r) ==
  /\ phase[r] = "settled"
  /\ IF Reusable(res[r])
       THEN /\ report' = [report EXCEPT ![r] = Written(r)]
            /\ index' = Append(index, r)
       ELSE UNCHANGED <<report, index>>
  /\ Go(r, "ended")
  /\ Gone(r)
  /\ UNCHANGED req

Kill(r) == r \in Active /\ Go(r, "dead") /\ Gone(r) /\ UNCHANGED <<req, report, index>>

Step(r) ==
  \/ Lookup(r) \/ Analyze(r) \/ AnalysisRaises(r) \/ Repair(r) \/ Revise(r)
  \/ Settle(r) \/ ReplayFix(r) \/ Close(r) \/ Finish(r) \/ Kill(r)

Next == \E r \in Runs : Step(r)

Spec == Init /\ [][Next]_vars

---------------------------------------------------------------------------
Report == [conclusion : BOOLEAN, located : {"usable", "no_symbols"},
           grounded : BOOLEAN, text : Texts, apply : {"none", "applied"},
           patch : Texts, safety : Checks, ver : Verdicts]

ASSUME NoneAssumption == None \notin Report \cup Decisions

(* The variables have their types, and the index names reports.            *)
TypeOK ==
  /\ phase \in [Runs -> {"new", "looked", "analyzed", "repaired", "revised",
                         "replayed", "settled", "ended", "dead"}]
  /\ req \in [Runs -> Requests \cup {None}]
  /\ \A r \in Runs : phase[r] # "new" => req[r] \in Requests
  /\ hit \in [Runs -> [level : {"none", "evidence", "conclusion"},
                       from : Texts, patch : Texts]]
  /\ \A r \in Runs : hit[r].level # "none" =>
       hit[r].from \in Runs /\ report[hit[r].from] \in Report
  /\ res \in [Runs -> Result]
  /\ rt \in [Runs -> [stage : {"observe", "plan", "act", "verify", "decide"},
                      status : {"running", "completed", "pending", "error"},
                      decision : Decisions \cup {None}]]
  /\ art \in [Runs -> Decisions \cup {None}]
  /\ lesson \in [Runs -> {"none", "rejected"}]
  /\ report \in [Runs -> Report \cup {None}]
  /\ index \in Seq({r \in Runs : report[r] \in Report})

(* Whatever text or patch a run works with, of its own or of any chain of  *)
(* replays of replays (_conclusion_lookup), was made by a run in full      *)
(* scope for the same crash with the same parameters of the prompt.        *)
ReplayIsSameRequest ==
  \A r \in Runs : \A s \in {res[r].analysis, res[r].patch} \ {None} :
    /\ req[s].crash = req[r].crash
    /\ req[s].params = req[r].params
    /\ req[s].scope = "full"

(* A patch that is taken over from an earlier run was inspected there and  *)
(* neither rolled back nor found to fail, whatever runs have passed it on  *)
(* since: replay_cached_fix applies it without another check.              *)
ReplayedPatchHeld ==
  \A r \in Runs : LET s == res[r].patch IN
    s \notin {None, r} =>
      report[s].safety = "passed" /\ report[s].ver \in {"repair_applied", "verified"}

(* No run is accepted that has changed the sources, by a repair or by a    *)
(* replayed patch, unless its changes were inspected and verified and its  *)
(* analysis, if any, met the contract of the output: the score alone would *)
(* accept more (_finalize_decision).                                       *)
AcceptedWasVerified ==
  \A r \in Runs : res[r].decide = "accept" /\ res[r].apply = "applied" =>
    /\ res[r].ver = "verified" /\ res[r].safety = "passed"
    /\ res[r].grounded /\ (res[r].structured \/ res[r].analysis = None)

(* When the report is written the decision is one, in the result, in the   *)
(* state of the runtime and in 10_decide.json, although the pipeline, the  *)
(* runtime and the CLI each decide on their own; and no pattern is taught  *)
(* to be rejected by a run that is not.                                    *)
DecisionsAgree ==
  \A r \in Runs : phase[r] = "settled" =>
    /\ rt[r].decision = res[r].decide
    /\ art[r] \in {None, res[r].decide}
    /\ lesson[r] = "rejected" => res[r].decide = "reject"
=============================================================================
