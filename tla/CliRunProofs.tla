---------------------------- MODULE CliRunProofs ----------------------------
(***************************************************************************)
(* Theorems about CliRun, for every number of runs, crashes, parameters    *)
(* and processes at once, and a kill at any step.                          *)
(*                                                                         *)
(* What the properties say of one run rests on what is known of the runs   *)
(* it has found: that they have ended, asked the same, and left a patch    *)
(* that held.  Known says this of every run (Origin, Safe), with the place *)
(* each run is at (Placed) and what it was decided from (Judged, Decided). *)
(* A step changes what one run holds and nothing of what has ended         *)
(* (OthersKept, PastKept), so each action is looked at for its own run     *)
(* (LookupKnown ... FinishKnown) and for the others once (OthersKnown).    *)
(***************************************************************************)
EXTENDS CliRun, TLAPS

(* A run that is not the one that takes the step keeps all that is its own.*)
LEMMA OthersKept ==
  ASSUME TypeOK, NEW r \in Runs, Step(r), NEW p \in Runs, p # r
  PROVE  /\ phase'[p] = phase[p] /\ req'[p] = req[p] /\ hit'[p] = hit[p]
         /\ res'[p] = res[p] /\ rt'[p] = rt[p] /\ art'[p] = art[p]
         /\ lesson'[p] = lesson[p] /\ report'[p] = report[p]
PROOF
  <1>1. CASE Lookup(r)
    BY <1>1 DEF Lookup, Go, TypeOK
  <1>2. CASE Analyze(r)
    BY <1>2 DEF Analyze, Transition, Go, TypeOK
  <1>3. CASE AnalysisRaises(r)
    BY <1>3 DEF AnalysisRaises, Gone, Go, TypeOK
  <1>4. CASE Repair(r)
    <2>1. /\ phase'[p] = phase[p] /\ req'[p] = req[p] /\ hit'[p] = hit[p]
          /\ res'[p] = res[p] /\ art'[p] = art[p]
          /\ lesson'[p] = lesson[p] /\ report'[p] = report[p]
      BY <1>4 DEF Repair, Go, TypeOK
    <2>2. rt'[p] = rt[p]
      BY <1>4 DEF Repair, Transition, TypeOK
    <2> QED
      BY <2>1, <2>2
  <1>5. CASE Revise(r)
    BY <1>5 DEF Revise, Gone, Go, TypeOK
  <1>6. CASE Settle(r)
    BY <1>6 DEF Settle, Decide, Go, TypeOK
  <1>7. CASE ReplayFix(r)
    BY <1>7 DEF ReplayFix, Go, TypeOK
  <1>8. CASE Close(r)
    BY <1>8 DEF Close, Decide, Go, TypeOK
  <1>9. CASE Finish(r)
    BY <1>9 DEF Finish, Gone, Go, TypeOK
  <1>10. CASE Kill(r)
    BY <1>10 DEF Kill, Gone, Go, TypeOK
  <1> QED
    BY <1>1, <1>2, <1>3, <1>4, <1>5, <1>6, <1>7, <1>8, <1>9, <1>10 DEF Step

(* A request stays what it was made, and a run that has ended stays ended  *)
(* with the report it wrote.                                               *)
LEMMA PastKept ==
  ASSUME TypeOK, NEW r \in Runs, Step(r), NEW s \in Runs
  PROVE  /\ phase[s] # "new" => phase'[s] # "new" /\ req'[s] = req[s]
         /\ phase[s] = "ended" => phase'[s] = "ended" /\ report'[s] = report[s]
PROOF
  <1>1. CASE s # r
    BY <1>1, OthersKept
  <1>2. CASE s = r
    <2>1. CASE Lookup(r)
      BY <1>2, <2>1 DEF Lookup, Go, TypeOK
    <2>2. CASE Analyze(r)
      BY <1>2, <2>2 DEF Analyze, Go, TypeOK
    <2>3. CASE AnalysisRaises(r)
      BY <1>2, <2>3 DEF AnalysisRaises, Go, TypeOK
    <2>4. CASE Repair(r)
      BY <1>2, <2>4 DEF Repair, Go, TypeOK
    <2>5. CASE Revise(r)
      BY <1>2, <2>5 DEF Revise, Go, TypeOK
    <2>6. CASE Settle(r)
      BY <1>2, <2>6 DEF Settle, Go, TypeOK
    <2>7. CASE ReplayFix(r)
      BY <1>2, <2>7 DEF ReplayFix, Go, TypeOK
    <2>8. CASE Close(r)
      BY <1>2, <2>8 DEF Close, Go, TypeOK
    <2>9. CASE Finish(r)
      BY <1>2, <2>9 DEF Finish, Go, TypeOK
    <2>10. CASE Kill(r)
      BY <1>2, <2>10 DEF Kill, Active, Go, TypeOK
    <2> QED
      BY <2>1, <2>2, <2>3, <2>4, <2>5, <2>6, <2>7, <2>8, <2>9, <2>10 DEF Step
  <1> QED
    BY <1>1, <1>2

---------------------------------------------------------------------------
(* A lookup finds a run of the index, and a conclusion only for the same   *)
(* crash and the same parameters.                                          *)
LEMMA FoundFacts ==
  ASSUME TypeOK, NEW q \in Requests, NEW covers \in BOOLEAN,
         NEW found \in Found(q, covers)
  PROVE  /\ found \in [level : {"none", "evidence", "conclusion"}, from : Texts, patch : Texts]
         /\ found.level # "none" =>
              /\ \E i \in DOMAIN index : found.from = index[i]
              /\ found.from \in Runs /\ report[found.from] \in Report
         /\ found.level = "conclusion" =>
              /\ report[found.from].conclusion
              /\ SameEvidence(q, found.from) /\ Compatible(q, found.from)
              /\ found.patch \in {None, report[found.from].patch}
         /\ found.level # "conclusion" => found.patch = None
PROOF
  <1>1. \A i \in DOMAIN index : index[i] \in Runs /\ report[index[i]] \in Report
    BY DEF TypeOK
  <1>2. CASE /\ ConclusionRows(q) # {}
             /\ \E s \in Newest(ConclusionRows(q)) :
                  found = [level |-> "conclusion", from |-> s, patch |-> Patch(s, covers)]
    <2>1. PICK s \in Newest(ConclusionRows(q)) :
            found = [level |-> "conclusion", from |-> s, patch |-> Patch(s, covers)]
      BY <1>2
    <2>2. PICK i \in ConclusionRows(q) : s = index[i]
      BY DEF Newest
    <2>3. /\ i \in DOMAIN index /\ SameEvidence(q, s)
          /\ report[s].conclusion /\ Compatible(q, s)
      BY <2>2 DEF ConclusionRows, EvidenceRows
    <2>4. s \in Runs /\ report[s] \in Report
      BY <1>1, <2>2, <2>3
    <2>5. Patch(s, covers) \in {None, report[s].patch} /\ report[s].patch \in Texts
      BY <2>4 DEF Patch, Report
    <2> QED
      BY <2>1, <2>2, <2>3, <2>4, <2>5 DEF Texts
  <1>3. CASE \E s \in Newest(EvidenceRows(q)) :
               found = [level |-> "evidence", from |-> s, patch |-> None]
    <2>1. PICK s \in Newest(EvidenceRows(q)) :
            found = [level |-> "evidence", from |-> s, patch |-> None]
      BY <1>3
    <2>2. PICK i \in EvidenceRows(q) : s = index[i]
      BY DEF Newest
    <2>3. i \in DOMAIN index
      BY DEF EvidenceRows
    <2> QED
      BY <1>1, <2>1, <2>2, <2>3 DEF Texts
  <1>4. CASE found = NoHit
    BY <1>4 DEF NoHit, Texts
  <1> QED
    BY <1>2, <1>3, <1>4 DEF Found

(* The result of an analysis, before any repair.                           *)
Plain(x) ==
  /\ x.fix = "none" /\ x.ver = "none" /\ x.safety = "none"
  /\ x.apply = "none" /\ x.patch = None /\ x.decide = None

LEMMA AnalysisFacts ==
  ASSUME NEW l \in {"usable", "no_code", "no_symbols", "nothing"},
         NEW text \in Texts, NEW s \in BOOLEAN, NEW g \in BOOLEAN
  PROVE  /\ Analysis(l, text, s, g) \in Result
         /\ Plain(Analysis(l, text, s, g))
         /\ Analysis(l, text, s, g).analysis = text
         /\ Analysis(l, text, s, g).structured = s
BY DEF Analysis, NoResult, Result, Plain, Texts, Fixes, Verdicts, Checks

(* Scores, verdicts and decisions have their types.                        *)
LEMMA DecisionTypes ==
  ASSUME NEW x
  PROVE  Final(x) \in Decisions /\ Score(x) \in Decisions
BY DEF Final, Score, Judge, Decisions

(* What a repair comes to: a fix that stays in a run that has succeeded was*)
(* inspected and did not fail, and a failed check makes an error.          *)
LEMMA OutcomeFacts ==
  ASSUME NEW o \in Outcomes
  PROVE  /\ o.status \in {"success", "error", "verification_pending", "approval_required"}
         /\ o.fix \in Fixes /\ o.safety \in Checks /\ o.ver \in Verdicts
         /\ o.fix = "applied" /\ o.status = "success" =>
              o.safety = "passed" /\ o.ver \in {"repair_applied", "verified"}
         /\ o.ver = "failed" => o.status = "error" /\ o.fix # "none"
         /\ o.status \in {"approval_required", "verification_pending"} =>
              ~o.decides /\ o.ver # "failed"
PROOF
  <1>2. o.status \in {"success", "error", "verification_pending", "approval_required"}
    BY DEF Outcomes, Outcome
  <1>3. o.fix \in Fixes
    BY DEF Outcomes, Outcome, Fixes
  <1>4. o.safety \in Checks
    BY DEF Outcomes, Outcome, Checks
  <1>5. o.ver \in Verdicts
    BY DEF Outcomes, Outcome, Verdicts
  <1>6. o.fix = "applied" /\ o.status = "success" =>
          o.safety = "passed" /\ o.ver \in {"repair_applied", "verified"}
    BY DEF Outcomes, Outcome
  <1>7. o.ver = "failed" => o.status = "error" /\ o.fix # "none"
    BY DEF Outcomes, Outcome
  <1>8. o.status \in {"approval_required", "verification_pending"} =>
          ~o.decides /\ o.ver # "failed"
    BY DEF Outcomes, Outcome
  <1> QED
    BY <1>2, <1>3, <1>4, <1>5, <1>6, <1>7, <1>8

LEMMA RepairedFacts ==
  ASSUME TypeOK, NEW r \in Runs, NEW o \in Outcomes
  PROVE  /\ Repaired(r, o) \in Result
         /\ Repaired(r, o).status = o.status /\ Repaired(r, o).fix = o.fix
         /\ Repaired(r, o).safety = o.safety /\ Repaired(r, o).ver = o.ver
         /\ Repaired(r, o).apply = o.fix
         /\ Repaired(r, o).patch = (IF o.fix = "applied" THEN r ELSE None)
         /\ Repaired(r, o).located = res[r].located
         /\ Repaired(r, o).analysis = res[r].analysis
         /\ Repaired(r, o).structured = res[r].structured
         /\ Repaired(r, o).grounded = res[r].grounded
         /\ Repaired(r, o).decide = res[r].decide
PROOF
  <1>1. res[r] \in Result
    BY DEF TypeOK
  <1> QED
    BY <1>1, OutcomeFacts DEF Repaired, Result, Texts

LEMMA WrittenType ==
  ASSUME TypeOK, NEW r \in Runs, Reusable(res[r])
  PROVE  Written(r) \in Report
PROOF
  <1>1. res[r] \in Result
    BY DEF TypeOK
  <1>2. ConclusionOk(r) \in BOOLEAN
    BY DEF ConclusionOk, Reusable, Skipped
  <1>3. ConclusionOk(r) => res[r].apply \in {"none", "applied"}
    BY DEF ConclusionOk
  <1> QED
    BY <1>1, <1>2, <1>3 DEF Written, Report, Result, Reusable, Texts, Checks, Verdicts

---------------------------------------------------------------------------
(* The types hold at the start.                                            *)
LEMMA TypeInit == Init => TypeOK
PROOF
  <1> SUFFICES ASSUME Init PROVE TypeOK
    OBVIOUS
  <1>1. NoHit \in [level : {"none", "evidence", "conclusion"}, from : Texts, patch : Texts]
    BY DEF NoHit, Texts
  <1>2. NoResult \in Result
    BY DEF NoResult, Result, Texts, Fixes, Verdicts, Checks
  <1>3. Observing \in [stage : {"observe", "plan", "act", "verify", "decide"},
                       status : {"running", "completed", "pending", "error"},
                       decision : Decisions \cup {None}]
    BY DEF Observing
  <1>4. \A r \in Runs : hit[r].level = "none"
    BY DEF Init, NoHit
  <1>5. index \in Seq({r \in Runs : report[r] \in Report})
    BY DEF Init
  <1> QED
    BY <1>1, <1>2, <1>3, <1>4, <1>5 DEF Init, TypeOK

(* Forgetting what the process knows keeps the types.                      *)
LEMMA GoneTypes ==
  ASSUME TypeOK, NEW r \in Runs, Gone(r)
  PROVE  /\ hit' \in [Runs -> [level : {"none", "evidence", "conclusion"},
                               from : Texts, patch : Texts]]
         /\ res' \in [Runs -> Result]
         /\ rt' \in [Runs -> [stage : {"observe", "plan", "act", "verify", "decide"},
                              status : {"running", "completed", "pending", "error"},
                              decision : Decisions \cup {None}]]
         /\ art' \in [Runs -> Decisions \cup {None}]
         /\ lesson' \in [Runs -> {"none", "rejected"}]
         /\ hit'[r].level = "none"
         /\ Plain(res'[r]) /\ res'[r].analysis = None
         /\ \A p \in Runs : p # r => hit'[p] = hit[p]
PROOF
  <1>1. NoHit \in [level : {"none", "evidence", "conclusion"}, from : Texts, patch : Texts]
    BY DEF NoHit, Texts
  <1>2. NoResult \in Result /\ Plain(NoResult) /\ NoResult.analysis = None
    BY DEF NoResult, Result, Texts, Fixes, Verdicts, Checks, Plain
  <1>3. Observing \in [stage : {"observe", "plan", "act", "verify", "decide"},
                       status : {"running", "completed", "pending", "error"},
                       decision : Decisions \cup {None}]
    BY DEF Observing
  <1>4. NoHit.level = "none"
    BY DEF NoHit
  <1> QED
    BY <1>1, <1>2, <1>3, <1>4 DEF TypeOK, Gone

(* What a hit or the index names stays a report.                           *)
LEMMA ReportsKept ==
  ASSUME TypeOK, NEW r \in Runs, Step(r)
  PROVE  /\ \A s \in Runs : report[s] \in Report => report'[s] \in Report
         /\ index \in Seq({s \in Runs : report'[s] \in Report})
PROOF
  <1>1. ASSUME NEW s \in Runs, report[s] \in Report PROVE report'[s] \in Report
    <2>1. report' = report \/ (Finish(r) /\ report' # report)
      BY DEF Step, Lookup, Analyze, AnalysisRaises, Repair, Revise, Settle, ReplayFix, Close, Kill
    <2>2. CASE Finish(r) /\ report' # report
      BY <1>1, <2>2, WrittenType DEF Finish, TypeOK
    <2> QED
      BY <1>1, <2>1, <2>2
  <1>2. {s \in Runs : report[s] \in Report} \subseteq {s \in Runs : report'[s] \in Report}
    BY <1>1
  <1>3. index \in Seq({s \in Runs : report[s] \in Report})
    BY DEF TypeOK
  <1>4. \A i \in 1..Len(index) : index[i] \in {s \in Runs : report'[s] \in Report}
    BY <1>2, <1>3
  <1>5. index \in Seq({s \in Runs : report'[s] \in Report})
    BY <1>3, <1>4
  <1> QED
    BY <1>1, <1>5

(* A result keeps its type however its fields are changed.                 *)
LEMMA ResultEdits ==
  ASSUME NEW x \in Result
  PROVE  /\ [x EXCEPT !.status = "error"] \in Result
         /\ \A d \in Decisions : [x EXCEPT !.decide = d] \in Result
         /\ \A text \in Texts, s \in BOOLEAN :
              [x EXCEPT !.analysis = text, !.structured = s] \in Result
         /\ \A p \in Texts : [x EXCEPT !.apply = "applied", !.patch = p] \in Result
         /\ [x EXCEPT !.apply = "undone"] \in Result
PROOF
  <1>1. [x EXCEPT !.status = "error"] \in Result
    BY DEF Result
  <1>2. ASSUME NEW d \in Decisions PROVE [x EXCEPT !.decide = d] \in Result
    BY DEF Result
  <1>3. ASSUME NEW text \in Texts, NEW s \in BOOLEAN
        PROVE  [x EXCEPT !.analysis = text, !.structured = s] \in Result
    BY DEF Result
  <1>4. ASSUME NEW p \in Texts
        PROVE  [x EXCEPT !.apply = "applied", !.patch = p] \in Result
    BY DEF Result, Fixes
  <1>5. [x EXCEPT !.apply = "undone"] \in Result
    BY DEF Result, Fixes
  <1> QED
    BY <1>1, <1>2, <1>3, <1>4, <1>5

(* A sequence stays one when a member of its set is appended.              *)
LEMMA Appended ==
  ASSUME NEW S, NEW seq \in Seq(S), NEW e \in S
  PROVE  Append(seq, e) \in Seq(S)
OBVIOUS

(* Every step of a run keeps the types.                                    *)
LEMMA TypeStep ==
  ASSUME TypeOK, NEW r \in Runs, Step(r)
  PROVE  TypeOK'
PROOF
  <1> USE DEF TypeOK
  <1> DEFINE Hits == [level : {"none", "evidence", "conclusion"}, from : Texts, patch : Texts]
             States == [stage : {"observe", "plan", "act", "verify", "decide"},
                        status : {"running", "completed", "pending", "error"},
                        decision : Decisions \cup {None}]
             Found2 == \A p \in Runs : hit'[p].level # "none" =>
                         hit'[p].from \in Runs /\ report'[hit'[p].from] \in Report
  <1>t. res \in [Runs -> Result] /\ rt \in [Runs -> States] /\ res[r] \in Result /\ rt[r] \in States
    OBVIOUS
  <1>0. /\ \A s \in Runs : report[s] \in Report => report'[s] \in Report
        /\ index \in Seq({s \in Runs : report'[s] \in Report})
    BY ReportsKept
  <1>d. ASSUME Decide(r) PROVE res' \in [Runs -> Result] /\ rt' \in [Runs -> States]
    <2>1. Final(res[r]) \in Decisions
      BY DecisionTypes
    <2>2. res' = [res EXCEPT ![r] = [res[r] EXCEPT !.decide = Final(res[r])]]
      BY <1>d, <1>t DEF Decide
    <2>3. res' \in [Runs -> Result]
      BY <1>t, <2>1, <2>2, ResultEdits
    <2>4. rt' \in [Runs -> States]
      <3> HIDE DEF TypeOK
      <3> QED
        BY <1>d, <1>t, <2>1 DEF Decide
    <2> QED
      BY <2>3, <2>4
  <1>1. CASE Lookup(r)
    <2>1. PICK q \in Requests, covers \in BOOLEAN :
            \E found \in IF q.reuse THEN Found(q, covers) ELSE {NoHit} :
              req' = [req EXCEPT ![r] = q] /\ hit' = [hit EXCEPT ![r] = found]
      BY <1>1 DEF Lookup
    <2>2. PICK found \in IF q.reuse THEN Found(q, covers) ELSE {NoHit} :
            req' = [req EXCEPT ![r] = q] /\ hit' = [hit EXCEPT ![r] = found]
      BY <2>1
    <2>3. found \in Hits /\ (found.level # "none" =>
            found.from \in Runs /\ report[found.from] \in Report)
      <3>1. CASE found \in Found(q, covers)
        BY <3>1, FoundFacts
      <3>2. CASE found = NoHit
        BY <3>2 DEF NoHit, Texts
      <3> QED
        BY <3>1, <3>2
    <2>4. hit' \in [Runs -> Hits] /\ Found2
      BY <1>0, <2>2, <2>3
    <2> QED
      BY <1>0, <1>1, <2>2, <2>4 DEF Lookup, Go
  <1>2. CASE Analyze(r)
    <2>1. PICK x \in Result : res' = [res EXCEPT ![r] = x]
      <3>1. CASE Replaying(r) /\ res' = [res EXCEPT ![r] = Copied(hit[r].from)]
        <4>1. report[hit[r].from] \in Report
          BY <3>1 DEF Replaying
        <4>2. Copied(hit[r].from) \in Result
          <5>1. /\ report[hit[r].from].text \in Texts
                /\ report[hit[r].from].grounded \in BOOLEAN
            BY <4>1 DEF Report
          <5> QED
            BY <5>1, AnalysisFacts DEF Copied
        <4> QED
          BY <3>1, <4>2
      <3>2. CASE res' = [res EXCEPT ![r].status = "error"]
        BY <3>2, <1>t, ResultEdits
      <3>3. CASE /\ ~Replaying(r)
                 /\ \E l \in Located(r), text \in {None, r}, s \in BOOLEAN, g \in BOOLEAN :
                      res' = [res EXCEPT ![r] = Analysis(l, text, s, g)]
        <4>1. Located(r) \subseteq {"usable", "no_code", "no_symbols"}
          BY DEF Located, Report
        <4>2. PICK l \in {"usable", "no_code", "no_symbols"}, text \in {None, r},
                   s \in BOOLEAN, g \in BOOLEAN :
                res' = [res EXCEPT ![r] = Analysis(l, text, s, g)]
          BY <3>3, <4>1
        <4>3. Analysis(l, text, s, g) \in Result
          <5>1. l \in {"usable", "no_code", "no_symbols", "nothing"} /\ text \in Texts
            BY DEF Texts
          <5> QED
            BY <5>1, AnalysisFacts
        <4> QED
          BY <4>2, <4>3
      <3> QED
        BY <1>2, <3>1, <3>2, <3>3 DEF Analyze
    <2>2. rt' \in [Runs -> States]
      <3> HIDE DEF TypeOK
      <3> QED
        BY <1>2, <1>t DEF Analyze, Transition
    <2> QED
      BY <1>0, <1>2, <2>1, <2>2 DEF Analyze, Go
  <1>3. CASE AnalysisRaises(r)
    BY <1>0, <1>3, GoneTypes DEF AnalysisRaises, Go
  <1>4. CASE Repair(r)
    <2>1. PICK o \in Outcomes : res' = [res EXCEPT ![r] = Repaired(r, o)]
      BY <1>4 DEF Repair
    <2>2. res' \in [Runs -> Result]
      BY <2>1, RepairedFacts
    <2>3. rt' \in [Runs -> States]
      <3> HIDE DEF TypeOK
      <3>1. \A x : Score(x) \in Decisions
        BY DecisionTypes
      <3>2. CASE \E c \in {"verify", "act"}, d \in {"pending", "running"} : Transition(r, c, d)
        <4>1. PICK c \in {"verify", "act"}, d \in {"pending", "running"} : Transition(r, c, d)
          BY <3>2
        <4>2. [rt[r] EXCEPT !.stage = c, !.status = d] \in States
          BY <1>t
        <4>3. rt' = [rt EXCEPT ![r] = [rt[r] EXCEPT !.stage = c, !.status = d]]
          BY <1>t, <4>1 DEF Transition
        <4> HIDE DEF States
        <4> QED
          BY <1>t, <4>2, <4>3
      <3>3. CASE \E o2 \in Outcomes :
                   rt' = [rt EXCEPT ![r] =
                     [stage |-> "decide", decision |-> Score(Repaired(r, o2)),
                      status |-> IF Score(Repaired(r, o2)) \in {"accept", "partial"}
                                   THEN "completed" ELSE "error"]]
        BY <1>t, <3>1, <3>3
      <3> QED
        BY <1>4, <3>2, <3>3 DEF Repair
    <2>6. art' \in [Runs -> Decisions \cup {None}]
      BY <1>4, DecisionTypes DEF Repair
    <2>4. phase'[r] # "new" /\ phase[r] = "analyzed"
      BY <1>4 DEF Repair, Go
    <2>5. phase' \in [Runs -> {"new", "looked", "analyzed", "repaired", "revised",
                               "replayed", "settled", "ended", "dead"}]
      BY <1>4 DEF Repair, Go
    <2> QED
      BY <1>0, <1>4, <2>2, <2>3, <2>4, <2>5, <2>6, OthersKept DEF Repair
  <1>5. CASE Revise(r)
    <2>1. CASE Gone(r) /\ Go(r, "dead")
      BY <1>0, <1>5, <2>1, GoneTypes DEF Revise, Go
    <2>2. CASE /\ \E s \in {res[r].structured, TRUE} :
                    res' = [res EXCEPT ![r].analysis = r, ![r].structured = s]
               /\ Go(r, "revised")
               /\ UNCHANGED <<hit, rt, art, lesson>>
      <3>1. PICK s \in BOOLEAN : res' = [res EXCEPT ![r].analysis = r, ![r].structured = s]
        <4>1. res[r].structured \in BOOLEAN
          BY <1>t DEF Result
        <4>2. PICK s \in {res[r].structured, TRUE} :
                res' = [res EXCEPT ![r].analysis = r, ![r].structured = s]
          BY <2>2
        <4>3. s \in BOOLEAN
          BY <4>1
        <4> QED
          BY <4>2, <4>3
      <3>2. res' = [res EXCEPT ![r] = [res[r] EXCEPT !.analysis = r, !.structured = s]]
        BY <3>1, <1>t
      <3>3. res' \in [Runs -> Result]
        BY <3>2, <1>t, ResultEdits DEF Texts
      <3> QED
        BY <1>0, <1>5, <2>2, <3>3 DEF Revise, Go
    <2> QED
      BY <1>5, <2>1, <2>2 DEF Revise
  <1>6. CASE Settle(r)
    <2>1. res' \in [Runs -> Result] /\ rt' \in [Runs -> States]
      BY <1>6, <1>d DEF Settle
    <2>2. lesson' \in [Runs -> {"none", "rejected"}] /\ art' \in [Runs -> Decisions \cup {None}]
      BY <1>6, DecisionTypes DEF Settle
    <2> QED
      BY <1>0, <1>6, <2>1, <2>2 DEF Settle, Go
  <1>7. CASE ReplayFix(r)
    <2>1. res' \in [Runs -> Result]
      <3>1. hit[r].patch \in Texts
        OBVIOUS
      <3>2. CASE res' = [res EXCEPT ![r].apply = "applied", ![r].patch = hit[r].patch]
        <4>1. res' = [res EXCEPT ![r] = [res[r] EXCEPT !.apply = "applied", !.patch = hit[r].patch]]
          BY <1>t, <3>2
        <4> QED
          BY <1>t, <3>1, <4>1, ResultEdits
      <3>3. CASE res' = [res EXCEPT ![r].apply = "undone"]
        BY <1>t, <3>3, ResultEdits
      <3> QED
        BY <1>7, <3>2, <3>3 DEF ReplayFix
    <2> QED
      BY <1>0, <1>7, <2>1 DEF ReplayFix, Go
  <1>8. CASE Close(r)
    <2>1. res' \in [Runs -> Result] /\ rt' \in [Runs -> States]
      BY <1>8, <1>d DEF Close
    <2> QED
      BY <1>0, <1>8, <2>1 DEF Close, Go
  <1>9. CASE Finish(r)
    <2>1. report' \in [Runs -> Report \cup {None}]
      BY <1>9, WrittenType DEF Finish
    <2>2. index' \in Seq({s \in Runs : report'[s] \in Report})
      <3>1. CASE Reusable(res[r])
        <4>1. report'[r] \in Report
          BY <1>9, <3>1, WrittenType DEF Finish
        <4>2. r \in {s \in Runs : report'[s] \in Report}
          BY <4>1
        <4>3. index' = Append(index, r)
          BY <1>9, <3>1 DEF Finish
        <4>4. Append(index, r) \in Seq({s \in Runs : report'[s] \in Report})
          BY <1>0, <4>2, Appended
        <4> QED
          BY <4>3, <4>4
      <3>2. CASE ~Reusable(res[r])
        BY <1>0, <1>9, <3>2 DEF Finish
      <3> QED
        BY <3>1, <3>2
    <2> QED
      BY <1>0, <1>9, <2>1, <2>2, GoneTypes DEF Finish, Go
  <1>10. CASE Kill(r)
    BY <1>0, <1>10, GoneTypes DEF Kill, Go, Active
  <1> QED
    BY <1>1, <1>2, <1>3, <1>4, <1>5, <1>6, <1>7, <1>8, <1>9, <1>10 DEF Step

---------------------------------------------------------------------------
(* What the place of a run says of what it holds: nothing is repaired or   *)
(* decided before its time, and what has ended or died knows nothing.      *)
Placed(r) ==
  /\ phase[r] \in {"new", "looked", "analyzed", "ended", "dead"} => Plain(res[r])
  /\ phase[r] \in {"new", "looked", "ended", "dead"} => res[r].analysis = None
  /\ phase[r] \in {"new", "ended", "dead"} => hit[r].level = "none"
  /\ hit[r].level # "conclusion" => hit[r].patch = None
  /\ phase[r] \in {"new", "looked", "analyzed"} =>
       rt[r].decision = None /\ art[r] = None /\ lesson[r] = "none"
  /\ phase[r] \in {"repaired", "revised"} =>
       /\ req[r].scope = "full" /\ ~Skipped(res[r])
       /\ lesson[r] = "none" /\ res[r].decide = None
       /\ res[r].apply = res[r].fix
       /\ res[r].ver = "failed" => res[r].status = "error"
  /\ report[r] \in Report => phase[r] = "ended"

(* A run s that has asked, in full scope, for what r asks for.             *)
Same(r, s) ==
  /\ s \in Runs /\ phase[s] # "new"
  /\ req[s].crash = req[r].crash /\ req[s].params = req[r].params
  /\ req[s].scope = "full"

(* The texts and the patches of a run and of its report, and the run whose *)
(* conclusion it replays.                                                  *)
Origin(r) ==
  /\ res[r].analysis # None => Same(r, res[r].analysis)
  /\ res[r].patch # None => Same(r, res[r].patch)
  /\ hit[r].level = "conclusion" =>
       /\ phase[hit[r].from] = "ended" /\ report[hit[r].from].conclusion
       /\ Same(r, hit[r].from)
       /\ hit[r].patch \in {None, report[hit[r].from].patch}
  /\ report[r] \in Report =>
       /\ report[r].text # None => Same(r, report[r].text)
       /\ report[r].patch # None => Same(r, report[r].patch)
       /\ report[r].conclusion => report[r].text # None

(* A patch whose report says that it was inspected and did not fail.       *)
Held(s) ==
  /\ s \in Runs /\ report[s] \in Report
  /\ report[s].safety = "passed" /\ report[s].ver \in {"repair_applied", "verified"}

(* The patches of a run, of what it found and of its report have held, its *)
(* own unless it has not succeeded.                                        *)
Safe(r) ==
  /\ res[r].patch \notin {None, r} => Held(res[r].patch)
  /\ res[r].patch = r /\ res[r].status = "success" =>
       res[r].safety = "passed" /\ res[r].ver \in {"repair_applied", "verified"}
  /\ hit[r].patch # None => Held(hit[r].patch)
  /\ report[r] \in Report /\ report[r].patch # None => Held(report[r].patch)

(* A run that has changed the sources was repaired, or replays an analysis *)
(* that no judge accepts; and what it decided stands.                      *)
Judged(r) ==
  /\ phase[r] = "analyzed" /\ Replaying(r) =>
       ~res[r].structured /\ res[r].analysis # None
  /\ res[r].apply = "applied" =>
       res[r].fix = "applied" \/ (~res[r].structured /\ res[r].analysis # None)
  /\ res[r].decide = "accept" /\ res[r].apply = "applied" => Gates(res[r]) /\ res[r].fix = "applied"

(* What was decided before the CLI decides is what it will decide.         *)
Decided(r) ==
  /\ phase[r] = "replayed" =>
       /\ art[r] \in {None, Final(res[r])}
       /\ lesson[r] = "rejected" => Final(res[r]) = "reject"
  /\ phase[r] = "settled" =>
       /\ rt[r].decision = res[r].decide /\ art[r] \in {None, res[r].decide}
       /\ lesson[r] = "rejected" => res[r].decide = "reject"

(* All that is known of one run.                                           *)
Known(r) == Placed(r) /\ Origin(r) /\ Safe(r) /\ Judged(r) /\ Decided(r)

IInv == TypeOK /\ \A r \in Runs : Known(r)

(* The run that has asked the same stays so, and a patch that held.        *)
LEMMA SameKept ==
  ASSUME TypeOK, NEW r \in Runs, Step(r), NEW p \in Runs, phase[p] # "new",
         NEW s, Same(p, s)
  PROVE  Same(p, s)'
BY PastKept DEF Same

LEMMA HeldKept ==
  ASSUME IInv, NEW r \in Runs, Step(r), NEW s, Held(s)
  PROVE  Held(s)'
PROOF
  <1>1. s \in Runs /\ phase[s] = "ended"
    BY DEF Held, IInv, Known, Placed
  <1>2. report'[s] = report[s]
    BY <1>1, PastKept DEF IInv
  <1> QED
    BY <1>1, <1>2 DEF Held

(* Of a run that does not take the step everything stays known.            *)
LEMMA OthersKnown ==
  ASSUME IInv, NEW r \in Runs, Step(r), NEW p \in Runs, p # r
  PROVE  Known(p)'
PROOF
  <1>1. TypeOK /\ Known(p)
    BY DEF IInv
  <1>2. /\ phase'[p] = phase[p] /\ req'[p] = req[p] /\ hit'[p] = hit[p]
        /\ res'[p] = res[p] /\ rt'[p] = rt[p] /\ art'[p] = art[p]
        /\ lesson'[p] = lesson[p] /\ report'[p] = report[p]
    BY <1>1, OthersKept
  <1>3. Placed(p)'
    BY <1>1, <1>2 DEF Known, Placed, Plain, Skipped
  <1>4. Origin(p)'
    <2>1. CASE phase[p] = "new"
      BY <1>1, <1>2, <2>1 DEF Known, Placed, Plain, Origin
    <2>2. CASE phase[p] # "new"
      <3>1. \A s : Same(p, s) => Same(p, s)'
        BY <1>1, <2>2, SameKept
      <3>2. ASSUME hit[p].level = "conclusion"
            PROVE  /\ hit[p].from \in Runs
                   /\ phase'[hit[p].from] = "ended" /\ report'[hit[p].from] = report[hit[p].from]
        <4>1. phase[hit[p].from] = "ended" /\ hit[p].from \in Runs
          BY <1>1, <3>2 DEF Known, Origin, Same
        <4> QED
          BY <1>1, <4>1, PastKept
      <3> QED
        BY <1>1, <1>2, <3>1, <3>2 DEF Known, Origin
    <2> QED
      BY <2>1, <2>2
  <1>5. Safe(p)'
    <2>1. \A s : Held(s) => Held(s)'
      BY HeldKept
    <2> QED
      BY <1>1, <1>2, <2>1 DEF Known, Safe
  <1>6. Judged(p)'
    BY <1>1, <1>2 DEF Known, Judged, Replaying, Gates, Attempted
  <1>7. Decided(p)'
    BY <1>1, <1>2 DEF Known, Decided, Final, Judge, Score, Gates, Attempted, Open, Skipped,
         PatchValid, DiffPassed, VerificationPassed
  <1> QED
    BY <1>3, <1>4, <1>5, <1>6, <1>7 DEF Known

(* A run that has not ended has no report yet.                             *)
LEMMA NoReport ==
  ASSUME IInv, NEW r \in Runs, phase[r] # "ended"
  PROVE  report[r] \notin Report
BY DEF IInv, Known, Placed

(* Looking up an earlier run.                                              *)
LEMMA LookupKnown ==
  ASSUME IInv, NEW r \in Runs, Lookup(r)
  PROVE  Known(r)'
PROOF
  <1>1. TypeOK /\ Known(r) /\ phase[r] = "new" /\ report[r] \notin Report
    BY NoReport DEF IInv, Lookup
  <1>2. PICK q \in Requests, covers \in BOOLEAN :
          \E found \in IF q.reuse THEN Found(q, covers) ELSE {NoHit} :
            req' = [req EXCEPT ![r] = q] /\ hit' = [hit EXCEPT ![r] = found]
    BY DEF Lookup
  <1>3. PICK found \in IF q.reuse THEN Found(q, covers) ELSE {NoHit} :
          req' = [req EXCEPT ![r] = q] /\ hit' = [hit EXCEPT ![r] = found]
    BY <1>2
  <1>4. /\ phase'[r] = "looked" /\ req'[r] = q /\ hit'[r] = found
        /\ res' = res /\ rt' = rt /\ art' = art /\ lesson' = lesson /\ report' = report
    BY <1>1, <1>3 DEF Lookup, Go, TypeOK
  <1>5. found = NoHit \/ found \in Found(q, covers)
    BY <1>3
  <1>6. /\ found.level # "conclusion" => found.patch = None
        /\ found.level = "conclusion" =>
             /\ found.from \in Runs /\ report[found.from] \in Report
             /\ report[found.from].conclusion
             /\ SameEvidence(q, found.from) /\ Compatible(q, found.from)
             /\ found.patch \in {None, report[found.from].patch}
    <2>1. CASE found = NoHit
      BY <2>1 DEF NoHit
    <2>2. CASE found \in Found(q, covers)
      BY <1>1, <2>2, FoundFacts
    <2> QED
      BY <1>5, <2>1, <2>2
  <1>7. ASSUME found.level = "conclusion"
        PROVE  /\ phase[found.from] = "ended" /\ found.from # r
               /\ phase'[found.from] = "ended" /\ req'[found.from] = req[found.from]
               /\ Safe(found.from)
    <2>1. found.from \in Runs /\ report[found.from] \in Report
      BY <1>6, <1>7
    <2>2. phase[found.from] = "ended" /\ Safe(found.from)
      BY <2>1 DEF IInv, Known, Placed
    <2> QED
      BY <1>1, <1>3, <2>1, <2>2 DEF Lookup, Go, TypeOK
  <1>8. Placed(r)'
    BY <1>1, <1>4, <1>6 DEF Known, Placed, Plain
  <1>9. Origin(r)'
    BY <1>1, <1>4, <1>6, <1>7
       DEF Known, Placed, Plain, Origin, Same, SameEvidence, Compatible
  <1>10. Safe(r)'
    BY <1>1, <1>4, <1>6, <1>7 DEF Known, Placed, Plain, Safe, Held
  <1>11. Judged(r)' /\ Decided(r)'
    BY <1>1, <1>4 DEF Known, Placed, Plain, Judged, Decided
  <1> QED
    BY <1>8, <1>9, <1>10, <1>11 DEF Known

(* The analysis, or the conclusion that is replayed.                       *)
LEMMA AnalyzeKnown ==
  ASSUME IInv, NEW r \in Runs, Analyze(r)
  PROVE  Known(r)'
PROOF
  <1>1. TypeOK /\ Known(r) /\ phase[r] = "looked" /\ report[r] \notin Report
    BY NoReport DEF IInv, Analyze
  <1>2. /\ phase'[r] = "analyzed" /\ hit' = hit /\ art' = art /\ lesson' = lesson
        /\ report' = report /\ req' = req
    BY <1>1 DEF Analyze, Go, TypeOK
  <1>3. rt'[r].decision = rt[r].decision
    <2>1. rt' = [rt EXCEPT ![r] = [rt[r] EXCEPT !.stage = "plan", !.status = "completed"]]
      BY <1>1 DEF Analyze, Transition, TypeOK
    <2>2. rt'[r] = [rt[r] EXCEPT !.stage = "plan", !.status = "completed"]
      BY <1>1, <2>1 DEF TypeOK
    <2> QED
      BY <1>1, <2>2 DEF TypeOK
  <1>4. Step(r)
    BY DEF Step
  <1>5. /\ Plain(res'[r])
        /\ res'[r].analysis # None => Same(r, res'[r].analysis)
        /\ Replaying(r) => ~res'[r].structured /\ res'[r].analysis # None
    <2>1. CASE Replaying(r) /\ res' = [res EXCEPT ![r] = Copied(hit[r].from)]
      <3> DEFINE s == hit[r].from
      <3>1. s \in Runs /\ Same(r, s) /\ report[s] \in Report /\ report[s].conclusion
        BY <1>1, <2>1 DEF Replaying, Known, Origin, TypeOK
      <3>2. report[s].text # None /\ Same(s, report[s].text) /\ report[s].text \in Texts
        BY <3>1 DEF IInv, Known, Origin, Report
      <3>3. report[s].grounded \in BOOLEAN
        BY <3>1 DEF Report
      <3>4. res'[r] = Analysis("usable", report[s].text, FALSE, report[s].grounded)
        BY <1>1, <2>1 DEF Copied, TypeOK
      <3>5. Plain(res'[r]) /\ res'[r].analysis = report[s].text
        BY <3>2, <3>4 DEF Analysis, NoResult, Plain
      <3>6. ~res'[r].structured
        BY <3>4 DEF Analysis, NoResult
      <3> QED
        BY <3>1, <3>2, <3>5, <3>6 DEF Same
    <2>2. CASE ~Replaying(r) /\ res' = [res EXCEPT ![r].status = "error"]
      <3>1. res[r] \in Result /\ Plain(res[r]) /\ res[r].analysis = None
        BY <1>1 DEF Known, Placed, TypeOK
      <3>2. res'[r] = [res[r] EXCEPT !.status = "error"]
        BY <1>1, <2>2 DEF TypeOK
      <3>3. res'[r].analysis = res[r].analysis /\ Plain(res'[r])
        BY <3>1, <3>2 DEF Plain, Result
      <3> QED
        BY <2>2, <3>1, <3>3
    <2>3. CASE /\ ~Replaying(r)
               /\ \E l \in Located(r), text \in {None, r}, s \in BOOLEAN, g \in BOOLEAN :
                    /\ text = r => l = "usable" /\ req[r].scope = "full"
                    /\ res' = [res EXCEPT ![r] = Analysis(l, text, s, g)]
      <3>1. Located(r) \subseteq {"usable", "no_code", "no_symbols"}
        BY <1>1 DEF Located, Report, TypeOK
      <3>2. PICK l \in Located(r), text \in {None, r}, s \in BOOLEAN, g \in BOOLEAN :
              /\ text = r => l = "usable" /\ req[r].scope = "full"
              /\ res' = [res EXCEPT ![r] = Analysis(l, text, s, g)]
        BY <2>3
      <3>3. l \in {"usable", "no_code", "no_symbols", "nothing"} /\ text \in Texts
        BY <3>1 DEF Texts
      <3>4. Plain(Analysis(l, text, s, g)) /\ Analysis(l, text, s, g).analysis = text
        BY <3>3, AnalysisFacts
      <3>5. res'[r] = Analysis(l, text, s, g)
        BY <1>1, <3>2 DEF TypeOK
      <3> QED
        BY <1>1, <2>3, <3>2, <3>4, <3>5 DEF Same
    <2> QED
      BY <2>1, <2>2, <2>3 DEF Analyze
  <1>6. \A s : Same(r, s) => Same(r, s)'
    BY <1>1, <1>4, SameKept
  <1>7. Placed(r)'
    BY <1>1, <1>2, <1>3, <1>5 DEF Known, Placed
  <1>8. Origin(r)'
    <2>1. hit[r].level = "conclusion" => phase'[hit[r].from] = "ended"
      BY <1>1, <1>4, PastKept DEF Known, Origin, Same
    <2> QED
      BY <1>1, <1>2, <1>5, <1>6, <2>1 DEF Known, Origin, Plain
  <1>9. Safe(r)'
    <2>1. \A s : Held(s) => Held(s)'
      BY <1>4, HeldKept
    <2>2. r # None
      BY CliAssumption
    <2> QED
      BY <1>1, <1>2, <1>5, <2>1, <2>2 DEF Known, Safe, Plain
  <1>10. Judged(r)' /\ Decided(r)'
    <2>1. Replaying(r)' <=> Replaying(r)
      BY <1>2 DEF Replaying
    <2> QED
      BY <1>2, <1>5, <2>1, CliAssumption DEF Judged, Decided, Plain
  <1> QED
    BY <1>7, <1>8, <1>9, <1>10 DEF Known

(* A run that dies, or ends without a report, forgets what it knew.        *)
LEMMA GoneKnown ==
  ASSUME IInv, NEW r \in Runs, Step(r), Gone(r), Go(r, "dead"), UNCHANGED <<req, report>>,
         phase[r] # "ended"
  PROVE  Known(r)'
PROOF
  <1>1. TypeOK /\ report[r] \notin Report
    BY NoReport DEF IInv
  <1>2. /\ phase'[r] = "dead" /\ hit'[r] = NoHit /\ res'[r] = NoResult
        /\ report'[r] \notin Report
    BY <1>1 DEF Gone, Go, TypeOK
  <1>3. /\ NoHit.level = "none" /\ NoHit.patch = None
        /\ Plain(NoResult) /\ NoResult.analysis = None
    BY DEF NoHit, NoResult, Plain
  <1>4. Placed(r)'
    BY <1>2, <1>3 DEF Placed
  <1>5. Origin(r)'
    BY <1>2, <1>3 DEF Origin, Plain
  <1>6. Safe(r)'
    BY <1>2, <1>3, CliAssumption DEF Safe, Plain
  <1>7. Judged(r)' /\ Decided(r)'
    BY <1>2, <1>3, CliAssumption DEF Judged, Decided, Plain
  <1> QED
    BY <1>4, <1>5, <1>6, <1>7 DEF Known

(* What a step keeps of the origin of a run and of the patches it found    *)
(* when it leaves the request, the hit and the report alone.               *)
LEMMA FindKept ==
  ASSUME IInv, NEW r \in Runs, Step(r), phase[r] \notin {"new", "ended"},
         req' = req, hit' = hit, report' = report, phase'[r] # "ended"
  PROVE  /\ report'[r] \notin Report
         /\ hit[r].level = "conclusion" =>
              /\ phase'[hit[r].from] = "ended" /\ report[hit[r].from].conclusion
              /\ Same(r, hit[r].from)'
              /\ hit[r].patch \in {None, report[hit[r].from].patch}
         /\ hit[r].patch # None => Held(hit[r].patch)'
         /\ \A s : Same(r, s) => Same(r, s)'
         /\ \A s : Held(s) => Held(s)'
PROOF
  <1>1. TypeOK /\ Known(r)
    BY DEF IInv
  <1>2. \A s : Same(r, s) => Same(r, s)'
    BY <1>1, SameKept
  <1>3. \A s : Held(s) => Held(s)'
    BY HeldKept
  <1>4. hit[r].level = "conclusion" => phase'[hit[r].from] = "ended"
    BY <1>1, PastKept DEF Known, Origin, Same
  <1> QED
    BY <1>1, <1>2, <1>3, <1>4, NoReport DEF Known, Origin, Safe

(* A repair of the run's own.                                              *)
LEMMA RepairKnown ==
  ASSUME IInv, NEW r \in Runs, Repair(r)
  PROVE  Known(r)'
PROOF
  <1>1. /\ TypeOK /\ Known(r) /\ Step(r) /\ phase[r] = "analyzed"
        /\ ShouldRepair(r) /\ hit[r].patch = None
        /\ req' = req /\ hit' = hit /\ report' = report /\ lesson' = lesson
    BY DEF IInv, Repair, Step
  <1>2. PICK o \in Outcomes :
          /\ res' = [res EXCEPT ![r] = Repaired(r, o)]
          /\ art' = [art EXCEPT ![r] = IF o.decides THEN Score(Repaired(r, o)) ELSE @]
          /\ \/ /\ o.status \in {"approval_required", "verification_pending"}
                /\ Transition(r, "verify", "pending")
             \/ ~(o.status \in {"approval_required", "verification_pending"})
             \/ o.decides
          /\ Go(r, IF ~(o.status \in {"approval_required", "verification_pending"})
                     THEN "repaired"
                   ELSE IF Replaying(r) THEN "replayed" ELSE "settled")
    BY DEF Repair
  <1> DEFINE x == Repaired(r, o)
             waits == o.status \in {"approval_required", "verification_pending"}
  <1>3. /\ phase'[r] = (IF ~waits THEN "repaired"
                        ELSE IF Replaying(r) THEN "replayed" ELSE "settled")
        /\ res'[r] = x
        /\ art'[r] = IF o.decides THEN Score(x) ELSE art[r]
    BY <1>1, <1>2 DEF Go, TypeOK
  <1>4. /\ x.status = o.status /\ x.fix = o.fix /\ x.safety = o.safety /\ x.ver = o.ver
        /\ x.apply = o.fix /\ x.patch = (IF o.fix = "applied" THEN r ELSE None)
        /\ x.located = res[r].located /\ x.analysis = res[r].analysis
        /\ x.decide = res[r].decide
    BY <1>1, RepairedFacts
  <1>5. waits => ~o.decides
    BY OutcomeFacts
  <1>6. waits => rt'[r].decision = None
    <2> SUFFICES ASSUME waits PROVE rt'[r].decision = None
      OBVIOUS
    <2>0. Transition(r, "verify", "pending")
      BY <1>2, <1>5
    <2>1. rt' = [rt EXCEPT ![r] = [rt[r] EXCEPT !.stage = "verify", !.status = "pending"]]
      BY <1>1, <2>0 DEF Transition, TypeOK
    <2>2. rt'[r] = [rt[r] EXCEPT !.stage = "verify", !.status = "pending"]
      BY <1>1, <2>1 DEF TypeOK
    <2>3. rt'[r].decision = rt[r].decision
      BY <1>1, <2>2 DEF TypeOK
    <2> QED
      BY <1>1, <2>3 DEF Known, Placed
  <1>7. res[r].decide = None /\ art[r] = None /\ lesson[r] = "none" /\ req[r].scope = "full"
        /\ ~Skipped(res[r])
    BY <1>1 DEF Known, Placed, Plain, ShouldRepair
  <1>8. /\ phase'[r] \in {"repaired", "replayed", "settled"}
        /\ phase'[r] \in {"replayed", "settled"} => waits
    BY <1>3
  <1>9. /\ report'[r] \notin Report
        /\ hit[r].level = "conclusion" =>
              /\ phase'[hit[r].from] = "ended" /\ report[hit[r].from].conclusion
              /\ Same(r, hit[r].from)'
              /\ hit[r].patch \in {None, report[hit[r].from].patch}
        /\ \A s : Same(r, s) => Same(r, s)'
    BY <1>1, <1>8, FindKept
  <1>10. Placed(r)'
    <2>1. Skipped(res'[r]) <=> Skipped(res[r])
      BY <1>3, <1>4 DEF Skipped
    <2>2. o.ver = "failed" => o.status = "error"
      BY OutcomeFacts
    <2> QED
      BY <1>1, <1>3, <1>4, <1>7, <1>8, <1>9, <2>1, <2>2 DEF Known, Placed
  <1>11. Origin(r)'
    <2>1. Same(r, r)
      BY <1>1, <1>7 DEF Same
    <2> QED
      BY <1>1, <1>3, <1>4, <1>9, <2>1 DEF Known, Origin
  <1>12. Safe(r)'
    <2>1. o.fix = "applied" /\ o.status = "success" =>
            o.safety = "passed" /\ o.ver \in {"repair_applied", "verified"}
      BY OutcomeFacts
    <2> QED
      <3>1. hit'[r].patch = None /\ report'[r] \notin Report
        BY <1>1, <1>9
      <3>2. /\ res'[r].patch \in {None, r}
            /\ res'[r].patch = r => o.fix = "applied"
        BY <1>3, <1>4, CliAssumption
      <3>3. res'[r].patch = r /\ res'[r].status = "success" =>
              res'[r].safety = "passed" /\ res'[r].ver \in {"repair_applied", "verified"}
        BY <1>3, <1>4, <2>1, <3>2
      <3> QED
        BY <3>1, <3>2, <3>3 DEF Safe
  <1>13. Judged(r)'
    <2>1. res'[r].decide # "accept"
      BY <1>3, <1>4, <1>7, NoneAssumption DEF Decisions
    <2> QED
      BY <1>3, <1>4, <1>8, <2>1 DEF Judged
  <1>14. Decided(r)'
    BY <1>1, <1>3, <1>4, <1>5, <1>6, <1>7, <1>8 DEF Decided
  <1> QED
    BY <1>10, <1>11, <1>12, <1>13, <1>14 DEF Known

(* The analysis that is revised after a repair.                            *)
LEMMA ReviseKnown ==
  ASSUME IInv, NEW r \in Runs, Revise(r)
  PROVE  Known(r)'
PROOF
  <1>1. /\ TypeOK /\ Known(r) /\ Step(r) /\ phase[r] = "repaired"
        /\ req' = req /\ report' = report
    BY DEF IInv, Revise, Step
  <1>2. CASE Go(r, "dead") /\ Gone(r)
    BY <1>1, <1>2, GoneKnown
  <1>3. CASE /\ \E s \in {res[r].structured, TRUE} :
                  res' = [res EXCEPT ![r].analysis = r, ![r].structured = s]
             /\ Go(r, "revised")
             /\ UNCHANGED <<hit, rt, art, lesson>>
    <2>1. PICK s \in {res[r].structured, TRUE} :
            res' = [res EXCEPT ![r].analysis = r, ![r].structured = s]
      BY <1>3
    <2>2. res' = [res EXCEPT ![r] = [res[r] EXCEPT !.analysis = r, !.structured = s]]
      BY <1>1, <2>1 DEF TypeOK
    <2>3. res'[r] = [res[r] EXCEPT !.analysis = r, !.structured = s] /\ res[r] \in Result
      BY <1>1, <2>2 DEF TypeOK
    <2>4. /\ res'[r].analysis = r
          /\ res'[r].status = res[r].status /\ res'[r].located = res[r].located
          /\ res'[r].fix = res[r].fix /\ res'[r].safety = res[r].safety
          /\ res'[r].ver = res[r].ver /\ res'[r].apply = res[r].apply
          /\ res'[r].patch = res[r].patch /\ res'[r].decide = res[r].decide
      BY <2>3 DEF Result
    <2>5. phase'[r] = "revised" /\ hit' = hit /\ rt' = rt /\ art' = art /\ lesson' = lesson
      BY <1>1, <1>3 DEF Go, TypeOK
    <2>6. /\ report'[r] \notin Report
          /\ hit[r].level = "conclusion" =>
                /\ phase'[hit[r].from] = "ended" /\ report[hit[r].from].conclusion
                /\ Same(r, hit[r].from)'
                /\ hit[r].patch \in {None, report[hit[r].from].patch}
          /\ hit[r].patch # None => Held(hit[r].patch)'
          /\ \A t : Same(r, t) => Same(r, t)'
          /\ \A t : Held(t) => Held(t)'
      BY <1>1, <2>5, FindKept
    <2>7. Placed(r)'
      <3>1. /\ req[r].scope = "full" /\ ~Skipped(res[r])
            /\ lesson[r] = "none" /\ res[r].decide = None
            /\ res[r].apply = res[r].fix
            /\ res[r].ver = "failed" => res[r].status = "error"
            /\ hit[r].level # "conclusion" => hit[r].patch = None
        BY <1>1 DEF Known, Placed
      <3>2. Skipped(res'[r]) <=> Skipped(res[r])
        BY <2>4 DEF Skipped
      <3> QED
        BY <1>1, <2>4, <2>5, <2>6, <3>1, <3>2 DEF Placed
    <2>8. Origin(r)'
      <3>1. Same(r, r)
        BY <1>1 DEF Same, Known, Placed
      <3> QED
        BY <1>1, <2>4, <2>5, <2>6, <3>1 DEF Known, Origin
    <2>9. Safe(r)'
      BY <1>1, <2>4, <2>5, <2>6 DEF Known, Safe
    <2>10. Judged(r)'
      <3>1. res'[r].decide # "accept" /\ res'[r].apply = res'[r].fix
        BY <1>1, <2>4, NoneAssumption DEF Known, Placed, Decisions
      <3> QED
        BY <2>5, <3>1 DEF Judged
    <2>11. Decided(r)'
      BY <2>5 DEF Decided
    <2> QED
      BY <2>7, <2>8, <2>9, <2>10, <2>11 DEF Known
  <1> QED
    BY <1>2, <1>3 DEF Revise

(* A decision does not depend on an earlier one.                           *)
LEMMA FinalKept ==
  ASSUME NEW x, NEW y,
         y.status = x.status, y.located = x.located, y.analysis = x.analysis,
         y.structured = x.structured, y.grounded = x.grounded,
         y.fix = x.fix, y.safety = x.safety, y.ver = x.ver
  PROVE  Final(y) = Final(x) /\ (Gates(y) <=> Gates(x))
PROOF
  <1>1. Gates(y) <=> Gates(x)
    BY DEF Gates, Attempted
  <1>2. Judge(y) = Judge(x)
    BY <1>1 DEF Judge, Attempted
  <1>3. Score(y) = Score(x)
    BY DEF Score, Skipped, PatchValid, DiffPassed, VerificationPassed
  <1> QED
    BY <1>1, <1>2, <1>3 DEF Final

(* An accept is the judge's too.                                           *)
LEMMA AcceptIsJudged ==
  ASSUME NEW x, Final(x) = "accept"
  PROVE  Gates(x)
BY DEF Final, Judge

(* What a decision leaves as it is, and what it makes.                     *)
LEMMA DecideFacts ==
  ASSUME TypeOK, NEW r \in Runs, Decide(r)
  PROVE  /\ res'[r].status = res[r].status /\ res'[r].located = res[r].located
         /\ res'[r].analysis = res[r].analysis /\ res'[r].fix = res[r].fix
         /\ res'[r].safety = res[r].safety /\ res'[r].ver = res[r].ver
         /\ res'[r].apply = res[r].apply /\ res'[r].patch = res[r].patch
         /\ res'[r].decide = Final(res[r]) /\ rt'[r].decision = Final(res[r])
         /\ Final(res'[r]) = Final(res[r])
         /\ (Gates(res'[r]) <=> Gates(res[r]))
         /\ (res'[r].structured <=> res[r].structured)
PROOF
  <1>1. res' = [res EXCEPT ![r] = [res[r] EXCEPT !.decide = Final(res[r])]]
    BY DEF Decide, TypeOK
  <1>2. res'[r] = [res[r] EXCEPT !.decide = Final(res[r])] /\ res[r] \in Result
    BY <1>1 DEF TypeOK
  <1>3. /\ res'[r].status = res[r].status /\ res'[r].located = res[r].located
        /\ res'[r].analysis = res[r].analysis /\ res'[r].fix = res[r].fix
        /\ res'[r].safety = res[r].safety /\ res'[r].ver = res[r].ver
        /\ res'[r].apply = res[r].apply /\ res'[r].patch = res[r].patch
        /\ res'[r].decide = Final(res[r])
    BY <1>2 DEF Result
  <1>4. res'[r].structured = res[r].structured
    BY <1>2 DEF Result
  <1>5. res'[r].grounded = res[r].grounded
    BY <1>2 DEF Result
  <1>6. rt'[r].decision = Final(res[r])
    BY DEF Decide, TypeOK
  <1>7. Final(res'[r]) = Final(res[r]) /\ (Gates(res'[r]) <=> Gates(res[r]))
    BY <1>3, <1>4, <1>5, FinalKept
  <1> QED
    BY <1>3, <1>4, <1>6, <1>7

(* What is known after a decision but of the place and of what was decided.*)
LEMMA DecideKnown ==
  ASSUME IInv, NEW r \in Runs, Step(r), Decide(r), phase[r] \notin {"new", "ended"},
         phase'[r] \in {"replayed", "settled"}, UNCHANGED <<req, hit, report>>
  PROVE  Placed(r)' /\ Origin(r)' /\ Safe(r)' /\ Judged(r)'
PROOF
  <1>1. TypeOK /\ Known(r)
    BY DEF IInv
  <1>2. /\ res'[r].status = res[r].status
        /\ res'[r].analysis = res[r].analysis /\ res'[r].fix = res[r].fix
        /\ res'[r].safety = res[r].safety /\ res'[r].ver = res[r].ver
        /\ res'[r].apply = res[r].apply /\ res'[r].patch = res[r].patch
    BY <1>1, DecideFacts
  <1>3. /\ report'[r] \notin Report
        /\ hit[r].level = "conclusion" =>
              /\ phase'[hit[r].from] = "ended" /\ report[hit[r].from].conclusion
              /\ Same(r, hit[r].from)'
              /\ hit[r].patch \in {None, report[hit[r].from].patch}
        /\ hit[r].patch # None => Held(hit[r].patch)'
        /\ \A s : Same(r, s) => Same(r, s)'
        /\ \A s : Held(s) => Held(s)'
    BY FindKept
  <1>4. Placed(r)'
    BY <1>1, <1>3 DEF Known, Placed
  <1>5. Origin(r)'
    BY <1>1, <1>2, <1>3 DEF Known, Origin
  <1>6. Safe(r)'
    BY <1>1, <1>2, <1>3 DEF Known, Safe
  <1>7. Judged(r)'
    <2>1. res[r].apply = "applied" =>
            res[r].fix = "applied" \/ (~res[r].structured /\ res[r].analysis # None)
      BY <1>1 DEF Known, Judged
    <2>2. res'[r].decide = Final(res[r]) /\ (Gates(res'[r]) <=> Gates(res[r]))
      BY <1>1, DecideFacts
    <2>3. res'[r].structured <=> res[r].structured
      BY <1>1, DecideFacts
    <2>4. Final(res[r]) = "accept" => Gates(res[r]) /\ (res[r].structured \/ res[r].analysis = None)
      BY AcceptIsJudged DEF Gates
    <2> QED
      BY <1>2, <2>1, <2>2, <2>3, <2>4 DEF Judged
  <1> QED
    BY <1>4, <1>5, <1>6, <1>7

(* A failed check of a repair is rejected.                                 *)
LEMMA FailedIsRejected ==
  ASSUME NEW x, ~Skipped(x), x.ver = "failed", x.status = "error"
  PROVE  Final(x) = "reject"
PROOF
  <1>1. Score(x) = "reject"
    BY DEF Score
  <1> QED
    BY <1>1 DEF Final

(* The decision after a repair.                                            *)
LEMMA SettleKnown ==
  ASSUME IInv, NEW r \in Runs, Settle(r)
  PROVE  Known(r)'
PROOF
  <1>1. /\ TypeOK /\ Known(r) /\ Step(r) /\ Decide(r) /\ phase[r] \in {"repaired", "revised"}
        /\ UNCHANGED <<req, hit, report>>
    BY DEF IInv, Settle, Step
  <1>2. phase'[r] \in {"replayed", "settled"} /\ art'[r] = Final(res[r])
    BY <1>1 DEF Settle, Go, TypeOK
  <1>3. lesson'[r] = "rejected" => res[r].ver = "failed"
    BY <1>1 DEF Settle, TypeOK, Known, Placed
  <1>4. /\ res'[r].decide = Final(res[r]) /\ rt'[r].decision = Final(res[r])
        /\ Final(res'[r]) = Final(res[r])
    BY <1>1, DecideFacts
  <1>5. res[r].ver = "failed" => Final(res[r]) = "reject"
    BY <1>1, FailedIsRejected DEF Known, Placed
  <1>6. Placed(r)' /\ Origin(r)' /\ Safe(r)' /\ Judged(r)'
    BY <1>1, <1>2, DecideKnown
  <1>7. Decided(r)'
    BY <1>2, <1>3, <1>4, <1>5 DEF Decided
  <1> QED
    BY <1>6, <1>7 DEF Known

(* The decision of the CLI.                                                *)
LEMMA CloseKnown ==
  ASSUME IInv, NEW r \in Runs, Close(r)
  PROVE  Known(r)'
PROOF
  <1>1. /\ TypeOK /\ Known(r) /\ Step(r) /\ Decide(r) /\ phase[r] \in {"replayed", "analyzed"}
        /\ UNCHANGED <<req, hit, report>> /\ art' = art /\ lesson' = lesson
    BY DEF IInv, Close, Step
  <1>2. phase'[r] = "settled"
    BY <1>1 DEF Close, Go, TypeOK
  <1>3. /\ res'[r].decide = Final(res[r]) /\ rt'[r].decision = Final(res[r])
        /\ Final(res'[r]) = Final(res[r])
    BY <1>1, DecideFacts
  <1>4. art[r] \in {None, Final(res[r])} /\ (lesson[r] = "rejected" => Final(res[r]) = "reject")
    BY <1>1 DEF Known, Placed, Decided
  <1>5. Placed(r)' /\ Origin(r)' /\ Safe(r)' /\ Judged(r)'
    BY <1>1, <1>2, DecideKnown
  <1>6. Decided(r)'
    BY <1>1, <1>2, <1>3, <1>4 DEF Decided
  <1> QED
    BY <1>5, <1>6 DEF Known

(* The patch that is replayed.                                             *)
LEMMA ReplayFixKnown ==
  ASSUME IInv, NEW r \in Runs, ReplayFix(r)
  PROVE  Known(r)'
PROOF
  <1>1. /\ TypeOK /\ Known(r) /\ Step(r) /\ phase[r] = "analyzed" /\ hit[r].patch # None
        /\ UNCHANGED <<req, hit, rt, art, lesson, report>>
    BY DEF IInv, ReplayFix, Step
  <1>2. phase'[r] = "replayed"
    BY <1>1 DEF ReplayFix, Go, TypeOK
  <1>3. /\ res'[r].analysis = res[r].analysis /\ res'[r].decide = res[r].decide
        /\ (res'[r].structured <=> res[r].structured)
        /\ res'[r].patch \in {res[r].patch, hit[r].patch}
    <2>1. res[r] \in Result
      BY <1>1 DEF TypeOK
    <2>2. CASE res' = [res EXCEPT ![r].apply = "applied", ![r].patch = hit[r].patch]
      <3>1. res' = [res EXCEPT ![r] = [res[r] EXCEPT !.apply = "applied", !.patch = hit[r].patch]]
        BY <1>1, <2>2 DEF TypeOK
      <3>2. res'[r] = [res[r] EXCEPT !.apply = "applied", !.patch = hit[r].patch]
        BY <1>1, <3>1 DEF TypeOK
      <3>3. /\ res'[r].analysis = res[r].analysis /\ res'[r].decide = res[r].decide
            /\ res'[r].patch = hit[r].patch
        BY <2>1, <3>2 DEF Result
      <3>4. res'[r].structured = res[r].structured
        BY <2>1, <3>2 DEF Result
      <3> QED
        BY <3>3, <3>4
    <2>3. CASE res' = [res EXCEPT ![r].apply = "undone"]
      <3>1. res' = [res EXCEPT ![r] = [res[r] EXCEPT !.apply = "undone"]]
        BY <1>1, <2>3 DEF TypeOK
      <3>2. res'[r] = [res[r] EXCEPT !.apply = "undone"]
        BY <1>1, <3>1 DEF TypeOK
      <3>3. /\ res'[r].analysis = res[r].analysis /\ res'[r].decide = res[r].decide
            /\ res'[r].patch = res[r].patch
        BY <2>1, <3>2 DEF Result
      <3>4. res'[r].structured = res[r].structured
        BY <2>1, <3>2 DEF Result
      <3> QED
        BY <3>3, <3>4
    <2> QED
      BY <2>2, <2>3 DEF ReplayFix
  <1>4. /\ report'[r] \notin Report
        /\ hit[r].level = "conclusion" =>
              /\ phase'[hit[r].from] = "ended" /\ report[hit[r].from].conclusion
              /\ Same(r, hit[r].from)'
              /\ hit[r].patch \in {None, report[hit[r].from].patch}
        /\ hit[r].patch # None => Held(hit[r].patch)'
        /\ \A s : Same(r, s) => Same(r, s)'
        /\ \A s : Held(s) => Held(s)'
    BY <1>1, <1>2, FindKept
  <1>5. /\ hit[r].level = "conclusion" /\ res[r].decide = None /\ res[r].patch = None
        /\ art[r] = None /\ lesson[r] = "none"
    BY <1>1 DEF Known, Placed, Plain
  <1>6. Placed(r)'
    BY <1>1, <1>2, <1>4 DEF Known, Placed
  <1>7. Origin(r)'
    <2>1. report[hit[r].from] \in Report /\ hit[r].from \in Runs
      BY <1>1, <1>5 DEF TypeOK
    <2>2. hit[r].patch = report[hit[r].from].patch
      BY <1>1, <1>4, <1>5
    <2>3. Same(hit[r].from, hit[r].patch)
      BY <1>1, <2>1, <2>2 DEF IInv, Known, Origin
    <2>4. Same(r, hit[r].from)
      BY <1>1, <1>5 DEF Known, Origin
    <2>5. Same(r, hit[r].patch)
      BY <2>3, <2>4 DEF Same
    <2> QED
      BY <1>1, <1>3, <1>4, <1>5, <2>5 DEF Known, Origin
  <1>8. Safe(r)'
    <2>1. Held(hit[r].patch)
      BY <1>1 DEF Known, Safe
    <2>2. hit[r].patch # r
      BY <1>1, <2>1, NoReport DEF Held
    <2>3. r # None
      BY CliAssumption
    <2> QED
      BY <1>1, <1>3, <1>4, <1>5, <2>2, <2>3 DEF Safe
  <1>9. Judged(r)'
    <2>1. ~res[r].structured /\ res[r].analysis # None
      BY <1>1, <1>5 DEF Known, Judged, Replaying
    <2>2. res'[r].decide # "accept"
      BY <1>3, <1>5, NoneAssumption DEF Decisions
    <2> QED
      BY <1>2, <1>3, <2>1, <2>2 DEF Judged
  <1>10. Decided(r)'
    BY <1>1, <1>2, <1>5 DEF Decided
  <1> QED
    BY <1>6, <1>7, <1>8, <1>9, <1>10 DEF Known

(* The report, and the entry in the index.                                 *)
LEMMA FinishKnown ==
  ASSUME IInv, NEW r \in Runs, Finish(r)
  PROVE  Known(r)'
PROOF
  <1>1. TypeOK /\ Known(r) /\ Step(r) /\ phase[r] = "settled" /\ Gone(r) /\ req' = req
    BY DEF IInv, Finish, Step
  <1>2. phase'[r] = "ended" /\ hit'[r] = NoHit /\ res'[r] = NoResult
    BY <1>1 DEF Finish, Go, Gone, TypeOK
  <1>3. /\ NoHit.level = "none" /\ NoHit.patch = None
        /\ Plain(NoResult) /\ NoResult.analysis = None
    BY DEF NoHit, NoResult, Plain
  <1>4. report'[r] = Written(r) \/ report'[r] \notin Report
    BY <1>1, NoReport DEF Finish, TypeOK
  <1>5. ASSUME report'[r] = Written(r), ConclusionOk(r) = TRUE
        PROVE  /\ report'[r].patch = res[r].patch
               /\ report'[r].text = (IF res[r].analysis = None THEN r ELSE res[r].analysis)
               /\ report'[r].safety = res[r].safety /\ report'[r].ver = res[r].ver
               /\ req[r].scope = "full" /\ res[r].status = "success"
    BY <1>5 DEF Written, ConclusionOk
  <1>6. ASSUME report'[r] = Written(r), ConclusionOk(r) # TRUE
        PROVE  report'[r].patch = None /\ report'[r].text = None /\ ~report'[r].conclusion
    <2>1. ~ConclusionOk(r)
      BY <1>6 DEF ConclusionOk, Reusable, Skipped
    <2> QED
      BY <1>6, <2>1 DEF Written
  <1>7. Same(r, r) <=> req[r].scope = "full"
    BY <1>1 DEF Same
  <1>8. \A s : Same(r, s) => Same(r, s)'
    BY <1>1, SameKept
  <1>9. \A s : Held(s) => Held(s)'
    BY <1>1, HeldKept
  <1>10. Placed(r)'
    BY <1>2, <1>3 DEF Placed
  <1>11. Origin(r)'
    <2>1. hit'[r].level # "conclusion" /\ res'[r].patch = None /\ res'[r].analysis = None
      BY <1>2, <1>3 DEF Plain
    <2>2. CASE report'[r] = Written(r) /\ ConclusionOk(r) = TRUE
      <3>1. report'[r].text # None /\ Same(r, report'[r].text)
        BY <1>1, <1>5, <1>7, <2>2, CliAssumption DEF Known, Origin
      <3>2. report'[r].patch # None => Same(r, report'[r].patch)
        BY <1>1, <1>5, <2>2 DEF Known, Origin
      <3> QED
        BY <1>8, <2>1, <3>1, <3>2 DEF Origin
    <2>3. CASE report'[r] = Written(r) /\ ConclusionOk(r) # TRUE
      BY <1>6, <2>1, <2>3 DEF Origin
    <2> QED
      BY <1>4, <2>1, <2>2, <2>3 DEF Origin
  <1>12. Safe(r)'
    <2>1. hit'[r].patch = None /\ res'[r].patch = None /\ r # None
      BY <1>2, <1>3, CliAssumption DEF Plain
    <2>2. CASE report'[r] = Written(r) /\ ConclusionOk(r) = TRUE /\ report'[r] \in Report
      <3>1. CASE res[r].patch = r
        <4>1. report'[r].safety = "passed" /\ report'[r].ver \in {"repair_applied", "verified"}
          BY <1>1, <1>5, <2>2, <3>1 DEF Known, Safe
        <4>2. Held(r)'
          BY <2>2, <4>1 DEF Held
        <4> QED
          BY <1>5, <2>1, <2>2, <3>1, <4>2 DEF Safe
      <3>2. CASE res[r].patch # r
        BY <1>1, <1>5, <1>9, <2>1, <2>2, <3>2 DEF Known, Safe
      <3> QED
        BY <3>1, <3>2
    <2>3. CASE report'[r] = Written(r) /\ ConclusionOk(r) # TRUE
      BY <1>6, <2>1, <2>3 DEF Safe
    <2> QED
      BY <1>4, <2>1, <2>2, <2>3 DEF Safe
  <1>13. Judged(r)' /\ Decided(r)'
    BY <1>2, <1>3, CliAssumption DEF Judged, Decided, Plain
  <1> QED
    BY <1>10, <1>11, <1>12, <1>13 DEF Known

---------------------------------------------------------------------------
(* At the start nothing is known of a run.                                 *)
LEMMA KnownInit == Init => IInv
PROOF
  <1> SUFFICES ASSUME Init, NEW r \in Runs PROVE Known(r)
    BY TypeInit DEF IInv
  <1>1. /\ phase[r] = "new" /\ hit[r] = NoHit /\ res[r] = NoResult
        /\ rt[r] = Observing /\ art[r] = None /\ lesson[r] = "none" /\ report[r] = None
    BY DEF Init
  <1>2. /\ NoHit.level = "none" /\ NoHit.patch = None /\ Observing.decision = None
        /\ Plain(NoResult) /\ NoResult.analysis = None
    BY DEF NoHit, NoResult, Observing, Plain
  <1>3. report[r] \notin Report /\ r # None
    BY <1>1, NoneAssumption, CliAssumption
  <1>4. Placed(r)
    BY <1>1, <1>2, <1>3 DEF Placed
  <1>5. Origin(r)
    BY <1>1, <1>2, <1>3 DEF Origin, Plain
  <1>6. Safe(r)
    BY <1>1, <1>2, <1>3 DEF Safe, Plain
  <1>7. Judged(r) /\ Decided(r)
    BY <1>1, <1>2 DEF Judged, Decided, Plain
  <1> QED
    BY <1>4, <1>5, <1>6, <1>7 DEF Known

(* Every step keeps what is known.                                         *)
LEMMA KnownNext == IInv /\ [Next]_vars => IInv'
PROOF
  <1> SUFFICES ASSUME IInv, [Next]_vars PROVE IInv'
    OBVIOUS
  <1>1. CASE Next
    <2>1. PICK r \in Runs : Step(r)
      BY <1>1 DEF Next
    <2>2. Known(r)'
      <3>1. CASE AnalysisRaises(r)
        BY <2>1, <3>1, GoneKnown DEF AnalysisRaises
      <3>2. CASE Kill(r)
        BY <2>1, <3>2, GoneKnown DEF Kill, Active
      <3> QED
        BY <2>1, <3>1, <3>2, LookupKnown, AnalyzeKnown, RepairKnown, ReviseKnown, SettleKnown,
           ReplayFixKnown, CloseKnown, FinishKnown DEF Step
    <2>3. \A p \in Runs : Known(p)'
      BY <2>1, <2>2, OthersKnown
    <2>4. TypeOK'
      BY <2>1, TypeStep DEF IInv
    <2> QED
      BY <2>3, <2>4 DEF IInv
  <1>2. CASE UNCHANGED vars
    BY <1>2 DEF vars, own, IInv, TypeOK, Known, Placed, Origin, Safe, Judged, Decided,
       Same, Held, Plain, Replaying, Skipped
  <1> QED
    BY <1>1, <1>2

(* What is known of the runs holds of every behaviour.                     *)
LEMMA KnownInvariant == Spec => []IInv
PROOF
  <1> QED
    BY KnownInit, KnownNext, PTL DEF Spec

---------------------------------------------------------------------------
(* The variables of every run keep their types, and a hit or the index     *)
(* only names runs that have a report.                                     *)
THEOREM RunTypes == Spec => []TypeOK
PROOF
  <1>1. IInv => TypeOK
    BY DEF IInv
  <1> QED
    BY <1>1, KnownInvariant, PTL

(* Whatever text or patch a run works with, however often it was replayed  *)
(* before, was made for the same crash with the same parameters.           *)
THEOREM ReplaySameRequest == Spec => []ReplayIsSameRequest
PROOF
  <1>1. IInv => ReplayIsSameRequest
    BY DEF IInv, Known, Origin, Same, ReplayIsSameRequest
  <1> QED
    BY <1>1, KnownInvariant, PTL

(* A patch that is taken over was inspected by the run that made it, and   *)
(* neither rolled back nor found to fail.                                  *)
THEOREM ReplayedPatch == Spec => []ReplayedPatchHeld
PROOF
  <1>1. IInv => ReplayedPatchHeld
    BY DEF IInv, Known, Safe, Held, ReplayedPatchHeld
  <1> QED
    BY <1>1, KnownInvariant, PTL

(* What is accepted and has changed the sources was inspected, verified    *)
(* and judged.                                                             *)
THEOREM AcceptedVerified == Spec => []AcceptedWasVerified
PROOF
  <1>1. IInv => AcceptedWasVerified
    BY DEF IInv, Known, Judged, Gates, Attempted, AcceptedWasVerified
  <1> QED
    BY <1>1, KnownInvariant, PTL

(* The pipeline, the runtime and the CLI come to one decision, and no      *)
(* pattern is rejected by a run that is not.                               *)
THEOREM OneDecision == Spec => []DecisionsAgree
PROOF
  <1>1. IInv => DecisionsAgree
    BY DEF IInv, Known, Decided, DecisionsAgree
  <1> QED
    BY <1>1, KnownInvariant, PTL
=============================================================================
