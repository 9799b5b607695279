--------------------------- MODULE RepairPipeline ---------------------------
(***************************************************************************)
(* The repair pipeline (services/repair_pipeline.py): a run applies the    *)
(* fixes of an analysis to source files, in a Git worktree of its own or   *)
(* in the checkout itself, checks and verifies them, and then copies the   *)
(* files back, rolls them back, or gives up.  Several runs and a developer *)
(* share the checkout.                                                     *)
(*                                                                         *)
(* The text of a file is what has been done to it: which file it started   *)
(* as, how often each writer has edited it, and whether a rollback has     *)
(* given it other line ends or another encoding.  Git's HEAD is the text   *)
(* nobody has edited; nobody commits.                                      *)
(***************************************************************************)
EXTENDS Naturals, FiniteSets

CONSTANTS Runs,        \* the repair runs, each in a CLI process
          Files,       \* the tracked source files under the code roots
          Developer,   \* whoever else edits the checkout
          Nothing,     \* no backup, no verdict
          Requested,   \* the ways a run may be asked to work
          MaxRounds,   \* max_repair_edit_rounds: model calls that revise a patch
          Backups,     \* --backup-original-sources
          SamePath     \* do the files have one path relative to their code roots?

Writers == Runs \cup {Developer}
Text == [of : Files, edits : [Writers -> Nat], recoded : BOOLEAN]

ASSUME RepairAssumption ==
  /\ Developer \notin Runs
  /\ Requested \subseteq {"isolated", "in_place", "unisolated"}
  /\ MaxRounds \in 0..3
  /\ {Backups, SamePath} \subseteq BOOLEAN
  /\ SamePath => Backups
  /\ Nothing \notin Text
  /\ Nothing \notin [Files -> Nat]

VARIABLES orig,        \* the checkout: the text of each file
          pc,          \* where each run is
          place,       \* where it writes
          scope,       \* the files whose cleanliness it has looked at
          began,       \* the edits it found in the checkout when it began
          work,        \* its worktree
          backup,      \* report_dir/original_sources
          rows,        \* the files with a record of status "applied"
          fresh,       \* the files the plan at hand has edited so far
          unrecorded,  \* the files it has written without a record
          round,       \* edit rounds spent
          judged,      \* what its verdict was about: its edits in each file
          handled,     \* the recorded files it has copied back, or restored
          status       \* its outcome

runVars == <<pc, place, scope, began, work, backup, rows, fresh, unrecorded, round,
             judged, handled, status>>
vars == <<orig, runVars>>

Head == [f \in Files |-> [of |-> f, edits |-> [w \in Writers |-> 0], recoded |-> FALSE]]

(* A backup is named by the path of the file under its code root. *)
BackupName(f) == IF SamePath THEN Nothing ELSE f
Names == {BackupName(f) : f \in Files}

Init ==
  /\ orig = Head
  /\ pc = [r \in Runs |-> "prepare"]
  /\ place = [r \in Runs |-> "none"]
  /\ scope = [r \in Runs |-> {}]
  /\ began = [r \in Runs |-> {}]
  /\ work = [r \in Runs |-> Head]
  /\ backup = [r \in Runs |-> [n \in Names |-> Nothing]]
  /\ rows = [r \in Runs |-> {}]
  /\ fresh = [r \in Runs |-> {}]
  /\ unrecorded = [r \in Runs |-> {}]
  /\ round = [r \in Runs |-> 0]
  /\ judged = [r \in Runs |-> Nothing]
  /\ handled = [r \in Runs |-> {}]
  /\ status = [r \in Runs |-> "running"]

Go(r, step) == pc' = [pc EXCEPT ![r] = step] /\ UNCHANGED status
End(r, outcome) ==
  /\ pc' = [pc EXCEPT ![r] = "done"]
  /\ status' = [status EXCEPT ![r] = outcome]

(* The files a run writes: its worktree, or the checkout. *)
Here(r) == IF place[r] = "isolated" THEN work[r] ELSE orig
SetHere(r, text) ==
  IF place[r] = "isolated"
    THEN work' = [work EXCEPT ![r] = text] /\ UNCHANGED orig
    ELSE orig' = text /\ UNCHANGED work

(* What git status reports: the texts that differ from HEAD. *)
Changed(text) == {f \in Files : text[f] # Head[f]}
EditsIn(text) == {p \in Files \X Writers : text[p[1]].edits[p[2]] > 0}
EditsOf(r, text) == [f \in Files |-> text[f].edits[r]]

---------------------------------------------------------------------------
(* Mutant of Isolate: uncommitted changes are not looked for. *)
IsolateDirty(r) ==
  /\ place' = [place EXCEPT ![r] = "isolated"]
  /\ Go(r, "apply")

(* prepare_isolated_workspace: detached worktrees at HEAD, refused when a  *)
(* tracked file in the scope has uncommitted changes.  The scope is the    *)
(* source files the analysis names, or the whole code roots if none.       *)
Isolate(r) ==
  /\ Changed(orig) \cap scope'[r] = {}
  /\ place' = [place EXCEPT ![r] = "isolated"]
  /\ Go(r, "apply")

(* adopt_prepared_checkout: the checkout as it is. *)
Adopt(r) ==
  /\ place' = [place EXCEPT ![r] = "in_place"]
  /\ Go(r, "apply")

(* The beginning of run_repair_pipeline, up to the first edit.  A worktree *)
(* that cannot be made, for whatever reason, is replaced by the checkout.  *)
Prepare(r) ==
  /\ pc[r] = "prepare"
  /\ \E needed \in SUBSET Files :
       scope' = [scope EXCEPT ![r] = IF needed = {} THEN Files ELSE needed]
  /\ began' = [began EXCEPT ![r] = EditsIn(orig)]
  /\ \/ "isolated" \in Requested /\ (Isolate(r) \/ Adopt(r))
     \/ "in_place" \in Requested /\ Adopt(r)
     \/ /\ "unisolated" \in Requested
        /\ place' = [place EXCEPT ![r] = "unisolated"]
        /\ Go(r, "apply")
     \/ End(r, "unavailable") /\ UNCHANGED place
  /\ UNCHANGED <<orig, work, backup, rows, fresh, unrecorded, round, judged, handled>>

(* A backup is made of a file's text before the edit, unless the report    *)
(* has one of that name; of two files with one name the first comes first. *)
Save(r, S, enabled) ==
  \E b \in [Names -> {Here(r)[f] : f \in S} \cup {backup[r][n] : n \in Names}] :
    /\ \A n \in Names :
         IF enabled /\ backup[r][n] = Nothing /\ \E f \in S : BackupName(f) = n
           THEN \E f \in S : BackupName(f) = n /\ b[n] = Here(r)[f]
           ELSE b[n] = backup[r][n]
    /\ backup' = [backup EXCEPT ![r] = b]

Edited(text, S, r) == [f \in Files |-> IF f \in S THEN [text[f] EXCEPT !.edits[r] = @ + 1] ELSE text[f]]

(* apply_fix_plan writes one file after the other, each with a backup and  *)
(* a record, and perhaps one more without: the initialisation that goes    *)
(* with a new member.                                                      *)
EditFile(r) ==
  /\ pc[r] \in {"apply", "revise", "edit"}
  /\ \E f \in Files \ fresh[r] :
       /\ fresh' = [fresh EXCEPT ![r] = @ \cup {f}]
       /\ \E extra \in SUBSET (Files \ {f}) :
            /\ Cardinality(extra) <= 1
            /\ SetHere(r, Edited(Here(r), {f} \cup extra, r))
            /\ unrecorded' = [unrecorded EXCEPT ![r] = @ \cup extra]
       /\ Save(r, {f}, Backups)
  /\ UNCHANGED <<pc, place, scope, began, rows, round, judged, handled, status>>

(* The plan is through, with records of what it edited. *)
Applied(r, records) ==
  /\ fresh[r] # {}
  /\ fresh' = [fresh EXCEPT ![r] = {}]
  /\ rows' = [rows EXCEPT ![r] = records]
  /\ UNCHANGED unrecorded

(* A write or a backup raises in the middle of the plan: the edits stay,   *)
(* and their records are lost with the call.                               *)
Breaks(r) ==
  /\ fresh' = [fresh EXCEPT ![r] = {}]
  /\ unrecorded' = [unrecorded EXCEPT ![r] = @ \cup (fresh[r] \ rows[r])]
  /\ UNCHANGED rows

(* No edit of the plan could be applied. *)
NothingApplied(r) == fresh[r] = {} /\ UNCHANGED <<fresh, rows, unrecorded>>

(* The end of the action apply_patch.  With no edit applied there is       *)
(* nothing to verify, and an exception counts as none, whatever it has     *)
(* written; the policy may also refuse the action.                         *)
Apply(r) ==
  /\ pc[r] = "apply"
  /\ \/ Applied(r, fresh[r]) /\ Go(r, "gate")
     \/ NothingApplied(r) /\ \E outcome \in {"skipped", "approval_required"} : End(r, outcome)
     \/ Breaks(r) /\ End(r, "skipped")
  /\ UNCHANGED <<orig, place, scope, began, work, backup, round, judged, handled>>

(* run_patch_static_check, at first and after the one revision it may ask  *)
(* for: it adds missing declarations, with records and always with         *)
(* backups, and passes or not.                                             *)
Gate(r) ==
  /\ pc[r] \in {"gate", "recheck"}
  /\ \E S \in SUBSET Files :
       /\ SetHere(r, Edited(Here(r), S, r))
       /\ Save(r, S, TRUE)
       /\ rows' = [rows EXCEPT ![r] = @ \cup S]
  /\ \/ Go(r, "inspect")
     \/ Go(r, IF pc[r] = "gate" /\ MaxRounds > 0 THEN "revise" ELSE "rollback")
  /\ UNCHANGED <<place, scope, began, fresh, unrecorded, round, judged, handled>>

(* Mutant of Revise: the records of the revision replace the others. *)
ReviseReplaces(r) ==
  /\ pc[r] = "revise"
  /\ \/ Applied(r, fresh[r]) /\ Go(r, "recheck")
     \/ NothingApplied(r) /\ Go(r, "rollback")
     \/ Breaks(r) /\ Go(r, "rollback")
  /\ UNCHANGED <<orig, place, scope, began, work, backup, round, judged, handled>>

(* _safe_static_edit_round: the records of the revision join the others.   *)
(* A round that fails, or applies nothing, leaves the check failed.        *)
Revise(r) ==
  /\ pc[r] = "revise"
  /\ \/ Applied(r, rows[r] \cup fresh[r]) /\ Go(r, "recheck")
     \/ NothingApplied(r) /\ Go(r, "rollback")
     \/ Breaks(r) /\ Go(r, "rollback")
  /\ UNCHANGED <<orig, place, scope, began, work, backup, round, judged, handled>>

(* Mutant of Safe: changes without a record are not looked for. *)
SafeUndeclared(r) ==
  LET actual == IF place[r] = "unisolated" THEN rows[r] ELSE Changed(Here(r))
  IN  rows[r] # {} /\ rows[r] \subseteq actual

(* SafetyVerificationRunner.run: with a workspace the records are compared *)
(* with what Git reports, without one with themselves.                     *)
Safe(r) ==
  LET actual == IF place[r] = "unisolated" THEN rows[r] ELSE Changed(Here(r))
  IN  rows[r] # {} /\ actual # {} /\ actual = rows[r]

(* The action inspect_diff and, before the first verification, the         *)
(* caller's syntax and build results.  After an edit round a failure ends  *)
(* the run without a rollback.                                             *)
Inspect(r) ==
  /\ pc[r] = "inspect"
  /\ \/ Safe(r) /\ Go(r, "verify")
     \/ round[r] = 0 /\ Go(r, "rollback")
     \/ round[r] > 0 /\ ~Safe(r) /\ End(r, "error")
  /\ UNCHANGED <<orig, place, scope, began, work, backup, rows, fresh,
                 unrecorded, round, judged, handled>>

(* Mutant of Verify: the bound on the rounds is off by one. *)
VerifyOnceMore(r) ==
  /\ pc[r] = "verify"
  /\ round[r] <= MaxRounds
  /\ Go(r, "edit")
  /\ UNCHANGED <<orig, place, scope, began, work, backup, rows, fresh,
                 unrecorded, round, judged, handled>>

(* Mutant of Verify: a run that has no rounds left is taken as it is. *)
VerifyGivesIn(r) ==
  /\ pc[r] = "verify"
  /\ Go(r, IF round[r] < MaxRounds THEN "edit" ELSE "sync")
  /\ UNCHANGED <<orig, place, scope, began, work, backup, rows, fresh,
                 unrecorded, round, judged, handled>>

(* The runtime scripts, if they are enabled: a result that does not speak  *)
(* against the patch is adopted, a failure that can be acted on is given   *)
(* to the model while there are rounds left, and any other ends the run.   *)
Verify(r) ==
  /\ pc[r] = "verify"
  /\ \/ /\ judged' = [judged EXCEPT ![r] = EditsOf(r, Here(r))]
        /\ IF place[r] = "unisolated" THEN End(r, "success") ELSE Go(r, "sync")
     \/ round[r] < MaxRounds /\ Go(r, "edit") /\ UNCHANGED judged
     \/ End(r, "error") /\ UNCHANGED judged
  /\ UNCHANGED <<orig, place, scope, began, work, backup, rows, fresh,
                 unrecorded, round, handled>>

(* Mutant of EditRound: a round that applies nothing is not counted, and   *)
(* the verification is run again.                                          *)
EditRoundRetries(r) ==
  /\ pc[r] = "edit"
  /\ Go(r, "verify")
  /\ UNCHANGED <<orig, place, scope, began, work, backup, rows, fresh,
                 unrecorded, round, judged, handled>>

(* run_repair_edit_round: the records of the round replace the earlier     *)
(* ones.  A round that applies nothing ends the run without a rollback.    *)
EditRound(r) ==
  /\ pc[r] = "edit"
  /\ round' = [round EXCEPT ![r] = @ + 1]
  /\ \/ Applied(r, fresh[r]) /\ Go(r, "inspect")
     \/ NothingApplied(r) /\ End(r, "error")
     \/ Breaks(r) /\ End(r, "raised")
  /\ UNCHANGED <<orig, place, scope, began, work, backup, judged, handled>>

(* sync_verified_files_back: one recorded file is copied over the file of  *)
(* the checkout; in the checkout it is there already.                      *)
CopyBack(r, f) ==
  /\ pc[r] = "sync"
  /\ f \in rows[r] \ handled[r]
  /\ handled' = [handled EXCEPT ![r] = @ \cup {f}]
  /\ orig' = IF place[r] = "isolated" THEN [orig EXCEPT ![f] = work[r][f]] ELSE orig
  /\ UNCHANGED <<pc, place, scope, began, work, backup, rows, fresh, unrecorded, round,
                 judged, status>>

(* A copy fails: the exception leaves the pipeline. *)
CopyFails(r) ==
  /\ pc[r] = "sync"
  /\ rows[r] # handled[r]
  /\ End(r, "raised")
  /\ UNCHANGED <<orig, place, scope, began, work, backup, rows, fresh,
                 unrecorded, round, judged, handled>>

(* verify_sync_integrity, and the end of a run that succeeds. *)
Synced(r) ==
  /\ pc[r] = "sync"
  /\ rows[r] = handled[r]
  /\ End(r, "success")
  /\ UNCHANGED <<orig, place, scope, began, work, backup, rows, fresh,
                 unrecorded, round, judged, handled>>

(* The text of a backup as read_text and write_text bring it back: they    *)
(* turn CRLF into LF, and a backup in UTF-8 leaves a GBK file in UTF-8.    *)
Reread(b) == {[b EXCEPT !.recoded = @ \/ new] : new \in BOOLEAN}

(* rollback_applied_edits: one recorded file gets the text of the backup   *)
(* of its name, and its record is no longer "applied".  Without a backup,  *)
(* or when the file cannot be read or written, it is passed over.          *)
Restore(r, f) ==
  /\ pc[r] = "rollback"
  /\ f \in rows[r] \ handled[r]
  /\ handled' = [handled EXCEPT ![r] = @ \cup {f}]
  /\ \/ /\ backup[r][BackupName(f)] # Nothing
        /\ \E b \in Reread(backup[r][BackupName(f)]) : SetHere(r, [Here(r) EXCEPT ![f] = b])
        /\ rows' = [rows EXCEPT ![r] = @ \ {f}]
     \/ UNCHANGED <<orig, work, rows>>
  /\ UNCHANGED <<pc, place, scope, began, backup, fresh, unrecorded, round, judged, status>>

(* The run ends as rolled back, whatever has been restored. *)
Rollback(r) ==
  /\ pc[r] = "rollback"
  /\ rows[r] \subseteq handled[r]
  /\ End(r, "rolled_back")
  /\ UNCHANGED <<orig, place, scope, began, work, backup, rows, fresh, unrecorded,
                 round, judged, handled>>

(* The daemon terminates the CLI (a cancel, a timeout), at any moment. *)
Killed(r) ==
  /\ pc[r] # "done"
  /\ End(r, "killed")
  /\ UNCHANGED <<orig, place, scope, began, work, backup, rows, fresh,
                 unrecorded, round, judged, handled>>

(* The developer edits a file of the checkout, and does not commit it. *)
DeveloperEdits(f) ==
  /\ orig[f].edits[Developer] = 0
  /\ orig' = [orig EXCEPT ![f].edits[Developer] = 1]
  /\ UNCHANGED runVars

Step(r) ==
  \/ Prepare(r) \/ EditFile(r) \/ Apply(r) \/ Gate(r) \/ Revise(r) \/ Inspect(r)
  \/ Verify(r) \/ EditRound(r) \/ (\E f \in Files : CopyBack(r, f)) \/ CopyFails(r)
  \/ Synced(r) \/ (\E f \in Files : Restore(r, f)) \/ Rollback(r)

Next ==
  \/ \E r \in Runs : Step(r) \/ Killed(r)
  \/ \E f \in Files : DeveloperEdits(f)

Spec == Init /\ [][Next]_vars
FairSpec == Spec /\ \A r \in Runs : WF_vars(Step(r))

---------------------------------------------------------------------------
(* The variables have their types; no run spends more rounds than allowed. *)
TypeOK ==
  /\ orig \in [Files -> Text]
  /\ pc \in [Runs -> {"prepare", "apply", "gate", "revise", "recheck", "inspect",
                      "verify", "edit", "sync", "rollback", "done"}]
  /\ place \in [Runs -> {"none", "isolated", "in_place", "unisolated"}]
  /\ scope \in [Runs -> SUBSET Files]
  /\ began \in [Runs -> SUBSET (Files \X Writers)]
  /\ work \in [Runs -> [Files -> Text]]
  /\ backup \in [Runs -> [Names -> Text \cup {Nothing}]]
  /\ rows \in [Runs -> SUBSET Files]
  /\ fresh \in [Runs -> SUBSET Files]
  /\ unrecorded \in [Runs -> SUBSET Files]
  /\ round \in [Runs -> 0..MaxRounds]
  /\ judged \in [Runs -> [Files -> Nat] \cup {Nothing}]
  /\ handled \in [Runs -> SUBSET Files]
  /\ status \in [Runs -> {"running", "success", "error", "skipped", "raised",
                          "approval_required", "unavailable", "rolled_back",
                          "killed"}]

(* What an isolated run has done to the checkout is what its verdict was   *)
(* about: no edit of it gets there before the patch was adopted, none that *)
(* was made after, whatever other runs restore or copy.                    *)
SyncedAsJudged ==
  \A r \in Runs : place[r] = "isolated" =>
    \A f \in Files : orig[f].edits[r] > 0 =>
      judged[r] # Nothing /\ orig[f].edits[r] = judged[r][orig[f].of]

(* An isolated run that reports success has copied back every file that    *)
(* its worktree has changed, though the records it copies by are replaced  *)
(* in each edit round and some edits have none.                            *)
SuccessIsComplete ==
  \A r \in Runs : place[r] = "isolated" /\ status[r] = "success" =>
    handled[r] = Changed(work[r])

(* When a run ends as rolled back, nothing of it is left but edits without *)
(* a record, and the files that still have an "applied" record because     *)
(* they could not be restored: however many edits, checks and revisions    *)
(* touched a file, it is recorded until the end, and its backup is from    *)
(* before the first.  This is about the edits, not about line ends and     *)
(* encodings.  Files with one path under two code roots share a backup and *)
(* may be given each other's text, and runs that edit one checkout in      *)
(* place restore each other's edits.                                       *)
Alone(r) == \A o \in Runs \ {r} : place[o] \in {"none", "isolated"}
RollbackRestores ==
  \A r \in Runs :
    status[r] = "rolled_back" /\ Backups /\ ~SamePath /\ (place[r] = "isolated" \/ Alone(r)) =>
    \A f \in Files \ (unrecorded[r] \cup rows[r]) :
      Here(r)[f].edits[r] = 0 /\ Here(r)[f].of = f

(* No step of a run removes an edit of someone else that was in the        *)
(* checkout when the run began, in a file whose cleanliness it looked at:  *)
(* if it is isolated whatever others do, and in place if no other repair   *)
(* of the checkout has begun.                                              *)
Sole(r) == \A o \in Runs \ {r} : place[o] = "none"
Acts(r) == <<pc[r], fresh[r], handled[r]>>' # <<pc[r], fresh[r], handled[r]>>
Keeps(r, S) ==
  \A p \in began[r] \cap EditsIn(orig) :
    p[1] \in S /\ p[2] # r => p \in EditsIn(orig')
ScopedEditsKept ==
  [][\A r \in Runs :
       (place[r] = "isolated" \/ Sole(r)) /\ Acts(r) => Keeps(r, scope[r])]_vars

(* Every repair ends: its rounds are bounded, whatever the model and the   *)
(* verification answer.                                                    *)
RunEnds == \A r \in Runs : <>(pc[r] = "done")
=============================================================================
