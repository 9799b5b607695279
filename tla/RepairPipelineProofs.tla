------------------------ MODULE RepairPipelineProofs ------------------------
(***************************************************************************)
(* What holds of RepairPipeline for every set of runs and files, every     *)
(* bound on the edit rounds, and every way of working.                     *)
(***************************************************************************)
EXTENDS RepairPipeline, TLAPS

-----------------------------------------------------------------------------
(* What the operators on texts do. *)

(* An edit of r adds one to what r has done to the files of S, and changes *)
(* nothing else.                                                           *)
LEMMA EditedText ==
  ASSUME NEW text \in [Files -> Text], NEW S, NEW r \in Runs
  PROVE  /\ Edited(text, S, r) \in [Files -> Text]
         /\ \A f \in Files :
              /\ Edited(text, S, r)[f].of = text[f].of
              /\ f \notin S => Edited(text, S, r)[f] = text[f]
              /\ f \in S => Edited(text, S, r)[f].edits[r] = text[f].edits[r] + 1
              /\ \A w \in Writers \ {r} :
                   Edited(text, S, r)[f].edits[w] = text[f].edits[w]
  <1> DEFINE new(f) == [text[f] EXCEPT !.edits[r] = @ + 1]
  <1>1. ASSUME NEW f \in Files
        PROVE  /\ new(f) \in Text
               /\ new(f).of = text[f].of
               /\ new(f).edits[r] = text[f].edits[r] + 1
               /\ \A w \in Writers \ {r} : new(f).edits[w] = text[f].edits[w]
    <2>1. text[f] \in Text /\ r \in Writers
      BY DEF Writers
    <2> QED
      BY <2>1 DEF Text
  <1>2. \A f \in Files : Edited(text, S, r)[f] = IF f \in S THEN new(f) ELSE text[f]
    BY DEF Edited
  <1>3. Edited(text, S, r) \in [Files -> Text]
    BY <1>1, <1>2 DEF Edited
  <1> HIDE DEF new
  <1> QED
    BY <1>1, <1>2, <1>3

(* The files a run writes have texts. *)
LEMMA HereType == ASSUME TypeOK, NEW r \in Runs PROVE Here(r) \in [Files -> Text]
  BY DEF TypeOK, Here

(* A write changes the worktree or the checkout. *)
LEMMA SetHereText ==
  ASSUME TypeOK, NEW r \in Runs, NEW text \in [Files -> Text], SetHere(r, text),
         UNCHANGED place
  PROVE  /\ orig' \in [Files -> Text] /\ work' \in [Runs -> [Files -> Text]]
         /\ Here(r)' = text
         /\ place[r] = "isolated" => orig' = orig
         /\ place[r] # "isolated" => orig' = text /\ work' = work
         /\ \A o \in Runs \ {r} : work'[o] = work[o]
  BY DEF TypeOK, SetHere, Here

(* A backup is made once, of a text that was there. *)
LEMMA SaveText ==
  ASSUME TypeOK, NEW r \in Runs, NEW S \in SUBSET Files, NEW enabled \in BOOLEAN,
         Save(r, S, enabled)
  PROVE  /\ backup' \in [Runs -> [Names -> Text \cup {Nothing}]]
         /\ \A o \in Runs \ {r} : backup'[o] = backup[o]
         /\ \A n \in Names :
              \/ backup'[r][n] = backup[r][n]
              \/ /\ backup[r][n] = Nothing
                 /\ \E f \in S : BackupName(f) = n /\ backup'[r][n] = Here(r)[f]
         /\ \A n \in Names, f \in S :
              enabled /\ backup[r][n] = Nothing /\ BackupName(f) = n =>
                \E g \in S : BackupName(g) = n /\ backup'[r][n] = Here(r)[g]
  <1> DEFINE Texts == {Here(r)[f] : f \in S} \cup {backup[r][n] : n \in Names}
  <1>1. PICK b \in [Names -> Texts] :
          /\ \A n \in Names :
               IF enabled /\ backup[r][n] = Nothing /\ \E f \in S : BackupName(f) = n
                 THEN \E f \in S : BackupName(f) = n /\ b[n] = Here(r)[f]
                 ELSE b[n] = backup[r][n]
          /\ backup' = [backup EXCEPT ![r] = b]
    BY DEF Save
  <1>2. Texts \subseteq Text \cup {Nothing}
    BY HereType DEF TypeOK
  <1>3. b \in [Names -> Text \cup {Nothing}]
    BY <1>2
  <1>4. backup \in [Runs -> [Names -> Text \cup {Nothing}]]
    BY DEF TypeOK
  <1>5. backup'[r] = b /\ backup' \in [Runs -> [Names -> Text \cup {Nothing}]]
        /\ \A o \in Runs \ {r} : backup'[o] = backup[o]
    BY <1>1, <1>3, <1>4
  <1> QED
    BY <1>1, <1>5

(* What a step of a plan does. *)
LEMMA EditSteps ==
  ASSUME NEW r \in Runs, EditFile(r)
  PROVE  \E f \in Files, extra \in SUBSET Files :
           /\ fresh' = [fresh EXCEPT ![r] = @ \cup {f}]
           /\ SetHere(r, Edited(Here(r), {f} \cup extra, r))
           /\ unrecorded' = [unrecorded EXCEPT ![r] = @ \cup extra]
           /\ Save(r, {f}, Backups)
  <1>1. PICK f \in Files \ fresh[r] :
          /\ fresh' = [fresh EXCEPT ![r] = @ \cup {f}]
          /\ \E extra \in SUBSET (Files \ {f}) :
               /\ SetHere(r, Edited(Here(r), {f} \cup extra, r))
               /\ unrecorded' = [unrecorded EXCEPT ![r] = @ \cup extra]
          /\ Save(r, {f}, Backups)
    BY DEF EditFile
  <1> QED
    BY <1>1

(* A restored text has the edits of the backup. *)
AsSaved(t, b) == b # Nothing /\ t.of = b.of /\ t.edits = b.edits

(* A rollback passes over a file, or brings back its backup and takes its  *)
(* record.                                                                 *)
LEMMA RestoreSteps ==
  ASSUME TypeOK, NEW r \in Runs, NEW f \in Files, Restore(r, f)
  PROVE  /\ pc[r] = "rollback" /\ f \in rows[r]
         /\ UNCHANGED <<pc, place, scope, began, backup, fresh, unrecorded, round, judged, status>>
         /\ handled' = [handled EXCEPT ![r] = @ \cup {f}]
         /\ \E text \in [Files -> Text], left \in SUBSET Files :
              /\ SetHere(r, text)
              /\ rows' = [rows EXCEPT ![r] = left]
              /\ left \subseteq rows[r] /\ rows[r] \subseteq left \cup {f}
              /\ \A g \in Files \ {f} : text[g] = Here(r)[g]
              /\ \/ AsSaved(text[f], backup[r][BackupName(f)])
                 \/ f \in left /\ text[f] = Here(r)[f]
  <1> DEFINE saved == backup[r][BackupName(f)]
             Outcome(text, left) ==
               /\ SetHere(r, text)
               /\ rows' = [rows EXCEPT ![r] = left]
               /\ left \subseteq rows[r] /\ rows[r] \subseteq left \cup {f}
               /\ \A g \in Files \ {f} : text[g] = Here(r)[g]
               /\ AsSaved(text[f], saved) \/ (f \in left /\ text[f] = Here(r)[f])
  <1>1. /\ pc[r] = "rollback" /\ f \in rows[r]
        /\ UNCHANGED <<pc, place, scope, began, backup, fresh, unrecorded, round, judged, status>>
        /\ handled' = [handled EXCEPT ![r] = @ \cup {f}]
    BY DEF Restore
  <1>2. Here(r) \in [Files -> Text] /\ rows \in [Runs -> SUBSET Files] /\ work \in [Runs -> [Files -> Text]]
    BY HereType DEF TypeOK
  <1>3. CASE UNCHANGED <<orig, work, rows>>
    <2>1. SetHere(r, Here(r))
      BY <1>2, <1>3 DEF SetHere, Here
    <2>2. Outcome(Here(r), rows[r])
      BY <1>1, <1>2, <1>3, <2>1
    <2>3. rows[r] \in SUBSET Files
      BY <1>2
    <2> HIDE DEF Outcome
    <2>4. \E text \in [Files -> Text], left \in SUBSET Files : Outcome(text, left)
      BY <1>2, <2>2, <2>3
    <2> QED
      BY <1>1, <2>4 DEF Outcome
  <1>4. ASSUME saved # Nothing, NEW b \in Reread(saved), SetHere(r, [Here(r) EXCEPT ![f] = b]),
               rows' = [rows EXCEPT ![r] = @ \ {f}]
        PROVE  \E text \in [Files -> Text], left \in SUBSET Files : Outcome(text, left)
    <2>1. saved \in Text
      <3>1. backup[r] \in [Names -> Text \cup {Nothing}] /\ BackupName(f) \in Names
        BY DEF TypeOK, Names
      <3> QED
        BY <1>4, <3>1
    <2>2. b \in Text /\ AsSaved(b, saved)
      <3> HIDE DEF saved
      <3>1. PICK new \in BOOLEAN : b = [saved EXCEPT !.recoded = @ \/ new]
        BY <1>4 DEF Reread
      <3>2. (saved.recoded \/ new) \in BOOLEAN
        BY <2>1 DEF Text
      <3> QED
        BY <1>4, <2>1, <3>1, <3>2 DEF Text, AsSaved
    <2> DEFINE text == [Here(r) EXCEPT ![f] = b]
    <2>3. text \in [Files -> Text] /\ text[f] = b /\ \A g \in Files \ {f} : text[g] = Here(r)[g]
      BY <1>2, <2>2
    <2>4. SetHere(r, text)
      BY <1>4
    <2>5. rows[r] \ {f} \in SUBSET Files
      BY <1>2
    <2> HIDE DEF text, saved
    <2>6. Outcome(text, rows[r] \ {f})
      BY <1>4, <2>2, <2>3, <2>4
    <2> HIDE DEF Outcome
    <2> QED
      BY <2>3, <2>5, <2>6
  <1> QED
    BY <1>1, <1>3, <1>4 DEF Restore

(* The developer adds an edit of his own. *)
LEMMA DeveloperText ==
  ASSUME TypeOK, NEW f \in Files, DeveloperEdits(f)
  PROVE  /\ orig' \in [Files -> Text]
         /\ \A g \in Files :
              /\ orig'[g].of = orig[g].of
              /\ \A r \in Runs : orig'[g].edits[r] = orig[g].edits[r]
              /\ orig'[g].edits[Developer] >= orig[g].edits[Developer]
  <1> DEFINE new == [orig[f] EXCEPT !.edits[Developer] = 1]
  <1>1. /\ orig \in [Files -> Text] /\ orig[f].edits[Developer] = 0
        /\ orig' = [orig EXCEPT ![f] = new]
    BY DEF TypeOK, DeveloperEdits
  <1>2. /\ new \in Text /\ new.of = orig[f].of /\ new.edits[Developer] = 1
        /\ \A r \in Runs : new.edits[r] = orig[f].edits[r]
    <2>1. orig[f] \in Text /\ Developer \in Writers /\ \A r \in Runs : r \in Writers \ {Developer}
      BY <1>1, RepairAssumption DEF Writers
    <2> QED
      BY <2>1 DEF Text
  <1>3. \A g \in Files : orig[g].edits[Developer] \in Nat
    BY <1>1 DEF Text, Writers
  <1> HIDE DEF new
  <1> QED
    BY <1>1, <1>2, <1>3

(* With names of their own, each file has its own backup. *)
LEMMA OwnNames == ~SamePath => Names = Files /\ \A f \in Files : BackupName(f) = f
  BY DEF Names, BackupName

(* It is the text of the file before the first edit that is backed up. *)
LEMMA OwnSave ==
  ASSUME ~SamePath, TypeOK, NEW r \in Runs, NEW S \in SUBSET Files, Save(r, S, TRUE)
  PROVE  \A f \in Files :
           backup'[r][f] = IF backup[r][f] = Nothing /\ f \in S THEN Here(r)[f] ELSE backup[r][f]
  <1>1. Names = Files /\ \A f \in Files : BackupName(f) = f
    BY OwnNames
  <1> SUFFICES ASSUME NEW f \in Files
               PROVE  backup'[r][f] =
                        IF backup[r][f] = Nothing /\ f \in S THEN Here(r)[f] ELSE backup[r][f]
    OBVIOUS
  <1>2. \/ backup'[r][f] = backup[r][f]
        \/ backup[r][f] = Nothing /\ \E g \in S : BackupName(g) = f /\ backup'[r][f] = Here(r)[g]
    BY <1>1, SaveText, TRUE \in BOOLEAN
  <1>3. f \in S /\ backup[r][f] = Nothing =>
          \E g \in S : BackupName(g) = f /\ backup'[r][f] = Here(r)[g]
    BY <1>1, SaveText, TRUE \in BOOLEAN
  <1>4. \A g \in S : BackupName(g) = g
    BY <1>1
  <1> QED
    BY <1>2, <1>3, <1>4

-----------------------------------------------------------------------------
(* Where a run is says what it has done so far: nothing before it begins,  *)
(* no records before the first plan is through, no edit round before the   *)
(* first verification, and no verdict before the end.                      *)
ControlOf(r) ==
  /\ pc[r] = "done" <=> status[r] # "running"
  /\ pc[r] = "prepare" => place[r] = "none"
  /\ place[r] = "none" =>
       /\ pc[r] \in {"prepare", "done"}
       /\ \A n \in Names : backup[r][n] = Nothing
       /\ status[r] \in {"running", "unavailable", "killed"}
  /\ pc[r] \in {"prepare", "apply"} => rows[r] = {}
  /\ pc[r] \in {"prepare", "gate", "recheck", "inspect", "verify", "sync", "rollback"} =>
       fresh[r] = {}
  /\ pc[r] \in {"prepare", "apply", "gate", "revise", "recheck", "rollback"} => round[r] = 0
  /\ pc[r] = "edit" => round[r] < MaxRounds
  /\ pc[r] \notin {"sync", "rollback", "done"} => handled[r] = {}
  /\ status[r] = "rolled_back" => rows[r] \subseteq handled[r]
  /\ pc[r] \notin {"sync", "done"} => judged[r] = Nothing
  /\ status[r] = "success" /\ place[r] = "isolated" => handled[r] = rows[r]

Control == \A r \in Runs : ControlOf(r)

TypeInv == TypeOK /\ Control

(* What a run has to itself. *)
Private(r) ==
  <<pc[r], place[r], scope[r], began[r], work[r], backup[r], rows[r], fresh[r],
    unrecorded[r], round[r], judged[r], handled[r], status[r]>>

(* At first. *)
LEMMA TypeInit == Init => TypeInv
  <1> SUFFICES ASSUME Init PROVE TypeInv
    OBVIOUS
  <1>1. Head \in [Files -> Text]
    BY DEF Head, Text
  <1>2. TypeOK
    BY <1>1, RepairAssumption DEF Init, TypeOK
  <1>3. Control
    BY DEF Init, Control, ControlOf
  <1> QED
    BY <1>2, <1>3 DEF TypeInv

(* The steps that write no file and make no backup. *)
Quiet(r) ==
  \/ Prepare(r) \/ Apply(r) \/ Revise(r) \/ Inspect(r) \/ Verify(r) \/ EditRound(r)
  \/ CopyFails(r) \/ Synced(r) \/ Rollback(r) \/ Killed(r)

(* The end of a plan leaves sets of files. *)
LEMMA PlanTypes ==
  ASSUME TypeOK, NEW r \in Runs, NEW records \in SUBSET Files,
         Applied(r, records) \/ NothingApplied(r) \/ Breaks(r)
  PROVE  /\ fresh' \in [Runs -> SUBSET Files]
         /\ rows' \in [Runs -> SUBSET Files]
         /\ unrecorded' \in [Runs -> SUBSET Files]
  <1>1. /\ fresh \in [Runs -> SUBSET Files]
        /\ rows \in [Runs -> SUBSET Files]
        /\ unrecorded \in [Runs -> SUBSET Files]
    BY DEF TypeOK
  <1>2. CASE Applied(r, records)
    BY <1>1, <1>2 DEF Applied
  <1>3. CASE NothingApplied(r)
    BY <1>1, <1>3 DEF NothingApplied
  <1>4. CASE Breaks(r)
    <2>1. unrecorded[r] \cup (fresh[r] \ rows[r]) \in SUBSET Files
      BY <1>1
    <2> QED
      BY <1>1, <1>4, <2>1 DEF Breaks
  <1> QED
    BY <1>2, <1>3, <1>4

(* They keep the types. *)
LEMMA QuietTypes == ASSUME TypeOK, Control, NEW r \in Runs, Quiet(r) PROVE TypeOK'
  <1>0. Here(r) \in [Files -> Text]
    BY HereType
  <1> USE RepairAssumption DEF TypeOK, Go, End
  <1>1. CASE Prepare(r)
    <2>1. scope' \in [Runs -> SUBSET Files] /\ began' \in [Runs -> SUBSET (Files \X Writers)]
      BY <1>1 DEF Prepare, EditsIn
    <2>2. place' \in [Runs -> {"none", "isolated", "in_place", "unisolated"}]
      BY <1>1 DEF Prepare, Isolate, Adopt
    <2> QED
      BY <1>1, <2>1, <2>2 DEF Prepare, Isolate, Adopt
  <1>2. CASE Apply(r)
    <2>1. /\ fresh' \in [Runs -> SUBSET Files]
          /\ rows' \in [Runs -> SUBSET Files]
          /\ unrecorded' \in [Runs -> SUBSET Files]
      BY <1>2, PlanTypes DEF Apply
    <2>2. UNCHANGED <<orig, place, scope, began, work, backup, round, judged, handled>>
      BY <1>2 DEF Apply
    <2>3. \/ Go(r, "gate")
          \/ \E outcome \in {"skipped", "approval_required"} : End(r, outcome)
      BY <1>2 DEF Apply
    <2>4. CASE Go(r, "gate")
      BY <2>1, <2>2, <2>4
    <2>5. ASSUME NEW outcome \in {"skipped", "approval_required"}, End(r, outcome)
          PROVE  TypeOK'
      BY <2>1, <2>2, <2>5
    <2> QED
      BY <2>3, <2>4, <2>5
  <1>3. CASE Revise(r)
    <2>1. /\ fresh' \in [Runs -> SUBSET Files]
          /\ rows' \in [Runs -> SUBSET Files]
          /\ unrecorded' \in [Runs -> SUBSET Files]
      <3>1. fresh[r] \in SUBSET Files /\ rows[r] \cup fresh[r] \in SUBSET Files
        OBVIOUS
      <3>2. Applied(r, rows[r] \cup fresh[r]) \/ NothingApplied(r) \/ Breaks(r)
        BY <1>3 DEF Revise
      <3> HIDE DEF TypeOK
      <3> QED
        BY <3>1, <3>2, PlanTypes
    <2>2. UNCHANGED <<orig, place, scope, began, work, backup, round, judged, handled>>
      BY <1>3 DEF Revise
    <2> QED
      BY <1>3, <2>1, <2>2 DEF Revise
  <1>4. CASE Inspect(r)
    BY <1>4 DEF Inspect
  <1>5. CASE Verify(r)
    <2>1. EditsOf(r, Here(r)) \in [Files -> Nat]
      <3>1. \A f \in Files : Here(r)[f].edits[r] \in Nat
        BY ONLY <1>0 DEF Text, Writers
      <3> QED
        BY <3>1 DEF EditsOf
    <2>2. judged' \in [Runs -> [Files -> Nat] \cup {Nothing}]
      BY <1>5, <2>1 DEF Verify
    <2> QED
      BY <1>5, <2>2 DEF Verify
  <1>6. CASE EditRound(r)
    <2>1. round' \in [Runs -> 0..MaxRounds]
      <3>1. round[r] + 1 \in 0..MaxRounds
        BY <1>6 DEF EditRound, Control, ControlOf
      <3> QED
        BY <1>6, <3>1 DEF EditRound
    <2>2. /\ fresh' \in [Runs -> SUBSET Files]
          /\ rows' \in [Runs -> SUBSET Files]
          /\ unrecorded' \in [Runs -> SUBSET Files]
      BY <1>6, PlanTypes DEF EditRound
    <2>3. UNCHANGED <<orig, place, scope, began, work, backup, judged, handled>>
      BY <1>6 DEF EditRound
    <2> QED
      BY <1>6, <2>1, <2>2, <2>3 DEF EditRound
  <1>7. CASE CopyFails(r) \/ Synced(r) \/ Rollback(r) \/ Killed(r)
    BY <1>7 DEF CopyFails, Synced, Rollback, Killed
  <1> QED
    BY <1>1, <1>2, <1>3, <1>4, <1>5, <1>6, <1>7 DEF Quiet

(* The steps that write files keep them too. *)
LEMMA WriteTypes ==
  ASSUME TypeOK, NEW r \in Runs,
         EditFile(r) \/ Gate(r) \/ \E f \in Files : CopyBack(r, f) \/ Restore(r, f)
  PROVE  TypeOK'
  <1> USE DEF TypeOK
  <1>1. CASE EditFile(r)
    <2>1. PICK f \in Files, extra \in SUBSET Files :
            /\ fresh' = [fresh EXCEPT ![r] = @ \cup {f}]
            /\ SetHere(r, Edited(Here(r), {f} \cup extra, r))
            /\ unrecorded' = [unrecorded EXCEPT ![r] = @ \cup extra]
            /\ Save(r, {f}, Backups)
      BY <1>1, EditSteps
    <2>2. UNCHANGED <<pc, place, scope, began, rows, round, judged, handled, status>>
      BY <1>1 DEF EditFile
    <2>3. orig' \in [Files -> Text] /\ work' \in [Runs -> [Files -> Text]]
      BY <2>1, <2>2, HereType, EditedText, SetHereText
    <2>4. backup' \in [Runs -> [Names -> Text \cup {Nothing}]]
      <3>1. Backups \in BOOLEAN /\ {f} \in SUBSET Files
        BY RepairAssumption
      <3> HIDE DEF TypeOK
      <3> QED
        BY <2>1, <3>1, SaveText
    <2> QED
      BY <2>1, <2>2, <2>3, <2>4
  <1>2. CASE Gate(r)
    <2>1. PICK S \in SUBSET Files :
            /\ SetHere(r, Edited(Here(r), S, r))
            /\ Save(r, S, TRUE)
            /\ rows' = [rows EXCEPT ![r] = @ \cup S]
      BY <1>2 DEF Gate
    <2>2. UNCHANGED <<place, scope, began, fresh, unrecorded, round, judged, handled>>
          /\ (Go(r, "inspect") \/ Go(r, "revise") \/ Go(r, "rollback"))
      BY <1>2 DEF Gate
    <2>3. orig' \in [Files -> Text] /\ work' \in [Runs -> [Files -> Text]]
      BY <2>1, <2>2, HereType, EditedText, SetHereText
    <2>4. backup' \in [Runs -> [Names -> Text \cup {Nothing}]]
      BY <2>1, SaveText
    <2> QED
      BY <2>1, <2>2, <2>3, <2>4 DEF Go
  <1>3. ASSUME NEW f \in Files, CopyBack(r, f) PROVE TypeOK'
    <2>1. orig' \in [Files -> Text]
      BY <1>3 DEF CopyBack
    <2> QED
      BY <1>3, <2>1 DEF CopyBack
  <1>4. ASSUME NEW f \in Files, Restore(r, f) PROVE TypeOK'
    <2>1. PICK text \in [Files -> Text], left \in SUBSET Files :
            SetHere(r, text) /\ rows' = [rows EXCEPT ![r] = left]
      BY <1>4, RestoreSteps
    <2>2. UNCHANGED <<pc, place, scope, began, backup, fresh, unrecorded, round, judged, status>>
          /\ handled' = [handled EXCEPT ![r] = @ \cup {f}]
      BY <1>4, RestoreSteps
    <2>3. orig' \in [Files -> Text] /\ work' \in [Runs -> [Files -> Text]]
      BY <2>1, <2>2, SetHereText
    <2> QED
      BY <2>1, <2>2, <2>3
  <1> QED
    BY <1>1, <1>2, <1>3, <1>4

(* No step of a run changes what another has to itself. *)
LEMMA StepIsPrivate ==
  ASSUME TypeOK, NEW r \in Runs, Step(r) \/ Killed(r), NEW o \in Runs \ {r}
  PROVE  Private(o)' = Private(o)
  <1> USE DEF TypeOK, Private
  <1>1. CASE Quiet(r)
    BY <1>1 DEF Quiet, Go, End, Prepare, Isolate, Adopt, Apply, Revise, Inspect, Verify,
                EditRound, Applied, NothingApplied, Breaks, CopyFails, Synced, Rollback, Killed
  <1>2. CASE EditFile(r)
    <2>1. PICK f \in Files, extra \in SUBSET Files :
            /\ fresh' = [fresh EXCEPT ![r] = @ \cup {f}]
            /\ SetHere(r, Edited(Here(r), {f} \cup extra, r))
            /\ unrecorded' = [unrecorded EXCEPT ![r] = @ \cup extra]
            /\ Save(r, {f}, Backups)
      BY <1>2, EditSteps
    <2> QED
      BY <1>2, <2>1 DEF EditFile, Save, SetHere
  <1>3. CASE Gate(r)
    BY <1>3 DEF Gate, Go, Save, SetHere
  <1>4. ASSUME NEW f \in Files, CopyBack(r, f) PROVE Private(o)' = Private(o)
    BY <1>4 DEF CopyBack
  <1>5. ASSUME NEW f \in Files, Restore(r, f) PROVE Private(o)' = Private(o)
    BY <1>5 DEF Restore, SetHere
  <1> QED
    BY <1>1, <1>2, <1>3, <1>4, <1>5 DEF Step, Quiet

(* A run goes its way: none of its steps is out of order. *)
LEMMA StepControl ==
  ASSUME TypeOK, NEW r \in Runs, ControlOf(r), Step(r) \/ Killed(r)
  PROVE  ControlOf(r)'
  <1> USE RepairAssumption DEF TypeOK, ControlOf, Go, End
  <1>1. CASE Prepare(r)
    BY <1>1 DEF Prepare, Isolate, Adopt
  <1>2. CASE Apply(r)
    BY <1>2 DEF Apply, Applied, NothingApplied, Breaks
  <1>3. CASE Revise(r)
    BY <1>3 DEF Revise, Applied, NothingApplied, Breaks
  <1>4. CASE Inspect(r)
    BY <1>4 DEF Inspect
  <1>5. CASE Verify(r)
    BY <1>5 DEF Verify
  <1>6. CASE EditRound(r)
    BY <1>6 DEF EditRound, Applied, NothingApplied, Breaks
  <1>7. CASE CopyFails(r) \/ Synced(r) \/ Rollback(r) \/ Killed(r)
    BY <1>7 DEF CopyFails, Synced, Rollback, Killed
  <1>8. CASE EditFile(r)
    <2>1. pc[r] \in {"apply", "revise", "edit"} /\ place[r] # "none"
      BY <1>8 DEF EditFile
    <2>2. UNCHANGED <<pc, place, rows, round, judged, handled, status>>
      BY <1>8 DEF EditFile
    <2> QED
      BY <2>1, <2>2
  <1>9. CASE Gate(r)
    <2>1. pc[r] \in {"gate", "recheck"} /\ place[r] # "none"
      BY <1>9 DEF Gate
    <2>2. UNCHANGED <<place, fresh, round, judged, handled>>
          /\ (Go(r, "inspect") \/ Go(r, "revise") \/ Go(r, "rollback"))
      BY <1>9 DEF Gate
    <2> QED
      BY <2>1, <2>2
  <1>10. ASSUME NEW f \in Files, CopyBack(r, f) PROVE ControlOf(r)'
    BY <1>10 DEF CopyBack
  <1>11. ASSUME NEW f \in Files, Restore(r, f) PROVE ControlOf(r)'
    BY <1>11, RestoreSteps
  <1> QED
    BY <1>1, <1>2, <1>3, <1>4, <1>5, <1>6, <1>7, <1>8, <1>9, <1>10, <1>11 DEF Step

(* So every step keeps the types and the order of the steps. *)
LEMMA TypeNext == TypeInv /\ [Next]_vars => TypeInv'
  <1> SUFFICES ASSUME TypeInv, [Next]_vars PROVE TypeInv'
    OBVIOUS
  <1>1. ASSUME NEW r \in Runs, Step(r) \/ Killed(r) PROVE TypeInv'
    <2>1. TypeOK'
      BY <1>1, QuietTypes, WriteTypes DEF TypeInv, Step, Quiet
    <2>2. ControlOf(r)'
      BY <1>1, StepControl DEF TypeInv, Control
    <2>3. ASSUME NEW o \in Runs \ {r} PROVE ControlOf(o)'
      <3>1. Private(o)' = Private(o)
        BY <1>1, StepIsPrivate DEF TypeInv
      <3> QED
        BY <3>1 DEF Private, TypeInv, Control, ControlOf
    <2> QED
      BY <2>1, <2>2, <2>3 DEF TypeInv, Control
  <1>2. ASSUME NEW f \in Files, DeveloperEdits(f) PROVE TypeInv'
    <2>1. orig' \in [Files -> Text] /\ UNCHANGED runVars
      BY <1>2, DeveloperText DEF TypeInv, DeveloperEdits
    <2> QED
      BY <2>1 DEF TypeInv, TypeOK, Control, ControlOf, runVars
  <1>3. CASE UNCHANGED vars
    BY <1>3 DEF TypeInv, TypeOK, Control, ControlOf, vars, runVars
  <1> QED
    BY <1>1, <1>2, <1>3 DEF Next

(* So they hold in every reachable state. *)
LEMMA TypeInvariant == Spec => []TypeInv
  BY TypeInit, TypeNext, PTL DEF Spec

(* Every variable keeps its type, and no run spends more rounds than it is *)
(* allowed.                                                                *)
THEOREM TypeCorrect == Spec => []TypeOK
  BY TypeInvariant, PTL DEF TypeInv

-----------------------------------------------------------------------------
(* What a run keeps to itself: its worktree holds edits of nobody else,    *)
(* and of an isolated run neither do its backups ...                       *)
OwnTexts(r) ==
  \A w \in Writers \ {r} :
    /\ \A f \in Files : work[r][f].edits[w] = 0
    /\ \A n \in Names :
         place[r] = "isolated" /\ backup[r][n] # Nothing => backup[r][n].edits[w] = 0

(* ... the files of the worktree are themselves until a rollback; and from *)
(* the safety check to the end the records, and the verdict, are about the *)
(* worktree.                                                               *)
Own(r) ==
  /\ OwnTexts(r)
  /\ pc[r] \notin {"rollback", "done"} => \A f \in Files : work[r][f].of = f
  /\ pc[r] = "prepare" => work[r] = Head /\ began[r] = {} /\ unrecorded[r] = {}
  /\ place[r] = "isolated" /\ pc[r] \in {"verify", "sync"} => rows[r] = Changed(work[r])
  /\ place[r] = "isolated" /\ pc[r] = "sync" => judged[r] = EditsOf(r, work[r])
  /\ place[r] = "isolated" /\ status[r] = "success" => handled[r] = Changed(work[r])

Owned == \A r \in Runs : Own(r)

(* An edit keeps to the run what it has to itself. *)
LEMMA EditOwn ==
  ASSUME TypeOK, NEW r \in Runs, OwnTexts(r), UNCHANGED place, NEW S \in SUBSET Files,
         NEW saved \in SUBSET Files, NEW enabled \in BOOLEAN,
         SetHere(r, Edited(Here(r), S, r)), Save(r, saved, enabled)
  PROVE  OwnTexts(r)' /\ \A f \in Files : work'[r][f].of = work[r][f].of
  <1> DEFINE text == Edited(Here(r), S, r)
  <1>1. /\ Here(r) \in [Files -> Text] /\ text \in [Files -> Text] /\ r \in Writers
        /\ \A f \in Files :
             /\ text[f].of = Here(r)[f].of
             /\ \A w \in Writers \ {r} : text[f].edits[w] = Here(r)[f].edits[w]
    BY HereType, EditedText DEF Writers
  <1>2. /\ place[r] = "isolated" => work'[r] = text
        /\ place[r] # "isolated" => work' = work
    <2>0. SetHere(r, text)
      OBVIOUS
    <2> HIDE DEF text
    <2>1. Here(r)' = text /\ (place[r] # "isolated" => work' = work)
      BY <1>1, <2>0, SetHereText
    <2> QED
      BY <2>1 DEF Here
  <1>3. \A n \in Names :
          \/ backup'[r][n] = backup[r][n]
          \/ \E f \in saved : backup'[r][n] = Here(r)[f]
    BY SaveText
  <1> HIDE DEF text
  <1>4. \A f \in Files : work'[r][f].of = work[r][f].of
    BY <1>1, <1>2 DEF Here
  <1>5. ASSUME NEW w \in Writers \ {r}
        PROVE  /\ \A f \in Files : work'[r][f].edits[w] = 0
               /\ \A n \in Names :
                    place'[r] = "isolated" /\ backup'[r][n] # Nothing => backup'[r][n].edits[w] = 0
    <2>1. \A f \in Files : work[r][f].edits[w] = 0
      BY DEF OwnTexts
    <2>2. \A n \in Names :
            place[r] = "isolated" /\ backup[r][n] # Nothing => backup[r][n].edits[w] = 0
      BY DEF OwnTexts
    <2>3. \A f \in Files : work'[r][f].edits[w] = 0
      BY <1>1, <1>2, <2>1 DEF Here
    <2> QED
      BY <1>3, <2>1, <2>2, <2>3 DEF Here
  <1> QED
    BY <1>4, <1>5 DEF OwnTexts

(* So do the steps of a run. *)
LEMMA StepOwn ==
  ASSUME TypeInv, NEW r \in Runs, Own(r), Step(r) \/ Killed(r)
  PROVE  Own(r)'
  <1>0. TypeOK /\ ControlOf(r)
    BY DEF TypeInv, Control
  <1>1. ASSUME UNCHANGED <<work, backup, place>> PROVE OwnTexts(r)'
    BY <1>1 DEF Own, OwnTexts
  <1>2. CASE Prepare(r)
    <2>1. UNCHANGED <<work, backup, rows, judged, handled, unrecorded>> /\ pc[r] = "prepare"
      BY <1>2 DEF Prepare
    <2>2. \A n \in Names : backup[r][n] = Nothing
      BY <1>0, <2>1 DEF ControlOf
    <2>3. pc'[r] \in {"apply", "done"} /\ status'[r] # "success"
      BY <1>0, <1>2 DEF Prepare, Isolate, Adopt, Go, End, TypeOK, ControlOf
    <2>4. OwnTexts(r)'
      BY <2>1, <2>2 DEF Own, OwnTexts
    <2> QED
      BY <2>1, <2>3, <2>4 DEF Own
  <1>3. CASE EditFile(r)
    <2>1. PICK f \in Files, extra \in SUBSET Files :
            /\ SetHere(r, Edited(Here(r), {f} \cup extra, r))
            /\ Save(r, {f}, Backups)
      BY <1>3, EditSteps
    <2>2. /\ UNCHANGED <<pc, place, rows, judged, handled, status>>
          /\ pc[r] \in {"apply", "revise", "edit"}
      BY <1>3 DEF EditFile
    <2>3. OwnTexts(r)' /\ \A g \in Files : work'[r][g].of = work[r][g].of
      <3>1. {f} \in SUBSET Files /\ {f} \cup extra \in SUBSET Files /\ Backups \in BOOLEAN
        BY RepairAssumption
      <3> QED
        BY <1>0, <2>1, <2>2, <3>1, EditOwn DEF Own
    <2> QED
      BY <1>0, <2>2, <2>3 DEF Own, ControlOf
  <1>4. CASE Gate(r)
    <2>1. PICK S \in SUBSET Files : SetHere(r, Edited(Here(r), S, r)) /\ Save(r, S, TRUE)
      BY <1>4 DEF Gate
    <2>2. /\ UNCHANGED <<place, judged, handled, status>>
          /\ pc[r] \in {"gate", "recheck"} /\ pc'[r] \in {"inspect", "revise", "rollback"}
      BY <1>0, <1>4 DEF Gate, Go, TypeOK
    <2>3. OwnTexts(r)' /\ \A g \in Files : work'[r][g].of = work[r][g].of
      BY <1>0, <2>1, <2>2, EditOwn DEF Own
    <2> QED
      BY <1>0, <2>2, <2>3 DEF Own, ControlOf
  <1>5. ASSUME NEW f \in Files, CopyBack(r, f) PROVE Own(r)'
    BY <1>0, <1>1, <1>5 DEF Own, CopyBack, ControlOf
  <1>6. ASSUME NEW f \in Files, Restore(r, f) PROVE Own(r)'
    <2> DEFINE b == backup[r][BackupName(f)]
    <2>1. UNCHANGED <<pc, place, backup, judged, status>> /\ pc[r] = "rollback"
      BY <1>0, <1>6, RestoreSteps
    <2>2. Here(r) \in [Files -> Text] /\ BackupName(f) \in Names
      BY <1>0, HereType DEF Names
    <2>3. PICK text \in [Files -> Text] :
            /\ SetHere(r, text)
            /\ \A g \in Files : text[g] = Here(r)[g] \/ AsSaved(text[g], b)
      <3>1. PICK text \in [Files -> Text], left \in SUBSET Files :
              /\ SetHere(r, text)
              /\ \A g \in Files \ {f} : text[g] = Here(r)[g]
              /\ AsSaved(text[f], b) \/ (f \in left /\ text[f] = Here(r)[f])
        BY <1>0, <1>6, RestoreSteps
      <3> QED
        BY <3>1
    <2>4. /\ place[r] = "isolated" => work'[r] = text
          /\ place[r] # "isolated" => work' = work
      BY <1>0, <2>3 DEF SetHere, TypeOK
    <2>5. OwnTexts(r)'
      BY <2>1, <2>2, <2>3, <2>4 DEF Own, OwnTexts, Here, AsSaved
    <2> QED
      BY <1>0, <2>1, <2>5 DEF Own, ControlOf
  <1>7. CASE Verify(r)
    <2>1. UNCHANGED <<work, backup, place, rows, handled>> /\ pc[r] = "verify"
      BY <1>7 DEF Verify
    <2>2. \/ /\ place[r] = "isolated" /\ pc'[r] = "sync" /\ UNCHANGED status
             /\ judged'[r] = EditsOf(r, work[r])
          \/ /\ place[r] # "isolated" /\ pc'[r] \in {"sync", "done"}
          \/ /\ pc'[r] = "edit" /\ UNCHANGED status
          \/ /\ pc'[r] = "done" /\ status'[r] = "error"
      BY <1>0, <1>7 DEF Verify, Go, End, Here, TypeOK
    <2>3. status[r] # "success"
      BY <1>0, <2>1 DEF ControlOf
    <2> QED
      BY <1>1, <2>1, <2>2, <2>3 DEF Own
  <1>8. CASE Inspect(r)
    <2>1. UNCHANGED <<work, backup, place, rows, handled, judged>> /\ pc[r] = "inspect"
      BY <1>8 DEF Inspect
    <2>2. \/ Safe(r) /\ pc'[r] = "verify" /\ UNCHANGED status
          \/ pc'[r] = "rollback" /\ UNCHANGED status
          \/ pc'[r] = "done" /\ status'[r] = "error"
      BY <1>0, <1>8 DEF Inspect, Go, End, TypeOK
    <2>3. place[r] = "isolated" /\ Safe(r) => rows[r] = Changed(work[r])
      BY DEF Safe, Here
    <2> QED
      BY <1>0, <1>1, <2>1, <2>2, <2>3 DEF Own, ControlOf
  <1>9. CASE Synced(r)
    <2>1. /\ UNCHANGED <<work, backup, place, rows, handled, judged>> /\ pc[r] = "sync"
          /\ rows[r] = handled[r] /\ pc'[r] = "done"
      BY <1>0, <1>9 DEF Synced, End, TypeOK
    <2> QED
      BY <1>1, <2>1 DEF Own
  <1>10. CASE Apply(r) \/ Revise(r) \/ EditRound(r)
    <2>1. /\ UNCHANGED <<work, backup, place, handled, judged>>
          /\ pc[r] \in {"apply", "revise", "edit"}
          /\ pc'[r] \in {"gate", "recheck", "rollback", "inspect", "done"}
          /\ status'[r] # "success"
      BY <1>0, <1>10 DEF Apply, Revise, EditRound, Go, End, TypeOK, ControlOf
    <2> QED
      BY <1>1, <2>1 DEF Own
  <1>11. CASE CopyFails(r) \/ Rollback(r) \/ Killed(r)
    <2>1. /\ UNCHANGED <<work, backup, place, rows, handled, judged>>
          /\ pc'[r] = "done" /\ status'[r] # "success"
      BY <1>0, <1>11 DEF CopyFails, Rollback, Killed, End, TypeOK
    <2> QED
      BY <1>1, <2>1 DEF Own
  <1> QED
    BY <1>2, <1>3, <1>4, <1>5, <1>6, <1>7, <1>8, <1>9, <1>10, <1>11 DEF Step

(* At first. *)
LEMMA OwnedInit == Init => Owned
  BY DEF Init, Owned, Own, OwnTexts, Head, Writers

(* So every run keeps to itself what it has to itself. *)
LEMMA OwnedNext == TypeInv /\ Owned /\ [Next]_vars => Owned'
  <1> SUFFICES ASSUME TypeInv, Owned, [Next]_vars PROVE Owned'
    OBVIOUS
  <1>1. ASSUME NEW r \in Runs, Private(r)' = Private(r) PROVE Own(r)'
    BY <1>1 DEF Private, Owned, Own, OwnTexts
  <1>2. ASSUME NEW r \in Runs, Step(r) \/ Killed(r) PROVE Owned'
    <2>1. Own(r)'
      BY <1>2, StepOwn DEF Owned
    <2>2. \A o \in Runs \ {r} : Private(o)' = Private(o)
      BY <1>2, StepIsPrivate DEF TypeInv
    <2> QED
      BY <1>1, <2>1, <2>2 DEF Owned
  <1>3. CASE (\E f \in Files : DeveloperEdits(f)) \/ UNCHANGED vars
    <2>1. \A r \in Runs : Private(r)' = Private(r)
      BY <1>3 DEF DeveloperEdits, vars, runVars, Private
    <2> QED
      BY <1>1, <2>1 DEF Owned
  <1> QED
    BY <1>2, <1>3 DEF Next

(* An isolated run that succeeds has handled every file it changed. *)
THEOREM SuccessfulRunIsComplete == Spec => []SuccessIsComplete
  <1>1. Init => TypeInv /\ Owned
    BY TypeInit, OwnedInit
  <1>2. TypeInv /\ Owned /\ [Next]_vars => (TypeInv /\ Owned)'
    BY TypeNext, OwnedNext
  <1>3. Owned => SuccessIsComplete
    BY DEF Owned, Own, SuccessIsComplete
  <1> QED
    BY <1>1, <1>2, <1>3, PTL DEF Spec

-----------------------------------------------------------------------------
(* A text outside the worktrees has no edit of a run that has not begun,   *)
(* and of an isolated run only what its verdict was about.                 *)
AdoptedAt(t, step, where, verdict) ==
  \A r \in Runs :
    /\ step[r] = "prepare" => t.edits[r] = 0
    /\ where[r] = "isolated" /\ t.edits[r] > 0 =>
         verdict[r] # Nothing /\ t.edits[r] = verdict[r][t.of]

Adopted(t) == AdoptedAt(t, pc, place, judged)

Outside ==
  /\ \A f \in Files : Adopted(orig[f])
  /\ \A r \in Runs, n \in Names :
       place[r] # "isolated" /\ backup[r][n] # Nothing => Adopted(backup[r][n])

(* A run begins once, chooses its place then, and has one verdict. *)
LEMMA StepOnce ==
  ASSUME TypeInv, NEW r \in Runs, Step(r) \/ Killed(r)
  PROVE  /\ pc'[r] # "prepare"
         /\ place'[r] = place[r] \/ pc[r] = "prepare"
         /\ judged'[r] = judged[r] \/ judged[r] = Nothing
  <1>0. TypeOK /\ ControlOf(r)
    BY DEF TypeInv, Control
  <1> QED
    BY <1>0 DEF TypeOK, ControlOf, Step, Go, End, Prepare, Isolate, Adopt, EditFile, Apply,
         Gate, Revise, Inspect, Verify, EditRound, CopyBack, CopyFails, Synced, Restore,
         Rollback, Killed

(* What was adopted stays so: a verdict is not changed. *)
LEMMA AdoptedStays ==
  ASSUME TypeInv, NEW r \in Runs, Step(r) \/ Killed(r), NEW t \in Text,
         AdoptedAt(t, pc, place, judged)
  PROVE  AdoptedAt(t, pc', place', judged')
  <1>1. /\ pc'[r] # "prepare"
        /\ place'[r] = place[r] \/ pc[r] = "prepare"
        /\ judged'[r] = judged[r] \/ judged[r] = Nothing
    BY StepOnce
  <1>2. \A o \in Runs \ {r} : pc'[o] = pc[o] /\ place'[o] = place[o] /\ judged'[o] = judged[o]
    BY StepIsPrivate DEF TypeInv, Private
  <1>3. \A o \in Runs : t.edits[o] \in Nat
    BY DEF Text, Writers
  <1> QED
    BY <1>1, <1>2, <1>3 DEF AdoptedAt

(* An edit in the checkout is one of a run that is not isolated. *)
LEMMA EditedIsAdopted ==
  ASSUME TypeInv, Outside, NEW r \in Runs, Step(r) \/ Killed(r), NEW S \in SUBSET Files,
         place[r] # "isolated", UNCHANGED place, orig' = Edited(orig, S, r)
  PROVE  \A f \in Files : Adopted(orig[f])'
  <1>1. orig \in [Files -> Text] /\ pc'[r] # "prepare"
    BY StepOnce DEF TypeInv, TypeOK
  <1>2. \A f \in Files :
          /\ orig'[f].of = orig[f].of
          /\ \A w \in Writers \ {r} : orig'[f].edits[w] = orig[f].edits[w]
    BY <1>1, EditedText
  <1>3. \A f \in Files : AdoptedAt(orig[f], pc', place', judged')
    BY <1>1, AdoptedStays DEF Outside, Adopted
  <1>4. ASSUME NEW f \in Files, NEW o \in Runs \ {r}
        PROVE  /\ pc'[o] = "prepare" => orig'[f].edits[o] = 0
               /\ place'[o] = "isolated" /\ orig'[f].edits[o] > 0 =>
                    judged'[o] # Nothing /\ orig'[f].edits[o] = judged'[o][orig'[f].of]
    <2>1. orig'[f].edits[o] = orig[f].edits[o] /\ orig'[f].of = orig[f].of
      BY <1>2 DEF Writers
    <2> QED
      BY <1>3, <2>1 DEF AdoptedAt
  <1> QED
    BY <1>1, <1>4 DEF Adopted, AdoptedAt

(* A backup of a run that is not isolated is of an adopted text. *)
LEMMA SavedIsAdopted ==
  ASSUME TypeInv, Outside, NEW r \in Runs, Step(r) \/ Killed(r), NEW S \in SUBSET Files,
         NEW enabled \in BOOLEAN, Save(r, S, enabled), place[r] # "isolated", UNCHANGED place
  PROVE  \A n \in Names : backup'[r][n] # Nothing => Adopted(backup[r][n])'
  <1>0. TypeOK /\ Here(r) = orig /\ orig \in [Files -> Text]
        /\ backup[r] \in [Names -> Text \cup {Nothing}]
    BY DEF TypeInv, TypeOK, Here
  <1> SUFFICES ASSUME NEW n \in Names, backup'[r][n] # Nothing
               PROVE  Adopted(backup[r][n])'
    OBVIOUS
  <1>1. \/ backup'[r][n] = backup[r][n]
        \/ \E f \in S : backup'[r][n] = orig[f]
    BY <1>0, SaveText
  <1>2. CASE backup'[r][n] = backup[r][n]
    <2>1. backup[r][n] \in Text /\ AdoptedAt(backup[r][n], pc, place, judged)
      BY <1>0, <1>2 DEF Outside, Adopted
    <2> QED
      BY <1>2, <2>1, AdoptedStays DEF Adopted
  <1>3. ASSUME NEW f \in S, backup'[r][n] = orig[f] PROVE Adopted(backup[r][n])'
    <2>1. orig[f] \in Text /\ AdoptedAt(orig[f], pc, place, judged)
      BY <1>0 DEF Outside, Adopted
    <2> QED
      BY <1>3, <2>1, AdoptedStays DEF Adopted
  <1> QED
    BY <1>1, <1>2, <1>3

(* The steps of a run that touch neither the checkout nor its own backups. *)
LEMMA OutsideStays ==
  ASSUME TypeInv, Outside, NEW r \in Runs, Step(r) \/ Killed(r)
  PROVE  /\ \A f \in Files : orig'[f] = orig[f] => Adopted(orig[f])'
         /\ \A o \in Runs \ {r}, n \in Names :
              place'[o] # "isolated" /\ backup'[o][n] # Nothing => Adopted(backup[o][n])'
         /\ backup'[r] = backup[r] =>
              \A n \in Names :
                place'[r] # "isolated" /\ backup'[r][n] # Nothing => Adopted(backup[r][n])'
  <1>0. TypeOK /\ orig \in [Files -> Text]
        /\ \A o \in Runs, n \in Names : backup[o][n] # Nothing => backup[o][n] \in Text
    BY DEF TypeInv, TypeOK
  <1>1. ASSUME NEW f \in Files, orig'[f] = orig[f] PROVE Adopted(orig[f])'
    <2>1. orig[f] \in Text /\ AdoptedAt(orig[f], pc, place, judged)
      BY <1>0 DEF Outside, Adopted
    <2> QED
      BY <1>1, <2>1, AdoptedStays DEF Adopted
  <1>2. ASSUME NEW o \in Runs, NEW n \in Names, backup'[o] = backup[o],
               place'[o] # "isolated", backup'[o][n] # Nothing
        PROVE  Adopted(backup[o][n])'
    <2>1. place[o] # "isolated"
      <3>1. CASE o = r
        BY <1>2, <3>1, StepOnce DEF TypeInv, Control, ControlOf
      <3>2. CASE o # r
        BY <1>2, <3>2, StepIsPrivate DEF TypeInv, Private
      <3> QED
        BY <3>1, <3>2
    <2>2. Adopted(backup[o][n]) /\ backup[o][n] \in Text
      BY <1>0, <1>2, <2>1 DEF Outside
    <2> QED
      BY <1>2, <2>2, AdoptedStays DEF Adopted
  <1>3. \A o \in Runs \ {r} : backup'[o] = backup[o]
    BY StepIsPrivate DEF TypeInv, Private
  <1> QED
    BY <1>1, <1>2, <1>3

(* Each step of a run. *)
LEMMA StepOutside ==
  ASSUME TypeInv, Owned, Outside, NEW r \in Runs, Step(r) \/ Killed(r)
  PROVE  Outside'
  <1>0. TypeOK /\ ControlOf(r) /\ Own(r) /\ work \in [Runs -> [Files -> Text]]
    BY DEF TypeInv, Control, Owned, TypeOK
  <1> SUFFICES /\ \A f \in Files : Adopted(orig[f])'
               /\ \A n \in Names :
                    place'[r] # "isolated" /\ backup'[r][n] # Nothing => Adopted(backup[r][n])'
    BY OutsideStays DEF Outside
  <1>1. CASE Quiet(r)
    <2>1. UNCHANGED <<orig, backup>>
      BY <1>1 DEF Quiet, Prepare, Apply, Revise, Inspect, Verify, EditRound, CopyFails,
                  Synced, Rollback, Killed
    <2> QED
      BY <2>1, OutsideStays
  <1>2. CASE EditFile(r)
    <2>1. PICK f \in Files, extra \in SUBSET Files :
            /\ SetHere(r, Edited(Here(r), {f} \cup extra, r))
            /\ Save(r, {f}, Backups)
      BY <1>2, EditSteps
    <2>2. UNCHANGED place /\ {f} \in SUBSET Files /\ {f} \cup extra \in SUBSET Files
          /\ Backups \in BOOLEAN
      BY <1>2, RepairAssumption DEF EditFile
    <2>3. CASE place[r] = "isolated"
      BY <2>1, <2>2, <2>3, OutsideStays DEF SetHere
    <2>4. CASE place[r] # "isolated"
      <3>1. orig' = Edited(orig, {f} \cup extra, r)
        BY <2>1, <2>4 DEF SetHere, Here
      <3> QED
        BY <2>1, <2>2, <2>4, <3>1, EditedIsAdopted, SavedIsAdopted
    <2> QED
      BY <2>3, <2>4
  <1>3. CASE Gate(r)
    <2>1. PICK S \in SUBSET Files : SetHere(r, Edited(Here(r), S, r)) /\ Save(r, S, TRUE)
      BY <1>3 DEF Gate
    <2>2. UNCHANGED place
      BY <1>3 DEF Gate
    <2>3. CASE place[r] = "isolated"
      BY <2>1, <2>2, <2>3, OutsideStays DEF SetHere
    <2>4. CASE place[r] # "isolated"
      <3>1. orig' = Edited(orig, S, r)
        BY <2>1, <2>4 DEF SetHere, Here
      <3> QED
        BY <2>1, <2>2, <2>4, <3>1, EditedIsAdopted, SavedIsAdopted
    <2> QED
      BY <2>3, <2>4
  <1>4. ASSUME NEW f \in Files, CopyBack(r, f) PROVE Outside'
    <2>1. UNCHANGED <<pc, place, backup, judged>> /\ pc[r] = "sync"
          /\ orig' = IF place[r] = "isolated" THEN [orig EXCEPT ![f] = work[r][f]] ELSE orig
      BY <1>4 DEF CopyBack
    <2>2. Adopted(work[r][f]) \/ place[r] # "isolated"
      <3> SUFFICES ASSUME place[r] = "isolated" PROVE Adopted(work[r][f])
        OBVIOUS
      <3>1. judged[r] = EditsOf(r, work[r]) /\ work[r][f].of = f
        BY <1>0, <2>1 DEF Own
      <3>2. judged[r] # Nothing /\ work[r][f].edits[r] = judged[r][f]
        <4>1. \A g \in Files : work[r][g].edits[r] \in Nat
          BY <1>0 DEF Text, Writers
        <4>2. EditsOf(r, work[r]) \in [Files -> Nat]
          BY <4>1 DEF EditsOf
        <4> QED
          BY <3>1, <4>2, RepairAssumption DEF EditsOf
      <3>3. \A o \in Runs \ {r} : work[r][f].edits[o] = 0
        BY <1>0 DEF Own, OwnTexts, Writers
      <3> QED
        BY <2>1, <3>1, <3>2, <3>3 DEF Adopted, AdoptedAt
    <2>3. \A g \in Files : orig'[g] = orig[g] \/ (orig'[g] = work[r][f] /\ place[r] = "isolated")
      BY <1>0, <2>1 DEF TypeOK
    <2>4. \A g \in Files : Adopted(orig[g])'
      BY <2>1, <2>2, <2>3 DEF Outside, Adopted
    <2> QED
      BY <2>1, <2>4, OutsideStays DEF Outside
  <1>5. ASSUME NEW f \in Files, Restore(r, f) PROVE Outside'
    <2> DEFINE b == backup[r][BackupName(f)]
    <2>1. UNCHANGED <<pc, place, backup, judged>>
      BY <1>0, <1>5, RestoreSteps
    <2>2. BackupName(f) \in Names /\ orig \in [Files -> Text]
      BY <1>0 DEF Names, TypeOK
    <2>3. \A g \in Files : orig'[g] = orig[g] \/ (AsSaved(orig'[g], b) /\ place[r] # "isolated")
      <3>1. PICK text \in [Files -> Text], left \in SUBSET Files :
              /\ SetHere(r, text)
              /\ \A g \in Files \ {f} : text[g] = Here(r)[g]
              /\ AsSaved(text[f], b) \/ (f \in left /\ text[f] = Here(r)[f])
        BY <1>0, <1>5, RestoreSteps
      <3> QED
        BY <3>1 DEF SetHere, Here
    <2>4. \A g \in Files : Adopted(orig[g])'
      <3>1. b # Nothing /\ place[r] # "isolated" => Adopted(b)
        BY <2>2 DEF Outside
      <3>2. \A g \in Files : Adopted(orig[g])
        BY DEF Outside
      <3> QED
        BY <2>1, <2>3, <3>1, <3>2 DEF Adopted, AdoptedAt, AsSaved
    <2> QED
      BY <2>1, <2>4, OutsideStays DEF Outside
  <1> QED
    BY <1>1, <1>2, <1>3, <1>4, <1>5 DEF Step, Quiet, Outside

(* At first. *)
LEMMA OutsideInit == Init => Outside
  BY DEF Init, Outside, Adopted, AdoptedAt, Head, Writers

(* So what is outside the worktrees was adopted. *)
LEMMA OutsideNext == TypeInv /\ Owned /\ Outside /\ [Next]_vars => Outside'
  <1> SUFFICES ASSUME TypeInv, Owned, Outside, [Next]_vars PROVE Outside'
    OBVIOUS
  <1>1. ASSUME NEW f \in Files, DeveloperEdits(f) PROVE Outside'
    <2>1. UNCHANGED <<pc, place, backup, judged>>
      BY <1>1 DEF DeveloperEdits, runVars
    <2>2. \A g \in Files :
            /\ orig'[g].of = orig[g].of
            /\ \A r \in Runs : orig'[g].edits[r] = orig[g].edits[r]
      BY <1>1, DeveloperText DEF TypeInv
    <2> QED
      BY <2>1, <2>2 DEF Outside, Adopted, AdoptedAt
  <1>2. CASE UNCHANGED vars
    BY <1>2 DEF Outside, Adopted, vars, runVars
  <1> QED
    BY <1>1, <1>2, StepOutside DEF Next

(* An isolated run leaves in the checkout only what its verdict was about. *)
THEOREM CheckoutIsAsJudged == Spec => []SyncedAsJudged
  <1>1. Init => TypeInv /\ Owned /\ Outside
    BY TypeInit, OwnedInit, OutsideInit
  <1>2. TypeInv /\ Owned /\ Outside /\ [Next]_vars => (TypeInv /\ Owned /\ Outside)'
    BY TypeNext, OwnedNext, OutsideNext
  <1>3. Outside => SyncedAsJudged
    BY DEF Outside, Adopted, AdoptedAt, SyncedAsJudged
  <1> QED
    BY <1>1, <1>2, <1>3, PTL DEF Spec

-----------------------------------------------------------------------------
(* Why a rollback can restore: a file is backed up before the run's first  *)
(* edit of it, and until there is an edit round every file with a backup   *)
(* has a record, or an edit without one, or has been restored.             *)
Protected(r) == place[r] = "isolated" \/ Alone(r)
Clean(r, t, f) == t.edits[r] = 0 /\ t.of = f

Undoable(r) ==
  /\ \A f \in Files :
       backup[r][f] # Nothing /\ round[r] = 0 =>
         f \in rows[r] \cup fresh[r] \cup unrecorded[r] \cup handled[r]
  /\ Protected(r) =>
       \A f \in Files \ unrecorded[r] :
         /\ backup[r][f] # Nothing => Clean(r, backup[r][f], f)
         /\ backup[r][f] = Nothing => Clean(r, Here(r)[f], f)
         /\ pc[r] = "rollback" /\ f \in handled[r] \ rows[r] => Clean(r, Here(r)[f], f)
         /\ status[r] = "rolled_back" /\ f \notin rows[r] => Clean(r, Here(r)[f], f)

(* What happens to the others does not end it. *)
LEMMA ProtectedBefore ==
  ASSUME TypeInv, NEW r \in Runs, NEW o \in Runs, Step(o) \/ Killed(o), Protected(r)'
  PROVE  Protected(r) \/ (o = r /\ pc[r] = "prepare")
  <1>1. \A q \in Runs : place'[q] = place[q] \/ place[q] = "none"
    <2>1. place'[o] = place[o] \/ place[o] = "none"
      BY StepOnce DEF TypeInv, Control, ControlOf
    <2>2. \A q \in Runs \ {o} : place'[q] = place[q]
      BY StepIsPrivate DEF TypeInv, Private
    <2> QED
      BY <2>1, <2>2
  <1>2. Alone(r)' => Alone(r)
    BY <1>1 DEF Alone
  <1>3. place'[r] = place[r] \/ (o = r /\ pc[r] = "prepare")
    BY StepOnce, StepIsPrivate DEF TypeInv, Private
  <1> QED
    BY <1>2, <1>3 DEF Protected

(* A run's own steps keep its rollback possible. *)
LEMMA StepUndoable ==
  ASSUME ~SamePath, Backups, TypeInv, Owned, NEW r \in Runs, Undoable(r), Step(r) \/ Killed(r)
  PROVE  Undoable(r)'
  <1>0. /\ TypeOK /\ ControlOf(r) /\ Own(r) /\ Here(r) \in [Files -> Text]
        /\ Names = Files /\ \A f \in Files : BackupName(f) = f
        /\ backup[r] \in [Files -> Text \cup {Nothing}]
        /\ \A t \in Text : t # Nothing
    BY HereType, OwnNames, RepairAssumption DEF TypeInv, Control, Owned, TypeOK
  <1>1. CASE Prepare(r)
    <2>1. /\ UNCHANGED <<orig, work, backup, rows, fresh, unrecorded, round, handled>>
          /\ pc[r] = "prepare"
          /\ pc'[r] # "rollback" /\ status'[r] # "rolled_back"
      BY <1>0, <1>1 DEF Prepare, Isolate, Adopt, Go, End, TypeOK, ControlOf
    <2>2. place[r] = "none" /\ \A f \in Files : backup[r][f] = Nothing
      BY <1>0, <2>1 DEF ControlOf
    <2>3. work[r] = Head
      BY <1>0, <2>1 DEF Own
    <2>4. ASSUME Protected(r)', NEW f \in Files \ unrecorded[r]
          PROVE  Clean(r, Here(r)'[f], f)
      <3>1. CASE place'[r] = "isolated"
        <4>1. Here(r)' = Head
          BY <2>1, <2>3, <3>1 DEF Here
        <4> QED
          BY <4>1 DEF Head, Clean, Writers
      <3>2. CASE place'[r] # "isolated"
        <4>1. Alone(r)
          <5>1. \A o \in Runs \ {r} : place'[o] = place[o]
            BY <1>0, StepIsPrivate DEF Private
          <5> QED
            BY <2>4, <3>2, <5>1 DEF Protected, Alone
        <4>2. Here(r)' = Here(r)
          BY <2>1, <2>2, <3>2 DEF Here
        <4> QED
          BY <2>2, <4>1, <4>2 DEF Undoable, Protected
      <3> QED
        BY <3>1, <3>2
    <2> QED
      BY <2>1, <2>2, <2>4 DEF Undoable
  <1>2. Protected(r)' /\ ~Prepare(r) => Protected(r)
    <2>1. pc[r] = "prepare" /\ Killed(r) => UNCHANGED place
      BY DEF Killed
    <2> QED
      BY <1>0, ProtectedBefore DEF Step, EditFile, Apply, Gate, Revise, Inspect, Verify,
         EditRound, CopyBack, CopyFails, Synced, Restore, Rollback, Killed, Protected, Alone
  <1>3. CASE Quiet(r) /\ ~Prepare(r)
    <2>1. /\ UNCHANGED <<place, backup, handled>> /\ Here(r)' = Here(r)
          /\ pc[r] # "rollback" => (pc'[r] = "rollback" => handled[r] = {})
          /\ pc'[r] = "rollback" => pc[r] # "rollback"
          /\ status'[r] = "rolled_back" => Rollback(r) /\ UNCHANGED rows
      BY <1>0, <1>3 DEF Quiet, Apply, Revise, Inspect, Verify, EditRound, CopyFails, Synced,
         Rollback, Killed, Go, End, TypeOK, ControlOf, Here
    <2>2. /\ unrecorded[r] \subseteq unrecorded'[r]
          /\ round'[r] = 0 =>
               /\ round[r] = 0
               /\ rows[r] \cup fresh[r] \cup unrecorded[r]
                    \subseteq rows'[r] \cup fresh'[r] \cup unrecorded'[r]
      BY <1>0, <1>3 DEF Quiet, Apply, Revise, Inspect, Verify, EditRound, CopyFails, Synced,
         Rollback, Killed, Applied, NothingApplied, Breaks, TypeOK, ControlOf
    <2>3. ASSUME Rollback(r), Protected(r), NEW f \in Files \ unrecorded[r], f \notin rows[r]
          PROVE  Clean(r, Here(r)[f], f)
      <3>1. pc[r] = "rollback" /\ fresh[r] = {} /\ round[r] = 0
        BY <1>0, <2>3 DEF Rollback, ControlOf
      <3> QED
        BY <2>3, <3>1 DEF Undoable, Protected
    <2> QED
      BY <1>2, <1>3, <2>1, <2>2, <2>3 DEF Undoable, Protected
  <1>4. CASE EditFile(r)
    <2>1. PICK f \in Files, extra \in SUBSET Files :
            /\ fresh' = [fresh EXCEPT ![r] = @ \cup {f}]
            /\ SetHere(r, Edited(Here(r), {f} \cup extra, r))
            /\ unrecorded' = [unrecorded EXCEPT ![r] = @ \cup extra]
            /\ Save(r, {f}, Backups)
      BY <1>4, EditSteps
    <2>2. /\ UNCHANGED <<pc, place, rows, round, handled, status>>
          /\ pc[r] # "rollback" /\ status[r] # "rolled_back"
      BY <1>0, <1>4 DEF EditFile, ControlOf
    <2>3. fresh'[r] = fresh[r] \cup {f} /\ unrecorded'[r] = unrecorded[r] \cup extra
      BY <1>0, <2>1 DEF TypeOK
    <2>4. \A g \in Files : g \notin {f} \cup extra => Here(r)'[g] = Here(r)[g]
      BY <1>0, <2>1, <2>2, EditedText, SetHereText
    <2>5. \A g \in Files : backup'[r][g] =
                             IF backup[r][g] = Nothing /\ g \in {f} THEN Here(r)[g] ELSE backup[r][g]
      <3>1. {f} \in SUBSET Files /\ Save(r, {f}, TRUE)
        BY <2>1, RepairAssumption, Backups = TRUE
      <3> QED
        BY <1>0, <3>1, OwnSave
    <2>6. ASSUME Protected(r)', NEW g \in Files \ unrecorded'[r]
          PROVE  /\ backup'[r][g] # Nothing => Clean(r, backup'[r][g], g)
                 /\ backup'[r][g] = Nothing => Clean(r, Here(r)'[g], g)
      <3>1. Protected(r) /\ g \notin unrecorded[r]
        BY <2>2, <2>3, <2>6 DEF Protected, Alone
      <3>2. /\ backup[r][g] # Nothing => Clean(r, backup[r][g], g)
            /\ backup[r][g] = Nothing => Clean(r, Here(r)[g], g)
        BY <3>1 DEF Undoable
      <3>3. Here(r)[g] # Nothing
        BY <1>0
      <3> QED
        BY <2>3, <2>4, <2>5, <2>6, <3>2, <3>3
    <2>7. \A g \in Files : backup'[r][g] # Nothing /\ round'[r] = 0 =>
                             g \in rows'[r] \cup fresh'[r] \cup unrecorded'[r] \cup handled'[r]
      BY <2>2, <2>3, <2>5 DEF Undoable
    <2> QED
      BY <2>2, <2>6, <2>7 DEF Undoable
  <1>5. CASE Gate(r)
    <2>1. PICK S \in SUBSET Files :
            /\ SetHere(r, Edited(Here(r), S, r))
            /\ Save(r, S, TRUE)
            /\ rows' = [rows EXCEPT ![r] = @ \cup S]
      BY <1>5 DEF Gate
    <2>2. /\ UNCHANGED <<place, fresh, unrecorded, round, handled, status>>
          /\ handled[r] = {} /\ status[r] # "rolled_back"
      BY <1>0, <1>5 DEF Gate, Go, ControlOf
    <2>3. rows'[r] = rows[r] \cup S
      BY <1>0, <2>1 DEF TypeOK
    <2>4. \A g \in Files : g \notin S => Here(r)'[g] = Here(r)[g]
      BY <1>0, <2>1, <2>2, EditedText, SetHereText
    <2>5. \A g \in Files : backup'[r][g] =
                             IF backup[r][g] = Nothing /\ g \in S THEN Here(r)[g] ELSE backup[r][g]
      BY <1>0, <2>1, OwnSave
    <2>6. ASSUME Protected(r)', NEW g \in Files \ unrecorded'[r]
          PROVE  /\ backup'[r][g] # Nothing => Clean(r, backup'[r][g], g)
                 /\ backup'[r][g] = Nothing => Clean(r, Here(r)'[g], g)
      <3>1. Protected(r) /\ g \notin unrecorded[r]
        BY <2>2, <2>3, <2>6 DEF Protected, Alone
      <3>2. /\ backup[r][g] # Nothing => Clean(r, backup[r][g], g)
            /\ backup[r][g] = Nothing => Clean(r, Here(r)[g], g)
        BY <3>1 DEF Undoable
      <3>3. Here(r)[g] # Nothing
        BY <1>0
      <3> QED
        BY <2>3, <2>4, <2>5, <2>6, <3>2, <3>3
    <2>7. \A g \in Files : backup'[r][g] # Nothing /\ round'[r] = 0 =>
                             g \in rows'[r] \cup fresh'[r] \cup unrecorded'[r] \cup handled'[r]
      BY <2>2, <2>3, <2>5 DEF Undoable
    <2> QED
      BY <2>2, <2>6, <2>7 DEF Undoable
  <1>6. ASSUME NEW f \in Files, CopyBack(r, f) PROVE Undoable(r)'
    <2>1. /\ UNCHANGED <<pc, place, backup, rows, fresh, unrecorded, round, status>>
          /\ pc[r] = "sync" /\ Here(r)' = Here(r) /\ status[r] # "rolled_back"
          /\ handled[r] \subseteq handled'[r]
      BY <1>0, <1>6 DEF CopyBack, Here, ControlOf, TypeOK
    <2> QED
      BY <1>2, <1>6, <2>1 DEF Undoable, Protected, Alone
  <1>7. ASSUME NEW f \in Files, Restore(r, f) PROVE Undoable(r)'
    <2>1. /\ UNCHANGED <<pc, place, backup, fresh, unrecorded, round, status>>
          /\ pc[r] = "rollback" /\ status[r] # "rolled_back"
          /\ handled'[r] = handled[r] \cup {f}
      BY <1>0, <1>7, RestoreSteps DEF ControlOf, TypeOK
    <2>2. PICK text \in [Files -> Text], left \in SUBSET Files :
            /\ SetHere(r, text)
            /\ rows' = [rows EXCEPT ![r] = left]
            /\ left \subseteq rows[r] /\ rows[r] \subseteq left \cup {f}
            /\ \A g \in Files \ {f} : text[g] = Here(r)[g]
            /\ AsSaved(text[f], backup[r][f]) \/ (f \in left /\ text[f] = Here(r)[f])
      BY <1>0, <1>7, RestoreSteps
    <2>3. Here(r)' = text /\ rows'[r] = left
      BY <1>0, <2>1, <2>2, SetHereText DEF TypeOK
    <2>4. \A g \in Files : backup'[r][g] # Nothing /\ round'[r] = 0 =>
                             g \in rows'[r] \cup fresh'[r] \cup unrecorded'[r] \cup handled'[r]
      BY <2>1, <2>2, <2>3 DEF Undoable
    <2>5. ASSUME Protected(r)', NEW g \in Files \ unrecorded[r]
          PROVE  /\ backup[r][g] # Nothing => Clean(r, backup[r][g], g)
                 /\ backup[r][g] = Nothing => Clean(r, Here(r)'[g], g)
                 /\ g \in handled'[r] \ rows'[r] => Clean(r, Here(r)'[g], g)
      <3>1. Protected(r)
        BY <2>1, <2>5 DEF Protected, Alone
      <3>2. /\ backup[r][g] # Nothing => Clean(r, backup[r][g], g)
            /\ backup[r][g] = Nothing => Clean(r, Here(r)[g], g)
            /\ g \in handled[r] \ rows[r] => Clean(r, Here(r)[g], g)
        BY <2>1, <3>1 DEF Undoable
      <3>3. \/ Here(r)'[g] = Here(r)[g] /\ (g \in rows'[r] <=> g \in rows[r])
            \/ g = f /\ AsSaved(Here(r)'[g], backup[r][g])
        BY <2>2, <2>3
      <3>4. CASE g # f
        BY <2>1, <2>2, <2>3, <3>2, <3>4
      <3>5. CASE g = f
        BY <2>2, <2>3, <3>2, <3>5 DEF AsSaved, Clean
      <3> QED
        BY <3>4, <3>5
    <2> QED
      BY <2>1, <2>4, <2>5 DEF Undoable
  <1> QED
    BY <1>1, <1>3, <1>4, <1>5, <1>6, <1>7 DEF Step, Quiet

(* Nor do the others' steps make it impossible. *)
LEMMA OtherUndoable ==
  ASSUME ~SamePath, TypeInv, Owned, NEW r \in Runs, Undoable(r),
         NEW o \in Runs \ {r}, Step(o) \/ Killed(o)
  PROVE  Undoable(r)'
  <1>0. /\ TypeOK /\ ControlOf(o) /\ Own(o)
        /\ Names = Files /\ Private(r)' = Private(r)
    BY OwnNames, StepIsPrivate DEF TypeInv, Control, Owned
  <1>1. ASSUME Protected(r)'
        PROVE  Protected(r) /\ \A f \in Files : Here(r)'[f] = Here(r)[f] \/ Clean(r, Here(r)'[f], f)
    <2>1. Protected(r)
      BY <1>1, ProtectedBefore
    <2>2. CASE place[r] = "isolated"
      BY <1>0, <2>1, <2>2 DEF Private, Here
    <2>3. CASE place[r] # "isolated"
      <3>1. Here(r) = orig /\ Here(r)' = orig'
        BY <1>0, <2>3 DEF Private, Here
      <3>2. place'[o] \in {"none", "isolated"} /\ place[o] \in {"none", "isolated"}
        BY <1>0, <1>1, <2>1, <2>3 DEF Protected, Alone, Private
      <3>3. CASE \E f \in Files : CopyBack(o, f)
        <4>1. PICK g \in Files : CopyBack(o, g)
          BY <3>3
        <4>2. pc[o] = "sync" /\ place[o] = "isolated" /\ orig' = [orig EXCEPT ![g] = work[o][g]]
          BY <1>0, <3>2, <4>1 DEF CopyBack, ControlOf
        <4>3. Clean(r, work[o][g], g)
          BY <1>0, <4>2 DEF Own, OwnTexts, Clean, Writers
        <4> QED
          BY <1>0, <2>1, <3>1, <4>2, <4>3 DEF TypeOK
      <3>4. CASE ~\E f \in Files : CopyBack(o, f)
        <4>1. orig' = orig
          <5>1. pc[o] \in {"prepare", "done"} \/ place[o] = "isolated"
            BY <1>0, <3>2 DEF ControlOf
          <5>2. CASE EditFile(o)
            <6>1. \E text : SetHere(o, text)
              BY <5>2, EditSteps
            <6> QED
              BY <5>1, <5>2, <6>1 DEF EditFile, SetHere
          <5>3. CASE ~EditFile(o)
            BY <3>4, <5>1, <5>3 DEF Step, Prepare, Apply, Gate, Revise, Inspect, Verify,
               EditRound, CopyFails, Synced, Restore, Rollback, Killed, SetHere
          <5> QED
            BY <5>2, <5>3
        <4> QED
          BY <2>1, <3>1, <4>1
      <3> QED
        BY <3>3, <3>4
    <2> QED
      BY <2>1, <2>2, <2>3
  <1>2. \A f \in Files : backup'[r][f] = Nothing \/ backup'[r][f] = backup[r][f]
    BY <1>0 DEF Private
  <1> QED
    BY <1>0, <1>1, <1>2 DEF Private, Undoable

(* At first. *)
LEMMA UndoableInit == ~SamePath /\ Init => \A r \in Runs : Undoable(r)
  BY OwnNames DEF Init, Undoable, Clean, Here, Head, Writers

(* So a rollback is always possible. *)
LEMMA UndoableNext ==
  ASSUME ~SamePath, Backups, TypeInv, Owned, \A r \in Runs : Undoable(r), [Next]_vars
  PROVE  (\A r \in Runs : Undoable(r))'
  <1> SUFFICES ASSUME NEW r \in Runs PROVE Undoable(r)'
    OBVIOUS
  <1>1. ASSUME NEW o \in Runs, Step(o) \/ Killed(o) PROVE Undoable(r)'
    BY <1>1, StepUndoable, OtherUndoable
  <1>2. ASSUME NEW f \in Files, DeveloperEdits(f) PROVE Undoable(r)'
    <2>1. UNCHANGED runVars
      BY <1>2 DEF DeveloperEdits
    <2>2. \A g \in Files : /\ Here(r)'[g].of = Here(r)[g].of
                           /\ Here(r)'[g].edits[r] = Here(r)[g].edits[r]
      BY <1>2, <2>1, DeveloperText DEF TypeInv, Here, runVars
    <2> QED
      BY <2>1, <2>2 DEF Undoable, Clean, Protected, Alone, runVars
  <1>3. CASE UNCHANGED vars
    BY <1>3 DEF vars, runVars, Undoable, Clean, Protected, Alone, Here
  <1> QED
    BY <1>1, <1>2, <1>3 DEF Next

(* Nothing of a run that ends as rolled back is left but edits without a   *)
(* record, and what could not be restored and keeps its record, if every   *)
(* file has a backup of its own.                                           *)
THEOREM RollbackIsClean == Spec => []RollbackRestores
  <1> DEFINE Inv == TypeInv /\ Owned /\ \A r \in Runs : Undoable(r)
  <1>1. CASE Backups /\ ~SamePath
    <2>1. Init => Inv
      BY <1>1, TypeInit, OwnedInit, UndoableInit
    <2>2. Inv /\ [Next]_vars => Inv'
      BY <1>1, TypeNext, OwnedNext, UndoableNext
    <2>3. Inv => RollbackRestores
      BY DEF RollbackRestores, Undoable, Protected, Clean
    <2> QED
      BY <2>1, <2>2, <2>3, PTL DEF Spec
  <1>2. CASE ~(Backups /\ ~SamePath)
    <2>1. RollbackRestores
      BY <1>2 DEF RollbackRestores
    <2> QED
      BY <2>1, PTL
  <1> QED
    BY <1>1, <1>2

-----------------------------------------------------------------------------
(* Why edits that a run has seen are kept: an isolated run has found its   *)
(* scope clean, and of a run that is alone in the checkout what it found   *)
(* is still there, in the checkout and in each backup.                     *)
Respected(r) ==
  /\ place[r] = "isolated" => \A p \in began[r] : p[1] \notin scope[r]
  /\ Sole(r) /\ place[r] # "isolated" =>
       \A p \in began[r] :
         p[2] # r =>
           /\ p \in EditsIn(orig)
           /\ backup[r][p[1]] # Nothing => backup[r][p[1]].edits[p[2]] > 0

(* At first. *)
LEMMA RespectedInit == Init => \A r \in Runs : Respected(r)
  BY DEF Init, Respected

(* The edits in a text of which another has at least as many. *)
LEMMA MoreEdits ==
  ASSUME NEW s \in [Files -> Text], NEW t \in [Files -> Text], NEW p \in EditsIn(s),
         t[p[1]].edits[p[2]] >= s[p[1]].edits[p[2]]
  PROVE  p \in EditsIn(t)
  <1>1. p[1] \in Files /\ p[2] \in Writers /\ p \in Files \X Writers
    BY DEF EditsIn
  <1>2. s[p[1]].edits[p[2]] \in Nat /\ t[p[1]].edits[p[2]] \in Nat
    BY <1>1 DEF Text
  <1> QED
    BY <1>1, <1>2 DEF EditsIn

(* The steps of a run that is alone take no edit of others away. *)
LEMMA OwnStepKeeps ==
  ASSUME ~SamePath, TypeInv, Owned, NEW r \in Runs, Respected(r), Step(r) \/ Killed(r),
         Sole(r), place[r] # "isolated", pc[r] # "prepare",
         NEW p \in began[r], p[2] # r
  PROVE  /\ p \in EditsIn(orig')
         /\ backup'[r][p[1]] # Nothing => backup'[r][p[1]].edits[p[2]] > 0
  <1>0. /\ TypeOK /\ ControlOf(r) /\ Here(r) = orig /\ orig \in [Files -> Text]
        /\ Names = Files /\ \A f \in Files : BackupName(f) = f
        /\ p \in EditsIn(orig) /\ p[1] \in Files /\ p[2] \in Writers \ {r}
        /\ backup[r] \in [Files -> Text \cup {Nothing}]
        /\ backup[r][p[1]] # Nothing => backup[r][p[1]].edits[p[2]] > 0
    BY OwnNames DEF TypeInv, Control, TypeOK, Here, Respected, EditsIn
  <1>1. CASE Quiet(r)
    <2>1. UNCHANGED <<orig, backup>>
      BY <1>1 DEF Quiet, Prepare, Apply, Revise, Inspect, Verify, EditRound, CopyFails,
                  Synced, Rollback, Killed
    <2> QED
      BY <1>0, <2>1
  <1>2. ASSUME NEW S \in SUBSET Files, NEW saved \in SUBSET Files, NEW enabled \in BOOLEAN,
               SetHere(r, Edited(Here(r), S, r)), Save(r, saved, enabled), UNCHANGED place
        PROVE  /\ p \in EditsIn(orig')
               /\ backup'[r][p[1]] # Nothing => backup'[r][p[1]].edits[p[2]] > 0
    <2>1. orig' = Edited(orig, S, r)
      BY <1>0, <1>2 DEF SetHere
    <2>2. orig' \in [Files -> Text] /\ orig'[p[1]].edits[p[2]] = orig[p[1]].edits[p[2]]
      BY <1>0, <2>1, EditedText
    <2>3. orig[p[1]].edits[p[2]] > 0
      BY <1>0 DEF EditsIn
    <2>4. p \in EditsIn(orig')
      BY <1>0, <2>2, <2>3 DEF EditsIn
    <2>5. backup'[r][p[1]] = backup[r][p[1]] \/ backup'[r][p[1]] = orig[p[1]]
      <3>1. \/ backup'[r][p[1]] = backup[r][p[1]]
            \/ \E f \in saved : BackupName(f) = p[1] /\ backup'[r][p[1]] = Here(r)[f]
        BY <1>0, <1>2, SaveText
      <3> QED
        BY <1>0, <3>1
    <2> QED
      BY <1>0, <2>3, <2>4, <2>5
  <1>3. CASE EditFile(r)
    <2>1. PICK f \in Files, extra \in SUBSET Files :
            SetHere(r, Edited(Here(r), {f} \cup extra, r)) /\ Save(r, {f}, Backups)
      BY <1>3, EditSteps
    <2>2. UNCHANGED place /\ {f} \cup extra \in SUBSET Files /\ {f} \in SUBSET Files
          /\ Backups \in BOOLEAN
      BY <1>3, RepairAssumption DEF EditFile
    <2> QED
      BY <1>2, <2>1, <2>2
  <1>4. CASE Gate(r)
    <2>1. PICK S \in SUBSET Files : SetHere(r, Edited(Here(r), S, r)) /\ Save(r, S, TRUE)
      BY <1>4 DEF Gate
    <2> QED
      BY <1>2, <1>4, <2>1, TRUE \in BOOLEAN DEF Gate
  <1>5. ASSUME NEW f \in Files, CopyBack(r, f)
        PROVE  /\ p \in EditsIn(orig')
               /\ backup'[r][p[1]] # Nothing => backup'[r][p[1]].edits[p[2]] > 0
    BY <1>0, <1>5 DEF CopyBack
  <1>6. ASSUME NEW f \in Files, Restore(r, f)
        PROVE  /\ p \in EditsIn(orig')
               /\ backup'[r][p[1]] # Nothing => backup'[r][p[1]].edits[p[2]] > 0
    <2>1. UNCHANGED backup
      BY <1>0, <1>6, RestoreSteps
    <2>2. orig'[p[1]] = orig[p[1]] \/ AsSaved(orig'[p[1]], backup[r][p[1]])
      <3>1. PICK text \in [Files -> Text], left \in SUBSET Files :
              /\ SetHere(r, text)
              /\ \A g \in Files \ {f} : text[g] = Here(r)[g]
              /\ AsSaved(text[f], backup[r][BackupName(f)]) \/ (f \in left /\ text[f] = Here(r)[f])
        BY <1>0, <1>6, RestoreSteps
      <3> QED
        BY <1>0, <3>1 DEF SetHere, Here
    <2>3. orig'[p[1]].edits[p[2]] > 0
      BY <1>0, <2>2 DEF EditsIn, AsSaved
    <2> QED
      BY <1>0, <2>1, <2>3 DEF EditsIn
  <1> QED
    BY <1>1, <1>3, <1>4, <1>5, <1>6 DEF Step, Quiet

(* A run goes on respecting what it found. *)
LEMMA StepRespected ==
  ASSUME ~SamePath, TypeInv, Owned, NEW r \in Runs, Respected(r), Step(r) \/ Killed(r)
  PROVE  Respected(r)'
  <1>0. TypeOK /\ ControlOf(r) /\ Own(r) /\ orig \in [Files -> Text] /\ Names = Files
    BY OwnNames DEF TypeInv, Control, Owned, TypeOK
  <1>1. CASE Prepare(r)
    <2>1. /\ UNCHANGED <<orig, backup>> /\ pc[r] = "prepare"
          /\ began'[r] = EditsIn(orig)
          /\ place'[r] = "isolated" => Changed(orig) \cap scope'[r] = {}
      BY <1>0, <1>1 DEF Prepare, Isolate, Adopt, End, TypeOK, ControlOf
    <2>2. \A f \in Files : backup[r][f] = Nothing
      BY <1>0, <2>1 DEF ControlOf
    <2>3. \A p \in EditsIn(orig) : p[1] \in Changed(orig)
      BY DEF EditsIn, Changed, Head
    <2>4. \A p \in EditsIn(orig) : p[1] \in Files
      BY DEF EditsIn
    <2> QED
      BY <2>1, <2>2, <2>3, <2>4 DEF Respected
  <1>2. CASE ~Prepare(r)
    <2>1. UNCHANGED <<place, scope, began>>
      BY <1>2 DEF Step, EditFile, Apply, Gate, Revise, Inspect, Verify, EditRound, CopyBack,
         CopyFails, Synced, Restore, Rollback, Killed
    <2>2. CASE pc[r] = "prepare"
      <3>1. began'[r] = {}
        BY <1>0, <2>1, <2>2 DEF Own
      <3> QED
        BY <3>1 DEF Respected
    <2>3. CASE pc[r] # "prepare"
      <3>1. Sole(r)' => Sole(r)
        BY <2>1 DEF Sole
      <3> QED
        BY <2>1, <2>3, <3>1, OwnStepKeeps DEF Respected
    <2> QED
      BY <2>2, <2>3
  <1> QED
    BY <1>1, <1>2

(* Nobody else's step is in its way. *)
LEMMA OtherRespected ==
  ASSUME ~SamePath, TypeInv, NEW r \in Runs, Respected(r), NEW o \in Runs \ {r},
         Step(o) \/ Killed(o)
  PROVE  Respected(r)'
  <1>1. Private(r)' = Private(r)
    BY StepIsPrivate DEF TypeInv
  <1>2. ASSUME Sole(r)' PROVE Sole(r) /\ orig' = orig
    <2>1. place'[o] = "none"
      BY <1>2 DEF Sole
    <2>2. place[o] = "none" /\ ControlOf(o)
      BY <2>1, StepOnce DEF TypeInv, Control, ControlOf
    <2>3. pc[o] \in {"prepare", "done"}
      BY <2>2 DEF ControlOf
    <2>4. orig' = orig
      BY <2>3 DEF Step, Prepare, EditFile, Apply, Gate, Revise, Inspect, Verify, EditRound,
         CopyBack, CopyFails, Synced, Restore, Rollback, Killed
    <2>5. \A q \in Runs \ {o} : place'[q] = place[q]
      BY StepIsPrivate DEF TypeInv, Private
    <2> QED
      BY <1>2, <2>2, <2>4, <2>5 DEF Sole
  <1> QED
    BY <1>1, <1>2 DEF Private, Respected

(* So every run respects what it found. *)
LEMMA RespectedNext ==
  ASSUME ~SamePath, TypeInv, Owned, \A r \in Runs : Respected(r), [Next]_vars
  PROVE  (\A r \in Runs : Respected(r))'
  <1> SUFFICES ASSUME NEW r \in Runs PROVE Respected(r)'
    OBVIOUS
  <1>1. ASSUME NEW o \in Runs, Step(o) \/ Killed(o) PROVE Respected(r)'
    BY <1>1, StepRespected, OtherRespected
  <1>2. ASSUME NEW f \in Files, DeveloperEdits(f) PROVE Respected(r)'
    <2>1. UNCHANGED runVars /\ orig \in [Files -> Text] /\ orig' \in [Files -> Text]
      BY <1>2, DeveloperText DEF DeveloperEdits, TypeInv, TypeOK
    <2>2. \A g \in Files, w \in Writers : orig'[g].edits[w] >= orig[g].edits[w]
      <3>1. \A g \in Files, w \in Writers : orig[g].edits[w] \in Nat
        BY <2>1 DEF Text
      <3> QED
        BY <1>2, <3>1, DeveloperText DEF TypeInv, Writers
    <2>3. \A p \in EditsIn(orig) : p \in EditsIn(orig')
      <3> TAKE p \in EditsIn(orig)
      <3>1. p[1] \in Files /\ p[2] \in Writers
        BY DEF EditsIn
      <3> QED
        BY <2>1, <2>2, <3>1, MoreEdits
    <2> QED
      BY <2>1, <2>3 DEF Respected, Sole, runVars
  <1>3. CASE UNCHANGED vars
    BY <1>3 DEF vars, runVars, Respected, Sole
  <1> QED
    BY <1>1, <1>2, <1>3 DEF Next

(* A step of a protected run keeps what was there when the run began. *)
LEMMA StepKeeps ==
  ASSUME ~SamePath, TypeInv, Owned, \A r \in Runs : Respected(r), [Next]_vars,
         NEW r \in Runs, place[r] = "isolated" \/ Sole(r), Acts(r)
  PROVE  Keeps(r, scope[r])
  <1>0. TypeOK /\ ControlOf(r) /\ Own(r) /\ Respected(r)
    BY DEF TypeInv, Control, Owned
  <1>1. Step(r) \/ Killed(r)
    <2>1. ASSUME NEW o \in Runs \ {r}, Step(o) \/ Killed(o) PROVE FALSE
      BY <2>1, StepIsPrivate DEF TypeInv, Private, Acts
    <2>2. ASSUME NEW f \in Files, DeveloperEdits(f) PROVE FALSE
      BY <2>2 DEF DeveloperEdits, runVars, Acts
    <2>3. ~UNCHANGED vars
      BY DEF vars, runVars, Acts
    <2> QED
      BY <2>1, <2>2, <2>3 DEF Next
  <1>2. CASE pc[r] = "prepare"
    BY <1>0, <1>2 DEF Own, Keeps
  <1>3. CASE place[r] = "isolated"
    BY <1>0, <1>3 DEF Respected, Keeps
  <1>4. CASE pc[r] # "prepare" /\ place[r] # "isolated"
    BY <1>0, <1>1, <1>4, OwnStepKeeps DEF Keeps
  <1> QED
    BY <1>2, <1>3, <1>4

(* Edits are kept, for every number of runs. *)
THEOREM EditsAreKept ==
  ASSUME ~SamePath
  PROVE  Spec => ScopedEditsKept
  <1> DEFINE Inv == TypeInv /\ Owned /\ \A r \in Runs : Respected(r)
  <1>1. Init => Inv
    BY TypeInit, OwnedInit, RespectedInit
  <1>2. Inv /\ [Next]_vars => Inv'
    BY TypeNext, OwnedNext, RespectedNext
  <1>3. Inv /\ [Next]_vars =>
          [\A r \in Runs : (place[r] = "isolated" \/ Sole(r)) /\ Acts(r) => Keeps(r, scope[r])]_vars
    BY StepKeeps
  <1> QED
    BY <1>1, <1>2, <1>3, PTL DEF Spec, ScopedEditsKept
=============================================================================
