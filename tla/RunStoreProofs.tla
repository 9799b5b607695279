--------------------------- MODULE RunStoreProofs ---------------------------
(***************************************************************************)
(* What holds of RunStore for every set of threads and every number of     *)
(* events.                                                                 *)
(***************************************************************************)
EXTENDS RunStore, TLAPS

(* A thread that saves has a payload, and one that changed the run or      *)
(* saves it belongs to a daemon that is up and has the run.                *)
AtWork ==
  /\ \A t \in Threads : Saving(t) => copy[t] \in Snapshots
  /\ \A t \in Threads : pc[t] # "idle" => up /\ run \in Snapshots

(* A thread has a file open only between its open and its write, and what  *)
(* it has open is there.                                                   *)
OpenFiles ==
  /\ \A t \in Threads : pc[t] # "write" => open[t] = "none"
  /\ \A t \in Threads : open[t] = "temp" => temp \in Files
  /\ \A t \in Threads : open[t] = "target" => target \in Files

(* A thread on its own has the temporary file to itself: empty before the  *)
(* write, its snapshot after it.                                           *)
SaveOf(snapshot) == [length |-> snapshot.size, text |-> snapshot]

OnItsOwn ==
  \A t \in solo :
    /\ Saving(t)
    /\ \A o \in Threads : Saving(o) => o = t
    /\ pc[t] = "write" => open[t] = "temp" /\ temp = Empty
    /\ pc[t] = "replace" => temp = SaveOf(copy[t])

(* While the files are sound, whoever saves is on its own. *)
SoundAlone == sound => \A t \in Threads : Saving(t) => t \in solo

StoreInv == TypeOK /\ AtWork /\ OpenFiles /\ OnItsOwn /\ SoundAlone /\ CrashSafe

-----------------------------------------------------------------------------
(* A move ends in a status. *)
LEMMA MovesAreStatuses == \A s \in Statuses : Moves[s] \subseteq Statuses
  BY DEF Moves, Statuses, Resumable, Final

(* The empty file is a file, and so is what a write makes of one. *)
LEMMA FilesAreFiles ==
  /\ Empty \in Files
  /\ \A file \in Files : Cut(file) \in Files
  /\ \A file \in Files, snapshot \in Snapshots : Over(file, snapshot) \in Files
  /\ \A snapshot \in Snapshots : Over(Empty, snapshot) = SaveOf(snapshot)
  <1> USE RunStoreAssumption DEF Files, Snapshots
  <1>1. Empty \in Files
    BY DEF Empty
  <1>2. \A file \in Files : Cut(file) \in Files
    BY DEF Cut
  <1>3. \A file \in Files, snapshot \in Snapshots : Over(file, snapshot) \in Files
    BY DEF Over
  <1>4. \A snapshot \in Snapshots : Over(Empty, snapshot) = SaveOf(snapshot)
    BY DEF Over, Empty, SaveOf
  <1> QED
    BY <1>1, <1>2, <1>3, <1>4

(* At first the daemon has a run and no file. *)
LEMMA StoreInit == Init => StoreInv
  <1> SUFFICES ASSUME Init PROVE StoreInv
    OBVIOUS
  <1>1. TypeOK
    BY RunStoreAssumption DEF Init, TypeOK, Snapshots, Statuses, Files
  <1>2. AtWork /\ OpenFiles /\ OnItsOwn /\ SoundAlone /\ CrashSafe
    BY DEF Init, AtWork, OpenFiles, OnItsOwn, SoundAlone, CrashSafe, Saving
  <1> QED
    BY <1>1, <1>2 DEF StoreInv

(* Recording a change. *)
LEMMA ChangeStep ==
  ASSUME StoreInv, NEW t \in Threads, Change(t)
  PROVE  StoreInv'
  <1>1. /\ run \in Snapshots /\ run.size < MaxSize
        /\ up /\ pc[t] = "idle" /\ pc' = [pc EXCEPT ![t] = "changed"]
        /\ UNCHANGED <<up, copy, open, temp, target, solo, saved, sound>>
    BY DEF Change, Go, StoreInv, TypeOK, fileVars
  <1>2. PICK s \in Moves[run.status] \cup {run.status} :
          run' = [status |-> s, size |-> run.size + 1]
    BY DEF Change
  <1>3. run' \in Snapshots
    BY <1>1, <1>2, MovesAreStatuses, RunStoreAssumption DEF Snapshots
  <1>4. \A o \in Threads : Saving(o)' = Saving(o) /\ (o # t => pc'[o] = pc[o])
    BY <1>1 DEF Saving, StoreInv, TypeOK
  <1>5. TypeOK'
    BY <1>1, <1>3 DEF StoreInv, TypeOK
  <1>6. (AtWork /\ OpenFiles /\ SoundAlone)'
    BY <1>1, <1>3, <1>4 DEF StoreInv, TypeOK, AtWork, OpenFiles, SoundAlone
  <1>7. OnItsOwn'
    <2>1. \A o \in solo : o # t
      BY <1>1 DEF StoreInv, OnItsOwn, Saving
    <2> QED
      BY <1>1, <1>4, <2>1 DEF StoreInv, TypeOK, OnItsOwn
  <1>8. CrashSafe'
    BY <1>1 DEF StoreInv, CrashSafe, Whole
  <1> QED
    BY <1>5, <1>6, <1>7, <1>8 DEF StoreInv

(* Copying the run. *)
LEMMA SnapshotStep ==
  ASSUME StoreInv, NEW t \in Threads, Snapshot(t)
  PROVE  StoreInv'
  <1>1. /\ pc[t] = "changed" /\ pc' = [pc EXCEPT ![t] = "open"]
        /\ copy' = [copy EXCEPT ![t] = run] /\ run \in Snapshots
        /\ UNCHANGED <<up, run, open, temp, target, saved>>
    BY DEF Snapshot, Go, StoreInv, AtWork, daemonVars, fileVars
  <1>2. \/ (\A o \in Threads : ~Saving(o)) /\ solo' = {t} /\ sound' = sound
        \/ solo' = {} /\ sound' = FALSE
    BY DEF Snapshot
  <1>3. /\ Saving(t)' /\ ~Saving(t)
        /\ \A o \in Threads : o # t => Saving(o)' = Saving(o) /\ copy'[o] = copy[o] /\ pc'[o] = pc[o]
        /\ copy'[t] = run
    BY <1>1 DEF Saving, StoreInv, TypeOK
  <1>4. TypeOK'
    BY <1>1, <1>2 DEF StoreInv, TypeOK
  <1>5. (AtWork /\ OpenFiles)'
    BY <1>1, <1>3 DEF StoreInv, TypeOK, AtWork, OpenFiles
  <1>6. (OnItsOwn /\ SoundAlone)'
    BY <1>1, <1>2, <1>3 DEF StoreInv, TypeOK, OnItsOwn, SoundAlone
  <1>7. CrashSafe'
    BY <1>1, <1>2 DEF StoreInv, CrashSafe, Whole
  <1> QED
    BY <1>4, <1>5, <1>6, <1>7 DEF StoreInv

(* Opening the temporary file. *)
LEMMA OpenStep ==
  ASSUME StoreInv, NEW t \in Threads, Open(t)
  PROVE  StoreInv'
  <1>1. /\ pc[t] = "open" /\ pc' = [pc EXCEPT ![t] = "write"]
        /\ temp' = Empty /\ open' = [open EXCEPT ![t] = "temp"]
        /\ UNCHANGED <<up, run, copy, target, solo, saved, sound>>
    BY DEF Open, Go, daemonVars
  <1>2. \A o \in Threads : Saving(o)' = Saving(o) /\ (o # t => pc'[o] = pc[o] /\ open'[o] = open[o])
    BY <1>1 DEF Saving, StoreInv, TypeOK
  <1>3. TypeOK'
    BY <1>1, FilesAreFiles DEF StoreInv, TypeOK
  <1>4. (AtWork /\ OpenFiles /\ SoundAlone)'
    BY <1>1, <1>2, FilesAreFiles DEF StoreInv, TypeOK, AtWork, OpenFiles, SoundAlone
  <1>5. OnItsOwn'
    <2>1. Saving(t)
      BY <1>1 DEF Saving
    <2>2. \A o \in solo : o = t
      BY <2>1 DEF StoreInv, OnItsOwn
    <2> QED
      BY <1>1, <1>2, <2>1, <2>2 DEF StoreInv, TypeOK, OnItsOwn
  <1>6. CrashSafe'
    BY <1>1 DEF StoreInv, CrashSafe, Whole
  <1> QED
    BY <1>3, <1>4, <1>5, <1>6 DEF StoreInv

(* Writing, or failing to, changes only the file that is open. *)
LEMMA WriteStep ==
  ASSUME StoreInv, NEW t \in Threads, Write(t)
  PROVE  StoreInv'
  <1>1. /\ pc[t] = "write" /\ pc' = [pc EXCEPT ![t] = "replace"]
        /\ open' = [open EXCEPT ![t] = "none"]
        /\ temp' = IF open[t] = "temp" THEN Over(temp, copy[t]) ELSE temp
        /\ target' = IF open[t] = "target" THEN Over(target, copy[t]) ELSE target
        /\ UNCHANGED <<up, run, copy, solo, saved, sound>>
    BY DEF Write, Go, Store, daemonVars
  <1>2. copy[t] \in Snapshots /\ Saving(t)
    BY <1>1 DEF Saving, StoreInv, AtWork
  <1>3. \A o \in Threads : Saving(o)' = Saving(o) /\ (o # t => pc'[o] = pc[o] /\ open'[o] = open[o])
    BY <1>1 DEF Saving, StoreInv, TypeOK
  <1>4. /\ temp \in Files => temp' \in Files
        /\ target \in Files => target' \in Files
        /\ temp' \in Files \cup {Absent} /\ target' \in Files \cup {Absent}
    BY <1>1, <1>2, FilesAreFiles DEF StoreInv, TypeOK, OpenFiles
  <1>5. TypeOK'
    BY <1>1, <1>4 DEF StoreInv, TypeOK
  <1>6. (AtWork /\ OpenFiles /\ SoundAlone)'
    BY <1>1, <1>3, <1>4 DEF StoreInv, TypeOK, AtWork, OpenFiles, SoundAlone
  <1>7. OnItsOwn'
    <2>1. \A o \in solo : o = t
      BY <1>2 DEF StoreInv, OnItsOwn
    <2>2. t \in solo => temp' = SaveOf(copy[t])
      BY <1>1, <1>2, FilesAreFiles DEF StoreInv, OnItsOwn
    <2> QED
      BY <1>1, <1>2, <1>3, <2>1, <2>2 DEF StoreInv, TypeOK, OnItsOwn
  <1>8. CrashSafe'
    <2>1. sound => target' = target
      BY <1>1, <1>2 DEF StoreInv, SoundAlone, OnItsOwn
    <2> QED
      BY <1>1, <2>1 DEF StoreInv, CrashSafe, Whole
  <1> QED
    BY <1>5, <1>6, <1>7, <1>8 DEF StoreInv

(* A write that fails. *)
LEMMA WriteFailsStep ==
  ASSUME StoreInv, NEW t \in Threads, WriteFails(t)
  PROVE  StoreInv'
  <1>1. /\ pc[t] = "write" /\ pc' = [pc EXCEPT ![t] = "idle"]
        /\ open' = [open EXCEPT ![t] = "none"]
        /\ copy' = [copy EXCEPT ![t] = Absent]
        /\ temp' = IF open[t] = "temp" THEN Cut(temp) ELSE temp
        /\ target' = IF open[t] = "target" THEN Cut(target) ELSE target
        /\ solo' = solo \ {t}
        /\ UNCHANGED <<up, run, saved, sound>>
    BY DEF WriteFails, Go, Store, daemonVars
  <1>2. Saving(t) /\ ~Saving(t)'
    BY <1>1 DEF Saving, StoreInv, TypeOK
  <1>3. \A o \in Threads : o # t => /\ Saving(o)' = Saving(o) /\ pc'[o] = pc[o]
                                    /\ open'[o] = open[o] /\ copy'[o] = copy[o]
    BY <1>1 DEF Saving, StoreInv, TypeOK
  <1>4. /\ temp \in Files => temp' \in Files
        /\ target \in Files => target' \in Files
        /\ temp' \in Files \cup {Absent} /\ target' \in Files \cup {Absent}
    BY <1>1, FilesAreFiles DEF StoreInv, TypeOK, OpenFiles
  <1>5. TypeOK'
    BY <1>1, <1>4 DEF StoreInv, TypeOK
  <1>6. (AtWork /\ OpenFiles)'
    BY <1>1, <1>2, <1>3, <1>4 DEF StoreInv, TypeOK, AtWork, OpenFiles
  <1>7. (OnItsOwn /\ SoundAlone)'
    <2>1. \A o \in solo : o = t
      BY <1>2 DEF StoreInv, OnItsOwn
    <2> QED
      BY <1>1, <1>2, <1>3, <2>1 DEF StoreInv, OnItsOwn, SoundAlone
  <1>8. CrashSafe'
    <2>1. sound => target' = target
      BY <1>1, <1>2 DEF StoreInv, SoundAlone, OnItsOwn
    <2> QED
      BY <1>1, <2>1 DEF StoreInv, CrashSafe, Whole
  <1> QED
    BY <1>5, <1>6, <1>7, <1>8 DEF StoreInv

(* A file that is renamed keeps its text: a save on its own leaves its     *)
(* snapshot.                                                               *)
LEMMA SoloReplace ==
  ASSUME StoreInv, NEW t \in Threads, Replace(t), t \in solo
  PROVE  /\ temp # Absent /\ target' = SaveOf(copy[t]) /\ Whole(target')
         /\ target'.text = copy[t] /\ copy[t] \in Snapshots
  <1>1. pc[t] = "replace" /\ temp = SaveOf(copy[t]) /\ copy[t] \in Snapshots
    BY DEF Replace, StoreInv, OnItsOwn, AtWork, Saving
  <1>2. temp \in Files
    BY <1>1, FilesAreFiles
  <1>3. temp # Absent
    BY <1>2, RunStoreAssumption
  <1>4. target' = temp
    BY <1>3 DEF Replace
  <1> QED
    BY <1>1, <1>3, <1>4, RunStoreAssumption DEF Whole, SaveOf

(* Renaming. *)
LEMMA ReplaceStep ==
  ASSUME StoreInv, NEW t \in Threads, Replace(t)
  PROVE  StoreInv'
  <1>1. /\ pc[t] = "replace" /\ pc' = [pc EXCEPT ![t] = "idle"]
        /\ copy' = [copy EXCEPT ![t] = Absent]
        /\ solo' = solo \ {t} /\ sound' = (sound \/ t \in solo)
        /\ UNCHANGED <<up, run>>
        /\ saved' = IF temp = Absent THEN saved ELSE saved \cup {copy[t]}
    BY DEF Replace, Go, daemonVars
  <1>2. Saving(t) /\ ~Saving(t)' /\ copy[t] \in Snapshots /\ t \in Threads
    BY <1>1 DEF Saving, StoreInv, TypeOK, AtWork
  <1>3. \A o \in Threads : o # t => /\ Saving(o)' = Saving(o) /\ pc'[o] = pc[o]
                                    /\ copy'[o] = copy[o]
    BY <1>1 DEF Saving, StoreInv, TypeOK
  <1>4. /\ temp' \in Files \cup {Absent} /\ target' \in Files \cup {Absent}
        /\ open' \in [Threads -> {"none", "temp", "target", "gone"}]
        /\ \A o \in Threads : /\ open[o] = "none" => open'[o] = "none"
                              /\ open'[o] = "temp" => temp' \in Files
                              /\ open'[o] = "target" => target' \in Files
    <2>1. CASE temp = Absent
      BY <2>1, RunStoreAssumption DEF Replace, fileVars, StoreInv, TypeOK, OpenFiles
    <2>2. CASE temp # Absent
      <3>1. /\ target' = temp /\ temp' = Absent /\ temp \in Files
            /\ open' = [o \in Threads |->
                          CASE open[o] = "temp" -> "target"
                            [] open[o] = "target" -> "gone"
                            [] OTHER -> open[o]]
        BY <2>2 DEF Replace, StoreInv, TypeOK
      <3>2. \A o \in Threads : /\ open'[o] \in {"none", "temp", "target", "gone"}
                               /\ open'[o] # "temp"
                               /\ open[o] = "none" => open'[o] = "none"
        BY <3>1 DEF StoreInv, TypeOK
      <3> QED
        BY <3>1, <3>2
    <2> QED
      BY <2>1, <2>2
  <1>5. TypeOK'
    BY <1>1, <1>2, <1>4 DEF StoreInv, TypeOK
  <1>6. (AtWork /\ OpenFiles)'
    BY <1>1, <1>2, <1>3, <1>4 DEF StoreInv, TypeOK, AtWork, OpenFiles
  <1>7. (OnItsOwn /\ SoundAlone)'
    <2>1. \A o \in solo : o = t
      BY <1>2 DEF StoreInv, OnItsOwn
    <2>2. t \in solo => \A o \in Threads : Saving(o) => o = t
      BY DEF StoreInv, OnItsOwn
    <2> QED
      BY <1>1, <1>2, <1>3, <2>1, <2>2 DEF StoreInv, OnItsOwn, SoundAlone
  <1>8. CrashSafe'
    <2>1. CASE t \in solo
      BY <1>1, <2>1, SoloReplace DEF CrashSafe
    <2>2. CASE t \notin solo
      BY <1>1, <1>2, <2>2 DEF CrashSafe, StoreInv, SoundAlone
    <2> QED
      BY <2>1, <2>2
  <1> QED
    BY <1>5, <1>6, <1>7, <1>8 DEF StoreInv

(* A crash, and the start of the next daemon. *)
LEMMA CrashStep == StoreInv /\ (Crash \/ Restart) => StoreInv'
  <1>1. ASSUME StoreInv, Crash PROVE StoreInv'
    <2>1. TypeOK'
      BY <1>1 DEF Crash, StoreInv, TypeOK, fileVars
    <2>2. (AtWork /\ OpenFiles /\ OnItsOwn /\ SoundAlone)'
      BY <1>1 DEF Crash, AtWork, OpenFiles, OnItsOwn, SoundAlone, Saving
    <2>3. CrashSafe'
      BY <1>1 DEF Crash, StoreInv, CrashSafe, fileVars, Whole
    <2> QED
      BY <2>1, <2>2, <2>3 DEF StoreInv
  <1>2. ASSUME StoreInv, Restart PROVE StoreInv'
    <2>1. UNCHANGED <<pc, copy, open, temp, target, solo, saved, sound>> /\ ~up /\ up'
      BY <1>2 DEF Restart, fileVars
    <2>2. \A t \in Threads : pc[t] = "idle"
      BY <1>2, <2>1 DEF StoreInv, AtWork
    <2>3. run' \in Snapshots \cup {Absent}
      BY <1>2 DEF Restart, Restorable, Whole, StoreInv, TypeOK, Files
    <2>4. TypeOK'
      BY <1>2, <2>1, <2>3 DEF StoreInv, TypeOK
    <2>5. (AtWork /\ OpenFiles /\ OnItsOwn /\ SoundAlone)'
      BY <1>2, <2>1, <2>2 DEF StoreInv, AtWork, OpenFiles, OnItsOwn, SoundAlone, Saving
    <2>6. CrashSafe'
      BY <1>2, <2>1 DEF StoreInv, CrashSafe, Whole
    <2> QED
      BY <2>4, <2>5, <2>6 DEF StoreInv
  <1> QED
    BY <1>1, <1>2

-----------------------------------------------------------------------------
(* In every reachable state the files are as the threads believe. *)
LEMMA StoreInvariant == Spec => []StoreInv
  <1>1. StoreInv /\ [Next]_vars => StoreInv'
    <2> SUFFICES ASSUME StoreInv, [Next]_vars PROVE StoreInv'
      OBVIOUS
    <2>1. CASE UNCHANGED vars
      BY <2>1 DEF vars, StoreInv, TypeOK, AtWork, OpenFiles, OnItsOwn, SoundAlone, CrashSafe,
         Saving, Whole
    <2> QED
      BY <2>1, ChangeStep, SnapshotStep, OpenStep, WriteStep, WriteFailsStep, ReplaceStep,
         CrashStep DEF Next, Save
  <1> QED
    BY <1>1, StoreInit, PTL DEF Spec

(* Every variable keeps its type. *)
THEOREM StoreTypes == Spec => []TypeOK
  BY StoreInvariant, PTL DEF StoreInv

(* A daemon that is killed at any moment leaves a whole snapshot that was  *)
(* saved, as long as saves do not overlap.                                 *)
THEOREM CrashesLoseNothing == Spec => []CrashSafe
  BY StoreInvariant, PTL DEF StoreInv

(* A save on its own leaves exactly its snapshot, whatever earlier saves   *)
(* and crashes left behind.                                                *)
THEOREM SoloSavesLand == Spec => SoloSaveLands
  <1>1. ASSUME StoreInv, [Next]_vars, NEW t \in Threads,
               t \in solo, pc[t] = "replace", pc'[t] = "idle", up'
        PROVE  Whole(target') /\ target'.text = copy[t]
    <2>1. Replace(t)
      <3>1. ~Crash
        BY <1>1 DEF Crash
      <3>2. \A o \in Threads : o # t => ~(Change(o) \/ Save(o))
        BY <1>1 DEF StoreInv, TypeOK, Change, Save, Snapshot, Open, Write, WriteFails, Replace, Go
      <3>3. ~(Change(t) \/ Snapshot(t) \/ Open(t) \/ Write(t) \/ WriteFails(t))
        BY <1>1 DEF Change, Snapshot, Open, Write, WriteFails
      <3>4. ~Restart /\ ~UNCHANGED vars
        BY <1>1 DEF Restart, vars
      <3> QED
        BY <1>1, <3>1, <3>2, <3>3, <3>4 DEF Next, Save
    <2> QED
      BY <1>1, <2>1, SoloReplace
  <1>2. StoreInv /\ [Next]_vars =>
          [\A t \in Threads :
             t \in solo /\ pc[t] = "replace" /\ pc'[t] = "idle" /\ up' =>
               Whole(target') /\ target'.text = copy[t]]_vars
    BY <1>1
  <1> QED
    BY <1>2, StoreInvariant, PTL DEF Spec, SoloSaveLands
=============================================================================
