------------------------------ MODULE RunStore ------------------------------
(***************************************************************************)
(* How one run survives a restart of the daemon: services/run_store.py and *)
(* its callers in daemon/server.py.                                        *)
(*                                                                         *)
(* Every event and every change of a run makes the thread that caused it   *)
(* save a snapshot of the whole run: it reads the run, writes the file     *)
(* <run_id>.tmp and renames it to <run_id>.json.  No lock is held, and the *)
(* threads of one run share the temporary file.  A daemon that starts      *)
(* loads the snapshots and takes the runs that wait for the user back.     *)
(*                                                                         *)
(* A snapshot is the status of the run and the size of its text, which     *)
(* grows with every event that is recorded.                                *)
(***************************************************************************)
EXTENDS Naturals

CONSTANTS
  Threads,     \* threads of the daemon that save the run
  MaxSize,     \* bound: how many events the run may record
  Absent,      \* no run, no file
  Mixed        \* what is in a file that does not hold one whole snapshot

Resumable == {"verification_pending", "approval_required"}
Final == {"done", "error", "canceled"}
Statuses == {"queued", "running"} \cup Resumable \cup Final

(* Where the daemon takes a run from each status: the worker, the handlers *)
(* of cancel, verification and tool approval, and retry-stage, which takes *)
(* finished runs up again.  The worker and a canceller write without a     *)
(* look at what the other has written, so "canceled" is not the end.       *)
Moves ==
  [queued |-> {"running", "canceled"},
   running |-> Resumable \cup Final,
   verification_pending |-> {"approval_required"} \cup Final,
   approval_required |-> {"verification_pending"} \cup Final,
   done |-> Resumable \cup {"error", "canceled"},
   error |-> Resumable \cup {"done", "canceled"},
   canceled |-> {"running"} \cup Resumable \cup {"done", "error"}]

Snapshots == [status : Statuses, size : 1..MaxSize]

(* A file: its length, and the snapshot it holds if it holds a whole one.  *)
Files == [length : 0..MaxSize, text : Snapshots \cup {Mixed}]
Empty == [length |-> 0, text |-> Mixed]
Whole(file) == file # Absent /\ file.text # Mixed

(* load_snapshots skips what does not parse; _restore_persisted_runs takes *)
(* only the runs that wait for the user.                                   *)
Restorable(file) == Whole(file) /\ file.text.status \in Resumable

ASSUME RunStoreAssumption ==
  /\ MaxSize \in Nat \ {0}
  /\ Absent \notin Snapshots \cup Files
  /\ Mixed \notin Snapshots

VARIABLES
  up,          \* the daemon runs
  run,         \* the RunState in memory, or Absent
  pc, copy,    \* threads: step, the payload they save
  open,        \* threads: what became of the file they opened
  temp,        \* <run_id>.tmp
  target,      \* <run_id>.json
  \* history
  solo,        \* threads whose save has overlapped with no other so far
  saved,       \* snapshots whose save has renamed the file
  sound        \* the last save to complete was solo, and none overlapped since

vars == <<up, run, pc, copy, open, temp, target, solo, saved, sound>>
daemonVars == <<up, run>>
fileVars == <<temp, target>>

Init ==
  /\ up = TRUE
  /\ run = [status |-> "queued", size |-> 1]
  /\ pc = [t \in Threads |-> "idle"]
  /\ copy = [t \in Threads |-> Absent]
  /\ open = [t \in Threads |-> "none"]
  /\ temp = Absent
  /\ target = Absent
  /\ solo = {}
  /\ saved = {}
  /\ sound = TRUE

Saving(t) == pc[t] \in {"open", "write", "replace"}
Go(t, step) == pc' = [pc EXCEPT ![t] = step]

(* A handler changes the run's status (and then records what it did), or a *)
(* thread records an event.                                                *)
Change(t) ==
  /\ up /\ run # Absent
  /\ pc[t] = "idle"
  /\ run.size < MaxSize
  /\ \E s \in Moves[run.status] \cup {run.status} :
       run' = [status |-> s, size |-> run.size + 1]
  /\ Go(t, "changed")
  /\ UNCHANGED <<up, copy, open, fileVars, solo, saved, sound>>

(* HarnessRunSnapshot.from_daemon_run copies the run as it is now. *)
Snapshot(t) ==
  /\ pc[t] = "changed"
  /\ copy' = [copy EXCEPT ![t] = run]
  /\ Go(t, "open")
  /\ LET others == {o \in Threads : Saving(o)} IN
       IF others = {}
         THEN solo' = {t} /\ UNCHANGED sound
         ELSE solo' = {} /\ sound' = FALSE
  /\ UNCHANGED <<daemonVars, open, fileVars, saved>>

(* Mutant of Open: a temporary file that was left behind is not truncated. *)
OpenKeepsText(t) ==
  /\ pc[t] = "open"
  /\ temp' = IF temp = Absent THEN Empty ELSE temp
  /\ open' = [open EXCEPT ![t] = "temp"]
  /\ Go(t, "write")
  /\ UNCHANGED <<daemonVars, copy, target, solo, saved, sound>>

(* write_text opens the file of that name and truncates it ... *)
Open(t) ==
  /\ pc[t] = "open"
  /\ temp' = Empty
  /\ open' = [open EXCEPT ![t] = "temp"]
  /\ Go(t, "write")
  /\ UNCHANGED <<daemonVars, copy, target, solo, saved, sound>>

(* ... and writes from its start: what is longer sticks out at the end. *)
Over(file, snapshot) ==
  IF snapshot.size >= file.length
    THEN [length |-> snapshot.size, text |-> snapshot]
    ELSE [length |-> file.length, text |-> Mixed]

(* The file is the one that was opened, whatever its name is by now. *)
Store(t, Text(_)) ==
  /\ temp' = IF open[t] = "temp" THEN Text(temp) ELSE temp
  /\ target' = IF open[t] = "target" THEN Text(target) ELSE target

Write(t) ==
  /\ pc[t] = "write"
  /\ LET Text(file) == Over(file, copy[t]) IN Store(t, Text)
  /\ open' = [open EXCEPT ![t] = "none"]
  /\ Go(t, "replace")
  /\ UNCHANGED <<daemonVars, copy, solo, saved, sound>>

Cut(file) == [length |-> file.length, text |-> Mixed]

(* Mutant of WriteFails: the error is ignored and the file renamed. *)
WriteFailureIgnored(t) ==
  /\ pc[t] = "write"
  /\ Store(t, Cut)
  /\ open' = [open EXCEPT ![t] = "none"]
  /\ Go(t, "replace")
  /\ UNCHANGED <<daemonVars, copy, solo, saved, sound>>

(* The write fails half-way.  _persist_run_state swallows the error. *)
WriteFails(t) ==
  /\ pc[t] = "write"
  /\ Store(t, Cut)
  /\ open' = [open EXCEPT ![t] = "none"]
  /\ Go(t, "idle")
  /\ copy' = [copy EXCEPT ![t] = Absent]
  /\ solo' = solo \ {t}
  /\ UNCHANGED <<daemonVars, saved, sound>>

(* os.replace.  A thread that still writes to the renamed file goes on     *)
(* under its new name; if another thread has renamed the file already, the *)
(* error is swallowed as well.                                             *)
Replace(t) ==
  /\ pc[t] = "replace"
  /\ IF temp = Absent
       THEN UNCHANGED <<fileVars, open>>
       ELSE /\ target' = temp
            /\ temp' = Absent
            /\ open' = [o \in Threads |->
                          CASE open[o] = "temp" -> "target"
                            [] open[o] = "target" -> "gone"
                            [] OTHER -> open[o]]
  /\ Go(t, "idle")
  /\ saved' = IF temp = Absent THEN saved ELSE saved \cup {copy[t]}
  /\ solo' = solo \ {t}
  /\ copy' = [copy EXCEPT ![t] = Absent]
  /\ sound' = (sound \/ t \in solo)
  /\ UNCHANGED daemonVars

(* The daemon is killed: files stay as they are. *)
Crash ==
  /\ up
  /\ up' = FALSE
  /\ run' = Absent
  /\ pc' = [t \in Threads |-> "idle"]
  /\ copy' = [t \in Threads |-> Absent]
  /\ open' = [t \in Threads |-> "none"]
  /\ solo' = {}
  /\ UNCHANGED <<fileVars, saved, sound>>

(* Mutant of Restart: what does not parse is restored as well. *)
RestartUnparsed ==
  /\ ~up
  /\ up' = TRUE
  /\ run' = IF target = Absent THEN Absent ELSE target.text
  /\ UNCHANGED <<pc, copy, open, fileVars, solo, saved, sound>>

(* A daemon starts: RunManager() reads the snapshots. *)
Restart ==
  /\ ~up
  /\ up' = TRUE
  /\ run' = IF Restorable(target) THEN target.text ELSE Absent
  /\ UNCHANGED <<pc, copy, open, fileVars, solo, saved, sound>>

Save(t) == Snapshot(t) \/ Open(t) \/ Write(t) \/ WriteFails(t) \/ Replace(t)

Next == (\E t \in Threads : Change(t) \/ Save(t)) \/ Crash \/ Restart

Spec == Init /\ [][Next]_vars

-----------------------------------------------------------------------------
(* The types of the variables of this module. *)
TypeOK ==
  /\ up \in BOOLEAN
  /\ run \in Snapshots \cup {Absent}
  /\ pc \in [Threads -> {"idle", "changed", "open", "write", "replace"}]
  /\ copy \in [Threads -> Snapshots \cup {Absent}]
  /\ open \in [Threads -> {"none", "temp", "target", "gone"}]
  /\ temp \in Files \cup {Absent}
  /\ target \in Files \cup {Absent}
  /\ solo \subseteq Threads
  /\ saved \subseteq Snapshots
  /\ sound \in BOOLEAN

(* A save that overlaps with no other one leaves exactly its snapshot,     *)
(* whatever earlier saves, failures and crashes left in the two files.     *)
SoloSaveLands ==
  [][\A t \in Threads :
       t \in solo /\ pc[t] = "replace" /\ pc'[t] = "idle" /\ up' =>
         Whole(target') /\ target'.text = copy[t]]_vars

(* As long as saves do not overlap, a crash at any moment leaves a whole   *)
(* snapshot that was saved: a run that waits for the user is not lost.     *)
CrashSafe ==
  sound /\ target # Absent => Whole(target) /\ target.text \in saved
=============================================================================
