---------------------------- MODULE RunLifecycle ----------------------------
(***************************************************************************)
(* The life of a run in daemon/server.py.                                  *)
(*                                                                         *)
(* One HTTP thread per POST /runs creates a RunState and hands it to the   *)
(* RunScheduler; worker threads take runs from the scheduler's queue,      *)
(* start the CLI subprocess, wait for it and classify the outcome; HTTP    *)
(* threads of POST /cancel and the main thread's shutdown drain cancel     *)
(* runs; a background thread evicts finished ones.  No lock protects a     *)
(* RunState: its fields are written by all of these threads, and an action *)
(* here is one step of one thread between two accesses that another thread *)
(* can see.                                                                *)
(***************************************************************************)
EXTENDS Naturals, Sequences, FiniteSets

CONSTANTS
  Runs,         \* the runs clients may submit (a run id is never reused)
  Workers,      \* the threads RunScheduler.start creates
  Clients,      \* HTTP threads that handle POST /cancel
  Main,         \* the main thread, which drains the runs at shutdown
  NoRun,        \* "no job in hand"
  MaxQueue,     \* RunScheduler.max_queue
  RunTimeout,   \* whether RunScheduler.run_timeout_sec is nonzero
  BadArgs,      \* runs whose request may make _build_cli_cmd raise
  Deaf,         \* runs whose CLI may hang before it has read a log that is
                \* longer than a pipe holds
  Leaky,        \* runs whose CLI may leave a process behind that holds its
                \* output open
  Outcomes,     \* what the CLI may report: subset of CliOutcomes
  Faults,       \* which steps of a worker may raise: subset of WorkerFaults
  MayStop       \* whether the operator may stop the daemon

CliOutcomes == {"done", "error", "verification_pending", "approval_required"}

WorkerFaults ==
  {"spawn",     \* Popen raises
   "pipe",      \* the write to the standard input of a dead CLI raises
   "thread",    \* a thread that reads the CLI's output cannot be started
   "report"}    \* the CLI's report cannot be read, or not in full

Callers == Clients \cup {Main}

ASSUME RunLifecycleAssumption ==
  /\ NoRun \notin Runs
  /\ IsFiniteSet(Workers)
  /\ Main \notin Clients
  /\ MaxQueue \in Nat \ {0}
  /\ RunTimeout \in BOOLEAN
  /\ MayStop \in BOOLEAN
  /\ BadArgs \subseteq Runs
  /\ Deaf \subseteq Runs
  /\ Leaky \subseteq Runs
  /\ Outcomes \subseteq CliOutcomes
  /\ Faults \subseteq WorkerFaults

VARIABLES
  \* RunState and the process behind it
  status,       \* RunState.transport_status
  cancelReq,    \* RunState.cancel_requested
  proc,         \* RunState.process and the state of that process
  result,       \* RunState.result.status
  registered,   \* RunManager._runs
  \* RunScheduler
  jobs,         \* _jobs
  pending,      \* _pending
  active,       \* _active
  \* where each thread is
  spc,          \* the POST /runs handler of each run
  wpc, wjob, wfinal,   \* workers: step, job, local variable `status`
  cpc, crun,    \* callers of _cancel_run: step, run
  \* shutdown
  stopping,     \* _SHUTTING_DOWN
  mpc, todo     \* the main thread: step, runs _drain_active_runs has left

runVars == <<status, cancelReq, proc, result, registered>>
schedVars == <<jobs, pending, active>>
workerVars == <<wpc, wjob, wfinal>>
callerVars == <<cpc, crun>>
mainVars == <<stopping, mpc, todo>>
vars == <<runVars, schedVars, spc, workerVars, callerVars, mainVars>>

Terminal == {"done", "error", "canceled"}       \* _TERMINAL_RUN_STATUSES
Settled == Terminal \cup {"verification_pending", "approval_required"}
Statuses == {"queued", "running"} \cup Settled
Busy == {"queued", "running"}

Init ==
  /\ status = [r \in Runs |-> "queued"]
  /\ cancelReq = [r \in Runs |-> FALSE]
  /\ proc = [r \in Runs |-> "none"]
  /\ result = [r \in Runs |-> "none"]
  /\ registered = {}
  /\ jobs = <<>>
  /\ pending = 0
  /\ active = 0
  /\ spc = [r \in Runs |-> "new"]
  /\ wpc = [w \in Workers |-> "idle"]
  /\ wjob = [w \in Workers |-> NoRun]
  /\ wfinal = [w \in Workers |-> "none"]
  /\ cpc = [c \in Callers |-> "idle"]
  /\ crun = [c \in Callers |-> NoRun]
  /\ stopping = FALSE
  /\ mpc = "serving"
  /\ todo = {}

(***************************************************************************)
(* POST /runs: _start_run, RunManager.create_run, RunScheduler.submit      *)
(***************************************************************************)
Admit(r) ==
  /\ spc[r] = "new"
  /\ ~stopping
  /\ spc' = [spc EXCEPT ![r] = "admitted"]
  /\ UNCHANGED <<runVars, schedVars, workerVars, callerVars, mainVars>>

Create(r) ==
  /\ spc[r] = "admitted"
  /\ registered' = registered \cup {r}
  /\ spc' = [spc EXCEPT ![r] = "created"]
  /\ UNCHANGED <<status, cancelReq, proc, result>>
  /\ UNCHANGED <<schedVars, workerVars, callerVars, mainVars>>

(* Mutant of Reserve: the limit is off by one. *)
ReserveOneMore(r) ==
  /\ spc[r] = "created"
  /\ pending <= MaxQueue
  /\ pending' = pending + 1
  /\ spc' = [spc EXCEPT ![r] = "reserved"]
  /\ UNCHANGED <<runVars, jobs, active, workerVars, callerVars, mainVars>>

(* The check of the limit and the count are one critical section ... *)
Reserve(r) ==
  /\ spc[r] = "created"
  /\ pending < MaxQueue
  /\ pending' = pending + 1
  /\ spc' = [spc EXCEPT ![r] = "reserved"]
  /\ UNCHANGED <<runVars, jobs, active, workerVars, callerVars, mainVars>>

(* ... a full queue answers 429 and forgets the run ... *)
Reject(r) ==
  /\ spc[r] = "created"
  /\ pending >= MaxQueue
  /\ registered' = registered \ {r}
  /\ spc' = [spc EXCEPT ![r] = "rejected"]
  /\ UNCHANGED <<status, cancelReq, proc, result>>
  /\ UNCHANGED <<schedVars, workerVars, callerVars, mainVars>>

(* ... and the job is put into the queue after the lock is released. *)
Enqueue(r) ==
  /\ spc[r] = "reserved"
  /\ jobs' = Append(jobs, r)
  /\ spc' = [spc EXCEPT ![r] = "accepted"]
  /\ UNCHANGED <<runVars, pending, active, workerVars, callerVars, mainVars>>

Submit(r) == Admit(r) \/ Create(r) \/ Reserve(r) \/ Reject(r) \/ Enqueue(r)

(***************************************************************************)
(* A worker thread: RunScheduler._loop around _run_worker                  *)
(***************************************************************************)
MoveTo(w, step) == wpc' = [wpc EXCEPT ![w] = step]

(* Mutant of Take: the job stays in the queue. *)
TakePeeks(w) ==
  /\ wpc[w] = "idle"
  /\ jobs # <<>>
  /\ wjob' = [wjob EXCEPT ![w] = Head(jobs)]
  /\ MoveTo(w, "taken")
  /\ UNCHANGED <<runVars, schedVars, spc, wfinal, callerVars, mainVars>>

(* jobs.get() hands the oldest job to one worker. *)
Take(w) ==
  /\ wpc[w] = "idle"
  /\ jobs # <<>>
  /\ wjob' = [wjob EXCEPT ![w] = Head(jobs)]
  /\ jobs' = Tail(jobs)
  /\ MoveTo(w, "taken")
  /\ UNCHANGED <<runVars, pending, active, spc, wfinal, callerVars, mainVars>>

Dequeue(w) ==
  /\ wpc[w] = "taken"
  /\ pending' = IF pending > 0 THEN pending - 1 ELSE 0
  /\ MoveTo(w, "check")
  /\ UNCHANGED <<runVars, jobs, active, spc, wjob, wfinal, callerVars, mainVars>>

(* A run canceled while it waited is dropped ... *)
Skip(w) ==
  /\ wpc[w] = "check"
  /\ status[wjob[w]] = "canceled"
  /\ wjob' = [wjob EXCEPT ![w] = NoRun]
  /\ MoveTo(w, "idle")
  /\ UNCHANGED <<runVars, schedVars, spc, wfinal, callerVars, mainVars>>

(* ... any other run makes the worker active. *)
Activate(w) ==
  /\ wpc[w] = "check"
  /\ status[wjob[w]] # "canceled"
  /\ active' = active + 1
  /\ MoveTo(w, "begin")
  /\ UNCHANGED <<runVars, jobs, pending, spc, wjob, wfinal, callerVars, mainVars>>

(* _run_worker looks at the status once more before it takes it over. *)
Begin(w) ==
  /\ wpc[w] = "begin"
  /\ MoveTo(w, IF status[wjob[w]] = "canceled" THEN "finish" ELSE "start")
  /\ UNCHANGED <<runVars, schedVars, spc, wjob, wfinal, callerVars, mainVars>>

(* The write does not look: a cancel since Begin is overwritten here. *)
SetRunning(w) ==
  /\ wpc[w] = "start"
  /\ status' = [status EXCEPT ![wjob[w]] = "running"]
  /\ MoveTo(w, "spawn")
  /\ UNCHANGED <<cancelReq, proc, result, registered>>
  /\ UNCHANGED <<schedVars, spc, wjob, wfinal, callerVars, mainVars>>

(* Mutant of Break: the worker ends without the finally clause. *)
BreakUncounted(w) ==
  /\ wpc[w] = "spawn"
  /\ wjob[w] \in BadArgs
  /\ wjob' = [wjob EXCEPT ![w] = NoRun]
  /\ MoveTo(w, "dead")
  /\ UNCHANGED <<runVars, schedVars, spc, wfinal, callerVars, mainVars>>

(* _build_cli_cmd is called before the try: what it raises leaves _loop    *)
(* through the finally, and the thread ends.                               *)
Break(w) ==
  /\ wpc[w] = "spawn"
  /\ wjob[w] \in BadArgs
  /\ active' = IF active > 0 THEN active - 1 ELSE 0
  /\ wjob' = [wjob EXCEPT ![w] = NoRun]
  /\ MoveTo(w, "dead")
  /\ UNCHANGED <<runVars, jobs, pending, spc, wfinal, callerVars, mainVars>>

(* Popen, and run.process = p *)
Spawn(w) ==
  /\ wpc[w] = "spawn"
  /\ proc' = [proc EXCEPT ![wjob[w]] = "alive"]
  /\ MoveTo(w, "spawned")
  /\ UNCHANGED <<status, cancelReq, result, registered>>
  /\ UNCHANGED <<schedVars, spc, wjob, wfinal, callerVars, mainVars>>

Terminated(p) == IF p = "alive" THEN "signalled" ELSE p

(* Mutant of PostSpawn: no look at cancel_requested after the start. *)
PostSpawnBlind(w) ==
  /\ wpc[w] = "spawned"
  /\ MoveTo(w, "feed")
  /\ UNCHANGED <<runVars, schedVars, spc, wjob, wfinal, callerVars, mainVars>>

(* A cancel that found no process to terminate left its request behind. *)
PostSpawn(w) ==
  /\ wpc[w] = "spawned"
  /\ IF cancelReq[wjob[w]]
       THEN /\ proc' = [proc EXCEPT ![wjob[w]] = Terminated(@)]
            /\ status' = [status EXCEPT ![wjob[w]] = "canceled"]
       ELSE UNCHANGED <<proc, status>>
  /\ MoveTo(w, "feed")
  /\ UNCHANGED <<cancelReq, result, registered>>
  /\ UNCHANGED <<schedVars, spc, wjob, wfinal, callerVars, mainVars>>

(* Two steps have no timeout.  The crash log is written to the CLI, which  *)
(* blocks for as long as the CLI lives and does not read; and the readers  *)
(* are joined, which blocks while a process that the CLI left behind holds *)
(* its output open.                                                        *)
Stalled(w) ==
  \/ wpc[w] = "feed" /\ wjob[w] \in Deaf /\ proc[wjob[w]] \in {"alive", "signalled"}
  \/ wpc[w] = "collect" /\ wjob[w] \in Leaky

(* The log is written, and the readers are started. *)
Feed(w) ==
  /\ wpc[w] = "feed"
  /\ MoveTo(w, "wait")
  /\ UNCHANGED <<runVars, schedVars, spc, wjob, wfinal, callerVars, mainVars>>

(* _wait_cli_process: the CLI exits in time ... *)
Waited(w) ==
  /\ wpc[w] = "wait"
  /\ proc[wjob[w]] = "exited"
  /\ MoveTo(w, "collect")
  /\ UNCHANGED <<runVars, schedVars, spc, wjob, wfinal, callerVars, mainVars>>

(* Mutant of Expire: the run is marked and the worker waits on. *)
ExpireMarksOnly(w) ==
  /\ wpc[w] = "wait"
  /\ RunTimeout
  /\ proc[wjob[w]] # "exited"
  /\ status' = [status EXCEPT ![wjob[w]] = "canceled"]
  /\ UNCHANGED <<cancelReq, proc, result, registered>>
  /\ UNCHANGED <<schedVars, spc, workerVars, callerVars, mainVars>>

(* ... or the run is declared canceled ... *)
Expire(w) ==
  /\ wpc[w] = "wait"
  /\ RunTimeout
  /\ proc[wjob[w]] # "exited"
  /\ status' = [status EXCEPT ![wjob[w]] = "canceled"]
  /\ MoveTo(w, "expired")
  /\ UNCHANGED <<cancelReq, proc, result, registered>>
  /\ UNCHANGED <<schedVars, spc, wjob, wfinal, callerVars, mainVars>>

(* Mutant of ExpireKill: a CLI that ignores the signal is not killed. *)
ExpireOnlySignals(w) ==
  /\ wpc[w] = "expired"
  /\ proc' = [proc EXCEPT ![wjob[w]] = Terminated(@)]
  /\ MoveTo(w, "collect")
  /\ UNCHANGED <<status, cancelReq, result, registered>>
  /\ UNCHANGED <<schedVars, spc, wjob, wfinal, callerVars, mainVars>>

(* ... and then the CLI is terminated and, if that is not enough, killed. *)
ExpireKill(w) ==
  /\ wpc[w] = "expired"
  /\ proc' = [proc EXCEPT ![wjob[w]] = "exited"]
  /\ MoveTo(w, "collect")
  /\ UNCHANGED <<status, cancelReq, result, registered>>
  /\ UNCHANGED <<schedVars, spc, wjob, wfinal, callerVars, mainVars>>

(* Mutant of Collect: what the CLI reports goes before a cancel. *)
CollectBelievesCli(w) ==
  /\ wpc[w] = "collect"
  /\ \E outcome \in Outcomes : wfinal' = [wfinal EXCEPT ![w] = outcome]
  /\ MoveTo(w, "classified")
  /\ UNCHANGED <<runVars, schedVars, spc, wjob, callerVars, mainVars>>

(* After the join of the readers, the local variable `status`: a cancel    *)
(* goes before what the CLI reports.                                       *)
Collect(w) ==
  /\ wpc[w] = "collect"
  /\ \/ /\ cancelReq[wjob[w]] \/ status[wjob[w]] = "canceled"
        /\ wfinal' = [wfinal EXCEPT ![w] = "canceled"]
     \/ /\ ~cancelReq[wjob[w]] /\ status[wjob[w]] # "canceled"
        /\ \E outcome \in Outcomes : wfinal' = [wfinal EXCEPT ![w] = outcome]
  /\ MoveTo(w, "classified")
  /\ UNCHANGED <<runVars, schedVars, spc, wjob, callerVars, mainVars>>

SetFinal(w) ==
  /\ wpc[w] = "classified"
  /\ status' = [status EXCEPT ![wjob[w]] = wfinal[w]]
  /\ MoveTo(w, "publish")
  /\ UNCHANGED <<cancelReq, proc, result, registered>>
  /\ UNCHANGED <<schedVars, spc, wjob, wfinal, callerVars, mainVars>>

(* The result takes the status as it is now, not the local variable. *)
Publish(w) ==
  /\ wpc[w] = "publish"
  /\ result' = [result EXCEPT ![wjob[w]] = status[wjob[w]]]
  /\ MoveTo(w, "published")
  /\ UNCHANGED <<status, cancelReq, proc, registered>>
  /\ UNCHANGED <<schedVars, spc, wjob, wfinal, callerVars, mainVars>>

(* What waits for the user is read off the report and noted, and the run   *)
(* is saved.                                                               *)
Note(w) ==
  /\ wpc[w] = "published"
  /\ MoveTo(w, "finish")
  /\ UNCHANGED <<runVars, schedVars, spc, wjob, wfinal, callerVars, mainVars>>

(* What the body of the try raises: also when the status is set, or the    *)
(* result published.                                                       *)
Raises(w) ==
  \/ wpc[w] = "spawn" /\ "spawn" \in Faults
  \/ wpc[w] = "feed" /\ proc[wjob[w]] = "exited" /\ "pipe" \in Faults
  \/ wpc[w] = "feed" /\ "thread" \in Faults
  \/ wpc[w] \in {"collect", "publish", "published"} /\ "report" \in Faults

(* The except clause: the process, if there is one, is left as it is. *)
Fail(w) ==
  /\ Raises(w)
  /\ status' = [status EXCEPT ![wjob[w]] = "error"]
  /\ MoveTo(w, "finish")
  /\ UNCHANGED <<cancelReq, proc, result, registered>>
  /\ UNCHANGED <<schedVars, spc, wjob, wfinal, callerVars, mainVars>>

(* The finally clauses of _run_worker and _loop. *)
Finish(w) ==
  /\ wpc[w] = "finish"
  /\ active' = IF active > 0 THEN active - 1 ELSE 0
  /\ wjob' = [wjob EXCEPT ![w] = NoRun]
  /\ wfinal' = [wfinal EXCEPT ![w] = "none"]
  /\ MoveTo(w, "idle")
  /\ UNCHANGED <<runVars, jobs, pending, spc, callerVars, mainVars>>

Work(w) ==
  \/ Take(w) \/ Dequeue(w) \/ Skip(w) \/ Activate(w) \/ Begin(w)
  \/ SetRunning(w) \/ Break(w) \/ Spawn(w) \/ PostSpawn(w) \/ Feed(w)
  \/ Waited(w) \/ ExpireKill(w) \/ Collect(w) \/ SetFinal(w) \/ Publish(w)
  \/ Note(w) \/ Fail(w) \/ Finish(w)

(***************************************************************************)
(* _cancel_run, called by HTTP threads and by the shutdown drain           *)
(***************************************************************************)
Go(c, step) == cpc' = [cpc EXCEPT ![c] = step]

(* Back to the caller of _cancel_run. *)
Return(c) == Go(c, "idle") /\ crun' = [crun EXCEPT ![c] = NoRun]

(* RUNS.get(run_id): only a registered run is found. *)
CancelCall(c) ==
  /\ cpc[c] = "idle"
  /\ \E r \in registered : crun' = [crun EXCEPT ![c] = r]
  /\ Go(c, "request")
  /\ UNCHANGED <<runVars, schedVars, spc, workerVars, mainVars>>

CancelRequest(c) ==
  /\ cpc[c] = "request"
  /\ cancelReq' = [cancelReq EXCEPT ![crun[c]] = TRUE]
  /\ Go(c, "look")
  /\ UNCHANGED <<status, proc, result, registered>>
  /\ UNCHANGED <<schedVars, spc, workerVars, crun, mainVars>>

(* The status decides: in the queue, running, or nothing to do. *)
CancelLook(c) ==
  /\ cpc[c] = "look"
  /\ \/ status[crun[c]] = "queued" /\ Go(c, "inplace") /\ UNCHANGED crun
     \/ status[crun[c]] = "running" /\ Go(c, "process") /\ UNCHANGED crun
     \/ status[crun[c]] \notin Busy /\ Return(c)
  /\ UNCHANGED <<runVars, schedVars, spc, workerVars, mainVars>>

CancelInPlace(c) ==
  /\ cpc[c] = "inplace"
  /\ status' = [status EXCEPT ![crun[c]] = "canceled"]
  /\ Go(c, "answer")
  /\ UNCHANGED <<cancelReq, proc, result, registered>>
  /\ UNCHANGED <<schedVars, spc, workerVars, crun, mainVars>>

CancelAnswer(c) ==
  /\ cpc[c] = "answer"
  /\ result' = [result EXCEPT ![crun[c]] = "canceled"]
  /\ Return(c)
  /\ UNCHANGED <<status, cancelReq, proc, registered>>
  /\ UNCHANGED <<schedVars, spc, workerVars, mainVars>>

(* Without a process the request flag is all that is left. *)
CancelProcess(c) ==
  /\ cpc[c] = "process"
  /\ IF proc[crun[c]] = "none"
       THEN Return(c) /\ UNCHANGED proc
       ELSE /\ proc' = [proc EXCEPT ![crun[c]] = Terminated(@)]
            /\ Go(c, "kill")
            /\ UNCHANGED crun
  /\ UNCHANGED <<status, cancelReq, result, registered>>
  /\ UNCHANGED <<schedVars, spc, workerVars, mainVars>>

(* A CLI that is still there 0.2 seconds later is killed ... *)
CancelKill(c) ==
  /\ cpc[c] = "kill"
  /\ proc' = [proc EXCEPT ![crun[c]] = "exited"]
  /\ Go(c, "mark")
  /\ UNCHANGED <<status, cancelReq, result, registered>>
  /\ UNCHANGED <<schedVars, spc, workerVars, crun, mainVars>>

(* Mutant of CancelMark: it publishes a result as the queued case does. *)
CancelMarkPublishes(c) ==
  /\ cpc[c] = "mark"
  /\ status' = [status EXCEPT ![crun[c]] = "canceled"]
  /\ result' = [result EXCEPT ![crun[c]] = "canceled"]
  /\ Return(c)
  /\ UNCHANGED <<cancelReq, proc, registered>>
  /\ UNCHANGED <<schedVars, spc, workerVars, mainVars>>

(* ... and the run is canceled, whatever has become of it meanwhile. *)
CancelMark(c) ==
  /\ cpc[c] = "mark"
  /\ status' = [status EXCEPT ![crun[c]] = "canceled"]
  /\ Return(c)
  /\ UNCHANGED <<cancelReq, proc, result, registered>>
  /\ UNCHANGED <<schedVars, spc, workerVars, mainVars>>

Cancel(c) ==
  \/ CancelRequest(c) \/ CancelLook(c) \/ CancelInPlace(c) \/ CancelAnswer(c)
  \/ CancelProcess(c) \/ CancelKill(c) \/ CancelMark(c)

(***************************************************************************)
(* The environment: CLI processes and the eviction thread                  *)
(***************************************************************************)
CliExit(r) ==
  /\ proc[r] \in {"alive", "signalled"}
  /\ proc' = [proc EXCEPT ![r] = "exited"]
  /\ UNCHANGED <<status, cancelReq, result, registered>>
  /\ UNCHANGED <<schedVars, spc, workerVars, callerVars, mainVars>>

(* evict_finished_runs: any time after the run finished, for the retention *)
(* time is a setting.                                                      *)
Evict(r) ==
  /\ r \in registered
  /\ status[r] \in Terminal
  /\ registered' = registered \ {r}
  /\ UNCHANGED <<status, cancelReq, proc, result>>
  /\ UNCHANGED <<schedVars, spc, workerVars, callerVars, mainVars>>

(***************************************************************************)
(* Shutdown: the signal handler, then the end of main                      *)
(***************************************************************************)
SigTerm ==
  /\ mpc = "serving"
  /\ MayStop
  /\ stopping' = TRUE
  /\ mpc' = "stopped"
  /\ UNCHANGED <<runVars, schedVars, spc, workerVars, callerVars, todo>>

(* _drain_active_runs works on a copy of the registry ... *)
DrainList ==
  /\ mpc = "stopped"
  /\ todo' = registered
  /\ mpc' = "drain"
  /\ UNCHANGED <<runVars, schedVars, spc, workerVars, callerVars, stopping>>

(* ... cancels what is queued or running on it, one run after another ... *)
DrainNext ==
  /\ mpc = "drain"
  /\ cpc[Main] = "idle"
  /\ \E r \in todo :
       /\ todo' = todo \ {r}
       /\ IF status[r] \in Busy
            THEN Go(Main, "request") /\ crun' = [crun EXCEPT ![Main] = r]
            ELSE UNCHANGED callerVars
  /\ UNCHANGED <<runVars, schedVars, spc, workerVars, stopping, mpc>>

DrainDone ==
  /\ mpc = "drain"
  /\ cpc[Main] = "idle"
  /\ todo = {}
  /\ mpc' = "await"
  /\ UNCHANGED <<runVars, schedVars, spc, workerVars, callerVars, stopping, todo>>

(* ... and then waits until no run is queued or running ... *)
CleanExit ==
  /\ mpc = "await"
  /\ \A r \in registered : status[r] \notin Busy
  /\ mpc' = "exited"
  /\ UNCHANGED <<runVars, schedVars, spc, workerVars, callerVars, stopping, todo>>

(* ... or the time is up.  The workers are daemon threads: they end with   *)
(* the process, wherever they are.                                         *)
DeadlineExit ==
  /\ mpc = "await"
  /\ mpc' = "abandoned"
  /\ UNCHANGED <<runVars, schedVars, spc, workerVars, callerVars, stopping, todo>>

Shutdown == SigTerm \/ DrainList \/ DrainNext \/ DrainDone \/ CleanExit \/ DeadlineExit

Ended == mpc \in {"exited", "abandoned"}

(* After the daemon has ended only the CLI processes go on. *)
Next ==
  \/ /\ ~Ended
     /\ \/ \E r \in Runs : Submit(r) \/ Evict(r)
        \/ \E w \in Workers : Work(w) \/ Expire(w)
        \/ \E c \in Clients : CancelCall(c)
        \/ \E c \in Callers : Cancel(c)
        \/ Shutdown
  \/ \E r \in Runs : CliExit(r)

Spec == Init /\ [][Next]_vars

(***************************************************************************)
(* Fairness: the threads are scheduled, and a process that was signalled   *)
(* exits.  A CLI that is left alone need never exit or read what its       *)
(* worker writes to it, no timeout need expire, no client need submit or   *)
(* cancel, and no operator need stop the daemon.                           *)
(***************************************************************************)
Fairness ==
  /\ \A r \in Runs : WF_vars(proc[r] = "signalled" /\ CliExit(r))
  /\ \A r \in Runs : WF_vars(~Ended /\ spc[r] # "new" /\ Submit(r))
  /\ \A w \in Workers : WF_vars(~Ended /\ ~Stalled(w) /\ Work(w))
  /\ \A c \in Callers : WF_vars(~Ended /\ Cancel(c))
  /\ WF_vars(~Ended /\ mpc # "serving" /\ Shutdown)

FairSpec == Spec /\ Fairness

-----------------------------------------------------------------------------
SubmitSteps == {"new", "admitted", "created", "reserved", "rejected", "accepted"}
WorkerSteps ==
  {"idle", "taken", "check", "begin", "start", "spawn", "spawned", "feed", "wait",
   "expired", "collect", "classified", "publish", "published", "finish", "dead"}
CancelSteps ==
  {"idle", "request", "look", "inplace", "answer", "process", "kill", "mark"}

(* The types of the variables of this module. *)
TypeOK ==
  /\ status \in [Runs -> Statuses]
  /\ cancelReq \in [Runs -> BOOLEAN]
  /\ proc \in [Runs -> {"none", "alive", "signalled", "exited"}]
  /\ result \in [Runs -> {"none"} \cup Statuses]
  /\ registered \subseteq Runs
  /\ jobs \in Seq(Runs)
  /\ pending \in Nat
  /\ active \in Nat
  /\ spc \in [Runs -> SubmitSteps]
  /\ wpc \in [Workers -> WorkerSteps]
  /\ wjob \in [Workers -> Runs \cup {NoRun}]
  /\ wfinal \in [Workers -> CliOutcomes \cup {"none", "canceled"}]
  /\ cpc \in [Callers -> CancelSteps]
  /\ crun \in [Callers -> Runs \cup {NoRun}]
  /\ stopping \in BOOLEAN
  /\ mpc \in {"serving", "stopped", "drain", "await", "exited", "abandoned"}
  /\ todo \subseteq Runs

-----------------------------------------------------------------------------
(* Where the pool's runs are. *)
Queued == {jobs[i] : i \in DOMAIN jobs}
InHand(w) == wpc[w] \notin {"idle", "taken", "dead"}
ActiveWorkers == {w \in Workers : wpc[w] \notin {"idle", "taken", "check", "dead"}}

Waiting ==
  {r \in Runs : \/ spc[r] = "reserved"
               \/ r \in Queued
               \/ \E w \in Workers : wpc[w] = "taken" /\ wjob[w] = r}
Working == {r \in Runs : \E w \in Workers : InHand(w) /\ wjob[w] = r}
Gone == {r \in Runs : spc[r] = "accepted"} \ (Waiting \cup Working)
Dead == {w \in Workers : wpc[w] = "dead"}

(* The counters of RunScheduler, which decide on 429 and are shown by      *)
(* /health, are exact although submit counts before it enqueues, a worker  *)
(* uncounts after it dequeues, and both clamp at zero.                     *)
CountersExact ==
  /\ pending = Cardinality(Waiting)
  /\ active = Cardinality(ActiveWorkers)

(* No run is in two places of the pool, and a run that was answered 429 is *)
(* in none: no CLI is started twice, or for a run its client was refused.  *)
AtMostOncePerRun ==
  /\ Waiting \cap Working = {}
  /\ \A v, w \in Workers : wjob[v] = wjob[w] /\ wjob[v] # NoRun => v = w
  /\ \A r \in Runs : spc[r] # "accepted" => proc[r] = "none" /\ r \notin Working

(* A cancel that comes while the worker starts the CLI is not lost between *)
(* the two: once the worker is past its own look at cancel_requested, a    *)
(* CLI that is still untouched has a canceller on its way to terminate it. *)
CancelReachesProcess ==
  \A r \in Runs, w \in Workers :
    /\ wjob[w] = r /\ wpc[w] \in {"feed", "wait"}
    /\ cancelReq[r] /\ proc[r] = "alive"
    => \E c \in Callers : crun[c] = r /\ cpc[c] \in {"look", "process"}

(* A CLI process runs only under a worker that waits for it, so no more    *)
(* CLIs run than there are workers.                                        *)
LiveCli(r) == proc[r] \in {"alive", "signalled"}

CliHasWorker ==
  \A r \in Runs : LiveCli(r) =>
    \E w \in Workers :
      wjob[w] = r /\ wpc[w] \in {"spawned", "feed", "wait", "expired"}

(* A run whose published result says "canceled" never turns out to have    *)
(* succeeded or to wait for the user.                                      *)
CanceledResultIsFinal ==
  \A r \in Runs : result[r] = "canceled" =>
    status[r] \notin {"done", "verification_pending", "approval_required"}

(* A published result is not replaced by another one: the worker and a     *)
(* canceller that both publish agree.                                      *)
ResultStable ==
  [][\A r \in Runs : result[r] # "none" => result'[r] = result[r]]_vars

(* A worker died of the run's request before it started a CLI.  Nobody     *)
(* sees to the run any more, and a cancel finds no process.                *)
Lost(r) == status[r] = "running" /\ proc[r] = "none" /\ r \in Gone
AllDead == \A w \in Workers : wpc[w] = "dead"

(* Every accepted run leaves the pool and settles, even if its CLI hangs   *)
(* or the one before it did, its report cannot be read or a reader not be  *)
(* started.  That needs a run timeout and workers that enforce it; pipes   *)
(* that move: every CLI reads its log in the end or exits, and what it     *)
(* leaves behind lets go of its output; a request that does not kill its   *)
(* worker, and a worker that no other request has killed.                  *)
TimeoutEnforced == \A w \in Workers : WF_vars(~Ended /\ Expire(w))
PipesMove == \A w \in Workers : []<>~Stalled(w)

AcceptedSettles ==
  TimeoutEnforced /\ PipesMove =>
    \A r \in Runs :
      spc[r] = "accepted" ~>
        \/ Ended \/ AllDead \/ Lost(r)
        \/ status[r] \in Settled /\ r \notin Waiting \cup Working

(* A cancel that is requested before the worker classifies the outcome     *)
(* ends the run for good, even if its CLI would hang, its pipes do not     *)
(* move and there is no run timeout: in the end the run is canceled and    *)
(* its CLI gone, or an exception has put the run in error, and it stays    *)
(* so.  The exceptions are a write that the cancel itself breaks, and a    *)
(* reader that cannot be started; after the latter the CLI may live on.    *)
(* What no cancel reaches is a run that is lost.                           *)
Undecided(r) ==
  /\ status[r] \in Busy
  /\ \A w \in Workers :
       wjob[w] = r => wpc[w] \notin {"classified", "publish", "published", "finish"}

CancelHonoured ==
  \A r \in Runs :
    cancelReq[r] /\ Undecided(r) ~>
      \/ Ended \/ Lost(r)
      \/ [](status[r] = "error" \/ (status[r] = "canceled" /\ ~LiveCli(r)))

(* The worker pool keeps the promises of BoundedPool. *)
Pool ==
  INSTANCE BoundedPool WITH
    MaxWorkers <- Cardinality(Workers),
    waiting <- Waiting,
    working <- Working,
    gone <- Gone,
    lost <- Cardinality(Dead)

ImplementsBoundedPool == Pool!PoolSpec

=============================================================================
