------------------------- MODULE RunLifecycleProofs -------------------------
(***************************************************************************)
(* What holds of RunLifecycle for every set of runs, workers and clients,  *)
(* every queue limit and every set of faults.                              *)
(***************************************************************************)
EXTENDS RunLifecycle, FiniteSetTheorems, TLAPS

(* Whoever is at work has a run in hand, and a classified run an outcome. *)
HandsFull ==
  /\ \A w \in Workers : wpc[w] \notin {"idle", "dead"} => wjob[w] \in Runs
  /\ \A w \in Workers : wpc[w] \in {"idle", "dead"} => wjob[w] = NoRun
  /\ \A c \in Callers : cpc[c] # "idle" => crun[c] \in Runs
  /\ \A w \in Workers : wpc[w] = "classified" => wfinal[w] # "none"

TypeInv == TypeOK /\ HandsFull

(* Every step of a submission keeps the types. *)
LEMMA SubmitTypes ==
  ASSUME TypeInv, NEW r \in Runs, Submit(r)
  PROVE  TypeInv'
  <1> USE RunLifecycleAssumption DEF TypeInv, TypeOK, HandsFull, runVars, schedVars,
        workerVars, callerVars, mainVars
  <1>1. CASE Admit(r)
    BY <1>1 DEF Admit, Statuses, Settled, Terminal, SubmitSteps
  <1>2. CASE Create(r)
    BY <1>2 DEF Create, Statuses, Settled, Terminal, SubmitSteps
  <1>3. CASE Reserve(r)
    BY <1>3 DEF Reserve, Statuses, Settled, Terminal, SubmitSteps
  <1>4. CASE Reject(r)
    BY <1>4 DEF Reject, Statuses, Settled, Terminal, SubmitSteps
  <1>5. CASE Enqueue(r)
    BY <1>5 DEF Enqueue, Statuses, Settled, Terminal, SubmitSteps
  <1> QED BY <1>1, <1>2, <1>3, <1>4, <1>5 DEF Submit

(* Every step of a worker keeps the types. *)
LEMMA WorkTypes ==
  ASSUME TypeInv, NEW w \in Workers, Work(w)
  PROVE  TypeInv'
  <1> USE RunLifecycleAssumption DEF TypeInv, TypeOK, HandsFull, runVars, schedVars,
        workerVars, callerVars, mainVars
  <1>1. CASE Take(w)
    BY <1>1 DEF Take, MoveTo, Statuses, Settled, Terminal, WorkerSteps, CliOutcomes
  <1>2. CASE Dequeue(w)
    BY <1>2 DEF Dequeue, MoveTo, Statuses, Settled, Terminal, WorkerSteps, CliOutcomes
  <1>3. CASE Skip(w)
    BY <1>3 DEF Skip, MoveTo, Statuses, Settled, Terminal, WorkerSteps, CliOutcomes
  <1>4. CASE Activate(w)
    BY <1>4 DEF Activate, MoveTo, Statuses, Settled, Terminal, WorkerSteps, CliOutcomes
  <1>5. CASE Begin(w)
    BY <1>5 DEF Begin, MoveTo, Statuses, Settled, Terminal, WorkerSteps, CliOutcomes
  <1>6. CASE SetRunning(w)
    BY <1>6 DEF SetRunning, MoveTo, Statuses, Settled, Terminal, WorkerSteps, CliOutcomes
  <1>7. CASE Break(w)
    BY <1>7 DEF Break, MoveTo, Statuses, Settled, Terminal, WorkerSteps, CliOutcomes
  <1>8. CASE Spawn(w)
    BY <1>8 DEF Spawn, MoveTo, Statuses, Settled, Terminal, WorkerSteps, CliOutcomes
  <1>9. CASE PostSpawn(w)
    <2>1. Terminated(proc[wjob[w]]) \in {"none", "alive", "signalled", "exited"}
      BY <1>9 DEF PostSpawn, Terminated
    <2>2. /\ proc' \in [Runs -> {"none", "alive", "signalled", "exited"}]
          /\ status' \in [Runs -> Statuses]
      BY <1>9, <2>1 DEF PostSpawn, Statuses, Settled, Terminal
    <2>3. wpc' \in [Workers -> WorkerSteps]
      BY <1>9 DEF PostSpawn, MoveTo, WorkerSteps
    <2> QED
      BY <1>9, <2>2, <2>3 DEF PostSpawn, MoveTo
  <1>10. CASE Feed(w)
    BY <1>10 DEF Feed, MoveTo, Statuses, Settled, Terminal, WorkerSteps, CliOutcomes
  <1>11. CASE Waited(w)
    BY <1>11 DEF Waited, MoveTo, Statuses, Settled, Terminal, WorkerSteps, CliOutcomes
  <1>12. CASE ExpireKill(w)
    BY <1>12 DEF ExpireKill, MoveTo, Statuses, Settled, Terminal, WorkerSteps, CliOutcomes
  <1>13. CASE Collect(w)
    BY <1>13 DEF Collect, MoveTo, Statuses, Settled, Terminal, WorkerSteps, CliOutcomes
  <1>14. CASE SetFinal(w)
    BY <1>14 DEF SetFinal, MoveTo, Statuses, Settled, Terminal, WorkerSteps, CliOutcomes
  <1>15. CASE Publish(w)
    BY <1>15 DEF Publish, MoveTo, Statuses, Settled, Terminal, WorkerSteps, CliOutcomes
  <1>16. CASE Fail(w)
    BY <1>16 DEF Fail, Raises, MoveTo, Statuses, Settled, Terminal, WorkerSteps, CliOutcomes
  <1>17. CASE Finish(w)
    BY <1>17 DEF Finish, MoveTo, Statuses, Settled, Terminal, WorkerSteps, CliOutcomes
  <1>18. CASE Note(w)
    BY <1>18 DEF Note, MoveTo, Statuses, Settled, Terminal, WorkerSteps, CliOutcomes
  <1> QED BY <1>1, <1>2, <1>3, <1>4, <1>5, <1>6, <1>7, <1>8, <1>9, <1>10, <1>11, <1>12, <1>13, <1>14, <1>15, <1>16, <1>17, <1>18 DEF Work

(* Every step of a canceller keeps the types. *)
LEMMA CancelTypes ==
  ASSUME TypeInv, NEW c \in Callers, Cancel(c)
  PROVE  TypeInv'
  <1> USE RunLifecycleAssumption DEF TypeInv, TypeOK, HandsFull, runVars, schedVars,
        workerVars, callerVars, mainVars
  <1>1. CASE CancelRequest(c)
    BY <1>1 DEF CancelRequest, Go, Statuses, Settled, Terminal, CancelSteps
  <1>2. CASE CancelLook(c)
    <2>1. cpc' \in [Callers -> CancelSteps] /\ crun' \in [Callers -> Runs \cup {NoRun}]
      BY <1>2 DEF CancelLook, Go, Return, CancelSteps
    <2>2. \A a \in Callers : cpc'[a] # "idle" => crun'[a] \in Runs
      BY <1>2 DEF CancelLook, Go, Return
    <2> QED
      BY <1>2, <2>1, <2>2 DEF CancelLook
  <1>3. CASE CancelInPlace(c)
    BY <1>3 DEF CancelInPlace, Go, Statuses, Settled, Terminal, CancelSteps
  <1>4. CASE CancelAnswer(c)
    BY <1>4 DEF CancelAnswer, Return, Go, Statuses, Settled, Terminal, CancelSteps
  <1>5. CASE CancelProcess(c)
    <2>1. Terminated(proc[crun[c]]) \in {"none", "alive", "signalled", "exited"}
      BY <1>5 DEF CancelProcess, Terminated
    <2>2. proc' \in [Runs -> {"none", "alive", "signalled", "exited"}]
      BY <1>5, <2>1 DEF CancelProcess
    <2>3. cpc' \in [Callers -> CancelSteps] /\ crun' \in [Callers -> Runs \cup {NoRun}]
      BY <1>5 DEF CancelProcess, Return, Go, CancelSteps
    <2> QED
      BY <1>5, <2>2, <2>3 DEF CancelProcess, Return, Go
  <1>6. CASE CancelKill(c)
    BY <1>6 DEF CancelKill, Go, Statuses, Settled, Terminal, CancelSteps
  <1>7. CASE CancelMark(c)
    BY <1>7 DEF CancelMark, Return, Go, Statuses, Settled, Terminal, CancelSteps
  <1> QED BY <1>1, <1>2, <1>3, <1>4, <1>5, <1>6, <1>7 DEF Cancel

(* The types hold at first and every step of the daemon and of its         *)
(* environment keeps them.                                                 *)
LEMMA TypeInit == Init => TypeInv
  <1> SUFFICES ASSUME Init
               PROVE  TypeInv
    OBVIOUS
  <1>1. TypeOK
    <2>1. jobs \in Seq(Runs)
      BY DEF Init
    <2>2. status \in [Runs -> Statuses] /\ result \in [Runs -> {"none"} \cup Statuses]
      BY DEF Init, Statuses
    <2> QED
      BY <2>1, <2>2 DEF Init, TypeOK, SubmitSteps, WorkerSteps, CancelSteps
  <1>2. HandsFull
    BY DEF Init, HandsFull
  <1> QED
    BY <1>1, <1>2 DEF TypeInv

(* Every step keeps them. *)
LEMMA TypeNext == TypeInv /\ [Next]_vars => TypeInv'
  <1> SUFFICES ASSUME TypeInv, [Next]_vars
               PROVE  TypeInv'
    OBVIOUS
  <1> USE DEF TypeInv, TypeOK, HandsFull, runVars, schedVars, workerVars,
              callerVars, mainVars
  <1>1. ASSUME NEW r \in Runs, Submit(r)  PROVE TypeInv'
    BY <1>1, SubmitTypes
  <1>2. ASSUME NEW r \in Runs, Evict(r)  PROVE TypeInv'
    BY <1>2 DEF Evict
  <1>3. ASSUME NEW w \in Workers, Work(w)  PROVE TypeInv'
    BY <1>3, WorkTypes
  <1>4. ASSUME NEW c \in Clients, CancelCall(c)  PROVE TypeInv'
    BY <1>4 DEF CancelCall, Go, Callers, CancelSteps
  <1>5. ASSUME NEW c \in Callers, Cancel(c)  PROVE TypeInv'
    BY <1>5, CancelTypes
  <1>6. CASE Shutdown
    <2>1. CASE DrainNext
      BY <2>1 DEF DrainNext, Go, Callers, CancelSteps
    <2>2. CASE SigTerm \/ DrainList \/ DrainDone \/ CleanExit \/ DeadlineExit
      BY <2>2 DEF SigTerm, DrainList, DrainDone, CleanExit, DeadlineExit
    <2> QED
      BY <1>6, <2>1, <2>2 DEF Shutdown
  <1>7. ASSUME NEW r \in Runs, CliExit(r)  PROVE TypeInv'
    BY <1>7 DEF CliExit
  <1>8. CASE UNCHANGED vars
    BY <1>8 DEF vars
  <1>9. ASSUME NEW w \in Workers, Expire(w)  PROVE TypeInv'
    BY <1>9, RunLifecycleAssumption DEF Expire, MoveTo, Statuses, Settled, Terminal, WorkerSteps
  <1> QED
    BY <1>1, <1>2, <1>3, <1>4, <1>5, <1>6, <1>7, <1>8, <1>9 DEF Next

(* So they hold in every reachable state. *)
LEMMA TypeInvariant == Spec => []TypeInv
  BY TypeInit, TypeNext, PTL DEF Spec

(* Every variable keeps its type. *)
THEOREM TypeCorrect == Spec => []TypeOK
  BY TypeInvariant, PTL DEF TypeInv

-----------------------------------------------------------------------------
(* Where a run can be: in one place of the queue, or in the hands of one   *)
(* worker, and only after it was accepted; it has no process before its    *)
(* worker has started one, and a canceller that kills has found one.       *)
BeforeSpawn == {"taken", "check", "begin", "start", "spawn"}

Placement ==
  /\ \A i, j \in 1..Len(jobs) : jobs[i] = jobs[j] => i = j
  /\ \A v, w \in Workers : wjob[v] = wjob[w] /\ wjob[v] # NoRun => v = w
  /\ \A i \in 1..Len(jobs), w \in Workers : jobs[i] # wjob[w]
  /\ \A i \in 1..Len(jobs) : spc[jobs[i]] = "accepted" /\ proc[jobs[i]] = "none"
  /\ \A w \in Workers : wjob[w] # NoRun => spc[wjob[w]] = "accepted"
  /\ \A r \in Runs : spc[r] # "accepted" => proc[r] = "none"
  /\ \A w \in Workers : wpc[w] \in BeforeSpawn => proc[wjob[w]] = "none"
  /\ \A c \in Callers : cpc[c] = "kill" => proc[crun[c]] \in {"signalled", "exited"}
  /\ \A c \in Callers : cpc[c] = "mark" => proc[crun[c]] = "exited"

(* No step of a submission puts a run in a second place. *)
LEMMA SubmitPlacement ==
  ASSUME TypeInv, Placement, NEW r \in Runs, Submit(r)
  PROVE  Placement'
  <1> USE RunLifecycleAssumption DEF TypeInv, TypeOK, HandsFull, Placement, BeforeSpawn,
        runVars, schedVars, workerVars, callerVars, mainVars
  <1>1. CASE Admit(r)
    BY <1>1 DEF Admit
  <1>2. CASE Create(r)
    BY <1>2 DEF Create
  <1>3. CASE Reserve(r)
    BY <1>3 DEF Reserve
  <1>4. CASE Reject(r)
    BY <1>4 DEF Reject
  <1>5. CASE Enqueue(r)
    <2>1. /\ Len(jobs') = Len(jobs) + 1 /\ jobs'[Len(jobs) + 1] = r
          /\ \A i \in 1..Len(jobs) : jobs'[i] = jobs[i] /\ jobs[i] # r
      BY <1>5 DEF Enqueue
    <2>2. \A w \in Workers : wjob[w] # r
      BY <1>5 DEF Enqueue
    <2>3. \A i, j \in 1..Len(jobs') : jobs'[i] = jobs'[j] => i = j
      BY <2>1
    <2>4. \A i \in 1..Len(jobs') : i \in 1..Len(jobs) \/ i = Len(jobs) + 1
      BY <2>1
    <2> QED
      BY <1>5, <2>1, <2>2, <2>3, <2>4 DEF Enqueue
  <1> QED BY <1>1, <1>2, <1>3, <1>4, <1>5 DEF Submit

(* Nor does a step of a worker. *)
LEMMA WorkPlacement ==
  ASSUME TypeInv, Placement, NEW w \in Workers, Work(w)
  PROVE  Placement'
  <1> USE RunLifecycleAssumption DEF TypeInv, TypeOK, HandsFull, Placement, BeforeSpawn,
        runVars, schedVars, workerVars, callerVars, mainVars
  <1>1. CASE Take(w)
    <2>1. /\ Len(Tail(jobs)) = Len(jobs) - 1
          /\ \A i \in 1..Len(Tail(jobs)) : Tail(jobs)[i] = jobs[i + 1]
          /\ Head(jobs) = jobs[1] /\ Len(jobs) \in Nat \ {0}
      BY <1>1 DEF Take
    <2>2. wjob[w] = NoRun /\ jobs' = Tail(jobs) /\ wjob' = [wjob EXCEPT ![w] = jobs[1]]
      BY <1>1, <2>1 DEF Take
    <2>3. \A i, j \in 1..Len(jobs') : jobs'[i] = jobs'[j] => i = j
      BY <2>1, <2>2
    <2>4. /\ \A i \in 1..Len(jobs') : jobs'[i] # jobs[1]
          /\ \A i \in 1..Len(jobs'), v \in Workers : jobs'[i] # wjob[v]
          /\ \A i \in 1..Len(jobs') : spc[jobs'[i]] = "accepted" /\ proc[jobs'[i]] = "none"
          /\ jobs[1] \in Runs /\ spc[jobs[1]] = "accepted" /\ proc[jobs[1]] = "none"
          /\ \A v \in Workers : wjob[v] # jobs[1]
      BY <2>1, <2>2
    <2> QED
      BY <1>1, <2>2, <2>3, <2>4 DEF Take, MoveTo
  <1>2. CASE Dequeue(w)
    BY <1>2 DEF Dequeue, MoveTo
  <1>3. CASE Skip(w)
    BY <1>3 DEF Skip, MoveTo
  <1>4. CASE Activate(w)
    BY <1>4 DEF Activate, MoveTo
  <1>5. CASE Begin(w)
    BY <1>5 DEF Begin, MoveTo
  <1>6. CASE SetRunning(w)
    BY <1>6 DEF SetRunning, MoveTo
  <1>7. CASE Break(w)
    BY <1>7 DEF Break, MoveTo
  <1>8. CASE Spawn(w)
    BY <1>8 DEF Spawn, MoveTo
  <1>9. CASE PostSpawn(w)
    <2>0. proc \in [Runs -> {"none", "alive", "signalled", "exited"}] /\ wjob[w] \in Runs
      BY <1>9 DEF PostSpawn
    <2>1. \A r \in Runs : proc'[r] # proc[r] => proc[r] = "alive" /\ proc'[r] = "signalled"
      <3>1. CASE cancelReq[wjob[w]]
        <4>1. proc' = [proc EXCEPT ![wjob[w]] = Terminated(proc[wjob[w]])]
          BY <1>9, <3>1 DEF PostSpawn
        <4> QED BY ONLY <2>0, <4>1 DEF Terminated
      <3>2. CASE ~cancelReq[wjob[w]]
        <4>1. proc' = proc
          BY <1>9, <3>2 DEF PostSpawn
        <4> QED BY <4>1
      <3> QED BY <3>1, <3>2
    <2>2. UNCHANGED <<jobs, spc, wjob, cpc, crun>>
      BY <1>9 DEF PostSpawn
    <2> QED
      BY <1>9, <2>1, <2>2 DEF PostSpawn, MoveTo
  <1>10. CASE Feed(w)
    BY <1>10 DEF Feed, MoveTo
  <1>11. CASE Waited(w)
    BY <1>11 DEF Waited, MoveTo
  <1>12. CASE ExpireKill(w)
    BY <1>12 DEF ExpireKill, MoveTo
  <1>13. CASE Collect(w)
    BY <1>13 DEF Collect, MoveTo
  <1>14. CASE SetFinal(w)
    BY <1>14 DEF SetFinal, MoveTo
  <1>15. CASE Publish(w)
    BY <1>15 DEF Publish, MoveTo
  <1>16. CASE Fail(w)
    BY <1>16 DEF Fail, Raises, MoveTo
  <1>17. CASE Finish(w)
    BY <1>17 DEF Finish, MoveTo
  <1>18. CASE Note(w)
    BY <1>18 DEF Note, MoveTo
  <1> QED BY <1>1, <1>2, <1>3, <1>4, <1>5, <1>6, <1>7, <1>8, <1>9, <1>10, <1>11, <1>12, <1>13, <1>14, <1>15, <1>16, <1>17, <1>18 DEF Work

(* Nor does a step of a canceller. *)
LEMMA CancelPlacement ==
  ASSUME TypeInv, Placement, NEW c \in Callers, Cancel(c)
  PROVE  Placement'
  <1> USE RunLifecycleAssumption DEF TypeInv, TypeOK, HandsFull, Placement, BeforeSpawn,
        runVars, schedVars, workerVars, callerVars, mainVars
  <1>1. CASE CancelRequest(c)
    BY <1>1 DEF CancelRequest, Go
  <1>2. CASE CancelLook(c)
    BY <1>2 DEF CancelLook, Go, Return
  <1>3. CASE CancelInPlace(c)
    BY <1>3 DEF CancelInPlace, Go
  <1>4. CASE CancelAnswer(c)
    BY <1>4 DEF CancelAnswer, Return, Go
  <1>5. CASE CancelProcess(c)
    <2>1. CASE proc[crun[c]] = "none"
      <3>1. UNCHANGED <<jobs, spc, wpc, wjob, proc>> /\ cpc' = [cpc EXCEPT ![c] = "idle"]
            /\ crun' = [crun EXCEPT ![c] = NoRun]
        BY <1>5, <2>1 DEF CancelProcess, Return, Go
      <3> QED BY <3>1
    <2>2. CASE proc[crun[c]] # "none"
      <3>1. proc' = [proc EXCEPT ![crun[c]] = Terminated(proc[crun[c]])]
        BY <1>5, <2>2 DEF CancelProcess
      <3>2. UNCHANGED <<jobs, spc, wpc, wjob, crun>> /\ cpc' = [cpc EXCEPT ![c] = "kill"]
        BY <1>5, <2>2 DEF CancelProcess, Go
      <3>3. \A r \in Runs : (proc[r] = "none" <=> proc'[r] = "none")
                           /\ (proc[r] \in {"signalled", "exited"} => proc'[r] = proc[r])
        BY <3>1 DEF Terminated
      <3>4. crun[c] \in Runs /\ proc'[crun[c]] \in {"signalled", "exited"}
        BY <1>5, <2>2, <3>1 DEF CancelProcess, Terminated
      <3>5. /\ \A a \in Callers : cpc'[a] = "kill" => proc'[crun'[a]] \in {"signalled", "exited"}
            /\ \A a \in Callers : cpc'[a] = "mark" => proc'[crun'[a]] = "exited"
        BY <3>2, <3>3, <3>4
      <3>6. \A i \in 1..Len(jobs) : jobs[i] \in Runs
        OBVIOUS
      <3>7. \A r \in Runs : spc[r] # "accepted" => proc'[r] = "none"
        BY <3>3
      <3>8. \A i \in 1..Len(jobs) : spc[jobs[i]] = "accepted" /\ proc'[jobs[i]] = "none"
        BY <3>3, <3>6
      <3>9. \A w \in Workers : wpc[w] \in BeforeSpawn => proc'[wjob[w]] = "none"
        BY <3>3
      <3> QED BY <3>2, <3>5, <3>7, <3>8, <3>9
    <2> QED BY <2>1, <2>2
  <1>6. CASE CancelKill(c)
    BY <1>6 DEF CancelKill, Go
  <1>7. CASE CancelMark(c)
    BY <1>7 DEF CancelMark, Return, Go
  <1> QED BY <1>1, <1>2, <1>3, <1>4, <1>5, <1>6, <1>7 DEF Cancel

(* In every reachable state a run is in one place. *)
LEMMA PlacementInit == Init => Placement
  BY DEF Init, Placement, BeforeSpawn

(* Every step keeps a run in one place. *)
LEMMA PlacementNext == TypeInv /\ Placement /\ [Next]_vars => Placement'
  <1> SUFFICES ASSUME TypeInv, Placement, [Next]_vars
               PROVE  Placement'
    OBVIOUS
  <1> USE DEF TypeInv, TypeOK, HandsFull, Placement, BeforeSpawn,
              runVars, schedVars, workerVars, callerVars, mainVars
  <1>1. ASSUME NEW r \in Runs, Submit(r)  PROVE Placement'
    BY <1>1, SubmitPlacement
  <1>2. ASSUME NEW r \in Runs, Evict(r)  PROVE Placement'
    BY <1>2 DEF Evict
  <1>3. ASSUME NEW w \in Workers, Work(w)  PROVE Placement'
    BY <1>3, WorkPlacement
  <1>4. ASSUME NEW c \in Clients, CancelCall(c)  PROVE Placement'
    BY <1>4 DEF CancelCall, Go, Callers
  <1>5. ASSUME NEW c \in Callers, Cancel(c)  PROVE Placement'
    BY <1>5, CancelPlacement
  <1>6. CASE Shutdown
    BY <1>6 DEF Shutdown, SigTerm, DrainList, DrainNext, Go, Callers,
                 DrainDone, CleanExit, DeadlineExit
  <1>7. ASSUME NEW r \in Runs, CliExit(r)  PROVE Placement'
    BY <1>7 DEF CliExit
  <1>8. CASE UNCHANGED vars
    BY <1>8 DEF vars
  <1>9. ASSUME NEW w \in Workers, Expire(w)  PROVE Placement'
    BY <1>9, RunLifecycleAssumption DEF Expire, MoveTo
  <1> QED
    BY <1>1, <1>2, <1>3, <1>4, <1>5, <1>6, <1>7, <1>8, <1>9 DEF Next

(* So it is in every reachable state. *)
LEMMA PlacementInvariant == Spec => [](TypeInv /\ Placement)
  <1>1. Init => TypeInv /\ Placement
    BY TypeInit, PlacementInit
  <1>2. TypeInv /\ Placement /\ [Next]_vars => (TypeInv /\ Placement)'
    BY TypeNext, PlacementNext
  <1> QED
    BY <1>1, <1>2, PTL DEF Spec

(* A run is never in two places of the pool, and a refused run in none. *)
THEOREM RunsOnce == Spec => []AtMostOncePerRun
  <1>1. TypeInv /\ Placement => AtMostOncePerRun
    <2> SUFFICES ASSUME TypeInv, Placement
                 PROVE  AtMostOncePerRun
      OBVIOUS
    <2> USE DEF TypeInv, TypeOK, HandsFull, Placement
    <2>1. ASSUME NEW r \in Waiting, r \in Working  PROVE FALSE
      BY <2>1, RunLifecycleAssumption DEF Waiting, Working, Queued, InHand
    <2>2. \A r \in Runs : spc[r] # "accepted" => proc[r] = "none" /\ r \notin Working
      BY RunLifecycleAssumption DEF Working, InHand
    <2> QED
      BY <2>1, <2>2 DEF AtMostOncePerRun
  <1> QED
    BY <1>1, PlacementInvariant, PTL

-----------------------------------------------------------------------------
(* Why no cancel is lost.  A canceller raises the flag before it looks at  *)
(* the run, and the worker publishes the process before it looks at the    *)
(* flag.  So a worker that saw no flag has a run that is still "running",  *)
(* and every canceller that comes after it finds the process.              *)
CancelInv ==
  /\ \A c \in Callers : cpc[c] \notin {"idle", "request"} => cancelReq[crun[c]]
  /\ \A w \in Workers :
       wpc[w] \in {"spawn", "spawned"} /\ ~cancelReq[wjob[w]] => status[wjob[w]] = "running"
  /\ \A w \in Workers :
       wpc[w] \in {"feed", "wait"} /\ proc[wjob[w]] = "alive" =>
         /\ status[wjob[w]] = "running"
         /\ \A c \in Callers : crun[c] = wjob[w] => cpc[c] # "inplace"
  /\ CancelReachesProcess

(* A submission has no part in it. *)
LEMMA SubmitCancel ==
  ASSUME TypeInv, Placement, CancelInv, NEW r \in Runs, Submit(r)
  PROVE  CancelInv'
  <1> USE RunLifecycleAssumption DEF TypeInv, TypeOK, HandsFull, Placement, BeforeSpawn, CancelInv,
        CancelReachesProcess, runVars, schedVars, workerVars, callerVars, mainVars
  <1>1. CASE Admit(r)
    BY <1>1 DEF Admit
  <1>2. CASE Create(r)
    BY <1>2 DEF Create
  <1>3. CASE Reserve(r)
    BY <1>3 DEF Reserve
  <1>4. CASE Reject(r)
    BY <1>4 DEF Reject
  <1>5. CASE Enqueue(r)
    BY <1>5 DEF Enqueue
  <1> QED BY <1>1, <1>2, <1>3, <1>4, <1>5 DEF Submit

(* The steps of a worker. *)
LEMMA WorkCancel ==
  ASSUME TypeInv, Placement, CancelInv, NEW w \in Workers, Work(w)
  PROVE  CancelInv'
  <1> USE RunLifecycleAssumption DEF TypeInv, TypeOK, HandsFull, Placement, BeforeSpawn, CancelInv,
        CancelReachesProcess, runVars, schedVars, workerVars, callerVars, mainVars
  <1>1. CASE Take(w)
    BY <1>1 DEF Take, MoveTo
  <1>2. CASE Dequeue(w)
    BY <1>2 DEF Dequeue, MoveTo
  <1>3. CASE Skip(w)
    BY <1>3 DEF Skip, MoveTo
  <1>4. CASE Activate(w)
    BY <1>4 DEF Activate, MoveTo
  <1>5. CASE Begin(w)
    BY <1>5 DEF Begin, MoveTo
  <1>6. CASE SetRunning(w)
    BY <1>6 DEF SetRunning, MoveTo
  <1>7. CASE Break(w)
    BY <1>7 DEF Break, MoveTo
  <1>8. CASE Spawn(w)
    BY <1>8 DEF Spawn, MoveTo
  <1>9. CASE PostSpawn(w)
    BY <1>9 DEF PostSpawn, MoveTo, Terminated
  <1>10. CASE Feed(w)
    BY <1>10 DEF Feed, MoveTo
  <1>11. CASE Waited(w)
    BY <1>11 DEF Waited, MoveTo
  <1>12. CASE ExpireKill(w)
    BY <1>12 DEF ExpireKill, MoveTo
  <1>13. CASE Collect(w)
    BY <1>13 DEF Collect, MoveTo
  <1>14. CASE SetFinal(w)
    BY <1>14 DEF SetFinal, MoveTo
  <1>15. CASE Publish(w)
    BY <1>15 DEF Publish, MoveTo
  <1>16. CASE Fail(w)
    BY <1>16 DEF Fail, Raises, MoveTo
  <1>17. CASE Finish(w)
    BY <1>17 DEF Finish, MoveTo
  <1>18. CASE Note(w)
    BY <1>18 DEF Note, MoveTo
  <1> QED BY <1>1, <1>2, <1>3, <1>4, <1>5, <1>6, <1>7, <1>8, <1>9, <1>10, <1>11, <1>12, <1>13, <1>14, <1>15, <1>16, <1>17, <1>18 DEF Work

(* The steps of a canceller. *)
LEMMA CancelCancel ==
  ASSUME TypeInv, Placement, CancelInv, NEW c \in Callers, Cancel(c)
  PROVE  CancelInv'
  <1> USE RunLifecycleAssumption DEF TypeInv, TypeOK, HandsFull, Placement, BeforeSpawn, CancelInv,
        CancelReachesProcess, runVars, schedVars, workerVars, callerVars, mainVars
  <1>1. CASE CancelRequest(c)
    BY <1>1 DEF CancelRequest, Go
  <1>2. CASE CancelLook(c)
    <2>0. UNCHANGED <<status, cancelReq, proc, wpc, wjob>> /\ crun[c] \in Runs /\ cancelReq[crun[c]]
      BY <1>2 DEF CancelLook
    <2>1. CASE status[crun[c]] = "running" /\ Go(c, "process") /\ UNCHANGED crun
      BY <2>0, <2>1 DEF Go
    <2>2. CASE status[crun[c]] = "queued" /\ Go(c, "inplace") /\ UNCHANGED crun
      BY <2>0, <2>2 DEF Go
    <2>3. CASE status[crun[c]] \notin Busy /\ Return(c)
      BY <2>0, <2>3 DEF Return, Go, Busy
    <2> QED
      BY <1>2, <2>1, <2>2, <2>3 DEF CancelLook
  <1>3. CASE CancelInPlace(c)
    BY <1>3 DEF CancelInPlace, Go
  <1>4. CASE CancelAnswer(c)
    BY <1>4 DEF CancelAnswer, Return, Go
  <1>5. CASE CancelProcess(c)
    <2>0. UNCHANGED <<status, cancelReq, wpc, wjob>> /\ crun[c] \in Runs /\ cancelReq[crun[c]]
      BY <1>5 DEF CancelProcess
    <2>1. CASE proc[crun[c]] = "none"
      <3>1. Return(c) /\ UNCHANGED proc
        BY <1>5, <2>1 DEF CancelProcess
      <3> QED BY <2>0, <2>1, <3>1 DEF Return, Go
    <2>2. CASE proc[crun[c]] # "none"
      <3>1. /\ proc' = [proc EXCEPT ![crun[c]] = Terminated(proc[crun[c]])]
            /\ Go(c, "kill") /\ UNCHANGED crun
        BY <1>5, <2>2 DEF CancelProcess
      <3>2. proc'[crun[c]] # "alive" /\ \A r \in Runs : r # crun[c] => proc'[r] = proc[r]
        BY <2>0, <3>1 DEF Terminated
      <3> QED BY <2>0, <3>1, <3>2 DEF Go
    <2> QED
      BY <2>1, <2>2
  <1>6. CASE CancelKill(c)
    BY <1>6 DEF CancelKill, Go
  <1>7. CASE CancelMark(c)
    BY <1>7 DEF CancelMark, Return, Go
  <1> QED BY <1>1, <1>2, <1>3, <1>4, <1>5, <1>6, <1>7 DEF Cancel

(* The whole step. *)
LEMMA CancelInit == Init => CancelInv
  BY DEF Init, CancelInv, CancelReachesProcess

(* Every step keeps a cancel from being lost. *)
LEMMA CancelNext == TypeInv /\ Placement /\ CancelInv /\ [Next]_vars => CancelInv'
  <1> SUFFICES ASSUME TypeInv, Placement, CancelInv, [Next]_vars
               PROVE  CancelInv'
    OBVIOUS
  <1> USE DEF TypeInv, TypeOK, HandsFull, CancelInv, CancelReachesProcess,
              runVars, schedVars, workerVars, callerVars, mainVars
  <1>1. ASSUME NEW r \in Runs, Submit(r)  PROVE CancelInv'
    BY <1>1, SubmitCancel
  <1>2. ASSUME NEW r \in Runs, Evict(r)  PROVE CancelInv'
    BY <1>2 DEF Evict
  <1>3. ASSUME NEW w \in Workers, Work(w)  PROVE CancelInv'
    BY <1>3, WorkCancel
  <1>4. ASSUME NEW c \in Clients, CancelCall(c)  PROVE CancelInv'
    BY <1>4 DEF CancelCall, Go, Callers
  <1>5. ASSUME NEW c \in Callers, Cancel(c)  PROVE CancelInv'
    BY <1>5, CancelCancel
  <1>6. CASE Shutdown
    <2>1. CASE DrainNext
      BY <2>1 DEF DrainNext, Go, Callers
    <2>2. CASE SigTerm \/ DrainList \/ DrainDone \/ CleanExit \/ DeadlineExit
      BY <2>2 DEF SigTerm, DrainList, DrainDone, CleanExit, DeadlineExit
    <2> QED
      BY <1>6, <2>1, <2>2 DEF Shutdown
  <1>7. ASSUME NEW r \in Runs, CliExit(r)  PROVE CancelInv'
    BY <1>7 DEF CliExit
  <1>8. CASE UNCHANGED vars
    BY <1>8 DEF vars
  <1>9. ASSUME NEW w \in Workers, Expire(w)  PROVE CancelInv'
    BY <1>9, RunLifecycleAssumption DEF Expire, MoveTo, Placement, BeforeSpawn
  <1> QED
    BY <1>1, <1>2, <1>3, <1>4, <1>5, <1>6, <1>7, <1>8, <1>9 DEF Next

(* A cancel that meets the start of the CLI terminates it. *)
THEOREM CancelIsNotLost == Spec => []CancelReachesProcess
  <1>1. Init => TypeInv /\ Placement /\ CancelInv
    BY TypeInit, PlacementInit, CancelInit
  <1>2. TypeInv /\ Placement /\ CancelInv /\ [Next]_vars => (TypeInv /\ Placement /\ CancelInv)'
    BY TypeNext, PlacementNext, CancelNext
  <1>3. CancelInv => CancelReachesProcess
    BY DEF CancelInv
  <1> QED
    BY <1>1, <1>2, <1>3, PTL DEF Spec

-----------------------------------------------------------------------------
(* When the readers of the CLI's output can always be started, the worker  *)
(* leaves a run only after its CLI has exited.                             *)
LEMMA CliNext ==
  ASSUME "thread" \notin Faults, TypeInv, Placement, CliHasWorker, [Next]_vars
  PROVE  CliHasWorker'
  <1> USE DEF TypeInv, TypeOK, HandsFull, CliHasWorker, LiveCli,
              runVars, schedVars, workerVars, callerVars, mainVars
  <1>1. ASSUME UNCHANGED <<wpc, wjob>>, \A r \in Runs : LiveCli(r)' => LiveCli(r)
        PROVE  CliHasWorker'
    BY <1>1
  <1>2. ASSUME NEW r \in Runs, Submit(r)  PROVE CliHasWorker'
    BY <1>1, <1>2 DEF Submit, Admit, Create, Reserve, Reject, Enqueue
  <1>3. ASSUME NEW r \in Runs, Evict(r)  PROVE CliHasWorker'
    BY <1>1, <1>3 DEF Evict
  <1>4. ASSUME NEW c \in Clients, CancelCall(c)  PROVE CliHasWorker'
    BY <1>1, <1>4 DEF CancelCall
  <1>5. ASSUME NEW c \in Callers, Cancel(c)  PROVE CliHasWorker'
    <2>1. UNCHANGED <<wpc, wjob>>
      BY <1>5 DEF Cancel, CancelRequest, CancelLook, CancelInPlace, CancelAnswer,
                  CancelProcess, CancelKill, CancelMark
    <2>2. \A r \in Runs : LiveCli(r)' => LiveCli(r)
      <3>1. CASE CancelProcess(c)
        <4>1. CASE proc[crun[c]] = "none"
          BY <3>1, <4>1 DEF CancelProcess
        <4>2. CASE proc[crun[c]] # "none"
          <5>1. proc' = [proc EXCEPT ![crun[c]] = Terminated(proc[crun[c]])]
            BY <3>1, <4>2 DEF CancelProcess
          <5> QED BY <5>1 DEF Terminated
        <4> QED BY <4>1, <4>2
      <3>2. CASE CancelKill(c)
        BY <3>2 DEF CancelKill
      <3>3. CASE ~CancelProcess(c) /\ ~CancelKill(c)
        BY <1>5, <3>3 DEF Cancel, CancelRequest, CancelLook, CancelInPlace, CancelAnswer, CancelMark
      <3> QED BY <3>1, <3>2, <3>3
    <2> QED
      BY <1>1, <2>1, <2>2
  <1>6. CASE Shutdown
    BY <1>1, <1>6 DEF Shutdown, SigTerm, DrainList, DrainNext, DrainDone, CleanExit, DeadlineExit
  <1>7. ASSUME NEW r \in Runs, CliExit(r)  PROVE CliHasWorker'
    BY <1>1, <1>7 DEF CliExit
  <1>8. CASE UNCHANGED vars
    BY <1>1, <1>8 DEF vars
  <1>9. ASSUME NEW w \in Workers, Work(w)  PROVE CliHasWorker'
    <2> USE RunLifecycleAssumption DEF MoveTo, Placement, BeforeSpawn
    <2>1. CASE Take(w)
      BY <2>1 DEF Take
    <2>2. CASE Dequeue(w)
      BY <2>2 DEF Dequeue
    <2>3. CASE Skip(w)
      BY <2>3 DEF Skip
    <2>4. CASE Activate(w)
      BY <2>4 DEF Activate
    <2>5. CASE Begin(w)
      BY <2>5 DEF Begin
    <2>6. CASE SetRunning(w)
      BY <2>6 DEF SetRunning
    <2>7. CASE Break(w)
      BY <2>7 DEF Break
    <2>8. CASE Spawn(w)
      BY <2>8 DEF Spawn
    <2>9. CASE PostSpawn(w)
      <3>1. wjob[w] \in Runs /\ UNCHANGED wjob /\ wpc' = [wpc EXCEPT ![w] = "feed"]
        BY <2>9 DEF PostSpawn
      <3>2. \A r \in Runs : LiveCli(r)' => LiveCli(r)
        <4>1. CASE cancelReq[wjob[w]]
          <5>1. proc' = [proc EXCEPT ![wjob[w]] = Terminated(proc[wjob[w]])]
            BY <2>9, <4>1 DEF PostSpawn
          <5> QED BY <5>1, <3>1 DEF Terminated
        <4>2. CASE ~cancelReq[wjob[w]]
          BY <2>9, <4>2 DEF PostSpawn
        <4> QED BY <4>1, <4>2
      <3> QED BY <3>1, <3>2, <2>9 DEF PostSpawn
    <2>10. CASE Feed(w)
      BY <2>10 DEF Feed
    <2>11. CASE Waited(w)
      BY <2>11 DEF Waited
    <2>12. CASE ExpireKill(w)
      BY <2>12 DEF ExpireKill
    <2>13. CASE Collect(w)
      <3>1. wpc[w] = "collect" /\ wpc' = [wpc EXCEPT ![w] = "classified"] /\ UNCHANGED <<proc, wjob>>
        BY <2>13 DEF Collect
      <3> QED BY <3>1
    <2>14. CASE SetFinal(w)
      <3>1. wpc[w] = "classified" /\ wpc' = [wpc EXCEPT ![w] = "publish"] /\ UNCHANGED <<proc, wjob>>
        BY <2>14 DEF SetFinal
      <3> QED BY <3>1
    <2>15. CASE Publish(w)
      <3>1. wpc[w] = "publish" /\ wpc' = [wpc EXCEPT ![w] = "published"] /\ UNCHANGED <<proc, wjob>>
        BY <2>15 DEF Publish
      <3> QED BY <3>1
    <2>16. CASE Fail(w)
      <3>1. wpc' = [wpc EXCEPT ![w] = "finish"] /\ UNCHANGED <<proc, wjob>>
        BY <2>16 DEF Fail
      <3>2. ~LiveCli(wjob[w])
        <4>1. CASE wpc[w] \in {"spawn", "collect", "publish", "published"}
          BY <4>1, <1>9
        <4>2. CASE wpc[w] = "feed"
          BY <2>16, <4>2 DEF Fail, Raises
        <4> QED BY <2>16, <4>1, <4>2 DEF Fail, Raises
      <3> QED BY <3>1, <3>2
    <2>17. CASE Finish(w)
      BY <2>17 DEF Finish
    <2>18. CASE Note(w)
      <3>1. wpc[w] = "published" /\ wpc' = [wpc EXCEPT ![w] = "finish"] /\ UNCHANGED <<proc, wjob>>
        BY <2>18 DEF Note
      <3> QED BY <3>1
    <2> QED BY <1>9, <2>1, <2>2, <2>3, <2>4, <2>5, <2>6, <2>7, <2>8, <2>9, <2>10, <2>11, <2>12, <2>13, <2>14, <2>15, <2>16, <2>17, <2>18 DEF Work
  <1>10. ASSUME NEW w \in Workers, Expire(w)  PROVE CliHasWorker'
    BY <1>10, RunLifecycleAssumption DEF Expire, MoveTo, Placement
  <1> QED
    BY <1>2, <1>3, <1>4, <1>5, <1>6, <1>7, <1>8, <1>9, <1>10 DEF Next

(* A CLI process never runs without a worker that waits for it, unless a   *)
(* reader thread could not be started.                                     *)
THEOREM CliIsAttended ==
  ASSUME "thread" \notin Faults
  PROVE  Spec => []CliHasWorker
  <1>1. Init => TypeInv /\ Placement /\ CliHasWorker
    <2>1. Init => CliHasWorker
      BY DEF Init, CliHasWorker, LiveCli
    <2> QED BY <2>1, TypeInit, PlacementInit
  <1>2. TypeInv /\ Placement /\ CliHasWorker /\ [Next]_vars
          => (TypeInv /\ Placement /\ CliHasWorker)'
    BY TypeNext, PlacementNext, CliNext
  <1> QED
    BY <1>1, <1>2, PTL DEF Spec

-----------------------------------------------------------------------------
(* What a step does to the pool: most do nothing, and the others move one  *)
(* run or one worker, and count it.                                        *)
Idle == {"idle", "taken", "check", "dead"}

Stays == UNCHANGED <<Waiting, Working, Gone, Dead, ActiveWorkers, pending, active>>

Comes(r) ==
  /\ r \notin Waiting \cup Working \cup Gone
  /\ pending < MaxQueue
  /\ Waiting' = Waiting \cup {r}
  /\ pending' = pending + 1
  /\ UNCHANGED <<Working, Gone, Dead, ActiveWorkers, active>>

Picked(w) ==
  /\ wpc[w] = "taken"
  /\ wjob[w] \in Waiting
  /\ Waiting' = Waiting \ {wjob[w]}
  /\ Working' = Working \cup {wjob[w]}
  /\ pending' = IF pending > 0 THEN pending - 1 ELSE 0
  /\ UNCHANGED <<Gone, Dead, ActiveWorkers, active>>

Starts(w) ==
  /\ w \notin ActiveWorkers
  /\ ActiveWorkers' = ActiveWorkers \cup {w}
  /\ active' = active + 1
  /\ UNCHANGED <<Waiting, Working, Gone, Dead, pending>>

Leaves(w) ==
  /\ wjob[w] \in Working
  /\ Working' = Working \ {wjob[w]}
  /\ Gone' = Gone \cup {wjob[w]}
  /\ UNCHANGED <<Waiting, pending>>

Stops(w) ==
  /\ w \in ActiveWorkers
  /\ ActiveWorkers' = ActiveWorkers \ {w}
  /\ active' = IF active > 0 THEN active - 1 ELSE 0

Moves ==
  \/ Stays
  \/ \E r \in Runs : Comes(r)
  \/ \E w \in Workers :
       \/ Picked(w) \/ Starts(w)
       \/ Leaves(w) /\ UNCHANGED <<ActiveWorkers, Dead, active>>
       \/ Leaves(w) /\ Stops(w) /\ UNCHANGED Dead
       \/ Leaves(w) /\ Stops(w) /\ Dead' = Dead \cup {w} /\ w \notin Dead

(* A step on what the pool does not look at. *)
LEMMA NoMove ==
  ASSUME UNCHANGED <<spc, jobs, pending, active, wjob>>,
         \A w \in Workers : wpc'[w] = wpc[w] \/ {wpc[w], wpc'[w]} \cap Idle = {}
  PROVE  Moves
  <1>1. \A w \in Workers : (wpc'[w] \in Idle \/ wpc[w] \in Idle) => wpc'[w] = wpc[w]
    OBVIOUS
  <1>2. \A w \in Workers : /\ (wpc'[w] = "taken") = (wpc[w] = "taken")
                           /\ (wpc'[w] = "dead") = (wpc[w] = "dead")
                           /\ InHand(w)' = InHand(w)
                           /\ (wpc'[w] \in Idle) = (wpc[w] \in Idle)
    BY <1>1 DEF Idle, InHand
  <1>3. Waiting' = Waiting /\ Working' = Working
    BY <1>2 DEF Waiting, Working, Queued
  <1>4. Dead' = Dead /\ ActiveWorkers' = ActiveWorkers
    BY <1>2 DEF Dead, ActiveWorkers, Idle
  <1>5. Gone' = Gone
    BY <1>3 DEF Gone
  <1> QED
    BY <1>3, <1>4, <1>5 DEF Moves, Stays

(* One more job in the queue. *)
LEMMA OneMore ==
  ASSUME NEW r \in Runs, jobs \in Seq(Runs), jobs' = Append(jobs, r)
  PROVE  Queued' = Queued \cup {r}
  <1>1. /\ Len(jobs') = Len(jobs) + 1 /\ jobs'[Len(jobs) + 1] = r
        /\ \A i \in 1..Len(jobs) : jobs'[i] = jobs[i]
        /\ DOMAIN jobs = 1..Len(jobs) /\ DOMAIN jobs' = 1..(Len(jobs) + 1)
        /\ Len(jobs) \in Nat
    OBVIOUS
  <1>2. \A i \in 1..(Len(jobs) + 1) : i \in 1..Len(jobs) \/ i = Len(jobs) + 1
    BY <1>1
  <1>3. \A q \in Queued' : q \in Queued \cup {r}
    BY <1>1, <1>2 DEF Queued
  <1>4. \A q \in Queued \cup {r} : q \in Queued'
    BY <1>1 DEF Queued
  <1> QED
    BY <1>3, <1>4

(* The steps of a submission. *)
LEMMA SubmitMoves ==
  ASSUME TypeInv, Placement, NEW r \in Runs, Submit(r)
  PROVE  Moves
  <1> USE DEF TypeInv, TypeOK, HandsFull, Placement, runVars, schedVars, workerVars,
              callerVars, mainVars
  <1>0. /\ \A q \in Queued : q \in Runs /\ spc[q] = "accepted"
        /\ \A w \in Workers : wpc[w] \notin {"idle", "dead"} => wjob[w] \in Runs /\ spc[wjob[w]] = "accepted"
    BY RunLifecycleAssumption DEF Queued
  <1>1. CASE Admit(r) \/ Create(r) \/ Reject(r)
    <2>1. /\ UNCHANGED <<jobs, pending, active, wjob, wpc>>
          /\ \A q \in Runs : /\ (spc'[q] = "reserved") = (spc[q] = "reserved")
                             /\ (spc'[q] = "accepted") = (spc[q] = "accepted")
      BY <1>1 DEF Admit, Create, Reject
    <2>2. Waiting' = Waiting /\ Working' = Working
      BY <2>1 DEF Waiting, Working, Queued, InHand
    <2>3. Gone' = Gone /\ Dead' = Dead /\ ActiveWorkers' = ActiveWorkers
      BY <2>1, <2>2 DEF Gone, Dead, ActiveWorkers
    <2> QED
      BY <2>1, <2>2, <2>3 DEF Moves, Stays
  <1>2. CASE Reserve(r)
    <2>1. /\ UNCHANGED <<jobs, active, wjob, wpc>>
          /\ pending < MaxQueue /\ pending' = pending + 1
          /\ spc[r] = "created" /\ spc' = [spc EXCEPT ![r] = "reserved"]
      BY <1>2 DEF Reserve
    <2>2. r \notin Waiting \cup Working \cup Gone
      BY <1>0, <2>1 DEF Waiting, Working, Gone, InHand
    <2>3. Waiting' = Waiting \cup {r} /\ Working' = Working
      BY <2>1 DEF Waiting, Working, Queued, InHand
    <2>4. Gone' = Gone /\ Dead' = Dead /\ ActiveWorkers' = ActiveWorkers
      BY <1>0, <2>1, <2>3 DEF Gone, Dead, ActiveWorkers
    <2> QED
      BY <2>1, <2>2, <2>3, <2>4 DEF Moves, Comes
  <1>3. CASE Enqueue(r)
    <2>1. /\ UNCHANGED <<pending, active, wjob, wpc>> /\ jobs' = Append(jobs, r)
          /\ spc[r] = "reserved" /\ spc' = [spc EXCEPT ![r] = "accepted"]
      BY <1>3 DEF Enqueue
    <2>2. Queued' = Queued \cup {r}
      <3>1. jobs \in Seq(Runs)
        OBVIOUS
      <3> QED
        BY <2>1, <3>1, OneMore
    <2>3. Waiting' = Waiting /\ Working' = Working
      BY <2>1, <2>2 DEF Waiting, Working, InHand
    <2>4. r \in Waiting
      BY <2>1 DEF Waiting
    <2>5. Gone' = Gone /\ Dead' = Dead /\ ActiveWorkers' = ActiveWorkers
      BY <2>1, <2>3, <2>4 DEF Gone, Dead, ActiveWorkers
    <2> QED
      BY <2>1, <2>3, <2>5 DEF Moves, Stays
  <1> QED
    BY <1>1, <1>2, <1>3 DEF Submit

(* The steps of a worker. *)
LEMMA WorkMoves ==
  ASSUME TypeInv, Placement, NEW w \in Workers, Work(w) \/ Expire(w)
  PROVE  Moves
  <1> USE DEF TypeInv, TypeOK, HandsFull, Placement, runVars, schedVars, workerVars,
              callerVars, mainVars, MoveTo
  <1>0. /\ \A q \in Queued : q \in Runs /\ spc[q] = "accepted"
        /\ \A v \in Workers : wpc[v] \notin {"idle", "dead"} => wjob[v] \in Runs /\ spc[wjob[v]] = "accepted"
        /\ \A v \in Workers : wjob[v] \notin Queued
        /\ \A v \in Workers : wjob[v] = wjob[w] /\ wjob[v] # NoRun => v = w
        /\ NoRun \notin Runs
    BY RunLifecycleAssumption DEF Queued
  <1>1. CASE Take(w)
    <2>1. /\ UNCHANGED <<pending, active, spc>> /\ jobs # <<>>
          /\ wjob' = [wjob EXCEPT ![w] = Head(jobs)] /\ jobs' = Tail(jobs)
          /\ wpc[w] = "idle" /\ wpc' = [wpc EXCEPT ![w] = "taken"]
      BY <1>1 DEF Take
    <2>2. Queued = Queued' \cup {Head(jobs)} /\ Head(jobs) \in Runs
      <3>1. /\ Len(jobs) \in Nat \ {0} /\ Len(Tail(jobs)) = Len(jobs) - 1
            /\ Head(jobs) = jobs[1] /\ jobs[1] \in Runs
            /\ \A i \in 1..(Len(jobs) - 1) : Tail(jobs)[i] = jobs[i + 1]
            /\ DOMAIN jobs = 1..Len(jobs) /\ DOMAIN jobs' = 1..(Len(jobs) - 1)
        BY <2>1
      <3>2. \A q \in Queued' : q \in Queued
        BY <2>1, <3>1 DEF Queued
      <3>3. ASSUME NEW i \in 1..Len(jobs), i # 1
            PROVE  i - 1 \in DOMAIN jobs' /\ jobs'[i - 1] = jobs[i]
        <4>1. i - 1 \in 1..(Len(jobs) - 1)
          BY <3>1, <3>3
        <4> QED
          BY <2>1, <3>1, <4>1
      <3>4. ASSUME NEW q \in Queued  PROVE q = jobs[1] \/ q \in Queued'
        <4>1. PICK i \in 1..Len(jobs) : q = jobs[i]
          BY <3>1 DEF Queued
        <4> QED
          BY <3>3, <4>1 DEF Queued
      <3>5. jobs[1] \in Queued
        BY <3>1 DEF Queued
      <3> QED
        BY <3>1, <3>2, <3>4, <3>5
    <2>3. \A v \in Workers : v # w => wpc'[v] = wpc[v] /\ wjob'[v] = wjob[v]
      BY <2>1
    <2>4. Waiting' = Waiting
      BY <2>1, <2>2, <2>3 DEF Waiting
    <2>5. Working' = Working
      BY <2>1, <2>3 DEF Working, InHand
    <2>6. Gone' = Gone /\ Dead' = Dead /\ ActiveWorkers' = ActiveWorkers
      BY <2>1, <2>3, <2>4, <2>5 DEF Gone, Dead, ActiveWorkers
    <2> QED
      BY <2>1, <2>4, <2>5, <2>6 DEF Moves, Stays
  <1>2. CASE Dequeue(w)
    <2>1. /\ UNCHANGED <<active, spc, jobs, wjob>>
          /\ pending' = IF pending > 0 THEN pending - 1 ELSE 0
          /\ wpc[w] = "taken" /\ wpc' = [wpc EXCEPT ![w] = "check"]
      BY <1>2 DEF Dequeue
    <2>2. \A v \in Workers : v # w => wpc'[v] = wpc[v] /\ wjob[v] # wjob[w]
      BY <1>0, <2>1
    <2>3. wjob[w] \in Waiting
      BY <1>0, <2>1 DEF Waiting
    <2>4. Waiting' = Waiting \ {wjob[w]}
      BY <1>0, <2>1, <2>2 DEF Waiting, Queued
    <2>5. Working' = Working \cup {wjob[w]}
      BY <1>0, <2>1, <2>2 DEF Working, InHand
    <2>6. Gone' = Gone /\ Dead' = Dead /\ ActiveWorkers' = ActiveWorkers
      BY <2>1, <2>2, <2>3, <2>4, <2>5 DEF Gone, Dead, ActiveWorkers
    <2> QED
      BY <2>1, <2>3, <2>4, <2>5, <2>6 DEF Moves, Picked
  <1>3. CASE Activate(w)
    <2>1. /\ UNCHANGED <<pending, spc, jobs, wjob>> /\ active' = active + 1
          /\ wpc[w] = "check" /\ wpc' = [wpc EXCEPT ![w] = "begin"]
      BY <1>3 DEF Activate
    <2>2. \A v \in Workers : v # w => wpc'[v] = wpc[v]
      BY <2>1
    <2>3. Waiting' = Waiting /\ Working' = Working
      BY <2>1, <2>2 DEF Waiting, Working, InHand, Queued
    <2>4. Gone' = Gone /\ Dead' = Dead
      BY <2>1, <2>2, <2>3 DEF Gone, Dead
    <2>5. w \notin ActiveWorkers /\ ActiveWorkers' = ActiveWorkers \cup {w}
      BY <2>1, <2>2 DEF ActiveWorkers
    <2> QED
      BY <2>1, <2>3, <2>4, <2>5 DEF Moves, Starts
  <1>4. CASE Skip(w) \/ Finish(w) \/ Break(w)
    <2>1. /\ UNCHANGED <<pending, spc, jobs>> /\ wjob' = [wjob EXCEPT ![w] = NoRun]
          /\ wpc[w] \in {"check", "finish", "spawn"} /\ wpc'[w] \in {"idle", "dead"}
          /\ \A v \in Workers : v # w => wpc'[v] = wpc[v] /\ wjob'[v] = wjob[v]
      BY <1>4 DEF Skip, Finish, Break
    <2>2. \A v \in Workers : v # w => wjob[v] # wjob[w]
      BY <1>0, <2>1
    <2>3. wjob[w] \in Working
      BY <1>0, <2>1 DEF Working, InHand
    <2>4. Waiting' = Waiting
      BY <1>0, <2>1 DEF Waiting, Queued
    <2>5. Working' = Working \ {wjob[w]}
      <3>1. ~InHand(w)'
        BY <2>1 DEF InHand
      <3>2. \A v \in Workers : v # w => InHand(v)' = InHand(v)
        BY <2>1 DEF InHand
      <3> QED
        BY ONLY <2>1, <2>2, <3>1, <3>2 DEF Working
    <2>6. wjob[w] \notin Waiting
      <3>1. spc[wjob[w]] # "reserved" /\ wjob[w] \notin Queued
        BY <1>0, <2>1
      <3>2. \A v \in Workers : ~(wpc[v] = "taken" /\ wjob[v] = wjob[w])
        BY <2>1, <2>2
      <3> QED
        BY ONLY <3>1, <3>2 DEF Waiting
    <2>7. Gone' = Gone \cup {wjob[w]}
      BY <1>0, <2>1, <2>3, <2>4, <2>5, <2>6 DEF Gone
    <2>8. Leaves(w)
      BY <2>1, <2>3, <2>4, <2>5, <2>7 DEF Leaves
    <2>9. CASE Skip(w)
      <3>1. wpc[w] = "check" /\ wpc' = [wpc EXCEPT ![w] = "idle"] /\ UNCHANGED active
        BY <2>9 DEF Skip
      <3>2. Dead' = Dead /\ ActiveWorkers' = ActiveWorkers
        BY <3>1 DEF Dead, ActiveWorkers
      <3> QED
        BY <2>8, <3>1, <3>2 DEF Moves
    <2>10. CASE Finish(w)
      <3>1. wpc[w] = "finish" /\ wpc' = [wpc EXCEPT ![w] = "idle"]
            /\ active' = IF active > 0 THEN active - 1 ELSE 0
        BY <2>10 DEF Finish
      <3>2. Dead' = Dead /\ w \in ActiveWorkers /\ ActiveWorkers' = ActiveWorkers \ {w}
        BY <3>1 DEF Dead, ActiveWorkers
      <3> QED
        BY <2>8, <3>1, <3>2 DEF Moves, Stops
    <2>11. CASE Break(w)
      <3>1. wpc[w] = "spawn" /\ wpc' = [wpc EXCEPT ![w] = "dead"]
            /\ active' = IF active > 0 THEN active - 1 ELSE 0
        BY <2>11 DEF Break
      <3>2. /\ Dead' = Dead \cup {w} /\ w \notin Dead
            /\ w \in ActiveWorkers /\ ActiveWorkers' = ActiveWorkers \ {w}
        BY <3>1 DEF Dead, ActiveWorkers
      <3> QED
        BY <2>8, <3>1, <3>2 DEF Moves, Stops
    <2> QED
      BY <1>4, <2>9, <2>10, <2>11
  <1>5. CASE ~(Take(w) \/ Dequeue(w) \/ Activate(w) \/ Skip(w) \/ Finish(w) \/ Break(w))
    <2>1. /\ UNCHANGED <<spc, jobs, pending, active, wjob>>
          /\ \A v \in Workers : wpc'[v] = wpc[v] \/ {wpc[v], wpc'[v]} \cap Idle = {}
      BY <1>5 DEF Work, Begin, SetRunning, Spawn, PostSpawn, Feed, Waited, Expire, ExpireKill,
         Collect, SetFinal, Publish, Note, Fail, Raises, Idle
    <2> QED
      BY <2>1, NoMove
  <1> QED
    BY <1>1, <1>2, <1>3, <1>4, <1>5

(* Every step. *)
LEMMA NextMoves ==
  ASSUME TypeInv, Placement, [Next]_vars
  PROVE  Moves
  <1> USE DEF runVars, schedVars, workerVars, callerVars, mainVars
  <1>1. ASSUME UNCHANGED <<spc, jobs, pending, active, wjob, wpc>> PROVE Moves
    BY <1>1, NoMove
  <1>2. ASSUME NEW r \in Runs, Evict(r) \/ CliExit(r) PROVE Moves
    BY <1>1, <1>2 DEF Evict, CliExit
  <1>3. ASSUME NEW c \in Callers, Cancel(c) PROVE Moves
    BY <1>1, <1>3 DEF Cancel, CancelRequest, CancelLook, CancelInPlace, CancelAnswer,
       CancelProcess, CancelKill, CancelMark
  <1>4. ASSUME NEW c \in Clients, CancelCall(c) PROVE Moves
    BY <1>1, <1>4 DEF CancelCall
  <1>5. CASE Shutdown
    BY <1>1, <1>5 DEF Shutdown, SigTerm, DrainList, DrainNext, DrainDone, CleanExit, DeadlineExit
  <1>6. CASE UNCHANGED vars
    BY <1>1, <1>6 DEF vars
  <1> QED
    BY <1>2, <1>3, <1>4, <1>5, <1>6, SubmitMoves, WorkMoves DEF Next

(* The counters count finite sets. *)
CountInv == IsFiniteSet(Waiting) /\ IsFiniteSet(ActiveWorkers) /\ CountersExact

(* At first there is nothing to count. *)
LEMMA CountInit == Init => CountInv
  <1> SUFFICES ASSUME Init PROVE CountInv
    OBVIOUS
  <1>1. Waiting = {} /\ ActiveWorkers = {}
    BY DEF Init, Waiting, Queued, ActiveWorkers
  <1> QED
    BY <1>1, FS_EmptySet DEF Init, CountInv, CountersExact

(* A move counts what it moves, and the clamps at zero are never needed. *)
LEMMA CountNext == ASSUME CountInv, Moves PROVE CountInv'
  <1>0. /\ IsFiniteSet(Waiting) /\ IsFiniteSet(ActiveWorkers)
        /\ pending = Cardinality(Waiting) /\ active = Cardinality(ActiveWorkers)
        /\ pending \in Nat /\ active \in Nat
    BY FS_CardinalityType DEF CountInv, CountersExact
  <1>1. IsFiniteSet(Waiting') /\ pending' = Cardinality(Waiting')
    <2>1. CASE UNCHANGED <<Waiting, pending>>
      BY <1>0, <2>1
    <2>2. ASSUME NEW r \in Runs, Comes(r) PROVE <1>1
      BY <1>0, <2>2, FS_AddElement DEF Comes
    <2>3. ASSUME NEW w \in Workers, Picked(w) PROVE <1>1
      <3>1. Cardinality(Waiting \ {wjob[w]}) = pending - 1 /\ IsFiniteSet(Waiting \ {wjob[w]})
        BY <1>0, <2>3, FS_RemoveElement DEF Picked
      <3>2. Waiting # {}
        BY <2>3 DEF Picked
      <3>3. pending > 0
        BY <1>0, <3>2, FS_EmptySet
      <3> QED
        BY <2>3, <3>1, <3>3 DEF Picked
    <2> QED
      BY <2>1, <2>2, <2>3 DEF Moves, Stays, Starts, Leaves
  <1>2. IsFiniteSet(ActiveWorkers') /\ active' = Cardinality(ActiveWorkers')
    <2>1. CASE UNCHANGED <<ActiveWorkers, active>>
      BY <1>0, <2>1
    <2>2. ASSUME NEW w \in Workers, Starts(w) PROVE <1>2
      BY <1>0, <2>2, FS_AddElement DEF Starts
    <2>3. ASSUME NEW w \in Workers, Stops(w) PROVE <1>2
      <3>1. Cardinality(ActiveWorkers \ {w}) = active - 1 /\ IsFiniteSet(ActiveWorkers \ {w})
        BY <1>0, <2>3, FS_RemoveElement DEF Stops
      <3>2. ActiveWorkers # {}
        BY <2>3 DEF Stops
      <3>3. active > 0
        BY <1>0, <3>2, FS_EmptySet
      <3> QED
        BY <2>3, <3>1, <3>3 DEF Stops
    <2> QED
      BY <2>1, <2>2, <2>3 DEF Moves, Stays, Comes, Picked
  <1> QED
    BY <1>1, <1>2 DEF CountInv, CountersExact

(* The counters of the scheduler are exact in every reachable state. *)
LEMMA CountInvariant == Spec => [](TypeInv /\ Placement /\ CountInv)
  <1>1. Init => TypeInv /\ Placement /\ CountInv
    BY TypeInit, PlacementInit, CountInit
  <1>2. TypeInv /\ Placement /\ CountInv /\ [Next]_vars => (TypeInv /\ Placement /\ CountInv)'
    BY TypeNext, PlacementNext, NextMoves, CountNext
  <1> QED
    BY <1>1, <1>2, PTL DEF Spec

(* pending and active, by which a run is refused and which /health shows. *)
THEOREM CountersAreExact == Spec => []CountersExact
  BY CountInvariant, PTL DEF CountInv

-----------------------------------------------------------------------------
(* Why two published results agree.  A canceller that answers for a queued *)
(* run raised the flag before the worker took the run over, so a worker    *)
(* that sees no flag when it classifies the outcome has no such canceller  *)
(* beside it and no result before it; one that sees the flag classifies    *)
(* the run as canceled, and so does the status it publishes.               *)
Over(r) ==
  /\ spc[r] = "accepted"
  /\ \A i \in DOMAIN jobs : jobs[i] # r
  /\ \A w \in Workers : wjob[w] = r => wpc[w] \in {"published", "finish"}

TakenOver ==
  {"spawn", "spawned", "feed", "wait", "expired", "collect", "classified", "publish"}

Answers(r) == \E c \in Callers : cpc[c] \in {"inplace", "answer"} /\ crun[c] = r

Good == {"done", "verification_pending", "approval_required"}

ResultInv ==
  /\ \A w \in Workers : wpc[w] \in TakenOver => status[wjob[w]] # "queued"
  /\ \A r \in Runs : result[r] \notin {"none", "canceled"} => status[r] # "queued"
  /\ \A r \in Runs :
       result[r] # "none" /\ ~(cancelReq[r] /\ result[r] = "canceled") => Over(r)
  /\ \A w \in Workers : wpc[w] = "classified" /\ wfinal[w] # "canceled" =>
       result[wjob[w]] = "none" /\ ~Answers(wjob[w])
  /\ \A w \in Workers :
       /\ wpc[w] = "publish"
       /\ result[wjob[w]] # "none" \/ Answers(wjob[w])
       => status[wjob[w]] = "canceled"
  /\ \A r \in Runs : status[r] \in Good => result[r] # "canceled" /\ ~Answers(r)
  /\ \A r \in Runs : Answers(r) => result[r] \in {"none", "canceled"}

(* A submission publishes nothing. *)
LEMMA SubmitResult ==
  ASSUME TypeInv, Placement, CancelInv, ResultInv, NEW r \in Runs, Submit(r)
  PROVE  ResultInv'
  <1> USE RunLifecycleAssumption DEF TypeInv, TypeOK, HandsFull, ResultInv, Over, Answers, Good,
        TakenOver, runVars, schedVars, workerVars, callerVars, mainVars
  <1>1. CASE Admit(r)
    BY <1>1 DEF Admit
  <1>2. CASE Create(r)
    BY <1>2 DEF Create
  <1>3. CASE Reserve(r)
    BY <1>3 DEF Reserve
  <1>4. CASE Reject(r)
    BY <1>4 DEF Reject
  <1>5. CASE Enqueue(r)
    BY <1>5 DEF Enqueue
  <1> QED BY <1>1, <1>2, <1>3, <1>4, <1>5 DEF Submit

(* The steps of a worker. *)
LEMMA WorkResult ==
  ASSUME TypeInv, Placement, CancelInv, ResultInv, NEW w \in Workers, Work(w) \/ Expire(w)
  PROVE  ResultInv'
  <1> USE RunLifecycleAssumption DEF TypeInv, TypeOK, HandsFull, ResultInv, Over, Answers, Good,
        TakenOver, runVars, schedVars, workerVars, callerVars, mainVars
  <1>1. CASE Take(w)
    BY <1>1 DEF Take, MoveTo, Placement
  <1>2. CASE Dequeue(w)
    BY <1>2 DEF Dequeue, MoveTo, Placement
  <1>3. CASE Skip(w)
    BY <1>3 DEF Skip, MoveTo, Placement
  <1>4. CASE Activate(w)
    BY <1>4 DEF Activate, MoveTo, Placement
  <1>5. CASE Begin(w)
    BY <1>5 DEF Begin, MoveTo, Placement
  <1>6. CASE SetRunning(w)
    <2>1. /\ wpc[w] = "start" /\ wpc' = [wpc EXCEPT ![w] = "spawn"] /\ wjob[w] \in Runs
          /\ status' = [status EXCEPT ![wjob[w]] = "running"]
          /\ UNCHANGED <<cancelReq, result, jobs, spc, wjob, wfinal, cpc, crun>>
      BY <1>6 DEF SetRunning, MoveTo
    <2>2. \A v \in Workers : v # w => wpc'[v] = wpc[v] /\ wjob[v] # wjob[w]
      BY <2>1 DEF Placement
    <2>3. \A r \in Runs : Over(r) => Over(r)'
      BY <2>1
    <2> QED
      BY <2>1, <2>2, <2>3
  <1>7. CASE Break(w)
    BY <1>7 DEF Break, MoveTo, Placement
  <1>8. CASE Spawn(w)
    BY <1>8 DEF Spawn, MoveTo, Placement
  <1>9. CASE PostSpawn(w)
    BY <1>9 DEF PostSpawn, MoveTo, Placement
  <1>10. CASE Feed(w)
    BY <1>10 DEF Feed, MoveTo, Placement
  <1>11. CASE Waited(w)
    BY <1>11 DEF Waited, MoveTo, Placement
  <1>12. CASE Expire(w)
    BY <1>12 DEF Expire, MoveTo, Placement
  <1>13. CASE ExpireKill(w)
    BY <1>13 DEF ExpireKill, MoveTo, Placement
  <1>14. CASE Collect(w)
    BY <1>14 DEF Collect, MoveTo, CancelInv, Placement
  <1>15. CASE SetFinal(w)
    <2>1. /\ wpc[w] = "classified" /\ wpc' = [wpc EXCEPT ![w] = "publish"] /\ wjob[w] \in Runs
          /\ status' = [status EXCEPT ![wjob[w]] = wfinal[w]]
          /\ wfinal[w] \in CliOutcomes \cup {"canceled"}
          /\ UNCHANGED <<cancelReq, result, jobs, spc, wjob, wfinal, cpc, crun>>
      BY <1>15 DEF SetFinal, MoveTo
    <2>2. \A v \in Workers : v # w => wpc'[v] = wpc[v] /\ wjob[v] # wjob[w]
      BY <2>1 DEF Placement
    <2>3. \A r \in Runs : Over(r) => Over(r)'
      BY <2>1
    <2>4. status'[wjob[w]] # "queued" /\ status'[wjob[w]] = wfinal[w]
      BY <2>1 DEF CliOutcomes
    <2> QED
      BY <2>1, <2>2, <2>3, <2>4
  <1>16. CASE Publish(w)
    <2>1. /\ wpc[w] = "publish" /\ wpc' = [wpc EXCEPT ![w] = "published"] /\ wjob[w] \in Runs
          /\ result' = [result EXCEPT ![wjob[w]] = status[wjob[w]]]
          /\ UNCHANGED <<status, cancelReq, jobs, spc, wjob, wfinal, cpc, crun>>
      BY <1>16 DEF Publish, MoveTo
    <2>2. \A v \in Workers : v # w => wpc'[v] = wpc[v] /\ wjob[v] # wjob[w]
      BY <2>1 DEF Placement
    <2>3. \A r \in Runs : Over(r) => Over(r)'
      BY <2>1
    <2>4. Over(wjob[w])'
      BY <2>1, <2>2 DEF Placement
    <2>5. status[wjob[w]] # "queued" /\ result'[wjob[w]] = status[wjob[w]]
      BY <2>1
    <2>6. \A r \in Runs : r # wjob[w] => result'[r] = result[r]
      BY <2>1
    <2> QED
      BY <2>1, <2>2, <2>3, <2>4, <2>5, <2>6
  <1>17. CASE Fail(w)
    BY <1>17 DEF Fail, MoveTo, Raises, Placement
  <1>18. CASE Finish(w)
    BY <1>18 DEF Finish, MoveTo, Placement
  <1>19. CASE Note(w)
    BY <1>19 DEF Note, MoveTo, Placement
  <1> QED BY <1>1, <1>2, <1>3, <1>4, <1>5, <1>6, <1>7, <1>8, <1>9, <1>10, <1>11, <1>12, <1>13, <1>14, <1>15, <1>16, <1>17, <1>18, <1>19 DEF Work

(* A canceller that only moves on leaves the results in agreement. *)
LEMMA CancellerMovesOn ==
  ASSUME TypeInv, ResultInv,
         UNCHANGED <<status, cancelReq, result, jobs, spc, workerVars>>,
         \A c \in Callers : cpc'[c] \in {"inplace", "answer"} =>
           cpc[c] \in {"inplace", "answer"} /\ crun'[c] = crun[c]
  PROVE  ResultInv'
  <1>1. \A r : Answers(r)' => Answers(r)
    BY DEF Answers
  <1>2. \A r \in Runs : Over(r)' = Over(r)
    BY DEF Over, workerVars
  <1>3. \A w \in Workers : Answers(wjob[w])' => Answers(wjob[w])
    BY <1>1 DEF workerVars
  <1> QED
    BY <1>1, <1>2, <1>3 DEF ResultInv, workerVars

(* The steps of a canceller. *)
LEMMA CancelResult ==
  ASSUME TypeInv, Placement, CancelInv, ResultInv, NEW c \in Callers, Cancel(c)
  PROVE  ResultInv'
  <1> USE RunLifecycleAssumption DEF TypeInv, TypeOK, HandsFull, ResultInv, Over, Answers, Good,
        TakenOver, runVars, schedVars, workerVars, callerVars, mainVars
  <1>1. CASE CancelRequest(c)
    BY <1>1 DEF CancelRequest, Go
  <1>2. CASE CancelLook(c)
    BY <1>2 DEF CancelLook, Go, Return, Busy, CancelInv
  <1>3. CASE CancelInPlace(c)
    BY <1>3 DEF CancelInPlace, Go
  <1>4. CASE CancelAnswer(c)
    <2>1. /\ cpc[c] = "answer" /\ cpc' = [cpc EXCEPT ![c] = "idle"] /\ crun[c] \in Runs
          /\ result' = [result EXCEPT ![crun[c]] = "canceled"]
          /\ crun' = [crun EXCEPT ![c] = NoRun]
          /\ UNCHANGED <<status, cancelReq, jobs, spc, workerVars>>
      BY <1>4 DEF CancelAnswer, Go, Return
    <2>2. cancelReq[crun[c]] /\ Answers(crun[c])
      BY <2>1 DEF CancelInv
    <2>3. \A r \in Runs : Answers(r)' => Answers(r)
      BY <2>1
    <2>4. \A r \in Runs : Over(r)' = Over(r)
      BY <2>1
    <2>5. /\ result'[crun[c]] = "canceled"
          /\ \A r \in Runs : r # crun[c] => result'[r] = result[r]
      BY <2>1
    <2> HIDE DEF Over, Answers
    <2>6. \A r \in Runs :
            result'[r] # "none" /\ ~(cancelReq[r] /\ result'[r] = "canceled") => Over(r)'
      BY <2>2, <2>4, <2>5
    <2>7. /\ \A r \in Runs : status[r] \in Good => result'[r] # "canceled"
          /\ \A r \in Runs : Answers(r)' => result'[r] \in {"none", "canceled"}
          /\ \A r \in Runs : result'[r] \notin {"none", "canceled"} => status[r] # "queued"
      BY <2>2, <2>3, <2>5
    <2>8. \A r \in Runs : ~Answers(r) => result'[r] = result[r]
      BY <2>2, <2>5
    <2>9. \A w \in Workers : wpc[w] \notin {"idle", "dead"} => wjob[w] \in Runs
      OBVIOUS
    <2>10. ASSUME NEW w \in Workers, wpc[w] = "classified", wfinal[w] # "canceled"
           PROVE  result'[wjob[w]] = "none" /\ ~Answers(wjob[w])'
      <3>1. result[wjob[w]] = "none" /\ ~Answers(wjob[w]) /\ wjob[w] \in Runs
        BY <2>9, <2>10
      <3> QED
        BY <2>1, <2>3, <2>8, <3>1
    <2>11. ASSUME NEW w \in Workers, wpc[w] = "publish",
                  result'[wjob[w]] # "none" \/ Answers(wjob[w])'
           PROVE  status[wjob[w]] = "canceled"
      <3>1. wjob[w] \in Runs /\ wjob'[w] = wjob[w]
        BY <2>1, <2>9, <2>11
      <3>2. Answers(wjob[w]) \/ result[wjob[w]] # "none"
        BY <2>3, <2>8, <2>11, <3>1
      <3> QED
        BY <2>11, <3>2
    <2>12. wpc' = wpc /\ wjob' = wjob /\ wfinal' = wfinal /\ status' = status /\ cancelReq' = cancelReq
      BY <2>1
    <2>13. /\ \A w \in Workers : wpc[w] \in TakenOver => status[wjob[w]] # "queued"
           /\ \A r \in Runs : status[r] \in Good => ~Answers(r)'
      BY <2>3
    <2> HIDE DEF TypeInv, TypeOK, HandsFull
    <2> QED
      BY <2>6, <2>7, <2>10, <2>11, <2>12, <2>13
  <1>5. CASE CancelProcess(c)
    <2>1. /\ UNCHANGED <<status, cancelReq, result, jobs, spc, workerVars>>
          /\ \A a \in Callers : a # c => cpc'[a] = cpc[a] /\ crun'[a] = crun[a]
          /\ cpc'[c] \in {"idle", "kill"}
      BY <1>5 DEF CancelProcess, Go, Return
    <2> HIDE DEF TypeInv, ResultInv, workerVars
    <2> QED
      BY <2>1, CancellerMovesOn
  <1>6. CASE CancelKill(c)
    <2>1. /\ UNCHANGED <<status, cancelReq, result, jobs, spc, workerVars>>
          /\ \A a \in Callers : a # c => cpc'[a] = cpc[a] /\ crun'[a] = crun[a]
          /\ cpc'[c] = "mark"
      BY <1>6 DEF CancelKill, Go
    <2> HIDE DEF TypeInv, ResultInv, workerVars
    <2> QED
      BY <2>1, CancellerMovesOn
  <1>7. CASE CancelMark(c)
    BY <1>7 DEF CancelMark, Go, Return
  <1> QED BY <1>1, <1>2, <1>3, <1>4, <1>5, <1>6, <1>7 DEF Cancel

(* No run has a result at first. *)
LEMMA ResultInit == Init => ResultInv
  BY DEF Init, ResultInv, TakenOver, Answers, Good, CliOutcomes

(* Every step keeps published results in agreement. *)
LEMMA ResultNext ==
  ASSUME TypeInv, Placement, CancelInv, ResultInv, [Next]_vars
  PROVE  ResultInv'
  <1> USE DEF TypeInv, TypeOK, HandsFull, ResultInv, Over, Answers, Good, TakenOver,
        runVars, schedVars, workerVars, callerVars, mainVars
  <1>1. ASSUME UNCHANGED <<status, cancelReq, result, jobs, spc, workerVars, callerVars>>
        PROVE  ResultInv'
    BY <1>1
  <1>2. ASSUME NEW r \in Runs, Evict(r) \/ CliExit(r)  PROVE ResultInv'
    BY <1>1, <1>2 DEF Evict, CliExit
  <1>3. ASSUME NEW c \in Clients, CancelCall(c)  PROVE ResultInv'
    BY <1>3 DEF CancelCall, Go, Callers
  <1>4. CASE DrainNext
    BY <1>4 DEF DrainNext, Go, Callers
  <1>5. CASE Shutdown /\ ~DrainNext
    BY <1>1, <1>5 DEF Shutdown, SigTerm, DrainList, DrainDone, CleanExit, DeadlineExit
  <1>6. CASE UNCHANGED vars
    BY <1>1, <1>6 DEF vars
  <1> QED
    BY <1>2, <1>3, <1>4, <1>5, <1>6, SubmitResult, WorkResult, CancelResult DEF Next

(* So they agree in every reachable state. *)
LEMMA ResultInvariant == Spec => [](TypeInv /\ Placement /\ CancelInv /\ ResultInv)
  <1>1. Init => TypeInv /\ Placement /\ CancelInv /\ ResultInv
    BY TypeInit, PlacementInit, CancelInit, ResultInit
  <1>2. TypeInv /\ Placement /\ CancelInv /\ ResultInv /\ [Next]_vars
          => (TypeInv /\ Placement /\ CancelInv /\ ResultInv)'
    BY TypeNext, PlacementNext, CancelNext, ResultNext
  <1> QED
    BY <1>1, <1>2, PTL DEF Spec

(* A run whose result says "canceled" never succeeds after all. *)
THEOREM CanceledIsFinal == Spec => []CanceledResultIsFinal
  <1>1. ResultInv => CanceledResultIsFinal
    BY DEF ResultInv, Good, CanceledResultIsFinal
  <1> QED
    BY <1>1, ResultInvariant, PTL

(* A worker and a canceller that both publish a result agree on it. *)
THEOREM ResultsAreStable == Spec => ResultStable
  <1>1. ASSUME TypeInv, Placement, CancelInv, ResultInv, [Next]_vars
        PROVE  [\A r \in Runs : result[r] # "none" => result'[r] = result[r]]_vars
    <2> SUFFICES ASSUME Next, NEW r \in Runs, result[r] # "none"
                 PROVE  result'[r] = result[r]
      BY <1>1
    <2> USE <1>1 DEF TypeInv, TypeOK, HandsFull, runVars
    <2>1. CASE UNCHANGED result
      BY <2>1
    <2>2. ASSUME NEW w \in Workers, Publish(w)  PROVE result'[r] = result[r]
      <3>1. /\ wpc[w] = "publish" /\ wjob[w] \in Runs
            /\ result' = [result EXCEPT ![wjob[w]] = status[wjob[w]]]
        BY <2>2 DEF Publish
      <3>2. CASE wjob[w] = r
        <4>1. status[r] = "canceled"
          BY <3>1, <3>2 DEF ResultInv
        <4>2. result[r] = "canceled"
          BY <3>1, <3>2 DEF ResultInv, Over
        <4> QED
          BY <3>1, <3>2, <4>1, <4>2
      <3> QED
        BY <3>1, <3>2
    <2>3. ASSUME NEW c \in Callers, CancelAnswer(c)  PROVE result'[r] = result[r]
      <3>1. cpc[c] = "answer" /\ result' = [result EXCEPT ![crun[c]] = "canceled"]
        BY <2>3 DEF CancelAnswer
      <3> QED
        BY <3>1 DEF ResultInv, Answers
    <2> QED
      BY <2>1, <2>2, <2>3
      DEF Next, Submit, Admit, Create, Reserve, Reject, Enqueue, Evict, CliExit, CancelCall,
          Work, Expire, Take, Dequeue, Skip, Activate, Begin, SetRunning, Break, Spawn,
          PostSpawn, Feed, Waited, ExpireKill, Collect, SetFinal, Note, Fail, Finish,
          Cancel, CancelRequest, CancelLook, CancelInPlace, CancelProcess, CancelKill,
          CancelMark, Shutdown, SigTerm, DrainList, DrainNext, DrainDone, CleanExit, DeadlineExit
  <1> QED
    BY <1>1, ResultInvariant, PTL DEF Spec, ResultStable

-----------------------------------------------------------------------------
(* The pool keeps the promises of BoundedPool: what a step moves, a step   *)
(* of BoundedPool moves.                                                   *)
Holders == {w \in Workers : InHand(w)}

(* A worker that is not at a run leaves room for one more: the others hold *)
(* one run each, and no two of them the same.                              *)
LEMMA RoomForOne ==
  ASSUME TypeInv, NEW w \in Workers, wpc[w] = "taken"
  PROVE  Cardinality(Working) + Cardinality(Dead) < Cardinality(Workers)
  <1>1. IsFiniteSet(Workers) /\ IsFiniteSet(Holders) /\ IsFiniteSet(Dead)
    BY RunLifecycleAssumption, FS_Subset DEF Holders, Dead
  <1>2. Cardinality(Working) <= Cardinality(Holders) /\ IsFiniteSet(Working)
    <2> DEFINE held == [v \in Holders |-> wjob[v]]
    <2>1. held \in Surjection(Holders, Working)
      <3>1. \A v \in Holders : v \in Workers /\ wjob[v] \in Runs /\ wjob[v] \in Working
        BY DEF Holders, Working, InHand, TypeInv, HandsFull
      <3>2. \A r \in Working : \E v \in Holders : wjob[v] = r
        BY DEF Holders, Working
      <3> QED
        BY <3>1, <3>2 DEF Surjection
    <2> QED
      BY <1>1, <2>1, FS_Surjection
  <1>3. Cardinality(Holders \cup Dead) = Cardinality(Holders) + Cardinality(Dead)
    <2>1. Holders \cap Dead = {}
      BY DEF Holders, Dead, InHand
    <2>2. Cardinality(Holders \cap Dead) = 0
      BY <2>1, FS_EmptySet
    <2>3. Cardinality(Holders) \in Nat /\ Cardinality(Dead) \in Nat
      BY <1>1, FS_CardinalityType
    <2>4. Cardinality(Holders \cup Dead)
            = Cardinality(Holders) + Cardinality(Dead) - Cardinality(Holders \cap Dead)
      BY ONLY <1>1, FS_Union
    <2> QED
      BY ONLY <2>2, <2>3, <2>4
  <1>4. Cardinality(Holders \cup Dead) <= Cardinality(Workers \ {w})
    <2>1. Holders \cup Dead \subseteq Workers \ {w}
      BY DEF Holders, Dead, InHand
    <2> QED
      BY <1>1, <2>1, FS_RemoveElement, FS_Subset
  <1>5. Cardinality(Workers \ {w}) = Cardinality(Workers) - 1
    BY <1>1, FS_RemoveElement
  <1> QED
    BY <1>1, <1>2, <1>3, <1>4, <1>5, FS_CardinalityType

(* At first the pool is empty. *)
LEMMA PoolStarts == Init => Pool!PoolInit
  <1> SUFFICES ASSUME Init PROVE Pool!PoolInit
    OBVIOUS
  <1>1. Waiting = {} /\ Working = {}
    BY DEF Init, Waiting, Working, Queued, InHand
  <1>2. Gone = {} /\ Dead = {}
    BY DEF Init, Gone, Dead
  <1> QED
    BY <1>1, <1>2, FS_EmptySet DEF Pool!PoolInit

(* BoundedPool counts as the scheduler does. *)
LEMMA SameCount == ASSUME NEW S PROVE Pool!Cardinality(S) = Cardinality(S)
  BY DEF Pool!Cardinality, Cardinality, Pool!IsFiniteSet, IsFiniteSet

(* What a step moves, a step of BoundedPool moves. *)
LEMMA PoolMoves ==
  ASSUME TypeInv, CountInv, Moves
  PROVE  [Pool!PoolNext]_Pool!poolVars
  <1>1. Waiting \subseteq Runs /\ Working \subseteq Runs /\ IsFiniteSet(Dead)
    BY RunLifecycleAssumption, FS_Subset DEF Waiting, Working, Dead
  <1>2. CASE Stays
    BY <1>2 DEF Stays, Pool!poolVars
  <1>3. ASSUME NEW r \in Runs, Comes(r)  PROVE Pool!PoolNext
    <2>1. Cardinality(Waiting) < MaxQueue /\ Cardinality(Dead') = Cardinality(Dead)
      BY <1>3 DEF Comes, CountInv, CountersExact
    <2>2. Pool!Enter(r)
      BY <1>3, <2>1, SameCount DEF Comes, Pool!Enter
    <2> QED
      BY <2>2 DEF Pool!PoolNext
  <1>4. ASSUME NEW w \in Workers, Picked(w)  PROVE Pool!PoolNext
    <2>1. /\ Cardinality(Working) + Cardinality(Dead) < Cardinality(Workers)
          /\ Cardinality(Dead') = Cardinality(Dead)
      BY <1>4, RoomForOne DEF Picked
    <2>2. Pool!Pick(wjob[w])
      BY <1>4, <2>1, SameCount DEF Picked, Pool!Pick
    <2> QED
      BY <1>1, <1>4, <2>2 DEF Pool!PoolNext, Picked
  <1>5. ASSUME NEW w \in Workers, Starts(w)  PROVE UNCHANGED Pool!poolVars
    BY <1>5 DEF Starts, Pool!poolVars
  <1>6. ASSUME NEW w \in Workers, Leaves(w), UNCHANGED Dead  PROVE Pool!PoolNext
    <2>1. Pool!Leave(wjob[w])
      BY <1>6 DEF Leaves, Pool!Leave
    <2> QED
      BY <1>1, <1>6, <2>1 DEF Pool!PoolNext, Leaves
  <1>7. ASSUME NEW w \in Workers, Leaves(w), Dead' = Dead \cup {w}, w \notin Dead
        PROVE  Pool!PoolNext
    <2>1. Cardinality(Dead') = Cardinality(Dead) + 1
      BY <1>1, <1>7, FS_AddElement
    <2>2. Pool!Break(wjob[w])
      BY <1>7, <2>1 DEF Leaves, Pool!Break
    <2> QED
      BY <1>1, <1>7, <2>2 DEF Pool!PoolNext, Leaves
  <1> QED
    BY <1>2, <1>3, <1>4, <1>5, <1>6, <1>7 DEF Moves

(* The daemon's scheduler implements BoundedPool. *)
THEOREM PoolIsBounded == Spec => ImplementsBoundedPool
  <1>1. TypeInv /\ Placement /\ CountInv /\ [Next]_vars => [Pool!PoolNext]_Pool!poolVars
    BY NextMoves, PoolMoves
  <1> QED
    BY <1>1, PoolStarts, CountInvariant, PTL DEF Spec, ImplementsBoundedPool, Pool!PoolSpec
=============================================================================
