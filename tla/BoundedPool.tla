---------------------------- MODULE BoundedPool ----------------------------
(***************************************************************************)
(* What the daemon promises about its worker pool, whatever the threads of *)
(* the implementation do: at most MaxQueue runs wait for a worker, at most *)
(* MaxWorkers are in the hands of one, a run goes through the pool once    *)
(* and in one direction, and a worker that breaks takes its place in the   *)
(* pool with it.  RunLifecycle implements this specification.              *)
(***************************************************************************)
EXTENDS Naturals, FiniteSets

CONSTANTS Runs,        \* runs that clients may submit
          MaxQueue,    \* RunScheduler.max_queue
          MaxWorkers   \* RunScheduler.max_workers

VARIABLES waiting,     \* accepted and not yet in a worker's hands
          working,     \* in a worker's hands
          gone,        \* left the pool
          lost         \* workers that broke

poolVars == <<waiting, working, gone, lost>>

PoolTypeOK ==
  /\ waiting \subseteq Runs
  /\ working \subseteq Runs
  /\ gone \subseteq Runs
  /\ lost \in Nat

PoolInit ==
  /\ waiting = {}
  /\ working = {}
  /\ gone = {}
  /\ lost = 0

(* A run is accepted: only new runs, only while the queue has room. *)
Enter(r) ==
  /\ r \notin waiting \cup working \cup gone
  /\ Cardinality(waiting) < MaxQueue
  /\ waiting' = waiting \cup {r}
  /\ UNCHANGED <<working, gone, lost>>

(* A worker takes a waiting run: only while a sound worker is free. *)
Pick(r) ==
  /\ r \in waiting
  /\ Cardinality(working) + lost < MaxWorkers
  /\ waiting' = waiting \ {r}
  /\ working' = working \cup {r}
  /\ UNCHANGED <<gone, lost>>

(* The worker is through with the run and free again. *)
Leave(r) ==
  /\ r \in working
  /\ working' = working \ {r}
  /\ gone' = gone \cup {r}
  /\ UNCHANGED <<waiting, lost>>

(* The run breaks its worker. *)
Break(r) ==
  /\ r \in working
  /\ working' = working \ {r}
  /\ gone' = gone \cup {r}
  /\ lost' = lost + 1
  /\ UNCHANGED waiting

PoolNext == \E r \in Runs : Enter(r) \/ Pick(r) \/ Leave(r) \/ Break(r)

PoolSpec == PoolInit /\ [][PoolNext]_poolVars
=============================================================================
