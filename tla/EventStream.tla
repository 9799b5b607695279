----------------------------- MODULE EventStream -----------------------------
(***************************************************************************)
(* How the events of one run reach an SSE client: RecordingEventQueue and  *)
(* GET /runs/<id>/events in daemon/server.py.                              *)
(*                                                                         *)
(* put gives the event a number, appends it to the run's log, cuts the log *)
(* to its limit, saves the run (see RunStore) and puts the event into the  *)
(* live queue, which drops its oldest item when it is full.  Only the last *)
(* step holds a lock.  The threads that pump the CLI's stdout and stderr   *)
(* put events, the worker thread, and the HTTP threads that cancel or      *)
(* resume the run.  The worker joins the pumps before it puts the last     *)
(* event, unless it leaves its try clause with an exception; it joins      *)
(* nobody else.                                                            *)
(*                                                                         *)
(* A client that comes back says which number it received last: the daemon *)
(* replays the log after it and then serves from the live queue.  As the   *)
(* guide asks (docs/cli/DAEMON_SERVER_GUIDE.md:263), a client opens one    *)
(* stream at a time, but the handler of the stream it has left goes on     *)
(* until it writes.                                                        *)
(***************************************************************************)
EXTENDS Naturals, Sequences, FiniteSets

CONSTANTS
  Pumps,       \* threads that read the output of the CLI
  Worker,      \* the worker thread of the run
  Callers,     \* HTTP threads that cancel or resume the run
  Streams,     \* connections of the client, one after another
  Puts,        \* bound: events that pumps and callers put
  Casts,       \* bound: which of them put how many, and how often the
               \* client connects
  LogLimit,    \* length of event_log (512)
  QueueMax     \* length of the live queue (256)

ASSUME EventStreamAssumption ==
  /\ IsFiniteSet(Pumps) /\ IsFiniteSet(Callers)
  /\ Pumps \cap Callers = {} /\ Worker \notin Pumps \cup Callers
  /\ {Puts, LogLimit, QueueMax} \subseteq Nat \ {0}
  /\ Casts \subseteq
       [threads : SUBSET (Pumps \cup Callers), puts : 0..Puts, streams : SUBSET Streams]

Producers == Pumps \cup {Worker} \cup Callers

VARIABLES
  cast,        \* who takes part in this run
  left,        \* how many events pumps and callers may still put
  worker,      \* whether the worker has joined the pumps, or raised
  status,      \* RunState.transport_status
  log,         \* RunState.event_log
  queue,       \* the live queue
  ppc, seq,    \* producers: step of put, the number it took
  count,       \* producers: how many events they have put
  evicted,     \* the run is no longer registered
  hpc, out,    \* handlers of a connection: step, events still to write
  after,       \* handlers: the number the client received last
  alive,       \* connections whose client is still there
  got,         \* the client: events it received
  \* history
  lossy        \* the log was cut, an event left the queue unread, or two
               \* handlers were at the queue

vars == <<cast, left, worker, status, log, queue, ppc, seq, count, evicted,
          hpc, out, after, alive, got, lossy>>
producerVars == <<ppc, seq, count>>
clientVars == <<hpc, out, after, alive, got>>

Init ==
  /\ cast \in Casts
  /\ left = cast.puts
  /\ worker = "running"
  /\ status = "running"
  /\ log = <<>>
  /\ queue = <<>>
  /\ ppc = [p \in Producers |-> "idle"]
  /\ seq = [p \in Producers |-> 0]
  /\ count = [p \in Producers |-> 0]
  /\ evicted = FALSE
  /\ hpc = [c \in Streams |-> "new"]
  /\ out = [c \in Streams |-> <<>>]
  /\ after = [c \in Streams |-> 0]
  /\ alive = {}
  /\ got = <<>>
  /\ lossy = FALSE

(***************************************************************************)
(* RecordingEventQueue.put                                                 *)
(***************************************************************************)
Event(p) == [from |-> p, nth |-> count[p], seq |-> seq[p]]
Step(p, step) == ppc' = [ppc EXCEPT ![p] = step]

(* The number is the length of the log plus one. *)
Number(p) ==
  /\ ppc[p] = "number"
  /\ seq' = [seq EXCEPT ![p] = Len(log) + 1]
  /\ Step(p, "append")
  /\ UNCHANGED <<cast, left, worker, status, log, queue, count, evicted, clientVars, lossy>>

Record(p) ==
  /\ ppc[p] = "append"
  /\ log' = Append(log, Event(p))
  /\ Step(p, "cut")
  /\ UNCHANGED <<cast, left, worker, status, queue, seq, count, evicted, clientVars, lossy>>

(* Mutant of CutLog: the log grows with every event. *)
CutLogNever(p) ==
  /\ ppc[p] = "cut"
  /\ Step(p, "live")
  /\ UNCHANGED <<cast, left, worker, status, log, queue, seq, count, evicted, clientVars, lossy>>

CutLog(p) ==
  /\ ppc[p] = "cut"
  /\ log' = IF Len(log) > LogLimit
              THEN SubSeq(log, Len(log) - LogLimit + 1, Len(log))
              ELSE log
  /\ lossy' = (lossy \/ log' # log)
  /\ Step(p, "live")
  /\ UNCHANGED <<cast, left, worker, status, queue, seq, count, evicted, clientVars>>

(* Mutant of PutLive: a full queue drops the new event. *)
PutLiveDropsNewest(p) ==
  /\ ppc[p] = "live"
  /\ queue' = IF Len(queue) >= QueueMax THEN queue ELSE Append(queue, Event(p))
  /\ lossy' = (lossy \/ Len(queue) >= QueueMax)
  /\ seq' = [seq EXCEPT ![p] = 0]
  /\ Step(p, "idle")
  /\ UNCHANGED <<cast, left, worker, status, log, count, evicted, clientVars>>

(* DropOldestQueue.put *)
PutLive(p) ==
  /\ ppc[p] = "live"
  /\ queue' = Append(IF Len(queue) >= QueueMax THEN Tail(queue) ELSE queue, Event(p))
  /\ lossy' = (lossy \/ Len(queue) >= QueueMax)
  /\ seq' = [seq EXCEPT ![p] = 0]
  /\ Step(p, "idle")
  /\ UNCHANGED <<cast, left, worker, status, log, count, evicted, clientVars>>

(***************************************************************************)
(* The threads that put                                                    *)
(***************************************************************************)
StartPut(p) ==
  /\ ppc[p] = "idle"
  /\ count' = [count EXCEPT ![p] = @ + 1]
  /\ Step(p, "number")
  /\ UNCHANGED <<cast, log, queue, seq, evicted, clientVars, lossy>>

PutOneMore(p) ==
  /\ p \in cast.threads
  /\ left > 0
  /\ left' = left - 1
  /\ StartPut(p)

ReadLine(p) ==
  /\ worker # "joined"
  /\ PutOneMore(p)
  /\ UNCHANGED <<worker, status>>

(* Mutant of Settle: the pumps are not joined. *)
SettleWithoutJoin ==
  /\ worker = "running"
  /\ worker' = "joined"
  /\ status' \in {"done", "approval_required"}
  /\ UNCHANGED <<cast, left, log, queue, producerVars, evicted, clientVars, lossy>>

(* The worker waits for the CLI, joins the pumps and sets the status.      *)
(* "done" stands for every status that closes a stream.                    *)
Settle ==
  /\ worker = "running"
  /\ \A p \in Pumps : ppc[p] = "idle"
  /\ worker' = "joined"
  /\ status' \in {"done", "approval_required"}
  /\ UNCHANGED <<cast, left, log, queue, producerVars, evicted, clientVars, lossy>>

(* The except clause of _run_worker: the pumps may still be at work. *)
Raise ==
  /\ worker = "running"
  /\ worker' = "raised"
  /\ status' = "done"
  /\ UNCHANGED <<cast, left, log, queue, producerVars, evicted, clientVars, lossy>>

(* The finally clause of _run_worker puts run_finished. *)
PutFinished ==
  /\ worker # "running"
  /\ count[Worker] = 0
  /\ StartPut(Worker)
  /\ UNCHANGED <<left, worker, status>>

(* _cancel_run, at any moment after the look at the status on which it     *)
(* acts, marks the run as canceled and puts run_canceled.  The mark is     *)
(* lost if it was queued at that look and a worker is just taking it over. *)
Cancel(c) ==
  /\ count[c] = 0
  /\ status' \in {"done", status}
  /\ PutOneMore(c)
  /\ UNCHANGED worker

(* For a run that was queued at that look it puts a run_finished, too. *)
CancelFinished(c) ==
  /\ count[c] = 1
  /\ PutOneMore(c)
  /\ UNCHANGED <<worker, status>>

(* A handler that resumes the run sets the new status and puts what has    *)
(* become of the verification or the approval.                             *)
Resume(c) ==
  /\ status = "approval_required"
  /\ count[c] = 0
  /\ status' \in {"done", "approval_required"}
  /\ PutOneMore(c)
  /\ UNCHANGED worker

Put(p) == Number(p) \/ Record(p) \/ CutLog(p) \/ PutLive(p)

(* evict_finished_runs forgets the run and empties its queue. *)
Evict ==
  /\ status = "done"
  /\ ~evicted
  /\ evicted' = TRUE
  /\ queue' = <<>>
  /\ lossy' = (lossy \/ queue # <<>>)
  /\ UNCHANGED <<cast, left, worker, status, log, producerVars, clientVars>>

(***************************************************************************)
(* GET /runs/<id>/events                                                   *)
(***************************************************************************)
Go(c, step) == hpc' = [hpc EXCEPT ![c] = step]
Serving(c) == hpc[c] \in {"replay", "live"}

LastReceived == IF got = <<>> THEN 0 ELSE got[Len(got)].seq

(* What has a higher number than n.  (SelectSeq, written out: the provers  *)
(* do not know it.)                                                        *)
NewerThan(n, s) ==
  LET f[i \in 0..Len(s)] ==
        IF i = 0 THEN <<>>
        ELSE IF s[i].seq > n THEN Append(f[i - 1], s[i])
        ELSE f[i - 1]
  IN f[Len(s)]

(* The client connects, with no other stream open, and a copy of the log   *)
(* is taken for the replay.  The handler of a stream it has left may still *)
(* be there, and takes events from the queue until a write fails.          *)
Connect(c) ==
  /\ c \in cast.streams
  /\ hpc[c] = "new"
  /\ ~evicted
  /\ alive' = {c}
  /\ after' = [after EXCEPT ![c] = LastReceived]
  /\ IF LastReceived > 0
       THEN /\ out' = [out EXCEPT ![c] = NewerThan(LastReceived, log)]
            /\ Go(c, "replay")
       ELSE Go(c, "live") /\ UNCHANGED out
  /\ lossy' = (lossy \/ \E d \in Streams : Serving(d))
  /\ UNCHANGED <<cast, left, worker, status, log, queue, producerVars, evicted, got>>

(* One event is written.  If the client has left, the first writes may     *)
(* still succeed, and the event is lost.                                   *)
WriteOut(c) ==
  /\ Serving(c)
  /\ out[c] # <<>>
  /\ got' = IF c \in alive THEN Append(got, Head(out[c])) ELSE got
  /\ out' = [out EXCEPT ![c] = Tail(@)]
  /\ UNCHANGED <<cast, left, worker, status, log, queue, producerVars, evicted,
                 hpc, after, alive, lossy>>

(* Mutant of FilterLive: everything in the queue counts as replayed. *)
FilterLiveClears(c) ==
  /\ hpc[c] = "replay"
  /\ out[c] = <<>>
  /\ queue' = <<>>
  /\ after' = [after EXCEPT ![c] = 0]
  /\ Go(c, "live")
  /\ UNCHANGED <<cast, left, worker, status, log, producerVars, evicted, out, alive,
                 got, lossy>>

(* After the replay the queue keeps what is newer than the client's last   *)
(* number.                                                                 *)
FilterLive(c) ==
  /\ hpc[c] = "replay"
  /\ out[c] = <<>>
  /\ queue' = NewerThan(after[c], queue)
  /\ after' = [after EXCEPT ![c] = 0]
  /\ Go(c, "live")
  /\ UNCHANGED <<cast, left, worker, status, log, producerVars, evicted, out, alive,
                 got, lossy>>

(* Mutant of GetLive: the item stays in the queue. *)
GetLivePeeks(c) ==
  /\ hpc[c] = "live"
  /\ out[c] = <<>>
  /\ queue # <<>>
  /\ out' = [out EXCEPT ![c] = <<Head(queue)>>]
  /\ UNCHANGED <<cast, left, worker, status, log, queue, producerVars, evicted,
                 hpc, after, alive, got, lossy>>

GetLive(c) ==
  /\ hpc[c] = "live"
  /\ out[c] = <<>>
  /\ queue # <<>>
  /\ out' = [out EXCEPT ![c] = <<Head(queue)>>]
  /\ queue' = Tail(queue)
  /\ UNCHANGED <<cast, left, worker, status, log, producerVars, evicted,
                 hpc, after, alive, got, lossy>>

(* A second without an event: the stream of a finished run is closed. *)
Idle(c) ==
  /\ hpc[c] = "live"
  /\ out[c] = <<>>
  /\ queue = <<>>
  /\ status = "done"
  /\ Go(c, "closed")
  /\ UNCHANGED <<cast, left, worker, status, log, queue, producerVars, evicted,
                 out, after, alive, got, lossy>>

(* A write, of an event or a keepalive, to a client that has left fails. *)
Broken(c) ==
  /\ Serving(c)
  /\ c \notin alive
  /\ out' = [out EXCEPT ![c] = <<>>]
  /\ Go(c, "closed")
  /\ UNCHANGED <<cast, left, worker, status, log, queue, producerVars, evicted,
                 after, alive, got, lossy>>

Leave(c) ==
  /\ c \in alive
  /\ Serving(c)
  /\ alive' = alive \ {c}
  /\ UNCHANGED <<cast, left, worker, status, log, queue, producerVars, evicted,
                 hpc, out, after, got, lossy>>

Handle(c) == WriteOut(c) \/ FilterLive(c) \/ GetLive(c) \/ Idle(c) \/ Broken(c)

Next ==
  \/ \E p \in Pumps : ReadLine(p)
  \/ \E p \in Producers : Put(p)
  \/ Settle \/ Raise \/ PutFinished \/ Evict
  \/ \E c \in Callers : Cancel(c) \/ CancelFinished(c) \/ Resume(c)
  \/ \E c \in Streams : Connect(c) \/ Handle(c) \/ Leave(c)

Spec == Init /\ [][Next]_vars

(* The threads of the daemon are scheduled; the CLI need not end, a client *)
(* need not connect, leave or come back, and nothing need be evicted.      *)
Fairness ==
  /\ \A p \in Producers : WF_vars(Put(p))
  /\ WF_vars(PutFinished)
  /\ \A c \in Streams : WF_vars(Handle(c))

FairSpec == Spec /\ Fairness

-----------------------------------------------------------------------------
Events == [from : Producers, nth : 1..Puts, seq : 1..LogLimit + Cardinality(Producers)]

Cutting == {p \in Producers : ppc[p] = "cut"}

(* The types of the variables of this module; the log and the queue keep   *)
(* their limits, the log but for what the producers have still to cut.     *)
TypeOK ==
  /\ cast \in Casts
  /\ left \in 0..Puts
  /\ worker \in {"running", "joined", "raised"}
  /\ status \in {"running", "done", "approval_required"}
  /\ log \in Seq(Events)
  /\ Len(log) <= LogLimit + Cardinality(Cutting)
  /\ queue \in Seq(Events)
  /\ Len(queue) <= QueueMax
  /\ ppc \in [Producers -> {"idle", "number", "append", "cut", "live"}]
  /\ seq \in [Producers -> Nat]
  /\ count \in [Producers -> 0..Puts]
  /\ evicted \in BOOLEAN
  /\ hpc \in [Streams -> {"new", "replay", "live", "closed"}]
  /\ out \in [Streams -> Seq(Events)]
  /\ after \in [Streams -> Nat]
  /\ alive \subseteq Streams
  /\ got \in Seq(Events)
  /\ lossy \in BOOLEAN

FirstStream == \A c, d \in Streams : hpc[c] # "new" /\ hpc[d] # "new" => c = d
Finished(e) == e.from = Worker

(* A client that stays on its first stream receives no event twice, in     *)
(* spite of the pumps and the handler that share the queue.                *)
LiveOnce ==
  FirstStream => \A i, j \in DOMAIN got : got[i] = got[j] => i = j

(* The web page stops listening at run_finished: on a client's first       *)
(* stream no output of the CLI comes after the one its worker puts, nor is *)
(* any left in the queue, unless the worker raised.                        *)
FinishedIsLast ==
  FirstStream /\ worker # "raised" =>
    \A i \in DOMAIN got : Finished(got[i]) =>
      /\ \A j \in DOMAIN got : j > i => got[j].from \notin Pumps
      /\ \A j \in DOMAIN queue : queue[j].from \notin Pumps

(* While one thread at a time puts events, which is so when one pump only  *)
(* has put some, no caller has and the worker does not raise; when nothing *)
(* was dropped, and no handler of a left stream was still there when the   *)
(* client came back: then a client that received the first event has no    *)
(* gap below the last one it received, however often it left in the middle *)
(* of a replay or of a put.                                                *)
Untouched == \A c \in Callers : count[c] = 0

OneWriter ==
  /\ \A p, q \in Pumps : count[p] > 0 /\ count[q] > 0 => p = q
  /\ Untouched
  /\ worker # "raised"

NoGap ==
  LET numbers == {got[i].seq : i \in DOMAIN got} IN
    OneWriter /\ ~lossy /\ 1 \in numbers => 1..LastReceived \subseteq numbers

(* The stream of a finished run ends: the client gets the worker's         *)
(* run_finished, or the daemon closes the stream, or the client leaves.    *)
(* While a run waits for an approval that is certain only for the first    *)
(* stream, and unless a caller puts: the event may be lost with the        *)
(* stream or pushed out of the queue, and the daemon closes no stream of   *)
(* such a run.                                                             *)
StreamEnds ==
  \A c \in Streams :
    /\ Serving(c)
    /\ worker # "running"
    /\ \/ status = "done"
       \/ status = "approval_required" /\ FirstStream
    ~> \/ ~Serving(c)
       \/ status # "done" /\ ~Untouched
       \/ c \notin alive
       \/ \E i \in DOMAIN got : Finished(got[i])
=============================================================================
