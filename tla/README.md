# A verification of the stability-analysis agent in TLA+

The repository is an agent that analyses crash, ANR and leak reports: a CLI runs
one analysis, and a daemon (`daemon/server.py`) offers the CLI over HTTP to many
clients. The modules in this directory model the parts in which threads,
processes, restarts, loops around a model, and clients meet: the daemon's runs and
the handlers that take them up again, the CLI with its replay cache and its
decisions, the analysis loop with its requests to the model, and the repair of
source files. Every module is translated from the code; a line number without a
file is a line of `daemon/server.py`, and `PROJECT.json` maps each definition to
the lines it stands for.

## 1. The system

### Components

| Component | State it keeps | Operations | Hard part |
|---|---|---|---|
| Run lifecycle and scheduler (508-583, 662-763, 1583-1777, 2639-2696) | `RunState` (status, cancel flag, process, result), `RunManager._runs`, the job queue, `_pending`, `_active`, `_SHUTTING_DOWN` | submit, take, run the CLI, time out, cancel, evict, drain | a `RunState` has no lock: HTTP threads, workers, the eviction thread and the main thread write it between each other's steps |
| Run snapshots (`services/run_store.py`, `services/run_snapshot.py`, 514-597) | `<run_id>.json` and `<run_id>.tmp` on disk | save after every event and change, load at start | several threads save one run, without a lock; crashes, failing writes |
| Event streams (228-255, 1539-1642, 3010-3060, `web/app.js`) | `event_log` (512), the live queue (256) | put, replay, serve, reconnect | two pumps, the worker and the handler share log and queue; full queues; broken connections |
| Submission with an idempotency key (51-53, 963-1021, 3106-3163) | `_IDEMPOTENCY` | look up, start, store, expire, evict | three steps without one lock; eviction and expiry in between |
| Resume handlers (2170-2631) | pending approval, retry keys, the report's sidecar, the worktree | retry a stage, verify, approve or reject a tool, clean up | check-then-act on a shared run while other handlers do the same; crashes |
| CLI (`cli/main.py`) | one analysis: request, result, decision, report | look up, analyse, repair or replay, decide, write | several processes share one cache; each may be killed |
| Replay cache (`services/crash_replay_cache.py`) | the index of runs, their reports | look up, replay a patch, enter | what one run leaves is taken over by others, and by those who find these |
| Agent runtime and scoring (`tool_system/agent_runtime.py`, `services/decide_scorer.py`, `services/harness_judge.py`) | stage, status, decision, memory of patterns | observe .. decide | three places decide, in an order, on different fields |
| Repair pipeline, code fixer, Git worktrees (`services/repair_pipeline.py`, `services/code_fixer.py`, `services/*verification.py`, `services/git_worktree_manager.py`) | worktree, backups, records of edits, the checkout | isolate, edit, check, verify, roll back, copy back | edits of several rounds; a failure or a kill between files; a developer at work |
| Context loop (`services/agent_context_loop.py`, `services/context_engine.py`) | rounds, ledger of requests, kept sources, prompt | ask, revise, supply, stop | flags set in one place and read in another; a prompt that does not fit |
| Requests to the model (`services/analyze_llm.py`, `tool_system/llm/`) | router, health of endpoints, budgets | attempt, repeat, fail over | nested loops whose counters reset one another |
| Web preferences (`daemon/web_preferences.py`) | one JSON file | load, save, toggle | a read and a write in two critical sections |
| Workflows, parsers, skills, retrieval, offline evaluation | reports and knowledge files | transform text | data, little control |

### How they interact

`POST /runs` looks the idempotency key up, registers a run and puts it into the
scheduler's queue. A worker thread takes it, starts the CLI as a subprocess, feeds
it the log and starts two threads that turn its output into events. Each event is
appended to the run's log, saves a snapshot of the run, and goes into the live
queue, from which the handler of `GET /runs/<id>/events` serves one client. The
worker waits for the CLI, classifies the outcome and publishes the result.
`POST /cancel` and the shutdown drain call `_cancel_run` from their own threads.

The CLI looks in the replay cache for an earlier run of the same crash. Without
one it runs the workflow, whose analysis is a loop around a model: the loop asks,
the request goes through attempts and endpoints, and the answer is taken, sent
back, or supplied with sources. A repair edits files in a worktree or in the
checkout, checks and verifies them, and copies them back or rolls them back. The
runtime scores and judges the result, and the report is entered in the cache for
later runs. A run that has to wait for the user (`verification_pending`,
`approval_required`) ends its CLI; it is taken up by the resume handlers, and is
what a restarted daemon restores from disk.

### What makes each component correct

- *Lifecycle.* The counters that decide on 429 are exact; a run is worked on once;
  a cancel is never lost; no CLI runs unattended; results do not contradict each
  other; accepted runs settle.
- *Snapshots.* What was saved survives a crash whole.
- *Streams.* A client receives every event once and in order, `run_finished` last,
    also across a reconnection; the stream ends.
- *Submission.* One key and one body are one run; an accepted request is sent to a
  run of its own body that is still there, and a refused one had another body.
- *Resume.* What is executed is what the client named, and not again for a later
  answer; when all is quiet the disk has the run as it is.
- *CLI and cache.* A replayed text or patch answers the same request, and held
  where it was made; nothing changed is accepted unverified; all deciders agree.
- *Repair.* Only what was judged reaches the checkout; success means complete; a
  rollback restores; what others changed is kept; the repair ends.
- *Analysis.* The last word was asked for as such; what the model was given stays
  readable to it; no analysis is lost; a request gives up only when nothing is
  left; the analysis ends.

The complete list of hazards, each at its line, is in `PROJECT.json`.

## 2. The modules

| Module | What it is |
|---|---|
| `RunLifecycle` | the run, the scheduler, workers, cancellers, eviction, shutdown |
| `BoundedPool` | the abstract worker pool that `RunLifecycle` implements |
| `RunStore` | the snapshot files of one run, with crashes and restarts |
| `EventStream` | the event log, the live queue and the SSE handler of one run |
| `Submission` | requests that carry one idempotency key |
| `ResumeHandlers` | the handlers that take up a run whose CLI has ended |
| `CliRun` | CLI processes over one replay cache, from lookup to report |
| `RepairPipeline` | repair runs and a developer on one checkout |
| `AgentLoop` | the analysis loop and its ledger of sources |
| `LlmCall` | one request to the model: attempts, repetition, failover |
| `AnalyzeStage` | the composition of `AgentLoop` and `LlmCall` |
| `MC...` | instances for TLC: symmetry sets and requests, nothing of the code |
| `...Proofs` | theorems about a module, with their proofs |

The definitions that are named "Mutant of" in a comment are not part of a
specification. Each changes one definition the way a plausible bug would, and shows
that the property it is listed with in `PROJECT.json` notices.

### RunLifecycle

An action is one step of one thread between two accesses that another thread can
see. `Submit` is the handler of `POST /runs` after the key: `Admit` (the check of
`_SHUTTING_DOWN`), `Create`, the critical section of `submit` (`Reserve`, or
`Reject` with 429), and `Enqueue` after the lock is released. `Work` is
`RunScheduler._loop` around `_run_worker`. The worker's looks at the status (753
and 1584) and its writes (1586, 1611, 1691, 1745) are separate actions, because a
canceller may come between them. `Cancel` is `_cancel_run` step by step: flag,
look, and then either the in-place cancel of a queued run or terminate, kill and
mark. `Expire` is the timeout of `_wait_cli_process`. `CliExit` is the environment:
the CLI exits when it likes.

`proc` is `RunState.process` with what is known of the process: not started, alive,
signalled, exited. `result` is the status in the published result. `Faults` says
which steps of a worker may raise, also after the status is set and after the
result is published (`Note` is what comes between that and `Finish`). `BadArgs` are
the requests that make `_build_cli_cmd` raise, which is outside the `try` and ends
the worker. `Stalled` is a worker in one of its two steps without a timeout: it
writes a log that is longer than a pipe holds to a CLI that hangs before it reads
(`Deaf`), or joins the pumps of a CLI that has left a process behind with its
output open (`Leaky`, 1650-1651). `MayStop` is `FALSE` where the question is
whether a daemon that runs on settles its runs.

Left out: the runs a restarted daemon restores (they are not in the pool), texts,
times and the report's contents. A run id is never used again, as `create_run`
draws it at random. `notify`-style details of the queue are one step:
`queue.Queue` is a lock around a list.

### RunStore

One run and the threads that save it. `Change` is any handler or worker that moves
the status or records an event; what may follow what is `Moves`, which is wide
because the worker and a canceller write without a look at each other and
retry-stage takes finished runs up again. A save is `Snapshot` (the payload is
built), `Open` (truncate), `Write`, `Replace` (rename). A file is its length and
the snapshot it holds; a thread that still has the file open goes on writing to it
under its new name, as POSIX has it. A shorter text written over a longer one
leaves the end of the longer one: `Mixed`. `Crash` may come at any step, and
`Restart` is `load_snapshots` with the filter of `_restore_persisted_runs`.

Left out: that the write itself is several system calls (a crash in it is a crash
before `WriteFails` or after it: in both cases the temporary file is not whole and
has not been renamed), and the loss of unsynced data in a power failure (nothing
is synced, `run_store.py:23`).

### EventStream

One run, its two pumps, the worker and the connections of one client. `Number`,
`Record`, `CutLog` and `PutLive` are the four steps of `RecordingEventQueue.put`,
of which only the last holds a lock. `Connect` copies the log for the replay,
`FilterLive` is the filter of the queue under its mutex, `GetLive`, `Idle` and
`Broken` are the loop of the handler. A write to a client that has left may
succeed, and then the event is lost with the connection. `Settle` is the worker
after it joined the pumps, `PutFinished` its `finally` clause.

As the guide asks (`docs/cli/DAEMON_SERVER_GUIDE.md:263`), a client has one stream
at a time. Nothing makes the daemon keep to it: `Connect` does not wait for the handler
of the stream that the client has left, which goes on taking events from the queue
until a write fails. Both then run at once, and `lossy` says so.

Besides the pumps and the worker, `Callers` put: HTTP threads that cancel the run
(`Cancel`, and `CancelFinished`, the canceller's own `run_finished` for a run it
saw queued, 2653-2656) or take it up again (`Resume`). Nobody joins them. `Settle`
is the worker's normal way, on which it joins the pumps, `Raise` the `except` clause
(1744), on which it does not, so that they may go on after `run_finished`.
`Casts` bounds an instance: who puts, how many events, and over which streams the
client comes. Keepalives and the `events_opened` greeting carry no number and are
left out, and so are the events the worker puts itself other than `run_finished`.

### Submission

Each request has a thread of its own; `Lookup`, `Get`, `Start` and `Store` are its
steps, `Evict` and `EvictKey` the two steps of the eviction thread. The keys of
different clients do not touch, so one key is enough. A fingerprint is what
`_run_fingerprint` says it is: which fields it covers is outside the model. The 409
for a key that is used with another body names the run of that body (1012), and the
answer in the model has it too.

### ResumeHandlers

Each request (`approve`, `reject`, `verify`, `replay` and `decide` of retry-stage,
`cleanup`) has a thread, whose place is `h[q].at`. `Look` is the check of the
status, `ReadApproval` the one read of the pending approval with the comparison of
what the client submits, `Grant` the write of the answer over whatever is pending by
then. `ReadKeys` and `Record` are retry-stage's copy of the runtime state and the
copy's return. `Resume` and `Execute` are `resume_verification_from_report` without
and with an approval that fits; `Settle` is what follows a verdict, under the gate
of the stage (`runtime_actions._stage_gate`); `Finish` and `FinishReplay` write what
the pipeline hands back. `Persist` saves the run as it is then, which may be another
handler's change. `Restart` is a crash at any step and `_restore_persisted_runs`.

A client may put a granted approval of its own into the configuration of a
verification (`carried`): `POST /verification` and retry-stage pass it on as it is
(2377-2398, `repair_pipeline.py:332-336`, 1422), and it is executed when it fits the
command (`repair_actions.py:508-536`), whoever made it; `consume_approval`
(`verification.py:236-246`) returns a copy, so that the same one may be used again.
One that does not fit is handed back as pending in state `invalid`.

An approval is named by its place in the sequence of approvals made, and its
fingerprint stands for the command. `answered`, `known` and `landed` are history.
Left out: expiry and the run id in an approval, tools other than `verify`, GET
handlers. Lines 2508-2589 are not modelled: a pending `code_fix_applier` call
never has the approval that the branch asks for.

### CliRun

A CLI process is a run in `Runs`, at most `MaxActive` at once (the daemon's
`--max-workers`). `Lookup` is `lookup_crash_replay`: the newest run in the index
with the same evidence and a usable conclusion of the same parameters, or else
with the same evidence. `Analyze` is what the workflow or the replay leaves in the
result; `Repair` is an outcome of `run_repair_pipeline` (`Outcomes`, one row per
way out) with the decision the pipeline makes by itself; `Revise` is
`run_feedback_analyze`; `Settle`, `Close` and `ReplayFix` are the three ways the
CLI goes on; `Finish` writes the report and enters it (`remember_crash_replay`);
`Kill` may come at any moment. `Score` and `Judge` are the scorer and the judge
translated to the fields they read, `Final` how `_finalize_decision` joins them.

A text is named by the run whose model wrote it and a patch by the run that made
it, so that a replay of a replay is seen for what it is. `unverified` stands for
`static_check_failed`, `safety_check_failed` and `unverified`, and `repair_applied`
for `issue_verified`, `regression_verified` and `inconclusive`, which the scorer
and the judge treat alike. When a process ends, what no later run reads is
forgotten (`Gone`), which is a reduction of the state and no step of the code.

`grounded` is what the judge asks of an analysis besides its form: a diagnosis by
rules supports it, and it did not end with a wrong schema, a failing model or a
spent budget (`harness_judge.py:59`, 61).

Taken as given: `enterprise_version` is known (without it the cache is off),
`bypass_repair_gate` has its default, and there is no diagnosis after the fix, which
the CLI turns off (`main.py:7045`, 7085). Left out: runs that are replayed from a
checkpoint (`crash_analysis_workflow.py:390-399`; their pipeline counts as skipped,
so that their score is `partial`), the ANR workflow, which takes no cached evidence
over, scopes that only parse, the review, creator and hash fields of a cache record,
patches kept in place, deferred checkouts, and the scorer's exception for exact
replacements, which the CLI's flow does not reach.

### RepairPipeline

A run is `run_repair_pipeline`: `Prepare` (worktree, checkout, or neither), the plan
file by file (`EditFile`) up to the end of `Apply`, `Gate` (the static check with
its one `Revise`), `Inspect` (the safety check against what Git reports), `Verify`,
`EditRound`, then `CopyBack` file by file and `Synced`, or `Restore` file by file
and `Rollback`. A file's text is the file it began as and the number of edits of
each writer. `rows` are the records by which the code copies and rolls back, `fresh`
the files that the plan at hand has edited, whose records exist when it is through,
and `unrecorded` the files written without one. `Breaks` is an exception in the
middle of a plan: the edits stay and their records are lost, and in the first plan
the run ends as `skipped` (`code_fixer.py:4305`), with them. `Restore` is
`rollback_applied_edits` (1839-1863): a file without a backup, or one that cannot be
read or written, is passed over and keeps its record, and a file that is restored
may have other line ends or another encoding (`recoded`), since `read_text` and
`write_text` do not keep them. The run ends as `rolled_back` either way. `Killed` is
the daemon's terminate, `DeveloperEdits` anyone else who works in the checkout,
between any two files.

Left out: how an edit is found in the text, what is written between the read and the
write of one edit, what a write that fails half way leaves in the file, which script
verifies it, several repositories, and the older verification loop (871-977), which
no configuration reaches. With two code roots that hold files of one relative path
both share one backup (`SamePath`), and may be given each other's text by a
rollback; `RollbackRestores` has `~SamePath` as a premise, and the runs have it
`FALSE`.

### AgentLoop, LlmCall and AnalyzeStage

`AgentLoop` is `run_agent_context_loop`. What a model answers is an input: the
branch it leads to (`kind`), whether it is blank, the sources it asks for, and what
the checks will object to. `BuildPrompt` is all that the packing of a prompt may
come to. `Announce`, `ReviseKnowledge`, `ReviseAnswer`, `SettleFinal`,
`SettleInvalid`, `AllBlocked` and `Supply` are the branches of a round. `FirstOf` is
how many of the functions that are missing one lookup covers, in their order: what
is left over may be found in a later round, unless what was looked up in vain takes
its place.

A request is a symbol and how it is asked for (type, file, line): that is the key of
the ledger (`context_engine.py:322-328`). What is kept is one source of a symbol,
and `Remember` replaces it by a later one, whatever that was asked for as (784-796).
The sources that are looked up for the knowledge section go into the section of the
function sources (`written`), the only one in which `Missing` looks for them
(`knowledge_required_context.py:48-63`). Left out: truncation by an explicit
`max_prompt_chars`, requests that are refused for their form, and the evidence
graph. The branch that ends a last slot with `invalid_schema` and the end after the
loop are unreachable, and have no action.

`LlmCall` is `call_analyze_llm_with_retries`: a series of attempts with growing
limits (`AttemptRefused`, `AttemptRaises`, `AttemptAnswered`), `RetrySameModel`,
`Failover`. Which usable endpoint is preferred is left open. A reply is one of four
lengths, of which a gateway's line about its load is one. Left out: scores and
tiers, `max_total_seconds`, and the probes and the file by which several CLIs
share what they know of endpoints.

`AnalyzeStage` joins them as the code does: the loop's question is the request, and
the request's outcome is the loop's answer or exception.

## 3. The runs

| Run | Instance | Distinct states | What it shows |
|---|---|---|---|
| `lifecycle_safety` | 2 runs, 2 workers, 1 canceller and the drain, queue of 1, timeout, bad requests, broken pipes | 3,764,252 | counters, at-most-once, cancel against start, attended CLIs, agreeing results |
| `lifecycle_pool` | 3 runs, 2 workers, queue of 1, no canceller, a request that kills its worker, a CLI whose pipes may not move, readers that cannot be started | 126,804 | accepted runs settle, also behind a dead worker; refinement of `BoundedPool` |
| `lifecycle_cancel` | 1 run, 1 worker, 2 cancellers and the drain, no timeout, every fault, a bad request, pipes that may not move | 105,927 | a cancel is honoured for good |
| `store_saves` | 2 threads, 5 events | 1,887,452 | saves and crashes |
| `stream_delivery` | 2 pumps, the worker, 1 caller, 2 connections, up to 3 events besides the last, log of 3, queue of 2 | 501,747 | delivery, order, gaps, end of the stream |
| `submission_key` | 3 requests, 2 bodies | 97,992 | one key |
| `repair_run` | 1 run, 2 files, 2 edit rounds, a developer | 2,994,003 | judged, complete, restored, kept, ended |
| `resume_approvals` | 3 requests, 2 commands, 1 key, 2 approvals | 3,192,491 | what is executed, for whom, and what a restart finds |
| `agent_loop` | 4 rounds, 5 symbols of which the knowledge names 3 and one can be asked for in two ways, 2 requests at a time | 4,946,112 | announced, readable, kept, objected |
| `analyze_stage` | 3 endpoints of 2 providers, 1 counted call, token limit, 2 rounds, no symbols | 522,526 | replies kept, failover exhausted, the analysis ends |
| `cli_runs` | 3 processes, 2 at once, 4 requests | 1,362,960 | replays, acceptance, one decision |
| `resumed_verdict` | as `resume_approvals` | 14,780 | a verdict without effect (below) |

Why the bounds are enough. Two runs, two workers and one queue slot give a full
queue, a run that waits behind another, and every pair of actors on one run; a third
actor on the same run is the drain. In `lifecycle_pool` a third run is behind the
one that kills its worker and the one that may block the other. The longest chain of
`lifecycle_cancel`, two cancellers against one worker, has each of them once in
every position of the other. Two threads are what the code has at a time in the
snapshot races (a pump or the worker, and a handler). Log and queue limits below the
number of lines make the log cut and the queue drop; two threads put for a client
that stays on one stream, one for a client that comes back, which is where the
numbers are of use (`MCCasts`). Three requests are the least with which two of them
overlap and a third comes later, for a key as for an approval; a second approval is
the one that replaces the first.

In `repair_run` the developer stands for every other writer of the checkout, as
two runs with two files have far more than 15 million states; a second file is the one
that is missed, and two rounds are a round that replaces the records of another.
Four rounds of `agent_loop` hold a revision, a supply and the last slot in any
order. Of the five symbols, three are named by the knowledge, one more than one
lookup covers, and two can be asked for by the model alone, in two rounds, one of
them in two ways. In `analyze_stage` three endpoints of two providers are the least with
which a refused key rules one endpoint out and leaves another; the sources are in
`agent_loop`, and left out here. Three processes in `cli_runs` are a replay of a
replay, and two at once share the index; the requests differ in crash, parameters
and scope. `MaxSize`, `Lines`, `MaxApprovals`, `MaxRounds`, `MaxCalls` and
`MaxActive` cap in the guards what would otherwise not end.

Deadlock is not checked: all these systems may come to rest (all runs done, the
daemon ended, all requests answered). What must not come to rest is stated as
liveness.

Symmetry is used only where no liveness property is checked: runs and workers in
`lifecycle_safety`, threads in `store_saves`, requests and bodies in
`submission_key`, runs in `cli_runs`, requests and commands in `resume_approvals`.
None of these specifications orders or names an element of the sets.

### Fairness

`RunLifecycle!Fairness`: threads of the daemon that can go on do (the interpreter
schedules them), except a worker that is `Stalled` in a write or a join; a process
that was signalled exits, as it is killed after 0.2 seconds. A CLI that is left
alone need not exit or read. The run timeout is not part of the specification's
fairness: `AcceptedSettles` names it as a premise, `TimeoutEnforced`, next to
`PipesMove`, because the code enforces it only for a worker that waits and does
nothing about a pipe that does not move. Two more exceptions are in the property
itself, since the code has no remedy for them: a run whose own request killed its
worker (`Lost`), which stays `running` for ever, and all workers dead (`AllDead`).
`CancelHonoured` needs neither a timeout nor pipes that move; a lost run is out of
its reach, too, and after an exception it promises the status `error`, not that the
CLI is gone. `EventStream!Fairness`: producers finish a put they began, the worker's
`finally` runs, the handler's loop turns. Clients need not do anything.
`RepairPipeline!FairSpec`: the process of a repair goes on; a kill and the developer
need not come. `AnalyzeStage!StageSpec`: one thread, and every chat with a model
returns or raises, since every adapter has a timeout.

### What the code does not do

`resumed_verdict` checks that a verification that is executed after an approval has
its effect (`docs/cli/DAEMON_SERVER_GUIDE.md:238-239`) and finds it violated: the
resumed verification works at stage `verify`, whose gate refuses the rollback or
the copy back that must follow (`repair_pipeline.py:1519`); the gate's exception is
answered with 500, the approval stays granted, and the sources stay as they were.

## 4. The proofs

The modules `...Proofs` prove, for every value of the constants, every safety
invariant, every action property and the refinement that the runs check on small
ones. They rest on the named assumptions of the modules:

- `RunLifecycleAssumption`, `RunStoreAssumption`, `EventStreamAssumption`,
  `SubmissionAssumption`, `ResumeAssumption`, `LoopAssumption`, `CallAssumption`,
  `CliAssumption`, `RepairAssumption`: limits are numbers, names are kept apart;
- `NothingAssumption` and `NoneAssumption`, with parts of the former: the value that
  stands for nothing is not a value of something;
- sets are finite where something is counted: the workers (`RunScheduler.start`
  creates `max_workers` threads, 718), the pumps (one for stdout, one for stderr,
  1639), the endpoints of a pool.

TLC evaluates all of them in the runs. One theorem about the repair has a hypothesis
of its own, `~SamePath`, and one about the pool has `"thread"` not among the faults;
both are explained below.

**RunLifecycleProofs.**
- `TypeCorrect`: the types. Not inductive alone: an action that indexes by a
  worker's run needs a worker at work to have one. `HandsFull` says who has a run
  in hand.
- `RunsOnce`: no run in two places. The invariant `Placement` says where a run can
  be and what is known of it there: the queue has no run twice, no worker holds
  what another one holds or what is queued, a run in the queue was accepted and
  has no process, and a worker before `Spawn` has a run without a process. From
  `Placement` the counting sets of `BoundedPool` are disjoint.
- `CancelIsNotLost`: a cancel that meets the start of the CLI. The argument is the
  order of two writes and two reads: the worker writes the process and then reads
  the flag, the canceller writes the flag and then reads the process; whichever is
  last sees the other. As an invariant it needs `Placement`, so that the worker
  and the canceller speak of one process.
- `CliIsAttended`: no CLI without a worker, under the assumption that `"thread"` is
  not among the faults: when a reader thread cannot be started the `except` clause
  leaves the CLI alone, and the property fails.
- `CountersAreExact`: `_pending` and `_active` against the sets they count. A step
  leaves the pool as it is or is one of four moves (`Moves`: a run comes, is picked,
  starts, or leaves, the last with its worker or without it), and each changes the
  counters and the cardinalities of their sets alike. The step from a worker to its
  run is one to one by `Placement`.
- `CanceledIsFinal` and `ResultsAreStable` from `ResultInv`: who may still write a
  result, and what the status must be by then. Its longest part is about the worker
  between its last look (`classified`) and its write: no canceller may be on its way
  to answer for that run unless the status says canceled.
- `PoolIsBounded`: the refinement. Each of the moves is a step of `BoundedPool` or a
  stutter, under the mapping of `RunLifecycle!Pool`; the theorem is about its
  safety part, the only one it has.

**RunStoreProofs.** `StoreTypes`, `CrashesLoseNothing` and `SoloSavesLand` from
`StoreInv`. A thread that has been alone in the store since it began (`solo`) has the
temporary file to itself (`OnItsOwn`), so what it renames is whole, whatever was left
there by crashes and overlapping saves before. While no two saves have overlapped
everyone is alone (`SoundAlone`), so that the file a crash leaves is the last one
renamed.

**EventStreamProofs.**
- The filter of the replay, `NewerThan`, is a recursive function. What it gives for
  every sequence is shown without an induction rule: the indices for which it is
  right have no least counterexample (`UpTo`, from the well-foundedness of the
  numbers). For a sequence numbered without a gap it is the end of it (`Filtered`).
- `StreamTypes`: a number is at most the log's limit and one for each producer, since
  the log is longer than its limit only by what is still to be cut.
- `FirstStreamOnce` and `FinishedEnds` from `LineInv`: on the first stream what the
  client has, what is being written and what is queued are one line, in which no
  event is twice, and no pump's event follows the worker's `run_finished` unless the
  worker left its `try` with an exception. Numbers are no help for that,
  as they repeat once the log was cut or two threads put at once; the line is about
  who put an event and as its how-manieth, and an event that is about to be put is
  none of those that are in the line.
- `NothingIsSkipped`, that is `NoGap`, from `NumberInv`: while nothing was dropped,
  one thread at a time puts (`OneWriter`) and no two handlers were at the queue, the
  log is numbered from 1 and the queue holds its latest part, above the `Gone` that
  have left it. A live stream writes the number `Gone` and has all below it
  (`LiveInStep`); a replay goes on from what the client has to at least `Gone`
  (`ReplayInStep`), so that the filter that ends it leaves no hole between the
  replay and the queue. `OneAtWork` is why one talking pump suffices: a worker that
  does not raise puts after the pumps are through.

**SubmissionProofs.** `SubmissionTypes`, `BodiesMatch`, `EvictedNotNamed`: the
invariant keeps that the entry holds the fingerprint of the request that started its
run, that a handler on its way to a run has compared it, that a 409 names a run of
another body, that only answered requests have answers, and that a run that was dead
when a request came was started before and cannot be registered again.
`LaterRequestsStartNothing` from `LaterInv`: a run that was told to someone is the
one the key names, or is `Spent`, that is gone or replaced; what a handler reads
from the key at once makes the runs it came after its own or spent ones.

**ResumeHandlersProofs.** `ResumeTypes` (with `Sound`, what each handler has at its
place). `ApprovedCommandRuns` and `AnsweredRunsNothing` from `Approved`: a handler
past the comparison holds an approval whose command is the client's or carries one
that is compared with it, the sequence of approvals only grows, and what a later
request knows as answered cannot be read as required unless it was put back.
`RestFindsTheRun` from `UpToDate`: either the snapshot is what the run is, or a
handler is at a place from which it must save (`WillSave`), so at rest the snapshot
is right however saves overlapped.

**RepairPipelineProofs**, for any number of runs, which TLC cannot reach.
- `TypeCorrect`, with `Control`, which ties the step of a run to its place, its
  verdict and its records.
- `SuccessfulRunIsComplete` from `Owned`: what a run keeps to itself. A worktree has
  edits of its run alone, at `Verify` and after it the records are exactly what
  changed, what is synced is what was judged, and a success has handled all of it.
- `CheckoutIsAsJudged` adds `Outside`: a text in the checkout, or in a backup made
  there, has of each isolated run either nothing or what that run judged. It needs
  all runs at once, as each may have copied the texts of others into its backups.
- `RollbackIsClean` from `Undoable`: for a run that is protected (isolated, or alone
  with the checkout) each file it looked at has a backup without its edits, or has
  none of its edits. What could not be restored keeps its record, and the property
  excepts it. It has `~SamePath` as a premise: when two code roots hold a file of one
  relative path, the second backup is taken for the first, and without the premise
  TLC finds the property violated.
- `EditsAreKept` from `Respected`: an isolated run restores and copies only where
  nobody else has edited since it began, and the only run in the checkout has the
  edits of others in its backups. The theorem assumes `~SamePath` for the same reason.

**AnalyzeStageProofs**, about `AgentLoop` first. `LoopTypes` with `Slots`: in the last
slot it is decided that the answer is the last word. `LastWordAnnounced` from
`Announced` (whenever `force` is set the prompt says so), `AnalysisIsKept` from
`Kept`, `SuppliedStaysReadable` from `Sources` (every kept source is located, of
each located symbol one is kept, and it is in the prompt to come or named there),
`ObjectionsArrive` from `Noted`.

Then about the stage. `StageIsLoop`: the stage implements the loop
(`StageSpec => Spec`), so that what is proved of `AgentLoop` holds of the
composition. `StageTypes`, `RepliesAreKept` and `AllEndpointsTried` from `CallInv`:
while a request goes on its best reply is an analysis once one was heard; each
switch is to an endpoint that was not tried before, so there are fewer switches
than endpoints tried, and the bound `MaxSwitches` is never what ends a request; in
fixed mode all endpoints are of one provider, so that a refused key rules the pool
out.

**CliRunProofs.** `RunTypes`, `ReplaySameRequest`, `ReplayedPatch`,
`AcceptedVerified` and `OneDecision` from `Known`, which says of every run: nothing
is repaired or decided before its place (`Placed`); its texts, its patches, those
of its report and the run it replays were asked for with the same crash and
parameters (`Origin`); its patches, but its own while it has not succeeded, have
held (`Safe`); what has changed the sources was repaired, or replays an analysis no
judge accepts (`Judged`); and what was decided is what will be decided
(`Decided`). `Origin` and `Safe` are about chains of any length, and need only one
link: the run that was found has them too, and what has ended keeps its report
(`PastKept`).

Type invariants that are proved are not run again, except where a mutant of a
bound shows in them.

Only model-checked: liveness (`AcceptedSettles`, `CancelHonoured`, `StreamEnds`,
`RunEnds`, `StageEnds`), which is out of the prover's reach, and the violation in
`resumed_verdict`, which is one behaviour and needs no proof.

## 5. Seen while reading

Behaviours of the code that the models have, or that lie just outside them, and
that a reviewer of the code may want to know. None is stated as a property.

*Lifecycle, streams, submission.* A request whose numbers do not parse raises
outside the `try` of `_run_worker` and ends the worker thread; accepted runs behind
it wait for ever with one worker; the run itself stays `running`, and a cancel of it
only sets a flag. The run timeout exists only once the log has been written to the
CLI. A run that was answered as canceled in the queue is started when the worker had
looked at its status just before. Two overlapping saves may leave a finished run on
disk as `verification_pending`. The filter after a replay keeps what was replayed.
Two overlapping requests with one key start two runs. The number of an event is the
length of the log plus one, so with the log full (512) every event has number 513;
two pumps can draw one number. A stream of a run in `approval_required` is not
closed by the daemon. The drain waits for the status and not for the worker. An
exception after a cancel turns `canceled` into `error`, and a result published as
`done` may be followed by the status `canceled` or, when the worker raises after
that, `error`. The joins of the pumps have no timeout (1650). A run that a canceller
saw queued may have two `run_finished`, with output of the CLI after the first;
after an exception output may follow the only one. A handler that waits in
`events.get` when its client leaves takes one more event with it, and a client that
comes back at once has a gap. The 409 for a used key names a run of another body to
whoever sends the key.

*Resume.* A verification may bring its own approval and execute without one that is
pending, more than once (`DAEMON_SERVER_GUIDE.md:244` says the daemon accepts no
approval of a client's making). A cleanup may remove a worktree that another handler
works in. Two overlapping approvals both execute (`verification.py:239` says one
does). A crash between execution and save executes again. A retry that reloads the
sidecar makes an answered approval required again, and so does the end of an
overlapping verification. An approval stays `granted` after an exception. Retry
keys are lost by overlapping retries and dropped by every verification that ends; a
replay that is refused with 400 has recorded its key. A pending approval without
the provider's hook raises `NameError` (`repair_pipeline.py:1514`).

*CLI, cache, decisions.* A run whose symbols could not be used is entered as
reusable evidence (`crash_replay_cache.py:6` says such runs are not), and later
runs take the unusable symbols over for ever. A full run without an adapter for its
model leaves a rendered report that later runs replay as an analysis. A replayed
patch that no longer applies is found again by every later run, and no repair is
tried. Replayed conclusions have no structured analysis and are always rejected by
the judge. The replay branch of the CLI decides a run that has just paused. The
feedback analysis rewrites the analysis after the patch was made and can turn a
reject of the judge into an accept; if its model fails, a repaired run ends without
a report. The stage `decide` is completed although its decision is `reject`. The
verdict `passed` that the memory waits for is never produced, so that no repair is
recorded as adopted (`AGENT_RUNTIME_LIFECYCLE.md:177`).

*Repair.* A rollback is reported as done whatever it could restore, and may leave
files with other line ends or another encoding. Uncommitted changes are looked for
in the files an analysis names only (`git_worktree_manager.py:602`), and the copy
back overwrites such a change in another file. Any failure to isolate is answered by
work in the checkout (`DAEMON_SERVER_GUIDE.md:179` speaks of worktrees only). A
failed edit round ends without a rollback (`CLI_GUIDE.md:108`). An exception in the
middle of a plan leaves edits without records: the first plan ends the run as
skipped with them, and the round after a failed static check swallows it and rolls
back what has records. The copy overwrites originals without a comparison, and a
kill in place leaves patched originals. The static check makes backups whatever
`--no-backup` says.

*Analysis.* An objection is lost when the next round is the last slot
(`agent_context_loop.py:150`). A source of a symbol is replaced when the symbol is
asked for in another way; the ledger has both as done, and even reports the lost one
as placed in the prompt (`context_engine.py:1517-1533`). Prefetched sources are not
kept, and asking for one again is a duplicate. The round of `all_requests_blocked`
is saved before the reason is set. `CONTEXT_LOOP_CONTRACT.md:44` lists six reasons,
the code has nine. After the last counted call is spent, a second attempt of a
series still calls the model. A token limit that is passed discards a good answer
and marks healthy endpoints unreachable. In auto mode an endpoint that has served
the run is not failed over to again. With a forced profile `re_resolve` raises
`UnboundLocalError`, which is swallowed. An endpoint whose adapter cannot be built
is recorded while the old adapter is asked.

## 6. Not modelled, and the plan

Workflows, parsers, prompts, skills and retrieval transform text and numbers; what
they compute is not a matter of states and steps. They are by far the most of the
source: the largest files (`code_content_provider_tool.py`, most of `cli/main.py`,
`add2line_resolver_tool.py`, `code_locator.py`, the text work of `code_fixer.py`)
hold locating, matching and formatting, of which the models have the outcome.
Web preferences are one file with a read and a write in two critical sections, of
which a model would say no more than the code.

To come, in this order:

1. `RuntimeState`: checkpoints and their replay.
2. `EndpointPool`: the health file that several CLIs share.
3. Index caches: no stale entry is used.
4. Compositions: `RunLifecycle` with the events it puts, so that the end of a run
   and the end of its stream are one statement; `RunLifecycle` with `RunStore`;
   `CliRun` with `RepairPipeline` in place of `Outcomes`.
