----------------------------- MODULE Submission -----------------------------
(***************************************************************************)
(* POST /runs with an idempotency key: do_POST, _idempotency_lookup and    *)
(* _idempotency_store in daemon/server.py, with what evict_finished_runs   *)
(* does to the key.                                                        *)
(*                                                                         *)
(* Each request has an HTTP thread of its own.  The lookup, the start of   *)
(* the run and the store are three steps, and only the first and the last  *)
(* hold _IDEMPOTENCY_LOCK.  The keys of different clients do not touch, so *)
(* this module is about the requests that carry one key.  A run is named   *)
(* by the request that started it.                                         *)
(***************************************************************************)
EXTENDS Naturals, FiniteSets

CONSTANTS
  Requests,     \* POST /runs with the key
  Prints,       \* fingerprints of their bodies
  NoRun

ASSUME SubmissionAssumption == NoRun \notin Requests

VARIABLES
  print,        \* _run_fingerprint of each request's body
  pc,           \* where the handler of each request is
  found,        \* the run the lookup found
  answer,       \* what the request was answered, once it was: see Answers
  key,          \* the entry of _IDEMPOTENCY: run, fingerprint, and its age
  registered,   \* RunManager._runs
  evicting,     \* the run the eviction thread has just discarded
  stopping,     \* _SHUTTING_DOWN
  \* history
  before,       \* the runs named in answers when a request arrived
  dead,         \* the runs that were evicted when one arrived
  gone          \* runs that were evicted, or whose entry expired

vars == <<print, pc, found, answer, key, registered, evicting, stopping,
          before, dead, gone>>
historyVars == <<before, dead, gone>>

NoKey == [run |-> NoRun, print |-> NoRun, expired |-> FALSE]
NoAnswer == [code |-> 0, run |-> NoRun]
Answers == [code : {200, 409}, run : Requests] \cup [code : {429, 503}, run : {NoRun}]
Created(r) == [code |-> 200, run |-> r]

Init ==
  /\ print \in [Requests -> Prints]
  /\ pc = [q \in Requests |-> "new"]
  /\ found = [q \in Requests |-> NoRun]
  /\ answer = [q \in Requests |-> NoAnswer]
  /\ key = NoKey
  /\ registered = {}
  /\ evicting = NoRun
  /\ stopping = FALSE
  /\ before = [q \in Requests |-> {}]
  /\ dead = [q \in Requests |-> {}]
  /\ gone = {}

Go(q, step) == pc' = [pc EXCEPT ![q] = step]
Started(q) == pc[q] = "store" \/ answer[q] = Created(q)
Answer(q, code, run) ==
  /\ answer' = [answer EXCEPT ![q] = [code |-> code, run |-> run]]
  /\ Go(q, "answered")

(* The handler begins; while the daemon shuts down it answers 503. *)
Arrive(q) ==
  /\ pc[q] = "new"
  /\ IF stopping
       THEN Answer(q, 503, NoRun)
       ELSE Go(q, "lookup") /\ UNCHANGED answer
  /\ before' = [before EXCEPT ![q] = {answer[o].run : o \in Requests} \ {NoRun}]
  /\ dead' = [dead EXCEPT ![q] = {o \in Requests : Started(o)} \ registered]
  /\ UNCHANGED <<print, found, key, registered, evicting, stopping, gone>>

(* Mutant of Lookup: the fingerprint is not compared. *)
LookupAnyBody(q) ==
  /\ pc[q] = "lookup"
  /\ key' = IF key.expired THEN NoKey ELSE key
  /\ found' = [found EXCEPT ![q] = key'.run]
  /\ Go(q, IF key'.run = NoRun THEN "start" ELSE "get")
  /\ UNCHANGED <<print, answer, registered, evicting, stopping, historyVars>>

(* _idempotency_lookup: an entry that has expired is dropped, one with     *)
(* another fingerprint is a conflict, whose answer names the run, and any  *)
(* other gives the run.                                                    *)
Lookup(q) ==
  /\ pc[q] = "lookup"
  /\ key' = IF key.expired THEN NoKey ELSE key
  /\ found' = [found EXCEPT ![q] = key'.run]
  /\ \/ key'.run = NoRun /\ Go(q, "start") /\ UNCHANGED answer
     \/ key'.run # NoRun /\ key'.print = print[q] /\ Go(q, "get") /\ UNCHANGED answer
     \/ key'.run # NoRun /\ key'.print # print[q] /\ Answer(q, 409, key'.run)
  /\ UNCHANGED <<print, registered, evicting, stopping, historyVars>>

(* Mutant of Get: the run is not looked for. *)
GetUnseen(q) ==
  /\ pc[q] = "get"
  /\ Answer(q, 200, found[q])
  /\ UNCHANGED <<print, found, key, registered, evicting, stopping, historyVars>>

(* RUNS.get: a run that was evicted meanwhile is started anew. *)
Get(q) ==
  /\ pc[q] = "get"
  /\ IF found[q] \in registered
       THEN Answer(q, 200, found[q])
       ELSE Go(q, "start") /\ UNCHANGED answer
  /\ UNCHANGED <<print, found, key, registered, evicting, stopping, historyVars>>

(* _start_run: 503 while the daemon shuts down, 429 when the pool is full, *)
(* and else a new run.                                                     *)
Start(q) ==
  /\ pc[q] = "start"
  /\ \/ stopping /\ Answer(q, 503, NoRun) /\ UNCHANGED registered
     \/ ~stopping /\ Answer(q, 429, NoRun) /\ UNCHANGED registered
     \/ ~stopping /\ registered' = registered \cup {q} /\ Go(q, "store") /\ UNCHANGED answer
  /\ UNCHANGED <<print, found, key, evicting, stopping, historyVars>>

(* _idempotency_store, and the answer. *)
Store(q) ==
  /\ pc[q] = "store"
  /\ key' = [run |-> q, print |-> print[q], expired |-> FALSE]
  /\ Answer(q, 200, q)
  /\ UNCHANGED <<print, found, registered, evicting, stopping, historyVars>>

Post(q) == Arrive(q) \/ Lookup(q) \/ Get(q) \/ Start(q) \/ Store(q)

(* Two hours pass. *)
Expire ==
  /\ key.run # NoRun
  /\ ~key.expired
  /\ key' = [key EXCEPT !.expired = TRUE]
  /\ gone' = gone \cup {key.run}
  /\ UNCHANGED <<print, pc, found, answer, registered, evicting, stopping, before, dead>>

(* evict_finished_runs: first the run ... *)
Evict ==
  /\ evicting = NoRun
  /\ \E r \in registered :
       /\ registered' = registered \ {r}
       /\ evicting' = r
       /\ gone' = gone \cup {r}
  /\ UNCHANGED <<print, pc, found, answer, key, stopping, before, dead>>

(* Mutant of EvictKey: the key is dropped whatever run it names. *)
EvictAnyKey ==
  /\ evicting # NoRun
  /\ key' = NoKey
  /\ evicting' = NoRun
  /\ UNCHANGED <<print, pc, found, answer, registered, stopping, historyVars>>

(* ... then the key that names it. *)
EvictKey ==
  /\ evicting # NoRun
  /\ key' = IF key.run = evicting THEN NoKey ELSE key
  /\ evicting' = NoRun
  /\ UNCHANGED <<print, pc, found, answer, registered, stopping, historyVars>>

Stop ==
  /\ ~stopping
  /\ stopping' = TRUE
  /\ UNCHANGED <<print, pc, found, answer, key, registered, evicting, historyVars>>

Next == (\E q \in Requests : Post(q)) \/ Expire \/ Evict \/ EvictKey \/ Stop

Spec == Init /\ [][Next]_vars

-----------------------------------------------------------------------------
Keys ==
  {NoKey} \cup [run : Requests, print : Prints, expired : BOOLEAN]

(* The types of the variables of this module. *)
TypeOK ==
  /\ print \in [Requests -> Prints]
  /\ pc \in [Requests -> {"new", "lookup", "get", "start", "store", "answered"}]
  /\ found \in [Requests -> Requests \cup {NoRun}]
  /\ answer \in [Requests -> Answers \cup {NoAnswer}]
  /\ key \in Keys
  /\ registered \subseteq Requests
  /\ evicting \in Requests \cup {NoRun}
  /\ stopping \in BOOLEAN
  /\ before \in [Requests -> SUBSET Requests]
  /\ dead \in [Requests -> SUBSET Requests]
  /\ gone \subseteq Requests

(* A client is never sent to the run of a request with another body        *)
(* (another fingerprint), and never refused for a run of its own body,     *)
(* however lookups, stores, expiry and eviction of several requests fall   *)
(* together.  (The refusal names the run of the other body.)               *)
AnswerMatchesBody ==
  \A q \in Requests :
    /\ answer[q].code = 200 => print[answer[q].run] = print[q]
    /\ answer[q].code = 409 => print[answer[q].run] # print[q]

(* Once a request has been answered with a run, and no other request       *)
(* overlapped with it, one that comes later starts no second run, and one  *)
(* with another body is refused, until the run is evicted or the key       *)
(* expires.                                                                *)
Overlap(o, q) == o # q /\ o \notin before[q] /\ q \notin before[o]

LaterStartsNothing ==
  \A q \in Requests : Started(q) =>
    \A r \in before[q] :
      r \in gone \/ \E o \in Requests : Started(o) /\ o # q /\ Overlap(o, r)

(* Nobody is sent to a run that was evicted before the request came, not   *)
(* even when the run was evicted before its own key was stored, and the    *)
(* key names it still.                                                     *)
NotSentToEvicted ==
  \A q \in Requests :
    answer[q].code = 200 /\ answer[q].run # q => answer[q].run \notin dead[q]
=============================================================================
