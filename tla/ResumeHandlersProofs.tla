------------------------ MODULE ResumeHandlersProofs ------------------------
(***************************************************************************)
(* Theorems about ResumeHandlers, for every number of requests, commands,  *)
(* keys and approvals, and a crash at any step.                            *)
(***************************************************************************)
EXTENDS ResumeHandlers, TLAPS

Idle == {"new", "answered"}

(* An approval that is named somewhere was made.                           *)
Made(a) == a = Nothing \/ a.id \in 1..Len(made)

RunSound == RunTypes /\ Made(pending) /\ Made(sidecar) /\ Made(saved.pending)

(* What the types of a step need of a handler: the approvals it names were *)
(* made, one that has not begun has done nothing, one at work has its      *)
(* request, and one with an answer to write or to act on has read the      *)
(* approval.                                                               *)
Sound(x) ==
  /\ Made(x.held) /\ Made(x.result.pending)
  /\ x.at = "new" => x = NoHandler
  /\ x.at \notin Idle => x.command \in Commands /\ x.key \in Keys
  /\ x.at = "grant" \/ (x.at = "resume" /\ x.kind = "approve") => x.held # Nothing

(* And of the run: one that a restart has dropped is in nobody's hands.    *)
TInv ==
  /\ RunSound
  /\ h \in [Requests -> Handlers]
  /\ \A q \in Requests : Sound(h[q])
  /\ status = "gone" => \A q \in Requests : h[q].at \in Idle

(* A request that has not come is of a handler's type.                     *)
LEMMA NoHandlerTyped == NoHandler \in Handlers /\ Sound(NoHandler)
PROOF
  BY DEF NoHandler, Handlers, Steps, Kinds, Result, Sound, Made, Idle

(* What is known of a handler at work.                                     *)
LEMMA AtWork ==
  ASSUME TInv, NEW q \in Requests
  PROVE  /\ h[q] \in Handlers /\ Sound(h[q])
         /\ h[q].at \notin Idle => status # "gone"
PROOF
  BY DEF TInv

(* A step of one handler needs to be looked at for that handler alone.     *)
LEMMA OneHandler ==
  ASSUME TInv, RunSound', NEW q \in Requests,
         h' = [h EXCEPT ![q] = h'[q]], h'[q] \in Handlers, Sound(h[q])',
         Len(made') >= Len(made), status' # "gone"
  PROVE  TInv'
PROOF
  <1>1. h' \in [Requests -> Handlers]
    BY DEF TInv
  <1>2. Len(made) \in Nat /\ Len(made') \in Nat
    BY DEF TInv, RunSound, RunTypes
  <1>3. ASSUME NEW p \in Requests PROVE Sound(h[p])'
    <2>1. CASE p = q
      BY <2>1
    <2>2. CASE p # q
      <3>1. h'[p] = h[p] /\ Sound(h[p])
        BY <2>2 DEF TInv
      <3>2. Made(h[p].held)' /\ Made(h[p].result.pending)'
        BY <3>1, <1>2 DEF Sound, Made
      <3> QED
        BY <3>1, <3>2 DEF Sound
    <2> QED
      BY <2>1, <2>2
  <1> QED
    BY <1>1, <1>3 DEF TInv

(* A handler that only goes on to its next step keeps the types, if that   *)
(* step has the approval it needs.                                         *)
LEMMA GoesOn ==
  ASSUME TInv, RunSound', NEW q \in Requests, h[q].at \notin Idle,
         NEW step \in Steps \ {"new"}, To(q, step),
         step = "grant" \/ (step = "resume" /\ h[q].kind = "approve") => h[q].held # Nothing,
         Len(made') >= Len(made), status' # "gone"
  PROVE  TInv'
PROOF
  <1>1. h[q] \in Handlers /\ Sound(h[q]) /\ h \in [Requests -> Handlers]
    BY DEF TInv
  <1>2. h' = [h EXCEPT ![q] = h'[q]] /\ h'[q] = [h[q] EXCEPT !.at = step]
    BY <1>1 DEF To
  <1>3. h'[q] \in Handlers
    BY <1>1, <1>2 DEF Handlers
  <1>4. Len(made) \in Nat /\ Len(made') \in Nat
    BY DEF TInv, RunSound, RunTypes
  <1>5. Sound(h[q])'
    BY <1>1, <1>2, <1>4 DEF Sound, Made, Handlers
  <1> QED
    BY <1>2, <1>3, <1>5, OneHandler

(* So does one that the pipeline has handed its result.                    *)
LEMMA Handed ==
  ASSUME TInv, RunSound', NEW q \in Requests, h[q].at \notin Idle,
         NEW result \in Result, Hand(q, result),
         result.pending = Nothing \/ result.pending.id \in 1..Len(made'),
         Len(made') >= Len(made), status' # "gone"
  PROVE  TInv'
PROOF
  <1>1. h[q] \in Handlers /\ Sound(h[q]) /\ h \in [Requests -> Handlers]
    BY DEF TInv
  <1>2. /\ h' = [h EXCEPT ![q] = h'[q]]
        /\ h'[q] = [h[q] EXCEPT !.at = "finish", !.result = result]
    BY <1>1 DEF Hand
  <1>3. h'[q] \in Handlers
    BY <1>1, <1>2 DEF Handlers, Steps
  <1>4. Len(made) \in Nat /\ Len(made') \in Nat
    BY DEF TInv, RunSound, RunTypes
  <1>5. Sound(h[q])'
    BY <1>1, <1>2, <1>4 DEF Sound, Made, Handlers
  <1> QED
    BY <1>2, <1>3, <1>5, OneHandler

(* What an approval that is put back does to the handlers.                 *)
LEMMA PutBackStep ==
  ASSUME TInv, NEW q \in Requests, NEW a, PutBack(a, [h EXCEPT ![q].at = "persist"])
  PROVE  /\ h' \in [Requests -> Handlers]
         /\ \A p \in Requests :
              /\ h'[p].at = IF p = q THEN "persist" ELSE h[p].at
              /\ h'[p].known \subseteq h[p].known
              /\ a # Nothing => a.id \notin h'[p].known
              /\ \A i \in h[p].known \ h'[p].known : a # Nothing /\ i = a.id
              /\ h'[p].kind = h[p].kind /\ h'[p].command = h[p].command
              /\ h'[p].key = h[p].key /\ h'[p].held = h[p].held /\ h'[p].copy = h[p].copy
              /\ h'[p].carried = h[p].carried
              /\ h'[p].ran = h[p].ran /\ h'[p].verdict = h[p].verdict
              /\ h'[p].landed = h[p].landed /\ h'[p].result = h[p].result
              /\ h[p] = NoHandler /\ p # q => h'[p] = NoHandler
         /\ answered' \subseteq answered
         /\ a # Nothing => a.id \notin answered'
         /\ \A i \in answered \ answered' : a # Nothing /\ i = a.id
         /\ pending' = a
PROOF
  <1> DEFINE again == IF a = Nothing THEN {} ELSE {a.id}
  <1>1. /\ pending' = a
        /\ answered' = answered \ again
        /\ h' = [p \in Requests |->
                   [[h EXCEPT ![q].at = "persist"][p] EXCEPT !.known = @ \ again]]
    BY DEF PutBack
  <1>2. h \in [Requests -> Handlers]
    BY DEF TInv
  <1>3. ASSUME NEW p \in Requests
        PROVE  h'[p] = [h[p] EXCEPT !.at = IF p = q THEN "persist" ELSE h[p].at,
                                    !.known = h[p].known \ again]
    <2>1. h[p] \in Handlers
      BY <1>2
    <2>2. CASE p = q
      BY <1>1, <1>2, <2>1, <2>2 DEF Handlers
    <2>3. CASE p # q
      BY <1>1, <1>2, <2>1, <2>3 DEF Handlers
    <2> QED
      BY <2>2, <2>3
  <1>4. ASSUME NEW p \in Requests
        PROVE  h'[p] \in Handlers
    <2>1. h[p] \in Handlers
      BY <1>2
    <2>2. h[p].known \ again \in SUBSET (1..MaxApprovals)
      BY <2>1 DEF Handlers
    <2>3. (IF p = q THEN "persist" ELSE h[p].at) \in Steps
      BY <2>1 DEF Handlers, Steps
    <2> HIDE DEF again
    <2> QED
      BY <2>1, <2>2, <2>3, <1>3 DEF Handlers
  <1>5. h' \in [Requests -> Handlers]
    BY <1>1, <1>4
  <1>6. ASSUME NEW p \in Requests
        PROVE  /\ h'[p].at = IF p = q THEN "persist" ELSE h[p].at
               /\ h'[p].known = h[p].known \ again
               /\ h'[p].kind = h[p].kind /\ h'[p].command = h[p].command
               /\ h'[p].key = h[p].key /\ h'[p].held = h[p].held /\ h'[p].copy = h[p].copy
               /\ h'[p].carried = h[p].carried
               /\ h'[p].ran = h[p].ran /\ h'[p].verdict = h[p].verdict
               /\ h'[p].landed = h[p].landed /\ h'[p].result = h[p].result
    <2>1. h[p] \in Handlers
      BY <1>2
    <2> QED
      BY <2>1, <1>3 DEF Handlers
  <1>7. ASSUME NEW p \in Requests, h[p] = NoHandler, p # q
        PROVE  h'[p] = NoHandler
    <2>1. h'[p] = [h[p] EXCEPT !.at = h[p].at, !.known = h[p].known \ again]
      BY <1>3, <1>7
    <2>2. h[p].known = {} /\ h[p].at = "new" /\ {} \ again = {}
      <3>1. NoHandler.known = {} /\ NoHandler.at = "new"
        BY DEF NoHandler
      <3> QED
        BY <1>7, <3>1
    <2>3. h'[p] = [NoHandler EXCEPT !.at = "new", !.known = {}]
      BY <2>1, <2>2, <1>7
    <2> QED
      BY <2>3 DEF NoHandler
  <1>8. (a # Nothing => a.id \in again) /\ \A i \in again : a # Nothing /\ i = a.id
    OBVIOUS
  <1> HIDE DEF again
  <1>9. /\ answered' \subseteq answered
        /\ a # Nothing => a.id \notin answered'
        /\ \A i \in answered \ answered' : a # Nothing /\ i = a.id
    BY <1>1, <1>8
  <1>10. ASSUME NEW p \in Requests
         PROVE  /\ h'[p].known \subseteq h[p].known
                /\ a # Nothing => a.id \notin h'[p].known
                /\ \A i \in h[p].known \ h'[p].known : a # Nothing /\ i = a.id
    <2>1. h'[p].known = h[p].known \ again
      BY <1>6
    <2> QED
      BY <2>1, <1>8
  <1> QED
    BY <1>1, <1>5, <1>6, <1>7, <1>9, <1>10

(* Putting an approval back keeps the types.                               *)
LEMMA PutBackTypes ==
  ASSUME TInv, RunSound', NEW q \in Requests, h[q].at \notin Idle,
         NEW a, PutBack(a, [h EXCEPT ![q].at = "persist"]), made' = made, status' # "gone"
  PROVE  TInv'
PROOF
  <1>1. h' \in [Requests -> Handlers]
    BY PutBackStep
  <1>2. ASSUME NEW p \in Requests PROVE Sound(h[p])'
    <2>1. Sound(h[p]) /\ Sound(h[q]) /\ h[p] \in Handlers
      BY DEF TInv
    <2>2. /\ h'[p].at = IF p = q THEN "persist" ELSE h[p].at
          /\ h'[p].held = h[p].held /\ h'[p].result = h[p].result /\ h'[p].kind = h[p].kind
          /\ h'[p].command = h[p].command /\ h'[p].key = h[p].key
          /\ h[p] = NoHandler /\ p # q => h'[p] = NoHandler
      BY PutBackStep
    <2>3. Made(h[p].held)' /\ Made(h[p].result.pending)'
      BY <2>1, <2>2 DEF Sound, Made
    <2>4. CASE p = q
      BY <2>1, <2>2, <2>3, <2>4 DEF Sound, Idle
    <2>5. CASE p # q
      BY <2>1, <2>2, <2>3, <2>5 DEF Sound, Idle
    <2> QED
      BY <2>4, <2>5
  <1> QED
    BY <1>1, <1>2 DEF TInv

(* The restart forgets every handler that had begun.                       *)
LEMMA Restarted ==
  ASSUME TInv, NEW q \in Requests, Restart
  PROVE  \/ h'[q] = h[q] /\ h[q].at = "new"
         \/ /\ h'[q].at = "answered" /\ h'[q].held = Nothing /\ h'[q].known = {}
            /\ h'[q].ran = Nothing /\ h'[q].result.pending = Nothing
PROOF
  <1>1. h \in [Requests -> Handlers]
    BY DEF TInv
  <1> DEFINE over == [NoHandler EXCEPT !.at = "answered"]
  <1>2. /\ over.at = "answered" /\ over.held = Nothing /\ over.known = {}
        /\ over.ran = Nothing /\ over.result.pending = Nothing
    BY DEF NoHandler
  <1>3. (h'[q] = h[q] /\ h[q].at = "new") \/ h'[q] = over
    BY <1>1 DEF Restart
  <1> HIDE DEF over
  <1> QED
    BY <1>2, <1>3

(* Init gives the types.                                                   *)
LEMMA TypesInit == Init => TInv
PROOF
  <1> SUFFICES ASSUME Init PROVE TInv
    OBVIOUS
  <1>1. RunSound
    BY ResumeAssumption DEF Init, RunSound, RunTypes, Waiting, Snapshot, Made
  <1> QED
    BY <1>1, NoHandlerTyped DEF Init, TInv, Waiting, Idle

(* Every step keeps the types.                                             *)
LEMMA TypesNext == TInv /\ [Next]_vars => TInv'
PROOF
  <1> SUFFICES ASSUME TInv, [Next]_vars PROVE TInv'
    OBVIOUS
  <1> USE ResumeAssumption, NothingAssumption
  <1>1. CASE UNCHANGED vars
    BY <1>1 DEF vars, run, disk, TInv, RunSound, RunTypes, Made, Sound
  <1>2. ASSUME NEW q \in Requests, Arrive(q) PROVE TInv'
    <2>1. PICK kind \in Kinds, command \in Commands, key \in Keys, carried \in BOOLEAN :
            /\ carried => kind \in {"verify", "replay"}
            /\ h' = [h EXCEPT ![q].at = "look", ![q].kind = kind, ![q].command = command,
                              ![q].key = key, ![q].carried = carried, ![q].known = answered]
      BY <1>2 DEF Arrive
    <2>2. h[q] \in Handlers /\ Sound(h[q]) /\ h \in [Requests -> Handlers]
      BY DEF TInv
    <2>3. /\ h' = [h EXCEPT ![q] = h'[q]]
          /\ h'[q] = [h[q] EXCEPT !.at = "look", !.kind = kind, !.command = command,
                                  !.key = key, !.carried = carried, !.known = answered]
      BY <2>1, <2>2
    <2>4. RunSound' /\ Len(made') >= Len(made) /\ answered \in SUBSET (1..MaxApprovals)
      BY <1>2 DEF Arrive, run, disk, TInv, RunSound, RunTypes, Made
    <2>5. h'[q] \in Handlers
      BY <2>2, <2>3, <2>4 DEF Handlers, Steps
    <2>6. Sound(h[q])'
      BY <1>2, <2>2, <2>3 DEF Arrive, run, disk, Sound, Made, Handlers, Idle
    <2> QED
      BY <1>2, <2>3, <2>4, <2>5, <2>6, OneHandler DEF Arrive, run, disk
  <1>3. ASSUME NEW q \in Requests, Look(q) PROVE TInv'
    <2>1. h[q].at \notin Idle /\ status # "gone"
      BY <1>3, AtWork DEF Look, Idle
    <2>2. RunSound' /\ Len(made') >= Len(made) /\ status' = status
      BY <1>3 DEF Look, run, disk, TInv, RunSound, RunTypes, Made
    <2>3. PICK step \in {"read", "resume", "remove", "answered"} :
            To(q, step) /\ (step = "resume" => h[q].kind = "verify")
      BY <1>3 DEF Look
    <2> QED
      BY <2>1, <2>2, <2>3, GoesOn DEF Steps
  <1>4. ASSUME NEW q \in Requests, ReadApproval(q) PROVE TInv'
    <2>1. h[q].at \notin Idle /\ status # "gone" /\ h[q] \in Handlers /\ Sound(h[q])
          /\ h \in [Requests -> Handlers]
      BY <1>4, AtWork DEF ReadApproval, Is, Idle, TInv
    <2>2. RunSound' /\ Len(made') >= Len(made) /\ UNCHANGED <<made, status>>
      BY <1>4 DEF ReadApproval, run, disk, TInv, RunSound, RunTypes, Made
    <2>3. CASE To(q, "answered")
      BY <2>1, <2>2, <2>3, GoesOn DEF Steps
    <2>4. CASE pending # Nothing /\ h' = [h EXCEPT ![q].at = "grant", ![q].held = pending]
      <3>1. pending \in Approval /\ Made(pending)
        BY <2>4 DEF TInv, RunSound, RunTypes
      <3>2. h' = [h EXCEPT ![q] = h'[q]] /\ h'[q] = [h[q] EXCEPT !.at = "grant", !.held = pending]
        BY <2>1, <2>4
      <3>3. h'[q] \in Handlers
        BY <2>1, <3>1, <3>2 DEF Handlers, Steps
      <3>4. Sound(h[q])'
        BY <2>1, <2>2, <2>4, <3>1, <3>2 DEF Sound, Made, Handlers, Idle
      <3> QED
        BY <2>1, <2>2, <3>2, <3>3, <3>4, OneHandler
    <2> QED
      BY <1>4, <2>3, <2>4 DEF ReadApproval
  <1>5. ASSUME NEW q \in Requests, Grant(q) PROVE TInv'
    <2>1. h[q].at \notin Idle /\ status # "gone" /\ h[q].held # Nothing
          /\ h[q] \in Handlers /\ Made(h[q].held)
      BY <1>5, AtWork DEF Grant, Is, Idle, Sound
    <2>2. h[q].held \in Approval
      BY <2>1 DEF Handlers
    <2>3. PICK step \in {"resume", "persist"} : To(q, step)
      BY <1>5 DEF Grant
    <2>4. pending' \in Approval /\ Made(pending)' /\ answered' \subseteq 1..Len(made)
      <3>1. h[q].held.id \in 1..Len(made)
        BY <2>1 DEF Made
      <3>2. \/ pending' = [h[q].held EXCEPT !.state = "granted"]
            \/ pending' = [h[q].held EXCEPT !.state = "rejected"]
        BY <1>5 DEF Grant
      <3>3. pending' \in Approval /\ pending'.id = h[q].held.id
        BY <2>2, <3>2 DEF Approval
      <3> QED
        BY <1>5, <3>1, <3>3 DEF Grant, Made, TInv, RunSound, RunTypes
    <2>5. status' \in {status, "error"} /\ UNCHANGED <<keys, saved, sidecar, fix, made>>
      BY <1>5 DEF Grant, disk
    <2>6. RunSound' /\ Len(made') >= Len(made) /\ status' # "gone"
      BY <2>1, <2>4, <2>5 DEF TInv, RunSound, RunTypes, Made
    <2> QED
      BY <2>1, <2>3, <2>6, GoesOn DEF Steps
  <1>6. ASSUME NEW q \in Requests, ReadKeys(q) PROVE TInv'
    <2>1. h[q].at \notin Idle /\ status # "gone" /\ h[q] \in Handlers /\ Sound(h[q])
          /\ h \in [Requests -> Handlers]
      BY <1>6, AtWork DEF ReadKeys, Is, Idle, TInv
    <2>2. RunSound' /\ Len(made') >= Len(made) /\ UNCHANGED <<made, status>>
      BY <1>6, <2>1 DEF ReadKeys, run, TInv, RunSound, RunTypes, Made, Snapshot
    <2>3. CASE To(q, "answered")
      BY <2>1, <2>2, <2>3, GoesOn DEF Steps
    <2>4. CASE h' = [h EXCEPT ![q].at = "record", ![q].copy = keys]
      <3>1. keys \in SUBSET Keys
        BY DEF TInv, RunSound, RunTypes
      <3>2. h' = [h EXCEPT ![q] = h'[q]] /\ h'[q] = [h[q] EXCEPT !.at = "record", !.copy = keys]
        BY <2>1, <2>4
      <3>3. h'[q] \in Handlers
        BY <2>1, <3>1, <3>2 DEF Handlers, Steps
      <3>4. Sound(h[q])'
        BY <2>1, <2>2, <3>2 DEF Sound, Made, Handlers, Idle
      <3> QED
        BY <2>1, <2>2, <3>2, <3>3, <3>4, OneHandler
    <2> QED
      BY <1>6, <2>3, <2>4 DEF ReadKeys
  <1>7. ASSUME NEW q \in Requests, Record(q) PROVE TInv'
    <2>1. h[q].at \notin Idle /\ status # "gone" /\ h[q] \in Handlers /\ h[q].key \in Keys
      BY <1>7, AtWork DEF Record, Is, Idle, Sound
    <2>2. h[q].copy \subseteq Keys
      BY <2>1 DEF Handlers
    <2>3. /\ keys' = h[q].copy \cup {h[q].key} /\ status' \in {status, "error", "done"}
          /\ UNCHANGED <<pending, saved, sidecar, fix, made, answered>>
      BY <1>7 DEF Record, disk
    <2>4. RunSound' /\ Len(made') >= Len(made) /\ status' # "gone"
      BY <2>1, <2>2, <2>3 DEF TInv, RunSound, RunTypes, Made
    <2>5. PICK step \in {"resume", "rerun", "persist", "answered"} :
            To(q, step) /\ (step = "resume" => h[q].kind = "replay")
      BY <1>7 DEF Record
    <2> QED
      BY <2>1, <2>4, <2>5, GoesOn DEF Steps
  <1>8. ASSUME NEW q \in Requests, Resume(q) PROVE TInv'
    <2>1. h[q].at \notin Idle /\ status # "gone" /\ h[q].command \in Commands
      BY <1>8, AtWork DEF Resume, Is, Idle, Sound
    <2>2. UNCHANGED <<status, pending, keys, saved, fix, answered>>
      BY <1>8 DEF Resume, run
    <2>3. CASE /\ Len(made) < MaxApprovals /\ made' = Append(made, h[q].command)
               /\ sidecar' = [id |-> Len(made) + 1,
                              state |-> IF h[q].carried THEN "invalid" ELSE "required"]
               /\ Hand(q, [status |-> "approval_required", pending |-> sidecar'])
      <3>1. made \in Seq(Commands) /\ Len(made) \in Nat
        BY DEF TInv, RunSound, RunTypes
      <3>2. made' \in Seq(Commands) /\ Len(made') = Len(made) + 1 /\ Len(made') <= MaxApprovals
        BY <2>1, <2>3, <3>1
      <3>3. sidecar' \in Approval /\ sidecar'.id = Len(made')
        BY <2>3, <3>1, <3>2 DEF Approval
      <3>4. RunSound'
        BY <2>2, <3>1, <3>2, <3>3 DEF TInv, RunSound, RunTypes, Made
      <3>5. [status |-> "approval_required", pending |-> sidecar'] \in Result
        BY <3>3 DEF Result, Waiting
      <3> QED
        BY <2>1, <2>2, <2>3, <3>1, <3>2, <3>3, <3>4, <3>5, Handed
    <2>4. CASE /\ sidecar' \in {sidecar, Nothing} /\ made' = made
               /\ \/ Hand(q, [status |-> "", pending |-> Nothing])
                  \/ Hand(q, [status |-> "raised", pending |-> Nothing])
      <3>1. RunSound' /\ Len(made') >= Len(made)
        <4>1. sidecar' \in {sidecar, Nothing} /\ made' = made
          BY <2>4
        <4> QED
          BY <2>2, <4>1 DEF TInv, RunSound, RunTypes, Made
      <3>2. /\ [status |-> "", pending |-> Nothing] \in Result
            /\ [status |-> "raised", pending |-> Nothing] \in Result
        BY DEF Result
      <3> QED
        BY <2>1, <2>2, <2>4, <3>1, <3>2, Handed
    <2> QED
      BY <1>8, <2>3, <2>4 DEF Resume, Raise
  <1>9. ASSUME NEW q \in Requests, Execute(q) PROVE TInv'
    <2>1. h[q].at \notin Idle /\ status # "gone"
          /\ h[q] \in Handlers /\ Sound(h[q]) /\ h \in [Requests -> Handlers]
      BY <1>9, AtWork DEF Execute, Idle, TInv
    <2>2. /\ UNCHANGED <<status, pending, keys, saved, fix, made, answered>>
          /\ sidecar' \in {sidecar, Nothing}
      BY <1>9 DEF Execute, run
    <2>3. RunSound' /\ Len(made') >= Len(made)
      BY <2>2 DEF TInv, RunSound, RunTypes, Made
    <2>4. ASSUME NEW verdict \in {"passed", "failed"},
                 h' = [h EXCEPT ![q].at = "settle", ![q].ran = Granted(q),
                                ![q].verdict = verdict]
          PROVE  TInv'
      <3>1. Granted(q) \in Commands
        <4>1. h[q].command \in Commands
          BY <1>9, <2>1 DEF Execute, Sound, Idle
        <4>2. ASSUME h[q].kind = "approve" PROVE made[h[q].held.id] \in Commands
          <5>1. h[q].held.id \in 1..Len(made) /\ made \in Seq(Commands)
            BY <1>9, <2>1, <4>2 DEF Execute, Sound, Made, TInv, RunSound, RunTypes
          <5> QED
            BY <5>1
        <4> QED
          BY <4>1, <4>2 DEF Granted
      <3>2. /\ h' = [h EXCEPT ![q] = h'[q]]
            /\ h'[q] = [h[q] EXCEPT !.at = "settle", !.ran = Granted(q),
                                    !.verdict = verdict]
        BY <2>1, <2>4
      <3>3. h'[q] \in Handlers
        BY <2>1, <3>1, <3>2 DEF Handlers, Steps
      <3>4. Sound(h[q])'
        BY <2>1, <2>2, <3>2 DEF Sound, Made, Handlers, Idle
      <3> QED
        BY <2>1, <2>2, <2>3, <3>2, <3>3, <3>4, OneHandler
    <2>5. CASE \/ Hand(q, [status |-> "", pending |-> Nothing])
               \/ Hand(q, [status |-> "raised", pending |-> Nothing])
      <3>1. /\ [status |-> "", pending |-> Nothing] \in Result
            /\ [status |-> "raised", pending |-> Nothing] \in Result
        BY DEF Result
      <3> QED
        BY <2>1, <2>2, <2>3, <2>5, <3>1, Handed
    <2> QED
      BY <1>9, <2>4, <2>5 DEF Execute, Raise
  <1>10. ASSUME NEW q \in Requests, Settle(q) PROVE TInv'
    <2>1. h[q].at \notin Idle /\ status # "gone"
          /\ h[q] \in Handlers /\ Sound(h[q]) /\ h \in [Requests -> Handlers]
      BY <1>10, AtWork DEF Settle, Is, Idle, Sound, TInv
    <2>2. /\ UNCHANGED <<status, pending, keys, saved, fix, made, answered>>
          /\ sidecar' \in {sidecar, Nothing}
      BY <1>10 DEF Settle, run
    <2>3. RunSound' /\ Len(made') >= Len(made)
      BY <2>2 DEF TInv, RunSound, RunTypes, Made
    <2>4. ASSUME NEW s \in {"success", "error"},
                 h' = [h EXCEPT ![q].at = "finish", ![q].landed = TRUE,
                                ![q].result = [status |-> s, pending |-> Nothing]]
          PROVE  TInv'
      <3>1. [status |-> s, pending |-> Nothing] \in Result
        BY DEF Result
      <3>2. /\ h' = [h EXCEPT ![q] = h'[q]]
            /\ h'[q] = [h[q] EXCEPT !.at = "finish", !.landed = TRUE,
                                    !.result = [status |-> s, pending |-> Nothing]]
        BY <2>1, <2>4
      <3>3. h'[q] \in Handlers
        BY <2>1, <3>1, <3>2 DEF Handlers, Steps
      <3>4. Sound(h[q])'
        BY <2>1, <2>2, <3>2 DEF Sound, Made, Handlers, Idle
      <3> QED
        BY <2>1, <2>2, <2>3, <3>2, <3>3, <3>4, OneHandler
    <2>5. CASE Raise(q)
      <3>1. [status |-> "raised", pending |-> Nothing] \in Result
        BY DEF Result
      <3> QED
        BY <2>1, <2>2, <2>3, <2>5, <3>1, Handed DEF Raise
    <2>6. \/ Raise(q)
          \/ \E s \in {"success", "error"} :
               h' = [h EXCEPT ![q].at = "finish", ![q].landed = TRUE,
                              ![q].result = [status |-> s, pending |-> Nothing]]
      BY <1>10 DEF Settle
    <2> QED
      BY <2>4, <2>5, <2>6
  <1>11. ASSUME NEW q \in Requests, Rerun(q) PROVE TInv'
    <2>1. h[q].at \notin Idle /\ status # "gone"
      BY <1>11, AtWork DEF Rerun, Is, Idle
    <2>2. RunSound' /\ Len(made') >= Len(made) /\ UNCHANGED <<made, status>>
      BY <1>11 DEF Rerun, run, disk, TInv, RunSound, RunTypes, Made
    <2>3. PICK s \in {"success", "error", "verification_pending"} :
            Hand(q, [status |-> s, pending |-> Nothing])
      BY <1>11 DEF Rerun
    <2>4. [status |-> s, pending |-> Nothing] \in Result
      BY DEF Result, Waiting
    <2> QED
      BY <2>1, <2>2, <2>3, <2>4, Handed
  <1>12. ASSUME NEW q \in Requests, Finish(q) PROVE TInv'
    <2>1. h[q].at \notin Idle /\ status # "gone" /\ h[q] \in Handlers /\ Sound(h[q])
      BY <1>12, AtWork DEF Finish, Is, Idle
    <2>2. UNCHANGED <<saved, sidecar, fix, made>>
      BY <1>12 DEF Finish, disk
    <2>3. CASE To(q, "answered") /\ UNCHANGED <<run, answered>>
      <3>1. RunSound' /\ Len(made') >= Len(made) /\ UNCHANGED status
        BY <2>2, <2>3 DEF run, TInv, RunSound, RunTypes, Made
      <3> QED
        BY <2>1, <2>3, <3>1, GoesOn DEF Steps
    <2>4. CASE /\ PutBack(h[q].result.pending, [h EXCEPT ![q].at = "persist"])
               /\ status' = Mapped(q) /\ keys' = {} /\ h[q].result.status # "raised"
      <3>1. h[q].result \in Result
        BY <2>1 DEF Handlers
      <3>2. Mapped(q) \in Waiting \cup {"done", "error"}
        BY <3>1 DEF Mapped, Result, Waiting
      <3>3. pending' = h[q].result.pending /\ answered' \subseteq answered
        BY <2>4, PutBackStep
      <3>4. pending' \in Approval \cup {Nothing} /\ Made(pending)'
        BY <2>1, <2>2, <3>1, <3>3 DEF Result, Sound, Made
      <3>5. RunSound' /\ status' # "gone"
        BY <2>2, <2>4, <3>2, <3>3, <3>4 DEF TInv, RunSound, RunTypes, Made, Waiting
      <3> QED
        BY <2>1, <2>2, <2>4, <3>5, PutBackTypes
    <2> QED
      BY <1>12, <2>3, <2>4 DEF Finish
  <1>13. ASSUME NEW q \in Requests, FinishReplay(q) PROVE TInv'
    <2>1. h[q].at \notin Idle /\ status # "gone" /\ h[q] \in Handlers /\ h[q].key \in Keys
      BY <1>13, AtWork DEF FinishReplay, Is, Idle, Sound
    <2>2. /\ UNCHANGED <<saved, sidecar, fix, made>>
          /\ PutBack(sidecar, [h EXCEPT ![q].at = "persist"])
          /\ status' = Mapped(q) /\ keys' = h[q].copy \cup {h[q].key}
      BY <1>13 DEF FinishReplay, disk
    <2>3. h[q].result \in Result /\ h[q].copy \subseteq Keys
      BY <2>1 DEF Handlers
    <2>4. Mapped(q) \in Waiting \cup {"done", "error"}
      BY <2>3 DEF Mapped, Result, Waiting
    <2>5. pending' = sidecar /\ answered' \subseteq answered
      BY <2>2, PutBackStep
    <2>6. RunSound' /\ status' # "gone"
      BY <2>1, <2>2, <2>3, <2>4, <2>5 DEF TInv, RunSound, RunTypes, Made, Waiting
    <2> QED
      BY <2>1, <2>2, <2>6, PutBackTypes
  <1>14. ASSUME NEW q \in Requests, Persist(q) PROVE TInv'
    <2>1. h[q].at \notin Idle /\ status # "gone"
      BY <1>14, AtWork DEF Persist, Idle
    <2>2. RunSound' /\ Len(made') >= Len(made) /\ UNCHANGED status
      BY <1>14, <2>1 DEF Persist, run, Snapshot, TInv, RunSound, RunTypes, Made
    <2>3. PICK step \in {"persist", "answered"} : To(q, step)
      BY <1>14 DEF Persist
    <2> QED
      BY <2>1, <2>2, <2>3, GoesOn DEF Steps
  <1>15. ASSUME NEW q \in Requests, Cleanup(q) PROVE TInv'
    <2>1. h[q].at \notin Idle /\ status # "gone"
      BY <1>15, AtWork DEF Cleanup, Is, Idle
    <2>2. fix' \in {"none", "in_place", "isolated", "removed"}
      BY <1>15 DEF Cleanup, TInv, RunSound, RunTypes
    <2>3. RunSound' /\ Len(made') >= Len(made) /\ UNCHANGED status
      BY <1>15, <2>1, <2>2 DEF Cleanup, run, Snapshot, TInv, RunSound, RunTypes, Made
    <2>4. To(q, "answered")
      BY <1>15 DEF Cleanup
    <2> QED
      BY <2>1, <2>3, <2>4, GoesOn DEF Steps
  <1>16. CASE Restart
    <2>1. UNCHANGED <<saved, sidecar, fix, made>> /\ answered' = {}
          /\ status' \in {saved.status, "gone"} /\ pending' \in {saved.pending, sidecar}
          /\ keys' = saved.keys
      BY <1>16 DEF Restart, Restored, disk
    <2>2. /\ saved.status \in Waiting \cup {"done", "error"} /\ saved.keys \subseteq Keys
          /\ saved.pending \in Approval \cup {Nothing}
      BY DEF TInv, RunSound, RunTypes
    <2>3. pending' \in Approval \cup {Nothing} /\ Made(pending)'
      BY <2>1, <2>2 DEF TInv, RunSound, RunTypes, Made
    <2>4. RunSound'
      BY <2>1, <2>2, <2>3 DEF TInv, RunSound, RunTypes, Made
    <2>5. ASSUME NEW q \in Requests PROVE Sound(h[q])' /\ h'[q].at \in Idle
      <3>1. CASE h'[q] = h[q] /\ h[q].at = "new"
        BY <2>1, <3>1 DEF TInv, Sound, Made, Idle
      <3>2. CASE /\ h'[q].at = "answered" /\ h'[q].held = Nothing
                 /\ h'[q].result.pending = Nothing
        BY <3>2 DEF Sound, Made, Idle
      <3> QED
        BY <1>16, <3>1, <3>2, Restarted
    <2>6. h' \in [Requests -> Handlers]
      BY <1>16, NoHandlerTyped DEF Restart, TInv, Handlers, Steps
    <2> QED
      BY <2>4, <2>5, <2>6 DEF TInv
  <1> QED
    BY <1>1, <1>2, <1>3, <1>4, <1>5, <1>6, <1>7, <1>8, <1>9, <1>10, <1>11, <1>12, <1>13,
       <1>14, <1>15, <1>16 DEF Next, Handle

(* The variables have their types, whatever the handlers do to the run     *)
(* between each other's steps and wherever the daemon dies.                *)
THEOREM ResumeTypes == Spec => []TypeOK
PROOF
  <1>1. TInv => TypeOK
    BY DEF TInv, RunSound, TypeOK
  <1> QED
    BY <1>1, TypesInit, TypesNext, PTL DEF Spec

---------------------------------------------------------------------------
(* The approvals.  A handler that has read an approval was sent for its    *)
(* command, and after it was answered last; what was executed is that      *)
(* command; and an approval that can be answered has not been, as far as   *)
(* the daemon remembers.                                                   *)
Honest(x) ==
  /\ x.held # Nothing => made[x.held.id] = x.command /\ x.held.id \notin x.known
  /\ x.ran # Nothing =>
       /\ x.ran = x.command
       /\ x.kind = "approve" \/ x.carried
       /\ x.kind = "approve" => x.held # Nothing
  /\ x.known \subseteq answered

Approved ==
  /\ \A q \in Requests : Honest(h[q])
  /\ pending # Nothing /\ pending.state = "required" => pending.id \notin answered

(* The part of a handler that Honest speaks of stays as it is.             *)
Same(p) ==
  /\ h'[p].held = h[p].held /\ h'[p].ran = h[p].ran /\ h'[p].kind = h[p].kind
  /\ h'[p].command = h[p].command /\ h'[p].known = h[p].known
  /\ h'[p].carried = h[p].carried

(* It does in a step to another place, and when a result is handed over.   *)
LEMMA SameTo ==
  ASSUME TInv, NEW q \in Requests, NEW step, To(q, step)
  PROVE  \A p \in Requests : Same(p) /\ (p # q => h'[p] = h[p])
PROOF
  <1>1. h \in [Requests -> Handlers] /\ h[q] \in Handlers
    BY DEF TInv
  <1>2. \A p \in Requests : p # q => h'[p] = h[p]
    BY <1>1 DEF To
  <1>3. h'[q] = [h[q] EXCEPT !.at = step]
    BY <1>1 DEF To
  <1>4. Same(q)
    BY <1>1, <1>3 DEF Same, Handlers
  <1> QED
    BY <1>2, <1>4 DEF Same

(* So it does when a result is handed over.                                *)
LEMMA SameHand ==
  ASSUME TInv, NEW q \in Requests, NEW result, Hand(q, result)
  PROVE  /\ \A p \in Requests : Same(p) /\ (p # q => h'[p] = h[p])
         /\ h'[q].at = "finish" /\ h'[q].result = result
PROOF
  <1>1. h \in [Requests -> Handlers] /\ h[q] \in Handlers
    BY DEF TInv
  <1>2. \A p \in Requests : p # q => h'[p] = h[p]
    BY <1>1 DEF Hand
  <1>3. h'[q] = [h[q] EXCEPT !.at = "finish", !.result = result]
    BY <1>1 DEF Hand
  <1>4. Same(q) /\ h'[q].at = "finish" /\ h'[q].result = result
    BY <1>1, <1>3 DEF Same, Handlers
  <1> QED
    BY <1>2, <1>4 DEF Same

(* A handler that stays the same stays honest, while approvals are only    *)
(* added to those that were made and to those that were answered.          *)
LEMMA HonestKept ==
  ASSUME TInv, NEW p \in Requests, Honest(h[p]), Same(p), answered \subseteq answered',
         \A i \in 1..Len(made) : made'[i] = made[i]
  PROVE  Honest(h[p])'
PROOF
  <1>1. Made(h[p].held)
    BY DEF TInv, Sound
  <1> QED
    BY <1>1 DEF Honest, Same, Made

(* It also does when an approval is put back, which forgets the answer on  *)
(* both sides.                                                             *)
LEMMA PutBackApproved ==
  ASSUME TInv, Approved, NEW q \in Requests, NEW a,
         PutBack(a, [h EXCEPT ![q].at = "persist"]), made' = made
  PROVE  Approved'
PROOF
  <1>1. ASSUME NEW p \in Requests PROVE Honest(h[p])'
    <2>1. /\ h'[p].known \subseteq h[p].known
          /\ a # Nothing => a.id \notin h'[p].known
          /\ \A i \in answered \ answered' : a # Nothing /\ i = a.id
          /\ h'[p].kind = h[p].kind /\ h'[p].command = h[p].command
          /\ h'[p].held = h[p].held /\ h'[p].ran = h[p].ran /\ h'[p].carried = h[p].carried
      BY PutBackStep
    <2> QED
      BY <2>1 DEF Approved, Honest
  <1>2. (a # Nothing => a.id \notin answered') /\ pending' = a
    BY PutBackStep
  <1> QED
    BY <1>1, <1>2 DEF Approved

(* Every step keeps Approved.                                              *)
LEMMA ApprovedNext == TInv /\ Approved /\ [Next]_vars => Approved'
PROOF
  <1> SUFFICES ASSUME TInv, Approved, [Next]_vars PROVE Approved'
    OBVIOUS
  <1> USE ResumeAssumption, NothingAssumption
  <1>1. ASSUME \A p \in Requests : Same(p), answered \subseteq answered',
               \A i \in 1..Len(made) : made'[i] = made[i],
               \/ UNCHANGED <<pending, answered>>
               \/ pending' # Nothing /\ pending'.state # "required"
        PROVE  Approved'
    <2>1. \A p \in Requests : Honest(h[p])'
      BY <1>1, HonestKept DEF Approved
    <2> QED
      BY <1>1, <2>1 DEF Approved
  <1>2. CASE UNCHANGED vars
    BY <1>1, <1>2 DEF vars, run, Same
  <1>3. ASSUME NEW q \in Requests, Arrive(q) PROVE Approved'
    <2>1. PICK kind \in Kinds, command \in Commands, key \in Keys, carried \in BOOLEAN :
            /\ carried => kind \in {"verify", "replay"}
            /\ h' = [h EXCEPT ![q].at = "look", ![q].kind = kind, ![q].command = command,
                              ![q].key = key, ![q].carried = carried, ![q].known = answered]
      BY <1>3 DEF Arrive
    <2>2. h \in [Requests -> Handlers] /\ h[q] \in Handlers /\ h[q] = NoHandler
      BY <1>3 DEF Arrive, TInv, Sound
    <2>3. h'[q] = [h[q] EXCEPT !.at = "look", !.kind = kind, !.command = command,
                                  !.key = key, !.carried = carried, !.known = answered]
      BY <2>1, <2>2
    <2>4. h'[q].held = Nothing /\ h'[q].ran = Nothing /\ h'[q].known = answered
      <3>1. h[q].held = Nothing /\ h[q].ran = Nothing
        <4>1. NoHandler.held = Nothing /\ NoHandler.ran = Nothing
          BY DEF NoHandler
        <4> QED
          BY <2>2, <4>1
      <3> QED
        BY <2>2, <2>3, <3>1 DEF Handlers
    <2>5. UNCHANGED <<pending, answered, made>>
      BY <1>3 DEF Arrive, run
    <2>6. ASSUME NEW p \in Requests PROVE Honest(h[p])'
      <3>1. CASE p = q
        BY <2>4, <2>5, <3>1 DEF Honest
      <3>2. CASE p # q
        BY <2>1, <2>2, <2>5, <3>2 DEF Approved, Honest
      <3> QED
        BY <3>1, <3>2
    <2> QED
      BY <2>5, <2>6 DEF Approved
  <1>4. ASSUME NEW q \in Requests, Look(q) \/ Record(q) \/ Persist(q) \/ Cleanup(q)
        PROVE  Approved'
    <2>1. \E step \in Steps : To(q, step)
      BY <1>4 DEF Look, Record, Persist, Cleanup, Steps
    <2>2. UNCHANGED <<pending, answered, made>>
      BY <1>4 DEF Look, Record, Persist, Cleanup, run
    <2> QED
      BY <1>1, <2>1, <2>2, SameTo
  <1>5. ASSUME NEW q \in Requests, ReadApproval(q) PROVE Approved'
    <2>1. UNCHANGED <<pending, answered, made>>
      BY <1>5 DEF ReadApproval, run
    <2>2. CASE To(q, "answered")
      BY <1>1, <2>1, <2>2, SameTo
    <2>3. CASE /\ pending # Nothing /\ pending.state = "required"
               /\ made[pending.id] = h[q].command
               /\ h' = [h EXCEPT ![q].at = "grant", ![q].held = pending]
      <3>1. h \in [Requests -> Handlers] /\ h[q] \in Handlers /\ Honest(h[q])
        BY DEF TInv, Approved
      <3>2. h'[q] = [h[q] EXCEPT !.at = "grant", !.held = pending]
        BY <2>3, <3>1
      <3>3. /\ h'[q].held = pending /\ h'[q].ran = h[q].ran /\ h'[q].kind = h[q].kind
            /\ h'[q].command = h[q].command /\ h'[q].known = h[q].known
        BY <3>1, <3>2 DEF Handlers
      <3>4. pending.id \notin h[q].known
        BY <2>3, <3>1 DEF Approved, Honest
      <3>5. ASSUME NEW p \in Requests PROVE Honest(h[p])'
        <4>1. CASE p = q
          BY <2>1, <2>3, <3>1, <3>3, <3>4, <4>1 DEF Honest
        <4>2. CASE p # q
          BY <2>1, <2>3, <3>1, <4>2 DEF Approved, Honest
        <4> QED
          BY <4>1, <4>2
      <3> QED
        BY <2>1, <3>5 DEF Approved
    <2> QED
      BY <1>5, <2>2, <2>3 DEF ReadApproval
  <1>6. ASSUME NEW q \in Requests, Grant(q) PROVE Approved'
    <2>1. /\ \E step \in Steps : To(q, step)
          /\ answered \subseteq answered' /\ made' = made
      BY <1>6 DEF Grant, disk, Steps
    <2>2. h[q].held \in Approval
      BY <1>6, AtWork DEF Grant, Is, Sound, Handlers
    <2>3. pending' # Nothing /\ pending'.state # "required"
      <3>1. pending' \in Approval /\ pending'.state \in {"granted", "rejected"}
        BY <1>6, <2>2 DEF Grant, Approval
      <3> QED
        BY <3>1
    <2> QED
      BY <1>1, <2>1, <2>3, SameTo
  <1>7. ASSUME NEW q \in Requests, ReadKeys(q) PROVE Approved'
    <2>1. UNCHANGED <<pending, answered, made>>
      BY <1>7 DEF ReadKeys, run
    <2>2. CASE To(q, "answered")
      BY <1>1, <2>1, <2>2, SameTo
    <2>3. CASE h' = [h EXCEPT ![q].at = "record", ![q].copy = keys]
      <3>1. h \in [Requests -> Handlers] /\ h[q] \in Handlers
        BY DEF TInv
      <3>2. h'[q] = [h[q] EXCEPT !.at = "record", !.copy = keys]
        BY <2>3, <3>1
      <3>3. Same(q)
        BY <3>1, <3>2 DEF Same, Handlers
      <3>4. \A p \in Requests : Same(p)
        BY <2>3, <3>1, <3>3 DEF Same
      <3> QED
        BY <1>1, <2>1, <3>4
    <2> QED
      BY <1>7, <2>2, <2>3 DEF ReadKeys
  <1>8. ASSUME NEW q \in Requests, Resume(q) \/ Rerun(q) PROVE Approved'
    <2>1. UNCHANGED <<pending, answered>>
      BY <1>8 DEF Resume, Rerun, run
    <2>2. \A i \in 1..Len(made) : made'[i] = made[i]
      <3>1. made \in Seq(Commands)
        BY DEF TInv, RunSound, RunTypes
      <3>2. h[q].command \in Commands
        BY <1>8, AtWork DEF Resume, Rerun, Is, Idle, Sound
      <3>3. made' = made \/ made' = Append(made, h[q].command)
        BY <1>8 DEF Resume, Rerun
      <3> QED
        BY <3>1, <3>2, <3>3
    <2>3. \E result : Hand(q, result)
      BY <1>8 DEF Resume, Rerun, Raise
    <2> QED
      BY <1>1, <2>1, <2>2, <2>3, SameHand
  <1>9. ASSUME NEW q \in Requests, Execute(q) PROVE Approved'
    <2>1. UNCHANGED <<pending, answered, made>>
      BY <1>9 DEF Execute, run
    <2>2. CASE \E result : Hand(q, result)
      BY <1>1, <2>1, <2>2, SameHand
    <2>3. ASSUME NEW verdict \in {"passed", "failed"},
                 h' = [h EXCEPT ![q].at = "settle", ![q].ran = Granted(q),
                                ![q].verdict = verdict]
          PROVE  Approved'
      <3>1. /\ h \in [Requests -> Handlers] /\ h[q] \in Handlers /\ Honest(h[q])
            /\ h[q].kind = "approve" => h[q].held # Nothing
            /\ h[q].kind = "approve" \/ h[q].carried
        BY <1>9, AtWork DEF TInv, Approved, Execute, Sound
      <3>2. h'[q] = [h[q] EXCEPT !.at = "settle", !.ran = Granted(q),
                                 !.verdict = verdict]
        BY <2>3, <3>1
      <3>3. /\ h'[q].held = h[q].held /\ h'[q].ran = Granted(q)
            /\ h'[q].kind = h[q].kind /\ h'[q].command = h[q].command
            /\ h'[q].known = h[q].known /\ h'[q].carried = h[q].carried
        BY <3>1, <3>2 DEF Handlers
      <3>4. ASSUME NEW p \in Requests PROVE Honest(h[p])'
        <4>1. CASE p = q
          BY <2>1, <3>1, <3>3, <4>1 DEF Honest, Granted
        <4>2. CASE p # q
          BY <2>1, <2>3, <3>1, <4>2 DEF Approved, Honest
        <4> QED
          BY <4>1, <4>2
      <3> QED
        BY <2>1, <3>4 DEF Approved
    <2> QED
      BY <1>9, <2>2, <2>3 DEF Execute, Raise
  <1>10. ASSUME NEW q \in Requests, Settle(q) PROVE Approved'
    <2>1. UNCHANGED <<pending, answered, made>>
      BY <1>10 DEF Settle, run
    <2>2. CASE \E result : Hand(q, result)
      BY <1>1, <2>1, <2>2, SameHand
    <2>3. ASSUME NEW result,
                 h' = [h EXCEPT ![q].at = "finish", ![q].landed = TRUE, ![q].result = result]
          PROVE  Approved'
      <3>1. h \in [Requests -> Handlers] /\ h[q] \in Handlers
        BY DEF TInv
      <3>2. h'[q] = [h[q] EXCEPT !.at = "finish", !.landed = TRUE, !.result = result]
        BY <2>3, <3>1
      <3>3. Same(q)
        BY <3>1, <3>2 DEF Same, Handlers
      <3>4. \A p \in Requests : Same(p)
        BY <2>3, <3>1, <3>3 DEF Same
      <3> QED
        BY <1>1, <2>1, <3>4
    <2> QED
      BY <1>10, <2>2, <2>3 DEF Settle, Raise
  <1>11. ASSUME NEW q \in Requests, Finish(q) PROVE Approved'
    <2>1. made' = made
      BY <1>11 DEF Finish
    <2>2. CASE To(q, "answered") /\ UNCHANGED <<run, answered>>
      BY <1>1, <2>1, <2>2, SameTo DEF run
    <2>3. CASE \E a : PutBack(a, [h EXCEPT ![q].at = "persist"])
      BY <2>1, <2>3, PutBackApproved
    <2> QED
      BY <1>11, <2>2, <2>3 DEF Finish
  <1>12. ASSUME NEW q \in Requests, FinishReplay(q) PROVE Approved'
    BY <1>12, PutBackApproved DEF FinishReplay
  <1>13. CASE Restart
    <2>1. made' = made /\ answered' = {}
      BY <1>13 DEF Restart
    <2>2. ASSUME NEW p \in Requests PROVE Honest(h[p])'
      <3>1. CASE h'[p] = h[p] /\ h[p].at = "new"
        <4>1. h'[p] = NoHandler
          BY <3>1 DEF TInv, Sound
        <4>2. NoHandler.held = Nothing /\ NoHandler.ran = Nothing /\ NoHandler.known = {}
          BY DEF NoHandler
        <4> QED
          BY <4>1, <4>2 DEF Honest
      <3>2. CASE h'[p].held = Nothing /\ h'[p].known = {} /\ h'[p].ran = Nothing
        BY <3>2 DEF Honest
      <3> QED
        BY <1>13, <3>1, <3>2, Restarted
    <2> QED
      BY <2>1, <2>2 DEF Approved
  <1> QED
    BY <1>2, <1>3, <1>4, <1>5, <1>6, <1>7, <1>8, <1>9, <1>10, <1>11, <1>12, <1>13 DEF Next, Handle

(* Nothing is executed and nobody is answered at first.                    *)
LEMMA ApprovedInit == Init => Approved
PROOF
  <1> SUFFICES ASSUME Init PROVE Approved
    OBVIOUS
  <1>1. NoHandler.held = Nothing /\ NoHandler.ran = Nothing /\ NoHandler.known = {}
    BY DEF NoHandler
  <1> QED
    BY <1>1 DEF Init, Approved, Honest

(* What is executed is the command that the client approved, though the    *)
(* run's approval may change between the comparison, the answer and the    *)
(* execution.                                                              *)
THEOREM ApprovedCommandRuns == Spec => []RunsWhatWasApproved
PROOF
  <1>1. Approved => RunsWhatWasApproved
    BY DEF Approved, Honest, RunsWhatWasApproved
  <1> QED
    BY <1>1, TypesInit, TypesNext, ApprovedInit, ApprovedNext, PTL DEF Spec

(* Who comes after an approval was answered does not execute its command,  *)
(* unless it was put back.                                                 *)
THEOREM AnsweredRunsNothing == Spec => []LaterAnswerRunsNothing
PROOF
  <1>1. Approved => LaterAnswerRunsNothing
    BY DEF Approved, Honest, LaterAnswerRunsNothing
  <1> QED
    BY <1>1, TypesInit, TypesNext, ApprovedInit, ApprovedNext, PTL DEF Spec

---------------------------------------------------------------------------
(* The snapshot.  A handler that has changed the run, or is about to, will *)
(* save it after that; while there is none, the snapshot is what the run   *)
(* is.                                                                     *)
WillSave(x) == x.at = "persist" \/ (x.at = "finish" /\ x.result.status # "raised")

Found ==
  /\ saved.status = status
  /\ pending # Nothing /\ pending.state = "required" => Restored = pending

UpToDate ==
  status # "gone" => Found \/ \E q \in Requests : WillSave(h[q])

(* Who saves the run makes the snapshot what it is.                        *)
LEMMA SaveFinds == ASSUME saved' = Snapshot, UNCHANGED run PROVE Found'
PROOF
  BY DEF Snapshot, run, Found, Restored

(* Every step keeps UpToDate.                                              *)
LEMMA UpToDateNext == TInv /\ UpToDate /\ [Next]_vars => UpToDate'
PROOF
  <1> SUFFICES ASSUME TInv, UpToDate, [Next]_vars PROVE UpToDate'
    OBVIOUS
  <1> USE ResumeAssumption, NothingAssumption
  <1>1. ASSUME UNCHANGED <<run, saved, sidecar>>,
               \A p \in Requests : WillSave(h[p]) => WillSave(h[p])'
        PROVE  UpToDate'
    BY <1>1 DEF run, UpToDate, Found, Restored
  <1>2. CASE UNCHANGED vars
    BY <1>1, <1>2 DEF vars, disk, WillSave
  <1>3. ASSUME NEW q \in Requests, NEW step \in Steps, To(q, step), h[q].at # "persist",
               h[q].at # "finish" \/ h[q].result.status = "raised",
               UNCHANGED <<run, saved, sidecar>>
        PROVE  UpToDate'
    <2>1. \A p \in Requests : p # q => h'[p] = h[p]
      BY <1>3, SameTo
    <2> QED
      BY <1>1, <1>3, <2>1 DEF WillSave
  <1>4. ASSUME NEW q \in Requests, NEW step, To(q, step), step = "persist"
        PROVE  UpToDate'
    <2>1. h'[q].at = "persist"
      BY <1>4 DEF To, TInv, Handlers
    <2> QED
      BY <2>1 DEF UpToDate, WillSave
  <1>5. ASSUME NEW q \in Requests, NEW result, Hand(q, result), result.status # "raised"
        PROVE  UpToDate'
    BY <1>5, SameHand DEF UpToDate, WillSave
  <1>6. ASSUME NEW q \in Requests, Raise(q), h[q].at \notin {"persist", "finish"},
               UNCHANGED <<run, saved, sidecar>>
        PROVE  UpToDate'
    <2>1. \A p \in Requests : p # q => h'[p] = h[p]
      BY <1>6, SameHand DEF Raise
    <2> QED
      BY <1>1, <1>6, <2>1 DEF WillSave
  <1>7. ASSUME NEW q \in Requests, NEW a, PutBack(a, [h EXCEPT ![q].at = "persist"])
        PROVE  UpToDate'
    <2>1. h'[q].at = "persist"
      BY <1>7, PutBackStep
    <2> QED
      BY <2>1 DEF UpToDate, WillSave
  <1>8. ASSUME NEW q \in Requests, Arrive(q) PROVE UpToDate'
    <2>1. \A p \in Requests : p # q => h'[p] = h[p]
      BY <1>8 DEF Arrive, TInv
    <2> QED
      BY <1>1, <1>8, <2>1 DEF Arrive, WillSave, disk
  <1>9. ASSUME NEW q \in Requests, Look(q) PROVE UpToDate'
    <2>1. \E step \in Steps : To(q, step)
      BY <1>9 DEF Look, Steps
    <2> QED
      BY <1>3, <1>9, <2>1 DEF Look, disk
  <1>10. ASSUME NEW q \in Requests, ReadApproval(q) PROVE UpToDate'
    <2>1. h[q].at = "read" /\ UNCHANGED <<run, saved, sidecar>> /\ h \in [Requests -> Handlers]
      BY <1>10 DEF ReadApproval, Is, disk, TInv
    <2>2. \A p \in Requests : p # q => h'[p] = h[p]
      BY <1>10, <2>1 DEF ReadApproval, To
    <2> QED
      BY <1>1, <2>1, <2>2 DEF WillSave
  <1>11. ASSUME NEW q \in Requests, Grant(q) PROVE UpToDate'
    <2>1. CASE To(q, "persist")
      BY <1>4, <2>1
    <2>2. CASE /\ To(q, "resume") /\ UNCHANGED status
               /\ pending' = [h[q].held EXCEPT !.state = "granted"]
      <3>1. h[q].at = "grant" /\ UNCHANGED <<saved, sidecar>> /\ h[q].held \in Approval
        BY <1>11, AtWork DEF Grant, Is, disk, Sound, Handlers
      <3>2. pending'.state = "granted"
        BY <2>2, <3>1 DEF Approval
      <3>3. \A p \in Requests : p # q => h'[p] = h[p]
        BY <2>2, SameTo
      <3>4. CASE Found
        BY <2>2, <3>1, <3>2, <3>4 DEF UpToDate, Found
      <3>5. CASE \E p \in Requests : WillSave(h[p])
        BY <3>1, <3>3, <3>5 DEF UpToDate, WillSave
      <3> QED
        BY <2>2, <3>4, <3>5 DEF UpToDate
    <2> QED
      BY <1>11, <2>1, <2>2 DEF Grant
  <1>12. ASSUME NEW q \in Requests, ReadKeys(q) PROVE UpToDate'
    <2>1. h[q].at = "read" /\ UNCHANGED <<run, sidecar>> /\ h \in [Requests -> Handlers]
      BY <1>12 DEF ReadKeys, Is, TInv
    <2>2. \A p \in Requests : p # q => h'[p] = h[p]
      BY <1>12, <2>1 DEF ReadKeys, To
    <2>3. CASE saved' = saved
      BY <1>1, <2>1, <2>2, <2>3 DEF WillSave
    <2>4. CASE saved' = Snapshot
      BY <2>1, <2>4, SaveFinds DEF UpToDate
    <2> QED
      BY <1>12, <2>3, <2>4 DEF ReadKeys
  <1>13. ASSUME NEW q \in Requests, Record(q) PROVE UpToDate'
    <2>1. CASE To(q, "persist")
      BY <1>4, <2>1
    <2>2. CASE /\ \E step \in {"resume", "rerun", "answered"} : To(q, step)
               /\ UNCHANGED status
      <3>1. h[q].at = "record" /\ UNCHANGED <<status, pending, saved, sidecar>>
        BY <1>13, <2>2 DEF Record, Is, disk
      <3>2. \A p \in Requests : p # q => h'[p] = h[p]
        BY <2>2, SameTo
      <3> QED
        BY <3>1, <3>2 DEF UpToDate, Found, Restored, WillSave
    <2> QED
      BY <1>13, <2>1, <2>2 DEF Record
  <1>14. ASSUME NEW q \in Requests, Resume(q) PROVE UpToDate'
    <2>1. CASE Raise(q) /\ UNCHANGED sidecar
      BY <1>6, <1>14, <2>1 DEF Resume, Is
    <2>2. CASE \E s \in {"", "approval_required"} : \E a : Hand(q, [status |-> s, pending |-> a])
      BY <1>5, <2>2
    <2> QED
      BY <1>14, <2>1, <2>2 DEF Resume
  <1>15. ASSUME NEW q \in Requests, Execute(q) PROVE UpToDate'
    <2>1. CASE Raise(q) /\ UNCHANGED sidecar
      BY <1>6, <1>15, <2>1 DEF Execute, Is
    <2>2. CASE \E s \in {"", "approval_required"} : \E a : Hand(q, [status |-> s, pending |-> a])
      BY <1>5, <2>2
    <2>3. CASE /\ UNCHANGED sidecar
               /\ \E verdict \in {"passed", "failed"} :
                    h' = [h EXCEPT ![q].at = "settle", ![q].ran = Granted(q),
                                   ![q].verdict = verdict]
      <3>1. h[q].at = "resume" /\ UNCHANGED <<run, saved>> /\ h \in [Requests -> Handlers]
        BY <1>15 DEF Execute, Is, TInv
      <3>2. \A p \in Requests : p # q => h'[p] = h[p]
        BY <2>3, <3>1
      <3> QED
        BY <1>1, <2>3, <3>1, <3>2 DEF WillSave
    <2> QED
      BY <1>15, <2>1, <2>2, <2>3 DEF Execute
  <1>16. ASSUME NEW q \in Requests, Settle(q) PROVE UpToDate'
    <2>1. CASE Raise(q) /\ UNCHANGED sidecar
      BY <1>6, <1>16, <2>1 DEF Settle
    <2>2. ASSUME NEW s \in {"success", "error"},
                 h' = [h EXCEPT ![q].at = "finish", ![q].landed = TRUE,
                                ![q].result = [status |-> s, pending |-> Nothing]]
          PROVE  UpToDate'
      <3>1. h \in [Requests -> Handlers] /\ h[q] \in Handlers
        BY DEF TInv
      <3>2. h'[q] = [h[q] EXCEPT !.at = "finish", !.landed = TRUE,
                                 !.result = [status |-> s, pending |-> Nothing]]
        BY <2>2, <3>1
      <3>3. h'[q].at = "finish" /\ h'[q].result.status = s
        BY <3>1, <3>2 DEF Handlers
      <3> QED
        BY <3>3 DEF UpToDate, WillSave
    <2> QED
      BY <1>16, <2>1, <2>2 DEF Settle
  <1>17. ASSUME NEW q \in Requests, Rerun(q) PROVE UpToDate'
    BY <1>5, <1>17 DEF Rerun
  <1>18. ASSUME NEW q \in Requests, Finish(q) PROVE UpToDate'
    <2>1. CASE To(q, "answered") /\ UNCHANGED run /\ h[q].result.status = "raised"
      BY <1>3, <1>18, <2>1 DEF Finish, Is, disk, Steps
    <2>2. CASE \E a : PutBack(a, [h EXCEPT ![q].at = "persist"])
      BY <1>7, <2>2
    <2> QED
      BY <1>18, <2>1, <2>2 DEF Finish, run
  <1>19. ASSUME NEW q \in Requests, FinishReplay(q) PROVE UpToDate'
    BY <1>7, <1>19 DEF FinishReplay
  <1>20. ASSUME NEW q \in Requests, Persist(q) \/ Cleanup(q) PROVE UpToDate'
    BY <1>20, SaveFinds DEF Persist, Cleanup, UpToDate
  <1>21. CASE Restart
    BY <1>21 DEF Restart, disk, UpToDate, Found, Restored
  <1> QED
    BY <1>2, <1>8, <1>9, <1>10, <1>11, <1>12, <1>13, <1>14, <1>15, <1>16, <1>17, <1>18,
       <1>19, <1>20, <1>21 DEF Next, Handle

(* When no handler is at work a restart finds the run as it is, with an    *)
(* approval that can be answered, or ended, however the changes and the    *)
(* saves of the handlers have overlapped.                                  *)
THEOREM RestFindsTheRun == Spec => []SavedAtRest
PROOF
  <1>1. Init => UpToDate
    BY DEF Init, UpToDate, Found, Snapshot
  <1>2. UpToDate => SavedAtRest
    BY DEF UpToDate, Found, SavedAtRest, AtRest, WillSave
  <1> QED
    BY <1>1, <1>2, TypesInit, TypesNext, UpToDateNext, PTL DEF Spec
=============================================================================
