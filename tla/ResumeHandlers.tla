--------------------------- MODULE ResumeHandlers ---------------------------
(***************************************************************************)
(* The handlers that take up a run whose CLI has ended: a verification, an *)
(* answer to a pending approval, a retry of a stage, a cleanup             *)
(* (daemon/server.py:2170-2631), with the part of the repair pipeline they *)
(* call (resume_verification_from_report).  They run in threads of their   *)
(* own, share the run without a lock, and the daemon may crash.            *)
(*                                                                         *)
(* An approval is for one command.  It is named by its place in the        *)
(* sequence of the approvals that were made; the fingerprint stands for    *)
(* the command.  Besides answering a pending approval, a client may send a *)
(* granted one along with the configuration of a verification.             *)
(***************************************************************************)
EXTENDS Naturals, Sequences

CONSTANTS Requests,     \* requests, each handled once in a thread of its own
          Commands,     \* verification commands
          Keys,         \* idempotency keys of retries
          Nothing,      \* no approval, no verdict
          MaxApprovals  \* bounds the approvals that are made

ASSUME ResumeAssumption ==
  /\ Nothing \notin Commands \cup Keys
  /\ MaxApprovals \in Nat

VARIABLES status,    \* RunState.transport_status; "gone" after a restart without it
          pending,   \* RunState.pending_tool_approval
          keys,      \* the keys in runtime_state.retry_requests
          saved,     \* the run's snapshot on disk
          sidecar,   \* 09_pending_tool_approval.json in the report
          fix,       \* where the report's fix was applied
          made,      \* the command of each approval so far
          answered,  \* the approvals the daemon remembers as answered (history)
          h          \* the handler of each request

run == <<status, pending, keys>>
disk == <<saved, sidecar, fix>>
vars == <<run, disk, made, answered, h>>

Waiting == {"verification_pending", "approval_required"}
Approval == [id : 1..MaxApprovals, state : {"required", "granted", "rejected", "invalid"}]
ASSUME NothingAssumption == Nothing \notin Approval

Kinds == {"approve", "reject", "verify", "replay", "decide", "cleanup"}

(* What the pipeline hands back: its status, perhaps "", and its approval. *)
Result == [status : Waiting \cup {"", "success", "error", "raised"},
           pending : Approval \cup {Nothing}]

NoHandler == [at |-> "new", kind |-> "verify", command |-> Nothing, key |-> Nothing,
              carried |-> FALSE, held |-> Nothing, copy |-> {}, known |-> {}, ran |-> Nothing,
              verdict |-> Nothing, landed |-> FALSE,
              result |-> [status |-> "", pending |-> Nothing]]

Snapshot == [status |-> status, pending |-> pending, keys |-> keys]

(* A run that has ended, or that waits without an approval.  The pipeline  *)
(* leaves a run waiting only if it has applied no fix.                     *)
Init ==
  /\ status \in Waiting \cup {"done", "error"}
  /\ pending = Nothing
  /\ keys = {}
  /\ saved = Snapshot
  /\ sidecar = Nothing
  /\ fix \in {"none", "in_place", "isolated"}
  /\ status \in Waiting => fix = "none"
  /\ made = <<>>
  /\ answered = {}
  /\ h = [q \in Requests |-> NoHandler]

To(q, step) == h' = [h EXCEPT ![q].at = step]
Is(q, step, kinds) == h[q].at = step /\ h[q].kind \in kinds

---------------------------------------------------------------------------
(* A request: the client names a command it has been shown, or a key.  The *)
(* configuration of a verification may carry a granted approval.           *)
Arrive(q) ==
  /\ h[q].at = "new" /\ status # "gone"
  /\ \E kind \in Kinds, command \in Commands, key \in Keys, carried \in BOOLEAN :
       /\ carried => kind \in {"verify", "replay"}
       /\ h' = [h EXCEPT ![q].at = "look", ![q].kind = kind, ![q].command = command,
                         ![q].key = key, ![q].carried = carried, ![q].known = answered]
  /\ UNCHANGED <<run, disk, made, answered>>

(* The check of the status.  A retry is refused only while the CLI works,  *)
(* a cleanup only while it runs.                                           *)
Look(q) ==
  /\ h[q].at = "look"
  /\ To(q, CASE h[q].kind \in {"approve", "reject"} /\ status \in Waiting -> "read"
             [] h[q].kind = "verify" /\ status \in Waiting -> "resume"
             [] h[q].kind \in {"replay", "decide"} -> "read"
             [] h[q].kind = "cleanup" -> "remove"
             [] OTHER -> "answered")
  /\ UNCHANGED <<run, disk, made, answered>>

(* _respond_tool_approval reads the pending approval once and compares it  *)
(* with what the client submits; its approval_id is optional.              *)
ReadApproval(q) ==
  /\ Is(q, "read", {"approve", "reject"})
  /\ IF /\ pending # Nothing
        /\ pending.state = "required"
        /\ made[pending.id] = h[q].command
       THEN h' = [h EXCEPT ![q].at = "grant", ![q].held = pending]
       ELSE To(q, "answered")
  /\ UNCHANGED <<run, disk, made, answered>>

(* Mutant of Grant: the answer is not written to the run. *)
GrantForgets(q) ==
  /\ Is(q, "grant", {"approve"})
  /\ To(q, "resume")
  /\ answered' = answered \cup {h[q].held.id}
  /\ UNCHANGED <<run, disk, made>>

(* Mutant of Grant: a rejection is saved before it is written to the run. *)
GrantSavesFirst(q) ==
  /\ Is(q, "grant", {"approve", "reject"})
  /\ IF h[q].kind = "approve"
       THEN To(q, "resume") /\ UNCHANGED <<status, saved>>
       ELSE To(q, "answered") /\ status' = "error" /\ saved' = Snapshot
  /\ pending' = [h[q].held EXCEPT !.state = IF h[q].kind = "approve" THEN "granted" ELSE "rejected"]
  /\ answered' = answered \cup {h[q].held.id}
  /\ UNCHANGED <<keys, sidecar, fix, made>>

(* The answer is written over whatever the run has pending by now.  A      *)
(* rejection ends the run.                                                 *)
Grant(q) ==
  /\ Is(q, "grant", {"approve", "reject"})
  /\ UNCHANGED <<keys, disk, made>>
  /\ IF h[q].kind = "approve"
       THEN /\ pending' = [h[q].held EXCEPT !.state = "granted"]
            /\ To(q, "resume")
            /\ UNCHANGED status
       ELSE /\ pending' = [h[q].held EXCEPT !.state = "rejected"]
            /\ status' = "error"
            /\ To(q, "persist")
  /\ answered' = answered \cup {h[q].held.id}

(* _respond_retry_stage may save the run with its workspace, copies the    *)
(* runtime state and looks for the key in the copy.                        *)
ReadKeys(q) ==
  /\ Is(q, "read", {"replay", "decide"})
  /\ IF h[q].key \in keys THEN To(q, "answered")
     ELSE h' = [h EXCEPT ![q].at = "record", ![q].copy = keys]
  /\ saved' \in {saved, Snapshot}
  /\ UNCHANGED <<run, sidecar, fix, made, answered>>

(* It adds its key to the copy, which becomes the state.  A replay without *)
(* a command is refused only now, one that is not to be executed is done,  *)
(* and decide replays nothing.                                             *)
Record(q) ==
  /\ Is(q, "record", {"replay", "decide"})
  /\ UNCHANGED <<pending, disk, made, answered>>
  /\ keys' = h[q].copy \cup {h[q].key}
  /\ \/ /\ h[q].kind = "replay"
        /\ \E step \in {"resume", "rerun", "persist", "answered"} : To(q, step)
        /\ UNCHANGED status
     \/ /\ h[q].kind = "decide"
        /\ status' = IF status = "error" THEN "error" ELSE "done"
        /\ To(q, "persist")

---------------------------------------------------------------------------
(* The action gate at the replay's stage (runtime_actions._stage_gate). *)
Allowed(action, stage) ==
  stage = "verify" =>
    action \in {"verify", "inspect_diff", "run_build", "run_tests",
                "run_static_check", "reproduce_crash"}

Hand(q, result) == h' = [h EXCEPT ![q].at = "finish", ![q].result = result]
Raise(q) == Hand(q, [status |-> "raised", pending |-> Nothing])

(* resume_verification_from_report without a granted approval that fits:   *)
(* nothing to verify; or an approval is asked for, in the report too, or   *)
(* the one that was carried is handed back as invalid; or the provider is  *)
(* not available; or an exception, as when the worktree is gone.           *)
Resume(q) ==
  /\ Is(q, "resume", {"verify", "replay"})
  /\ \/ /\ fix = "none"
        /\ Hand(q, [status |-> "", pending |-> Nothing])
        /\ UNCHANGED <<sidecar, made>>
     \/ /\ fix \in {"in_place", "isolated"} /\ Len(made) < MaxApprovals
        /\ made' = Append(made, h[q].command)
        /\ sidecar' = [id |-> Len(made) + 1,
                       state |-> IF h[q].carried THEN "invalid" ELSE "required"]
        /\ Hand(q, [status |-> "approval_required", pending |-> sidecar'])
     \/ /\ fix \in {"in_place", "isolated"}
        /\ Hand(q, [status |-> "", pending |-> Nothing])
        /\ sidecar' = Nothing
        /\ UNCHANGED made
     \/ Raise(q) /\ UNCHANGED <<sidecar, made>>
  /\ UNCHANGED <<run, saved, fix, answered>>

(* The command of the approval that was read, or of the one that the       *)
(* configuration carries: that one is checked against the client's own.    *)
Granted(q) == IF h[q].kind = "approve" THEN made[h[q].held.id] ELSE h[q].command

(* Mutant of Execute: the command is that of the approval pending now. *)
ExecuteCurrent(q) ==
  /\ Is(q, "resume", {"approve"})
  /\ fix \in {"in_place", "isolated"} /\ pending # Nothing
  /\ h' = [h EXCEPT ![q].at = "settle", ![q].ran = made[pending.id],
                    ![q].verdict = "passed"]
  /\ UNCHANGED <<run, disk, made, answered>>

(* The same with an approval: the command of the approval that was read is *)
(* executed, or the one that the approval in the configuration fits,       *)
(* whoever made it and whether it was used before; unless the provider is  *)
(* not available or raises.                                                *)
Execute(q) ==
  /\ h[q].at = "resume" /\ (h[q].kind = "approve" \/ h[q].carried)
  /\ \/ /\ fix \in {"in_place", "isolated"}
        /\ \E verdict \in {"passed", "failed"} :
             h' = [h EXCEPT ![q].at = "settle", ![q].ran = Granted(q),
                            ![q].verdict = verdict]
        /\ UNCHANGED sidecar
     \/ /\ fix \in {"in_place", "isolated"}
        /\ Hand(q, [status |-> "", pending |-> Nothing])
        /\ sidecar' = Nothing
     \/ Raise(q) /\ UNCHANGED sidecar
  /\ UNCHANGED <<run, saved, fix, made, answered>>

(* After the verdict: a worktree that has passed is copied back, and what  *)
(* has failed is rolled back, as far as the gate lets it.                  *)
Settle(q) ==
  /\ h[q].at = "settle"
  /\ LET step == IF h[q].verdict = "failed" THEN "rollback" ELSE "sync_worktree"
         idle == h[q].verdict = "passed" /\ fix = "in_place"
     IN  IF idle \/ Allowed(step, "verify")
           THEN /\ h' = [h EXCEPT
                     ![q].at = "finish", ![q].landed = TRUE,
                     ![q].result = [status |-> IF h[q].verdict = "passed" THEN "success"
                                               ELSE "error",
                                    pending |-> Nothing]]
                /\ sidecar' = Nothing
           ELSE Raise(q) /\ UNCHANGED sidecar
  /\ UNCHANGED <<run, saved, fix, made, answered>>

(* The replay of an earlier stage: an analysis of its own, with a report   *)
(* of its own, whose outcome the daemon reads from the output.             *)
Rerun(q) ==
  /\ Is(q, "rerun", {"replay"})
  /\ \E s \in {"success", "error", "verification_pending"} :
       Hand(q, [status |-> s, pending |-> Nothing])
  /\ UNCHANGED <<run, disk, made, answered>>

(* _map_logical_transport_status, after each handler's own default. *)
Mapped(q) ==
  LET s == h[q].result.status IN
  CASE s = "" -> (IF h[q].kind = "verify" THEN "verification_pending" ELSE "error")
    [] s = "success" -> "done"
    [] s = "raised" -> "error"
    [] OTHER -> s

(* An approval that is put back is required again, whether it had been     *)
(* answered or not.                                                        *)
PutBack(approval, others) ==
  LET again == IF approval = Nothing THEN {} ELSE {approval.id}
  IN  /\ pending' = approval
      /\ answered' = answered \ again
      /\ h' = [p \in Requests |-> [others[p] EXCEPT !.known = @ \ again]]

(* A verification and an approval take over the pipeline's approval and    *)
(* its runtime state, which knows of no retries; an exception is answered  *)
(* with 500 and changes nothing.                                           *)
Finish(q) ==
  /\ Is(q, "finish", {"verify", "approve"})
  /\ IF h[q].result.status = "raised"
       THEN To(q, "answered") /\ UNCHANGED <<run, answered>>
       ELSE /\ PutBack(h[q].result.pending, [h EXCEPT ![q].at = "persist"])
            /\ status' = Mapped(q)
            /\ keys' = {}
  /\ UNCHANGED <<disk, made>>

(* A retry writes its copy of the state again, and takes the approval that *)
(* the report has.                                                         *)
FinishReplay(q) ==
  /\ Is(q, "finish", {"replay"})
  /\ keys' = h[q].copy \cup {h[q].key}
  /\ PutBack(sidecar, [h EXCEPT ![q].at = "persist"])
  /\ status' = Mapped(q)
  /\ UNCHANGED <<disk, made>>

(* _persist_run_state, at the end of the handlers that change the run and  *)
(* with each event they put: other handlers may have changed it meanwhile. *)
Persist(q) ==
  /\ h[q].at = "persist"
  /\ saved' = Snapshot
  /\ \E step \in {"persist", "answered"} : To(q, step)
  /\ UNCHANGED <<run, sidecar, fix, made, answered>>

(* _respond_cleanup: git refuses to remove a worktree with changes unless  *)
(* it is forced to.                                                        *)
Cleanup(q) ==
  /\ Is(q, "remove", {"cleanup"})
  /\ fix' \in IF fix = "isolated" THEN {"isolated", "removed"} ELSE {fix}
  /\ saved' = Snapshot
  /\ To(q, "answered")
  /\ UNCHANGED <<run, sidecar, made, answered>>

(* The daemon dies and is started again: only a run that waits is taken    *)
(* back, with the report's approval if the snapshot has none.              *)
Restored == IF saved.pending = Nothing /\ saved.status = "approval_required"
              THEN sidecar ELSE saved.pending

Restart ==
  /\ status # "gone"
  /\ h' = [q \in Requests |-> IF h[q].at = "new" THEN h[q] ELSE
                              [NoHandler EXCEPT !.at = "answered"]]
  /\ status' = IF saved.status \in Waiting THEN saved.status ELSE "gone"
  /\ pending' = Restored
  /\ keys' = saved.keys
  /\ answered' = {}
  /\ UNCHANGED <<disk, made>>

Handle(q) ==
  \/ Look(q) \/ ReadApproval(q) \/ Grant(q) \/ ReadKeys(q) \/ Record(q)
  \/ Resume(q) \/ Execute(q) \/ Settle(q) \/ Rerun(q) \/ Finish(q)
  \/ FinishReplay(q) \/ Persist(q) \/ Cleanup(q)

Next == Restart \/ \E q \in Requests : Arrive(q) \/ Handle(q)

Spec == Init /\ [][Next]_vars

---------------------------------------------------------------------------
Steps == {"new", "look", "read", "grant", "record", "resume", "rerun", "settle",
          "finish", "persist", "remove", "answered"}

Handlers ==
  [at : Steps, kind : Kinds, command : Commands \cup {Nothing}, key : Keys \cup {Nothing},
   carried : BOOLEAN, held : Approval \cup {Nothing}, copy : SUBSET Keys, known : SUBSET (1..MaxApprovals),
   ran : Commands \cup {Nothing}, verdict : {"passed", "failed", Nothing},
   landed : BOOLEAN, result : Result]

RunTypes ==
  /\ status \in Waiting \cup {"done", "error", "gone"}
  /\ pending \in Approval \cup {Nothing}
  /\ sidecar \in Approval \cup {Nothing}
  /\ saved \in [status : Waiting \cup {"done", "error"},
               pending : Approval \cup {Nothing}, keys : SUBSET Keys]
  /\ keys \subseteq Keys /\ answered \subseteq 1..Len(made)
  /\ fix \in {"none", "in_place", "isolated", "removed"}
  /\ made \in Seq(Commands) /\ Len(made) <= MaxApprovals

(* The variables have their types. *)
TypeOK == RunTypes /\ h \in [Requests -> Handlers]

(* A request executes the command its client has named, though the run's   *)
(* approval may be replaced between the comparison, the answer and the     *)
(* execution; and only one that answers a pending approval, or carries an  *)
(* approval in its configuration, executes any.                            *)
RunsWhatWasApproved ==
  \A q \in Requests : h[q].ran # Nothing =>
    h[q].ran = h[q].command /\ (h[q].kind = "approve" \/ h[q].carried)

(* A tool-approval request that comes after an approval was answered       *)
(* executes nothing for it, unless a restart, a retry or the end of an     *)
(* overlapping verification has put the approval back.  Two that overlap   *)
(* may both execute, and a verification that carries the approval in its   *)
(* configuration may execute again.                                        *)
LaterAnswerRunsNothing ==
  \A q \in Requests : h[q].ran # Nothing /\ h[q].kind = "approve" =>
    h[q].held.id \notin h[q].known

(* When no handler is at work a restart would find the run as it is, or    *)
(* ended, and an approval that can be answered now could be answered then, *)
(* however the changes and the saves of the handlers have overlapped.      *)
AtRest == \A q \in Requests : h[q].at \in {"new", "answered"}
SavedAtRest ==
  AtRest /\ status # "gone" =>
    /\ saved.status = status
    /\ pending # Nothing /\ pending.state = "required" => Restored = pending

(* A verification that was executed for a run has its effect: what passed  *)
(* is copied back from the worktree, what failed is rolled back            *)
(* (docs/cli/DAEMON_SERVER_GUIDE.md:238-239).                              *)
VerdictLands ==
  \A q \in Requests : h[q].at = "answered" /\ h[q].verdict # Nothing => h[q].landed
=============================================================================
