------------------------------ MODULE LlmCall -------------------------------
(***************************************************************************)
(* One request to the model as the analysis makes it                       *)
(* (services/analyze_llm.py, call_analyze_llm_with_retries): a series of   *)
(* attempts with growing output limits, one repetition on the same         *)
(* endpoint, then failover to the next endpoint of the pool                *)
(* (tool_system/llm/llm_router.py), under the run's budget                 *)
(* (tool_system/runtime.py).  The router's state outlives the request: it  *)
(* is what the next round starts from.                                     *)
(*                                                                         *)
(* Which usable endpoint is preferred follows from tier, score and         *)
(* configuration order, and is left open.  Of an endpoint's health it only *)
(* matters whether it is down (unreachable or auth_failed), since the code *)
(* treats healthy, unknown and rate-limited ones alike.                    *)
(***************************************************************************)
EXTENDS Naturals, Sequences, FiniteSets

CONSTANTS Endpoints,
          Provider,   \* the provider of an endpoint
          Ladder,     \* the output limits a series of attempts goes through
          Thinking,   \* endpoints whose effort can be lowered
          Broken,     \* endpoints no adapter can be built for
          MaxCalls,   \* RuntimeBudget.max_llm_calls; 0 is no limit
          TokenLimit  \* whether max_total_tokens is set

ASSUME CallAssumption ==
  /\ IsFiniteSet(Endpoints)
  /\ Provider \in [Endpoints -> STRING]
  /\ Ladder \in Seq({"floor", "raised", "ceiling", "default"}) \ {<<>>}
  /\ Thinking \subseteq Endpoints /\ Broken \subseteq Endpoints
  /\ MaxCalls \in Nat
  /\ TokenLimit \in BOOLEAN

VARIABLES router,   \* LLMRouterState: its mode, failover_enabled, force_profile
          pool,     \* the endpoints it may use
          selected, \* the endpoint it has chosen
          adapter,  \* the endpoint that context.llm talks to
          down,     \* the endpoints marked unreachable or auth_failed
          tried,    \* tried_ids
          llmCalls, \* RuntimeBudget.llm_calls, up to one over the limit
          overspent,\* whether the tokens are used up
          step,     \* where the request stands
          attempts, \* the output limits still to be tried, the next one first
          first,    \* whether the next attempt is the first of its series
          lower,    \* whether the effort can still be lowered
          best,     \* the longest reply of the series
          cause,    \* last_llm_exc
          switches, \* endpoint_switches
          retries,  \* same_model_retries_left
          heard     \* its longest reply that is no line of the gateway (history)

routing == <<router, pool, selected, adapter, down, tried>>
budget == <<llmCalls, overspent>>
series == <<attempts, first, lower, best, cause>>
request == <<switches, retries, heard>>
callVars == <<routing, budget, step, series, request>>

Failures == {"auth", "retryable", "other", "budget"}

(* A reply is blank, a scrap of text, a line of the gateway about its      *)
(* load, or an analysis; this is also the order of their lengths.          *)
Lengths == <<"none", "empty", "scrap", "busy", "analysis">>
Replies == {"empty", "scrap", "busy", "analysis"}
Length(reply) == CHOOSE i \in 1..Len(Lengths) : Lengths[i] = reply
Longer(r, s) == IF Length(s) >= Length(r) THEN s ELSE r

Routed == router.mode # "none"

CallInit ==
  /\ router \in {r \in [mode : {"none", "fixed", "auto"}, failover : BOOLEAN, forced : BOOLEAN] :
                   /\ r.mode = "auto" => r.failover
                   /\ r.mode # "auto" => ~r.forced
                   /\ r.mode = "none" => ~r.failover}
  /\ selected \in Endpoints \ Broken
  /\ adapter = selected
  /\ pool = {e \in Endpoints :
               \/ e = selected \/ router.mode = "auto"
               \/ router.failover /\ Provider[e] = Provider[selected]}
  /\ down \in SUBSET (Endpoints \ {selected})
  /\ router.mode # "auto" => down = {}
  /\ tried = {selected}
  /\ llmCalls = 0 /\ overspent = FALSE
  /\ step = "idle"
  /\ attempts = <<>> /\ first = FALSE /\ lower = FALSE
  /\ best = "none" /\ cause = "none"
  /\ switches = 0 /\ retries = 0
  /\ heard = "none"

(* An adapter that cannot be built leaves the old one in place.            *)
Apply(e) ==
  /\ selected' = e
  /\ adapter' = IF e \in Broken THEN adapter ELSE e

(* With a forced profile the choice fails on an unset variable, and the    *)
(* failure is swallowed.                                                   *)
ReResolve ==
  IF router.mode = "auto" /\ ~router.forced
  THEN \E e \in IF pool \subseteq down THEN {selected} ELSE pool \ down :
         Apply(e) /\ tried' = tried \cup {e}
  ELSE UNCHANGED <<selected, adapter, tried>>

---------------------------------------------------------------------------
StartSeries ==
  /\ attempts' = Ladder
  /\ first' = TRUE
  /\ lower' = (adapter' \in Thinking)
  /\ best' = "none" /\ cause' = "none"

Begin ==
  /\ step = "idle"
  /\ ReResolve
  /\ StartSeries
  /\ switches' = 0 /\ retries' = 1
  /\ heard' = "none"
  /\ step' = "attempt"
  /\ UNCHANGED <<router, pool, down, budget>>

(* The attempts that follow, and the end of the series with the last one.  *)
GoOn(rest) ==
  /\ attempts' = rest
  /\ first' = FALSE
  /\ step' = IF rest = <<>> THEN "judge" ELSE "attempt"

(* Only the first attempt of a series is counted.                          *)
Counted == IF first /\ MaxCalls > 0 THEN llmCalls + 1 ELSE llmCalls
OverLimit == first /\ MaxCalls > 0 /\ Counted > MaxCalls

AttemptRefused ==
  /\ step = "attempt" /\ OverLimit
  /\ llmCalls' = MaxCalls + 1
  /\ cause' = "budget"
  /\ GoOn(Tail(attempts))
  /\ UNCHANGED <<routing, overspent, lower, best, request>>

(* The exception of the adapter, or of the budget that the tokens of a     *)
(* reply exceed: that reply is lost.                                       *)
AttemptRaises ==
  /\ step = "attempt" /\ ~OverLimit
  /\ llmCalls' = Counted
  /\ \E why \in Failures :
       /\ cause' = why
       /\ why = "budget" => TokenLimit
       /\ overspent' = (overspent \/ why = "budget")
  /\ GoOn(Tail(attempts))
  /\ UNCHANGED <<routing, lower, best, request>>

(* What is tried after a reply that the gateway cut off: the highest       *)
(* limit, and once there the same again with less effort.                  *)
AfterCut ==
  IF Head(attempts) # "ceiling" THEN <<"ceiling">>
  ELSE IF lower THEN <<"ceiling">> ELSE <<>>

(* Mutant of AttemptAnswered: the last reply counts.                       *)
AnsweredLast ==
  /\ step = "attempt" /\ ~OverLimit /\ ~overspent
  /\ llmCalls' = Counted
  /\ \E reply \in Replies, stop \in {"cut", "looks_cut", "complete"} :
       /\ best' = reply
       /\ heard' = IF reply = "busy" THEN heard ELSE Longer(heard, reply)
       /\ lower' = (lower /\ stop # "cut")
       /\ CASE stop = "cut" -> GoOn(AfterCut)
            [] stop = "looks_cut" /\ Head(attempts) # "default" -> GoOn(Tail(attempts))
            [] OTHER -> GoOn(<<>>)
  /\ UNCHANGED <<routing, overspent, cause, switches, retries>>

AttemptAnswered ==
  /\ step = "attempt" /\ ~OverLimit /\ ~overspent
  /\ llmCalls' = Counted
  /\ \E reply \in Replies, stop \in {"cut", "looks_cut", "complete"} :
       /\ best' = Longer(best, reply)
       /\ heard' = IF reply = "busy" THEN heard ELSE Longer(heard, reply)
       /\ lower' = (lower /\ stop # "cut")
       /\ CASE stop = "cut" -> GoOn(AfterCut)
            [] stop = "looks_cut" /\ Head(attempts) # "default" -> GoOn(Tail(attempts))
            [] OTHER -> GoOn(<<>>)
  /\ UNCHANGED <<routing, overspent, cause, switches, retries>>

---------------------------------------------------------------------------
(* A line of the gateway counts as a failure that may be retried.          *)
Cause == IF best = "busy" THEN "retryable" ELSE cause

Succeed ==
  /\ step = "judge" /\ best \notin {"none", "busy"}
  /\ down' = IF Routed THEN down \ {selected} ELSE down
  /\ step' = "ok"
  /\ UNCHANGED <<router, pool, selected, adapter, tried, budget, series, request>>

Unanswered == step = "judge" /\ best \in {"none", "busy"}

(* Mutant of RetrySameModel: the repetition is not counted.                *)
RetryUncounted ==
  /\ Unanswered /\ Cause = "retryable" /\ retries > 0
  /\ UNCHANGED <<routing, budget, request>>
  /\ StartSeries
  /\ step' = "attempt"

RetrySameModel ==
  /\ Unanswered /\ Cause = "retryable" /\ retries > 0
  /\ retries' = retries - 1
  /\ UNCHANGED <<routing, budget, switches, heard>>
  /\ StartSeries
  /\ step' = "attempt"

(* failover_next: the endpoint is marked, and a refused key rules its      *)
(* whole provider out, which in fixed mode is the whole pool.  (In fixed   *)
(* mode the pool is not filtered by health: what is down was tried.)       *)
TriedNow == tried \cup {e \in pool : Cause = "auth" /\ Provider[e] = Provider[selected]}
DownNow == down \cup {selected}

Candidates ==
  IF ~router.failover \/ (Cause = "auth" /\ router.mode = "fixed") THEN {}
  ELSE (pool \ TriedNow) \ IF router.mode = "auto" THEN DownNow ELSE {}

(* Mutant of MaxSwitches: the bound is off by one.                         *)
MaxSwitchesLess == IF router.failover THEN Cardinality(pool) - 1 ELSE 1

MaxSwitches == IF router.failover THEN Cardinality(pool) ELSE 1

Failover ==
  /\ Unanswered /\ ~(Cause = "retryable" /\ retries > 0)
  /\ retries' = 1
  /\ down' = IF router.failover THEN DownNow ELSE down
  /\ UNCHANGED <<router, pool, budget, heard>>
  /\ \/ \E e \in Candidates :
          /\ Apply(e)
          /\ tried' = TriedNow \cup {e}
          /\ switches' = switches + 1
          /\ StartSeries
          /\ step' = IF switches' < MaxSwitches THEN "attempt" ELSE "failed"
     \/ /\ Candidates = {}
        /\ tried' = IF router.failover THEN TriedNow ELSE tried
        /\ cause' = Cause
        /\ step' = "failed"
        /\ UNCHANGED <<selected, adapter, switches, attempts, first, lower, best>>

CallStep ==
  \/ AttemptRefused \/ AttemptRaises \/ AttemptAnswered
  \/ Succeed \/ RetrySameModel \/ Failover

(* The caller has taken the outcome; nothing of the request is kept but    *)
(* the router's state and the budget.                                      *)
CallOver ==
  /\ step' = "idle"
  /\ attempts' = <<>> /\ first' = FALSE /\ lower' = FALSE
  /\ best' = "none" /\ cause' = "none"
  /\ switches' = 0 /\ retries' = 0
  /\ heard' = "none"
  /\ UNCHANGED <<routing, budget>>

---------------------------------------------------------------------------
CallTypeOK ==
  /\ pool \subseteq Endpoints /\ selected \in pool /\ adapter \in Endpoints
  /\ down \subseteq pool
  /\ tried \subseteq pool
  /\ llmCalls \in 0..(MaxCalls + 1) /\ overspent \in BOOLEAN
  /\ step \in {"idle", "attempt", "judge", "ok", "failed"}
  /\ step = "attempt" => attempts # <<>>
  /\ best \in Replies \cup {"none"}
  /\ cause \in Failures \cup {"none"}
  /\ switches \in 0..Cardinality(Endpoints) /\ retries \in 0..1
  /\ heard \in Replies \cup {"none"}

(* A reply longer than the gateway's own lines is never thrown away, once  *)
(* the budget has let it through: a request that has received one ends     *)
(* well, with the longest one, whatever the attempts after it bring        *)
(* (best_response in analyze_llm.py:368-422).                              *)
ReplyKept ==
  step \in {"ok", "failed"} /\ heard = "analysis" => step = "ok" /\ best = "analysis"

(* With failover a request gives up only when no endpoint is left: the     *)
(* last one has failed, and each other one was tried by this run or is     *)
(* known to be out of service (analyze_llm.py:334-343, llm_router.py:      *)
(* 387-431).                                                               *)
FailoverExhausts ==
  step = "failed" /\ router.failover =>
    /\ selected \in down
    /\ pool \subseteq tried \cup down
=============================================================================
