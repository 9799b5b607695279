----------------------------- MODULE AgentLoop ------------------------------
(***************************************************************************)
(* The analysis loop (services/agent_context_loop.py, run_agent_context_   *)
(* loop) with the part of the context engine that decides what a prompt    *)
(* holds: the ledger of requests and the sources kept for later prompts    *)
(* (services/context_engine.py).  The model is asked at most MaxRounds     *)
(* times; it may ask for sources, be sent back to correct its answer, or   *)
(* be told that this is its last word.                                     *)
(*                                                                         *)
(* One thread runs the loop.  What the model answers is an input: an       *)
(* answer is the branch of the loop it leads to, what it asks for, and     *)
(* what the checks of the answer will object to.                           *)
(***************************************************************************)
EXTENDS Naturals, Sequences, FiniteSets

CONSTANTS Symbols,    \* what source may be asked for
          Requests,   \* a symbol, with the type, file and line of the request
          Named,      \* functions the knowledge names and the prompt lacks
          MaxRounds,  \* ContextLoopConfig.max_rounds
          MaxRequests,\* ContextEngineConfig.max_requests
          ApplyFixes, \* ContextEngine.apply_ai_fixes
          None        \* no reason, no revision

(* The request for a function as such, and the symbols of some requests. *)
LookUp(s) == [symbol |-> s, how |-> "function"]
SymbolsOf(requests) == {r.symbol : r \in requests}

ASSUME LoopAssumption ==
  /\ Requests \subseteq [symbol : Symbols, how : STRING]
  /\ Named \in Seq(Symbols)
  /\ \A i \in DOMAIN Named : LookUp(Named[i]) \in Requests
  /\ MaxRounds \in Nat \ {0} /\ MaxRequests \in Nat \ {0}
  /\ ApplyFixes \in BOOLEAN

VARIABLES mode,      \* agent_loop_mode
          at,        \* where the loop stands
          round,     \* round_index
          force,     \* force_final_reason
          prompt,    \* next_prompt, once sent prompt_used
          used,      \* the revisions that have been used
          answer,    \* the answer that is being handled
          hasText,   \* whether some answer so far was not blank
          delivered, \* whether the analysis of the last answer is not blank
          ledger,    \* RequestLedger: what became of each request
          retained,  \* ContextEngine._retained_source, by their requests
          turns,     \* session.turns
          saved,     \* per saved round, the reason written with it
          reason,    \* session.termination_reason; None while it is running
          revised    \* the revision that asked for this round (history)

engine == <<ledger, retained>>
session == <<turns, saved, reason>>
text == <<hasText, delivered>>
loopVars == <<mode, at, round, force, prompt, used, answer, text, engine, session, revised>>

Flaws == {"write_path", "fix_format", "fix_recovery"}
Revisions == Flaws \cup {"knowledge"}
Reasons == {"model_final", "max_rounds", "all_requests_blocked", "invalid_schema",
            "llm_budget_exhausted", "llm_error", "ready_to_fix",
            "insufficient_evidence", "prompt_capacity_exceeded"}

ASSUME NoneAssumption == None \notin Reasons \cup Revisions

Prompts == [final : BOOLEAN,                \* it announces the last round
            feedback : Revisions \cup {None},
            shown : SUBSET Requests,        \* their sources, in full
            withheld : SUBSET Requests,     \* left out, named by their symbols
            written : SUBSET Symbols,       \* looked up for the knowledge section
            cut : BOOLEAN,                  \* not everything fitted
            stop : BOOLEAN]                 \* prompt_capacity_exceeded

Kinds == {"fix", "final", "insufficient", "garbled", "stops", "asks_nothing", "asks"}

(* Only an answer that asks has requests, cut to max_requests; a blank one *)
(* cannot be parsed and gives the checks nothing to object to.  A flaw is  *)
(* what the first check objects to that has not had its say yet.           *)
Answers ==
  {a \in [kind : Kinds, text : BOOLEAN, requests : SUBSET Requests, flaw : Flaws \cup {None}] :
     /\ a.kind = "asks" <=> a.requests # {}
     /\ Cardinality(a.requests) <= MaxRequests
     /\ ~a.text => a.kind = "garbled" /\ a.flaw = None}

NoPrompt == [final |-> FALSE, feedback |-> None, shown |-> {}, withheld |-> {},
             written |-> {}, cut |-> FALSE, stop |-> FALSE]
NoAnswer == [kind |-> "garbled", text |-> FALSE, requests |-> {}, flaw |-> None]

InLoop == mode = "context_loop"
LastSlot == round >= MaxRounds - 1

(* build_prompt packs the kept sources and then the new items; what does   *)
(* not fit is left out and named, unless not even the note fits; and if    *)
(* the mandatory sections do not fit there is no prompt.                   *)
BuildPrompt(final, feedback, kept) ==
  LET Packed(f, s, w, c) ==
        [final |-> final, feedback |-> f, shown |-> s, withheld |-> w, written |-> {},
         cut |-> c, stop |-> FALSE]
  IN {Packed(feedback, kept, {}, FALSE), Packed(None, {}, {}, TRUE),
      [NoPrompt EXCEPT !.final = final, !.stop = TRUE]}
     \cup {Packed(f, s, kept \ s, TRUE) : f \in {feedback, None}, s \in SUBSET kept}

(* resolve_requests: a request that is in the ledger is a duplicate and    *)
(* brings nothing, whatever became of it the first time.  The ledger says  *)
(* "success" for both kinds of success.                                    *)
New(requests) == {r \in requests : ledger[r] = "none"}
Resolve(requests, found, how) ==
  ledger' = [r \in Requests |-> IF r \notin New(requests) THEN ledger[r]
                                ELSE IF r \in found THEN how ELSE "failed"]

(* _remember_source: a source takes the place of the one that is kept of   *)
(* the same symbol, whatever the two were asked for as.                    *)
Remember(found) ==
  \E last \in SUBSET found :
    /\ SymbolsOf(last) = SymbolsOf(found)
    /\ \A r \in last, t \in last : r.symbol = t.symbol => r = t
    /\ retained' = {r \in retained : r.symbol \notin SymbolsOf(found)} \cup last

Init ==
  /\ mode \in {"single", "context_loop"}
  /\ at = "start" /\ round = 0
  /\ force = None
  /\ prompt = NoPrompt
  /\ used = {}
  /\ answer = NoAnswer
  /\ hasText = FALSE /\ delivered = FALSE
  /\ ledger = [r \in Requests |-> "none"]
  /\ retained = {}
  /\ turns = <<>> /\ saved = <<>>
  /\ reason = None
  /\ revised = None

(* Of the functions that are missing only the first few are looked up, and *)
(* one that was looked up in vain takes its place among them again.        *)
Knowledge == {Named[i] : i \in DOMAIN Named}
Place(s, missing) ==
  LET at_s == CHOOSE i \in DOMAIN Named : Named[i] = s
  IN Cardinality({i \in 1..at_s : Named[i] \in missing})
FirstOf(missing) ==
  {LookUp(s) : s \in {m \in missing : Place(m, missing) <= 6 /\ Place(m, missing) <= MaxRequests}}

---------------------------------------------------------------------------
(* The first prompt.  Functions that the knowledge section names are       *)
(* looked up and written straight into it, not among the kept sources.     *)
Start ==
  /\ at = "start"
  /\ at' = "top"
  /\ \/ ~InLoop /\ UNCHANGED <<prompt, ledger>>
     \/ /\ InLoop
        /\ \E p \in BuildPrompt(FALSE, None, {}), found \in SUBSET FirstOf(Knowledge) :
             /\ IF p.stop THEN found = {} /\ UNCHANGED ledger
                          ELSE Resolve(FirstOf(Knowledge), found, "prefetched")
             /\ prompt' = [p EXCEPT !.written = SymbolsOf(found)]
  /\ UNCHANGED <<mode, round, force, used, answer, text, retained, session, revised>>

(* The last slot is always final: unless the prompt was built so, it is    *)
(* built again, from the kept sources alone.                               *)
Announce ==
  /\ at = "top" /\ InLoop /\ LastSlot /\ force = None
  /\ force' = "max_rounds"
  /\ prompt' \in BuildPrompt(TRUE, None, retained)
  /\ UNCHANGED <<mode, at, round, used, answer, text, engine, session, revised>>

ReadyToAsk == at = "top" /\ ~(InLoop /\ LastSlot /\ force = None)

Turn(kind) == turns' = Append(turns, [kind |-> kind, final |-> prompt.final])
Save(why) == saved' = Append(saved, why)

(* finish and then on_round_complete, so that the saved round tells why. *)
Finish(kind, why) ==
  /\ Turn(kind) /\ Save(why)
  /\ reason' = why
  /\ at' = "done"

TooLong ==
  /\ ReadyToAsk /\ prompt.stop
  /\ Finish("error", "prompt_capacity_exceeded")
  /\ UNCHANGED <<mode, round, force, prompt, used, answer, text, engine, revised>>

Ask ==
  /\ ReadyToAsk /\ ~prompt.stop
  /\ at' = "asked"
  /\ UNCHANGED <<mode, round, force, prompt, used, answer, text, engine, session, revised>>

(* The call raised: the round is recorded and the exception goes on. *)
CallFails(why) ==
  /\ at = "asked"
  /\ Turn("error") /\ Save(why)
  /\ reason' = why
  /\ at' = "raised"
  /\ UNCHANGED <<mode, round, force, prompt, used, answer, text, engine, revised>>

(* Which answers are looked at again before they are taken. *)
Revisable(a) == InLoop /\ (force # None \/ a.kind \notin {"insufficient", "asks"})

Receive(a) ==
  /\ at = "asked"
  /\ answer' = a
  /\ hasText' = (hasText \/ a.text)
  /\ delivered' = a.text
  /\ at' = IF Revisable(a) /\ ~LastSlot THEN "knowledge" ELSE "settle"
  /\ UNCHANGED <<mode, round, force, prompt, used, engine, session, revised>>

---------------------------------------------------------------------------
Kind == IF force # None THEN "final" ELSE IF round = 0 THEN "initial" ELSE "followup"

(* The round is over and another one follows. *)
NextRound ==
  /\ Turn(Kind) /\ Save(None)
  /\ round' = round + 1
  /\ answer' = NoAnswer
  /\ at' = "top"
  /\ UNCHANGED reason

(* Only the prompt's own section of function sources is looked into: what  *)
(* was supplied as evidence is still missing there.                        *)
Missing == Knowledge \ prompt.written

(* Functions the knowledge names and this prompt lacks are looked up now   *)
(* and written into the prompt that was just sent.                         *)
ReviseKnowledge ==
  /\ at = "knowledge" /\ "knowledge" \notin used
  /\ \E found \in (SUBSET New(FirstOf(Missing))) \ {{}} :
       /\ Resolve(FirstOf(Missing), found, "prefetched")
       /\ prompt' = [prompt EXCEPT !.written = @ \cup SymbolsOf(found), !.feedback = "knowledge"]
  /\ used' = used \cup {"knowledge"}
  /\ revised' = "knowledge"
  /\ force' = None
  /\ NextRound
  /\ UNCHANGED <<mode, text, retained>>

(* Nothing is missing, or nothing of it is found: the lookup stays in the  *)
(* ledger.                                                                 *)
KnowledgeInPlace ==
  /\ at = "knowledge"
  /\ IF "knowledge" \in used THEN UNCHANGED ledger ELSE Resolve(FirstOf(Missing), {}, "prefetched")
  /\ at' = "flaws"
  /\ UNCHANGED <<mode, round, force, prompt, used, answer, text, retained, session, revised>>

Objected == answer.flaw \notin used \cup {None} /\ (answer.flaw = "fix_recovery" => ApplyFixes)

(* Mutant of ReviseAnswer: the prompt is built before the objection is     *)
(* written down.                                                           *)
ReviseWithoutNote ==
  /\ at = "flaws" /\ Objected
  /\ used' = used \cup {answer.flaw}
  /\ revised' = answer.flaw
  /\ prompt' \in BuildPrompt(round + 1 >= MaxRounds - 1, None, retained)
  /\ force' = None
  /\ NextRound
  /\ UNCHANGED <<mode, text, engine>>

(* _schedule_revision: the objection goes into the next prompt, each kind  *)
(* once per run.                                                           *)
ReviseAnswer ==
  /\ at = "flaws" /\ Objected
  /\ used' = used \cup {answer.flaw}
  /\ revised' = answer.flaw
  /\ prompt' \in BuildPrompt(round + 1 >= MaxRounds - 1, answer.flaw, retained)
  /\ force' = None
  /\ NextRound
  /\ UNCHANGED <<mode, text, engine>>

NoObjection ==
  /\ at = "flaws" /\ ~Objected
  /\ at' = "settle"
  /\ UNCHANGED <<mode, round, force, prompt, used, answer, text, engine, session, revised>>

---------------------------------------------------------------------------
RequestedMore == answer.kind \in {"asks", "asks_nothing"}

(* Mutant of SettleFinal: a blank last word is taken as it is. *)
SettleFinalBlank ==
  /\ at = "settle" /\ force # None
  /\ Finish("final", force)
  /\ UNCHANGED <<mode, round, force, prompt, used, answer, text, engine, revised>>

(* The last word: a blank one falls back on the last analysis that was     *)
(* written, and a written one is taken although its control part is not.   *)
SettleFinal ==
  /\ at = "settle" /\ force # None
  /\ IF ~answer.text /\ hasText
     THEN delivered' = TRUE /\ Finish("final", "model_final")
     ELSE /\ UNCHANGED delivered
          /\ IF force = "invalid_schema" /\ ~RequestedMore /\ answer.text
             THEN Finish("final", "model_final")
             ELSE Finish("final", force)
  /\ UNCHANGED <<mode, round, force, prompt, used, answer, hasText, engine, revised>>

Conclusion ==
  IF ~InLoop THEN "model_final"
  ELSE CASE answer.kind = "fix" -> "ready_to_fix"
         [] answer.kind = "insufficient" -> "insufficient_evidence"
         [] OTHER -> "model_final"

Settle ==
  /\ at = "settle" /\ force = None
  /\ ~InLoop \/ answer.kind \in {"fix", "final", "insufficient", "stops"}
  /\ Finish(Kind, Conclusion)
  /\ UNCHANGED <<mode, round, force, prompt, used, answer, text, engine, revised>>

(* An answer without a usable control part: one more round, a final one.   *)
(* (In the last slot force is set, so there always is one more.)           *)
SettleInvalid ==
  /\ at = "settle" /\ force = None /\ InLoop
  /\ answer.kind \in {"garbled", "asks_nothing"}
  /\ force' = "invalid_schema"
  /\ prompt' \in BuildPrompt(TRUE, None, retained)
  /\ revised' = None
  /\ NextRound
  /\ UNCHANGED <<mode, used, text, engine>>

(* The round is saved before finish is called. *)
AllBlocked ==
  /\ at = "settle" /\ force = None /\ InLoop /\ answer.kind = "asks"
  /\ Resolve(answer.requests, {}, "located")
  /\ Turn(Kind) /\ Save(None)
  /\ reason' = "all_requests_blocked"
  /\ at' = "done"
  /\ UNCHANGED <<mode, round, force, prompt, used, answer, text, retained, revised>>

(* Mutant of Supply: only the newest sources are kept. *)
SupplyNewest ==
  /\ at = "settle" /\ force = None /\ InLoop /\ answer.kind = "asks"
  /\ \E found \in (SUBSET New(answer.requests)) \ {{}} :
       /\ Resolve(answer.requests, found, "located")
       /\ retained' = found
  /\ force' = IF round + 1 >= MaxRounds - 1 THEN "max_rounds" ELSE None
  /\ prompt' \in BuildPrompt(force' # None, None, retained')
  /\ revised' = None
  /\ NextRound
  /\ UNCHANGED <<mode, used, text>>

(* Mutant of Supply: the bound on the rounds is off by one. *)
SupplyUnannounced ==
  /\ at = "settle" /\ force = None /\ InLoop /\ answer.kind = "asks"
  /\ \E found \in (SUBSET New(answer.requests)) \ {{}} :
       /\ Resolve(answer.requests, found, "located")
       /\ Remember(found)
  /\ force' = IF round + 1 >= MaxRounds - 1 THEN "max_rounds" ELSE None
  /\ prompt' \in BuildPrompt(round >= MaxRounds - 1, None, retained')
  /\ revised' = None
  /\ NextRound
  /\ UNCHANGED <<mode, used, text>>

Supply ==
  /\ at = "settle" /\ force = None /\ InLoop /\ answer.kind = "asks"
  /\ \E found \in (SUBSET New(answer.requests)) \ {{}} :
       /\ Resolve(answer.requests, found, "located")
       /\ Remember(found)
  /\ force' = IF round + 1 >= MaxRounds - 1 THEN "max_rounds" ELSE None
  /\ prompt' \in BuildPrompt(force' # None, None, retained')
  /\ revised' = None
  /\ NextRound
  /\ UNCHANGED <<mode, used, text>>

LoopStep ==
  \/ Start \/ Announce \/ TooLong
  \/ ReviseKnowledge \/ KnowledgeInPlace \/ ReviseAnswer \/ NoObjection
  \/ SettleFinal \/ Settle \/ SettleInvalid \/ AllBlocked \/ Supply

Ended == at \in {"done", "raised"}

Next ==
  \/ LoopStep \/ Ask
  \/ \E a \in Answers : Receive(a)
  \/ \E why \in {"llm_budget_exhausted", "llm_error"} : CallFails(why)

Spec == Init /\ [][Next]_loopVars

---------------------------------------------------------------------------
(* The variables have their types, and the session as many turns as the    *)
(* round says.                                                             *)
LoopTypeOK ==
  /\ mode \in {"single", "context_loop"}
  /\ at \in {"start", "top", "asked", "knowledge", "flaws", "settle", "done", "raised"}
  /\ round \in 0..(MaxRounds - 1)
  /\ force \in {None, "max_rounds", "invalid_schema"}
  /\ prompt \in Prompts
  /\ used \subseteq Revisions
  /\ answer \in Answers \cup {NoAnswer}
  /\ hasText \in BOOLEAN /\ delivered \in BOOLEAN
  /\ ledger \in [Requests -> {"none", "failed", "located", "prefetched"}]
  /\ retained \subseteq Requests
  /\ turns \in Seq([kind : {"initial", "followup", "final", "error"}, final : BOOLEAN])
  /\ saved \in Seq(Reasons \cup {None}) /\ Len(saved) = Len(turns)
  /\ Len(turns) = IF Ended THEN round + 1 ELSE round
  /\ reason \in Reasons \cup {None}
  /\ revised \in Revisions \cup {None}

(* An answer is taken as the last word only if the model was told so: the  *)
(* prompt of every final turn announced it, also when a revision built the *)
(* prompt of the last slot (agent_context_loop.py:327-334).                *)
FinalWasAnnounced == \A i \in 1..Len(turns) : turns[i].kind = "final" => turns[i].final

(* Of every symbol that the model's requests have located a source of, one *)
(* that was located is in every later prompt, or the symbol is named there *)
(* as left out, since asking for it again brings nothing                   *)
(* (context_engine.py:784-796); only in a tight prompt without room for    *)
(* the note is there nothing of them at all.  A source that another        *)
(* request for the same symbol has replaced is lost.                       *)
RequestedStaysReadable ==
  LET located == {r \in Requests : ledger[r] = "located"}
      told == SymbolsOf(located \cap (prompt.shown \cup prompt.withheld))
  IN at = "asked" => told = SymbolsOf(located) \/ (prompt.cut /\ told = {})

(* The loop does not hand over a blank analysis when an earlier answer had *)
(* one (agent_context_loop.py:424-430), unless the next prompt no longer   *)
(* fits.                                                                   *)
AnalysisKept ==
  at = "done" /\ hasText /\ reason # "prompt_capacity_exceeded" => delivered

(* What a check objected to is in the prompt the model is asked with next, *)
(* if everything fits (_schedule_revision, agent_context_loop.py:140-169); *)
(* not in the last slot, whose prompt is built once more without it        *)
(* (agent_context_loop.py:327-334).                                        *)
FeedbackReachesModel ==
  at = "asked" /\ revised # None /\ ~prompt.cut /\ ~LastSlot => prompt.feedback = revised
=============================================================================
