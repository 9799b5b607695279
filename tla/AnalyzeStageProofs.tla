------------------------- MODULE AnalyzeStageProofs -------------------------
(***************************************************************************)
(* Theorems about the analysis.  First those of its loop, AgentLoop, for   *)
(* every number of rounds, every set of symbols and whatever the model     *)
(* answers.  Then those of the stage: it is a loop as AgentLoop has it, so *)
(* that what is proved of the loop holds of the stage, and a request of it *)
(* keeps its reply and gives up only when nothing is left, for every pool  *)
(* of endpoints, every limit and whatever the endpoints answer.            *)
(***************************************************************************)
EXTENDS AnalyzeStage, TLAPS, FiniteSetTheorems

-----------------------------------------------------------------------------
(* THE LOOP *)


(* The symbols of requests are symbols. *)
LEMMA OfRequests ==
  ASSUME NEW requests \in SUBSET Requests
  PROVE  SymbolsOf(requests) \subseteq Symbols
PROOF
  <1> SUFFICES ASSUME NEW r \in requests PROVE r.symbol \in Symbols
    BY DEF SymbolsOf
  <1> QED
    BY LoopAssumption

(* What build_prompt gives: a prompt that is final if it was asked to be,  *)
(* and that, if it could be built at all, either has or names every source *)
(* that is kept or was cut to nothing, and carries the objection unless    *)
(* something was cut.                                                      *)
Covers(p, kept) ==
  \/ p.stop
  \/ kept \subseteq p.shown \cup p.withheld
  \/ p.cut /\ p.shown = {} /\ p.withheld = {}

(* Every prompt that build_prompt can give is of this kind. *)
LEMMA BuiltPrompt ==
  ASSUME NEW final \in BOOLEAN, NEW feedback \in Revisions \cup {None},
         NEW kept \in SUBSET Requests, NEW p \in BuildPrompt(final, feedback, kept)
  PROVE  /\ p \in Prompts
         /\ p.final = final
         /\ Covers(p, kept)
         /\ p.stop \/ p.cut \/ p.feedback = feedback
PROOF
  <1> DEFINE Packed(f, s, w, c) ==
        [final |-> final, feedback |-> f, shown |-> s, withheld |-> w, written |-> {},
         cut |-> c, stop |-> FALSE]
  <1>1. CASE p = Packed(feedback, kept, {}, FALSE)
    BY <1>1 DEF Prompts, Covers
  <1>2. CASE p = Packed(None, {}, {}, TRUE)
    BY <1>2 DEF Prompts, Covers
  <1>3. CASE p = [NoPrompt EXCEPT !.final = final, !.stop = TRUE]
    BY <1>3 DEF Prompts, Covers, NoPrompt
  <1>4. ASSUME NEW f \in {feedback, None}, NEW s \in SUBSET kept,
               p = Packed(f, s, kept \ s, TRUE)
        PROVE  /\ p \in Prompts
               /\ p.final = final
               /\ Covers(p, kept)
               /\ p.stop \/ p.cut \/ p.feedback = feedback
    BY <1>4 DEF Prompts, Covers
  <1> QED
    BY <1>1, <1>2, <1>3, <1>4 DEF BuildPrompt

(* An answer that leads to a conclusion has text. *)
LEMMA AnswerFacts ==
  ASSUME NEW a \in Answers
  PROVE  /\ a.kind \in Kinds /\ a.text \in BOOLEAN
         /\ a.requests \subseteq Requests /\ a.flaw \in Flaws \cup {None}
         /\ a.kind # "garbled" => a.text
BY DEF Answers

(* Whatever is looked up for the knowledge section may be asked for. *)
LEMMA LookedUp ==
  /\ FirstOf(Knowledge) \subseteq Requests
  /\ FirstOf(Missing) \subseteq Requests
PROOF
  <1>1. \A s \in Knowledge : LookUp(s) \in Requests
    BY LoopAssumption DEF Knowledge
  <1> QED
    BY <1>1 DEF FirstOf, Missing

(* To remember sources keeps one of every symbol that had one. *)
LEMMA Remembered ==
  ASSUME NEW found \in SUBSET Requests, retained \in SUBSET Requests, Remember(found)
  PROVE  /\ retained' \in SUBSET Requests /\ retained' \subseteq retained \cup found
         /\ SymbolsOf(retained') = SymbolsOf(retained) \cup SymbolsOf(found)
PROOF
  <1>1. PICK last \in SUBSET found :
          /\ SymbolsOf(last) = SymbolsOf(found)
          /\ retained' = {r \in retained : r.symbol \notin SymbolsOf(found)} \cup last
    BY DEF Remember
  <1>2. retained' \subseteq retained \cup found
    BY <1>1
  <1>3. SymbolsOf(retained') = SymbolsOf({r \in retained : r.symbol \notin SymbolsOf(found)})
                               \cup SymbolsOf(last)
    BY <1>1 DEF SymbolsOf
  <1>4. SymbolsOf({r \in retained : r.symbol \notin SymbolsOf(found)})
          = SymbolsOf(retained) \ SymbolsOf(found)
    BY DEF SymbolsOf
  <1> QED
    BY <1>1, <1>2, <1>3, <1>4

---------------------------------------------------------------------------
(* The types, and where in the run the loop can be: in the last slot it    *)
(* has been decided that the answer is the last word, and only before it   *)
(* may an answer be sent back.                                             *)
Slots ==
  /\ at \in {"knowledge", "flaws"} => InLoop /\ ~LastSlot
  /\ at \in {"asked", "settle"} /\ InLoop /\ LastSlot => force # None
  /\ ~InLoop => round = 0 /\ force = None
  /\ at = "start" => force = None /\ retained = {} /\ revised = None
  /\ at \in {"knowledge", "flaws", "settle"} => answer \in Answers
  /\ at \in {"asked", "knowledge"} => ~prompt.stop

TInv == LoopTypeOK /\ Slots

(* The session starts with the types, before its first prompt. *)
LEMMA TypesInit == Init => TInv
PROOF
  <1> SUFFICES ASSUME Init PROVE TInv
    OBVIOUS
  <1>1. prompt \in Prompts /\ ~prompt.stop
    BY DEF Init, Prompts, NoPrompt
  <1>2. 0 \in 0..(MaxRounds - 1)
    BY LoopAssumption
  <1>3. /\ turns \in Seq([kind : {"initial", "followup", "final", "error"}, final : BOOLEAN])
        /\ saved \in Seq(Reasons \cup {None})
        /\ Len(saved) = 0 /\ Len(turns) = 0
    BY DEF Init
  <1>4. LoopTypeOK
    BY <1>1, <1>2, <1>3 DEF Init, LoopTypeOK, Ended
  <1> QED
    BY <1>1, <1>4, NoneAssumption DEF Init, TInv, Slots, InLoop

(* What a round that is followed by another one does to the session. *)
LEMMA NextRoundTypes ==
  ASSUME LoopTypeOK, NextRound, InLoop, ~LastSlot, at \notin {"done", "raised"}
  PROVE  /\ round' \in 0..(MaxRounds - 1) /\ at' = "top" /\ answer' = NoAnswer
         /\ turns' \in Seq([kind : {"initial", "followup", "final", "error"}, final : BOOLEAN])
         /\ saved' \in Seq(Reasons \cup {None}) /\ Len(saved') = Len(turns')
         /\ Len(turns') = round'
         /\ reason' \in Reasons \cup {None}
PROOF
  <1>1. round + 1 \in 0..(MaxRounds - 1)
    BY LoopAssumption DEF LoopTypeOK, LastSlot
  <1>2. Kind \in {"initial", "followup", "final"}
    BY DEF Kind
  <1>3. prompt.final \in BOOLEAN
    BY DEF LoopTypeOK, Prompts
  <1>4. Len(turns) = round
    BY DEF LoopTypeOK, Ended
  <1> QED
    BY <1>1, <1>2, <1>3, <1>4 DEF LoopTypeOK, NextRound, Turn, Save

(* What the end of the loop does to it. *)
LEMMA LastTypes ==
  ASSUME LoopTypeOK, NEW kind \in {"initial", "followup", "final", "error"},
         NEW why \in Reasons, NEW told \in Reasons \cup {None},
         Turn(kind), Save(told), reason' = why, round' = round,
         at \notin {"done", "raised"}, at' \in {"done", "raised"}
  PROVE  /\ turns' \in Seq([kind : {"initial", "followup", "final", "error"}, final : BOOLEAN])
         /\ saved' \in Seq(Reasons \cup {None}) /\ Len(saved') = Len(turns')
         /\ Len(turns') = round' + 1
         /\ reason' \in Reasons \cup {None}
PROOF
  <1>1. prompt.final \in BOOLEAN
    BY DEF LoopTypeOK, Prompts
  <1>2. Len(turns) = round
    BY DEF LoopTypeOK, Ended
  <1> QED
    BY <1>1, <1>2 DEF LoopTypeOK, Turn, Save

(* Every step of the loop, and a raised exception, keep the types and the  *)
(* places.                                                                 *)
LEMMA TypesNext == TInv /\ [Next]_loopVars => TInv'
PROOF
  <1> SUFFICES ASSUME TInv, [Next]_loopVars PROVE TInv'
    OBVIOUS
  <1> USE NoneAssumption
  <1>1. CASE UNCHANGED loopVars
    BY <1>1 DEF TInv, LoopTypeOK, Slots, loopVars, text, engine, session, InLoop, LastSlot, Ended
  <1>2. CASE Start
    <2>1. /\ prompt' \in Prompts
          /\ ledger' \in [Requests -> {"none", "failed", "located", "prefetched"}]
      <3>1. CASE ~InLoop
        BY <3>1, <1>2 DEF Start, TInv, LoopTypeOK
      <3>2. CASE InLoop
        <4>1. PICK p \in BuildPrompt(FALSE, None, {}), found \in SUBSET FirstOf(Knowledge) :
                /\ IF p.stop THEN found = {} /\ UNCHANGED ledger
                             ELSE Resolve(FirstOf(Knowledge), found, "prefetched")
                /\ prompt' = [p EXCEPT !.written = SymbolsOf(found)]
          BY <1>2, <3>2 DEF Start
        <4>2. p \in Prompts
          BY BuiltPrompt
        <4>3. prompt' \in Prompts
          <5>1. SymbolsOf(found) \subseteq Symbols
            BY LookedUp, OfRequests
          <5> QED
            BY <4>1, <4>2, <5>1 DEF Prompts
        <4> QED
          BY <4>1, <4>3 DEF Resolve, TInv, LoopTypeOK
      <3> QED
        BY <3>1, <3>2
    <2> QED
      BY <1>2, <2>1 DEF Start, TInv, LoopTypeOK, Slots, text, session, InLoop, LastSlot, Ended
  <1>3. CASE Announce
    <2>1. prompt' \in Prompts
      BY <1>3, BuiltPrompt DEF Announce, TInv, LoopTypeOK
    <2> QED
      BY <1>3, <2>1 DEF Announce, TInv, LoopTypeOK, Slots, text, engine, session, InLoop, LastSlot, Ended, Reasons
  <1>4. CASE TooLong
    <2>1. Turn("error") /\ Save("prompt_capacity_exceeded") /\ at = "top" /\ at' = "done"
          /\ reason' = "prompt_capacity_exceeded" /\ round' = round
      BY <1>4 DEF TooLong, Finish, ReadyToAsk
    <2>2. /\ turns' \in Seq([kind : {"initial", "followup", "final", "error"}, final : BOOLEAN])
          /\ saved' \in Seq(Reasons \cup {None}) /\ Len(saved') = Len(turns')
          /\ Len(turns') = round' + 1
          /\ reason' \in Reasons \cup {None}
      BY <2>1, LastTypes DEF TInv, Reasons
    <2> QED
      BY <1>4, <2>1, <2>2 DEF TooLong, TInv, LoopTypeOK, Slots, text, engine, InLoop, LastSlot, Ended
  <1>5. CASE Ask
    BY <1>5 DEF Ask, ReadyToAsk, TInv, LoopTypeOK, Slots, text, engine, session, InLoop, LastSlot, Ended
  <1>6. ASSUME NEW why \in {"llm_budget_exhausted", "llm_error"}, CallFails(why)
        PROVE  TInv'
    <2>1. Turn("error") /\ Save(why) /\ at = "asked" /\ at' = "raised"
          /\ reason' = why /\ round' = round /\ why \in Reasons
      BY <1>6 DEF CallFails, Reasons
    <2>2. /\ turns' \in Seq([kind : {"initial", "followup", "final", "error"}, final : BOOLEAN])
          /\ saved' \in Seq(Reasons \cup {None}) /\ Len(saved') = Len(turns')
          /\ Len(turns') = round' + 1
          /\ reason' \in Reasons \cup {None}
      BY <2>1, LastTypes DEF TInv
    <2> QED
      BY <1>6, <2>1, <2>2 DEF CallFails, TInv, LoopTypeOK, Slots, text, engine, InLoop, LastSlot, Ended
  <1>7. ASSUME NEW a \in Answers, Receive(a)
        PROVE  TInv'
    <2>1. a.text \in BOOLEAN
      BY AnswerFacts
    <2>2. at' \in {"knowledge", "settle"} /\ (at' = "knowledge" => InLoop /\ ~LastSlot)
      BY <1>7 DEF Receive, Revisable
    <2> QED
      BY <1>7, <2>1, <2>2 DEF Receive, TInv, LoopTypeOK, Slots, engine, session, InLoop, LastSlot, Ended
  <1>8. CASE ReviseKnowledge
    <2>1. /\ InLoop /\ ~LastSlot /\ at \notin {"done", "raised"} /\ NextRound
      BY <1>8 DEF ReviseKnowledge, TInv, Slots
    <2>2. PICK found \in (SUBSET New(FirstOf(Missing))) \ {{}} :
            /\ Resolve(FirstOf(Missing), found, "prefetched")
            /\ prompt' = [prompt EXCEPT !.written = @ \cup SymbolsOf(found), !.feedback = "knowledge"]
      BY <1>8 DEF ReviseKnowledge
    <2>3. SymbolsOf(found) \subseteq Symbols
      BY LookedUp, OfRequests DEF New
    <2>4. prompt' \in Prompts
      BY <2>2, <2>3 DEF TInv, LoopTypeOK, Prompts, Revisions
    <2>5. ledger' \in [Requests -> {"none", "failed", "located", "prefetched"}]
      BY <2>2 DEF Resolve, TInv, LoopTypeOK
    <2>6. force' = None /\ UNCHANGED <<mode, hasText, delivered, retained>> /\ revised' \in Revisions
          /\ used' \subseteq Revisions
      BY <1>8 DEF ReviseKnowledge, text, TInv, LoopTypeOK, Revisions
    <2> QED
      BY <2>1, <2>4, <2>5, <2>6, NextRoundTypes DEF TInv, LoopTypeOK, Slots, InLoop, Ended
  <1>9. CASE KnowledgeInPlace
    <2>1. ledger' \in [Requests -> {"none", "failed", "located", "prefetched"}]
      BY <1>9 DEF KnowledgeInPlace, Resolve, TInv, LoopTypeOK
    <2> QED
      BY <1>9, <2>1 DEF KnowledgeInPlace, TInv, LoopTypeOK, Slots, text, session, InLoop, LastSlot, Ended
  <1>10. CASE ReviseAnswer
    <2>1. /\ InLoop /\ ~LastSlot /\ at \notin {"done", "raised"} /\ NextRound
      BY <1>10 DEF ReviseAnswer, TInv, Slots
    <2>2. answer.flaw \in Flaws
      BY <1>10, AnswerFacts DEF ReviseAnswer, Objected, TInv, Slots
    <2>3. prompt' \in Prompts
      <3>1. /\ (round + 1 >= MaxRounds - 1) \in BOOLEAN
            /\ answer.flaw \in Revisions \cup {None}
            /\ retained \in SUBSET Requests
            /\ prompt' \in BuildPrompt(round + 1 >= MaxRounds - 1, answer.flaw, retained)
        BY <1>10, <2>2 DEF ReviseAnswer, TInv, LoopTypeOK, Revisions
      <3> QED
        BY <3>1, BuiltPrompt
    <2>4. force' = None /\ UNCHANGED <<mode, hasText, delivered, ledger, retained>>
          /\ revised' \in Revisions /\ used' \subseteq Revisions
      BY <1>10, <2>2 DEF ReviseAnswer, text, engine, TInv, LoopTypeOK, Revisions
    <2> QED
      BY <2>1, <2>3, <2>4, NextRoundTypes DEF TInv, LoopTypeOK, Slots, InLoop, Ended
  <1>11. CASE NoObjection
    BY <1>11 DEF NoObjection, TInv, LoopTypeOK, Slots, text, engine, session, InLoop, LastSlot, Ended
  <1>12. CASE SettleFinal
    <2>1. PICK why \in Reasons : Finish("final", why)
      BY <1>12 DEF SettleFinal, TInv, LoopTypeOK, Reasons
    <2>2. Turn("final") /\ Save(why) /\ at' = "done" /\ reason' = why
      BY <2>1 DEF Finish
    <2>3. at = "settle" /\ round' = round /\ delivered' \in BOOLEAN
          /\ UNCHANGED <<mode, force, prompt, used, answer, hasText, engine, revised>>
      BY <1>12 DEF SettleFinal, TInv, LoopTypeOK
    <2>4. /\ turns' \in Seq([kind : {"initial", "followup", "final", "error"}, final : BOOLEAN])
          /\ saved' \in Seq(Reasons \cup {None}) /\ Len(saved') = Len(turns')
          /\ Len(turns') = round' + 1
          /\ reason' \in Reasons \cup {None}
      BY <2>2, <2>3, LastTypes DEF TInv
    <2> QED
      BY <2>2, <2>3, <2>4 DEF TInv, LoopTypeOK, Slots, engine, InLoop, LastSlot, Ended
  <1>13. CASE Settle
    <2>1. Kind \in {"initial", "followup", "final"} /\ Conclusion \in Reasons
      BY DEF Kind, Conclusion, Reasons
    <2>2. Turn(Kind) /\ Save(Conclusion) /\ at' = "done" /\ reason' = Conclusion
          /\ at = "settle" /\ round' = round
          /\ UNCHANGED <<mode, force, prompt, used, answer, text, engine, revised>>
      BY <1>13 DEF Settle, Finish
    <2>3. /\ turns' \in Seq([kind : {"initial", "followup", "final", "error"}, final : BOOLEAN])
          /\ saved' \in Seq(Reasons \cup {None}) /\ Len(saved') = Len(turns')
          /\ Len(turns') = round' + 1
          /\ reason' \in Reasons \cup {None}
      BY <2>1, <2>2, LastTypes DEF TInv
    <2> QED
      BY <2>2, <2>3 DEF TInv, LoopTypeOK, Slots, text, engine, InLoop, LastSlot, Ended
  <1>14. CASE SettleInvalid
    <2>1. /\ InLoop /\ ~LastSlot /\ at \notin {"done", "raised"} /\ NextRound
      BY <1>14 DEF SettleInvalid, TInv, Slots
    <2>2. prompt' \in Prompts
      BY <1>14, BuiltPrompt DEF SettleInvalid, TInv, LoopTypeOK
    <2>3. force' = "invalid_schema" /\ UNCHANGED <<mode, used, hasText, delivered, ledger, retained>>
          /\ revised' = None
      BY <1>14 DEF SettleInvalid, text, engine
    <2> QED
      BY <2>1, <2>2, <2>3, NextRoundTypes DEF TInv, LoopTypeOK, Slots, InLoop, Ended
  <1>15. CASE AllBlocked
    <2>1. Kind \in {"initial", "followup", "final"} /\ "all_requests_blocked" \in Reasons
      BY DEF Kind, Reasons
    <2>2. Turn(Kind) /\ Save(None) /\ at' = "done" /\ reason' = "all_requests_blocked"
          /\ at = "settle" /\ round' = round
          /\ UNCHANGED <<mode, force, prompt, used, answer, text, retained, revised>>
      BY <1>15 DEF AllBlocked
    <2>3. /\ turns' \in Seq([kind : {"initial", "followup", "final", "error"}, final : BOOLEAN])
          /\ saved' \in Seq(Reasons \cup {None}) /\ Len(saved') = Len(turns')
          /\ Len(turns') = round' + 1
          /\ reason' \in Reasons \cup {None}
      BY <2>1, <2>2, LastTypes DEF TInv
    <2>4. ledger' \in [Requests -> {"none", "failed", "located", "prefetched"}]
      BY <1>15 DEF AllBlocked, Resolve, TInv, LoopTypeOK
    <2> QED
      BY <2>2, <2>3, <2>4 DEF TInv, LoopTypeOK, Slots, text, InLoop, LastSlot, Ended
  <1>16. CASE Supply
    <2>1. /\ InLoop /\ ~LastSlot /\ at \notin {"done", "raised"} /\ NextRound
      BY <1>16 DEF Supply, TInv, Slots
    <2>2. PICK found \in (SUBSET New(answer.requests)) \ {{}} :
            /\ Resolve(answer.requests, found, "located")
            /\ Remember(found)
      BY <1>16 DEF Supply
    <2>3. answer.requests \subseteq Requests
      BY <1>16, AnswerFacts DEF Supply, TInv, Slots
    <2>4. retained' \subseteq Requests
      BY <2>2, <2>3, Remembered DEF New, TInv, LoopTypeOK
    <2>5. ledger' \in [Requests -> {"none", "failed", "located", "prefetched"}]
      BY <2>2 DEF Resolve, TInv, LoopTypeOK
    <2>6. force' \in {None, "max_rounds"} /\ (force' # None) \in BOOLEAN
          /\ UNCHANGED <<mode, used, hasText, delivered>> /\ revised' = None
          /\ prompt' \in BuildPrompt(force' # None, None, retained')
      BY <1>16 DEF Supply, text
    <2>7. prompt' \in Prompts
      BY <2>4, <2>6, BuiltPrompt
    <2> QED
      BY <2>1, <2>4, <2>5, <2>6, <2>7, NextRoundTypes DEF TInv, LoopTypeOK, Slots, InLoop, Ended
  <1> QED
    BY <1>1, <1>2, <1>3, <1>4, <1>5, <1>6, <1>7, <1>8, <1>9, <1>10, <1>11, <1>12, <1>13,
       <1>14, <1>15, <1>16 DEF Next, LoopStep

(* The variables of the loop have their types, and the session has as many *)
(* turns as the round says.                                                *)
THEOREM LoopTypes == Spec => []LoopTypeOK
PROOF
  <1>1. TInv => LoopTypeOK
    BY DEF TInv
  <1> QED
    BY <1>1, TypesInit, TypesNext, PTL DEF Spec

---------------------------------------------------------------------------
(* The last word.  Whenever the loop has decided that the next answer is   *)
(* the last one, the prompt it will send says so.                          *)
Announced ==
  /\ force # None => prompt.final
  /\ \A i \in 1..Len(turns) : turns[i].kind = "final" => turns[i].final

(* A turn that is recorded is final only if its prompt said so. *)
LEMMA AnnouncedTurn ==
  ASSUME TInv, Announced, NEW kind, Turn(kind), kind = "final" => prompt.final
  PROVE  \A i \in 1..Len(turns') : turns'[i].kind = "final" => turns'[i].final
PROOF
  <1>1. \A i \in 1..Len(turns') :
          turns'[i] = IF i = Len(turns) + 1 THEN [kind |-> kind, final |-> prompt.final] ELSE turns[i]
    BY DEF Turn, TInv, LoopTypeOK
  <1>2. Len(turns') = Len(turns) + 1 /\ Len(turns) \in Nat
    BY DEF Turn, TInv, LoopTypeOK
  <1> SUFFICES ASSUME NEW i \in 1..Len(turns'), turns'[i].kind = "final" PROVE turns'[i].final
    OBVIOUS
  <1>3. CASE i = Len(turns) + 1
    BY <1>1, <1>3
  <1>4. CASE i # Len(turns) + 1
    BY <1>1, <1>2, <1>4 DEF Announced
  <1> QED
    BY <1>3, <1>4

(* Every step of the loop keeps Announced. *)
LEMMA AnnouncedNext == TInv /\ Announced /\ [Next]_loopVars => Announced'
PROOF
  <1> SUFFICES ASSUME TInv, Announced, [Next]_loopVars PROVE Announced'
    OBVIOUS
  <1>1. CASE turns' = turns /\ (force' = None \/ (force' = force /\ prompt' = prompt))
    BY <1>1 DEF Announced
  <1>2. CASE Announce
    <2>1. prompt'.final = TRUE /\ turns' = turns
      BY <1>2, BuiltPrompt DEF Announce, TInv, LoopTypeOK, session
    <2> QED
      BY <2>1 DEF Announced
  <1>3. ASSUME NEW kind, Turn(kind), kind = "final" => prompt.final,
               force' = None \/ prompt'.final \/ (force' = force /\ prompt' = prompt)
        PROVE  Announced'
    BY <1>3, AnnouncedTurn DEF Announced
  <1>4. Kind = "final" => prompt.final
    BY DEF Kind, Announced
  <1>5. CASE UNCHANGED loopVars \/ Start \/ Ask \/ KnowledgeInPlace \/ NoObjection
             \/ \E a \in Answers : Receive(a)
    BY <1>1, <1>5 DEF Start, Ask, KnowledgeInPlace, NoObjection, Receive, TInv, Slots, loopVars, session
  <1>6. CASE TooLong \/ \E why \in {"llm_budget_exhausted", "llm_error"} : CallFails(why)
    <2>1. Turn("error") /\ force' = force /\ prompt' = prompt
      BY <1>6 DEF TooLong, Finish, CallFails
    <2> QED
      BY <1>3, <2>1
  <1>7. CASE ReviseKnowledge \/ ReviseAnswer
    <2>1. Turn(Kind) /\ force' = None
      BY <1>7 DEF ReviseKnowledge, ReviseAnswer, NextRound
    <2> QED
      BY <1>3, <1>4, <2>1
  <1>8. CASE SettleFinal
    <2>1. Turn("final") /\ force' = force /\ prompt' = prompt /\ force # None
      BY <1>8 DEF SettleFinal, Finish
    <2> QED
      BY <1>3, <2>1 DEF Announced
  <1>9. CASE Settle \/ AllBlocked
    <2>1. Turn(Kind) /\ force' = force /\ prompt' = prompt
      BY <1>9 DEF Settle, Finish, AllBlocked
    <2> QED
      BY <1>3, <1>4, <2>1
  <1>10. CASE SettleInvalid
    <2>1. Turn(Kind) /\ prompt'.final = TRUE
      BY <1>10, BuiltPrompt DEF SettleInvalid, NextRound, TInv, LoopTypeOK
    <2> QED
      BY <1>3, <1>4, <2>1
  <1>11. CASE Supply
    <2>1. Turn(Kind)
      BY <1>11 DEF Supply, NextRound
    <2>2. (force' # None) \in BOOLEAN /\ retained' \in SUBSET Requests /\ None \in Revisions \cup {None}
          /\ prompt' \in BuildPrompt(force' # None, None, retained')
      BY <1>11, TypesNext DEF Supply, TInv, LoopTypeOK
    <2>3. prompt'.final = (force' # None)
      BY <2>2, BuiltPrompt
    <2> QED
      BY <1>3, <1>4, <2>1, <2>3
  <1> QED
    BY <1>2, <1>5, <1>6, <1>7, <1>8, <1>9, <1>10, <1>11 DEF Next, LoopStep

(* Whatever is taken as the last word was announced as such. *)
THEOREM LastWordAnnounced == Spec => []FinalWasAnnounced
PROOF
  <1>1. Init => Announced
    BY DEF Init, Announced
  <1>2. Announced => FinalWasAnnounced
    BY DEF Announced, FinalWasAnnounced
  <1> QED
    BY <1>1, <1>2, TypesInit, TypesNext, AnnouncedNext, PTL DEF Spec
---------------------------------------------------------------------------
(* The analysis.  While an answer is handled, delivered speaks of it; an   *)
(* answer that leads to a conclusion is not blank.                         *)
Kept ==
  /\ at \in {"knowledge", "flaws", "settle"} =>
       delivered = answer.text /\ (answer.text => hasText)
  /\ ~InLoop /\ at \in {"start", "top", "asked"} => ~hasText
  /\ ~InLoop /\ at = "settle" => hasText = answer.text
  /\ AnalysisKept

(* Every step of the loop keeps Kept. *)
LEMMA KeptNext == TInv /\ Kept /\ [Next]_loopVars => Kept'
PROOF
  <1> SUFFICES ASSUME TInv, Kept, [Next]_loopVars PROVE Kept'
    OBVIOUS
  <1> USE DEF Kept, AnalysisKept, InLoop
  <1>1. CASE UNCHANGED loopVars
    BY <1>1 DEF loopVars, text, session
  <1>7. CASE Start \/ Announce \/ Ask
    <2>1. /\ UNCHANGED <<mode, hasText>>
          /\ at' \in {"top", "asked"} /\ at \in {"start", "top"}
      BY <1>7 DEF Start, Announce, Ask, ReadyToAsk, text
    <2> QED
      BY <2>1
  <1>8. CASE KnowledgeInPlace \/ NoObjection
    BY <1>8 DEF KnowledgeInPlace, NoObjection, TInv, Slots, text, session
  <1>2. CASE TooLong \/ \E why \in {"llm_budget_exhausted", "llm_error"} : CallFails(why)
    BY <1>2 DEF TooLong, Finish, CallFails
  <1>3. ASSUME NEW a \in Answers, Receive(a) PROVE Kept'
    BY <1>3, AnswerFacts DEF Receive, Revisable, TInv, LoopTypeOK
  <1>4. CASE ReviseKnowledge \/ ReviseAnswer \/ SettleInvalid \/ Supply
    BY <1>4 DEF ReviseKnowledge, ReviseAnswer, SettleInvalid, Supply, NextRound, TInv, Slots
  <1>5. CASE SettleFinal
    <2>1. at = "settle" /\ at' = "done" /\ hasText' = hasText /\ mode' = mode
      BY <1>5 DEF SettleFinal, Finish
    <2>2. CASE ~answer.text /\ hasText
      BY <1>5, <2>1, <2>2 DEF SettleFinal
    <2>3. CASE ~(~answer.text /\ hasText)
      BY <1>5, <2>1, <2>3 DEF SettleFinal
    <2> QED
      BY <2>2, <2>3
  <1>6. CASE Settle \/ AllBlocked
    <2>1. at = "settle" /\ at' = "done" /\ UNCHANGED <<mode, text>> /\ answer \in Answers
      BY <1>6 DEF Settle, AllBlocked, Finish, TInv, Slots
    <2>2. InLoop => answer.text
      <3>1. InLoop => answer.kind # "garbled"
        BY <1>6 DEF Settle, AllBlocked
      <3> QED
        BY <2>1, <3>1, AnswerFacts
    <2> QED
      BY <2>1, <2>2 DEF text
  <1> QED
    BY <1>1, <1>2, <1>3, <1>4, <1>5, <1>6, <1>7, <1>8 DEF Next, LoopStep

(* The loop does not end with a blank analysis when an earlier answer had  *)
(* one, unless the next prompt no longer fits.                             *)
THEOREM AnalysisIsKept == Spec => []AnalysisKept
PROOF
  <1>1. Init => Kept
    BY DEF Init, Kept, AnalysisKept
  <1>2. Kept => AnalysisKept
    BY DEF Kept
  <1> QED
    BY <1>1, <1>2, TypesInit, TypesNext, KeptNext, PTL DEF Spec

---------------------------------------------------------------------------
(* The sources.  Those kept were located at the model's request, one of    *)
(* every symbol that had one located, and a prompt that is to be sent, or  *)
(* that may be sent again after the knowledge revision, covers them.       *)
Located == {r \in Requests : ledger[r] = "located"}

Sources ==
  /\ retained \subseteq Located /\ SymbolsOf(retained) = SymbolsOf(Located)
  /\ at \in {"top", "asked", "knowledge"} => Covers(prompt, retained)

(* Every step of the loop keeps Sources. *)
LEMMA SourcesNext == TInv /\ Sources /\ [Next]_loopVars => Sources'
PROOF
  <1> SUFFICES ASSUME TInv, Sources, [Next]_loopVars PROVE Sources'
    OBVIOUS
  <1> USE DEF Sources
  <1>0. None \in Revisions \cup {None} /\ retained \in SUBSET Requests
    BY DEF TInv, LoopTypeOK
  <1>1. CASE UNCHANGED loopVars \/ Ask \/ NoObjection \/ \E a \in Answers : Receive(a)
    BY <1>1 DEF Ask, ReadyToAsk, NoObjection, Receive, loopVars, engine, Located, Covers
  <1>2. CASE Start
    <2>1. Located' = Located
      <3>1. CASE ledger' = ledger
        BY <3>1 DEF Located
      <3>2. ASSUME NEW found \in SUBSET FirstOf(Knowledge), Resolve(FirstOf(Knowledge), found, "prefetched")
            PROVE  Located' = Located
        BY <3>2 DEF Resolve, New, Located, TInv, LoopTypeOK
      <3> QED
        BY <1>2, <3>1, <3>2 DEF Start
    <2>2. retained' = {}
      BY <1>2 DEF Start, TInv, Slots
    <2> QED
      BY <1>2, <2>1, <2>2 DEF Start, Covers, TInv, Slots
  <1>3. CASE Announce
    <2>1. Located' = Located /\ retained' = retained
      BY <1>3 DEF Announce, engine, Located
    <2>2. Covers(prompt', retained)
      BY <1>0, <1>3, BuiltPrompt DEF Announce
    <2> QED
      BY <2>1, <2>2
  <1>4. CASE TooLong \/ SettleFinal \/ Settle \/ \E why \in {"llm_budget_exhausted", "llm_error"} : CallFails(why)
    BY <1>4 DEF TooLong, SettleFinal, Settle, Finish, CallFails, engine, Located
  <1>5. CASE ReviseKnowledge
    <2>1. PICK found \in (SUBSET New(FirstOf(Missing))) \ {{}} :
            /\ Resolve(FirstOf(Missing), found, "prefetched")
            /\ prompt' = [prompt EXCEPT !.written = @ \cup SymbolsOf(found), !.feedback = "knowledge"]
      BY <1>5 DEF ReviseKnowledge
    <2>2. Located' = Located
      BY <2>1 DEF Resolve, New, Located, TInv, LoopTypeOK
    <2>3. retained' = retained /\ at = "knowledge"
      BY <1>5 DEF ReviseKnowledge
    <2>4. /\ prompt'.shown = prompt.shown /\ prompt'.withheld = prompt.withheld
          /\ prompt'.cut = prompt.cut /\ prompt'.stop = prompt.stop
      BY <2>1 DEF TInv, LoopTypeOK, Prompts
    <2> QED
      BY <2>2, <2>3, <2>4 DEF Covers
  <1>6. CASE KnowledgeInPlace
    <2>1. Located' = Located
      <3>1. CASE ledger' = ledger
        BY <3>1 DEF Located
      <3>2. CASE Resolve(FirstOf(Missing), {}, "prefetched")
        BY <3>2 DEF Resolve, New, Located, TInv, LoopTypeOK
      <3> QED
        BY <1>6, <3>1, <3>2 DEF KnowledgeInPlace
    <2> QED
      BY <1>6, <2>1 DEF KnowledgeInPlace
  <1>7. CASE ReviseAnswer
    <2>1. answer.flaw \in Revisions \cup {None}
      BY <1>7, AnswerFacts DEF ReviseAnswer, TInv, Slots, Revisions
    <2>2. /\ (round + 1 >= MaxRounds - 1) \in BOOLEAN
          /\ prompt' \in BuildPrompt(round + 1 >= MaxRounds - 1, answer.flaw, retained)
      BY <1>7 DEF ReviseAnswer, TInv, LoopTypeOK
    <2>3. Covers(prompt', retained)
      BY <1>0, <2>1, <2>2, BuiltPrompt
    <2> QED
      BY <1>7, <2>3 DEF ReviseAnswer, engine, Located
  <1>8. CASE SettleInvalid
    <2>1. Covers(prompt', retained)
      BY <1>0, <1>8, BuiltPrompt DEF SettleInvalid
    <2> QED
      BY <1>8, <2>1 DEF SettleInvalid, engine, Located
  <1>9. CASE AllBlocked
    <2>1. Located' = Located
      BY <1>9 DEF AllBlocked, Resolve, New, Located, TInv, LoopTypeOK
    <2> QED
      BY <1>9, <2>1 DEF AllBlocked
  <1>10. CASE Supply
    <2>1. PICK found \in (SUBSET New(answer.requests)) \ {{}} :
            /\ Resolve(answer.requests, found, "located")
            /\ Remember(found)
      BY <1>10 DEF Supply
    <2>2. answer.requests \subseteq Requests
      BY <1>10, AnswerFacts DEF Supply, TInv, Slots
    <2>3. Located' = Located \cup found
      BY <2>1, <2>2 DEF Resolve, New, Located, TInv, LoopTypeOK
    <2>4. (force' # None) \in BOOLEAN /\ retained' \in SUBSET Requests
          /\ prompt' \in BuildPrompt(force' # None, None, retained')
      BY <1>10, TypesNext DEF Supply, TInv, LoopTypeOK
    <2>5. Covers(prompt', retained')
      BY <1>0, <2>4, BuiltPrompt
    <2>6. /\ retained' \subseteq retained \cup found
          /\ SymbolsOf(retained') = SymbolsOf(retained) \cup SymbolsOf(found)
      <3>1. found \in SUBSET Requests
        BY <2>1, <2>2 DEF New
      <3> QED
        BY <1>0, <2>1, <3>1, Remembered
    <2>7. SymbolsOf(Located') = SymbolsOf(Located) \cup SymbolsOf(found)
      BY <2>3 DEF SymbolsOf
    <2> QED
      BY <2>3, <2>5, <2>6, <2>7
  <1> QED
    BY <1>1, <1>2, <1>3, <1>4, <1>5, <1>6, <1>7, <1>8, <1>9, <1>10 DEF Next, LoopStep

(* Of every symbol that the model's requests have located a source of, one *)
(* is in every later prompt, or it is named there, unless the prompt was   *)
(* cut so far that none is.                                                *)
THEOREM SuppliedStaysReadable == Spec => []RequestedStaysReadable
PROOF
  <1>1. Init => Sources
    BY DEF Init, Sources, Located
  <1>2. TInv /\ Sources => RequestedStaysReadable
    <2> SUFFICES ASSUME TInv, Sources, at = "asked"
                 PROVE  LET told == SymbolsOf(Located \cap (prompt.shown \cup prompt.withheld))
                        IN  told = SymbolsOf(Located) \/ (prompt.cut /\ told = {})
      BY DEF RequestedStaysReadable, Located
    <2>1. ~prompt.stop /\ Covers(prompt, retained)
      BY DEF TInv, Slots, Sources
    <2>2. CASE retained \subseteq prompt.shown \cup prompt.withheld
      <3>1. /\ retained \subseteq Located \cap (prompt.shown \cup prompt.withheld)
            /\ SymbolsOf(retained) = SymbolsOf(Located)
        BY <2>2 DEF Sources
      <3> QED
        BY <3>1 DEF SymbolsOf
    <2>3. CASE prompt.cut /\ prompt.shown = {} /\ prompt.withheld = {}
      BY <2>3 DEF SymbolsOf
    <2> QED
      BY <2>1, <2>2, <2>3 DEF Covers
  <1> QED
    BY <1>1, <1>2, TypesInit, TypesNext, SourcesNext, PTL DEF Spec
---------------------------------------------------------------------------
(* The objections.  What sent the loop back is in the prompt from the      *)
(* moment it is built; only the last slot builds another one.              *)
Noted ==
  at \in {"top", "asked"} /\ revised # None /\ ~prompt.cut /\ ~prompt.stop /\ ~LastSlot =>
    prompt.feedback = revised

(* Every step of the loop keeps Noted. *)
LEMMA NotedNext == TInv /\ Noted /\ [Next]_loopVars => Noted'
PROOF
  <1> SUFFICES ASSUME TInv, Noted, [Next]_loopVars PROVE Noted'
    OBVIOUS
  <1>1. CASE UNCHANGED loopVars \/ Ask
    BY <1>1 DEF Ask, ReadyToAsk, Noted, LastSlot, loopVars, session
  <1>2. CASE Start \/ SettleInvalid \/ Supply
    <2>1. revised' = None
      BY <1>2 DEF Start, SettleInvalid, Supply, TInv, Slots
    <2> QED
      BY <2>1 DEF Noted
  <1>3. CASE Announce
    BY <1>3 DEF Announce, Noted, LastSlot
  <1>4. CASE TooLong \/ SettleFinal \/ Settle \/ AllBlocked \/ KnowledgeInPlace \/ NoObjection
             \/ (\E a \in Answers : Receive(a))
             \/ \E why \in {"llm_budget_exhausted", "llm_error"} : CallFails(why)
    <2>1. at' \notin {"top", "asked"}
      <3>1. CASE TooLong \/ SettleFinal \/ Settle \/ AllBlocked
        BY <3>1 DEF TooLong, SettleFinal, Settle, AllBlocked, Finish
      <3> QED
        BY <1>4, <3>1 DEF KnowledgeInPlace, NoObjection, Receive, CallFails
    <2> QED
      BY <2>1 DEF Noted
  <1>5. CASE ReviseKnowledge
    <2>1. PICK found \in (SUBSET New(FirstOf(Missing))) \ {{}} :
            prompt' = [prompt EXCEPT !.written = @ \cup SymbolsOf(found), !.feedback = "knowledge"]
      BY <1>5 DEF ReviseKnowledge
    <2>2. prompt'.feedback = "knowledge" /\ revised' = "knowledge"
      BY <1>5, <2>1 DEF ReviseKnowledge, TInv, LoopTypeOK, Prompts
    <2> QED
      BY <2>2 DEF Noted
  <1>6. CASE ReviseAnswer
    <2>1. answer.flaw \in Revisions \cup {None}
      BY <1>6, AnswerFacts DEF ReviseAnswer, TInv, Slots, Revisions
    <2>2. /\ (round + 1 >= MaxRounds - 1) \in BOOLEAN
          /\ retained \in SUBSET Requests
          /\ prompt' \in BuildPrompt(round + 1 >= MaxRounds - 1, answer.flaw, retained)
      BY <1>6 DEF ReviseAnswer, TInv, LoopTypeOK
    <2>3. prompt'.stop \/ prompt'.cut \/ prompt'.feedback = answer.flaw
      <3>1. \A final \in BOOLEAN, f \in Revisions \cup {None} :
              \A p \in BuildPrompt(final, f, retained) : p.stop \/ p.cut \/ p.feedback = f
        BY <2>2, BuiltPrompt
      <3> QED
        BY <2>1, <2>2, <3>1
    <2> QED
      BY <1>6, <2>3 DEF ReviseAnswer, Noted
  <1> QED
    BY <1>1, <1>2, <1>3, <1>4, <1>5, <1>6 DEF Next, LoopStep

(* What a check objected to is in the prompt the model is asked with next, *)
(* if everything fits and it is not the last one.                          *)
THEOREM ObjectionsArrive == Spec => []FeedbackReachesModel
PROOF
  <1>1. Init => Noted
    BY DEF Init, Noted
  <1>2. TInv /\ Noted => FeedbackReachesModel
    BY DEF TInv, Slots, Noted, FeedbackReachesModel
  <1> QED
    BY <1>1, <1>2, TypesInit, TypesNext, NotedNext, PTL DEF Spec

-----------------------------------------------------------------------------
(* THE STAGE *)


(* A step of the stage is a step of the loop or none of it. *)
LEMMA StageStepIsLoopStep ==
  ASSUME [StageNext]_vars
  PROVE  [Next]_loopVars
PROOF
  <1>1. CASE Loop
    BY <1>1 DEF Loop, Next
  <1>2. CASE AskModel
    BY <1>2 DEF AskModel, Next
  <1>3. CASE Attempt
    BY <1>3 DEF Attempt
  <1>4. CASE Answered
    <2>1. \E a \in Answers : Receive(a)
      BY <1>4 DEF Answered
    <2> QED
      BY <2>1 DEF Next
  <1>5. CASE Failed
    <2>1. \E why \in {"llm_budget_exhausted", "llm_error"} : CallFails(why)
      BY <1>5 DEF Failed
    <2> QED
      BY <2>1 DEF Next
  <1>6. CASE UNCHANGED vars
    BY <1>6 DEF vars
  <1> QED
    BY <1>1, <1>2, <1>3, <1>4, <1>5, <1>6 DEF StageNext

(* The stage implements the loop: whatever is true of every behaviour of   *)
(* the loop is true of the stage.                                          *)
THEOREM StageIsLoop == StageSpec => Spec
PROOF
  <1>1. StageInit => Init
    BY DEF StageInit
  <1>2. [StageNext]_vars => [Next]_loopVars
    BY StageStepIsLoopStep
  <1> QED
    BY <1>1, <1>2, PTL DEF StageSpec, Spec

---------------------------------------------------------------------------
(* Of two replies the longer one is kept: an analysis is, if there is one. *)
LEMMA LongerIsAnalysis ==
  ASSUME NEW r \in Replies \cup {"none"}, NEW s \in Replies
  PROVE  /\ Longer(r, s) \in Replies \cup {"none"}
         /\ Longer(r, s) = "analysis" <=> r = "analysis" \/ s = "analysis"
PROOF
  <1>1. /\ Length("none") = 1 /\ Length("empty") = 2 /\ Length("scrap") = 3
        /\ Length("busy") = 4 /\ Length("analysis") = 5
    <2>1. Len(Lengths) = 5
      BY DEF Lengths
    <2>2. /\ Lengths[1] = "none" /\ Lengths[2] = "empty" /\ Lengths[3] = "scrap"
          /\ Lengths[4] = "busy" /\ Lengths[5] = "analysis"
      BY DEF Lengths
    <2>3. 1..5 = {1, 2, 3, 4, 5}
      OBVIOUS
    <2> QED
      BY <2>1, <2>2, <2>3 DEF Length
  <1> QED
    BY <1>1 DEF Longer, Replies

Limits == {"floor", "raised", "ceiling", "default"}

(* What a request knows.  While it goes on its best reply is an analysis   *)
(* once one was heard; each switch was to an endpoint not tried before, so *)
(* that there are fewer switches than endpoints tried; and in fixed mode   *)
(* all endpoints are of one provider.                                      *)
CallInv ==
  /\ CallTypeOK
  /\ attempts \in Seq(Limits)
  /\ selected \in tried
  /\ router.mode = "fixed" /\ router.failover =>
       \A e \in pool, f \in pool : Provider[e] = Provider[f]
  /\ router.failover => router.mode \in {"fixed", "auto"}
  /\ step \in {"attempt", "judge"} =>
       /\ heard = "analysis" => best = "analysis"
       /\ switches < Cardinality(tried)
       /\ ~router.failover => switches = 0
  /\ ReplyKept /\ FailoverExhausts

(* The pool and what was tried of it are finite, and the bound on the      *)
(* switches is not less than the number of endpoints tried.                *)
LEMMA PoolFacts ==
  ASSUME NEW S \in SUBSET pool, pool \in SUBSET Endpoints
  PROVE  /\ IsFiniteSet(S) /\ IsFiniteSet(pool)
         /\ Cardinality(S) \in Nat /\ Cardinality(pool) \in Nat
         /\ Cardinality(S) <= Cardinality(pool)
         /\ Cardinality(pool) <= Cardinality(Endpoints)
         /\ Cardinality(Endpoints) \in Nat
         /\ S # {} => Cardinality(S) > 0
         /\ \A e \in pool \ S : Cardinality(S \cup {e}) = Cardinality(S) + 1
PROOF
  <1>1. IsFiniteSet(Endpoints)
    BY CallAssumption
  <1>2. IsFiniteSet(pool) /\ Cardinality(pool) <= Cardinality(Endpoints)
    BY <1>1, FS_Subset
  <1>3. IsFiniteSet(S) /\ Cardinality(S) <= Cardinality(pool)
    BY <1>2, FS_Subset
  <1>4. Cardinality(S) \in Nat /\ Cardinality(pool) \in Nat /\ Cardinality(Endpoints) \in Nat
    BY <1>1, <1>2, <1>3, FS_CardinalityType
  <1>5. S # {} => Cardinality(S) > 0
    BY <1>3, <1>4, FS_EmptySet
  <1>6. \A e \in pool \ S : Cardinality(S \cup {e}) = Cardinality(S) + 1
    BY <1>3, FS_AddElement
  <1> QED
    BY <1>2, <1>3, <1>4, <1>5, <1>6

---------------------------------------------------------------------------
(* The first request has all of it to come. *)
LEMMA CallStarts == CallInit => CallInv
PROOF
  <1> SUFFICES ASSUME CallInit PROVE CallInv
    OBVIOUS
  <1>1. /\ selected \in Endpoints /\ adapter = selected /\ tried = {selected}
        /\ llmCalls = 0 /\ overspent = FALSE /\ step = "idle" /\ attempts = <<>>
        /\ best = "none" /\ cause = "none" /\ switches = 0 /\ retries = 0 /\ heard = "none"
        /\ router.mode \in {"none", "fixed", "auto"}
        /\ router.mode = "auto" => router.failover
        /\ router.mode = "none" => ~router.failover
        /\ down \subseteq Endpoints \ {selected}
        /\ router.mode # "auto" => down = {}
    BY DEF CallInit
  <1>2. pool = {e \in Endpoints :
                  \/ e = selected \/ router.mode = "auto"
                  \/ router.failover /\ Provider[e] = Provider[selected]}
    BY DEF CallInit
  <1>3. selected \in pool /\ pool \subseteq Endpoints
    BY <1>1, <1>2
  <1>4. down \subseteq pool
    BY <1>1, <1>2
  <1>5. Cardinality(Endpoints) \in Nat
    BY CallAssumption, FS_CardinalityType
  <1>6. MaxCalls \in Nat
    BY CallAssumption
  <1>7. CallTypeOK
    <2>1. llmCalls \in 0..(MaxCalls + 1) /\ switches \in 0..Cardinality(Endpoints) /\ retries \in 0..1
      BY <1>1, <1>5, <1>6
    <2>2. overspent \in BOOLEAN
      BY <1>1
    <2>3. tried \subseteq pool /\ adapter \in Endpoints
      BY <1>1, <1>3
    <2> QED
      BY <1>1, <1>3, <1>4, <2>1, <2>2, <2>3 DEF CallTypeOK
  <1>8. router.mode = "fixed" /\ router.failover =>
          \A e \in pool, f \in pool : Provider[e] = Provider[f]
    BY <1>2
  <1>9. router.failover => router.mode \in {"fixed", "auto"}
    BY <1>1
  <1>10. ReplyKept /\ FailoverExhausts
    BY <1>1 DEF ReplyKept, FailoverExhausts
  <1> QED
    BY <1>1, <1>7, <1>8, <1>9, <1>10 DEF CallInv

(* A series begins with the whole ladder and nothing heard. *)
LEMMA SeriesStarts ==
  ASSUME StartSeries
  PROVE  /\ attempts' \in Seq(Limits) /\ attempts' # <<>>
         /\ best' = "none" /\ cause' = "none"
BY CallAssumption DEF StartSeries, Limits

(* A new choice is in the pool, and is counted among those that were tried. *)
LEMMA ReResolved ==
  ASSUME CallInv, ReResolve
  PROVE  selected' \in tried' /\ tried' \subseteq pool /\ adapter' \in Endpoints
PROOF
  <1>1. selected \in tried /\ tried \subseteq pool /\ adapter \in Endpoints
        /\ pool \subseteq Endpoints
    BY DEF CallInv, CallTypeOK
  <1>2. CASE UNCHANGED <<selected, adapter, tried>>
    BY <1>1, <1>2
  <1>3. CASE \E e \in IF pool \subseteq down THEN {selected} ELSE pool \ down :
               Apply(e) /\ tried' = tried \cup {e}
    BY <1>1, <1>3 DEF Apply
  <1> QED
    BY <1>2, <1>3 DEF ReResolve

(* A request begins with nothing heard and nothing tried. *)
LEMMA BeginKeeps ==
  ASSUME CallInv, Begin
  PROVE  CallInv'
PROOF
  <1>1. selected' \in tried' /\ tried' \subseteq pool /\ adapter' \in Endpoints
    BY ReResolved DEF Begin
  <1>2. /\ attempts' \in Seq(Limits) /\ attempts' # <<>>
        /\ best' = "none" /\ cause' = "none"
    BY SeriesStarts DEF Begin
  <1>3. /\ switches' = 0 /\ retries' = 1 /\ heard' = "none" /\ step' = "attempt"
        /\ router' = router /\ pool' = pool /\ down' = down
        /\ llmCalls' = llmCalls /\ overspent' = overspent
    BY DEF Begin, budget
  <1>4. pool \subseteq Endpoints
    BY DEF CallInv, CallTypeOK
  <1>5. 0 < Cardinality(tried') /\ 0 \in 0..Cardinality(Endpoints)
    BY <1>1, <1>4, PoolFacts
  <1>6. CallTypeOK'
    BY <1>1, <1>2, <1>3, <1>5 DEF CallInv, CallTypeOK
  <1> QED
    BY <1>1, <1>2, <1>3, <1>5, <1>6 DEF CallInv, ReplyKept, FailoverExhausts

(* What the end of an attempt leaves to be tried. *)
LEMMA AttemptEnds ==
  ASSUME NEW rest \in Seq(Limits), GoOn(rest)
  PROVE  /\ attempts' \in Seq(Limits) /\ first' = FALSE
         /\ step' \in {"attempt", "judge"} /\ (step' = "attempt" => attempts' # <<>>)
BY DEF GoOn

(* An attempt, whatever comes of it, keeps an analysis that was heard. *)
LEMMA AttemptKeeps ==
  ASSUME CallInv, step = "attempt", UNCHANGED <<routing, switches, retries>>,
         llmCalls' \in 0..(MaxCalls + 1), overspent' \in BOOLEAN,
         best' \in Replies \cup {"none"}, heard' \in Replies \cup {"none"},
         cause' \in Failures \cup {"none"},
         heard' = "analysis" => best' = "analysis",
         NEW rest \in Seq(Limits), GoOn(rest)
  PROVE  CallInv'
PROOF
  <1>1. /\ router' = router /\ pool' = pool /\ selected' = selected /\ adapter' = adapter
        /\ down' = down /\ tried' = tried /\ switches' = switches /\ retries' = retries
    BY DEF routing
  <1>2. /\ attempts' \in Seq(Limits) /\ step' \in {"attempt", "judge"}
        /\ step' = "attempt" => attempts' # <<>>
    BY AttemptEnds
  <1>3. CallTypeOK'
    BY <1>1, <1>2 DEF CallInv, CallTypeOK
  <1> QED
    BY <1>1, <1>2, <1>3 DEF CallInv, ReplyKept, FailoverExhausts

(* The calls stay within one over the limit. *)
LEMMA CallsCounted ==
  ASSUME CallInv, ~OverLimit
  PROVE  Counted \in 0..(MaxCalls + 1)
BY CallAssumption DEF CallInv, CallTypeOK, Counted, OverLimit

(* An attempt that the limits refuse leaves what was heard as it is. *)
LEMMA RefusedKeeps ==
  ASSUME CallInv, AttemptRefused
  PROVE  CallInv'
PROOF
  <1>1. Tail(attempts) \in Seq(Limits)
    BY DEF CallInv, CallTypeOK, AttemptRefused
  <1>2. llmCalls' \in 0..(MaxCalls + 1)
    BY CallAssumption DEF AttemptRefused
  <1> QED
    BY <1>1, <1>2, AttemptKeeps
       DEF AttemptRefused, CallInv, CallTypeOK, request, Failures

(* An attempt that raises keeps what earlier ones heard. *)
LEMMA RaisesKeeps ==
  ASSUME CallInv, AttemptRaises
  PROVE  CallInv'
PROOF
  <1>1. Tail(attempts) \in Seq(Limits)
    BY DEF CallInv, CallTypeOK, AttemptRaises
  <1>2. llmCalls' \in 0..(MaxCalls + 1)
    BY CallsCounted DEF AttemptRaises
  <1>3. overspent' \in BOOLEAN
    BY DEF AttemptRaises
  <1>4. cause' \in Failures
    BY DEF AttemptRaises
  <1> QED
    BY <1>1, <1>2, <1>3, <1>4, AttemptKeeps
       DEF AttemptRaises, CallInv, CallTypeOK, request

(* An attempt that is answered keeps the longer of the two replies. *)
LEMMA AnsweredKeeps ==
  ASSUME CallInv, AttemptAnswered
  PROVE  CallInv'
PROOF
  <1>1. Tail(attempts) \in Seq(Limits) /\ Head(attempts) \in Limits
    BY DEF CallInv, CallTypeOK, AttemptAnswered
  <1>2. llmCalls' \in 0..(MaxCalls + 1)
    BY CallsCounted DEF AttemptAnswered
  <1>3. PICK reply \in Replies, stop \in {"cut", "looks_cut", "complete"} :
          /\ best' = Longer(best, reply)
          /\ heard' = IF reply = "busy" THEN heard ELSE Longer(heard, reply)
          /\ CASE stop = "cut" -> GoOn(AfterCut)
               [] stop = "looks_cut" /\ Head(attempts) # "default" -> GoOn(Tail(attempts))
               [] OTHER -> GoOn(<<>>)
    BY DEF AttemptAnswered
  <1>4. best \in Replies \cup {"none"} /\ heard \in Replies \cup {"none"}
        /\ (heard = "analysis" => best = "analysis")
    BY DEF CallInv, CallTypeOK, AttemptAnswered
  <1>5. best' \in Replies \cup {"none"} /\ heard' \in Replies \cup {"none"}
        /\ (heard' = "analysis" => best' = "analysis")
    BY <1>3, <1>4, LongerIsAnalysis
  <1>6. AfterCut \in Seq(Limits) /\ <<>> \in Seq(Limits)
    <2>1. <<"ceiling">> \in Seq(Limits) /\ <<>> \in Seq(Limits)
      BY DEF Limits
    <2> QED
      BY <2>1 DEF AfterCut
  <1>7. \E rest \in Seq(Limits) : GoOn(rest)
    BY <1>1, <1>3, <1>6
  <1> QED
    BY <1>2, <1>5, <1>7, AttemptKeeps DEF AttemptAnswered, CallInv, CallTypeOK

(* A request that ends well has an analysis if one was heard. *)
LEMMA SucceedKeeps ==
  ASSUME CallInv, Succeed
  PROVE  CallInv'
PROOF
  <1>1. /\ router' = router /\ pool' = pool /\ selected' = selected /\ adapter' = adapter
        /\ tried' = tried /\ llmCalls' = llmCalls /\ overspent' = overspent
        /\ attempts' = attempts /\ best' = best /\ cause' = cause /\ switches' = switches
        /\ retries' = retries /\ heard' = heard /\ step' = "ok" /\ step = "judge"
    BY DEF Succeed, budget, series, request
  <1>2. down' \subseteq down
    BY DEF Succeed
  <1>3. CallTypeOK'
    BY <1>1, <1>2 DEF CallInv, CallTypeOK
  <1> QED
    BY <1>1, <1>3 DEF CallInv, ReplyKept, FailoverExhausts

(* The one repetition on the same endpoint hears a new series of attempts. *)
LEMMA RetryKeeps ==
  ASSUME CallInv, RetrySameModel
  PROVE  CallInv'
PROOF
  <1>1. /\ router' = router /\ pool' = pool /\ selected' = selected /\ adapter' = adapter
        /\ tried' = tried /\ down' = down /\ llmCalls' = llmCalls /\ overspent' = overspent
        /\ switches' = switches /\ heard' = heard /\ step' = "attempt" /\ step = "judge"
        /\ best \in {"none", "busy"}
    BY DEF RetrySameModel, Unanswered, routing, budget
  <1>2. /\ attempts' \in Seq(Limits) /\ attempts' # <<>>
        /\ best' = "none" /\ cause' = "none"
    BY SeriesStarts DEF RetrySameModel
  <1>3. retries' \in 0..1
    BY DEF RetrySameModel, CallInv, CallTypeOK
  <1>4. heard # "analysis"
    BY <1>1 DEF CallInv
  <1>5. CallTypeOK'
    BY <1>1, <1>2, <1>3 DEF CallInv, CallTypeOK
  <1> QED
    BY <1>1, <1>2, <1>4, <1>5 DEF CallInv, ReplyKept, FailoverExhausts

(* The pool that is left to switch to. *)
LEMMA CandidateFacts ==
  ASSUME CallInv
  PROVE  /\ TriedNow \subseteq pool /\ tried \subseteq TriedNow
         /\ Candidates \subseteq pool \ TriedNow
         /\ ~router.failover => Candidates = {}
         /\ router.failover /\ Candidates = {} => pool \subseteq TriedNow \cup DownNow
PROOF
  <1>1. tried \subseteq pool /\ selected \in pool
    BY DEF CallInv, CallTypeOK
  <1>2. TriedNow \subseteq pool /\ tried \subseteq TriedNow
    BY <1>1 DEF TriedNow
  <1>3. Candidates \subseteq pool \ TriedNow
    BY DEF Candidates
  <1>4. ~router.failover => Candidates = {}
    BY DEF Candidates
  <1>5. ASSUME router.failover, Candidates = {} PROVE pool \subseteq TriedNow \cup DownNow
    <2>1. CASE Cause = "auth" /\ router.mode = "fixed"
      <3>1. \A e \in pool : Provider[e] = Provider[selected]
        BY <1>1, <1>5, <2>1 DEF CallInv
      <3> QED
        BY <2>1, <3>1 DEF TriedNow
    <2>2. CASE ~(Cause = "auth" /\ router.mode = "fixed")
      BY <1>5, <2>2 DEF Candidates
    <2> QED
      BY <2>1, <2>2
  <1> QED
    BY <1>2, <1>3, <1>4, <1>5

(* A request that fails over, or gives up. *)
LEMMA FailoverKeeps ==
  ASSUME CallInv, Failover
  PROVE  CallInv'
PROOF
  <1>1. /\ router' = router /\ pool' = pool /\ llmCalls' = llmCalls
        /\ overspent' = overspent /\ heard' = heard /\ retries' = 1 /\ step = "judge"
        /\ best \in {"none", "busy"}
        /\ down' = IF router.failover THEN DownNow ELSE down
    BY DEF Failover, Unanswered, budget
  <1>2. /\ pool \subseteq Endpoints /\ selected \in pool /\ tried \subseteq pool
        /\ adapter \in Endpoints /\ selected \in tried /\ down \subseteq pool
        /\ switches \in 0..Cardinality(Endpoints) /\ switches < Cardinality(tried)
        /\ heard # "analysis" /\ heard \in Replies \cup {"none"}
    BY <1>1 DEF CallInv, CallTypeOK
  <1>3. down' \subseteq pool
    BY <1>1, <1>2 DEF DownNow
  <1>4. CASE \E e \in Candidates :
               /\ Apply(e)
               /\ tried' = TriedNow \cup {e}
               /\ switches' = switches + 1
               /\ StartSeries
               /\ step' = IF switches' < MaxSwitches THEN "attempt" ELSE "failed"
    <2>1. PICK e \in Candidates :
               /\ Apply(e)
               /\ tried' = TriedNow \cup {e}
               /\ switches' = switches + 1
               /\ StartSeries
               /\ step' = IF switches' < MaxSwitches THEN "attempt" ELSE "failed"
      BY <1>4
    <2>2. router.failover /\ e \in pool \ TriedNow
      BY <2>1, CandidateFacts
    <2>3. selected' = e /\ adapter' \in Endpoints /\ e \in tried' /\ tried' \subseteq pool
      BY <1>2, <2>1, <2>2, CandidateFacts DEF Apply
    <2>4. tried \cup {e} \subseteq tried' /\ e \in pool \ tried
      BY <2>1, <2>2, CandidateFacts
    <2>5. /\ Cardinality(tried \cup {e}) = Cardinality(tried) + 1
          /\ Cardinality(tried) \in Nat
      BY <1>2, <2>4, PoolFacts
    <2>6. /\ Cardinality(tried \cup {e}) <= Cardinality(tried')
          /\ Cardinality(tried') \in Nat
      <3>1. IsFiniteSet(tried')
        BY <1>2, <2>3, PoolFacts
      <3> QED
        BY <2>4, <3>1, FS_Subset, FS_CardinalityType
    <2>7. /\ Cardinality(tried') <= Cardinality(pool) /\ Cardinality(pool) \in Nat
          /\ Cardinality(pool) <= Cardinality(Endpoints) /\ Cardinality(Endpoints) \in Nat
      BY <1>2, <2>3, PoolFacts
    <2>8. /\ switches' < Cardinality(tried') /\ switches' < Cardinality(pool)
          /\ switches' \in 0..Cardinality(Endpoints)
      BY <1>2, <2>1, <2>5, <2>6, <2>7
    <2>9. step' = "attempt"
      BY <2>1, <2>2, <2>8 DEF MaxSwitches
    <2>10. /\ attempts' \in Seq(Limits) /\ attempts' # <<>>
           /\ best' = "none" /\ cause' = "none"
      BY <2>1, SeriesStarts
    <2>11. CallTypeOK'
      BY <1>1, <1>2, <1>3, <2>2, <2>3, <2>8, <2>9, <2>10 DEF CallInv, CallTypeOK
    <2> QED
      BY <1>1, <1>2, <2>2, <2>3, <2>8, <2>9, <2>10, <2>11 DEF CallInv, ReplyKept, FailoverExhausts
  <1>5. CASE /\ Candidates = {}
             /\ tried' = IF router.failover THEN TriedNow ELSE tried
             /\ cause' = Cause
             /\ step' = "failed"
             /\ UNCHANGED <<selected, adapter, switches, attempts, first, lower, best>>
    <2>1. tried' \subseteq pool /\ selected \in tried'
      BY <1>2, <1>5, CandidateFacts
    <2>2. Cause \in Failures \cup {"none"}
      BY DEF Cause, CallInv, CallTypeOK, Failures
    <2>3. CallTypeOK'
      BY <1>1, <1>2, <1>3, <1>5, <2>1, <2>2 DEF CallInv, CallTypeOK
    <2>4. FailoverExhausts'
      <3>1. router.failover => pool \subseteq TriedNow \cup DownNow /\ selected \in DownNow
        BY <1>5, CandidateFacts DEF DownNow
      <3> QED
        BY <1>1, <1>5, <3>1 DEF FailoverExhausts
    <2>5. ReplyKept'
      BY <1>1, <1>2 DEF ReplyKept
    <2> QED
      BY <1>1, <1>2, <1>5, <2>1, <2>3, <2>4, <2>5 DEF CallInv
  <1> QED
    BY <1>4, <1>5 DEF Failover

(* The outcome is taken. *)
LEMMA OverKeeps ==
  ASSUME CallInv, CallOver
  PROVE  CallInv'
PROOF
  <1>1. /\ router' = router /\ pool' = pool /\ selected' = selected /\ adapter' = adapter
        /\ down' = down /\ tried' = tried /\ llmCalls' = llmCalls /\ overspent' = overspent
        /\ step' = "idle" /\ attempts' = <<>> /\ best' = "none" /\ cause' = "none"
        /\ switches' = 0 /\ retries' = 0 /\ heard' = "none"
    BY DEF CallOver, routing, budget
  <1>2. 0 \in 0..Cardinality(Endpoints)
    BY CallAssumption, FS_CardinalityType
  <1>3. CallTypeOK'
    BY <1>1, <1>2 DEF CallInv, CallTypeOK
  <1> QED
    BY <1>1, <1>3 DEF CallInv, ReplyKept, FailoverExhausts

(* Every step of the stage keeps what the request knows. *)
LEMMA CallNext == CallInv /\ [StageNext]_vars => CallInv'
PROOF
  <1> SUFFICES ASSUME CallInv, [StageNext]_vars PROVE CallInv'
    OBVIOUS
  <1>1. CASE UNCHANGED callVars
    BY <1>1 DEF callVars, routing, budget, series, request, CallInv, CallTypeOK,
                ReplyKept, FailoverExhausts
  <1>2. CASE Attempt
    BY <1>2, RefusedKeeps, RaisesKeeps, AnsweredKeeps, SucceedKeeps, RetryKeeps, FailoverKeeps
       DEF Attempt, CallStep
  <1>3. CASE AskModel
    BY <1>3, BeginKeeps DEF AskModel
  <1>4. CASE Answered \/ Failed
    BY <1>4, OverKeeps DEF Answered, Failed
  <1> QED
    BY <1>1, <1>2, <1>3, <1>4 DEF StageNext, Loop, vars

(* What the request knows holds of every state of the stage. *)
LEMMA CallInvariant == StageSpec => []CallInv
PROOF
  <1>1. StageInit => CallInv
    BY CallStarts DEF StageInit
  <1> QED
    BY <1>1, CallNext, PTL DEF StageSpec

---------------------------------------------------------------------------
(* The variables of the loop and of the request have their types. *)
THEOREM StageTypes == StageSpec => []StageTypeOK
PROOF
  <1>1. CallInv => CallTypeOK
    BY DEF CallInv
  <1>2. LoopTypeOK /\ CallTypeOK => StageTypeOK
    BY DEF StageTypeOK
  <1> QED
    BY <1>1, <1>2, CallInvariant, StageIsLoop, LoopTypes, PTL

(* A request that has received an analysis ends well, with it. *)
THEOREM RepliesAreKept == StageSpec => []ReplyKept
PROOF
  <1>1. CallInv => ReplyKept
    BY DEF CallInv
  <1> QED
    BY <1>1, CallInvariant, PTL

(* With failover a request gives up only when no endpoint is left. *)
THEOREM AllEndpointsTried == StageSpec => []FailoverExhausts
PROOF
  <1>1. CallInv => FailoverExhausts
    BY DEF CallInv
  <1> QED
    BY <1>1, CallInvariant, PTL
=============================================================================
