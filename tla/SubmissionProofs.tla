-------------------------- MODULE SubmissionProofs --------------------------
(***************************************************************************)
(* What holds of Submission for every set of requests and bodies.          *)
(***************************************************************************)
EXTENDS Submission, TLAPS

(* Only an answered request has an answer. *)
AnsweredLast == \A q \in Requests : pc[q] # "answered" => answer[q] = NoAnswer

(* The entry holds the fingerprint of the request that started its run. *)
KeyTells == key.run # NoRun => key.print = print[key.run]

(* A handler that goes for a run has compared the fingerprints. *)
FoundMatches ==
  \A q \in Requests : pc[q] = "get" =>
    found[q] \in Requests /\ print[found[q]] = print[q]

(* A run that was dead when a request came was started before, so it does  *)
(* not come back.                                                          *)
DeadStaysDead ==
  \A q \in Requests : \A o \in dead[q] : Started(o) /\ o \notin registered

BodyInv == TypeOK /\ AnsweredLast /\ KeyTells /\ FoundMatches /\ AnswerMatchesBody

EvictionInv == BodyInv /\ DeadStaysDead /\ NotSentToEvicted

-----------------------------------------------------------------------------
(* The first states. *)
LEMMA InitInv ==
  Init => EvictionInv
  <1> SUFFICES ASSUME Init PROVE EvictionInv
    OBVIOUS
  <1> USE SubmissionAssumption DEF Init
  <1>1. TypeOK
    BY DEF TypeOK, Keys
  <1>2. AnsweredLast /\ KeyTells /\ FoundMatches
    BY DEF AnsweredLast, KeyTells, FoundMatches, NoKey
  <1>3. AnswerMatchesBody /\ NotSentToEvicted
    BY DEF AnswerMatchesBody, NotSentToEvicted, NoAnswer
  <1>4. DeadStaysDead
    BY DEF DeadStaysDead
  <1> QED BY <1>1, <1>2, <1>3, <1>4 DEF EvictionInv, BodyInv

(* Every step keeps the types, and what the handlers have compared. *)
LEMMA BodyStep ==
  ASSUME BodyInv, [Next]_vars
  PROVE  BodyInv'
  <1> USE SubmissionAssumption DEF BodyInv, TypeOK, AnsweredLast, KeyTells, FoundMatches,
        AnswerMatchesBody, Created, Keys, NoKey, NoAnswer, Answers, Go, Answer, historyVars
  <1>1. ASSUME NEW q \in Requests, Arrive(q)
        PROVE  BodyInv'
    BY <1>1 DEF Arrive
  <1>2. ASSUME NEW q \in Requests, Lookup(q)
        PROVE  BodyInv'
    BY <1>2 DEF Lookup
  <1>3. ASSUME NEW q \in Requests, Get(q)
        PROVE  BodyInv'
    <2>1. CASE UNCHANGED answer
      BY <1>3, <2>1 DEF Get
    <2>2. CASE Answer(q, 200, found[q])
      <3>1. answer' \in [Requests -> Answers \cup {NoAnswer}]
        BY <1>3, <2>2 DEF Get
      <3> QED
        BY <1>3, <2>2, <3>1 DEF Get
    <2> QED BY <1>3, <2>1, <2>2 DEF Get
  <1>4. ASSUME NEW q \in Requests, Start(q)
        PROVE  BodyInv'
    <2>1. CASE UNCHANGED answer
      BY <1>4, <2>1 DEF Start
    <2>2. CASE Answer(q, 503, NoRun)
      BY <1>4, <2>2 DEF Start
    <2>3. CASE Answer(q, 429, NoRun)
      BY <1>4, <2>3 DEF Start
    <2> QED BY <1>4, <2>1, <2>2, <2>3 DEF Start
  <1>5. ASSUME NEW q \in Requests, Store(q)
        PROVE  BodyInv'
    <2>1. key' \in Keys /\ KeyTells'
      BY <1>5 DEF Store
    <2>2. answer' = [answer EXCEPT ![q] = [code |-> 200, run |-> q]]
      BY <1>5 DEF Store
    <2>3. answer' \in [Requests -> Answers \cup {NoAnswer}]
      BY <2>2
    <2> QED BY <1>5, <2>1, <2>2, <2>3 DEF Store
  <1>6. CASE Expire
    <2>1. key \in [run : Requests, print : Prints, expired : BOOLEAN]
      BY <1>6 DEF Expire
    <2>2. key' \in Keys /\ key'.run = key.run /\ key'.print = key.print
      BY <1>6, <2>1 DEF Expire
    <2>3. gone' \subseteq Requests
      BY <1>6, <2>1 DEF Expire
    <2> QED BY <1>6, <2>2, <2>3 DEF Expire
  <1>7. CASE Evict
    BY <1>7 DEF Evict
  <1>8. CASE EvictKey
    BY <1>8 DEF EvictKey
  <1>9. CASE Stop
    BY <1>9 DEF Stop
  <1>10. CASE UNCHANGED vars
    BY <1>10 DEF vars
  <1> QED BY <1>1, <1>2, <1>3, <1>4, <1>5, <1>6, <1>7, <1>8, <1>9, <1>10 DEF Next, Post

(* Every step keeps the dead runs dead, and sends nobody to them. *)
LEMMA EvictionStep ==
  ASSUME EvictionInv, [Next]_vars
  PROVE  (DeadStaysDead /\ NotSentToEvicted)'
  <1> USE SubmissionAssumption DEF EvictionInv, BodyInv, TypeOK, AnsweredLast, FoundMatches,
        DeadStaysDead, NotSentToEvicted, Started, Created, NoAnswer, Go, Answer, historyVars
  <1>1. ASSUME NEW q \in Requests, Arrive(q)
        PROVE  (DeadStaysDead /\ NotSentToEvicted)'
    BY <1>1 DEF Arrive
  <1>2. ASSUME NEW q \in Requests, Lookup(q)
        PROVE  (DeadStaysDead /\ NotSentToEvicted)'
    BY <1>2 DEF Lookup
  <1>3. ASSUME NEW q \in Requests, Get(q)
        PROVE  (DeadStaysDead /\ NotSentToEvicted)'
    BY <1>3 DEF Get
  <1>4. ASSUME NEW q \in Requests, Start(q)
        PROVE  (DeadStaysDead /\ NotSentToEvicted)'
    BY <1>4 DEF Start
  <1>5. ASSUME NEW q \in Requests, Store(q)
        PROVE  (DeadStaysDead /\ NotSentToEvicted)'
    BY <1>5 DEF Store
  <1>6. CASE Expire \/ EvictKey \/ Stop
    BY <1>6 DEF Expire, EvictKey, Stop
  <1>7. CASE Evict
    BY <1>7 DEF Evict
  <1>8. CASE UNCHANGED vars
    BY <1>8 DEF vars
  <1> QED BY <1>1, <1>2, <1>3, <1>4, <1>5, <1>6, <1>7, <1>8 DEF Next, Post

-----------------------------------------------------------------------------
(* In every reachable state both invariants hold. *)
THEOREM SubmissionInvariant == Spec => []EvictionInv
  <1>1. Init => EvictionInv
    BY InitInv
  <1>2. EvictionInv /\ [Next]_vars => EvictionInv'
    BY BodyStep, EvictionStep DEF EvictionInv
  <1> QED BY <1>1, <1>2, PTL DEF Spec

(* Variables hold what their types say. *)
THEOREM SubmissionTypes == Spec => []TypeOK
  BY SubmissionInvariant, PTL DEF EvictionInv, BodyInv

(* No client is sent to the run of a request with another body, or refused *)
(* for a run of its own body, however the lookups, stores, expiries and    *)
(* evictions of any number of requests with the key interleave.            *)
THEOREM BodiesMatch == Spec => []AnswerMatchesBody
  BY SubmissionInvariant, PTL DEF EvictionInv, BodyInv

(* No request is answered with a run that was evicted before it came, even *)
(* when the key names that run.                                            *)
THEOREM EvictedNotNamed == Spec => []NotSentToEvicted
  BY SubmissionInvariant, PTL DEF EvictionInv

-----------------------------------------------------------------------------
(* Why a later request starts nothing.  A run whose own request was        *)
(* answered is told of; the key names it until the run is gone, the key    *)
(* expires, or another run is stored, and that one overlapped with it or   *)
(* was itself started because the first was spent.                         *)
Told(r) == answer[r] = Created(r)
Spent(r) == r \in gone \/ \E o \in Requests : Started(o) /\ Overlap(o, r)

(* Whoever is named has been told of. *)
NamedIsTold ==
  /\ \A r \in Requests : key.run = r => Told(r)
  /\ \A q, r \in Requests :
       answer[q].run = r \/ r \in before[q] \/ (pc[q] = "get" /\ found[q] = r) => Told(r)

(* What is not registered any more is gone, and so is what has expired. *)
GoneIsGone ==
  /\ \A o \in Requests : Started(o) => o \in registered \cup gone
  /\ evicting # NoRun => evicting \in gone
  /\ key.expired => key.run \in gone

SpentOrKnown ==
  /\ \A r \in Requests : Told(r) => key.run = r \/ Spent(r)
  /\ \A q \in Requests : pc[q] = "get" =>
       \A r \in before[q] : r = found[q] \/ Spent(r)
  /\ \A q \in Requests : pc[q] = "start" \/ Started(q) =>
       \A r \in before[q] : Spent(r)

LaterInv == BodyInv /\ NamedIsTold /\ GoneIsGone /\ SpentOrKnown

(* What was told is not taken back, a started run stays started, and a     *)
(* request that came keeps what it came after.                             *)
Onward ==
  /\ \A r \in Requests : Told(r) => Told(r)'
  /\ \A r \in Requests : Started(r) => Started(r)'
  /\ \A q \in Requests : pc[q] # "new" => pc'[q] # "new" /\ before'[q] = before[q]
  /\ gone \subseteq gone'

(* No step turns back. *)
LEMMA StepsGoOnward ==
  ASSUME BodyInv, [Next]_vars
  PROVE  Onward
  <1> USE SubmissionAssumption DEF BodyInv, TypeOK, AnsweredLast, NoAnswer, Told, Started, Created,
        Go, Answer, historyVars, Onward
  <1>1. ASSUME NEW q \in Requests, Arrive(q) PROVE Onward
    BY <1>1 DEF Arrive
  <1>2. ASSUME NEW q \in Requests, Lookup(q) PROVE Onward
    BY <1>2 DEF Lookup
  <1>3. ASSUME NEW q \in Requests, Get(q) PROVE Onward
    BY <1>3 DEF Get
  <1>4. ASSUME NEW q \in Requests, Start(q) PROVE Onward
    BY <1>4 DEF Start
  <1>5. ASSUME NEW q \in Requests, Store(q) PROVE Onward
    BY <1>5 DEF Store
  <1>6. CASE Expire \/ Evict \/ EvictKey \/ Stop
    BY <1>6 DEF Expire, Evict, EvictKey, Stop
  <1>7. CASE UNCHANGED vars
    BY <1>7 DEF vars
  <1> QED BY <1>1, <1>2, <1>3, <1>4, <1>5, <1>6, <1>7 DEF Next, Post

(* Who has no answer has not created a run, nor has who was refused. *)
LEMMA NotCreated ==
  /\ \A q : NoAnswer # Created(q)
  /\ \A q, c, a : c # 200 \/ a # q => [code |-> c, run |-> a] # Created(q)
  BY DEF NoAnswer, Created

(* A run that is spent stays spent. *)
LEMMA SpentStays ==
  ASSUME BodyInv, Onward, NEW r \in Requests, Told(r), Spent(r)
  PROVE  Spent(r)'
  <1>1. \A q \in Requests : Started(q) => pc[q] # "new"
    BY NotCreated DEF BodyInv, AnsweredLast, Started
  <1>2. Started(r)
    BY DEF Told, Started
  <1>3. \A o \in Requests : Started(o) /\ Overlap(o, r) => Started(o)' /\ Overlap(o, r)'
    BY <1>1, <1>2 DEF Onward, Overlap
  <1> QED
    BY <1>3 DEF Spent, Onward

(* An entry that expires still names its run. *)
LEMMA ExpireKeepsRun ==
  ASSUME BodyInv, Expire
  PROVE  key'.run = key.run
  <1>1. key \in [run : Requests, print : Prints, expired : BOOLEAN]
    BY SubmissionAssumption DEF BodyInv, TypeOK, Keys, NoKey, Expire
  <1> QED
    BY <1>1 DEF Expire

(* Whoever is named has been told of. *)
LEMMA NamedStep ==
  ASSUME BodyInv, NamedIsTold, Onward, [Next]_vars
  PROVE  NamedIsTold'
  <1>0. \A r \in Requests : Told(r) => Told(r)'
    BY DEF Onward
  <1>1. ASSUME UNCHANGED <<answer, before, pc, found>>, key'.run \in {key.run, NoRun}
        PROVE  NamedIsTold'
    BY <1>0, <1>1, SubmissionAssumption DEF NamedIsTold
  <1> USE SubmissionAssumption DEF BodyInv, TypeOK, NamedIsTold, Go, Answer, NoKey, historyVars
  <1>2. ASSUME NEW q \in Requests, Arrive(q) PROVE NamedIsTold'
    <2>1. /\ UNCHANGED <<key, found>> /\ pc' = [pc EXCEPT ![q] = pc'[q]] /\ pc'[q] # "get"
          /\ \A o \in Requests : answer'[o].run \in {answer[o].run, NoRun}
          /\ \A o, r \in Requests : r \in before'[o] =>
               r \in before[o] \/ \E a \in Requests : answer[a].run = r
      BY <1>2 DEF Arrive
    <2> QED
      BY <1>0, <2>1
  <1>3. ASSUME NEW q \in Requests, Lookup(q) PROVE NamedIsTold'
    <2>1. /\ UNCHANGED before /\ key'.run \in {key.run, NoRun}
          /\ \A o \in Requests : answer'[o].run \in {answer[o].run, key.run, NoRun}
          /\ \A o, r \in Requests : pc'[o] = "get" /\ found'[o] = r =>
               key.run = r \/ (pc[o] = "get" /\ found[o] = r)
      BY <1>3 DEF Lookup
    <2> QED
      BY <1>0, <2>1
  <1>4. ASSUME NEW q \in Requests, Get(q) PROVE NamedIsTold'
    <2>1. /\ UNCHANGED <<before, key, found>> /\ pc[q] = "get"
          /\ \A o \in Requests : pc'[o] = "get" => pc[o] = "get"
          /\ \A o \in Requests : answer'[o].run = answer[o].run \/ (o = q /\ answer'[o].run = found[o])
      BY <1>4 DEF Get
    <2> QED
      BY <1>0, <2>1
  <1>5. ASSUME NEW q \in Requests, Start(q) PROVE NamedIsTold'
    <2>1. /\ UNCHANGED <<before, key, found>>
          /\ \A o \in Requests : pc'[o] = "get" => pc[o] = "get"
          /\ \A o \in Requests : answer'[o].run \in {answer[o].run, NoRun}
      BY <1>5 DEF Start
    <2> QED
      BY <1>0, <2>1
  <1>6. ASSUME NEW q \in Requests, Store(q) PROVE NamedIsTold'
    <2>1. /\ UNCHANGED <<before, found>> /\ key'.run = q
          /\ \A o \in Requests : pc'[o] = "get" => pc[o] = "get"
          /\ \A o \in Requests : answer'[o].run = answer[o].run \/ answer'[o].run = q
          /\ answer'[q].run = q
      BY <1>6 DEF Store
    <2>2. Told(q)'
      BY <1>6 DEF Told, Created, Store
    <2> QED
      BY <1>0, <2>1, <2>2
  <1>7. CASE Expire
    <2>1. key'.run = key.run
      BY <1>7, ExpireKeepsRun
    <2> QED
      BY <1>1, <1>7, <2>1 DEF Expire
  <1>8. CASE Evict \/ EvictKey \/ Stop
    BY <1>1, <1>8 DEF Evict, EvictKey, Stop
  <1>9. CASE UNCHANGED vars
    BY <1>1, <1>9 DEF vars
  <1> QED BY <1>2, <1>3, <1>4, <1>5, <1>6, <1>7, <1>8, <1>9 DEF Next, Post

(* What is not registered any more is gone. *)
LEMMA GoneStep ==
  ASSUME BodyInv, GoneIsGone, Onward, [Next]_vars
  PROVE  GoneIsGone'
  <1> USE SubmissionAssumption DEF BodyInv, TypeOK, NoKey, Keys, Onward, Go, historyVars,
        GoneIsGone
  <1>0. ASSUME NEW q \in Requests, UNCHANGED <<registered, gone, evicting>>,
               key'.expired => key.expired /\ key'.run = key.run,
               \A o \in Requests \ {q} : pc'[o] = pc[o] /\ answer'[o] = answer[o],
               pc'[q] = "store" \/ answer'[q] = Created(q) => Started(q) \/ q \in registered
        PROVE  GoneIsGone'
    BY <1>0 DEF Started
  <1>1. ASSUME NEW q \in Requests, Arrive(q) PROVE GoneIsGone'
    BY <1>0, <1>1, NotCreated DEF Arrive, Answer, AnsweredLast
  <1>2. ASSUME NEW q \in Requests, Lookup(q) PROVE GoneIsGone'
    BY <1>0, <1>2, NotCreated DEF Lookup, Answer, AnsweredLast
  <1>3. ASSUME NEW q \in Requests, Get(q) PROVE GoneIsGone'
    BY <1>0, <1>3, NotCreated DEF Get, Answer, AnsweredLast
  <1>4. ASSUME NEW q \in Requests, Start(q) PROVE GoneIsGone'
    <2>1. CASE registered' = registered
      BY <1>0, <1>4, <2>1, NotCreated DEF Start, Answer, AnsweredLast
    <2>2. CASE registered' = registered \cup {q} /\ Go(q, "store") /\ UNCHANGED answer
      BY <1>4, <2>2 DEF Start, Started
    <2> QED
      BY <1>4, <2>1, <2>2 DEF Start
  <1>5. ASSUME NEW q \in Requests, Store(q) PROVE GoneIsGone'
    BY <1>0, <1>5 DEF Store, Answer, Started
  <1>6. CASE Expire \/ Evict \/ EvictKey \/ Stop
    BY <1>6 DEF Expire, Evict, EvictKey, Stop, Started
  <1>7. CASE UNCHANGED vars
    BY <1>7 DEF vars, Started
  <1> QED BY <1>1, <1>2, <1>3, <1>4, <1>5, <1>6, <1>7 DEF Next, Post

(* Whoever starts a run has seen every run it came after spent. *)
LEMMA SpentStep ==
  ASSUME LaterInv, Onward, [Next]_vars
  PROVE  SpentOrKnown'
  <1>0. /\ \A r \in Requests : Told(r) => Told(r)'
        /\ \A r \in Requests : Told(r) /\ Spent(r) => Spent(r)'
        /\ \A q \in Requests : \A r \in before[q] : r \in Requests /\ Told(r)
    BY SpentStays DEF Onward, LaterInv, NamedIsTold, BodyInv, TypeOK
  <1>1. \A r \in Requests : r \in gone => Spent(r) /\ Spent(r)'
    BY DEF Spent, Onward
  <1>2. /\ \A r \in Requests : Told(r) => pc[r] = "answered"
        /\ \A r \in Requests : Started(r) => pc[r] \in {"store", "answered"}
        /\ \A r \in Requests : Told(r) => Started(r)
    BY NotCreated DEF Told, Started, LaterInv, BodyInv, AnsweredLast
  <1>t. BodyInv /\ NamedIsTold /\ GoneIsGone /\ SpentOrKnown
    BY DEF LaterInv
  <1> USE SubmissionAssumption, <1>t DEF BodyInv, TypeOK, historyVars
  <1>3. ASSUME NEW q \in Requests, Arrive(q) PROVE SpentOrKnown'
    <2>1. /\ UNCHANGED <<key, found>> /\ pc[q] = "new" /\ pc'[q] \notin {"get", "start", "store"}
          /\ \A o \in Requests : o # q => /\ pc'[o] = pc[o] /\ answer'[o] = answer[o]
                                       /\ before'[o] = before[o]
          /\ answer'[q] # Created(q)
      BY <1>3, NotCreated DEF Arrive, Go, Answer, AnsweredLast
    <2>2. /\ \A r \in Requests : Told(r)' => Told(r)
          /\ \A o \in Requests : Started(o)' => Started(o) /\ o # q
      BY <1>2, <2>1 DEF Told, Started
    <2> QED
      BY <1>0, <2>1, <2>2 DEF SpentOrKnown
  <1>4. ASSUME NEW q \in Requests, Lookup(q) PROVE SpentOrKnown'
    <2>1. /\ UNCHANGED before /\ pc[q] = "lookup" /\ pc'[q] # "store"
          /\ \A o \in Requests : o # q => /\ pc'[o] = pc[o] /\ answer'[o] = answer[o]
                                       /\ found'[o] = found[o]
          /\ found'[q] = key'.run
      BY <1>4 DEF Lookup, Go, Answer
    <2>2. key'.run = key.run \/ (key'.run = NoRun /\ key.expired)
      BY <1>4 DEF Lookup, NoKey
    <2>3. answer'[q] # Created(q) /\ (pc'[q] = "start" => key'.run = NoRun)
      <3>1. answer[q] = NoAnswer
        BY <2>1 DEF AnsweredLast
      <3>2. CASE Answer(q, 409, key'.run)
        BY <3>2, NotCreated DEF Answer, Go
      <3>3. CASE Go(q, "get") /\ UNCHANGED answer
        BY <3>1, <3>3, NotCreated DEF Go
      <3>4. CASE key'.run = NoRun /\ Go(q, "start") /\ UNCHANGED answer
        BY <3>1, <3>4, NotCreated DEF Go
      <3> QED
        BY <1>4, <3>2, <3>3, <3>4 DEF Lookup
    <2>4. /\ \A r \in Requests : Told(r)' => Told(r)
          /\ \A o \in Requests : Started(o)' => Started(o) /\ o # q
      BY <1>2, <2>1, <2>3 DEF Told, Started
    <2>5. \A r \in Requests : Told(r) => key'.run = r \/ Spent(r)'
      BY <1>0, <1>1, <2>2 DEF GoneIsGone, SpentOrKnown
    <2> QED
      BY <1>0, <2>1, <2>4, <2>5, <2>2, <2>3 DEF SpentOrKnown
  <1>5. ASSUME NEW q \in Requests, Get(q) PROVE SpentOrKnown'
    <2>1. /\ UNCHANGED <<before, key, found>> /\ pc[q] = "get" /\ pc'[q] \in {"start", "answered"}
          /\ \A o \in Requests : o # q => pc'[o] = pc[o] /\ answer'[o] = answer[o]
      BY <1>5 DEF Get, Go, Answer
    <2>3. found[q] \in Requests /\ Told(found[q]) /\ found[q] # q
      BY <1>2, <2>1 DEF FoundMatches, NamedIsTold
    <2>2. /\ answer'[q] # Created(q)
          /\ pc'[q] = "start" => found[q] \notin registered
      <3>1. answer[q] = NoAnswer
        BY <2>1 DEF AnsweredLast
      <3>2. CASE found[q] \in registered
        <4>1. Answer(q, 200, found[q])
          BY <1>5, <3>2 DEF Get
        <4> QED
          BY <2>3, <4>1, NotCreated DEF Answer, Go
      <3>3. CASE found[q] \notin registered
        BY <1>5, <3>1, <3>3, NotCreated DEF Get
      <3> QED
        BY <3>2, <3>3
    <2>4. /\ \A r \in Requests : Told(r)' => Told(r)
          /\ \A o \in Requests : Started(o)' => Started(o) /\ o # q
      BY <1>2, <2>1, <2>3, <2>2 DEF Told, Started
    <2>5. ASSUME found[q] \notin registered  PROVE \A r \in Requests : r = found[q] => Spent(r)'
      <3>1. Started(found[q])
        BY <1>2, <2>3
      <3>2. found[q] \in gone
        BY <2>3, <2>5, <3>1 DEF GoneIsGone
      <3> QED
        BY <1>1, <2>3, <3>2
    <2> QED
      BY <1>0, <2>1, <2>4, <2>5, <2>2 DEF SpentOrKnown
  <1>6. ASSUME NEW q \in Requests, Start(q) PROVE SpentOrKnown'
    <2>1. /\ UNCHANGED <<before, key, found>> /\ pc[q] = "start" /\ pc'[q] \in {"store", "answered"}
          /\ \A o \in Requests : o # q => pc'[o] = pc[o] /\ answer'[o] = answer[o]
      BY <1>6 DEF Start, Go, Answer
    <2>2. answer'[q] # Created(q)
      <3>1. answer[q] = NoAnswer
        BY <2>1 DEF AnsweredLast
      <3> QED
        BY <1>6, <3>1, NotCreated DEF Start, Answer
    <2>3. /\ \A r \in Requests : Told(r)' => Told(r)
          /\ \A o \in Requests : o # q /\ Started(o)' => Started(o)
      BY <1>2, <2>1, <2>2 DEF Told, Started
    <2> QED
      BY <1>0, <2>1, <2>3 DEF SpentOrKnown
  <1>7. ASSUME NEW q \in Requests, Store(q) PROVE SpentOrKnown'
    <2>1. /\ UNCHANGED <<before, found>> /\ pc[q] = "store" /\ pc'[q] = "answered"
          /\ \A o \in Requests : o # q => pc'[o] = pc[o] /\ answer'[o] = answer[o]
      BY <1>7 DEF Store, Go, Answer
    <2>2. answer'[q].run = q /\ key'.run = q
      BY <1>7 DEF Store, Answer
    <2>3. /\ \A r \in Requests : r # q => (Told(r)' => Told(r))
          /\ \A o \in Requests : Started(o)' => Started(o)
          /\ Started(q)
      BY <2>1 DEF Told, Started
    <2>4. ASSUME NEW r \in Requests, Told(r), r # q
          PROVE  Spent(r)'
      <3>1. CASE r \in before[q]
        BY <1>0, <2>3, <2>4, <3>1 DEF SpentOrKnown
      <3>2. CASE r \notin before[q]
        <4>1. q \notin before[r]
          BY <1>0, <1>2, <2>1
        <4>2. Spent(r)
          BY <2>3, <2>4, <3>2, <4>1 DEF Spent, Overlap
        <4> QED
          BY <1>0, <2>4, <4>2
      <3> QED
        BY <3>1, <3>2
    <2> QED
      BY <1>0, <2>1, <2>3, <2>4, <2>2 DEF SpentOrKnown
  <1>8. CASE Expire \/ Evict \/ EvictKey \/ Stop
    <2>1. /\ UNCHANGED <<before, found, answer, pc>>
          /\ key'.run = key.run \/ (key.run = evicting /\ evicting # NoRun)
      <3>1. CASE Expire
        BY <3>1, ExpireKeepsRun DEF Expire
      <3> QED
        BY <1>8, <3>1 DEF Evict, EvictKey, Stop
    <2>2. /\ \A r \in Requests : Told(r)' => Told(r)
          /\ \A o \in Requests : Started(o)' => Started(o)
      BY <2>1 DEF Told, Started
    <2>3. \A r \in Requests : Told(r) => key'.run = r \/ Spent(r)'
      BY <1>0, <1>1, <2>1 DEF GoneIsGone, SpentOrKnown
    <2> QED
      BY <1>0, <2>1, <2>2, <2>3 DEF SpentOrKnown
  <1>9. CASE UNCHANGED vars
    <2>1. /\ UNCHANGED <<before, found, answer, pc, key>>
          /\ \A r \in Requests : Told(r)' => Told(r)
          /\ \A o \in Requests : Started(o)' => Started(o)
      BY <1>9 DEF vars, Told, Started
    <2> QED
      BY <1>0, <2>1 DEF SpentOrKnown
  <1> QED BY <1>3, <1>4, <1>5, <1>6, <1>7, <1>8, <1>9 DEF Next, Post

(* Nothing is told, gone or spent at first. *)
LEMMA LaterInit == Init => LaterInv
  <1> SUFFICES ASSUME Init PROVE LaterInv
    OBVIOUS
  <1>1. BodyInv
    BY InitInv DEF EvictionInv
  <1>2. NamedIsTold /\ GoneIsGone /\ SpentOrKnown
    BY SubmissionAssumption
    DEF Init, NamedIsTold, GoneIsGone, SpentOrKnown, Told, Started, Created, NoKey, NoAnswer
  <1> QED
    BY <1>1, <1>2 DEF LaterInv

(* A request that comes after another was answered, and overlaps with      *)
(* none, starts no second run before the first is gone or the key expired. *)
THEOREM LaterRequestsStartNothing == Spec => []LaterStartsNothing
  <1>1. LaterInv /\ [Next]_vars => LaterInv'
    BY BodyStep, StepsGoOnward, NamedStep, GoneStep, SpentStep DEF LaterInv
  <1>2. LaterInv => LaterStartsNothing
    <2> SUFFICES ASSUME LaterInv, NEW q \in Requests, Started(q), NEW r \in before[q], r \notin gone
                 PROVE  \E o \in Requests : Started(o) /\ o # q /\ Overlap(o, r)
      BY DEF LaterStartsNothing
    <2>1. Spent(r)
      BY DEF LaterInv, SpentOrKnown
    <2>2. PICK o \in Requests : Started(o) /\ Overlap(o, r)
      BY <2>1 DEF Spent
    <2>3. o # q
      BY <2>2 DEF Overlap
    <2> QED
      BY <2>2, <2>3
  <1> QED
    BY <1>1, <1>2, LaterInit, PTL DEF Spec
=============================================================================
