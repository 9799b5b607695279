-------------------------- MODULE EventStreamProofs --------------------------
(***************************************************************************)
(* What holds of EventStream for every number of pumps, callers and        *)
(* connections, every bound of what they put, and every limit of the log   *)
(* and the queue.                                                          *)
(***************************************************************************)
EXTENDS EventStream, TLAPS, FiniteSetTheorems, SequenceTheorems, WellFoundedInduction

-----------------------------------------------------------------------------
(* WHAT THE FILTER OF A SEQUENCE GIVES *)

(* A set of numbers that has 0 and, with each number below n, the next one *)
(* has all numbers up to n: induction, stated of a set.                    *)
LEMMA UpTo ==
  ASSUME NEW n \in Nat, NEW S, 0 \in S,
         \A i \in 1..n : i - 1 \in S => i \in S
  PROVE  0..n \subseteq S
  <1> DEFINE Out == (0..n) \ S
             R == {p \in Nat \X Nat : p[1] < p[2]}
  <1>1. SUFFICES ASSUME Out # {} PROVE FALSE
    <2> HIDE DEF R
    <2> QED
      OBVIOUS
  <1>2. IsWellFoundedOn(R, Nat)
    BY NatLessThanWellFounded DEF OpToRel
  <1>3. PICK k \in Out : \A j \in Out : ~(<<j, k>> \in R)
    <2>1. Out \subseteq Nat
      OBVIOUS
    <2> HIDE DEF R, Out
    <2> QED
      BY <1>1, <1>2, <2>1, WFMin
  <1>4. k \in 1..n /\ k - 1 \in Out
    OBVIOUS
  <1>5. <<k - 1, k>> \in R
    BY <1>4
  <1> QED
    BY <1>3, <1>4, <1>5

(* A sequence whose numbers follow each other, the first being b + 1. *)
Run(s, b) == \A i \in 1..Len(s) : s[i].seq = b + i

Excess(n, b) == IF n > b THEN n - b ELSE 0

(* The function in NewerThan: what is kept of the first i items. *)
KeptOf(n, s, f, i) ==
  IF i = 0 THEN <<>>
  ELSE IF s[i].seq > n THEN Append(f[i - 1], s[i])
  ELSE f[i - 1]

(* There is such a function. *)
LEMMA FilterExists ==
  ASSUME NEW n \in Nat, NEW s \in Seq(Events)
  PROVE  \E f : f = [i \in 0..Len(s) |-> KeptOf(n, s, f, i)]
  <1> DEFINE Good(f, k) == f = [i \in 0..k |-> KeptOf(n, s, f, i)]
             S == {k \in 0..Len(s) : \E f : Good(f, k)}
  <1>1. 0 \in S
    <2>1. Good([i \in 0..0 |-> <<>>], 0)
      BY DEF KeptOf
    <2> QED
      BY <2>1
  <1>2. ASSUME NEW k \in 1..Len(s), k - 1 \in S PROVE k \in S
    <2>1. PICK f : Good(f, k - 1)
      BY <1>2
    <2> DEFINE g == [i \in 0..k |-> IF i = k THEN KeptOf(n, s, f, k) ELSE f[i]]
    <2>2. \A i \in 0..k : g[i] = KeptOf(n, s, g, i)
      <3> TAKE i \in 0..k
      <3>1. CASE i = k
        <4>1. g[k - 1] = f[k - 1]
          OBVIOUS
        <4> QED
          BY <3>1, <4>1 DEF KeptOf
      <3>2. CASE i # k
        <4>1. i \in 0..k - 1 /\ g[i] = f[i]
          BY <3>2
        <4>2. f[i] = KeptOf(n, s, f, i)
          BY <2>1, <4>1
        <4>3. i # 0 => g[i - 1] = f[i - 1]
          BY <3>2
        <4> QED
          BY <4>1, <4>2, <4>3 DEF KeptOf
      <3> QED
        BY <3>1, <3>2
    <2>3. Good(g, k)
      BY <2>2
    <2>4. \E h : Good(h, k)
      <3> HIDE DEF g, Good
      <3> QED
        BY <2>3
    <2> QED
      BY <2>4
  <1>3. Len(s) \in S
    <2>1. Len(s) \in Nat /\ \A k \in 1..Len(s) : k - 1 \in S => k \in S
      BY <1>2
    <2> HIDE DEF S
    <2>2. 0..Len(s) \subseteq S
      BY <1>1, <2>1, UpTo
    <2> QED
      BY <2>1, <2>2
  <1> QED
    BY <1>3

(* What the first i items of a sequence leave, for any n: no more than i   *)
(* items, and if the numbers of the sequence follow each other, those from *)
(* n + 1 on.                                                               *)
LEMMA FilterStep ==
  ASSUME NEW n \in Nat, NEW s \in Seq(Events), NEW b \in Int,
         NEW f, \A i \in 0..Len(s) : f[i] = KeptOf(n, s, f, i),
         NEW i \in 0..Len(s)
  PROVE  /\ f[i] \in Seq(Events) /\ Len(f[i]) <= i
         /\ Run(s, b) =>
              /\ Run(f[i], b + Excess(n, b))
              /\ Len(f[i]) = IF i > Excess(n, b) THEN i - Excess(n, b) ELSE 0
  <1>1. Len(s) \in Nat /\ \A j \in 1..Len(s) : s[j] \in Events
    OBVIOUS
  <1>d. PICK d \in Nat : d = Excess(n, b)
    <2>1. Excess(n, b) \in Nat
      BY DEF Excess
    <2> QED
      BY <2>1
  <1>2. /\ f[0] = <<>>
        /\ \A j \in 1..Len(s) :
             f[j] = IF s[j].seq > n THEN Append(f[j - 1], s[j]) ELSE f[j - 1]
    BY <1>1 DEF KeptOf
  <1> DEFINE Typed(j) == f[j] \in Seq(Events) /\ Len(f[j]) <= j
             Cut(j) == /\ Run(f[j], b + d)
                       /\ j > d => Len(f[j]) = j - d
                       /\ j <= d => Len(f[j]) = 0
             S == {j \in 0..Len(s) : Typed(j) /\ (Run(s, b) => Cut(j))}
  <1>3. 0 \in S
    <2>1. Len(f[0]) = 0 /\ f[0] \in Seq(Events)
      BY <1>2
    <2>2. Run(f[0], b + d)
      BY <2>1 DEF Run
    <2> QED
      BY <2>1, <2>2
  <1>4. ASSUME NEW j \in 1..Len(s), j - 1 \in S PROVE j \in S
    <2>1. Typed(j - 1) /\ (Run(s, b) => Cut(j - 1))
      BY <1>4
    <2> HIDE DEF S
    <2>2. CASE s[j].seq > n
      <3>1. f[j] = Append(f[j - 1], s[j])
        BY <1>2, <2>2
      <3>2. Len(f[j - 1]) \in Nat
        BY <2>1
      <3>3. /\ f[j] \in Seq(Events)
            /\ Len(f[j]) = Len(f[j - 1]) + 1
            /\ \A m \in 1..Len(f[j - 1]) : f[j][m] = f[j - 1][m]
            /\ f[j][Len(f[j - 1]) + 1] = s[j]
        BY <1>1, <2>1, <3>1, AppendProperties
      <3>4. Typed(j)
        BY <2>1, <3>2, <3>3
      <3>5. ASSUME Run(s, b) PROVE Cut(j)
        <4>1. s[j].seq = b + j
          BY <1>1, <3>5 DEF Run
        <4>2. j > d /\ Len(f[j - 1]) = j - 1 - d
          <5>1. j > d
            BY <1>d, <2>2, <4>1 DEF Excess
          <5>2. Cut(j - 1)
            BY <2>1, <3>5
          <5> QED
            BY <5>1, <5>2
        <4>3. Len(f[j]) = j - d
          BY <1>1, <3>3, <4>2
        <4>4. \A m \in 1..j - d : f[j][m].seq = b + d + m
          <5> HIDE DEF Typed, Cut
          <5> TAKE m \in 1..j - d
          <5>1. CASE m \in 1..j - 1 - d
            BY <1>1, <2>1, <3>3, <3>5, <4>2, <5>1 DEF Run, Cut
          <5>2. CASE m = j - d
            <6>1. Len(f[j - 1]) + 1 = m
              BY <4>2, <5>2
            <6>2. f[j][m] = s[j]
              BY <3>3, <6>1
            <6> QED
              BY <4>1, <5>2, <6>2
          <5> QED
            BY <1>d, <1>1, <4>2, <5>1, <5>2
        <4>5. Run(f[j], b + d)
          <5> HIDE DEF Typed, Cut
          <5> QED
            BY <4>3, <4>4 DEF Run
        <4> QED
          BY <4>2, <4>3, <4>5
      <3> QED
        BY <3>4, <3>5 DEF S
    <2>3. CASE ~(s[j].seq > n)
      <3>1. f[j] = f[j - 1]
        BY <1>2, <2>3
      <3>2. Typed(j)
        BY <2>1, <3>1
      <3>3. ASSUME Run(s, b) PROVE Cut(j)
        <4>1. s[j].seq = b + j
          BY <1>1, <3>3 DEF Run
        <4>2. ~(j > d) /\ ~(j - 1 > d)
          BY <1>d, <2>3, <4>1 DEF Excess
        <4> QED
          BY <2>1, <3>1, <3>3, <4>2
      <3> QED
        BY <3>2, <3>3 DEF S
    <2> QED
      BY <2>2, <2>3
  <1>5. 0..Len(s) \subseteq S
    <2> HIDE DEF S
    <2> QED
      BY <1>1, <1>3, <1>4, UpTo
  <1> QED
    BY <1>d, <1>5

(* What NewerThan gives of a sequence: a sequence of events that is no     *)
(* longer, and the end of it if its numbers follow each other.             *)
LEMMA Filtered ==
  ASSUME NEW n \in Nat, NEW s \in Seq(Events)
  PROVE  /\ NewerThan(n, s) \in Seq(Events)
         /\ Len(NewerThan(n, s)) <= Len(s)
         /\ \A b \in Int :
              Run(s, b) =>
                /\ Run(NewerThan(n, s), b + Excess(n, b))
                /\ Len(NewerThan(n, s)) =
                     IF Len(s) > Excess(n, b) THEN Len(s) - Excess(n, b) ELSE 0
  <1> DEFINE F == CHOOSE f : f = [i \in 0..Len(s) |-> KeptOf(n, s, f, i)]
  <1>1. NewerThan(n, s) = F[Len(s)]
    BY DEF NewerThan, KeptOf
  <1>2. F = [i \in 0..Len(s) |-> KeptOf(n, s, F, i)]
    BY FilterExists
  <1> HIDE DEF F
  <1>3. Len(s) \in 0..Len(s) /\ 0 \in Int /\ \A i \in 0..Len(s) : F[i] = KeptOf(n, s, F, i)
    BY <1>2
  <1>4. F[Len(s)] \in Seq(Events) /\ Len(F[Len(s)]) <= Len(s)
    BY <1>3, FilterStep
  <1>5. ASSUME NEW b \in Int, Run(s, b)
        PROVE  /\ Run(F[Len(s)], b + Excess(n, b))
               /\ Len(F[Len(s)]) = IF Len(s) > Excess(n, b) THEN Len(s) - Excess(n, b) ELSE 0
    BY <1>3, <1>5, FilterStep
  <1> QED
    BY <1>1, <1>4, <1>5

-----------------------------------------------------------------------------
(* TYPES *)

MaxSeq == LogLimit + Cardinality(Producers)

(* A pump or a caller puts no more than the bound, and the worker one      *)
(* event.                                                                  *)
Counted ==
  /\ \A p \in Pumps \cup Callers : count[p] + left <= Puts
  /\ count[Worker] <= 1

(* A producer at work has counted its event, and then given it a number. *)
Numbered ==
  \A p \in Producers :
    /\ ppc[p] # "idle" => count[p] >= 1
    /\ ppc[p] \in {"append", "cut", "live"} => seq[p] \in 1..MaxSeq

TypeInv == TypeOK /\ Counted /\ Numbered

(* The producers are finitely many, and there is one, the worker. *)
LEMMA ProducersFinite ==
  /\ IsFiniteSet(Producers) /\ Cardinality(Producers) \in Nat
  /\ \A S \in SUBSET Producers :
       /\ IsFiniteSet(S) /\ Cardinality(S) \in Nat
       /\ Cardinality(S) <= Cardinality(Producers)
       /\ \A p \in Producers \ S :
            /\ Cardinality(S \cup {p}) = Cardinality(S) + 1
            /\ Cardinality(S) < Cardinality(Producers)
  <1>1. IsFiniteSet(Producers)
    <2>1. IsFiniteSet(Pumps \cup {Worker})
      BY EventStreamAssumption, FS_Singleton, FS_Union
    <2> QED
      BY <2>1, EventStreamAssumption, FS_Union DEF Producers
  <1>2. ASSUME NEW S \in SUBSET Producers
        PROVE  IsFiniteSet(S) /\ Cardinality(S) \in Nat /\ Cardinality(S) <= Cardinality(Producers)
    BY <1>1, <1>2, FS_Subset, FS_CardinalityType
  <1>3. ASSUME NEW S \in SUBSET Producers, NEW p \in Producers \ S
        PROVE  /\ Cardinality(S \cup {p}) = Cardinality(S) + 1
               /\ Cardinality(S) < Cardinality(Producers)
    <2>1. Cardinality(S \cup {p}) = Cardinality(S) + 1
      BY <1>2, FS_AddElement
    <2>2. Cardinality(S \cup {p}) <= Cardinality(Producers)
      BY <1>2
    <2> QED
      BY <1>2, <2>1, <2>2
  <1> QED
    BY <1>1, <1>2, <1>3

(* At first nothing is on its way. *)
LEMMA TypeInit == Init => TypeInv
  <1> SUFFICES ASSUME Init PROVE TypeInv
    OBVIOUS
  <1>1. {Puts, LogLimit, QueueMax} \subseteq Nat /\ Cardinality(Cutting) \in Nat
    BY EventStreamAssumption, ProducersFinite DEF Cutting
  <1>2. TypeOK
    <2>1. Len(log) <= LogLimit + Cardinality(Cutting) /\ Len(queue) <= QueueMax
      BY <1>1 DEF Init
    <2>2. /\ {log, queue, got} \subseteq Seq(Events)
          /\ out \in [Streams -> Seq(Events)] /\ after \in [Streams -> Nat]
      BY DEF Init
    <2>3. /\ ppc \in [Producers -> {"idle", "number", "append", "cut", "live"}]
          /\ seq \in [Producers -> Nat] /\ count \in [Producers -> 0..Puts]
          /\ hpc \in [Streams -> {"new", "replay", "live", "closed"}]
      BY <1>1 DEF Init
    <2>4. left \in 0..Puts /\ cast \in Casts
      BY <1>1, EventStreamAssumption DEF Init
    <2> QED
      BY <2>1, <2>2, <2>3, <2>4 DEF Init, TypeOK
  <1>3. Counted /\ Numbered
    <2>1. left \in 0..Puts
      BY <1>2 DEF TypeOK
    <2> QED
      BY <1>1, <2>1 DEF Init, Counted, Numbered, Producers
  <1> QED
    BY <1>2, <1>3 DEF TypeInv

(* A producer at work has a well-formed event. *)
LEMMA EventTyped ==
  ASSUME TypeInv, NEW p \in Producers, ppc[p] \in {"append", "cut", "live"}
  PROVE  Event(p) \in Events
  BY DEF TypeInv, TypeOK, Numbered, Event, Events, MaxSeq

(* StartPut changes nothing but the producer's place and its count. *)
LEMMA StartPutTypes ==
  ASSUME TypeInv, NEW p \in Producers, StartPut(p), left' \in 0..Puts, left' <= left,
         p # Worker => left' = left - 1,
         p = Worker => count[p] = 0,
         worker' \in {"running", "joined", "raised"},
         status' \in {"running", "done", "approval_required"}
  PROVE  TypeInv'
  <1> USE EventStreamAssumption
  <1>1. TypeOK /\ Counted /\ Numbered
    BY DEF TypeInv
  <1>2. count[p] + 1 \in 0..Puts
    BY <1>1 DEF TypeOK, Counted, Producers
  <1>3. Cutting' = Cutting
    BY <1>1 DEF StartPut, Step, Cutting, TypeOK
  <1>4. TypeOK'
    BY <1>1, <1>2, <1>3 DEF TypeOK, StartPut, Step, clientVars
  <1>5. Counted'
    <2>1. count \in [Producers -> 0..Puts] /\ left \in 0..Puts
      BY <1>1 DEF TypeOK
    <2>2. /\ count'[p] = count[p] + 1
          /\ \A q \in Producers \ {p} : count'[q] = count[q]
      BY <2>1 DEF StartPut
    <2> QED
      BY <1>1, <2>1, <2>2 DEF Counted, Producers
  <1>6. Numbered'
    BY <1>1 DEF TypeOK, Numbered, StartPut, Step
  <1> QED
    BY <1>4, <1>5, <1>6 DEF TypeInv

(* The number a client received last is one of those it received. *)
LEMMA LastTyped ==
  ASSUME TypeInv
  PROVE  /\ LastReceived \in Nat
         /\ got # <<>> =>
              /\ Len(got) \in 1..Len(got)
              /\ LastReceived = got[Len(got)].seq /\ LastReceived > 0
         /\ got = <<>> => LastReceived = 0
  <1>1. got \in Seq(Events)
    BY DEF TypeInv, TypeOK
  <1>2. ASSUME got # <<>> PROVE Len(got) \in 1..Len(got) /\ got[Len(got)] \in Events
    BY <1>1, <1>2
  <1>3. \A e \in Events : e.seq \in Nat /\ e.seq > 0
    BY DEF Events
  <1> QED
    BY <1>2, <1>3 DEF LastReceived

(* A step that leaves the producers and the log alone. *)
LEMMA ClientTypes ==
  ASSUME TypeInv, UNCHANGED <<cast, left, log, producerVars>>,
         worker' \in {"running", "joined", "raised"},
         status' \in {"running", "done", "approval_required"},
         queue' \in Seq(Events), Len(queue') <= Len(queue),
         evicted' \in BOOLEAN, lossy' \in BOOLEAN,
         hpc' \in [Streams -> {"new", "replay", "live", "closed"}],
         out' \in [Streams -> Seq(Events)],
         after' \in [Streams -> Nat], alive' \subseteq Streams, got' \in Seq(Events)
  PROVE  TypeInv'
  <1>1. Cutting' = Cutting
    BY DEF Cutting, producerVars
  <1>2. TypeOK /\ Counted /\ Numbered
    BY DEF TypeInv
  <1>3. Len(queue') <= QueueMax
    BY <1>2, EventStreamAssumption DEF TypeOK
  <1>4. TypeOK'
    BY <1>1, <1>2, <1>3 DEF TypeOK, producerVars
  <1>5. Counted' /\ Numbered'
    BY <1>2 DEF Counted, Numbered, producerVars
  <1> QED
    BY <1>4, <1>5 DEF TypeInv

(* The end of a sequence. *)
LEMMA Shorter ==
  ASSUME NEW T, NEW s \in Seq(T), NEW m \in Nat \ {0}, Len(s) > m
  PROVE  /\ SubSeq(s, Len(s) - m + 1, Len(s)) \in Seq(T)
         /\ Len(SubSeq(s, Len(s) - m + 1, Len(s))) = m
  OBVIOUS

(* The steps of put. *)
LEMMA PutTypes ==
  ASSUME TypeInv, NEW p \in Producers, Put(p)
  PROVE  TypeInv'
  <1>0. /\ TypeOK /\ Counted /\ Numbered
        /\ Cardinality(Producers) \in Nat /\ Cardinality(Cutting) \in Nat
        /\ {LogLimit, QueueMax} \subseteq Nat \ {0}
        /\ Len(log) \in Nat /\ Len(queue) \in Nat
    BY EventStreamAssumption, ProducersFinite DEF TypeInv, TypeOK, Cutting
  <1>1. CASE Number(p)
    <2>1. Cutting' = Cutting
      BY <1>0, <1>1 DEF Number, Step, Cutting, TypeOK
    <2>2. Len(log) + 1 \in 1..MaxSeq
      <3>1. Cutting \in SUBSET Producers /\ p \in Producers \ Cutting
        BY <1>1 DEF Number, Cutting
      <3>2. Cardinality(Cutting) < Cardinality(Producers)
        BY <3>1, ProducersFinite
      <3> QED
        BY <1>0, <3>2 DEF TypeOK, MaxSeq
    <2>3. TypeOK'
      BY <1>0, <1>1, <2>1 DEF TypeOK, Number, Step, clientVars
    <2>4. Counted'
      BY <1>0, <1>1 DEF Counted, Number
    <2>5. Numbered'
      BY <1>0, <1>1, <2>2 DEF Numbered, Number, Step, TypeOK, MaxSeq
    <2> QED
      BY <2>3, <2>4, <2>5 DEF TypeInv
  <1>2. CASE Record(p)
    <2>1. Cutting' = Cutting \cup {p} /\ p \notin Cutting
      BY <1>0, <1>2 DEF Record, Step, Cutting, TypeOK
    <2>2. Cardinality(Cutting') = Cardinality(Cutting) + 1
      <3>1. Cutting \in SUBSET Producers
        BY DEF Cutting
      <3> QED
        BY <2>1, <3>1, ProducersFinite
    <2>3. log' \in Seq(Events) /\ Len(log') = Len(log) + 1
      <3>1. Event(p) \in Events
        BY <1>2, EventTyped DEF Record
      <3> QED
        BY <1>0, <1>2, <3>1, AppendProperties DEF Record, TypeOK
    <2>4. Len(log') <= LogLimit + Cardinality(Cutting')
      BY <1>0, <2>2, <2>3 DEF TypeOK
    <2>5. TypeOK'
      BY <1>0, <1>2, <2>3, <2>4 DEF TypeOK, Record, Step, clientVars
    <2>6. Counted' /\ Numbered'
      BY <1>0, <1>2 DEF Counted, Numbered, Record, Step, TypeOK, MaxSeq
    <2> QED
      BY <2>5, <2>6 DEF TypeInv
  <1>3. CASE CutLog(p)
    <2>1. Cardinality(Cutting') \in Nat
      <3>1. Cutting' \in SUBSET Producers
        BY DEF Cutting
      <3> DEFINE S == Cutting'
      <3> HIDE DEF S
      <3>2. Cardinality(S) \in Nat
        BY <3>1, ProducersFinite DEF S
      <3> QED
        BY <3>2 DEF S
    <2>2. log' \in Seq(Events) /\ Len(log') <= LogLimit
      <3>1. CASE Len(log) > LogLimit
        <4>1. log' = SubSeq(log, Len(log) - LogLimit + 1, Len(log)) /\ log \in Seq(Events)
          BY <1>0, <1>3, <3>1 DEF CutLog, TypeOK
        <4>2. LogLimit \in Nat \ {0}
          BY <1>0
        <4>3. log' \in Seq(Events) /\ Len(log') = LogLimit
          BY <3>1, <4>1, <4>2, Shorter
        <4> QED
          BY <4>2, <4>3
      <3>2. CASE ~(Len(log) > LogLimit)
        BY <1>0, <1>3, <3>2 DEF CutLog, TypeOK
      <3> QED
        BY <3>1, <3>2
    <2>3. Len(log') <= LogLimit + Cardinality(Cutting')
      BY <1>0, <2>1, <2>2
    <2>4. TypeOK'
      BY <1>0, <1>3, <2>2, <2>3 DEF TypeOK, CutLog, Step, clientVars
    <2>5. Counted' /\ Numbered'
      BY <1>0, <1>3 DEF Counted, Numbered, CutLog, Step, TypeOK, MaxSeq
    <2> QED
      BY <2>4, <2>5 DEF TypeInv
  <1>4. CASE PutLive(p)
    <2>1. Cutting' = Cutting
      BY <1>0, <1>4 DEF PutLive, Step, Cutting, TypeOK
    <2>2. queue' \in Seq(Events) /\ Len(queue') <= QueueMax
      <3>1. Event(p) \in Events
        BY <1>4, EventTyped DEF PutLive
      <3> DEFINE kept == IF Len(queue) >= QueueMax THEN Tail(queue) ELSE queue
      <3>2. kept \in Seq(Events) /\ Len(kept) < QueueMax
        BY <1>0 DEF TypeOK
      <3>3. queue' = Append(kept, Event(p))
        BY <1>4 DEF PutLive
      <3> HIDE DEF kept
      <3>4. queue' \in Seq(Events) /\ Len(queue') = Len(kept) + 1 /\ Len(kept) \in Nat
        BY <3>1, <3>2, <3>3, AppendProperties
      <3> QED
        BY <1>0, <3>2, <3>4
    <2>3. TypeOK'
      BY <1>0, <1>4, <2>1, <2>2 DEF TypeOK, PutLive, Step, clientVars
    <2>4. Counted' /\ Numbered'
      BY <1>0, <1>4 DEF Counted, Numbered, PutLive, Step, TypeOK, MaxSeq
    <2> QED
      BY <2>3, <2>4 DEF TypeInv
  <1> QED
    BY <1>1, <1>2, <1>3, <1>4 DEF Put

(* The steps of the worker, of the eviction and of the handlers. *)
LEMMA TypeNext == TypeInv /\ [Next]_vars => TypeInv'
  <1> SUFFICES ASSUME TypeInv, [Next]_vars PROVE TypeInv'
    OBVIOUS
  <1>0. /\ TypeOK /\ Counted /\ Numbered
        /\ Puts \in Nat /\ Len(queue) \in Nat
    BY EventStreamAssumption DEF TypeInv, TypeOK
  <1>a. ASSUME NEW p \in Pumps \cup Callers, PutOneMore(p),
               worker' = worker, status' \in {"running", "done", "approval_required"}
        PROVE  TypeInv'
    <2>1. /\ p \in Producers /\ p # Worker /\ StartPut(p)
          /\ left' = left - 1 /\ left' \in 0..Puts /\ left' <= left
      BY <1>0, <1>a, EventStreamAssumption DEF PutOneMore, TypeOK, Producers
    <2>2. worker' \in {"running", "joined", "raised"}
      BY <1>0, <1>a DEF TypeOK
    <2> QED
      BY <1>a, <2>1, <2>2, StartPutTypes
  <1>1. ASSUME NEW p \in Pumps, ReadLine(p) PROVE TypeInv'
    BY <1>0, <1>1, <1>a DEF ReadLine, TypeOK
  <1>b. ASSUME NEW c \in Callers, Cancel(c) \/ CancelFinished(c) \/ Resume(c) PROVE TypeInv'
    BY <1>0, <1>b, <1>a DEF Cancel, CancelFinished, Resume, TypeOK
  <1>2. CASE PutFinished
    BY <1>0, <1>2, StartPutTypes, EventStreamAssumption DEF PutFinished, TypeOK, Producers
  <1>3. CASE Settle \/ Raise
    BY <1>0, <1>3, ClientTypes DEF Settle, Raise, TypeOK, producerVars, clientVars
  <1>4. CASE Evict
    BY <1>0, <1>4, ClientTypes DEF Evict, TypeOK, producerVars, clientVars
  <1>5. ASSUME NEW c \in Streams, Connect(c) PROVE TypeInv'
    <2>1. LastReceived \in Nat
      BY LastTyped
    <2>2. NewerThan(LastReceived, log) \in Seq(Events)
      BY <1>0, <2>1, Filtered DEF TypeOK
    <2>3. /\ out' \in [Streams -> Seq(Events)] /\ after' \in [Streams -> Nat]
          /\ hpc' \in [Streams -> {"new", "replay", "live", "closed"}]
      BY <1>0, <1>5, <2>1, <2>2 DEF Connect, Go, TypeOK
    <2> QED
      BY <1>0, <1>5, <2>3, ClientTypes DEF Connect, TypeOK
  <1>6. ASSUME NEW c \in Streams, Handle(c) PROVE TypeInv'
    <2>1. CASE WriteOut(c)
      <3>1. Head(out[c]) \in Events /\ Tail(out[c]) \in Seq(Events)
        BY <1>0, <2>1 DEF WriteOut, TypeOK
      <3> QED
        BY <1>0, <2>1, <3>1, ClientTypes DEF WriteOut, TypeOK
    <2>2. CASE FilterLive(c)
      <3>1. queue' \in Seq(Events) /\ Len(queue') <= Len(queue)
        BY <1>0, <2>2, Filtered DEF FilterLive, TypeOK
      <3> QED
        BY <1>0, <2>2, <3>1, ClientTypes DEF FilterLive, Go, TypeOK
    <2>3. CASE GetLive(c)
      <3>1. /\ Head(queue) \in Events /\ Tail(queue) \in Seq(Events)
            /\ Len(Tail(queue)) <= Len(queue)
        BY <1>0, <2>3 DEF GetLive, TypeOK
      <3> QED
        BY <1>0, <2>3, <3>1, ClientTypes DEF GetLive, TypeOK
    <2>4. CASE Idle(c)
      BY <1>0, <2>4, ClientTypes DEF Idle, Go, TypeOK
    <2>5. CASE Broken(c)
      <3>1. <<>> \in Seq(Events)
        OBVIOUS
      <3>2. out' \in [Streams -> Seq(Events)]
        BY <1>0, <2>5, <3>1 DEF Broken, TypeOK
      <3> QED
        BY <1>0, <2>5, <3>2, ClientTypes DEF Broken, Go, TypeOK
    <2> QED
      BY <1>6, <2>1, <2>2, <2>3, <2>4, <2>5 DEF Handle
  <1>7. ASSUME NEW c \in Streams, Leave(c) PROVE TypeInv'
    BY <1>0, <1>7, ClientTypes DEF Leave, TypeOK
  <1>8. CASE UNCHANGED vars
    BY <1>0, <1>8, ClientTypes DEF vars, TypeOK, producerVars
  <1> QED
    BY <1>1, <1>b, <1>2, <1>3, <1>4, <1>5, <1>6, <1>7, <1>8, PutTypes DEF Next

(* The types. *)
THEOREM StreamTypes == Spec => []TypeOK
  <1>1. TypeInv => TypeOK
    BY DEF TypeInv
  <1> QED
    BY <1>1, TypeInit, TypeNext, PTL DEF Spec

-----------------------------------------------------------------------------
(* THE FIRST STREAM *)

(* An event that may come before another: not the same, and, unless k, not *)
(* run_finished before the output of a pump.  A sequence that may come     *)
(* before another, and a sequence in such an order.                        *)
Same(e, d) == e.from = d.from /\ e.nth = d.nth

Before(e, d, k) == ~Same(e, d) /\ (k \/ ~(Finished(e) /\ d.from \in Pumps))

Ahead(s, t, k) == \A i \in 1..Len(s), j \in 1..Len(t) : Before(s[i], t[j], k)

InLine(s, k) == \A i, j \in 1..Len(s) : i < j => Before(s[i], s[j], k)

(* Nothing comes before or after nothing. *)
LEMMA NothingAhead ==
  /\ \A k : InLine(<<>>, k)
  /\ \A s, k : Ahead(<<>>, s, k) /\ Ahead(s, <<>>, k)
  BY DEF InLine, Ahead

(* An event is added at the end. *)
LEMMA AddedInLine ==
  ASSUME NEW k, NEW s \in Seq(Events), NEW e \in Events, Ahead(s, <<e>>, k)
  PROVE  /\ InLine(s, k) => InLine(Append(s, e), k)
         /\ \A t \in Seq(Events) : Ahead(t, s, k) /\ Ahead(t, <<e>>, k) => Ahead(t, Append(s, e), k)
         /\ \A t \in Seq(Events) : Ahead(s, t, k) /\ Ahead(<<e>>, t, k) => Ahead(Append(s, e), t, k)
  <1>1. /\ Len(s) \in Nat /\ Len(Append(s, e)) = Len(s) + 1
        /\ \A i \in 1..Len(s) : Append(s, e)[i] = s[i]
        /\ Append(s, e)[Len(s) + 1] = e
    BY AppendProperties
  <1>2. /\ \A i \in 1..Len(s) : Before(s[i], e, k)
        /\ \A t : Ahead(t, <<e>>, k) => \A i \in 1..Len(t) : Before(t[i], e, k)
        /\ \A t : Ahead(<<e>>, t, k) => \A j \in 1..Len(t) : Before(e, t[j], k)
    BY DEF Ahead
  <1> DEFINE r == Append(s, e)
  <1>3. \A i \in 1..Len(r) : i \in 1..Len(s) \/ i = Len(s) + 1
    BY <1>1
  <1> HIDE DEF r
  <1>4. InLine(s, k) => InLine(r, k)
    BY <1>1, <1>2, <1>3 DEF InLine, r
  <1>5. \A t \in Seq(Events) : Ahead(t, s, k) /\ Ahead(t, <<e>>, k) => Ahead(t, r, k)
    BY <1>1, <1>2, <1>3 DEF Ahead, r
  <1>6. \A t \in Seq(Events) : Ahead(s, t, k) /\ Ahead(<<e>>, t, k) => Ahead(r, t, k)
    BY <1>1, <1>2, <1>3 DEF Ahead, r
  <1> QED
    BY <1>4, <1>5, <1>6 DEF r

(* An event is taken from the front. *)
LEMMA TakenFromLine ==
  ASSUME NEW k, NEW s \in Seq(Events), s # <<>>
  PROVE  /\ Head(s) \in Events /\ Tail(s) \in Seq(Events)
         /\ InLine(s, k) => InLine(Tail(s), k) /\ Ahead(<<Head(s)>>, Tail(s), k)
         /\ \A t \in Seq(Events) :
              Ahead(t, s, k) => Ahead(t, Tail(s), k) /\ Ahead(t, <<Head(s)>>, k)
         /\ \A t \in Seq(Events) :
              Ahead(s, t, k) => Ahead(Tail(s), t, k) /\ Ahead(<<Head(s)>>, t, k)
  <1>1. /\ Head(s) \in Events /\ Tail(s) \in Seq(Events)
        /\ Len(s) \in Nat /\ Len(Tail(s)) = Len(s) - 1 /\ Head(s) = s[1] /\ 1 \in 1..Len(s)
        /\ \A i \in 1..Len(Tail(s)) : Tail(s)[i] = s[i + 1]
    BY HeadTailProperties
  <1>2. \A i \in 1..Len(Tail(s)) : i + 1 \in 1..Len(s) /\ 1 < i + 1
    BY <1>1
  <1>3. InLine(s, k) => InLine(Tail(s), k) /\ Ahead(<<Head(s)>>, Tail(s), k)
    BY <1>1, <1>2 DEF InLine, Ahead
  <1>4. ASSUME NEW t \in Seq(Events), Ahead(t, s, k)
        PROVE  Ahead(t, Tail(s), k) /\ Ahead(t, <<Head(s)>>, k)
    BY <1>1, <1>2, <1>4 DEF Ahead
  <1>5. ASSUME NEW t \in Seq(Events), Ahead(s, t, k)
        PROVE  Ahead(Tail(s), t, k) /\ Ahead(<<Head(s)>>, t, k)
    BY <1>1, <1>2, <1>5 DEF Ahead
  <1> QED
    BY <1>1, <1>3, <1>4, <1>5

(* What has been put: an event before the last of its producer, or that    *)
(* one if the producer is through with it.                                 *)
HasBeenPut(e) ==
  \/ e.nth < count[e.from]
  \/ e.nth = count[e.from] /\ ppc[e.from] = "idle"

AllPut(s) == \A i \in 1..Len(s) : HasBeenPut(s[i])

(* The pumps are through when the worker has joined them, and run_finished *)
(* comes after that, or after an exception.                                *)
Settled ==
  /\ worker = "joined" => \A p \in Pumps : ppc[p] = "idle"
  /\ count[Worker] >= 1 => worker # "running"

(* Who has received something has connected. *)
Connected ==
  /\ \A c \in Streams : hpc[c] = "new" => out[c] = <<>>
  /\ got # <<>> => \E c \in Streams : hpc[c] # "new"

Raised == worker = "raised"

(* On its first stream the client's events, the one that is written, and   *)
(* those in the queue are one line of events that have been put.           *)
OneLine ==
  FirstStream =>
    /\ InLine(got, Raised) /\ InLine(queue, Raised) /\ Ahead(got, queue, Raised)
    /\ AllPut(got) /\ AllPut(queue)
    /\ \A c \in Streams :
         /\ hpc[c] # "replay" /\ Len(out[c]) <= 1
         /\ AllPut(out[c]) /\ Ahead(got, out[c], Raised) /\ Ahead(out[c], queue, Raised)

LineInv == TypeInv /\ Settled /\ Connected /\ OneLine

(* At first nothing has been put. *)
LEMMA LineInit == Init => LineInv
  <1> SUFFICES ASSUME Init PROVE LineInv
    OBVIOUS
  <1>1. TypeInv
    BY TypeInit
  <1>2. Settled /\ Connected
    BY DEF Init, Settled, Connected, Producers
  <1>3. OneLine
    BY NothingAhead DEF Init, OneLine, AllPut
  <1> QED
    BY <1>1, <1>2, <1>3 DEF LineInv

(* What has been put stays so. *)
LEMMA PutForGood ==
  ASSUME TypeInv, [Next]_vars
  PROVE  /\ \A e \in Events : HasBeenPut(e) => HasBeenPut(e)'
         /\ \A s \in Seq(Events) : AllPut(s) => AllPut(s)'
  <1>0. /\ count \in [Producers -> 0..Puts]
        /\ ppc \in [Producers -> {"idle", "number", "append", "cut", "live"}]
    BY DEF TypeInv, TypeOK
  <1>1. ASSUME NEW p \in Producers, StartPut(p) \/ Put(p)
        PROVE  \A q \in Producers :
                 \/ count'[q] = count[q] /\ (ppc[q] = "idle" => ppc'[q] = "idle")
                 \/ count'[q] = count[q] + 1
    <2>1. CASE StartPut(p)
      BY <1>0, <2>1 DEF StartPut, Step
    <2>2. CASE Put(p)
      BY <1>0, <2>2 DEF Put, Number, Record, CutLog, PutLive, Step
    <2> QED
      BY <1>1, <2>1, <2>2
  <1>2. \/ UNCHANGED producerVars
        \/ \E p \in Producers : StartPut(p) \/ Put(p)
    <2>1. CASE Next
      BY <2>1 DEF Next, ReadLine, PutFinished, Cancel, CancelFinished, Resume, PutOneMore,
         Producers, Settle, Raise, Evict, Connect, Handle, WriteOut, FilterLive, GetLive, Idle,
         Broken, Leave
    <2> QED
      BY <2>1 DEF vars, producerVars
  <1>3. \A q \in Producers :
          \/ count'[q] = count[q] /\ (ppc[q] = "idle" => ppc'[q] = "idle")
          \/ count'[q] = count[q] + 1
    BY <1>1, <1>2 DEF producerVars
  <1>4. \A e \in Events : HasBeenPut(e) => HasBeenPut(e)'
    BY <1>0, <1>3 DEF HasBeenPut, Events
  <1>5. \A s \in Seq(Events) : AllPut(s) => AllPut(s)'
    BY <1>4 DEF AllPut
  <1> QED
    BY <1>4, <1>5

(* An event that is on its way differs from all that have been put, and if *)
(* it is a pump's, none of those is run_finished unless the worker raised. *)
LEMMA OnTheWay ==
  ASSUME TypeInv, Settled, NEW p \in Producers, ppc[p] # "idle",
         NEW e \in Events, HasBeenPut(e)
  PROVE  Before(e, Event(p), Raised)
  <1>1. TypeOK /\ Counted
    BY DEF TypeInv
  <1>2. ~Same(e, Event(p))
    BY <1>1 DEF Same, Event, HasBeenPut, Events, TypeOK
  <1>3. ASSUME Finished(e), Event(p).from \in Pumps, ~Raised PROVE FALSE
    <2>1. count[Worker] >= 1 /\ p \in Pumps
      BY <1>1, <1>3 DEF Finished, HasBeenPut, Events, TypeOK, Counted, Producers, Event
    <2> QED
      BY <1>1, <1>3, <2>1 DEF Settled, Raised, TypeOK
  <1> QED
    BY <1>2, <1>3 DEF Before

(* The worker and who has connected. *)
LEMMA SettledNext == TypeInv /\ Settled /\ [Next]_vars => Settled'
  <1> SUFFICES ASSUME TypeInv, Settled, [Next]_vars PROVE Settled'
    OBVIOUS
  <1>0. TypeOK /\ Worker \in Producers /\ Worker \notin Pumps /\ Pumps \subseteq Producers
    BY EventStreamAssumption DEF TypeInv, Producers
  <1>1. ASSUME NEW p \in Pumps, ReadLine(p) PROVE Settled'
    BY <1>0, <1>1 DEF ReadLine, PutOneMore, StartPut, Step, Settled, TypeOK
  <1>a. ASSUME NEW c \in Callers, Cancel(c) \/ CancelFinished(c) \/ Resume(c) PROVE Settled'
    <2>1. c \in Producers /\ c # Worker /\ c \notin Pumps /\ worker' = worker /\ StartPut(c)
      BY <1>a, EventStreamAssumption DEF Cancel, CancelFinished, Resume, PutOneMore, Producers
    <2> QED
      BY <1>0, <2>1 DEF StartPut, Step, Settled, TypeOK
  <1>2. ASSUME NEW p \in Producers, Put(p) PROVE Settled'
    BY <1>0, <1>2 DEF Put, Number, Record, CutLog, PutLive, Step, Settled, TypeOK
  <1>3. CASE Settle \/ Raise
    BY <1>0, <1>3 DEF Settle, Raise, Settled, producerVars
  <1>4. CASE PutFinished
    BY <1>0, <1>4 DEF PutFinished, StartPut, Step, Settled, TypeOK
  <1>5. CASE UNCHANGED <<worker, producerVars>>
    BY <1>5 DEF Settled, producerVars
  <1>6. ASSUME NEW c \in Streams, Connect(c) \/ Handle(c) \/ Leave(c)
        PROVE  UNCHANGED <<worker, producerVars>>
    BY <1>6 DEF Connect, Handle, WriteOut, FilterLive, GetLive, Idle, Broken, Leave
  <1>7. CASE Evict \/ UNCHANGED vars
    BY <1>5, <1>7 DEF Evict, vars, producerVars
  <1> QED
    BY <1>1, <1>a, <1>2, <1>3, <1>4, <1>5, <1>6, <1>7 DEF Next

(* Who writes has connected. *)
LEMMA ConnectedNext == TypeInv /\ Connected /\ [Next]_vars => Connected'
  <1> SUFFICES ASSUME TypeInv, Connected, [Next]_vars PROVE Connected'
    OBVIOUS
  <1>0. TypeOK
    BY DEF TypeInv
  <1>1. CASE UNCHANGED <<hpc, out, got>>
    BY <1>1 DEF Connected
  <1>2. ASSUME NEW c \in Streams, Connect(c) PROVE Connected'
    BY <1>0, <1>2 DEF Connect, Go, Connected, TypeOK
  <1>3. ASSUME NEW c \in Streams, WriteOut(c) PROVE Connected'
    BY <1>0, <1>3 DEF WriteOut, Serving, Connected, TypeOK
  <1>4. ASSUME NEW c \in Streams, FilterLive(c) \/ GetLive(c) \/ Idle(c) \/ Broken(c)
        PROVE  Connected'
    BY <1>0, <1>4 DEF FilterLive, GetLive, Idle, Broken, Go, Serving, Connected, TypeOK
  <1>5. ASSUME NEW p \in Producers, Put(p) PROVE UNCHANGED <<hpc, out, got>>
    BY <1>5 DEF Put, Number, Record, CutLog, PutLive, clientVars
  <1>6. ASSUME NEW p, ReadLine(p) \/ Cancel(p) \/ CancelFinished(p) \/ Resume(p)
        PROVE  UNCHANGED <<hpc, out, got>>
    BY <1>6 DEF ReadLine, Cancel, CancelFinished, Resume, PutOneMore, StartPut, clientVars
  <1>7. CASE Settle \/ Raise \/ PutFinished \/ Evict \/ UNCHANGED vars
    BY <1>1, <1>7 DEF Settle, Raise, PutFinished, StartPut, Evict, vars, clientVars
  <1>8. ASSUME NEW c \in Streams, Leave(c) PROVE UNCHANGED <<hpc, out, got>>
    BY <1>8 DEF Leave
  <1> QED
    BY <1>1, <1>2, <1>3, <1>4, <1>5, <1>6, <1>7, <1>8 DEF Next, Handle

(* The line is kept. *)
LEMMA OneLineNext == LineInv /\ [Next]_vars => OneLine'
  <1> SUFFICES ASSUME LineInv, [Next]_vars, FirstStream' PROVE OneLine'
    BY DEF OneLine
  <1>0. /\ TypeInv /\ TypeOK /\ Settled /\ Connected
        /\ got \in Seq(Events) /\ queue \in Seq(Events)
        /\ out \in [Streams -> Seq(Events)]
    BY DEF LineInv, TypeInv, TypeOK
  <1>1. FirstStream
    <2>1. \A c \in Streams : hpc[c] # "new" => hpc'[c] # "new"
      BY <1>0 DEF Next, ReadLine, Cancel, CancelFinished, Resume, PutOneMore, Put, Number,
         Record, CutLog, PutLive, StartPut, Settle, Raise, PutFinished, Evict, Connect, Handle,
         WriteOut, FilterLive, GetLive, Idle, Broken, Leave, Go, clientVars, vars, TypeOK
    <2> QED
      BY <2>1 DEF FirstStream
  <1>a. PICK k : k = Raised'
    OBVIOUS
  <1>b. Raised => k
    BY <1>a DEF Next, ReadLine, Cancel, CancelFinished, Resume, PutOneMore, Put, Number,
       Record, CutLog, PutLive, StartPut, Settle, Raise, PutFinished, Evict, Connect, Handle,
       WriteOut, FilterLive, GetLive, Idle, Broken, Leave, vars, Raised
  <1>c. \A s, t : Ahead(s, t, Raised) => Ahead(s, t, k)
    BY <1>b DEF Ahead, Before
  <1>d. \A s : InLine(s, Raised) => InLine(s, k)
    BY <1>b DEF InLine, Before
  <1>2. /\ InLine(got, k) /\ InLine(queue, k) /\ Ahead(got, queue, k)
        /\ AllPut(got) /\ AllPut(queue)
        /\ \A c \in Streams :
             /\ hpc[c] # "replay" /\ Len(out[c]) <= 1
             /\ AllPut(out[c]) /\ Ahead(got, out[c], k) /\ Ahead(out[c], queue, k)
    BY <1>1, <1>c, <1>d DEF LineInv, OneLine
  <1>3. /\ \A e \in Events : HasBeenPut(e) => HasBeenPut(e)'
        /\ got' = got => AllPut(got)'
        /\ queue' = queue => AllPut(queue)'
        /\ \A c \in Streams : out'[c] = out[c] => AllPut(out[c])'
    BY <1>0, <1>2, PutForGood DEF AllPut
  <1> SUFFICES
        /\ InLine(got', k) /\ InLine(queue', k) /\ Ahead(got', queue', k)
        /\ AllPut(got)' /\ AllPut(queue)'
        /\ \A c \in Streams :
             /\ hpc'[c] # "replay" /\ Len(out'[c]) <= 1
             /\ AllPut(out[c])' /\ Ahead(got', out'[c], k) /\ Ahead(out'[c], queue', k)
    BY <1>a DEF OneLine
  <1> DEFINE Kept ==
        /\ InLine(got', k) /\ InLine(queue', k) /\ Ahead(got', queue', k)
        /\ AllPut(got)' /\ AllPut(queue)'
        /\ \A c \in Streams :
             /\ hpc'[c] # "replay" /\ Len(out'[c]) <= 1
             /\ AllPut(out[c])' /\ Ahead(got', out'[c], k) /\ Ahead(out'[c], queue', k)
  <1>4. CASE UNCHANGED <<hpc, out, got, queue>>
    BY <1>2, <1>3, <1>4
  <1>5. ASSUME NEW p \in Producers, PutLive(p) PROVE Kept
    <2>a. PICK e : e = Event(p)
      OBVIOUS
    <2>b. PICK kept : kept = IF Len(queue) >= QueueMax THEN Tail(queue) ELSE queue
      OBVIOUS
    <2>1. /\ queue' = Append(kept, e) /\ UNCHANGED <<hpc, out, got>>
          /\ e \in Events /\ HasBeenPut(e)'
      <3>1. e \in Events
        BY <1>0, <1>5, <2>a, EventTyped DEF PutLive
      <3>2. HasBeenPut(e)'
        BY <1>0, <1>5, <2>a DEF HasBeenPut, PutLive, Step, Event, TypeOK
      <3> QED
        BY <1>5, <2>a, <2>b, <3>1, <3>2 DEF PutLive, clientVars
    <2>2. \A d \in Events : HasBeenPut(d) => Before(d, e, k)
      BY <1>0, <1>5, <1>b, <2>a, OnTheWay DEF PutLive, Before
    <2>3. \A s \in Seq(Events) : AllPut(s) => Ahead(s, <<e>>, k)
      BY <2>2 DEF AllPut, Ahead
    <2>4. /\ kept \in Seq(Events) /\ InLine(kept, k) /\ Ahead(got, kept, k)
          /\ \A i \in 1..Len(kept) : HasBeenPut(kept[i])
          /\ \A c \in Streams : Ahead(out[c], kept, k)
      <3>1. CASE Len(queue) >= QueueMax
        <4>1. queue # <<>>
          BY <1>0, <3>1, EventStreamAssumption
        <4>2. \A i \in 1..Len(Tail(queue)) : HasBeenPut(Tail(queue)[i])
          BY <1>0, <1>2, <4>1, HeadTailProperties DEF AllPut
        <4> QED
          BY <1>0, <1>2, <2>b, <3>1, <4>1, <4>2, TakenFromLine
      <3>2. CASE ~(Len(queue) >= QueueMax)
        BY <1>0, <1>2, <2>b, <3>2 DEF AllPut
      <3> QED
        BY <3>1, <3>2
    <2>5. Ahead(kept, <<e>>, k)
      BY <2>3, <2>4 DEF AllPut
    <2>6. InLine(queue', k) /\ Ahead(got, queue', k) /\ \A c \in Streams : Ahead(out[c], queue', k)
      BY <1>0, <1>2, <2>1, <2>3, <2>4, <2>5, AddedInLine
    <2>7. AllPut(queue)'
      <3>1. /\ Len(queue') = Len(kept) + 1 /\ Len(kept) \in Nat
            /\ \A i \in 1..Len(kept) : queue'[i] = kept[i]
            /\ queue'[Len(kept) + 1] = e
        BY <2>1, <2>4, AppendProperties
      <3>2. \A i \in 1..Len(kept) : HasBeenPut(kept[i])'
        BY <1>3, <2>4
      <3>3. ASSUME NEW i \in 1..Len(queue') PROVE HasBeenPut(queue[i])'
        <4>1. queue'[i] = e \/ (i \in 1..Len(kept) /\ queue'[i] = kept[i])
          BY <3>1
        <4> QED
          BY <2>1, <3>2, <4>1
      <3> QED
        BY <3>3 DEF AllPut
    <2> QED
      BY <1>2, <1>3, <2>1, <2>6, <2>7
  <1>6. ASSUME NEW c \in Streams, Connect(c) PROVE Kept
    <2>1. \A d \in Streams : hpc[d] = "new"
      BY <1>0, <1>6 DEF Connect, Go, FirstStream, TypeOK
    <2>2. LastReceived = 0
      BY <1>0, <2>1, LastTyped DEF Connected
    <2>3. UNCHANGED <<got, queue, out>> /\ hpc' = [hpc EXCEPT ![c] = "live"]
      BY <1>6, <2>2 DEF Connect, Go
    <2>4. \A d \in Streams : hpc'[d] # "replay"
      BY <1>0, <2>1, <2>3 DEF TypeOK
    <2> QED
      BY <1>2, <1>3, <2>3, <2>4
  <1>7. ASSUME NEW c \in Streams, WriteOut(c) PROVE Kept
    <2>1. /\ UNCHANGED <<hpc, queue>> /\ out[c] # <<>>
          /\ out' = [out EXCEPT ![c] = Tail(out[c])]
          /\ got' = got \/ got' = Append(got, Head(out[c]))
      BY <1>7 DEF WriteOut
    <2>2. PICK e : e = Head(out[c])
      OBVIOUS
    <2>3. /\ e \in Events /\ Ahead(got, <<e>>, k) /\ Ahead(<<e>>, queue, k)
          /\ Len(out[c]) = 1 /\ Tail(out[c]) = <<>> /\ e = out[c][1]
      BY <1>0, <1>2, <2>1, <2>2, TakenFromLine
    <2>4. HasBeenPut(e)'
      BY <1>2, <1>3, <2>3 DEF AllPut
    <2>5. \A d \in Streams : out'[d] = <<>>
      BY <1>0, <1>1, <1>7, <2>1, <2>3 DEF WriteOut, Serving, FirstStream, Connected, TypeOK
    <2>6. \A d \in Streams : /\ Len(out'[d]) <= 1 /\ AllPut(out[d])'
                             /\ Ahead(got', out'[d], k) /\ Ahead(out'[d], queue', k)
      BY <2>5, NothingAhead DEF AllPut
    <2>7. InLine(got', k) /\ Ahead(got', queue', k) /\ AllPut(got)'
      <3>1. CASE got' = got
        BY <1>2, <1>3, <2>1, <3>1
      <3>2. CASE got' = Append(got, e)
        <4>1. InLine(got', k) /\ Ahead(got', queue', k)
          BY <1>0, <1>2, <2>1, <2>3, <3>2, AddedInLine
        <4>2. /\ Len(got') = Len(got) + 1 /\ Len(got) \in Nat
              /\ \A i \in 1..Len(got) : got'[i] = got[i]
              /\ got'[Len(got) + 1] = e
          BY <1>0, <2>3, <3>2, AppendProperties
        <4>3. ASSUME NEW i \in 1..Len(got') PROVE HasBeenPut(got[i])'
          <5>1. CASE i = Len(got) + 1
            BY <2>4, <4>2, <5>1
          <5>2. CASE i \in 1..Len(got)
            <6>1. HasBeenPut(got[i]) /\ got[i] \in Events
              BY <1>0, <1>2, <5>2 DEF AllPut
            <6>2. PICK d : d = got[i]
              OBVIOUS
            <6>3. HasBeenPut(d)' /\ got'[i] = d
              BY <1>3, <4>2, <5>2, <6>1, <6>2
            <6> QED
              BY <6>3
          <5> QED
            BY <4>2, <5>1, <5>2
        <4> QED
          BY <4>1, <4>3 DEF AllPut
      <3> QED
        BY <2>1, <2>2, <3>1, <3>2
    <2> QED
      BY <1>2, <1>3, <2>1, <2>6, <2>7
  <1>8. ASSUME NEW c \in Streams, GetLive(c) PROVE Kept
    <2>1. /\ UNCHANGED <<hpc, got>> /\ queue # <<>>
          /\ queue' = Tail(queue)
      BY <1>8 DEF GetLive
    <2>2. PICK e : e = Head(queue)
      OBVIOUS
    <2>3. /\ e \in Events /\ e = queue[1] /\ 1 \in 1..Len(queue)
          /\ InLine(queue', k) /\ Ahead(got, queue', k) /\ Ahead(got, <<e>>, k)
          /\ Ahead(<<e>>, queue', k)
      BY <1>0, <1>2, <2>1, <2>2, TakenFromLine
    <2>4. HasBeenPut(e)'
      BY <1>2, <1>3, <2>3 DEF AllPut
    <2>5. /\ out'[c] = <<e>>
          /\ \A d \in Streams \ {c} : out'[d] = <<>>
      BY <1>0, <1>1, <1>8, <2>2 DEF GetLive, FirstStream, Connected, TypeOK
    <2>6. \A d \in Streams : /\ Len(out'[d]) <= 1
                             /\ Ahead(got', out'[d], k) /\ Ahead(out'[d], queue', k)
      <3>1. /\ Len(out'[c]) <= 1
            /\ Ahead(got', out'[c], k) /\ Ahead(out'[c], queue', k)
        BY <2>1, <2>3, <2>5
      <3>2. \A d \in Streams \ {c} : /\ Len(out'[d]) <= 1
                                     /\ Ahead(got', out'[d], k) /\ Ahead(out'[d], queue', k)
        BY <2>5, NothingAhead
      <3> QED
        BY <3>1, <3>2
    <2>7. \A d \in Streams : AllPut(out[d])'
      BY <2>4, <2>5 DEF AllPut
    <2>8. AllPut(queue)'
      <3>1. \A i \in 1..Len(queue') :
              i + 1 \in 1..Len(queue) /\ queue'[i] = queue[i + 1]
        BY <1>0, <2>1, HeadTailProperties
      <3>2. ASSUME NEW i \in 1..Len(queue') PROVE HasBeenPut(queue[i])'
        <4>1. HasBeenPut(queue[i + 1]) /\ queue[i + 1] \in Events
          BY <1>0, <1>2, <3>1 DEF AllPut
        <4>2. PICK d : d = queue[i + 1]
          OBVIOUS
        <4>3. HasBeenPut(d)' /\ queue'[i] = d
          BY <1>3, <3>1, <4>1, <4>2
        <4> QED
          BY <4>3
      <3> QED
        BY <3>2 DEF AllPut
    <2> QED
      BY <1>2, <1>3, <2>1, <2>3, <2>6, <2>7, <2>8
  <1>9. CASE Evict
    BY <1>2, <1>3, <1>9, NothingAhead DEF Evict, clientVars, AllPut
  <1>10. ASSUME NEW c \in Streams, Idle(c) \/ Broken(c) PROVE Kept
    <2>1. UNCHANGED <<got, queue>> /\ \A d \in Streams : hpc'[d] # "replay"
      BY <1>0, <1>2, <1>10 DEF Idle, Broken, Go, TypeOK
    <2>2. \A d \in Streams : out'[d] = out[d] \/ out'[d] = <<>>
      BY <1>0, <1>10 DEF Idle, Broken, TypeOK
    <2>3. \A d \in Streams : /\ Len(out'[d]) <= 1 /\ AllPut(out[d])'
                             /\ Ahead(got', out'[d], k) /\ Ahead(out'[d], queue', k)
      BY <1>2, <1>3, <2>1, <2>2, NothingAhead DEF AllPut
    <2> QED
      BY <1>2, <1>3, <2>1, <2>3
  <1>11. ASSUME NEW c \in Streams PROVE ~FilterLive(c)
    BY <1>2 DEF FilterLive
  <1>12. ASSUME NEW p \in Producers, Number(p) \/ Record(p) \/ CutLog(p)
         PROVE  UNCHANGED <<hpc, out, got, queue>>
    BY <1>12 DEF Number, Record, CutLog, clientVars
  <1>13. ASSUME NEW p, ReadLine(p) \/ Cancel(p) \/ CancelFinished(p) \/ Resume(p)
         PROVE  UNCHANGED <<hpc, out, got, queue>>
    BY <1>13 DEF ReadLine, Cancel, CancelFinished, Resume, PutOneMore, StartPut, clientVars
  <1>14. CASE Settle \/ Raise \/ PutFinished \/ UNCHANGED vars
    BY <1>4, <1>14 DEF Settle, Raise, PutFinished, StartPut, vars, clientVars
  <1>15. ASSUME NEW c \in Streams, Leave(c) PROVE UNCHANGED <<hpc, out, got, queue>>
    BY <1>15 DEF Leave
  <1> QED
    BY <1>4, <1>5, <1>6, <1>7, <1>8, <1>9, <1>10, <1>11, <1>12, <1>13, <1>14, <1>15
    DEF Next, Put, Handle

(* The line is kept by every step. *)
LEMMA LineNext == LineInv /\ [Next]_vars => LineInv'
  BY TypeNext, SettledNext, ConnectedNext, OneLineNext DEF LineInv

(* No event is received twice on the first stream. *)
THEOREM FirstStreamOnce == Spec => []LiveOnce
  <1>1. LineInv => LiveOnce
    <2> SUFFICES ASSUME LineInv, FirstStream PROVE
                   \A i, j \in DOMAIN got : got[i] = got[j] => i = j
      BY DEF LiveOnce
    <2>1. got \in Seq(Events) /\ InLine(got, Raised)
      BY DEF LineInv, TypeInv, TypeOK, OneLine
    <2>2. DOMAIN got = 1..Len(got) /\ Len(got) \in Nat
      BY <2>1
    <2>3. \A i, j \in 1..Len(got) : i < j => got[i] # got[j]
      BY <2>1 DEF InLine, Before, Same
    <2> QED
      BY <2>2, <2>3
  <1> QED
    BY <1>1, LineInit, LineNext, PTL DEF Spec

(* On the first stream no output of the CLI comes after run_finished,      *)
(* unless the worker raised.                                               *)
THEOREM FinishedEnds == Spec => []FinishedIsLast
  <1>1. LineInv => FinishedIsLast
    <2> SUFFICES ASSUME LineInv, FirstStream, ~Raised, NEW i \in DOMAIN got, Finished(got[i])
                 PROVE  /\ \A j \in DOMAIN got : j > i => got[j].from \notin Pumps
                        /\ \A j \in DOMAIN queue : queue[j].from \notin Pumps
      BY DEF FinishedIsLast, Raised
    <2>1. /\ got \in Seq(Events) /\ queue \in Seq(Events)
          /\ InLine(got, Raised) /\ Ahead(got, queue, Raised)
      BY DEF LineInv, TypeInv, TypeOK, OneLine
    <2>2. DOMAIN got = 1..Len(got) /\ DOMAIN queue = 1..Len(queue) /\ Len(got) \in Nat
      BY <2>1
    <2>3. \A j \in 1..Len(got) : j > i => got[j].from \notin Pumps
      BY <2>1, <2>2 DEF InLine, Before
    <2>4. \A j \in 1..Len(queue) : queue[j].from \notin Pumps
      BY <2>1, <2>2 DEF Ahead, Before
    <2> QED
      BY <2>2, <2>3, <2>4
  <1> QED
    BY <1>1, LineInit, LineNext, PTL DEF Spec

-----------------------------------------------------------------------------
(* THE NUMBERS *)

(* One thread at a time puts, nothing was dropped, and no two handlers     *)
(* were at the queue.                                                      *)
Undisturbed == OneWriter /\ ~lossy

(* One stream at a time is served. *)
OneServed ==
  ~lossy => \A c, d \in Streams : Serving(c) /\ Serving(d) => c = d

(* How many events have reached the queue, and how many have left it. *)
Behind == \E p \in Producers : ppc[p] \in {"cut", "live"}
Published == IF Behind THEN Len(log) - 1 ELSE Len(log)
Gone == Published - Len(queue)

(* The log is numbered from 1 on, and the queue holds the latest of what   *)
(* has reached it.                                                         *)
InOrder ==
  Undisturbed =>
    /\ Run(log, 0)
    /\ Run(queue, Gone) /\ Len(queue) <= Published
    /\ \A p \in Producers :
         /\ ppc[p] = "append" => seq[p] = Len(log) + 1
         /\ ppc[p] \in {"cut", "live"} => seq[p] = Len(log) /\ Len(log) > 0

(* What a client that has the first event has received below n. *)
Received == {got[i].seq : i \in 1..Len(got)}
HasAll(n) == 1 \in Received => 1..n \subseteq Received

(* What is written to a client on a live stream is the last that left the  *)
(* queue.                                                                  *)
LiveInStep(c) ==
  /\ Len(out[c]) <= 1
  /\ \A i \in 1..Len(out[c]) : out[c][i].seq = Gone
  /\ got # <<>> => Gone - Len(out[c]) >= 1
  /\ HasAll(Gone - Len(out[c]))

(* A replay goes on from x, which is not below what the client had, to at  *)
(* least what has left the queue.                                          *)
ReplayInStep(c, x) ==
  /\ 1 <= after[c] /\ after[c] <= x /\ got # <<>>
  /\ Run(out[c], x)
  /\ Gone <= x + Len(out[c]) /\ x + Len(out[c]) <= Len(log)
  /\ HasAll(x)

InStep ==
  Undisturbed =>
    /\ got # <<>> => Published >= 1
    /\ \A n \in Received : n <= Len(log) /\ HasAll(n)
    /\ \A c \in alive :
         /\ hpc[c] = "live" => LiveInStep(c)
         /\ hpc[c] = "replay" => \E x \in Nat : ReplayInStep(c, x)

NumberInv == TypeInv /\ Settled /\ Connected /\ OneServed /\ InOrder /\ InStep

(* At first there is nothing to number. *)
LEMMA NumberInit == Init => NumberInv
  <1> SUFFICES ASSUME Init PROVE NumberInv
    OBVIOUS
  <1>1. TypeInv /\ Settled /\ Connected
    BY LineInit DEF LineInv
  <1>2. OneServed
    BY DEF Init, OneServed, Serving
  <1>3. ~Behind /\ Len(log) = 0 /\ Len(queue) = 0 /\ Len(got) = 0
    BY DEF Init, Behind
  <1>4. Published = 0 /\ Gone = 0
    BY <1>3 DEF Published, Gone
  <1>5. InOrder
    BY <1>3, <1>4 DEF Init, InOrder, Run
  <1>6. InStep
    BY <1>3 DEF Init, InStep, Received
  <1> QED
    BY <1>1, <1>2, <1>5, <1>6 DEF NumberInv

(* What disturbs the numbers stays. *)
LEMMA DisturbedForGood == TypeInv /\ [Next]_vars /\ Undisturbed' => Undisturbed
  <1> SUFFICES ASSUME TypeInv, [Next]_vars, Undisturbed' PROVE Undisturbed
    OBVIOUS
  <1>0. TypeOK
    BY DEF TypeInv
  <1>a. worker = "raised" => worker' = "raised"
    BY DEF Next, ReadLine, Cancel, CancelFinished, Resume, PutOneMore, Put, Number, Record,
       CutLog, PutLive, StartPut, Settle, Raise, PutFinished, Evict, Connect, Handle, WriteOut,
       FilterLive, GetLive, Idle, Broken, Leave, vars
  <1>b. lossy => lossy'
    BY DEF Next, ReadLine, Cancel, CancelFinished, Resume, PutOneMore, Put, Number, Record,
       CutLog, PutLive, StartPut, Settle, Raise, PutFinished, Evict, Connect, Handle, WriteOut,
       FilterLive, GetLive, Idle, Broken, Leave, vars
  <1>2. \/ count' = count
        \/ \E p \in Producers : StartPut(p)
    BY EventStreamAssumption
    DEF Next, ReadLine, Cancel, CancelFinished, Resume, PutOneMore, Put, Number, Record,
       CutLog, PutLive, Settle, Raise, PutFinished, Evict, Connect, Handle, WriteOut,
       FilterLive, GetLive, Idle, Broken, Leave, producerVars, vars, Producers
  <1>3. \A p \in Producers :
          count[p] \in 0..Puts /\ (count'[p] = count[p] \/ count'[p] = count[p] + 1)
    <2>1. count \in [Producers -> 0..Puts] /\ Puts \in Nat
      BY <1>0, EventStreamAssumption DEF TypeOK
    <2> QED
      BY <1>2, <2>1 DEF StartPut
  <1>4. (\A p, q \in Pumps : count[p] > 0 /\ count[q] > 0 => p = q) /\ Untouched
    <2>1. \A p \in Pumps \cup Callers : count'[p] > 0 \/ count[p] = 0
      <3> TAKE p \in Pumps \cup Callers
      <3>1. count[p] \in 0..Puts /\ (count'[p] = count[p] \/ count'[p] = count[p] + 1)
        BY <1>3 DEF Producers
      <3> QED
        BY <3>1
    <2> QED
      BY <1>3, <2>1 DEF Undisturbed, OneWriter, Untouched, Producers
  <1> QED
    BY <1>0, <1>a, <1>b, <1>4 DEF Undisturbed, OneWriter, TypeOK

(* One client is served. *)
LEMMA OneServedNext == TypeInv /\ OneServed /\ [Next]_vars => OneServed'
  <1> SUFFICES ASSUME TypeInv, OneServed, [Next]_vars, ~lossy' PROVE OneServed'
    BY DEF OneServed
  <1>0. hpc \in [Streams -> {"new", "replay", "live", "closed"}]
    BY DEF TypeInv, TypeOK
  <1>1. ~lossy
    BY DEF Next, ReadLine, Cancel, CancelFinished, Resume, PutOneMore, Put, Number, Record,
       CutLog, PutLive, StartPut, Settle, Raise, PutFinished, Evict, Connect, Handle, WriteOut,
       FilterLive, GetLive, Idle, Broken, Leave, vars
  <1>2. \/ \A c \in Streams : hpc'[c] \in {"replay", "live"} => Serving(c)
        \/ \E c \in Streams : Connect(c)
    BY <1>0 DEF Next, ReadLine, Cancel, CancelFinished, Resume, PutOneMore, Put, Number,
       Record, CutLog, PutLive, StartPut, Settle, Raise, PutFinished, Evict, Handle, WriteOut,
       FilterLive, GetLive, Idle, Broken, Leave, Go, Serving, clientVars, vars
  <1>3. ASSUME NEW c \in Streams, Connect(c)
        PROVE  \A d \in Streams : hpc'[d] \in {"replay", "live"} => d = c
    BY <1>0, <1>3 DEF Connect, Go, Serving
  <1> QED
    BY <1>1, <1>2, <1>3 DEF OneServed, Serving

(* While nothing disturbs the numbers, one thread at a time puts. *)
LEMMA OneAtWork ==
  ASSUME TypeInv, Settled, Undisturbed,
         NEW p \in Producers, NEW q \in Producers, ppc[p] # "idle", ppc[q] # "idle"
  PROVE  p = q
  <1>1. count[p] > 0 /\ count[q] > 0 /\ p \notin Callers /\ q \notin Callers
    BY DEF TypeInv, TypeOK, Numbered, Undisturbed, OneWriter, Untouched
  <1>2. ASSUME ppc[Worker] # "idle" PROVE \A r \in Pumps : ppc[r] = "idle"
    <2>1. worker = "joined"
      BY <1>2 DEF TypeInv, TypeOK, Numbered, Settled, Undisturbed, OneWriter, Producers
    <2> QED
      BY <2>1 DEF Settled
  <1> QED
    BY <1>1, <1>2 DEF Undisturbed, OneWriter, Producers

(* What the numbers of the queue say. *)
LEMMA NumberTypes ==
  ASSUME TypeInv
  PROVE  /\ log \in Seq(Events) /\ queue \in Seq(Events) /\ got \in Seq(Events)
         /\ out \in [Streams -> Seq(Events)]
         /\ Len(log) \in Nat /\ Len(queue) \in Nat /\ Published \in Int /\ Gone \in Int
         /\ \A e \in Events : e.seq \in Nat /\ e.seq >= 1
  <1>1. TypeOK
    BY DEF TypeInv
  <1>2. log \in Seq(Events) /\ queue \in Seq(Events) /\ got \in Seq(Events)
        /\ out \in [Streams -> Seq(Events)]
    BY <1>1 DEF TypeOK
  <1>3. Len(log) \in Nat /\ Len(queue) \in Nat
    BY <1>2
  <1>4. Published \in Int /\ Gone \in Int
    BY <1>3 DEF Published, Gone
  <1>5. \A e \in Events : e.seq \in Nat /\ e.seq >= 1
    BY DEF Events
  <1> QED
    BY <1>2, <1>3, <1>4, <1>5

(* The steps of the threads that put keep the numbers in order, and take   *)
(* nothing from the queue.                                                 *)
PutsInOrder ==
  InOrder' /\ Gone' = Gone /\ Published' >= Published /\ Len(log') >= Len(log)

(* The four steps of put. *)
LEMMA PutKeepsOrder ==
  ASSUME NumberInv, Undisturbed, Undisturbed', NEW p \in Producers, Put(p)
  PROVE  PutsInOrder
  <1>0. /\ TypeInv /\ TypeOK /\ Settled /\ OneServed
        /\ ppc \in [Producers -> {"idle", "number", "append", "cut", "live"}]
        /\ seq \in [Producers -> Nat]
        /\ log \in Seq(Events) /\ queue \in Seq(Events)
        /\ Len(log) \in Nat /\ Len(queue) \in Nat
        /\ Published \in Int /\ Gone \in Int
    BY NumberTypes DEF NumberInv, TypeInv, TypeOK
  <1>1. /\ Run(log, 0) /\ Run(queue, Gone) /\ Len(queue) <= Published
        /\ \A q \in Producers :
             /\ ppc[q] = "append" => seq[q] = Len(log) + 1
             /\ ppc[q] \in {"cut", "live"} => seq[q] = Len(log) /\ Len(log) > 0
    BY DEF NumberInv, InOrder
  <1>2. ppc[p] # "idle"
    BY DEF Put, Number, Record, CutLog, PutLive
  <1>3. \A q \in Producers \ {p} : ppc[q] = "idle"
    BY <1>0, <1>2, OneAtWork
  <1>4. /\ Behind <=> ppc[p] \in {"cut", "live"}
        /\ Behind' <=> ppc'[p] \in {"cut", "live"}
        /\ \A q \in Producers \ {p} : ppc'[q] = "idle"
    <2>1. \A q \in Producers \ {p} : ppc'[q] = "idle"
      BY <1>0, <1>3 DEF Put, Number, Record, CutLog, PutLive, Step
    <2> QED
      BY <1>3, <2>1 DEF Behind
  <1>5. CASE Number(p)
    <2>1. /\ UNCHANGED <<log, queue>> /\ ppc[p] = "number" /\ ppc'[p] = "append"
          /\ seq'[p] = Len(log) + 1
      BY <1>0, <1>5 DEF Number, Step
    <2>2. Published' = Published /\ Gone' = Gone
      BY <1>4, <2>1 DEF Published, Gone
    <2>3. InOrder'
      BY <1>1, <1>4, <2>1, <2>2 DEF InOrder
    <2> QED
      BY <1>0, <2>1, <2>2, <2>3 DEF PutsInOrder
  <1>6. CASE Record(p)
    <2>1. /\ log' = Append(log, Event(p)) /\ queue' = queue /\ seq' = seq
          /\ ppc[p] = "append" /\ ppc'[p] = "cut"
      BY <1>0, <1>6 DEF Record, Step
    <2>2. /\ Len(log') = Len(log) + 1
          /\ \A i \in 1..Len(log) : log'[i] = log[i]
          /\ log'[Len(log) + 1].seq = Len(log) + 1
      <3>1. Event(p) \in Events /\ Event(p).seq = Len(log) + 1
        BY <1>0, <1>1, <2>1, EventTyped DEF Event
      <3> QED
        BY <1>0, <2>1, <3>1, AppendProperties
    <2>3. Run(log', 0)
      BY <1>0, <1>1, <2>2 DEF Run
    <2>4. Published' = Published /\ Gone' = Gone
      BY <1>0, <1>4, <2>1, <2>2 DEF Published, Gone
    <2>5. seq'[p] = Len(log') /\ Len(log') > 0
      BY <1>0, <1>1, <2>1, <2>2
    <2>6. InOrder'
      BY <1>1, <1>4, <2>1, <2>3, <2>4, <2>5 DEF InOrder
    <2> QED
      BY <1>0, <2>2, <2>4, <2>6 DEF PutsInOrder
  <1>7. CASE CutLog(p)
    <2>1. /\ UNCHANGED <<log, queue, seq>> /\ ppc[p] = "cut" /\ ppc'[p] = "live"
      BY <1>0, <1>7 DEF CutLog, Step, Undisturbed
    <2>2. Published' = Published /\ Gone' = Gone
      BY <1>4, <2>1 DEF Published, Gone
    <2>3. InOrder'
      BY <1>1, <1>4, <2>1, <2>2 DEF InOrder
    <2> QED
      BY <1>0, <2>1, <2>2, <2>3 DEF PutsInOrder
  <1>8. CASE PutLive(p)
    <2>1. /\ queue' = Append(queue, Event(p)) /\ log' = log
          /\ ppc[p] = "live" /\ ppc'[p] = "idle"
      BY <1>0, <1>8 DEF PutLive, Step, Undisturbed
    <2>2. Published = Len(log) - 1 /\ Published' = Len(log)
      BY <1>4, <2>1 DEF Published
    <2>3. /\ Len(queue') = Len(queue) + 1
          /\ \A i \in 1..Len(queue) : queue'[i] = queue[i]
          /\ queue'[Len(queue) + 1].seq = Len(log)
      <3>1. Event(p) \in Events /\ Event(p).seq = Len(log)
        BY <1>0, <1>1, <2>1, EventTyped DEF Event
      <3> QED
        BY <1>0, <2>1, <3>1, AppendProperties
    <2>4. Gone' = Gone /\ Gone + Len(queue) + 1 = Len(log)
      BY <1>0, <2>2, <2>3 DEF Gone
    <2>5. Run(queue', Gone)
      <3>1. ASSUME NEW i \in 1..Len(queue') PROVE queue'[i].seq = Gone + i
        <4>1. CASE i \in 1..Len(queue)
          BY <1>1, <2>3, <4>1 DEF Run
        <4>2. CASE i = Len(queue) + 1
          BY <1>0, <2>3, <2>4, <4>2
        <4> QED
          BY <1>0, <2>3, <4>1, <4>2
      <3> QED
        BY <3>1 DEF Run
    <2>6. InOrder'
      BY <1>0, <1>1, <1>4, <2>1, <2>2, <2>3, <2>4, <2>5 DEF InOrder
    <2> QED
      BY <1>0, <2>1, <2>2, <2>4, <2>6 DEF PutsInOrder
  <1> QED
    BY <1>5, <1>6, <1>7, <1>8 DEF Put

(* A thread that begins to put, and a step that leaves the producers and   *)
(* the queue alone.                                                        *)
LEMMA OthersKeepOrder ==
  ASSUME NumberInv, Undisturbed, UNCHANGED <<log, queue, seq>>,
         \/ ppc' = ppc
         \/ \E p \in Producers : ppc[p] = "idle" /\ ppc' = [ppc EXCEPT ![p] = "number"]
  PROVE  PutsInOrder
  <1>0. /\ TypeInv
        /\ ppc \in [Producers -> {"idle", "number", "append", "cut", "live"}]
        /\ Len(log) \in Nat /\ Published \in Int
    BY NumberTypes DEF NumberInv, TypeInv, TypeOK
  <1>1. \A q \in Producers : ppc'[q] \in {"append", "cut", "live"} => ppc'[q] = ppc[q]
    BY <1>0
  <1>2. Behind' <=> Behind
    BY <1>0 DEF Behind
  <1>3. Published' = Published /\ Gone' = Gone
    BY <1>2 DEF Published, Gone
  <1> QED
    BY <1>0, <1>1, <1>3 DEF PutsInOrder, InOrder, NumberInv

(* In such a step every stream stays in step. *)
LEMMA PutsInStep ==
  ASSUME NumberInv, Undisturbed, PutsInOrder, UNCHANGED <<hpc, out, after, got>>,
         alive' \subseteq alive, alive \subseteq Streams
  PROVE  InStep'
  <1>0. /\ TypeInv /\ Len(log) \in Nat /\ Published \in Int /\ Gone \in Int
        /\ Published' \in Int /\ Len(log') \in Int /\ Gone' = Gone
        /\ out \in [Streams -> Seq(Events)]
    BY NumberTypes DEF NumberInv, PutsInOrder, Published
  <1>1. /\ got # <<>> => Published >= 1
        /\ \A n \in Received : n <= Len(log) /\ HasAll(n)
        /\ \A c \in alive :
             /\ hpc[c] = "live" => LiveInStep(c)
             /\ hpc[c] = "replay" => \E x \in Nat : ReplayInStep(c, x)
    BY DEF NumberInv, InStep
  <1>2. Received' = Received
    BY DEF Received
  <1>3. ASSUME NEW c \in alive, hpc[c] = "live" PROVE LiveInStep(c)'
    BY <1>0, <1>1, <1>2, <1>3 DEF LiveInStep, HasAll
  <1>4. ASSUME NEW c \in alive, NEW x \in Nat, ReplayInStep(c, x) PROVE ReplayInStep(c, x)'
    <2>1. Len(out[c]) \in Nat
      BY <1>0
    <2> QED
      BY <1>0, <1>2, <1>4, <2>1 DEF ReplayInStep, HasAll, PutsInOrder
  <1>5. \A n \in Received : n \in Int
    <2>1. got \in Seq(Events) /\ \A e \in Events : e.seq \in Nat
      BY <1>0, NumberTypes
    <2> QED
      BY <2>1 DEF Received
  <1>6. \A n \in Received' : n <= Len(log') /\ HasAll(n)'
    BY <1>0, <1>1, <1>2, <1>5 DEF HasAll, PutsInOrder
  <1>7. got' # <<>> => Published' >= 1
    BY <1>0, <1>1 DEF PutsInOrder
  <1> QED
    BY <1>1, <1>3, <1>4, <1>6, <1>7 DEF InStep

(* What InStep says of the stream of c when no other one is served. *)
StreamInStep(c) ==
  /\ got # <<>> => Published >= 1
  /\ \A n \in Received : n <= Len(log) /\ HasAll(n)
  /\ c \in alive /\ hpc[c] = "live" => LiveInStep(c)
  /\ c \in alive /\ hpc[c] = "replay" => \E x \in Nat : ReplayInStep(c, x)

(* InStep is about the stream that is served. *)
LEMMA ServedInStep ==
  ASSUME NEW c \in Streams, StreamInStep(c)', OneServed', Serving(c)' \/ hpc'[c] = "closed",
         \A d \in Streams \ {c} : d \in alive' => ~Serving(d)', alive' \subseteq Streams
  PROVE  InStep'
  BY DEF StreamInStep, InStep, Serving

(* One event more that the client has. *)
LEMMA ReceivedMore ==
  ASSUME TypeInv, NEW e \in Events, got' = Append(got, e)
  PROVE  /\ Received' = Received \cup {e.seq}
         /\ got' # <<>>
  <1>1. got \in Seq(Events)
    BY NumberTypes
  <1>2. /\ Len(got') = Len(got) + 1 /\ Len(got) \in Nat
        /\ \A i \in 1..Len(got) : got'[i] = got[i]
        /\ got'[Len(got) + 1] = e
        /\ got' # <<>>
    BY <1>1, AppendProperties
  <1>3. 1..Len(got') = (1..Len(got)) \cup {Len(got) + 1}
    BY <1>2
  <1>4. {got'[i].seq : i \in 1..Len(got')}
          = {got'[i].seq : i \in 1..Len(got)} \cup {got'[Len(got) + 1].seq}
    BY <1>3
  <1>5. {got'[i].seq : i \in 1..Len(got)} = {got[i].seq : i \in 1..Len(got)}
    BY <1>2
  <1> QED
    BY <1>2, <1>4, <1>5 DEF Received

(* The steps of the handlers: the numbers stay in order and the stream in  *)
(* step.                                                                   *)
HandlerInStep(c) == InOrder' /\ StreamInStep(c)'

(* A client connects, with a replay or without one. *)
LEMMA ConnectInStep ==
  ASSUME NumberInv, Undisturbed, NEW c \in Streams, Connect(c)
  PROVE  HandlerInStep(c)
  <1>0. /\ TypeInv /\ log \in Seq(Events) /\ queue \in Seq(Events) /\ got \in Seq(Events)
        /\ out \in [Streams -> Seq(Events)]
        /\ Len(log) \in Nat /\ Len(queue) \in Nat /\ Published \in Int /\ Gone \in Int
        /\ hpc \in [Streams -> {"new", "replay", "live", "closed"}]
        /\ after \in [Streams -> Nat]
    BY NumberTypes DEF NumberInv, TypeInv, TypeOK
  <1>1. UNCHANGED <<log, queue, ppc, seq, got>> /\ hpc[c] = "new"
    BY DEF Connect, producerVars
  <1>2. Published' = Published /\ Gone' = Gone /\ Received' = Received
    BY <1>1 DEF Published, Gone, Behind, Received
  <1>3. /\ Run(log, 0) /\ Len(queue) <= Published
        /\ got # <<>> => Published >= 1
        /\ \A n \in Received : n <= Len(log) /\ HasAll(n)
    BY DEF NumberInv, InOrder, InStep
  <1>4. InOrder'
    BY <1>1, <1>2 DEF NumberInv, InOrder
  <1>5. /\ got' # <<>> => Published' >= 1
        /\ \A n \in Received' : n <= Len(log') /\ HasAll(n)'
    BY <1>1, <1>2, <1>3 DEF HasAll
  <1>6. CASE LastReceived = 0
    <2>1. got = <<>>
      BY <1>0, <1>6, LastTyped
    <2>2. Len(got) = 0 /\ Received' = {}
      <3>1. Len(got) = 0 /\ 1..Len(got) = {}
        BY <2>1
      <3>2. Received = {}
        BY <3>1 DEF Received
      <3> QED
        BY <1>2, <3>1, <3>2
    <2>3. out'[c] = <<>> /\ hpc'[c] = "live"
      BY <1>0, <1>1, <1>6 DEF Connect, Go, NumberInv, Connected
    <2>4. LiveInStep(c)'
      BY <1>0, <1>1, <1>2, <2>1, <2>2, <2>3 DEF LiveInStep, HasAll
    <2> QED
      BY <1>4, <1>5, <2>3, <2>4 DEF HandlerInStep, StreamInStep
  <1>7. CASE LastReceived # 0
    <2>1. /\ got # <<>> /\ LastReceived \in Nat /\ LastReceived > 0
          /\ LastReceived \in Received
      BY <1>0, <1>7, LastTyped DEF Received
    <2>2. PICK x \in Nat : x = LastReceived
      BY <2>1
    <2>3. out'[c] = NewerThan(x, log) /\ hpc'[c] = "replay" /\ after'[c] = x
      BY <1>0, <2>1, <2>2 DEF Connect, Go
    <2>4. Excess(x, 0) = x /\ 0 \in Int
      BY <2>1, <2>2 DEF Excess
    <2>5. Run(out'[c], x) /\ Len(out'[c]) = IF Len(log) > x THEN Len(log) - x ELSE 0
      <3>1. /\ Run(NewerThan(x, log), 0 + Excess(x, 0))
            /\ Len(NewerThan(x, log)) =
                 IF Len(log) > Excess(x, 0) THEN Len(log) - Excess(x, 0) ELSE 0
        BY <1>0, <1>3, <2>4, Filtered
      <3> QED
        BY <2>3, <2>4, <3>1
    <2>6. x <= Len(log) /\ HasAll(x)
      BY <1>3, <2>1, <2>2
    <2>7. x + Len(out'[c]) = Len(log)
      BY <1>0, <2>5, <2>6
    <2>8. Gone <= Len(log)
      BY <1>0 DEF Gone, Published
    <2>9. ReplayInStep(c, x)'
      BY <1>1, <1>2, <2>1, <2>2, <2>3, <2>5, <2>6, <2>7, <2>8 DEF ReplayInStep, HasAll
    <2> QED
      BY <1>4, <1>5, <2>3, <2>9 DEF HandlerInStep, StreamInStep
  <1> QED
    BY <1>6, <1>7

(* One event is written, to a client that is there or that has left. *)
LEMMA WriteInStep ==
  ASSUME NumberInv, Undisturbed, NEW c \in Streams, WriteOut(c)
  PROVE  HandlerInStep(c)
  <1>0. /\ TypeInv /\ log \in Seq(Events) /\ queue \in Seq(Events) /\ got \in Seq(Events)
        /\ out \in [Streams -> Seq(Events)]
        /\ Len(log) \in Nat /\ Len(queue) \in Nat /\ Published \in Int /\ Gone \in Int
        /\ \A e \in Events : e.seq \in Nat /\ e.seq >= 1
        /\ after \in [Streams -> Nat]
    BY NumberTypes DEF NumberInv, TypeInv, TypeOK
  <1>1. /\ UNCHANGED <<log, queue, ppc, seq, hpc, after, alive>>
        /\ out[c] # <<>> /\ out' = [out EXCEPT ![c] = Tail(out[c])]
        /\ IF c \in alive THEN got' = Append(got, Head(out[c])) ELSE got' = got
    BY DEF WriteOut, producerVars
  <1>2. /\ Published' = Published /\ Gone' = Gone
        /\ Len(queue) <= Published /\ Gone <= Len(log)
    BY <1>0, <1>1 DEF Published, Gone, Behind, NumberInv, InOrder
  <1>3. InOrder'
    BY <1>1, <1>2 DEF NumberInv, InOrder
  <1>4. /\ got # <<>> => Published >= 1
        /\ \A n \in Received : n <= Len(log) /\ HasAll(n)
        /\ c \in alive /\ hpc[c] = "live" => LiveInStep(c)
        /\ c \in alive /\ hpc[c] = "replay" => \E x \in Nat : ReplayInStep(c, x)
    BY DEF NumberInv, InStep
  <1>5. CASE c \notin alive
    <2>1. Received' = Received
      BY <1>1, <1>5 DEF Received
    <2> QED
      BY <1>1, <1>2, <1>3, <1>4, <1>5, <2>1 DEF HandlerInStep, StreamInStep, HasAll
  <1>6. CASE c \in alive
    <2>1. PICK e \in Events : e = Head(out[c])
      BY <1>0, <1>1, HeadTailProperties
    <2>2. /\ Len(out[c]) \in Nat /\ Len(out[c]) >= 1 /\ e = out[c][1]
          /\ Len(out'[c]) = Len(out[c]) - 1
          /\ \A i \in 1..Len(out'[c]) : out'[c][i] = out[c][i + 1]
      BY <1>0, <1>1, <2>1, HeadTailProperties
    <2>3. /\ Received' = Received \cup {e.seq} /\ got' # <<>>
          /\ e.seq \in Nat /\ e.seq >= 1
      BY <1>0, <1>1, <1>6, <2>1, ReceivedMore
    <2>4. \A n \in Received : n \in Int
      BY <1>0 DEF Received
    <2>5. CASE hpc[c] = "live"
      <3>1. /\ e.seq = Gone /\ Len(out[c]) = 1 /\ Len(out'[c]) = 0
            /\ got # <<>> => Gone >= 2
            /\ 1 \in Received => 1..Gone - 1 \subseteq Received
        <4>1. /\ Len(out[c]) <= 1
              /\ \A i \in 1..Len(out[c]) : out[c][i].seq = Gone
              /\ got # <<>> => Gone - Len(out[c]) >= 1
              /\ HasAll(Gone - Len(out[c]))
          BY <1>4, <1>6, <2>5 DEF LiveInStep
        <4>2. Len(out[c]) = 1
          <5>1. \A n \in Nat : n >= 1 /\ n <= 1 => n = 1
            OBVIOUS
          <5> QED
            BY <2>2, <4>1, <5>1
        <4>3. e.seq = Gone
          BY <2>2, <4>1
        <4> QED
          BY <1>0, <2>2, <4>1, <4>2, <4>3 DEF HasAll
      <3>2. got = <<>> => Received = {}
        BY DEF Received
      <3>3. 1 \in Received' => 1..Gone \subseteq Received'
        BY <1>0, <2>3, <3>1, <3>2
      <3>4. \A n \in Received' : n <= Len(log') /\ HasAll(n)'
        BY <1>0, <1>1, <1>2, <1>4, <2>3, <2>4, <3>1, <3>2, <3>3 DEF HasAll
      <3>5. LiveInStep(c)'
        BY <1>0, <1>2, <2>3, <3>1, <3>3 DEF LiveInStep, HasAll
      <3>6. Published' >= 1
        BY <1>0, <1>2, <2>3, <3>1 DEF Gone
      <3> QED
        BY <1>1, <1>3, <2>5, <3>4, <3>5, <3>6 DEF HandlerInStep, StreamInStep
    <2>6. CASE hpc[c] = "replay"
      <3>1. PICK x \in Nat : ReplayInStep(c, x)
        BY <1>4, <1>6, <2>6
      <3>2. /\ 1 <= after[c] /\ after[c] <= x /\ got # <<>>
            /\ Run(out[c], x)
            /\ Gone <= x + Len(out[c]) /\ x + Len(out[c]) <= Len(log)
            /\ HasAll(x)
        BY <3>1 DEF ReplayInStep
      <3>3. e.seq = x + 1 /\ Run(out'[c], x + 1)
        <4>1. 1 \in 1..Len(out[c])
          BY <2>2
        <4>2. e.seq = x + 1
          BY <2>2, <3>2, <4>1 DEF Run
        <4>3. ASSUME NEW i \in 1..Len(out'[c]) PROVE out'[c][i].seq = (x + 1) + i
          <5>1. i + 1 \in 1..Len(out[c]) /\ out'[c][i] = out[c][i + 1]
            BY <2>2
          <5>2. out[c][i + 1].seq = x + (i + 1)
            BY <3>2, <5>1 DEF Run
          <5> QED
            BY <5>1, <5>2
        <4> QED
          BY <4>2, <4>3 DEF Run
      <3>4. 1 \in Received' => 1 \in Received /\ 1..x + 1 \subseteq Received'
        BY <1>0, <2>3, <3>2, <3>3 DEF HasAll
      <3>5. \A n \in Received' : n <= Len(log') /\ HasAll(n)'
        BY <1>0, <1>1, <1>4, <2>2, <2>3, <2>4, <3>2, <3>3, <3>4 DEF HasAll
      <3>6. ReplayInStep(c, x + 1)'
        BY <1>0, <1>1, <1>2, <2>2, <2>3, <3>2, <3>3, <3>4 DEF ReplayInStep, HasAll
      <3>7. Published' >= 1
        BY <1>2, <1>4, <3>2
      <3> QED
        BY <1>1, <1>3, <2>6, <3>5, <3>6, <3>7 DEF HandlerInStep, StreamInStep
    <2> QED
      BY <2>5, <2>6 DEF WriteOut, Serving
  <1> QED
    BY <1>5, <1>6

(* The replay is over: what the client has of the queue is dropped. *)
LEMMA FilterInStep ==
  ASSUME NumberInv, Undisturbed, NEW c \in Streams, FilterLive(c)
  PROVE  HandlerInStep(c)
  <1>0. /\ TypeInv /\ log \in Seq(Events) /\ queue \in Seq(Events) /\ got \in Seq(Events)
        /\ out \in [Streams -> Seq(Events)]
        /\ Len(log) \in Nat /\ Len(queue) \in Nat /\ Published \in Int /\ Gone \in Int
        /\ hpc \in [Streams -> {"new", "replay", "live", "closed"}]
        /\ after \in [Streams -> Nat]
    BY NumberTypes DEF NumberInv, TypeInv, TypeOK
  <1>1. /\ UNCHANGED <<log, ppc, seq, out, alive, got>>
        /\ hpc[c] = "replay" /\ out[c] = <<>>
        /\ hpc'[c] = "live" /\ queue' = NewerThan(after[c], queue)
    BY <1>0 DEF FilterLive, Go, producerVars
  <1>2. /\ Run(queue, Gone) /\ Len(queue) <= Published
        /\ got # <<>> => Published >= 1
        /\ \A n \in Received : n <= Len(log) /\ HasAll(n)
        /\ c \in alive => \E x \in Nat : ReplayInStep(c, x)
    BY <1>1 DEF NumberInv, InOrder, InStep
  <1>3. Published' = Published /\ Received' = Received
    BY <1>1 DEF Published, Behind, Received
  <1>4. PICK a \in Nat : a = after[c]
    BY <1>0
  <1>5. PICK d \in Nat : d = Excess(a, Gone)
    <2>1. Excess(a, Gone) \in Nat
      BY <1>0 DEF Excess
    <2> QED
      BY <2>1
  <1>6. /\ Run(queue', Gone + d)
        /\ Len(queue') = IF Len(queue) > d THEN Len(queue) - d ELSE 0
    BY <1>0, <1>1, <1>2, <1>4, <1>5, Filtered
  <1>7. Len(queue') \in Nat /\ Len(queue') <= Published'
    BY <1>0, <1>2, <1>3, <1>6
  <1>8. Gone' = Published - Len(queue') /\ Gone + Len(queue) = Published
    BY <1>0, <1>3 DEF Gone
  <1>9. Run(queue', Gone')
    <2>1. CASE Len(queue) > d
      <3>1. Len(queue') = Len(queue) - d
        BY <1>6, <2>1
      <3>2. PICK g \in Int, n \in Nat : g = Gone /\ n = Len(queue)
        BY <1>0
      <3>3. Gone' = (g + n) - (n - d)
        BY <1>8, <3>1, <3>2
      <3>4. (g + n) - (n - d) = g + d
        OBVIOUS
      <3> QED
        BY <1>6, <3>2, <3>3, <3>4
    <2>2. CASE Len(queue) <= d
      <3>1. Len(queue') = 0
        BY <1>0, <1>6, <2>2
      <3>2. 1..Len(queue') = {}
        BY <3>1
      <3> QED
        BY <3>2 DEF Run
    <2> QED
      BY <1>0, <2>1, <2>2
  <1>10. InOrder'
    BY <1>1, <1>2, <1>7, <1>9 DEF NumberInv, InOrder
  <1>11. ASSUME c \in alive PROVE LiveInStep(c)'
    <2>1. PICK x \in Nat : ReplayInStep(c, x)
      BY <1>2, <1>11
    <2>2. /\ 1 <= a /\ a <= x /\ got # <<>> /\ Gone <= x /\ HasAll(x)
      BY <1>0, <1>1, <1>4, <2>1 DEF ReplayInStep
    <2>3. Gone + d <= x /\ 1 <= Gone + d
      BY <1>0, <1>5, <2>2 DEF Excess
    <2>4. Gone' \in Int /\ 1 <= Gone' /\ Gone' <= x
      BY <1>0, <1>2, <1>6, <1>7, <1>8, <2>2, <2>3
    <2>5. HasAll(Gone)'
      BY <1>3, <2>2, <2>4 DEF HasAll
    <2>6. Len(out'[c]) = 0
      BY <1>1
    <2>7. Gone' - Len(out'[c]) = Gone'
      <3>1. PICK g \in Int : g = Gone'
        BY <2>4
      <3>2. g - 0 = g
        OBVIOUS
      <3> QED
        BY <2>6, <3>1, <3>2
    <2>8. 1..Len(out'[c]) = {}
      BY <2>6
    <2>9. HasAll(Gone - Len(out[c]))'
      BY <2>5, <2>7 DEF HasAll
    <2>10. Gone' - Len(out'[c]) >= 1
      BY <2>4, <2>7
    <2>11. Len(out'[c]) <= 1 /\ \A i \in 1..Len(out'[c]) : out'[c][i].seq = Gone'
      BY <2>6, <2>8
    <2> QED
      BY <2>9, <2>10, <2>11 DEF LiveInStep
  <1>12. StreamInStep(c)'
    BY <1>1, <1>2, <1>3, <1>11 DEF StreamInStep, HasAll
  <1> QED
    BY <1>10, <1>12 DEF HandlerInStep

(* The oldest event of the queue is taken. *)
LEMMA GetInStep ==
  ASSUME NumberInv, Undisturbed, NEW c \in Streams, GetLive(c)
  PROVE  HandlerInStep(c)
  <1>0. /\ TypeInv /\ log \in Seq(Events) /\ queue \in Seq(Events) /\ got \in Seq(Events)
        /\ out \in [Streams -> Seq(Events)]
        /\ Len(log) \in Nat /\ Len(queue) \in Nat /\ Published \in Int /\ Gone \in Int
    BY NumberTypes DEF NumberInv, TypeInv, TypeOK
  <1>1. /\ UNCHANGED <<log, ppc, seq, hpc, alive, got>>
        /\ hpc[c] = "live" /\ out[c] = <<>> /\ queue # <<>>
        /\ out'[c] = <<Head(queue)>> /\ queue' = Tail(queue)
    BY <1>0 DEF GetLive, producerVars
  <1>2. /\ Run(queue, Gone) /\ Len(queue) <= Published
        /\ got # <<>> => Published >= 1
        /\ \A n \in Received : n <= Len(log) /\ HasAll(n)
        /\ c \in alive => LiveInStep(c)
    BY <1>1 DEF NumberInv, InOrder, InStep
  <1>3. Published' = Published /\ Received' = Received
    BY <1>1 DEF Published, Behind, Received
  <1>4. /\ Len(queue) >= 1 /\ Head(queue) = queue[1]
        /\ Len(queue') = Len(queue) - 1
        /\ \A i \in 1..Len(queue') : queue'[i] = queue[i + 1]
    BY <1>0, <1>1, HeadTailProperties
  <1>5. Gone' = Gone + 1
    BY <1>0, <1>3, <1>4 DEF Gone
  <1>6. Run(queue', Gone')
    <2>1. ASSUME NEW i \in 1..Len(queue') PROVE queue'[i].seq = (Gone + 1) + i
      <3>1. i + 1 \in 1..Len(queue) /\ queue'[i] = queue[i + 1]
        BY <1>0, <1>4
      <3>2. queue[i + 1].seq = Gone + (i + 1)
        BY <1>2, <3>1 DEF Run
      <3> QED
        BY <1>0, <3>1, <3>2
    <2> QED
      BY <1>5, <2>1 DEF Run
  <1>7. InOrder'
    BY <1>0, <1>1, <1>2, <1>3, <1>4, <1>6 DEF NumberInv, InOrder
  <1>8. ASSUME c \in alive PROVE LiveInStep(c)'
    <2>1. /\ Len(out[c]) = 0 /\ Len(out'[c]) = 1
          /\ \A i \in 1..Len(out'[c]) : out'[c][i] = queue[1]
      BY <1>1, <1>4
    <2>2. queue[1].seq = Gone'
      <3>1. 1 \in 1..Len(queue)
        BY <1>0, <1>4
      <3> QED
        BY <1>2, <1>5, <3>1 DEF Run
    <2>3. (got # <<>> => Gone >= 1) /\ HasAll(Gone)
      <3>1. /\ got # <<>> => Gone - Len(out[c]) >= 1
            /\ HasAll(Gone - Len(out[c]))
        BY <1>2, <1>8 DEF LiveInStep
      <3>2. Gone - Len(out[c]) = Gone
        BY <1>0, <2>1
      <3> QED
        BY <3>1, <3>2
    <2>4. Gone' - Len(out'[c]) = Gone
      BY <1>0, <1>5, <2>1
    <2> QED
      BY <1>1, <1>3, <2>1, <2>2, <2>3, <2>4 DEF LiveInStep, HasAll
  <1>9. StreamInStep(c)'
    BY <1>1, <1>2, <1>3, <1>8 DEF StreamInStep, HasAll
  <1> QED
    BY <1>7, <1>9 DEF HandlerInStep

(* The stream is closed. *)
LEMMA CloseInStep ==
  ASSUME NumberInv, Undisturbed, NEW c \in Streams, Idle(c) \/ Broken(c)
  PROVE  HandlerInStep(c)
  <1>0. hpc \in [Streams -> {"new", "replay", "live", "closed"}]
    BY DEF NumberInv, TypeInv, TypeOK
  <1>1. UNCHANGED <<log, queue, ppc, seq, alive, got>> /\ hpc'[c] = "closed"
    BY <1>0 DEF Idle, Broken, Go, producerVars
  <1>2. Published' = Published /\ Gone' = Gone /\ Received' = Received
    BY <1>1 DEF Published, Gone, Behind, Received
  <1>3. InOrder'
    BY <1>1, <1>2 DEF NumberInv, InOrder
  <1>4. StreamInStep(c)'
    BY <1>1, <1>2 DEF NumberInv, InStep, StreamInStep, HasAll
  <1> QED
    BY <1>3, <1>4 DEF HandlerInStep

(* The two together, for every step. *)
LEMMA InStepNext == NumberInv /\ [Next]_vars => InOrder' /\ InStep'
  <1> SUFFICES ASSUME NumberInv, [Next]_vars, Undisturbed' PROVE InOrder' /\ InStep'
    BY DEF InOrder, InStep
  <1>0. TypeInv /\ OneServed /\ alive \subseteq Streams /\ lossy \in BOOLEAN
    BY DEF NumberInv, TypeInv, TypeOK
  <1>1. TypeInv' /\ OneServed'
    BY <1>0, TypeNext, OneServedNext
  <1>2. alive' \subseteq Streams
    BY <1>1 DEF TypeInv, TypeOK
  <1>3. Undisturbed
    BY <1>0, DisturbedForGood
  <1>4. ASSUME NEW p \in Producers, Put(p) PROVE InOrder' /\ InStep'
    <2>1. PutsInOrder
      BY <1>3, <1>4, PutKeepsOrder
    <2>2. UNCHANGED <<hpc, out, after, got>> /\ alive' = alive
      BY <1>4 DEF Put, Number, Record, CutLog, PutLive, clientVars
    <2> QED
      BY <1>0, <1>3, <2>1, <2>2, PutsInStep DEF PutsInOrder
  <1>5. ASSUME NEW p \in Producers, StartPut(p) PROVE InOrder' /\ InStep'
    <2>1. UNCHANGED <<log, queue, seq>> /\ ppc[p] = "idle" /\ ppc' = [ppc EXCEPT ![p] = "number"]
      BY <1>5 DEF StartPut, Step
    <2>2. PutsInOrder
      BY <1>3, <2>1, OthersKeepOrder
    <2>3. UNCHANGED <<hpc, out, after, got>> /\ alive' = alive
      BY <1>5 DEF StartPut, clientVars
    <2> QED
      BY <1>0, <1>3, <2>2, <2>3, PutsInStep DEF PutsInOrder
  <1>6. ASSUME UNCHANGED <<log, queue, seq, ppc, hpc, out, after, got>>, alive' \subseteq alive
        PROVE  InOrder' /\ InStep'
    <2>1. PutsInOrder
      BY <1>3, <1>6, OthersKeepOrder
    <2> QED
      BY <1>0, <1>3, <1>6, <2>1, PutsInStep DEF PutsInOrder
  <1>7. CASE Settle \/ Raise \/ UNCHANGED vars
    BY <1>6, <1>7 DEF Settle, Raise, vars, producerVars, clientVars
  <1>8. CASE Evict
    <2>1. queue = <<>> /\ queue' = <<>>
      BY <1>8 DEF Evict, Undisturbed
    <2> QED
      BY <1>6, <1>8, <2>1 DEF Evict, producerVars, clientVars
  <1>9. ASSUME NEW c \in Streams, Leave(c) PROVE InOrder' /\ InStep'
    BY <1>6, <1>9 DEF Leave, producerVars
  <1>10. ASSUME NEW c \in Streams, Connect(c) \/ Handle(c) PROVE InOrder' /\ InStep'
    <2>1. HandlerInStep(c)
      BY <1>3, <1>10, ConnectInStep, WriteInStep, FilterInStep, GetInStep, CloseInStep DEF Handle
    <2>2. hpc \in [Streams -> {"new", "replay", "live", "closed"}]
      BY <1>0 DEF TypeInv, TypeOK
    <2>3. /\ Serving(c)' \/ hpc'[c] = "closed"
          /\ \A d \in Streams \ {c} : hpc'[d] = hpc[d]
      BY <1>10, <2>2 DEF Connect, Handle, WriteOut, FilterLive, GetLive, Idle, Broken, Go, Serving
    <2>4. \A d \in Streams \ {c} : ~Serving(d)
      BY <1>0, <1>10 DEF Connect, Handle, WriteOut, FilterLive, GetLive, Idle, Broken, Serving,
         OneServed, Undisturbed
    <2>5. \A d \in Streams \ {c} : ~Serving(d)'
      BY <2>3, <2>4 DEF Serving
    <2> QED
      BY <1>1, <1>2, <2>1, <2>3, <2>5, ServedInStep DEF HandlerInStep
  <1> QED
    BY <1>4, <1>5, <1>7, <1>8, <1>9, <1>10
    DEF Next, ReadLine, Cancel, CancelFinished, Resume, PutOneMore, PutFinished, Producers

(* The numbers are kept by every step. *)
LEMMA NumberNext == NumberInv /\ [Next]_vars => NumberInv'
  BY TypeNext, SettledNext, ConnectedNext, OneServedNext, InStepNext DEF NumberInv

(* A client that received the first event has no gap below the last one it *)
(* received, while nothing disturbs the numbers.                           *)
THEOREM NothingIsSkipped == Spec => []NoGap
  <1>1. NumberInv => NoGap
    <2> SUFFICES ASSUME NumberInv, Undisturbed, 1 \in {got[i].seq : i \in DOMAIN got}
                 PROVE  1..LastReceived \subseteq {got[i].seq : i \in DOMAIN got}
      BY DEF NoGap, Undisturbed
    <2>1. got \in Seq(Events)
      BY NumberTypes DEF NumberInv
    <2>2. DOMAIN got = 1..Len(got) /\ Len(got) \in Nat
      BY <2>1
    <2>3. Received = {got[i].seq : i \in DOMAIN got} /\ got # <<>>
      BY <2>2 DEF Received
    <2>4. Len(got) \in 1..Len(got)
      BY <2>1, <2>3
    <2>5. LastReceived \in Received
      BY <2>3, <2>4 DEF LastReceived, Received
    <2>6. HasAll(LastReceived)
      BY <2>5 DEF NumberInv, InStep
    <2> QED
      BY <2>3, <2>6 DEF HasAll
  <1> QED
    BY <1>1, NumberInit, NumberNext, PTL DEF Spec
=============================================================================
