---------------------------- MODULE EvaluationProofs ----------------------------
(***************************************************************************)
(* Theorems about the evaluation: that the direct comparison of the        *)
(* methods says what its traces support, and that a replay task, behind    *)
(* any wrapper, is answered as its source would be.                        *)
(***************************************************************************)
EXTENDS DirectExecution, ReplayProbes, SetSums, SequenceTheorems

-------------------------------------------------------------------------------
(* The direct comparison                                                   *)

\* Rows the comparison writes, by their place: the methods of a trace in turn.
TraceOf(k) == ((k - 1) \div 6) + 1
MethodOf(k) == METHODS[((k - 1) % 6) + 1]
RowAt(k) == OutcomeRow(TraceOf(k), MethodOf(k), DecisionOf(registry[TraceOf(k)], MethodOf(k)))
VariantsAt(i) ==
  [budget \in VariantBudgets |-> OutcomeRow(i, "full-sevc", ReserveVariant(registry[i], budget))]
Places == 1..(Len(registry) * 6)

\* A trace whose roster has a length and whose source found natural numbers;
\* where a dataset is judged its trainer is bad.
Sources == {"none", "ctiv", "refiner"}
IsTrace(trace) ==
  /\ Len(trace.roles) \in Nat
  /\ trace.found \in [Sources -> Found]
  /\ trace.state \in BadStates => trace.bad

DirectTypeOK ==
  /\ DOMAIN registry = 1..Len(registry) /\ Len(registry) \in Nat
  /\ \A i \in 1..Len(registry) : IsTrace(registry[i])
  /\ outcomes \in Seq({RowAt(k) : k \in Places}) /\ Len(outcomes) <= Len(registry) * 6
  /\ variants \in Seq({VariantsAt(i) : i \in 1..Len(registry)}) /\ Len(variants) <= Len(registry)
  /\ gate \in {"open", "passed", "failed"}

DirectInv ==
  /\ DirectTypeOK
  /\ \A k \in 1..Len(outcomes) : outcomes[k] = RowAt(k)
  /\ \A i \in 1..Len(variants) : variants[i] = VariantsAt(i)
  /\ variants # <<>> \/ gate # "open" => Len(outcomes) = Len(registry) * 6
  /\ gate # "open" =>
       gate = IF \A state \in BadStates : StatePassed(state) THEN "passed" ELSE "failed"

\* The responders of a stretch of the roster are as many as those of its parts.
LEMMA RespondersAdd ==
  ASSUME NEW trace, NEW a \in Nat, NEW b \in Nat, NEW c \in Nat, a <= b + 1, b <= c
  PROVE  /\ Responders(trace, a, b) \in Nat /\ Responders(trace, a, b) <= b + 1 - a
         /\ Responders(trace, b + 1, c) \in Nat
         /\ Responders(trace, a, c) = Responders(trace, a, b) + Responders(trace, b + 1, c)
<1> DEFINE D == DOMAIN trace.roles
           A == {k \in (a..b) \cap D : trace.roles[k]}
           B == {k \in ((b + 1)..c) \cap D : trace.roles[k]}
           C == {k \in (a..c) \cap D : trace.roles[k]}
<1>1. IsFiniteSet(a..b) /\ Cardinality(a..b) = b + 1 - a /\ IsFiniteSet((b + 1)..c)
  BY FS_Interval
<1>2. A \in SUBSET (a..b) /\ B \in SUBSET ((b + 1)..c)
  OBVIOUS
<1>3. IsFiniteSet(A) /\ IsFiniteSet(B) /\ Cardinality(A) <= b + 1 - a
  BY <1>1, <1>2, FS_Subset
<1>4. Cardinality(A) \in Nat /\ Cardinality(B) \in Nat
  BY <1>3, FS_CardinalityType
<1>5. A \cup B = C /\ A \cap B = {}
  <2>1. a..c = (a..b) \cup ((b + 1)..c) /\ (a..b) \cap ((b + 1)..c) = {}
    OBVIOUS
  <2> QED  BY <2>1
<1>6. Cardinality(C) = Cardinality(A) + Cardinality(B)
  <2> HIDE DEF A, B, C
  <2>1. Cardinality(A \cup B) = Cardinality(A) + Cardinality(B) - Cardinality(A \cap B)
    BY <1>3, FS_Union
  <2>2. Cardinality(A \cap B) = 0
    BY <1>5, FS_EmptySet
  <2>3. Cardinality(A \cup B) = Cardinality(C)
    BY <1>5
  <2> QED  BY <1>4, <2>1, <2>2, <2>3
<1> QED  BY <1>3, <1>4, <1>6 DEF Responders

\* A verdict accepts or rejects.
LEMMA Signals ==
  ASSUME NEW trace, NEW from
  PROVE  SignalOutcome(trace, from) \in {"accept", "reject"}
BY DEF SignalOutcome

\* What recovers a task: as many reserves as are missing, allowed and there.
Missing(trace) == InitialSlots - Responders(trace, 1, InitialSlots)
Reserves(trace) == Responders(trace, InitialSlots + 1, Len(trace.roles))
Fewest(n, a, b, c) == n \in {a, b, c} /\ n <= a /\ n <= b /\ n <= c

LEMMA FewestExists ==
  ASSUME NEW a \in Nat, NEW b \in Nat, NEW c \in Nat
  PROVE  /\ Fewest(CHOOSE n \in {a, b, c} : \A other \in {a, b, c} : n <= other, a, b, c)
         /\ (CHOOSE n \in {a, b, c} : \A other \in {a, b, c} : n <= other) \in Nat
<1>1. \E n \in {a, b, c} : \A other \in {a, b, c} : n <= other
  <2>1. CASE a <= b /\ a <= c
    BY <2>1
  <2>2. CASE b <= a /\ b <= c
    BY <2>2
  <2>3. CASE c <= a /\ c <= b
    BY <2>3
  <2> QED  BY <2>1, <2>2, <2>3
<1> DEFINE m == CHOOSE n \in {a, b, c} : \A other \in {a, b, c} : n <= other
<1>2. m \in {a, b, c} /\ \A other \in {a, b, c} : m <= other
  BY <1>1
<1> HIDE DEF m
<1> QED  BY <1>2 DEF Fewest

LEMMA VariantIs ==
  ASSUME DirectAssumption, NEW trace, Len(trace.roles) \in Nat, NEW budget \in Nat
  PROVE  /\ Missing(trace) \in Nat /\ Missing(trace) <= InitialSlots /\ Reserves(trace) \in Nat
         /\ \E n \in Nat :
              /\ Fewest(n, Missing(trace), budget, Reserves(trace))
              /\ ReserveVariant(trace, budget) =
                   Decision(IF InitialSlots - Missing(trace) + n < InitialSlots THEN "defer"
                                                                 ELSE SignalOutcome(trace, "ctiv"),
                            "ctiv", 0, InitialSlots - Missing(trace) + n, InitialSlots + n, n)
<1> DEFINE initial == Responders(trace, 1, InitialSlots)
           reserve == Reserves(trace)
<1>0. InitialSlots \in Nat
  BY DEF DirectAssumption
<1>1. initial \in Nat /\ initial <= InitialSlots
  <2>1. 1 \in Nat /\ 1 <= InitialSlots + 1 /\ InitialSlots <= InitialSlots
    BY <1>0
  <2>2. initial \in Nat /\ initial <= InitialSlots + 1 - 1
    BY <1>0, <2>1, RespondersAdd
  <2> QED  BY <1>0, <2>2
<1>2. reserve \in Nat
  <2>1. CASE InitialSlots <= Len(trace.roles)
    <3>1. 1 \in Nat /\ 1 <= InitialSlots + 1
      BY <1>0
    <3>2. Responders(trace, InitialSlots + 1, Len(trace.roles)) \in Nat
      BY <1>0, <2>1, <3>1, RespondersAdd
    <3> QED  BY <3>2 DEF Reserves
  <2>2. CASE ~(InitialSlots <= Len(trace.roles))
    <3>1. (InitialSlots + 1)..Len(trace.roles) = {}
      BY <1>0, <2>2
    <3>2. {k \in ((InitialSlots + 1)..Len(trace.roles)) \cap DOMAIN trace.roles : trace.roles[k]} = {}
      BY <3>1
    <3>3. Cardinality({}) = 0
      BY FS_EmptySet
    <3>4. Responders(trace, InitialSlots + 1, Len(trace.roles)) = 0
      BY <3>2, <3>3, Zenon DEF Responders
    <3> QED  BY <3>4 DEF Reserves
  <2> QED  BY <2>1, <2>2
<1>3. Missing(trace) \in Nat /\ Missing(trace) <= InitialSlots /\ initial = InitialSlots - Missing(trace)
  BY <1>0, <1>1 DEF Missing
<1> DEFINE n == CHOOSE n \in {Missing(trace), budget, reserve} :
                  \A other \in {Missing(trace), budget, reserve} : n <= other
<1>4. n \in Nat /\ Fewest(n, Missing(trace), budget, reserve)
  BY <1>2, <1>3, FewestExists
<1>5. ReserveVariant(trace, budget) =
        Decision(IF initial + n < InitialSlots THEN "defer" ELSE SignalOutcome(trace, "ctiv"),
                 "ctiv", 0, initial + n, InitialSlots + n, n)
  BY DEF ReserveVariant, Missing, Reserves
<1> HIDE DEF n, initial, reserve
<1> QED  BY <1>2, <1>3, <1>4, <1>5 DEF reserve

\* Every method decides from a source it names; a verdict is that source's.
Method == {METHODS[m] : m \in 1..6}
Says(trace, decision) ==
  /\ decision.source \in Sources
  /\ decision.outcome \in {"accept", "reject", "defer", "terminate"}
  /\ decision.outcome \notin {"defer", "terminate"} /\ decision.source # "none" =>
       decision.outcome = SignalOutcome(trace, decision.source)

LEMMA VariantSays ==
  ASSUME NEW trace, NEW budget
  PROVE  /\ Says(trace, ReserveVariant(trace, budget))
         /\ ReserveVariant(trace, budget).source = "ctiv"
         /\ ReserveVariant(trace, budget).outcome # "terminate"
<1>1. SignalOutcome(trace, "ctiv") \in {"accept", "reject"}
  BY Signals
<1> QED  BY <1>1 DEF ReserveVariant, Decision, Says, Sources

LEMMA GroupSays ==
  ASSUME NEW trace, NEW from \in Sources, NEW size, NEW needed
  PROVE  /\ Says(trace, GroupDecision(trace, from, size, needed))
<1>1. SignalOutcome(trace, from) \in {"accept", "reject"}
  BY Signals
<1> QED  BY <1>1 DEF GroupDecision, Decision, Says

LEMMA DecisionSays ==
  ASSUME NEW trace, NEW method \in Method
  PROVE  /\ Says(trace, DecisionOf(trace, method))
         /\ method = "no-verification" => DecisionOf(trace, method) = Decision("accept", "none", 0, 0, 0, 0)
         /\ method = "full-sevc" => DecisionOf(trace, method) = ReserveVariant(trace, FullBudget)
<1>1. method \in {"no-verification", "owner-only", "vanilla", "depol", "refiner", "full-sevc"}
  BY DEF Method, METHODS
<1>2. CASE method = "no-verification"
  <2>1. DecisionOf(trace, method) = Decision("accept", "none", 0, 0, 0, 0)
    BY <1>2 DEF DecisionOf
  <2> QED  BY <1>2, <2>1 DEF Decision, Says, Sources
<1>3. CASE method = "owner-only"
  <2>1. DecisionOf(trace, method) = Decision(SignalOutcome(trace, "ctiv"), "ctiv", 1, 0, 0, 0)
    BY <1>3 DEF DecisionOf
  <2>2. SignalOutcome(trace, "ctiv") \in {"accept", "reject"}
    BY Signals
  <2> QED  BY <1>3, <2>1, <2>2 DEF Decision, Says, Sources
<1>4. CASE method = "vanilla"
  <2>1. DecisionOf(trace, method) = GroupDecision(trace, "ctiv", 1, 1)
    BY <1>4 DEF DecisionOf
  <2> QED  BY <1>4, <2>1, GroupSays DEF Sources
<1>5. CASE method = "depol"
  <2>1. DecisionOf(trace, method) = GroupDecision(trace, "ctiv", DepolSize, DepolMajority)
    BY <1>5 DEF DecisionOf
  <2> QED  BY <1>5, <2>1, GroupSays DEF Sources
<1>6. CASE method = "refiner"
  <2>1. DecisionOf(trace, method) = GroupDecision(trace, "refiner", RefinerSize, RefinerMajority)
    BY <1>6 DEF DecisionOf
  <2> QED  BY <1>6, <2>1, GroupSays DEF Sources
<1>7. CASE method = "full-sevc"
  <2>1. DecisionOf(trace, method) = ReserveVariant(trace, FullBudget)
    BY <1>7 DEF DecisionOf
  <2> QED  BY <1>7, <2>1, VariantSays
<1> QED  BY <1>1, <1>2, <1>3, <1>4, <1>5, <1>6, <1>7

\* The places of the rows: six in turn for each trace.
LEMMA PlaceOf ==
  ASSUME NEW n \in Nat, NEW k \in 1..(n * 6)
  PROVE  /\ TraceOf(k) \in 1..n /\ ((k - 1) % 6) + 1 \in 1..6
         /\ k = (TraceOf(k) - 1) * 6 + (((k - 1) % 6) + 1)
<1> DEFINE q == (k - 1) \div 6
           r == (k - 1) % 6
<1>1. k - 1 = q * 6 + r /\ r \in 0..5 /\ q \in Int
  OBVIOUS
<1>2. q >= 0 /\ q < n
  BY <1>1
<1> QED  BY <1>1, <1>2 DEF TraceOf

LEMMA PlaceFor ==
  ASSUME NEW n \in Nat, NEW i \in 1..n, NEW m \in 1..6
  PROVE  /\ (i - 1) * 6 + m \in 1..(n * 6)
         /\ TraceOf((i - 1) * 6 + m) = i
         /\ ((((i - 1) * 6 + m) - 1) % 6) + 1 = m
<1> DEFINE k == (i - 1) * 6 + m
<1>1. k \in 1..(n * 6)
  OBVIOUS
<1>2. /\ TraceOf(k) \in 1..n /\ ((k - 1) % 6) + 1 \in 1..6
      /\ k = (TraceOf(k) - 1) * 6 + (((k - 1) % 6) + 1)
  BY <1>1, PlaceOf
<1> DEFINE t == TraceOf(k)
           c == ((k - 1) % 6) + 1
<1>3. (i - 1) * 6 + m = (t - 1) * 6 + c /\ t \in 1..n /\ c \in 1..6
  BY <1>2
<1> HIDE DEF t, c
<1>4. t = i /\ c = m
  BY <1>3
<1> QED  BY <1>1, <1>4 DEF t, c

\* Distinct methods have distinct places.
LEMMA MethodPlaces ==
  ASSUME NEW c \in 1..6
  PROVE  /\ METHODS[c] \in Method
         /\ METHODS[c] = "no-verification" <=> c = 1
         /\ METHODS[c] = "full-sevc" <=> c = 6
<1>1. METHODS[c] \in Method
  BY DEF Method
<1>2. c = 1 \/ c = 2 \/ c = 3 \/ c = 4 \/ c = 5 \/ c = 6
  OBVIOUS
<1> QED  BY <1>1, <1>2 DEF METHODS

\* What a row says is what its method decides of its trace.
LEMMA RowFacts ==
  ASSUME DirectTypeOK, NEW k \in Places
  PROVE  /\ TraceOf(k) \in 1..Len(registry) /\ MethodOf(k) \in Method
         /\ RowAt(k).trace = TraceOf(k) /\ RowAt(k).method = MethodOf(k)
         /\ RowAt(k).decision = DecisionOf(registry[TraceOf(k)], MethodOf(k))
         /\ Says(registry[TraceOf(k)], RowAt(k).decision)
         /\ RowAt(k).complete <=> RowAt(k).decision.outcome \notin {"defer", "terminate"}
         /\ RowAt(k).unsafe <=> /\ registry[TraceOf(k)].bad /\ RowAt(k).decision.outcome = "accept"
                                /\ registry[TraceOf(k)].found[RowAt(k).decision.source].FN > 0
<1>1. TraceOf(k) \in 1..Len(registry) /\ ((k - 1) % 6) + 1 \in 1..6
  BY PlaceOf DEF Places, DirectTypeOK
<1>2. MethodOf(k) \in Method
  BY <1>1, MethodPlaces DEF MethodOf
<1> DEFINE d == DecisionOf(registry[TraceOf(k)], MethodOf(k))
<1>3. Says(registry[TraceOf(k)], d)
  BY <1>2, DecisionSays
<1> HIDE DEF d
<1>4. RowAt(k) = OutcomeRow(TraceOf(k), MethodOf(k), d)
  BY DEF RowAt, d
<1>5. RowAt(k).trace = TraceOf(k) /\ RowAt(k).method = MethodOf(k) /\ RowAt(k).decision = d
  BY <1>4 DEF OutcomeRow
<1>6. RowAt(k).complete = (d.outcome \notin {"defer", "terminate"})
  BY <1>4 DEF OutcomeRow
<1> DEFINE u == /\ registry[TraceOf(k)].bad /\ d.outcome = "accept"
                /\ registry[TraceOf(k)].found[d.source].FN > 0
<1>7. RowAt(k).unsafe = u
  <2>1. RowAt(k) = [trace |-> TraceOf(k), method |-> MethodOf(k), decision |-> d, unsafe |-> u,
                    complete |-> d.outcome \notin {"defer", "terminate"}]
    BY <1>4, Zenon DEF OutcomeRow
  <2> HIDE DEF u
  <2> QED  BY <2>1
<1> QED  BY <1>1, <1>2, <1>3, <1>5, <1>6, <1>7, Zenon DEF d

\* The registry is a sequence of traces.
LEMMA TracesMade ==
  ASSUME DirectAssumption, NEW seeds \in TraceSeeds, NEW units \in SourceUnits,
         NEW made, made = TraceRegistry(seeds, units)
  PROVE  /\ Len(made) \in Nat /\ DOMAIN made = 1..Len(made)
         /\ \A i \in 1..Len(made) : IsTrace(made[i])
<1> DEFINE n == Len(SystemStates) * Len(seeds)
<1>1. /\ Len(SystemStates) \in Nat /\ DOMAIN SystemStates = 1..Len(SystemStates)
  <2> DEFINE Typed == [state : STRING, bad : BOOLEAN, failures : BOOLEAN, source : STRING]
  <2>1. SystemStates \in Seq(Typed)
    BY Zenon DEF DirectAssumption
  <2> HIDE DEF Typed
  <2> QED  BY <2>1
<1>2. /\ Len(seeds) \in Nat /\ DOMAIN seeds = 1..Len(seeds)
      /\ \A t \in 1..Len(seeds) : seeds[t] \in Seq(Nat)
  <2>1. seeds \in Seq(Seq(Nat))
    BY DEF DirectAssumption
  <2> QED  BY <2>1
<1>3. n \in Nat
  BY <1>1, <1>2
<1> DEFINE System(i) == SystemStates[((i - 1) \div Len(seeds)) + 1]
           Turn(i) == ((i - 1) % Len(seeds)) + 1
           Available(i) == units[System(i).source]
           Roles(i) == [k \in DOMAIN seeds[Turn(i)] |-> System(i).failures => seeds[Turn(i)][k] \in Responsive]
           Made(i) == [state |-> System(i).state, bad |-> System(i).bad,
                       found |-> Available(i)[((Turn(i) - 1) % Len(Available(i))) + 1], roles |-> Roles(i)]
<1>4. made = [i \in 1..n |-> Made(i)]
  BY Zenon DEF TraceRegistry
<1>a. Len(made) = n /\ DOMAIN made = 1..n /\ \A i \in 1..n : made[i] = Made(i)
  <2> HIDE DEF Made, n
  <2> QED  BY <1>3, <1>4
<1>5. ASSUME NEW i \in 1..n PROVE IsTrace(made[i])
  <2> DEFINE system == System(i)
             t == Turn(i)
             available == Available(i)
             place == ((t - 1) % Len(available)) + 1
             roles == Roles(i)
  <2>1. Len(seeds) > 0
    <3>1. Len(seeds) # 0
      <4>1. SUFFICES ASSUME Len(seeds) = 0 PROVE n = 0
        BY <1>3
      <4> QED  BY <1>1, <4>1
    <3> QED  BY <1>2, <3>1
  <2>2. ((i - 1) \div Len(seeds)) + 1 \in 1..Len(SystemStates)
    <3> DEFINE L == Len(seeds)
               S == Len(SystemStates)
               q == (i - 1) \div L
    <3>1. L \in Nat /\ L > 0 /\ S \in Nat /\ i \in Nat /\ i - 1 \in Nat /\ i - 1 < S * L
      BY <1>1, <1>2, <1>3, <2>1
    <3> HIDE DEF L, S
    <3>2. q \in Int /\ q * L <= i - 1 /\ q >= 0
      BY <3>1
    <3>3. q < S
      <4>1. SUFFICES ASSUME S <= q PROVE FALSE
        BY <3>1, <3>2
      <4>2. q \in Nat
        BY <3>2
      <4> HIDE DEF q
      <4>3. S * L <= q * L
        BY <3>1, <4>1, <4>2
      <4> QED  BY <3>1, <3>2, <4>2, <4>3
    <3> QED  BY <3>1, <3>2, <3>3 DEF L, S
  <2>3. t \in 1..Len(seeds)
    BY <1>2, <2>1
  <2>4. /\ system.source \in DOMAIN units
        /\ available \in Seq([Sources -> Found]) /\ available # <<>>
    BY <1>1, <2>2 DEF DirectAssumption, Sources
  <2>5. place \in 1..Len(available)
    <3>1. Len(available) \in Nat /\ Len(available) > 0 /\ t - 1 \in Nat
      BY <1>2, <2>3, <2>4
    <3> HIDE DEF available, t
    <3> QED  BY <3>1
  <2>6. available[place] \in [Sources -> Found]
    <3> HIDE DEF available, place
    <3> QED  BY <2>4, <2>5
  <2>7. Len(roles) \in Nat
    <3>1. seeds[t] \in Seq(Nat)
      BY <1>2, <2>3
    <3>2. DOMAIN roles = 1..Len(seeds[t]) /\ Len(seeds[t]) \in Nat
      BY <3>1
    <3> HIDE DEF roles
    <3> QED  BY <3>2
  <2>8. system.state \in BadStates => system.bad
    BY <1>1, <2>2 DEF DirectAssumption
  <2>9. made[i] = [state |-> system.state, bad |-> system.bad, found |-> available[place], roles |-> roles]
    BY <1>a
  <2> HIDE DEF system, available, place, roles, Made
  <2>10. /\ made[i].state = system.state /\ made[i].bad = system.bad
         /\ made[i].found = available[place] /\ made[i].roles = roles
    BY <2>9
  <2> QED  BY <2>6, <2>7, <2>8, <2>10 DEF IsTrace
<1> QED  BY <1>3, <1>5, <1>a

LEMMA DirectStarts ==
  ASSUME DirectAssumption, DirectInit
  PROVE  DirectInv
<1>1. PICK seeds \in TraceSeeds, units \in SourceUnits : registry = TraceRegistry(seeds, units)
  BY DEF DirectInit
<1>2. /\ Len(registry) \in Nat /\ DOMAIN registry = 1..Len(registry)
      /\ \A i \in 1..Len(registry) : IsTrace(registry[i])
  BY <1>1, TracesMade
<1>3. outcomes = <<>> /\ variants = <<>> /\ gate = "open"
  BY DEF DirectInit
<1> QED  BY <1>2, <1>3 DEF DirectInv, DirectTypeOK

\* What the rows are read from does not change.
LEMMA RowsStay ==
  ASSUME registry' = registry
  PROVE  /\ \A k : RowAt(k)' = RowAt(k)
         /\ \A i : VariantsAt(i)' = VariantsAt(i)
         /\ Places' = Places
BY DEF RowAt, VariantsAt, Places, OutcomeRow

LEMMA PassedStays ==
  ASSUME registry' = registry, outcomes' = outcomes
  PROVE  \A state : StatePassed(state)' <=> StatePassed(state)
BY DEF StatePassed, Of, Unsafe, SafeRoutes

LEMMA DecideKeeps ==
  ASSUME DirectInv, Decide
  PROVE  DirectInv'
<1> DEFINE n == Len(outcomes)
           All == {RowAt(k) : k \in Places}
<1>1. /\ outcomes \in Seq(All) /\ n \in Nat /\ n < Len(registry) * 6 /\ Len(registry) \in Nat
  <2>1. Len(METHODS) = 6
    BY DEF METHODS
  <2>2. outcomes \in Seq(All) /\ n < Len(registry) * 6 /\ Len(registry) \in Nat
    BY <2>1 DEF DirectInv, DirectTypeOK, Decide
  <2> HIDE DEF All
  <2> QED  BY <2>2
<1>2. outcomes' = Append(outcomes, RowAt(n + 1))
  <2>1. Len(METHODS) = 6
    BY DEF METHODS
  <2>2. (n + 1) - 1 = n
    BY <1>1
  <2> QED  BY <2>1, <2>2 DEF Decide, RowAt, TraceOf, MethodOf
<1>3. n + 1 \in Places
  BY <1>1 DEF Places
<1>4. RowAt(n + 1) \in All
  BY <1>3
<1>5. /\ outcomes' \in Seq(All) /\ Len(outcomes') = n + 1
      /\ \A k \in 1..n : outcomes'[k] = outcomes[k]
      /\ outcomes'[n + 1] = RowAt(n + 1)
  <2> HIDE DEF All
  <2> QED  BY <1>1, <1>2, <1>4
<1>6. registry' = registry /\ variants' = variants /\ gate' = gate
  BY DEF Decide
<1>7. \A k \in 1..Len(outcomes') : outcomes'[k] = RowAt(k)
  BY <1>1, <1>5 DEF DirectInv
<1>8. variants = <<>> /\ gate = "open"
  BY <1>1 DEF DirectInv
<1>9. DirectTypeOK'
  BY <1>1, <1>5, <1>6, RowsStay DEF DirectInv, DirectTypeOK
<1> QED  BY <1>6, <1>7, <1>8, <1>9, RowsStay DEF DirectInv

LEMMA DecideVariantsKeeps ==
  ASSUME DirectInv, DecideVariants
  PROVE  DirectInv'
<1> DEFINE n == Len(variants)
           All == {VariantsAt(i) : i \in 1..Len(registry)}
<1>1. /\ variants \in Seq(All) /\ n \in Nat /\ n < Len(registry) /\ Len(registry) \in Nat
  <2>1. variants \in Seq(All) /\ n < Len(registry) /\ Len(registry) \in Nat
    BY DEF DirectInv, DirectTypeOK, DecideVariants
  <2> HIDE DEF All
  <2> QED  BY <2>1
<1>2. variants' = Append(variants, VariantsAt(n + 1))
  BY DEF DecideVariants, VariantsAt
<1>3. VariantsAt(n + 1) \in All
  BY <1>1
<1>4. /\ variants' \in Seq(All) /\ Len(variants') = n + 1
      /\ \A i \in 1..n : variants'[i] = variants[i]
      /\ variants'[n + 1] = VariantsAt(n + 1)
  <2> HIDE DEF All
  <2> QED  BY <1>1, <1>2, <1>3
<1>5. registry' = registry /\ outcomes' = outcomes /\ gate' = gate
  BY DEF DecideVariants
<1>6. \A i \in 1..Len(variants') : variants'[i] = VariantsAt(i)
  <2>1. \A i \in 1..n : variants[i] = VariantsAt(i)
    BY DEF DirectInv
  <2> HIDE DEF All
  <2> QED  BY <1>1, <1>4, <2>1
<1>7. Len(outcomes) = Len(registry) * 6
  BY DEF DecideVariants, METHODS
<1>8. DirectTypeOK'
  BY <1>1, <1>4, <1>5, RowsStay DEF DirectInv, DirectTypeOK
<1>9. (gate # "open" => gate = IF \A state \in BadStates : StatePassed(state) THEN "passed" ELSE "failed")'
  BY <1>5, PassedStays DEF DirectInv
<1> QED  BY <1>5, <1>6, <1>7, <1>8, <1>9, RowsStay DEF DirectInv

LEMMA EvaluateKeeps ==
  ASSUME DirectInv, EvaluateDatasetSafety
  PROVE  DirectInv'
<1>1. registry' = registry /\ outcomes' = outcomes /\ variants' = variants
  BY DEF EvaluateDatasetSafety
<1>2. gate' = IF \A state \in BadStates : StatePassed(state) THEN "passed" ELSE "failed"
  BY DEF EvaluateDatasetSafety
<1>3. Len(outcomes) = Len(registry) * 6
  <2>1. CASE variants = <<>>
    <3>1. Len(registry) = 0
      BY <2>1 DEF EvaluateDatasetSafety
    <3>2. Len(outcomes) \in Nat /\ Len(outcomes) <= Len(registry) * 6
      <4> DEFINE All == {RowAt(k) : k \in Places}
      <4>1. outcomes \in Seq(All) /\ Len(outcomes) <= Len(registry) * 6
        BY DEF DirectInv, DirectTypeOK
      <4> HIDE DEF All
      <4> QED  BY <4>1
    <3> QED  BY <3>1, <3>2
  <2>2. CASE variants # <<>>
    BY <2>2 DEF DirectInv
  <2> QED  BY <2>1, <2>2
<1>4. DirectTypeOK'
  BY <1>1, <1>2, RowsStay DEF DirectInv, DirectTypeOK
<1>5. (gate # "open" => gate = IF \A state \in BadStates : StatePassed(state) THEN "passed" ELSE "failed")'
  BY <1>1, <1>2, PassedStays
<1> QED  BY <1>1, <1>3, <1>4, <1>5, RowsStay DEF DirectInv

LEMMA DirectStands ==
  ASSUME DirectInv, UNCHANGED compared
  PROVE  DirectInv'
<1>1. registry' = registry /\ outcomes' = outcomes /\ variants' = variants /\ gate' = gate
  BY DEF compared
<1>2. DirectTypeOK'
  BY <1>1, RowsStay DEF DirectInv, DirectTypeOK
<1>3. (gate # "open" => gate = IF \A state \in BadStates : StatePassed(state) THEN "passed" ELSE "failed")'
  BY <1>1, PassedStays DEF DirectInv
<1> QED  BY <1>1, <1>2, <1>3, RowsStay DEF DirectInv

\* Methods that read the same source agree on what they complete: each row
\* that is complete says what its source signals of its trace.
LEMMA AgreementFollows ==
  ASSUME DirectInv
  PROVE  VerdictsAgree
<1> SUFFICES ASSUME NEW i \in DOMAIN registry, NEW from \in {"ctiv", "refiner"}
             PROVE  Cardinality({outcomes[k].decision.outcome :
                       k \in {k \in DOMAIN outcomes : /\ outcomes[k].trace = i /\ outcomes[k].complete
                                                      /\ outcomes[k].decision.source = from}}) <= 1
  BY DEF VerdictsAgree
<1> DEFINE Those == {k \in DOMAIN outcomes : /\ outcomes[k].trace = i /\ outcomes[k].complete
                                             /\ outcomes[k].decision.source = from}
           Verdicts == {outcomes[k].decision.outcome : k \in Those}
           verdict == SignalOutcome(registry[i], from)
<1>1. DirectTypeOK
  BY DEF DirectInv
<1>2. DOMAIN outcomes = 1..Len(outcomes) /\ DOMAIN outcomes \subseteq Places
  <2> DEFINE All == {RowAt(k) : k \in Places}
  <2>1. outcomes \in Seq(All) /\ Len(outcomes) <= Len(registry) * 6 /\ Len(registry) \in Nat
    BY <1>1 DEF DirectTypeOK
  <2> HIDE DEF All
  <2> QED  BY <2>1 DEF Places
<1>3. ASSUME NEW k \in Those PROVE outcomes[k].decision.outcome = verdict
  <2>1. outcomes[k] = RowAt(k) /\ k \in Places
    BY <1>2 DEF DirectInv
  <2>2. /\ RowAt(k).trace = TraceOf(k)
        /\ Says(registry[TraceOf(k)], RowAt(k).decision)
        /\ RowAt(k).complete <=> RowAt(k).decision.outcome \notin {"defer", "terminate"}
    BY <1>1, <2>1, RowFacts
  <2>3. RowAt(k).trace = i /\ RowAt(k).complete /\ RowAt(k).decision.source = from
    BY <2>1
  <2>4. TraceOf(k) = i
    BY <2>2, <2>3
  <2>5. from # "none"
    OBVIOUS
  <2>6. RowAt(k).decision.outcome = SignalOutcome(registry[i], from)
    BY <2>2, <2>3, <2>4, <2>5 DEF Says
  <2> QED  BY <2>1, <2>6
<1>4. Verdicts \in SUBSET {verdict}
  <2> HIDE DEF Those, verdict
  <2> QED  BY <1>3
<1>5. IsFiniteSet({verdict}) /\ Cardinality({verdict}) = 1
  BY FS_Singleton
<1>6. Cardinality(Verdicts) <= 1
  <2> HIDE DEF Verdicts, verdict
  <2> QED  BY <1>4, <1>5, FS_Subset
<1> QED  BY <1>6

\* What a variant's row says of its budget.
LEMMA VariantRow ==
  ASSUME DirectAssumption, DirectInv, NEW i \in DOMAIN variants, NEW b \in VariantBudgets
  PROVE  /\ variants[i][b].decision = ReserveVariant(registry[i], b)
         /\ variants[i][b].complete <=> ReserveVariant(registry[i], b).outcome \notin {"defer", "terminate"}
         /\ i \in 1..Len(registry) /\ IsTrace(registry[i]) /\ b \in Nat
<1>1. i \in 1..Len(variants) /\ i \in 1..Len(registry)
  <2> DEFINE All == {VariantsAt(j) : j \in 1..Len(registry)}
  <2>1. variants \in Seq(All) /\ Len(variants) <= Len(registry) /\ Len(registry) \in Nat
    BY DEF DirectInv, DirectTypeOK
  <2> HIDE DEF All
  <2> QED  BY <2>1
<1>2. variants[i] = VariantsAt(i)
  BY <1>1 DEF DirectInv
<1> DEFINE d == ReserveVariant(registry[i], b)
<1>3. variants[i][b] = OutcomeRow(i, "full-sevc", d)
  BY <1>2 DEF VariantsAt
<1> HIDE DEF d
<1>4. variants[i][b].decision = d
  BY <1>3 DEF OutcomeRow
<1>5. variants[i][b].complete = (d.outcome \notin {"defer", "terminate"})
  BY <1>3 DEF OutcomeRow
<1>6. IsTrace(registry[i]) /\ b \in Nat
  BY <1>1 DEF DirectInv, DirectTypeOK, DirectAssumption
<1> QED  BY <1>1, <1>4, <1>5, <1>6, Zenon DEF d

\* The arithmetic of a decision with reserves.
Done(d) == d.outcome \notin {"defer", "terminate"}
Budgeted(trace, b, d) ==
  /\ d.recovered \in Nat /\ Fewest(d.recovered, Missing(trace), b, Reserves(trace))
  /\ Done(d) <=> d.recovered = Missing(trace)
  /\ d.executions = InitialSlots - Missing(trace) + d.recovered
  /\ d.commissioned = InitialSlots + d.recovered
  /\ d.source = "ctiv" /\ d.owner = 0
  /\ d.outcome = IF Done(d) THEN SignalOutcome(trace, "ctiv") ELSE "defer"
  /\ d = Decision(d.outcome, "ctiv", 0, d.executions, d.commissioned, d.recovered)

LEMMA BudgetFacts ==
  ASSUME DirectAssumption, NEW trace, IsTrace(trace), NEW b \in Nat
  PROVE  Budgeted(trace, b, ReserveVariant(trace, b))
<1> DEFINE d == ReserveVariant(trace, b)
           m == Missing(trace)
<1>1. Len(trace.roles) \in Nat /\ InitialSlots \in Nat
  BY DEF IsTrace, DirectAssumption
<1>2. /\ m \in Nat /\ m <= InitialSlots /\ Reserves(trace) \in Nat
      /\ \E n \in Nat :
           /\ Fewest(n, m, b, Reserves(trace))
           /\ d = Decision(IF InitialSlots - m + n < InitialSlots THEN "defer"
                                                              ELSE SignalOutcome(trace, "ctiv"),
                         "ctiv", 0, InitialSlots - m + n, InitialSlots + n, n)
  BY <1>1, VariantIs
<1>3. PICK n \in Nat :
           /\ Fewest(n, m, b, Reserves(trace))
           /\ d = Decision(IF InitialSlots - m + n < InitialSlots THEN "defer"
                                                              ELSE SignalOutcome(trace, "ctiv"),
                         "ctiv", 0, InitialSlots - m + n, InitialSlots + n, n)
  BY <1>2
<1> HIDE DEF d, m
<1>4. SignalOutcome(trace, "ctiv") \in {"accept", "reject"}
  BY Signals
<1>5. /\ d.recovered = n /\ d.executions = InitialSlots - m + n /\ d.commissioned = InitialSlots + n
      /\ d.source = "ctiv" /\ d.owner = 0
      /\ d.outcome = IF InitialSlots - m + n < InitialSlots THEN "defer" ELSE SignalOutcome(trace, "ctiv")
      /\ d = Decision(d.outcome, "ctiv", 0, d.executions, d.commissioned, d.recovered)
  BY <1>3 DEF Decision
<1>6. n <= m
  BY <1>2, <1>3 DEF Fewest
<1>7. Done(d) <=> n = m
  BY <1>1, <1>2, <1>4, <1>5, <1>6 DEF Done
<1>8. d.outcome = IF Done(d) THEN SignalOutcome(trace, "ctiv") ELSE "defer"
  BY <1>1, <1>2, <1>3, <1>5, <1>6, <1>7
<1>9. Fewest(d.recovered, Missing(trace), b, Reserves(trace))
  BY <1>3, <1>5 DEF m
<1> QED  BY <1>5, <1>7, <1>8, <1>9 DEF d, m, Budgeted

\* A larger reserve helps: with reserves in roster order the responders up to
\* the reach of a budget are the initial ones and some of the reserves.
LEMMA ReservesFollow ==
  ASSUME DirectAssumption, DirectInv
  PROVE  ReserveHelps
<1> SUFFICES ASSUME NEW i \in DOMAIN variants, NEW b \in VariantBudgets
             PROVE
    LET row == variants[i][b]
        missing == InitialSlots - Responders(registry[i], 1, InitialSlots)
        reach == IF InitialSlots + b < Len(registry[i].roles) THEN InitialSlots + b ELSE Len(registry[i].roles)
    IN /\ \A larger \in {c \in VariantBudgets : c >= b} :
            /\ row.complete => variants[i][larger].decision = row.decision
            /\ variants[i][larger].decision.commissioned >= row.decision.commissioned
       /\ Responders(registry[i], 1, reach) >= InitialSlots => row.complete
       /\ row.complete <=> row.decision.recovered = missing
       /\ row.complete => row.decision.executions = InitialSlots /\ missing <= b
       /\ row.decision.executions + missing - row.decision.recovered = InitialSlots
       /\ row.decision.executions <= row.decision.commissioned
  BY DEF ReserveHelps
<1> DEFINE trace == registry[i]
           row == variants[i][b]
           d == row.decision
           m == Missing(trace)
           r == Reserves(trace)
           reach == IF InitialSlots + b < Len(trace.roles) THEN InitialSlots + b ELSE Len(trace.roles)
<1>1. /\ d = ReserveVariant(trace, b)
      /\ row.complete <=> d.outcome \notin {"defer", "terminate"}
      /\ IsTrace(trace) /\ b \in Nat
  BY VariantRow
<1>2. Budgeted(trace, b, d) /\ (row.complete <=> Done(d))
  <2> HIDE DEF trace, row
  <2> QED  BY <1>1, BudgetFacts DEF Done
<1>a. /\ d.recovered \in Nat /\ Fewest(d.recovered, m, b, r)
      /\ row.complete <=> d.recovered = m
      /\ d.executions = InitialSlots - m + d.recovered
      /\ d.commissioned = InitialSlots + d.recovered
      /\ row.complete => d.outcome = SignalOutcome(trace, "ctiv")
      /\ d = Decision(d.outcome, "ctiv", 0, d.executions, d.commissioned, d.recovered)
  <2> HIDE DEF trace, row, d
  <2> QED  BY <1>2 DEF Budgeted
<1>3. m \in Nat /\ m <= InitialSlots /\ r \in Nat /\ InitialSlots \in Nat /\ Len(trace.roles) \in Nat
  <2>1. Len(trace.roles) \in Nat /\ InitialSlots \in Nat
    BY <1>1 DEF IsTrace, DirectAssumption
  <2> HIDE DEF trace
  <2> QED  BY <1>1, <2>1, VariantIs
<1>4. ASSUME NEW larger \in {c \in VariantBudgets : c >= b}
      PROVE  /\ row.complete => variants[i][larger].decision = d
             /\ variants[i][larger].decision.commissioned >= d.commissioned
  <2> DEFINE e == variants[i][larger].decision
  <2>1. e = ReserveVariant(trace, larger) /\ larger \in Nat /\ larger >= b
    BY VariantRow
  <2>a. Budgeted(trace, larger, e)
    <3> HIDE DEF trace, e
    <3> QED  BY <1>1, <2>1, BudgetFacts
  <2>2. /\ e.recovered \in Nat /\ Fewest(e.recovered, m, larger, r)
        /\ e.executions = InitialSlots - m + e.recovered
        /\ e.commissioned = InitialSlots + e.recovered
        /\ e.recovered = m => e.outcome = SignalOutcome(trace, "ctiv")
        /\ e = Decision(e.outcome, "ctiv", 0, e.executions, e.commissioned, e.recovered)
    <3> HIDE DEF trace, e
    <3> QED  BY <2>a DEF Budgeted
  <2> HIDE DEF e, d, row, m, r, trace
  <2>3. e.recovered >= d.recovered /\ (d.recovered = m => e.recovered = m)
    BY <1>1, <1>a, <1>3, <2>1, <2>2, SMTT(30) DEF Fewest
  <2>4. e.commissioned >= d.commissioned
    BY <1>a, <1>3, <2>2, <2>3
  <2>5. ASSUME row.complete PROVE e = d
    <3>1. e.recovered = d.recovered
      BY <1>a, <2>3, <2>5
    <3>2. e.outcome = d.outcome /\ e.executions = d.executions /\ e.commissioned = d.commissioned
      BY <1>a, <2>2, <2>3, <2>5, <3>1
    <3> QED  BY <1>a, <2>2, <3>1, <3>2
  <2> QED  BY <2>4, <2>5 DEF e
<1>5. ASSUME Responders(trace, 1, reach) >= InitialSlots PROVE row.complete
  <2> HIDE DEF trace, row, d
  <2> DEFINE far == Responders(trace, InitialSlots + 1, reach)
             initial == Responders(trace, 1, InitialSlots)
  <2>1. initial = InitialSlots - m /\ initial \in Nat
    <3>1. m = InitialSlots - initial
      BY DEF Missing
    <3>2. initial \in Nat
      <4>1. 1 \in Nat /\ 1 <= InitialSlots + 1 /\ InitialSlots <= InitialSlots
        BY <1>3
      <4> QED  BY <1>3, <4>1, RespondersAdd
    <3> HIDE DEF m, initial
    <3> QED  BY <1>3, <3>1, <3>2
  <2>2. CASE reach < InitialSlots
    <3>1. reach \in Nat /\ 1 \in Nat /\ 1 <= reach + 1 /\ reach <= reach
      BY <1>1, <1>3
    <3>2. Responders(trace, 1, reach) \in Nat /\ Responders(trace, 1, reach) <= reach + 1 - 1
      <4> HIDE DEF reach
      <4> QED  BY <3>1, RespondersAdd
    <3> HIDE DEF reach
    <3> QED  BY <1>3, <1>5, <2>2, <3>1, <3>2
  <2>3. CASE InitialSlots <= reach
    <3>1. reach \in Nat /\ reach <= InitialSlots + b /\ reach <= Len(trace.roles)
      BY <1>1, <1>3
    <3> HIDE DEF reach
    <3>2. /\ far \in Nat /\ Responders(trace, 1, reach) = initial + far
      <4>1. 1 \in Nat /\ 1 <= InitialSlots + 1
        BY <1>3
      <4> QED  BY <1>3, <2>3, <3>1, <4>1, RespondersAdd
    <3>3. far <= b
      <4>1. InitialSlots + 1 \in Nat /\ InitialSlots + 1 <= reach + 1 /\ reach <= reach
        BY <1>3, <2>3, <3>1
      <4>2. far <= reach + 1 - (InitialSlots + 1)
        BY <3>1, <4>1, RespondersAdd
      <4> HIDE DEF far
      <4> QED  BY <1>1, <1>3, <3>1, <3>2, <4>2
    <3>4. far <= r
      <4>1. InitialSlots + 1 \in Nat /\ InitialSlots + 1 <= reach + 1
        BY <1>3, <2>3, <3>1
      <4>2. /\ Responders(trace, reach + 1, Len(trace.roles)) \in Nat
            /\ Responders(trace, InitialSlots + 1, Len(trace.roles))
                 = far + Responders(trace, reach + 1, Len(trace.roles))
        BY <1>3, <3>1, <4>1, RespondersAdd
      <4>3. r = far + Responders(trace, reach + 1, Len(trace.roles))
        BY <4>2 DEF Reserves
      <4> HIDE DEF r, far
      <4> QED  BY <1>3, <3>2, <4>2, <4>3
    <3> HIDE DEF far, initial, m, r
    <3>5. m <= far
      BY <1>3, <1>5, <2>1, <3>2
    <3>6. m <= b /\ m <= r
      BY <1>1, <1>3, <3>2, <3>3, <3>4, <3>5
    <3> QED  BY <1>1, <1>a, <1>3, <3>6 DEF Fewest
  <2>4. reach \in Nat
    BY <1>1, <1>3
  <2> HIDE DEF reach
  <2> QED  BY <1>3, <2>2, <2>3, <2>4
<1>6. /\ row.complete => d.executions = InitialSlots /\ m <= b
      /\ d.executions + m - d.recovered = InitialSlots
      /\ d.executions <= d.commissioned
  <2> HIDE DEF row, d, m, r, trace
  <2> QED  BY <1>1, <1>a, <1>3 DEF Fewest
<1>7. m = InitialSlots - Responders(registry[i], 1, InitialSlots)
  BY DEF Missing
<1> QED
  <2>1. row.complete <=> d.recovered = m
    BY <1>a
  <2> HIDE DEF m
  <2> QED  BY <1>4, <1>5, <1>6, <1>7, <2>1

\* The rows a dataset has so far, with what each says.
LEMMA OutcomeFacts ==
  ASSUME DirectInv, NEW k \in DOMAIN outcomes
  PROVE  /\ DOMAIN outcomes = 1..Len(outcomes) /\ Len(outcomes) \in Nat
         /\ k \in Places /\ outcomes[k] = RowAt(k)
         /\ outcomes[k].trace = TraceOf(k) /\ TraceOf(k) \in 1..Len(registry)
         /\ outcomes[k].method = MethodOf(k)
         /\ outcomes[k].decision = DecisionOf(registry[TraceOf(k)], MethodOf(k))
         /\ outcomes[k].unsafe <=> /\ registry[TraceOf(k)].bad /\ outcomes[k].decision.outcome = "accept"
                                   /\ registry[TraceOf(k)].found[outcomes[k].decision.source].FN > 0
<1>1. DirectTypeOK
  BY DEF DirectInv
<1>2. /\ DOMAIN outcomes = 1..Len(outcomes) /\ DOMAIN outcomes \subseteq Places
      /\ Len(outcomes) \in Nat
  <2> DEFINE All == {RowAt(j) : j \in Places}
  <2>1. outcomes \in Seq(All) /\ Len(outcomes) <= Len(registry) * 6 /\ Len(registry) \in Nat
    BY <1>1 DEF DirectTypeOK
  <2> HIDE DEF All
  <2> QED  BY <2>1 DEF Places
<1>3. outcomes[k] = RowAt(k) /\ k \in Places
  BY <1>2 DEF DirectInv
<1>4. /\ TraceOf(k) \in 1..Len(registry)
      /\ RowAt(k).trace = TraceOf(k) /\ RowAt(k).method = MethodOf(k)
      /\ RowAt(k).decision = DecisionOf(registry[TraceOf(k)], MethodOf(k))
      /\ RowAt(k).unsafe <=> /\ registry[TraceOf(k)].bad /\ RowAt(k).decision.outcome = "accept"
                             /\ registry[TraceOf(k)].found[RowAt(k).decision.source].FN > 0
  BY <1>1, <1>3, RowFacts
<1> QED  BY <1>2, <1>3, <1>4, Zenon

LEMMA OfFinite ==
  ASSUME DirectInv, NEW state, NEW method
  PROVE  IsFiniteSet(Of(state, method))
<1> DEFINE All == {RowAt(j) : j \in Places}
<1>1. outcomes \in Seq(All)
  BY DEF DirectInv, DirectTypeOK
<1>2. DOMAIN outcomes = 1..Len(outcomes) /\ Len(outcomes) \in Nat
  <2> HIDE DEF All
  <2> QED  BY <1>1
<1>3. IsFiniteSet(DOMAIN outcomes)
  BY <1>2, FS_Interval
<1>4. Of(state, method) \in SUBSET (DOMAIN outcomes)
  BY DEF Of
<1> QED  BY <1>3, <1>4, FS_Subset

\* A complete comparison has one row of each method for every trace of a state.
LEMMA OneRowEach ==
  ASSUME DirectInv, Len(outcomes) = Len(registry) * 6, NEW c \in {1, 6}, NEW state
  PROVE  /\ \A i \in Judges(state) :
              /\ (i - 1) * 6 + c \in Of(state, METHODS[c])
              /\ TraceOf((i - 1) * 6 + c) = i
         /\ Cardinality(Of(state, METHODS[c])) = Cardinality(Judges(state))
<1> DEFINE n == Len(registry)
           f == [i \in Judges(state) |-> (i - 1) * 6 + c]
           rows == Of(state, METHODS[c])
<1>1. n \in Nat /\ DOMAIN registry = 1..n /\ Judges(state) \subseteq 1..n /\ c \in 1..6
  BY DEF DirectInv, DirectTypeOK, Judges
<1>2. ASSUME NEW i \in Judges(state)
      PROVE  f[i] \in rows /\ TraceOf(f[i]) = i
  <2>1. i \in 1..n /\ registry[i].state = state
    BY <1>1 DEF Judges
  <2>2. /\ f[i] \in 1..(n * 6) /\ TraceOf(f[i]) = i /\ ((f[i] - 1) % 6) + 1 = c
    BY <1>1, <2>1, PlaceFor
  <2> HIDE DEF f
  <2>3. MethodOf(f[i]) = METHODS[c]
    BY <2>2 DEF MethodOf
  <2>4. f[i] \in DOMAIN outcomes
    <3> DEFINE All == {RowAt(j) : j \in Places}
    <3>1. outcomes \in Seq(All)
      BY DEF DirectInv, DirectTypeOK
    <3> HIDE DEF All
    <3> QED  BY <2>2, <3>1
  <2>5. outcomes[f[i]].method = METHODS[c] /\ outcomes[f[i]].trace = i
    BY <2>2, <2>3, <2>4, OutcomeFacts
  <2> QED  BY <2>1, <2>2, <2>4, <2>5 DEF Of
<1>3. ASSUME NEW k \in rows
      PROVE  TraceOf(k) \in Judges(state) /\ k = f[TraceOf(k)]
  <2>1. k \in DOMAIN outcomes /\ outcomes[k].method = METHODS[c] /\ registry[outcomes[k].trace].state = state
    BY DEF Of
  <2>2. k \in 1..(n * 6) /\ TraceOf(k) \in 1..n /\ outcomes[k].trace = TraceOf(k)
        /\ MethodOf(k) = METHODS[c]
    BY <2>1, OutcomeFacts DEF Places
  <2>3. TraceOf(k) \in Judges(state)
    BY <1>1, <2>1, <2>2 DEF Judges
  <2>4. ((k - 1) % 6) + 1 \in 1..6 /\ k = (TraceOf(k) - 1) * 6 + (((k - 1) % 6) + 1)
    BY <1>1, <2>2, PlaceOf
  <2> DEFINE r == ((k - 1) % 6) + 1
  <2>5. METHODS[r] = METHODS[c] /\ r \in 1..6
    BY <2>2, <2>4 DEF MethodOf
  <2> HIDE DEF r
  <2>6. r = c
    <3>1. METHODS[r] = "no-verification" <=> r = 1
      BY <2>5, MethodPlaces
    <3>2. METHODS[r] = "full-sevc" <=> r = 6
      BY <2>5, MethodPlaces
    <3>3. METHODS[c] = IF c = 1 THEN "no-verification" ELSE "full-sevc"
      BY DEF METHODS
    <3> QED  BY <2>5, <3>1, <3>2, <3>3
  <2> QED  BY <2>3, <2>4, <2>6 DEF r
<1>4. f \in Bijection(Judges(state), rows)
  <2>1. f \in [Judges(state) -> rows]
    BY <1>2
  <2>2. \A i, j \in Judges(state) : f[i] = f[j] => i = j
    BY <1>2
  <2>3. \A k \in rows : \E i \in Judges(state) : f[i] = k
    BY <1>3
  <2> HIDE DEF f, rows
  <2>4. f \in Injection(Judges(state), rows)
    BY <2>1, <2>2 DEF Injection, IsInjective
  <2>5. f \in Surjection(Judges(state), rows)
    BY <2>1, <2>3 DEF Surjection
  <2> QED  BY <2>4, <2>5 DEF Bijection
<1>5. IsFiniteSet(Judges(state))
  <2>1. IsFiniteSet(1..n)
    BY <1>1, FS_Interval
  <2> QED  BY <1>1, <2>1, FS_Subset
<1>6. Cardinality(rows) = Cardinality(Judges(state))
  <2> HIDE DEF f, rows
  <2> QED  BY <1>4, <1>5, FS_Bijection DEF ExistsBijection
<1> QED  BY <1>2, <1>6

\* A dataset that passes shows the contrast.
LEMMA PassedMeans ==
  ASSUME DirectInv, NEW state, StatePassed(state)
  PROVE  /\ \A k \in Of(state, "full-sevc") :
              registry[outcomes[k].trace].bad => outcomes[k].decision.outcome \in {"reject", "defer"}
         /\ \E i \in Judges(state) : registry[i].bad /\ registry[i].found["none"].FN > 0
<1>1. SafeRoutes(state) = Of(state, "full-sevc")
  <2>1. SafeRoutes(state) \in SUBSET Of(state, "full-sevc")
    BY DEF SafeRoutes
  <2>2. IsFiniteSet(Of(state, "full-sevc"))
    BY OfFinite
  <2>3. Cardinality(Of(state, "full-sevc")) = Cardinality(SafeRoutes(state))
    BY DEF StatePassed
  <2> QED  BY <2>1, <2>2, <2>3, FS_Subset
<1>2. \A k \in Of(state, "full-sevc") : outcomes[k].decision.outcome \in {"reject", "defer"}
  BY <1>1 DEF SafeRoutes
<1>3. Unsafe(state, "no-verification") # {}
  <2>1. SUFFICES ASSUME Unsafe(state, "no-verification") = {} PROVE FALSE
    OBVIOUS
  <2>2. Cardinality(Unsafe(state, "no-verification")) > Cardinality(Unsafe(state, "full-sevc"))
        /\ Unsafe(state, "full-sevc") = {}
    BY DEF StatePassed
  <2>3. Cardinality({}) = 0
    BY FS_EmptySet
  <2>4. Cardinality({}) > Cardinality({})
    BY <2>1, <2>2
  <2> QED  BY <2>3, <2>4
<1>4. PICK k \in Unsafe(state, "no-verification") : TRUE
  BY <1>3
<1>5. /\ k \in DOMAIN outcomes /\ outcomes[k].method = "no-verification"
      /\ registry[outcomes[k].trace].state = state /\ outcomes[k].unsafe
  BY <1>4 DEF Unsafe, Of
<1> DEFINE i == TraceOf(k)
<1>6. /\ outcomes[k].trace = i /\ i \in 1..Len(registry) /\ MethodOf(k) = "no-verification"
      /\ outcomes[k].decision = DecisionOf(registry[i], "no-verification")
      /\ registry[i].bad /\ registry[i].found[outcomes[k].decision.source].FN > 0
  BY <1>5, OutcomeFacts
<1>7. DecisionOf(registry[i], "no-verification").source = "none"
  <2>1. "no-verification" \in Method
    BY MethodPlaces
  <2>2. DecisionOf(registry[i], "no-verification") = Decision("accept", "none", 0, 0, 0, 0)
    BY <2>1, DecisionSays
  <2> QED  BY <2>2 DEF Decision
<1>8. i \in Judges(state)
  BY <1>5, <1>6 DEF Judges, DirectInv, DirectTypeOK
<1> QED  BY <1>2, <1>6, <1>7, <1>8

\* A state fails for want of traces, of detection or of anything bad.
LEMMA FailedMeans ==
  ASSUME DirectAssumption, DirectInv, Len(outcomes) = Len(registry) * 6,
         NEW state \in BadStates, ~StatePassed(state)
  PROVE  \/ Cardinality(Judges(state)) # ExpectedTraces
         \/ \E i \in Judges(state) : registry[i].found["ctiv"].FN > 0 \/ registry[i].found["ctiv"].TP = 0
         \/ \A i \in Judges(state) : registry[i].found["none"].FN = 0
<1> SUFFICES ASSUME Cardinality(Judges(state)) = ExpectedTraces,
                    \A i \in Judges(state) : ~(registry[i].found["ctiv"].FN > 0 \/ registry[i].found["ctiv"].TP = 0),
                    NEW i \in Judges(state), registry[i].found["none"].FN # 0
             PROVE  StatePassed(state)
  OBVIOUS
<1> DEFINE full == Of(state, "full-sevc")
           open == Of(state, "no-verification")
<1>1. METHODS[1] = "no-verification" /\ METHODS[6] = "full-sevc"
  BY DEF METHODS
<1>2. /\ Cardinality(open) = ExpectedTraces /\ Cardinality(full) = ExpectedTraces
      /\ (i - 1) * 6 + 1 \in open /\ TraceOf((i - 1) * 6 + 1) = i
  <2>1. 1 \in {1, 6} /\ 6 \in {1, 6}
    OBVIOUS
  <2>2. /\ (i - 1) * 6 + 1 \in Of(state, METHODS[1]) /\ TraceOf((i - 1) * 6 + 1) = i
        /\ Cardinality(Of(state, METHODS[1])) = Cardinality(Judges(state))
    BY <2>1, OneRowEach
  <2>3. Cardinality(Of(state, METHODS[6])) = Cardinality(Judges(state))
    BY <2>1, OneRowEach
  <2> QED  BY <1>1, <2>2, <2>3
<1>3. ASSUME NEW j \in Judges(state)
      PROVE  /\ registry[j].bad /\ registry[j].found["none"].FN \in Nat
             /\ registry[j].found["ctiv"].TP > 0 /\ registry[j].found["ctiv"].FN = 0
  <2>1. j \in 1..Len(registry) /\ registry[j].state = state
    BY DEF Judges, DirectInv, DirectTypeOK
  <2>2. IsTrace(registry[j])
    BY <2>1 DEF DirectInv, DirectTypeOK
  <2>3. registry[j].bad
    BY <2>1, <2>2 DEF IsTrace
  <2>4. registry[j].found["none"] \in Found /\ registry[j].found["ctiv"] \in Found
    BY <2>2 DEF IsTrace, Sources
  <2>5. /\ registry[j].found["none"].FN \in Nat /\ registry[j].found["ctiv"].FN \in Nat
        /\ registry[j].found["ctiv"].TP \in Nat
    BY <2>4 DEF Found
  <2> QED  BY <2>3, <2>5
<1>4. ASSUME NEW k \in full
      PROVE  outcomes[k].decision.outcome \in {"reject", "defer"} /\ ~outcomes[k].unsafe
  <2> DEFINE j == TraceOf(k)
             d == outcomes[k].decision
  <2>1. /\ k \in DOMAIN outcomes /\ outcomes[k].method = "full-sevc"
        /\ registry[outcomes[k].trace].state = state
    BY DEF Of
  <2>2. /\ outcomes[k].trace = j /\ j \in 1..Len(registry) /\ MethodOf(k) = "full-sevc"
        /\ d = DecisionOf(registry[j], "full-sevc")
        /\ outcomes[k].unsafe => d.outcome = "accept"
    BY <2>1, OutcomeFacts
  <2>3. j \in Judges(state)
    BY <2>1, <2>2 DEF Judges, DirectInv, DirectTypeOK
  <2>4. "full-sevc" \in Method
    BY <1>1, MethodPlaces
  <2>5. d = ReserveVariant(registry[j], FullBudget)
    BY <2>2, <2>4, DecisionSays
  <2>6. Says(registry[j], d) /\ d.source = "ctiv" /\ d.outcome # "terminate"
    BY <2>5, VariantSays
  <2>7. SignalOutcome(registry[j], "ctiv") = "reject"
    BY <1>3, <2>3 DEF SignalOutcome
  <2> HIDE DEF d, j
  <2>8. d.outcome \in {"reject", "defer"}
    BY <2>6, <2>7 DEF Says
  <2> QED  BY <2>2, <2>8 DEF d
<1>5. SafeRoutes(state) = full /\ Unsafe(state, "full-sevc") = {}
  BY <1>4 DEF SafeRoutes, Unsafe
<1>6. (i - 1) * 6 + 1 \in Unsafe(state, "no-verification")
  <2> DEFINE k == (i - 1) * 6 + 1
  <2>1. k \in DOMAIN outcomes /\ outcomes[k].method = "no-verification" /\ TraceOf(k) = i /\ k \in open
    BY <1>2 DEF Of
  <2> HIDE DEF k
  <2>2. /\ MethodOf(k) = "no-verification" /\ outcomes[k].decision = DecisionOf(registry[i], "no-verification")
        /\ outcomes[k].unsafe <=> /\ registry[i].bad /\ outcomes[k].decision.outcome = "accept"
                                  /\ registry[i].found[outcomes[k].decision.source].FN > 0
    BY <2>1, OutcomeFacts
  <2>3. "no-verification" \in Method
    BY <1>1, MethodPlaces
  <2>4. DecisionOf(registry[i], "no-verification") = Decision("accept", "none", 0, 0, 0, 0)
    BY <2>3, DecisionSays
  <2>5. outcomes[k].decision.outcome = "accept" /\ outcomes[k].decision.source = "none"
    BY <2>2, <2>4 DEF Decision
  <2>6. registry[i].bad /\ registry[i].found["none"].FN > 0
    BY <1>3
  <2>7. outcomes[k].unsafe
    BY <2>2, <2>5, <2>6
  <2> QED  BY <2>1, <2>7 DEF Unsafe, k
<1>7. Cardinality(Unsafe(state, "no-verification")) > Cardinality(Unsafe(state, "full-sevc"))
  <2> DEFINE bad == Unsafe(state, "no-verification")
  <2>1. IsFiniteSet(open) /\ bad \in SUBSET open
    BY OfFinite DEF Unsafe
  <2>2. IsFiniteSet(bad)
    BY <2>1, FS_Subset
  <2>3. Cardinality(bad) \in Nat
    BY <2>2, FS_CardinalityType
  <2>4. Cardinality(bad) # 0
    <3> HIDE DEF bad
    <3> QED  BY <1>6, <2>2, FS_EmptySet DEF bad
  <2>5. Cardinality(Unsafe(state, "full-sevc")) = 0
    BY <1>5, FS_EmptySet
  <2> HIDE DEF bad
  <2> QED  BY <2>3, <2>4, <2>5 DEF bad
<1> QED
  <2>1. Cardinality(SafeRoutes(state)) = ExpectedTraces
    BY <1>2, <1>5
  <2> QED  BY <1>2, <1>5, <1>7, <2>1 DEF StatePassed

LEMMA GateFollows ==
  ASSUME DirectAssumption, DirectInv
  PROVE  GateMeans
<1>1. ASSUME gate = "passed" PROVE \A state \in BadStates : StatePassed(state)
  BY <1>1 DEF DirectInv
<1>2. ASSUME gate = "failed"
      PROVE  \E state \in BadStates : ~StatePassed(state) /\ Len(outcomes) = Len(registry) * 6
  BY <1>2 DEF DirectInv
<1>3. ASSUME gate = "passed"
      PROVE  \A state \in BadStates :
         /\ \A k \in Of(state, "full-sevc") :
              registry[outcomes[k].trace].bad => outcomes[k].decision.outcome \in {"reject", "defer"}
         /\ \E i \in Judges(state) : registry[i].bad /\ registry[i].found["none"].FN > 0
  BY <1>1, <1>3, PassedMeans
<1>4. ASSUME gate = "failed"
      PROVE  \E state \in BadStates :
         \/ Cardinality(Judges(state)) # ExpectedTraces
         \/ \E i \in Judges(state) : registry[i].found["ctiv"].FN > 0 \/ registry[i].found["ctiv"].TP = 0
         \/ \A i \in Judges(state) : registry[i].found["none"].FN = 0
  <2>1. PICK state \in BadStates : ~StatePassed(state) /\ Len(outcomes) = Len(registry) * 6
    BY <1>2, <1>4
  <2> QED  BY <2>1, FailedMeans
<1> QED  BY <1>3, <1>4 DEF GateMeans

\* The rows are what the methods decide of the traces, in their places, and the
\* gate is judged on all of them: the comparison keeps its registry, its rows
\* and its verdict together (build_direct_outcomes, evaluate_dataset_safety).
THEOREM DirectInductive == DirectAssumption /\ DirectSpec => []DirectInv
<1> SUFFICES ASSUME DirectAssumption PROVE DirectSpec => []DirectInv
  OBVIOUS
<1>1. DirectInit => DirectInv
  BY DirectStarts
<1>2. DirectInv /\ [DirectNext]_compared => DirectInv'
  <2> SUFFICES ASSUME DirectInv, [DirectNext]_compared PROVE DirectInv'
    OBVIOUS
  <2>1. CASE Decide
    BY <2>1, DecideKeeps
  <2>2. CASE DecideVariants
    BY <2>2, DecideVariantsKeeps
  <2>3. CASE EvaluateDatasetSafety
    BY <2>3, EvaluateKeeps
  <2>4. CASE Judged
    BY <2>4, DirectStands DEF Judged
  <2>5. CASE UNCHANGED compared
    BY <2>5, DirectStands
  <2> QED  BY <2>1, <2>2, <2>3, <2>4, <2>5 DEF DirectNext
<1> QED  BY <1>1, <1>2, PTL DEF DirectSpec

\* Who responds never decides which verdict is given, a larger reserve undoes
\* none, and a dataset that passes or fails does so for what its traces show.
THEOREM DirectIsSound == DirectAssumption /\ DirectSpec => []DirectSound
<1> SUFFICES ASSUME DirectAssumption PROVE DirectSpec => []DirectSound
  OBVIOUS
<1>1. DirectSpec => []DirectInv
  BY DirectInductive
<1>2. DirectInv => DirectSound
  BY AgreementFollows, ReservesFollow, GateFollows DEF DirectSound
<1> QED  BY <1>1, <1>2, PTL

-------------------------------------------------------------------------------
(* The replay of tasks: plans permute the channels of a tensor             *)

\* A plan permutes the channels of each hidden layer.
Permutes(map, n) == map \in [1..n -> 1..n] /\ IsInjective(map) /\ Range(map) = 1..n
IsPlan(plan) ==
  /\ DOMAIN plan.maps = DOMAIN ChannelSizes
  /\ Permutes(plan.maps["hidden0"], 3) /\ Permutes(plan.maps["hidden1"], 2)

Keys == {"w1", "rm", "w3", "w5", "b5"}
\* The tensors a state has, and the channels of the two hidden layers.
LEMMA KeysAre == DOMAIN Shapes = Keys /\ Parameters \subseteq Keys /\ DOMAIN ChannelSizes = {"hidden0", "hidden1"}
                 /\ ChannelSizes["hidden0"] = 3 /\ ChannelSizes["hidden1"] = 2
BY DEF Shapes, Keys, Parameters, ChannelSizes

\* The coordinates of a tensor, by its name.
LEMMA ShapesAre ==
  /\ Shapes["w1"] = {<<i>> : i \in 1..3} /\ Shapes["rm"] = {<<i>> : i \in 1..3}
  /\ Shapes["w3"] = (1..2) \X (1..3) /\ Shapes["w5"] = {1} \X (1..2) /\ Shapes["b5"] = {<<1>>}
BY DEF Shapes

\* What a plan selects of each tensor.
LEMMA SelectedIs ==
  ASSUME NEW plan, IsPlan(plan)
  PROVE  /\ \A i \in 1..3 : Selected(plan, "w1", <<i>>) = <<plan.maps["hidden0"][i]>>
         /\ \A i \in 1..3 : Selected(plan, "rm", <<i>>) = <<plan.maps["hidden0"][i]>>
         /\ \A j \in 1..2, i \in 1..3 :
              Selected(plan, "w3", <<j, i>>) = <<plan.maps["hidden1"][j], plan.maps["hidden0"][i]>>
         /\ \A j \in 1..2 : Selected(plan, "w5", <<1, j>>) = <<1, plan.maps["hidden1"][j]>>
         /\ Selected(plan, "b5", <<1>>) = <<1>>
<1>1. DOMAIN plan.maps = {"hidden0", "hidden1"}
  BY KeysAre DEF IsPlan
<1>2. /\ DimensionMaps["w1"] = <<"hidden0">> /\ DimensionMaps["rm"] = <<"hidden0">>
      /\ DimensionMaps["w3"] = <<"hidden1", "hidden0">> /\ DimensionMaps["w5"] = <<"outputs", "hidden1">>
      /\ DimensionMaps["b5"] = <<"outputs">>
  BY DEF DimensionMaps
<1> QED  BY <1>1, <1>2 DEF Selected

\* A plan selects coordinates of the same tensor.
LEMMA SelectedStays ==
  ASSUME NEW plan, IsPlan(plan), NEW key \in Keys, NEW at \in Shapes[key]
  PROVE  Selected(plan, key, at) \in Shapes[key]
<1>1. /\ \A i \in 1..3 : plan.maps["hidden0"][i] \in 1..3
      /\ \A j \in 1..2 : plan.maps["hidden1"][j] \in 1..2
  BY DEF IsPlan, Permutes
<1>2. CASE key = "w1"
  BY <1>1, <1>2, SelectedIs, ShapesAre
<1>3. CASE key = "rm"
  BY <1>1, <1>3, SelectedIs, ShapesAre
<1>4. CASE key = "w3"
  BY <1>1, <1>4, SelectedIs, ShapesAre, SMTT(30)
<1>5. CASE key = "w5"
  BY <1>1, <1>5, SelectedIs, ShapesAre, SMTT(30)
<1>6. CASE key = "b5"
  BY <1>6, SelectedIs, ShapesAre
<1> QED  BY <1>2, <1>3, <1>4, <1>5, <1>6 DEF Keys

\* The inverse of a permutation is one, and undoes it.
LEMMA InverseMap ==
  ASSUME NEW map, NEW n, Permutes(map, n)
  PROVE  /\ Permutes(AntiFunction(map), n)
         /\ \A i \in 1..n : map[AntiFunction(map)[i]] = i /\ AntiFunction(map)[map[i]] = i
<1> DEFINE inv == AntiFunction(map)
<1>1. DOMAIN map = 1..n /\ Range(map) = 1..n
  BY DEF Permutes
<1>2. inv = [t \in 1..n |-> CHOOSE s \in 1..n : t \in Range(map) => map[s] = t]
  <2>1. inv = Inverse(map, 1..n, 1..n)
    BY <1>1 DEF AntiFunction
  <2> QED  BY <2>1 DEF Inverse
<1>3. \A t \in 1..n : inv[t] \in 1..n /\ map[inv[t]] = t
  <2> SUFFICES ASSUME NEW t \in 1..n PROVE inv[t] \in 1..n /\ map[inv[t]] = t
    OBVIOUS
  <2>1. t \in Range(map)
    BY <1>1
  <2>2. \E s \in 1..n : map[s] = t
    BY <2>1, <1>1 DEF Range
  <2> HIDE DEF inv
  <2> QED  BY <1>2, <2>1, <2>2
<1> HIDE DEF inv
<1>4. \A i \in 1..n : inv[map[i]] = i
  BY <1>3, <1>1 DEF Permutes, IsInjective
<1>5. inv \in [1..n -> 1..n]
  BY <1>2, <1>3
<1>6. IsInjective(inv)
  BY <1>3, <1>5 DEF IsInjective
<1>7. Range(inv) = 1..n
  BY <1>3, <1>4, <1>5 DEF Range, Permutes
<1> QED  BY <1>3, <1>4, <1>5, <1>6, <1>7 DEF inv, Permutes

\* The inverse of a plan is one, and undoes what the plan selects
\* (inverse_permutation_plan).
LEMMA InverseIsPlan ==
  ASSUME NEW plan, IsPlan(plan), plan = [seed |-> plan.seed, mode |-> plan.mode, maps |-> plan.maps]
  PROVE  /\ IsPlan(InversePlan(plan))
         /\ \A key \in Keys : \A at \in Shapes[key] :
              /\ Selected(plan, key, Selected(InversePlan(plan), key, at)) = at
              /\ Selected(InversePlan(plan), key, Selected(plan, key, at)) = at
<1> DEFINE inv == InversePlan(plan)
           p == plan.maps["hidden0"]
           q == plan.maps["hidden1"]
           pi == inv.maps["hidden0"]
           qi == inv.maps["hidden1"]
<1>1. inv.maps = [name \in DOMAIN ChannelSizes |-> AntiFunction(plan.maps[name])]
  BY DEF InversePlan
<1>2. DOMAIN inv.maps = DOMAIN ChannelSizes /\ pi = AntiFunction(p) /\ qi = AntiFunction(q)
  BY <1>1, KeysAre
<1>3. Permutes(p, 3) /\ Permutes(q, 2)
  BY DEF IsPlan
<1> HIDE DEF p, q, inv
<1>4. /\ Permutes(pi, 3) /\ \A i \in 1..3 : p[pi[i]] = i /\ pi[p[i]] = i
      /\ Permutes(qi, 2) /\ \A j \in 1..2 : q[qi[j]] = j /\ qi[q[j]] = j
  <2>1. Permutes(pi, 3) /\ \A i \in 1..3 : p[pi[i]] = i /\ pi[p[i]] = i
    BY <1>2, <1>3, InverseMap
  <2>2. Permutes(qi, 2) /\ \A j \in 1..2 : q[qi[j]] = j /\ qi[q[j]] = j
    BY <1>2, <1>3, InverseMap
  <2> QED  BY <2>1, <2>2
<1>5. IsPlan(inv)
  BY <1>2, <1>4 DEF IsPlan
<1>6. /\ \A i \in 1..3 : p[i] \in 1..3 /\ pi[i] \in 1..3
      /\ \A j \in 1..2 : q[j] \in 1..2 /\ qi[j] \in 1..2
  BY <1>3, <1>4 DEF Permutes
<1>7. /\ \A i \in 1..3 : Selected(inv, "w1", <<i>>) = <<pi[i]>> /\ Selected(plan, "w1", <<i>>) = <<p[i]>>
      /\ \A i \in 1..3 : Selected(inv, "rm", <<i>>) = <<pi[i]>> /\ Selected(plan, "rm", <<i>>) = <<p[i]>>
      /\ \A j \in 1..2, i \in 1..3 : /\ Selected(inv, "w3", <<j, i>>) = <<qi[j], pi[i]>>
                                     /\ Selected(plan, "w3", <<j, i>>) = <<q[j], p[i]>>
      /\ \A j \in 1..2 : /\ Selected(inv, "w5", <<1, j>>) = <<1, qi[j]>>
                         /\ Selected(plan, "w5", <<1, j>>) = <<1, q[j]>>
      /\ Selected(inv, "b5", <<1>>) = <<1>> /\ Selected(plan, "b5", <<1>>) = <<1>>
  BY <1>5, SelectedIs DEF p, q
<1> SUFFICES ASSUME NEW key \in Keys, NEW at \in Shapes[key]
             PROVE  /\ Selected(plan, key, Selected(inv, key, at)) = at
                    /\ Selected(inv, key, Selected(plan, key, at)) = at
  BY <1>5 DEF inv
<1> HIDE DEF pi, qi
<1>8. CASE key = "w1"
  <2>1. PICK i \in 1..3 : at = <<i>>
    BY <1>8, ShapesAre
  <2>2. Selected(inv, key, at) = <<pi[i]>> /\ Selected(plan, key, at) = <<p[i]>>
    BY <1>7, <1>8, <2>1
  <2>3. Selected(plan, key, <<pi[i]>>) = <<p[pi[i]]>> /\ Selected(inv, key, <<p[i]>>) = <<pi[p[i]]>>
    BY <1>6, <1>7, <1>8
  <2> QED  BY <1>4, <2>1, <2>2, <2>3
<1>9. CASE key = "rm"
  <2>1. PICK i \in 1..3 : at = <<i>>
    BY <1>9, ShapesAre
  <2>2. Selected(inv, key, at) = <<pi[i]>> /\ Selected(plan, key, at) = <<p[i]>>
    BY <1>7, <1>9, <2>1
  <2>3. Selected(plan, key, <<pi[i]>>) = <<p[pi[i]]>> /\ Selected(inv, key, <<p[i]>>) = <<pi[p[i]]>>
    BY <1>6, <1>7, <1>9
  <2> QED  BY <1>4, <2>1, <2>2, <2>3
<1>10. CASE key = "w3"
  <2>1. PICK j \in 1..2, i \in 1..3 : at = <<j, i>>
    BY <1>10, ShapesAre
  <2>2. Selected(inv, key, at) = <<qi[j], pi[i]>> /\ Selected(plan, key, at) = <<q[j], p[i]>>
    BY <1>7, <1>10, <2>1
  <2>3. /\ Selected(plan, key, <<qi[j], pi[i]>>) = <<q[qi[j]], p[pi[i]]>>
        /\ Selected(inv, key, <<q[j], p[i]>>) = <<qi[q[j]], pi[p[i]]>>
    BY <1>6, <1>7, <1>10
  <2> QED  BY <1>4, <2>1, <2>2, <2>3
<1>11. CASE key = "w5"
  <2>1. PICK j \in 1..2 : at = <<1, j>>
    BY <1>11, ShapesAre
  <2>2. Selected(inv, key, at) = <<1, qi[j]>> /\ Selected(plan, key, at) = <<1, q[j]>>
    BY <1>7, <1>11, <2>1
  <2>3. Selected(plan, key, <<1, qi[j]>>) = <<1, q[qi[j]]>> /\ Selected(inv, key, <<1, q[j]>>) = <<1, qi[q[j]]>>
    BY <1>6, <1>7, <1>11
  <2> QED  BY <1>4, <2>1, <2>2, <2>3
<1>12. CASE key = "b5"
  BY <1>7, <1>12, ShapesAre
<1> QED  BY <1>8, <1>9, <1>10, <1>11, <1>12 DEF Keys

\* Three channels, and two, sum up to the same in any order.
LEMMA SumOfThree ==
  ASSUME NEW map, Permutes(map, 3), NEW f, \A i \in 1..3 : f[i] \in Int
  PROVE  f[map[1]] + f[map[2]] + f[map[3]] = f[1] + f[2] + f[3]
<1>1. map[1] \in 1..3 /\ map[2] \in 1..3 /\ map[3] \in 1..3
  BY DEF Permutes
<1>2. map[1] # map[2] /\ map[1] # map[3] /\ map[2] # map[3]
  BY DEF Permutes, IsInjective
<1>3. f[1] \in Int /\ f[2] \in Int /\ f[3] \in Int
  OBVIOUS
<1>4. CASE map[1] = 1
  BY <1>1, <1>2, <1>3, <1>4
<1>5. CASE map[1] = 2
  BY <1>1, <1>2, <1>3, <1>5
<1>6. CASE map[1] = 3
  BY <1>1, <1>2, <1>3, <1>6
<1> QED  BY <1>1, <1>4, <1>5, <1>6

LEMMA SumOfTwo ==
  ASSUME NEW map, Permutes(map, 2), NEW f, \A j \in 1..2 : f[j] \in Int
  PROVE  f[map[1]] + f[map[2]] = f[1] + f[2]
<1>1. map[1] \in 1..2 /\ map[2] \in 1..2
  BY DEF Permutes
<1>2. map[1] # map[2]
  BY DEF Permutes, IsInjective
<1>3. f[1] \in Int /\ f[2] \in Int
  OBVIOUS
<1> QED  BY <1>1, <1>2, <1>3

\* A shaped map of tensors is a function on its keys, and a transformed one too.
LEMMA ShapedFacts ==
  ASSUME NEW keys, NEW tensors, Shaped(tensors, keys)
  PROVE  DOMAIN tensors = keys /\ \A key \in keys : tensors[key] \in [Shapes[key] -> Int]
BY DEF Shaped

\* Maps of tensors that agree on every coordinate are the same.
LEMMA ShapedEqual ==
  ASSUME NEW keys, NEW a, NEW b, Shaped(a, keys), Shaped(b, keys),
         \A key \in keys : \A at \in Shapes[key] : a[key][at] = b[key][at]
  PROVE  a = b
<1>1. ASSUME NEW key \in keys PROVE a[key] = b[key]
  <2>1. a[key] \in [Shapes[key] -> Int] /\ b[key] \in [Shapes[key] -> Int]
    BY DEF Shaped
  <2> QED  BY <2>1
<1>2. a = [key \in keys |-> a[key]] /\ b = [key \in keys |-> b[key]]
  BY Zenon DEF Shaped
<1>3. [key \in keys |-> a[key]] = [key \in keys |-> b[key]]
  BY <1>1
<1> QED  BY <1>2, <1>3, Zenon

\* A transformed state has the same shapes and holds the selected values
\* (transform_state_dict).
LEMMA Transformed ==
  ASSUME NEW plan, IsPlan(plan), NEW keys, keys \subseteq Keys, NEW tensors, Shaped(tensors, keys)
  PROVE  /\ Shaped(TransformState(tensors, plan), keys)
         /\ \A key \in keys : \A at \in Shapes[key] :
              TransformState(tensors, plan)[key][at] = tensors[key][Selected(plan, key, at)]
<1> DEFINE T == TransformState(tensors, plan)
<1>1. DOMAIN tensors = keys /\ \A key \in keys : tensors[key] \in [Shapes[key] -> Int]
  BY ShapedFacts
<1>2. T = [key \in keys |-> [at \in Shapes[key] |-> tensors[key][Selected(plan, key, at)]]]
  <2>1. T = [key \in keys |-> [at \in DOMAIN tensors[key] |-> tensors[key][Selected(plan, key, at)]]]
    BY <1>1 DEF TransformState
  <2>2. \A key \in keys : DOMAIN tensors[key] = Shapes[key]
    BY <1>1
  <2> HIDE DEF T
  <2> QED  BY <2>1, <2>2
<1> HIDE DEF T
<1>3. ASSUME NEW key \in keys PROVE T[key] = [at \in Shapes[key] |-> tensors[key][Selected(plan, key, at)]]
  BY <1>2
<1>4. ASSUME NEW key \in keys PROVE T[key] \in [Shapes[key] -> Int]
  <2>1. \A at \in Shapes[key] : Selected(plan, key, at) \in Shapes[key]
    BY SelectedStays
  <2>2. \A at \in Shapes[key] : tensors[key][Selected(plan, key, at)] \in Int
    BY <1>1, <2>1
  <2> QED  BY <1>3, <2>2
<1>5. T = [key \in keys |-> T[key]]
  BY <1>2
<1>6. Shaped(T, keys)
  BY <1>4, <1>5, Zenon DEF Shaped
<1>7. \A key \in keys : \A at \in Shapes[key] : T[key][at] = tensors[key][Selected(plan, key, at)]
  BY <1>3
<1> QED  BY <1>6, <1>7, Zenon DEF T

\* Transforming by a plan and by its inverse restores the state.
LEMMA Restored ==
  ASSUME NEW plan, IsPlan(plan), plan = [seed |-> plan.seed, mode |-> plan.mode, maps |-> plan.maps],
         NEW keys, keys \subseteq Keys, NEW tensors, Shaped(tensors, keys)
  PROVE  TransformState(TransformState(tensors, plan), InversePlan(plan)) = tensors
<1> DEFINE T == TransformState(tensors, plan)
           R == TransformState(T, InversePlan(plan))
<1>1. IsPlan(InversePlan(plan))
  BY InverseIsPlan
<1>2. Shaped(T, keys) /\ \A key \in keys : \A at \in Shapes[key] : T[key][at] = tensors[key][Selected(plan, key, at)]
  BY Transformed
<1> HIDE DEF T
<1>3. Shaped(R, keys) /\ \A key \in keys : \A at \in Shapes[key] : R[key][at] = T[key][Selected(InversePlan(plan), key, at)]
  BY <1>1, <1>2, Transformed
<1> HIDE DEF R
<1>4. ASSUME NEW key \in keys, NEW at \in Shapes[key] PROVE R[key][at] = tensors[key][at]
  <2>1. Selected(InversePlan(plan), key, at) \in Shapes[key]
    BY <1>1, SelectedStays
  <2>2. Selected(plan, key, Selected(InversePlan(plan), key, at)) = at
    BY InverseIsPlan
  <2> QED  BY <1>2, <1>3, <2>1, <2>2
<1>5. R = tensors
  BY <1>3, <1>4, ShapedEqual
<1> QED  BY <1>5 DEF R, T

\* Signs.
LEMMA SignIs == \A n \in Int : Sign(n) \in {-1, 0, 1}
BY DEF Sign

\* The parts of a gradient.
Into(s, j, i) == s.w3[<<j, i>>] * s.w1[<<i>>]
Hidden(s, j) == Into(s, j, 1) + Into(s, j, 2) + Into(s, j, 3)
Output(s) == s.w5[<<1, 1>>] * Hidden(s, 1) + s.w5[<<1, 2>>] * Hidden(s, 2) + s.b5[<<1>>]
Error(s, target) == Sign(Output(s) - target)
Back(s, i) == s.w5[<<1, 1>>] * s.w3[<<1, i>>] + s.w5[<<1, 2>>] * s.w3[<<2, i>>]

\* The entries of a state are integers.
LEMMA Entries ==
  ASSUME NEW s, Shaped(s, Keys)
  PROVE  /\ \A i \in 1..3 : s["w1"][<<i>>] \in Int /\ s["rm"][<<i>>] \in Int
         /\ \A j \in 1..2, i \in 1..3 : s["w3"][<<j, i>>] \in Int
         /\ \A j \in 1..2 : s["w5"][<<1, j>>] \in Int
         /\ s["b5"][<<1>>] \in Int
         /\ s.w1 = s["w1"] /\ s.w3 = s["w3"] /\ s.w5 = s["w5"] /\ s.b5 = s["b5"] /\ s.rm = s["rm"]
<1>1. \A key \in Keys : s[key] \in [Shapes[key] -> Int]
  BY ShapedFacts
<1>2. s["w1"] \in [{<<i>> : i \in 1..3} -> Int] /\ s["rm"] \in [{<<i>> : i \in 1..3} -> Int]
  BY <1>1, ShapesAre DEF Keys
<1>3. s["w3"] \in [(1..2) \X (1..3) -> Int] /\ s["w5"] \in [{1} \X (1..2) -> Int] /\ s["b5"] \in [{<<1>>} -> Int]
  BY <1>1, ShapesAre DEF Keys
<1>4. \A i \in 1..3 : <<i>> \in {<<k>> : k \in 1..3}
  BY Zenon
<1>5. \A i \in 1..3 : s["w1"][<<i>>] \in Int /\ s["rm"][<<i>>] \in Int
  BY <1>2, <1>4
<1> QED  BY <1>3, <1>5

\* The parts of a gradient are integers, its error a sign.
LEMMA HiddenIs ==
  ASSUME NEW s, Shaped(s, Keys), NEW target \in Int
  PROVE  /\ \A j \in 1..2, i \in 1..3 : Into(s, j, i) \in Int
         /\ \A j \in 1..2 : Hidden(s, j) \in Int
         /\ Output(s) \in Int /\ Error(s, target) \in {-1, 0, 1}
         /\ \A i \in 1..3 : Back(s, i) \in Int
<1>1. \A j \in 1..2, i \in 1..3 : Into(s, j, i) \in Int
  BY Entries DEF Into
<1>2. \A j \in 1..2 : Hidden(s, j) \in Int
  BY <1>1 DEF Hidden
<1>3. Output(s) \in Int
  BY <1>2, Entries DEF Output
<1>4. \A i \in 1..3 : Back(s, i) \in Int
  BY Entries DEF Back
<1> QED  BY <1>1, <1>2, <1>3, <1>4, SignIs DEF Error

\* The gradient, coordinate by coordinate.
LEMMA GradientIs ==
  ASSUME NEW s, Shaped(s, Keys), NEW target \in Int
  PROVE  /\ Shaped(Gradient(s, target), Parameters)
         /\ \A i \in 1..3 : Gradient(s, target)["w1"][<<i>>] = Error(s, target) * Sign(Back(s, i))
         /\ \A j \in 1..2, i \in 1..3 :
              Gradient(s, target)["w3"][<<j, i>>] = Error(s, target) * Sign(s.w5[<<1, j>>] * s.w1[<<i>>])
         /\ \A j \in 1..2 : Gradient(s, target)["w5"][<<1, j>>] = Error(s, target) * Sign(Hidden(s, j))
         /\ Gradient(s, target)["b5"][<<1>>] = Error(s, target)
<1> DEFINE g == Gradient(s, target)
<1>1. /\ DOMAIN s.w1 = Shapes["w1"] /\ DOMAIN s.w3 = Shapes["w3"]
      /\ DOMAIN s.w5 = Shapes["w5"] /\ DOMAIN s.b5 = Shapes["b5"]
  BY ShapedFacts DEF Keys
<1>2. g = [w1 |-> [at \in Shapes["w1"] |-> Error(s, target) * Sign(Back(s, at[1]))],
           w3 |-> [at \in Shapes["w3"] |-> Error(s, target) * Sign(s.w5[<<1, at[1]>>] * s.w1[<<at[2]>>])],
           w5 |-> [at \in Shapes["w5"] |-> Error(s, target) * Sign([j \in 1..2 |-> Hidden(s, j)][at[2]])],
           b5 |-> [at \in Shapes["b5"] |-> Error(s, target)]]
  BY <1>1 DEF Gradient, Error, Output, Hidden, Into, Back
<1> HIDE DEF g
<1>3. /\ g["w1"] = [at \in Shapes["w1"] |-> Error(s, target) * Sign(Back(s, at[1]))]
      /\ g["w3"] = [at \in Shapes["w3"] |-> Error(s, target) * Sign(s.w5[<<1, at[1]>>] * s.w1[<<at[2]>>])]
      /\ g["w5"] = [at \in Shapes["w5"] |-> Error(s, target) * Sign([j \in 1..2 |-> Hidden(s, j)][at[2]])]
      /\ g["b5"] = [at \in Shapes["b5"] |-> Error(s, target)]
      /\ DOMAIN g = Parameters
  BY <1>2 DEF Parameters
<1>4. g = [key \in Parameters |-> g[key]]
  BY <1>2, <1>3 DEF Parameters
<1>5. \A i \in 1..3 : <<i>> \in Shapes["w1"] /\ g["w1"][<<i>>] = Error(s, target) * Sign(Back(s, i))
  <2>1. \A i \in 1..3 : <<i>> \in Shapes["w1"] /\ <<i>>[1] = i
    BY ShapesAre
  <2> QED  BY <1>3, <2>1
<1>6. \A j \in 1..2, i \in 1..3 : g["w3"][<<j, i>>] = Error(s, target) * Sign(s.w5[<<1, j>>] * s.w1[<<i>>])
  <2>1. \A j \in 1..2, i \in 1..3 : <<j, i>> \in Shapes["w3"]
    BY ShapesAre
  <2> QED  BY <1>3, <2>1
<1>7. \A j \in 1..2 : g["w5"][<<1, j>>] = Error(s, target) * Sign(Hidden(s, j))
  <2>1. \A j \in 1..2 : <<1, j>> \in Shapes["w5"]
    BY ShapesAre
  <2> QED  BY <1>3, <2>1
<1>8. g["b5"][<<1>>] = Error(s, target)
  BY <1>3, ShapesAre
<1>9. \A m \in {-1, 0, 1}, n \in {-1, 0, 1} : m * n \in Int
  OBVIOUS
<1>10. Error(s, target) \in {-1, 0, 1} /\ (\A i \in 1..3 : Back(s, i) \in Int) /\ (\A j \in 1..2 : Hidden(s, j) \in Int)
  BY HiddenIs
<1>11. \A at \in Shapes["w1"] : Error(s, target) * Sign(Back(s, at[1])) \in Int
  <2>1. \A at \in Shapes["w1"] : at[1] \in 1..3
    BY ShapesAre
  <2>2. \A at \in Shapes["w1"] : Sign(Back(s, at[1])) \in {-1, 0, 1}
    BY <1>10, <2>1, SignIs
  <2> QED  BY <1>9, <1>10, <2>2
<1>12. \A at \in Shapes["w3"] : Error(s, target) * Sign(s.w5[<<1, at[1]>>] * s.w1[<<at[2]>>]) \in Int
  <2>1. \A at \in Shapes["w3"] : at[1] \in 1..2 /\ at[2] \in 1..3
    BY ShapesAre
  <2>2. \A at \in Shapes["w3"] : s.w5[<<1, at[1]>>] * s.w1[<<at[2]>>] \in Int
    BY <2>1, Entries
  <2>3. \A at \in Shapes["w3"] : Sign(s.w5[<<1, at[1]>>] * s.w1[<<at[2]>>]) \in {-1, 0, 1}
    BY <2>2, SignIs
  <2> QED  BY <1>9, <1>10, <2>3
<1>13. \A at \in Shapes["w5"] : Error(s, target) * Sign([j \in 1..2 |-> Hidden(s, j)][at[2]]) \in Int
  <2>1. \A at \in Shapes["w5"] : at[2] \in 1..2
    BY ShapesAre
  <2>2. \A at \in Shapes["w5"] : Sign([j \in 1..2 |-> Hidden(s, j)][at[2]]) \in {-1, 0, 1}
    BY <1>10, <2>1, SignIs
  <2> QED  BY <1>9, <1>10, <2>2
<1>14. \A key \in Parameters : g[key] \in [Shapes[key] -> Int]
  <2>1. g["w1"] \in [Shapes["w1"] -> Int]
    BY <1>3, <1>11
  <2>2. g["w3"] \in [Shapes["w3"] -> Int]
    BY <1>3, <1>12
  <2>3. g["w5"] \in [Shapes["w5"] -> Int]
    BY <1>3, <1>13
  <2>4. g["b5"] \in [Shapes["b5"] -> Int]
    BY <1>3, <1>10
  <2> QED  BY <2>1, <2>2, <2>3, <2>4 DEF Parameters
<1>15. Shaped(g, Parameters)
  BY <1>4, <1>14, Zenon DEF Shaped
<1> QED  BY <1>5, <1>6, <1>7, <1>8, <1>15 DEF g

\* The gradient treats the hidden channels alike: a permutation of the state
\* permutes it.
Alike(t, s, target, p, q) ==
  /\ \A j \in 1..2 : Hidden(t, j) = Hidden(s, q[j])
  /\ Error(t, target) = Error(s, target)
  /\ \A i \in 1..3 : Back(t, i) = Back(s, p[i])
  /\ \A j \in 1..2, i \in 1..3 : t.w5[<<1, j>>] * t.w1[<<i>>] = s.w5[<<1, q[j]>>] * s.w1[<<p[i]>>]
\* Behind a plan the hidden channels are the permuted ones, and the output
\* and its error are the same.
LEMMA HiddenMoves ==
  ASSUME NEW s, Shaped(s, Keys), NEW target \in Int, NEW plan, IsPlan(plan)
  PROVE  Alike(TransformState(s, plan), s, target, plan.maps["hidden0"], plan.maps["hidden1"])
<1> DEFINE t == TransformState(s, plan)
           p == plan.maps["hidden0"]
           q == plan.maps["hidden1"]
<1>1. Permutes(p, 3) /\ Permutes(q, 2)
  BY DEF IsPlan
<1>2. Shaped(t, Keys) /\ \A key \in Keys : \A at \in Shapes[key] : t[key][at] = s[key][Selected(plan, key, at)]
  BY Transformed
<1> HIDE DEF t
<1>3. /\ \A i \in 1..3 : <<i>> \in Shapes["w1"]
      /\ \A j \in 1..2, i \in 1..3 : <<j, i>> \in Shapes["w3"]
      /\ \A j \in 1..2 : <<1, j>> \in Shapes["w5"]
      /\ <<1>> \in Shapes["b5"]
  BY ShapesAre
<1>4. /\ \A i \in 1..3 : t["w1"][<<i>>] = s["w1"][<<p[i]>>]
      /\ \A j \in 1..2, i \in 1..3 : t["w3"][<<j, i>>] = s["w3"][<<q[j], p[i]>>]
      /\ \A j \in 1..2 : t["w5"][<<1, j>>] = s["w5"][<<1, q[j]>>]
      /\ t["b5"][<<1>>] = s["b5"][<<1>>]
  <2>1. \A i \in 1..3 : Selected(plan, "w1", <<i>>) = <<p[i]>>
    BY SelectedIs
  <2>2. \A j \in 1..2, i \in 1..3 : Selected(plan, "w3", <<j, i>>) = <<q[j], p[i]>>
    BY SelectedIs
  <2>3. \A j \in 1..2 : Selected(plan, "w5", <<1, j>>) = <<1, q[j]>>
    BY SelectedIs
  <2>4. Selected(plan, "b5", <<1>>) = <<1>>
    BY SelectedIs
  <2> HIDE DEF p, q
  <2>5. \A i \in 1..3 : t["w1"][<<i>>] = s["w1"][<<p[i]>>]
    BY <1>2, <1>3, <2>1 DEF Keys
  <2>6. \A j \in 1..2, i \in 1..3 : t["w3"][<<j, i>>] = s["w3"][<<q[j], p[i]>>]
    BY <1>2, <1>3, <2>2 DEF Keys
  <2>7. \A j \in 1..2 : t["w5"][<<1, j>>] = s["w5"][<<1, q[j]>>]
    BY <1>2, <1>3, <2>3 DEF Keys
  <2>8. t["b5"][<<1>>] = s["b5"][<<1>>]
    BY <1>2, <1>3, <2>4 DEF Keys
  <2> QED  BY <2>5, <2>6, <2>7, <2>8
<1>5. /\ \A i \in 1..3 : t.w1[<<i>>] = s.w1[<<p[i]>>]
      /\ \A j \in 1..2, i \in 1..3 : t.w3[<<j, i>>] = s.w3[<<q[j], p[i]>>]
      /\ \A j \in 1..2 : t.w5[<<1, j>>] = s.w5[<<1, q[j]>>]
      /\ t.b5[<<1>>] = s.b5[<<1>>]
  BY <1>4
<1>6. /\ \A i \in 1..3 : p[i] \in 1..3
      /\ \A j \in 1..2 : q[j] \in 1..2
  BY <1>1 DEF Permutes
<1> HIDE DEF p, q
<1>7. \A j \in 1..2, i \in 1..3 : Into(t, j, i) = Into(s, q[j], p[i])
  <2> SUFFICES ASSUME NEW j \in 1..2, NEW i \in 1..3 PROVE Into(t, j, i) = Into(s, q[j], p[i])
    OBVIOUS
  <2>1. t.w3[<<j, i>>] = s.w3[<<q[j], p[i]>>] /\ t.w1[<<i>>] = s.w1[<<p[i]>>]
    BY <1>5
  <2> QED  BY <2>1, Zenon DEF Into
<1>8. \A j \in 1..2 : Hidden(t, j) = Hidden(s, q[j])
  <2> SUFFICES ASSUME NEW j \in 1..2 PROVE Hidden(t, j) = Hidden(s, q[j])
    OBVIOUS
  <2> DEFINE f == [i \in 1..3 |-> Into(s, q[j], i)]
  <2>1. \A i \in 1..3 : f[i] = Into(s, q[j], i) /\ f[i] \in Int
    BY <1>6, HiddenIs
  <2> HIDE DEF f
  <2>2. f[p[1]] + f[p[2]] + f[p[3]] = f[1] + f[2] + f[3]
    BY <1>1, <2>1, SumOfThree
  <2>3. Into(t, j, 1) = f[p[1]] /\ Into(t, j, 2) = f[p[2]] /\ Into(t, j, 3) = f[p[3]]
    BY <1>6, <1>7, <2>1
  <2>4. Into(s, q[j], 1) = f[1] /\ Into(s, q[j], 2) = f[2] /\ Into(s, q[j], 3) = f[3]
    BY <2>1
  <2> QED  BY <2>2, <2>3, <2>4 DEF Hidden
<1>9. Output(t) = Output(s)
  <2> DEFINE f == [j \in 1..2 |-> s.w5[<<1, j>>] * Hidden(s, j)]
  <2>1. \A j \in 1..2 : f[j] = s.w5[<<1, j>>] * Hidden(s, j) /\ f[j] \in Int
    BY Entries, HiddenIs
  <2> HIDE DEF f
  <2>2. f[q[1]] + f[q[2]] = f[1] + f[2]
    BY <1>1, <2>1, SumOfTwo
  <2>3. \A j \in 1..2 : t.w5[<<1, j>>] * Hidden(t, j) = s.w5[<<1, q[j]>>] * Hidden(s, q[j])
    BY <1>5, <1>8
  <2>4. \A j \in 1..2 : t.w5[<<1, j>>] * Hidden(t, j) = f[q[j]]
    BY <1>6, <2>1, <2>3
  <2>5. /\ t.w5[<<1, 1>>] * Hidden(t, 1) = f[q[1]] /\ t.w5[<<1, 2>>] * Hidden(t, 2) = f[q[2]]
        /\ s.w5[<<1, 1>>] * Hidden(s, 1) = f[1] /\ s.w5[<<1, 2>>] * Hidden(s, 2) = f[2]
    BY <2>1, <2>4
  <2> QED  BY <1>5, <2>2, <2>5 DEF Output
<1>10. \A i \in 1..3 : Back(t, i) = Back(s, p[i])
  <2> SUFFICES ASSUME NEW i \in 1..3 PROVE Back(t, i) = Back(s, p[i])
    OBVIOUS
  <2> DEFINE f == [j \in 1..2 |-> s.w5[<<1, j>>] * s.w3[<<j, p[i]>>]]
  <2>1. \A j \in 1..2 : f[j] = s.w5[<<1, j>>] * s.w3[<<j, p[i]>>] /\ f[j] \in Int
    BY <1>6, Entries
  <2> HIDE DEF f
  <2>2. f[q[1]] + f[q[2]] = f[1] + f[2]
    BY <1>1, <2>1, SumOfTwo
  <2>3. \A j \in 1..2 : t.w5[<<1, j>>] * t.w3[<<j, i>>] = f[q[j]]
    <3> SUFFICES ASSUME NEW j \in 1..2 PROVE t.w5[<<1, j>>] * t.w3[<<j, i>>] = f[q[j]]
      OBVIOUS
    <3>1. q[j] \in 1..2 /\ t.w5[<<1, j>>] = s.w5[<<1, q[j]>>] /\ t.w3[<<j, i>>] = s.w3[<<q[j], p[i]>>]
      BY <1>5, <1>6
    <3> QED  BY <2>1, <3>1
  <2>4. /\ t.w5[<<1, 1>>] * t.w3[<<1, i>>] = f[q[1]] /\ t.w5[<<1, 2>>] * t.w3[<<2, i>>] = f[q[2]]
        /\ s.w5[<<1, 1>>] * s.w3[<<1, p[i]>>] = f[1] /\ s.w5[<<1, 2>>] * s.w3[<<2, p[i]>>] = f[2]
    BY <2>1, <2>3
  <2> QED  BY <2>2, <2>4 DEF Back
<1>11. \A j \in 1..2, i \in 1..3 : t.w5[<<1, j>>] * t.w1[<<i>>] = s.w5[<<1, q[j]>>] * s.w1[<<p[i]>>]
  BY <1>5
<1>12. Error(t, target) = Error(s, target)
  BY <1>9 DEF Error
<1>13. Alike(t, s, target, p, q)
  BY <1>8, <1>10, <1>11, <1>12 DEF Alike
<1> QED  BY <1>13 DEF t, p, q

\* The gradient of a transformed state is the transformed gradient.
LEMMA GradientMoves ==
  ASSUME NEW s, Shaped(s, Keys), NEW target \in Int, NEW plan, IsPlan(plan)
  PROVE  \A key \in Parameters : \A at \in Shapes[key] :
           Gradient(TransformState(s, plan), target)[key][at]
             = Gradient(s, target)[key][Selected(plan, key, at)]
<1> DEFINE t == TransformState(s, plan)
           p == plan.maps["hidden0"]
           q == plan.maps["hidden1"]
           g == Gradient(s, target)
           h == Gradient(t, target)
           e == Error(s, target)
<1>1. Shaped(t, Keys)
  BY Transformed
<1>2. /\ \A j \in 1..2 : Hidden(t, j) = Hidden(s, q[j])
      /\ Error(t, target) = e
      /\ \A i \in 1..3 : Back(t, i) = Back(s, p[i])
      /\ \A j \in 1..2, i \in 1..3 :
           t.w5[<<1, j>>] * t.w1[<<i>>] = s.w5[<<1, q[j]>>] * s.w1[<<p[i]>>]
  <2>1. Alike(t, s, target, p, q)
    BY HiddenMoves
  <2> QED  BY <2>1, Zenon DEF Alike
<1> HIDE DEF t
<1>3. /\ \A i \in 1..3 : h["w1"][<<i>>] = Error(t, target) * Sign(Back(t, i))
      /\ \A j \in 1..2, i \in 1..3 : h["w3"][<<j, i>>] = Error(t, target) * Sign(t.w5[<<1, j>>] * t.w1[<<i>>])
      /\ \A j \in 1..2 : h["w5"][<<1, j>>] = Error(t, target) * Sign(Hidden(t, j))
      /\ h["b5"][<<1>>] = Error(t, target)
  BY <1>1, GradientIs
<1>4. /\ \A i \in 1..3 : g["w1"][<<i>>] = e * Sign(Back(s, i))
      /\ \A j \in 1..2, i \in 1..3 : g["w3"][<<j, i>>] = e * Sign(s.w5[<<1, j>>] * s.w1[<<i>>])
      /\ \A j \in 1..2 : g["w5"][<<1, j>>] = e * Sign(Hidden(s, j))
      /\ g["b5"][<<1>>] = e
  BY GradientIs
<1> HIDE DEF g, h, e
<1>5. /\ \A i \in 1..3 : p[i] \in 1..3
      /\ \A j \in 1..2 : q[j] \in 1..2
  BY DEF IsPlan, Permutes
<1>6. /\ \A i \in 1..3 : Selected(plan, "w1", <<i>>) = <<p[i]>>
      /\ \A j \in 1..2, i \in 1..3 : Selected(plan, "w3", <<j, i>>) = <<q[j], p[i]>>
      /\ \A j \in 1..2 : Selected(plan, "w5", <<1, j>>) = <<1, q[j]>>
      /\ Selected(plan, "b5", <<1>>) = <<1>>
  BY SelectedIs
<1> HIDE DEF p, q
<1>7. \A at \in Shapes["w1"] : h["w1"][at] = g["w1"][Selected(plan, "w1", at)]
  <2> SUFFICES ASSUME NEW at \in Shapes["w1"] PROVE h["w1"][at] = g["w1"][Selected(plan, "w1", at)]
    OBVIOUS
  <2>1. PICK i \in 1..3 : at = <<i>>
    BY ShapesAre
  <2>2. h["w1"][at] = e * Sign(Back(s, p[i]))
    BY <1>2, <1>3, <2>1
  <2>3. g["w1"][<<p[i]>>] = e * Sign(Back(s, p[i]))
    BY <1>4, <1>5
  <2> QED  BY <1>6, <2>1, <2>2, <2>3
<1>8. \A at \in Shapes["w3"] : h["w3"][at] = g["w3"][Selected(plan, "w3", at)]
  <2> SUFFICES ASSUME NEW at \in Shapes["w3"] PROVE h["w3"][at] = g["w3"][Selected(plan, "w3", at)]
    OBVIOUS
  <2>1. PICK j \in 1..2, i \in 1..3 : at = <<j, i>>
    BY ShapesAre
  <2>2. h["w3"][at] = e * Sign(s.w5[<<1, q[j]>>] * s.w1[<<p[i]>>])
    BY <1>2, <1>3, <2>1
  <2>3. g["w3"][<<q[j], p[i]>>] = e * Sign(s.w5[<<1, q[j]>>] * s.w1[<<p[i]>>])
    BY <1>4, <1>5
  <2> QED  BY <1>6, <2>1, <2>2, <2>3
<1>9. \A at \in Shapes["w5"] : h["w5"][at] = g["w5"][Selected(plan, "w5", at)]
  <2> SUFFICES ASSUME NEW at \in Shapes["w5"] PROVE h["w5"][at] = g["w5"][Selected(plan, "w5", at)]
    OBVIOUS
  <2>1. PICK j \in 1..2 : at = <<1, j>>
    BY ShapesAre
  <2>2. h["w5"][at] = e * Sign(Hidden(s, q[j]))
    BY <1>2, <1>3, <2>1
  <2>3. g["w5"][<<1, q[j]>>] = e * Sign(Hidden(s, q[j]))
    BY <1>4, <1>5
  <2> QED  BY <1>6, <2>1, <2>2, <2>3
<1>10. \A at \in Shapes["b5"] : h["b5"][at] = g["b5"][Selected(plan, "b5", at)]
  BY <1>2, <1>3, <1>4, <1>6, ShapesAre
<1> QED  BY <1>7, <1>8, <1>9, <1>10 DEF Parameters, t, g, h

-------------------------------------------------------------------------------
(* A step of training treats the channels alike                            *)

Held(keys) ==
  {tensors \in [keys -> UNION {[Shapes[key] -> Int] : key \in Keys}] :
     \A key \in keys : tensors[key] \in [Shapes[key] -> Int]}
\* Maps of tensors as a set, to speak of sequences of them.
LEMMA HeldAre ==
  ASSUME NEW keys, keys \subseteq Keys, NEW tensors
  PROVE  tensors \in Held(keys) <=> Shaped(tensors, keys)
<1>1. ASSUME tensors \in Held(keys) PROVE Shaped(tensors, keys)
  <2>1. tensors = [key \in keys |-> tensors[key]]
    BY <1>1 DEF Held
  <2>2. \A key \in keys : tensors[key] \in [Shapes[key] -> Int]
    BY <1>1 DEF Held
  <2> QED  BY <2>1, <2>2, Zenon DEF Shaped
<1>2. ASSUME Shaped(tensors, keys) PROVE tensors \in Held(keys)
  <2> DEFINE All == UNION {[Shapes[key] -> Int] : key \in Keys}
  <2>1. \A key \in keys : tensors[key] \in [Shapes[key] -> Int]
    BY <1>2 DEF Shaped
  <2>2. \A key \in keys : tensors[key] \in All
    BY <2>1
  <2>3. tensors = [key \in keys |-> tensors[key]]
    BY <1>2, Zenon DEF Shaped
  <2> HIDE DEF All
  <2>4. tensors \in [keys -> All]
    BY <2>2, <2>3
  <2> QED  BY <2>1, <2>4 DEF Held, All
<1> QED  BY <1>1, <1>2

\* Training starts from an empty momentum.
LEMMA NoMomentum == Shaped(<<>>, {}) /\ DOMAIN <<>> = {}
<1>1. DOMAIN <<>> = {}
  OBVIOUS
<1>2. <<>> = [key \in {} |-> <<>>[key]]
  OBVIOUS
<1> QED  BY <1>1, <1>2, Zenon DEF Shaped

\* A moment of training, and the same behind a plan.
AtState(at) ==
  /\ at = [state |-> at.state, momentum |-> at.momentum]
  /\ Shaped(at.state, Keys) /\ (Shaped(at.momentum, Parameters) \/ Shaped(at.momentum, {}))
Moved(at, plan) == [state |-> TransformState(at.state, plan), momentum |-> TransformState(at.momentum, plan)]

Carried(at, key, ix) == IF key \in DOMAIN at.momentum THEN at.momentum[key][ix] ELSE 0
\* What a step carries over of the momentum moves with the plan.
LEMMA CarriedMoves ==
  ASSUME NEW at, AtState(at), NEW plan, IsPlan(plan), NEW key \in Parameters, NEW ix \in Shapes[key]
  PROVE  /\ Carried(at, key, ix) \in Int
         /\ Carried(Moved(at, plan), key, ix) = Carried(at, key, Selected(plan, key, ix))
<1>1. Moved(at, plan).momentum = TransformState(at.momentum, plan)
  BY DEF Moved
<1>2. key \in Keys /\ Parameters \subseteq Keys
  BY KeysAre
<1>3. CASE Shaped(at.momentum, Parameters)
  <2>1. DOMAIN at.momentum = Parameters /\ at.momentum[key] \in [Shapes[key] -> Int]
    BY <1>3, ShapedFacts
  <2> DEFINE held == at.momentum
  <2>2. /\ Shaped(TransformState(held, plan), Parameters)
        /\ TransformState(held, plan)[key][ix] = held[key][Selected(plan, key, ix)]
    <3> HIDE DEF held
    <3>1. Shaped(held, Parameters)
      BY <1>3 DEF held
    <3>2. /\ Shaped(TransformState(held, plan), Parameters)
          /\ \A k \in Parameters : \A x \in Shapes[k] :
               TransformState(held, plan)[k][x] = held[k][Selected(plan, k, x)]
      BY <1>2, <3>1, Transformed
    <3> QED  BY <3>2
  <2>3. DOMAIN TransformState(at.momentum, plan) = Parameters
    BY <2>2, ShapedFacts
  <2> QED  BY <1>1, <2>1, <2>2, <2>3 DEF Carried
<1>4. CASE Shaped(at.momentum, {})
  <2>1. DOMAIN at.momentum = {}
    BY <1>4, ShapedFacts
  <2>2. DOMAIN TransformState(at.momentum, plan) = {}
    BY <2>1 DEF TransformState
  <2> QED  BY <1>1, <2>1, <2>2 DEF Carried
<1> QED  BY <1>3, <1>4 DEF AtState

\* What a step makes of each coordinate.
Buffered(at, key, ix) == at.state[key][ix] + Grain * Sign(at.state["w1"][ix])
StepShaped(next) ==
  /\ next = [state |-> next.state, momentum |-> next.momentum]
  /\ Shaped(next.state, Keys) /\ Shaped(next.momentum, Parameters)
\* A step, coordinate by coordinate.
LEMMA StepIs ==
  ASSUME NEW at, AtState(at), NEW target \in Int, NEW scale \in Int
  PROVE  /\ StepShaped(Step(at, target, scale))
         /\ \A key \in Parameters : \A ix \in Shapes[key] :
              /\ Step(at, target, scale).momentum[key][ix]
                   = scale * Gradient(at.state, target)[key][ix] + Carried(at, key, ix)
              /\ Step(at, target, scale).state[key][ix]
                   = at.state[key][ix] - Step(at, target, scale).momentum[key][ix]
         /\ \A ix \in Shapes["rm"] :
              Step(at, target, scale).state["rm"][ix] = Buffered(at, "rm", ix)
<1> DEFINE g == Gradient(at.state, target)
           m == [key \in Parameters |-> [ix \in DOMAIN g[key] |->
                   scale * g[key][ix] + IF key \in DOMAIN at.momentum THEN at.momentum[key][ix] ELSE 0]]
           s == [key \in DOMAIN at.state |-> [ix \in DOMAIN at.state[key] |->
                   IF key \in Parameters THEN at.state[key][ix] - m[key][ix]
                                         ELSE at.state[key][ix] + Grain * Sign(at.state.w1[ix])]]
           next == Step(at, target, scale)
<1>1. next = [momentum |-> m, state |-> s]
  BY DEF Step
<1>2. Shaped(g, Parameters) /\ Shaped(at.state, Keys)
  BY GradientIs DEF AtState
<1> HIDE DEF g, next
<1>3. /\ DOMAIN g = Parameters /\ \A key \in Parameters : g[key] \in [Shapes[key] -> Int]
      /\ DOMAIN at.state = Keys /\ \A key \in Keys : at.state[key] \in [Shapes[key] -> Int]
  BY <1>2, ShapedFacts
<1>4. \A key \in Parameters : DOMAIN g[key] = Shapes[key]
  BY <1>3
<1>5. \A key \in Parameters : \A ix \in Shapes[key] :
        m[key][ix] = scale * g[key][ix] + Carried(at, key, ix)
  BY <1>4 DEF Carried
<1>6. \A key \in Parameters : \A ix \in Shapes[key] : m[key][ix] \in Int
  <2> SUFFICES ASSUME NEW key \in Parameters, NEW ix \in Shapes[key] PROVE m[key][ix] \in Int
    OBVIOUS
  <2>1. g[key][ix] \in Int
    BY <1>3
  <2>2. Carried(at, key, ix) \in Int
    <3>1. key \in Keys
      BY KeysAre
    <3>2. CASE Shaped(at.momentum, Parameters)
      <4>1. DOMAIN at.momentum = Parameters /\ at.momentum[key] \in [Shapes[key] -> Int]
        BY <3>2, ShapedFacts
      <4> QED  BY <4>1 DEF Carried
    <3>3. CASE Shaped(at.momentum, {})
      <4>1. DOMAIN at.momentum = {}
        BY <3>3, ShapedFacts
      <4> QED  BY <4>1 DEF Carried
    <3> QED  BY <3>2, <3>3 DEF AtState
  <2>3. m[key][ix] = scale * g[key][ix] + Carried(at, key, ix)
    BY <1>5
  <2> HIDE DEF m
  <2> QED  BY <2>1, <2>2, <2>3
<1>7. m = [key \in Parameters |-> m[key]] /\ \A key \in Parameters : m[key] = [ix \in Shapes[key] |-> m[key][ix]]
  <2>1. m = [key \in Parameters |-> m[key]]
    OBVIOUS
  <2>2. ASSUME NEW key \in Parameters PROVE m[key] = [ix \in Shapes[key] |-> m[key][ix]]
    BY <1>4
  <2> QED  BY <2>1, <2>2, Zenon
<1>8. Shaped(m, Parameters)
  <2> HIDE DEF m
  <2>1. \A key \in Parameters : m[key] \in [Shapes[key] -> Int]
    BY <1>6, <1>7
  <2> QED  BY <1>7, <2>1, Zenon DEF Shaped
<1> HIDE DEF m
<1>9. \A key \in Keys : DOMAIN at.state[key] = Shapes[key]
  BY <1>3
<1>10. \A key \in Keys : \A ix \in Shapes[key] :
         s[key][ix] = IF key \in Parameters THEN at.state[key][ix] - m[key][ix]
                      ELSE at.state[key][ix] + Grain * Sign(at.state.w1[ix])
  BY <1>3, <1>9
<1>11. \A ix \in Shapes["rm"] : at.state.w1[ix] \in Int /\ Sign(at.state.w1[ix]) \in {-1, 0, 1}
  <2>1. Shapes["rm"] = Shapes["w1"]
    BY ShapesAre
  <2>2. at.state.w1 \in [Shapes["w1"] -> Int]
    BY <1>3 DEF Keys
  <2> QED  BY <2>1, <2>2, SignIs
<1>12. Keys \ Parameters = {"rm"} /\ Parameters \subseteq Keys /\ "rm" \notin Parameters /\ "rm" \in Keys
  BY DEF Keys, Parameters
<1>13. \A key \in Keys : \A ix \in Shapes[key] : s[key][ix] \in Int
  <2> SUFFICES ASSUME NEW key \in Keys, NEW ix \in Shapes[key] PROVE s[key][ix] \in Int
    OBVIOUS
  <2>1. at.state[key][ix] \in Int
    BY <1>3
  <2>2. s[key][ix] = IF key \in Parameters THEN at.state[key][ix] - m[key][ix]
                     ELSE at.state[key][ix] + Grain * Sign(at.state.w1[ix])
    BY <1>10
  <2> HIDE DEF s
  <2>3. CASE key \in Parameters
    BY <1>6, <2>1, <2>2, <2>3
  <2>4. CASE key \notin Parameters
    <3>1. key = "rm"
      BY <1>12, <2>4
    <3> QED  BY <1>11, <2>1, <2>2, <2>4, <3>1 DEF Grain
  <2> QED  BY <2>3, <2>4
<1>14. s = [key \in Keys |-> s[key]] /\ \A key \in Keys : s[key] = [ix \in Shapes[key] |-> s[key][ix]]
  <2>1. s = [key \in Keys |-> s[key]]
    BY <1>3
  <2>2. ASSUME NEW key \in Keys PROVE s[key] = [ix \in Shapes[key] |-> s[key][ix]]
    BY <1>3, <1>9
  <2> QED  BY <2>1, <2>2, Zenon
<1>15. Shaped(s, Keys)
  <2> HIDE DEF s
  <2>1. \A key \in Keys : s[key] \in [Shapes[key] -> Int]
    BY <1>13, <1>14
  <2> QED  BY <1>14, <2>1, Zenon DEF Shaped
<1> HIDE DEF s
<1>16. next.momentum = m /\ next.state = s /\ next = [state |-> next.state, momentum |-> next.momentum]
  BY <1>1
<1>17. StepShaped(next)
  BY <1>8, <1>15, <1>16, Zenon DEF StepShaped
<1>18. \A ix \in Shapes["rm"] : s["rm"][ix] = Buffered(at, "rm", ix)
  BY <1>10, <1>12 DEF Buffered
<1>19. \A key \in Parameters : \A ix \in Shapes[key] :
              /\ m[key][ix] = scale * g[key][ix] + Carried(at, key, ix)
              /\ s[key][ix] = at.state[key][ix] - m[key][ix]
  BY <1>5, <1>10, <1>12
<1> QED  BY <1>16, <1>17, <1>18, <1>19, Zenon DEF next, g

\* A step from a transformed moment is the transformed step.
LEMMA StepMoves ==
  ASSUME NEW at, AtState(at), NEW target \in Int, NEW scale \in Int, NEW plan, IsPlan(plan)
  PROVE  AtState(Moved(at, plan)) /\ Step(Moved(at, plan), target, scale) = Moved(Step(at, target, scale), plan)
<1> DEFINE moved == Moved(at, plan)
           next == Step(at, target, scale)
           after == Step(moved, target, scale)
           g == Gradient(at.state, target)
           h == Gradient(moved.state, target)
<1>1. moved.state = TransformState(at.state, plan) /\ moved.momentum = TransformState(at.momentum, plan)
  BY DEF Moved
<1>2. Shaped(at.state, Keys) /\ Parameters \subseteq Keys
  BY KeysAre DEF AtState
<1>3. AtState(moved)
  <2>1. Shaped(TransformState(at.state, plan), Keys)
    BY <1>2, Transformed
  <2>2. Shaped(TransformState(at.momentum, plan), Parameters) \/ Shaped(TransformState(at.momentum, plan), {})
    <3>1. CASE Shaped(at.momentum, Parameters)
      BY <1>2, <3>1, Transformed
    <3>2. CASE Shaped(at.momentum, {})
      <4>1. {} \subseteq Keys
        OBVIOUS
      <4> QED  BY <3>2, <4>1, Transformed
    <3> QED  BY <3>1, <3>2 DEF AtState
  <2>3. moved = [state |-> moved.state, momentum |-> moved.momentum]
    BY DEF Moved
  <2> HIDE DEF moved
  <2> QED  BY <1>1, <2>1, <2>2, <2>3, Zenon DEF AtState
<1>4. \A key \in Keys : \A ix \in Shapes[key] :
        moved.state[key][ix] = at.state[key][Selected(plan, key, ix)]
  <2> HIDE DEF moved
  <2> QED  BY <1>1, <1>2, Transformed
<1>5. \A key \in Parameters : \A ix \in Shapes[key] : h[key][ix] = g[key][Selected(plan, key, ix)]
  <2> HIDE DEF moved
  <2> QED  BY <1>1, <1>2, GradientMoves
<1>6. \A key \in Parameters : \A ix \in Shapes[key] :
        Carried(moved, key, ix) = Carried(at, key, Selected(plan, key, ix))
  BY CarriedMoves
<1> HIDE DEF moved, g, h
<1>7. /\ StepShaped(next)
      /\ \A key \in Parameters : \A ix \in Shapes[key] :
           /\ next.momentum[key][ix] = scale * g[key][ix] + Carried(at, key, ix)
           /\ next.state[key][ix] = at.state[key][ix] - next.momentum[key][ix]
      /\ \A ix \in Shapes["rm"] : next.state["rm"][ix] = Buffered(at, "rm", ix)
  <2> HIDE DEF next
  <2> QED  BY StepIs, Zenon DEF g, next
<1>8. /\ StepShaped(after)
      /\ \A key \in Parameters : \A ix \in Shapes[key] :
           /\ after.momentum[key][ix] = scale * h[key][ix] + Carried(moved, key, ix)
           /\ after.state[key][ix] = moved.state[key][ix] - after.momentum[key][ix]
      /\ \A ix \in Shapes["rm"] : after.state["rm"][ix] = Buffered(moved, "rm", ix)
  <2> HIDE DEF after
  <2> QED  BY <1>3, StepIs, Zenon DEF h, after
<1> HIDE DEF next, after
<1>9. \A key \in Keys : \A ix \in Shapes[key] : Selected(plan, key, ix) \in Shapes[key]
  BY SelectedStays
<1>10. /\ Shaped(TransformState(next.state, plan), Keys)
       /\ \A key \in Keys : \A ix \in Shapes[key] :
            TransformState(next.state, plan)[key][ix] = next.state[key][Selected(plan, key, ix)]
  <2>1. Shaped(next.state, Keys)
    BY <1>7, Zenon DEF StepShaped
  <2> QED  BY <2>1, Transformed
<1>11. /\ Shaped(TransformState(next.momentum, plan), Parameters)
       /\ \A key \in Parameters : \A ix \in Shapes[key] :
            TransformState(next.momentum, plan)[key][ix] = next.momentum[key][Selected(plan, key, ix)]
  <2>1. Shaped(next.momentum, Parameters)
    BY <1>7, Zenon DEF StepShaped
  <2> QED  BY <1>2, <2>1, Transformed, SMTT(30)
<1>12. \A key \in Parameters : \A ix \in Shapes[key] :
         after.momentum[key][ix] = next.momentum[key][Selected(plan, key, ix)]
  <2> SUFFICES ASSUME NEW key \in Parameters, NEW ix \in Shapes[key]
               PROVE  after.momentum[key][ix] = next.momentum[key][Selected(plan, key, ix)]
    OBVIOUS
  <2>1. Selected(plan, key, ix) \in Shapes[key]
    BY <1>2, <1>9
  <2>2. next.momentum[key][Selected(plan, key, ix)]
          = scale * g[key][Selected(plan, key, ix)] + Carried(at, key, Selected(plan, key, ix))
    BY <1>7, <2>1
  <2>3. after.momentum[key][ix] = scale * h[key][ix] + Carried(moved, key, ix)
    BY <1>8
  <2> QED  BY <1>5, <1>6, <2>2, <2>3
<1>13. after.momentum = TransformState(next.momentum, plan)
  <2>1. Shaped(after.momentum, Parameters)
    BY <1>8, Zenon DEF StepShaped
  <2>2. \A key \in Parameters : \A ix \in Shapes[key] :
          after.momentum[key][ix] = TransformState(next.momentum, plan)[key][ix]
    BY <1>11, <1>12
  <2> QED  BY <1>11, <2>1, <2>2, ShapedEqual
<1>14. \A key \in Keys : \A ix \in Shapes[key] :
         after.state[key][ix] = next.state[key][Selected(plan, key, ix)]
  <2> SUFFICES ASSUME NEW key \in Keys, NEW ix \in Shapes[key]
               PROVE  after.state[key][ix] = next.state[key][Selected(plan, key, ix)]
    OBVIOUS
  <2>1. Selected(plan, key, ix) \in Shapes[key]
    BY <1>9
  <2>2. CASE key \in Parameters
    <3>1. next.state[key][Selected(plan, key, ix)]
            = at.state[key][Selected(plan, key, ix)] - next.momentum[key][Selected(plan, key, ix)]
      BY <1>7, <2>1, <2>2
    <3>2. after.state[key][ix] = moved.state[key][ix] - after.momentum[key][ix]
      BY <1>8, <2>2
    <3>3. moved.state[key][ix] = at.state[key][Selected(plan, key, ix)]
      BY <1>4
    <3>4. after.momentum[key][ix] = next.momentum[key][Selected(plan, key, ix)]
      BY <1>12, <2>2
    <3> QED  BY <3>1, <3>2, <3>3, <3>4
  <2>3. CASE key \notin Parameters
    <3>1. key = "rm" /\ "rm" \in Keys /\ "w1" \in Keys
      BY <2>3 DEF Keys, Parameters
    <3>2. ix \in {<<i>> : i \in 1..3} /\ Shapes["w1"] = Shapes["rm"]
      BY <3>1, ShapesAre
    <3>3. PICK i \in 1..3 : ix = <<i>>
      BY <3>2
    <3>4. Selected(plan, "rm", ix) = Selected(plan, "w1", ix)
      BY <3>3, SelectedIs
    <3>5. moved.state["rm"][ix] = at.state["rm"][Selected(plan, "rm", ix)]
      BY <1>4, <3>1
    <3>6. moved.state["w1"][ix] = at.state["w1"][Selected(plan, "rm", ix)]
      BY <1>4, <3>1, <3>2, <3>4
    <3>7. after.state["rm"][ix] = Buffered(moved, "rm", ix)
      BY <1>8, <3>1
    <3>8. next.state["rm"][Selected(plan, "rm", ix)] = Buffered(at, "rm", Selected(plan, "rm", ix))
      BY <1>7, <2>1, <3>1
    <3> QED  BY <3>1, <3>5, <3>6, <3>7, <3>8 DEF Buffered
  <2> QED  BY <2>2, <2>3
<1>15. after.state = TransformState(next.state, plan)
  <2>1. Shaped(after.state, Keys)
    BY <1>8, Zenon DEF StepShaped
  <2>2. \A key \in Keys : \A ix \in Shapes[key] : after.state[key][ix] = TransformState(next.state, plan)[key][ix]
    BY <1>10, <1>14
  <2> QED  BY <1>10, <2>1, <2>2, ShapedEqual
<1>16. after = [state |-> after.state, momentum |-> after.momentum]
  BY <1>8, Zenon DEF StepShaped
<1>17. after = Moved(next, plan)
  BY <1>13, <1>15, <1>16, Zenon DEF Moved
<1> QED  BY <1>3, <1>17 DEF moved, next, after

-------------------------------------------------------------------------------
(* A run of training, as the recursion gives it                            *)

Moments == [state : Held(Keys), momentum : Held(Parameters) \cup Held({})]
\* The moments of training as a set.
LEMMA MomentsAre ==
  ASSUME NEW at
  PROVE  at \in Moments <=> AtState(at)
<1>1. Parameters \subseteq Keys /\ Keys \subseteq Keys /\ {} \subseteq Keys
  BY KeysAre
<1>2. ASSUME at \in Moments PROVE AtState(at)
  <2>1. /\ at = [state |-> at.state, momentum |-> at.momentum]
        /\ at.state \in Held(Keys) /\ (at.momentum \in Held(Parameters) \/ at.momentum \in Held({}))
    BY <1>2 DEF Moments
  <2>2. Shaped(at.state, Keys)
    BY <1>1, <2>1, HeldAre
  <2>3. Shaped(at.momentum, Parameters) \/ Shaped(at.momentum, {})
    BY <1>1, <2>1, HeldAre
  <2> QED  BY <2>1, <2>2, <2>3, Zenon DEF AtState
<1>3. ASSUME AtState(at) PROVE at \in Moments
  <2>1. at = [state |-> at.state, momentum |-> at.momentum]
    BY <1>3, Zenon DEF AtState
  <2>2. at.state \in Held(Keys)
    BY <1>1, <1>3, HeldAre DEF AtState
  <2>3. at.momentum \in Held(Parameters) \cup Held({})
    BY <1>1, <1>3, HeldAre DEF AtState
  <2> QED  BY <2>1, <2>2, <2>3 DEF Moments
<1> QED  BY <1>2, <1>3

StepAt(at, targets, first, k) == Step(at, targets[k], IF k = 1 THEN first ELSE FullScale)

\* The steps of a run by their number, as the recursion of ProduceUpdate gives them.
StepsUpTo(h, from, targets, first, n) ==
  h = [k \in 0..n |-> IF k = 0 THEN <<from>>
                      ELSE Append(h[k - 1], Step(h[k - 1][k], targets[k], IF k = 1 THEN first ELSE FullScale))]

\* The recursion has a value for every number of targets.
LEMMA StepsExist ==
  ASSUME NEW from, NEW targets, NEW first
  PROVE  \A n \in Nat : \E h : StepsUpTo(h, from, targets, first, n)
<1> DEFINE G == {n \in Nat : \E h : StepsUpTo(h, from, targets, first, n)}
           More(s, k) == Append(s, Step(s[k], targets[k], IF k = 1 THEN first ELSE FullScale))
<1>1. 0 \in G
  <2> DEFINE h == [k \in 0..0 |-> <<from>>]
  <2>1. StepsUpTo(h, from, targets, first, 0)
    BY DEF StepsUpTo
  <2> QED  BY <2>1
<1>2. ASSUME NEW n \in Nat, n \in G PROVE n + 1 \in G
  <2>1. PICK h : StepsUpTo(h, from, targets, first, n)
    BY <1>2
  <2>2. h = [k \in 0..n |-> IF k = 0 THEN <<from>> ELSE More(h[k - 1], k)]
    BY <2>1, Zenon DEF StepsUpTo
  <2> DEFINE g == [k \in 0..(n + 1) |-> IF k = 0 THEN <<from>> ELSE More(h[k - 1], k)]
  <2> HIDE DEF More
  <2>3. \A k \in 0..n : g[k] = h[k]
    BY <2>2
  <2>4. \A k \in 0..(n + 1) : k # 0 => k - 1 \in 0..n
    OBVIOUS
  <2>5. \A k \in 0..(n + 1) : g[k] = IF k = 0 THEN <<from>> ELSE More(g[k - 1], k)
    BY <2>3, <2>4
  <2>6. g = [k \in 0..(n + 1) |-> IF k = 0 THEN <<from>> ELSE More(g[k - 1], k)]
    <3>1. g = [k \in 0..(n + 1) |-> g[k]]
      OBVIOUS
    <3> HIDE DEF g
    <3> QED  BY <2>5, <3>1
  <2> HIDE DEF g
  <2>7. StepsUpTo(g, from, targets, first, n + 1)
    BY <2>6, Zenon DEF StepsUpTo, More
  <2> QED  BY <2>7
<1>3. Nat \subseteq G
  <2> HIDE DEF G
  <2> QED  BY <1>1, <1>2, AllNaturals
<1> QED  BY <1>3

\* A run from a moment: one moment more than there are targets, each the step
\* of the one before.
Runs(steps, from, targets, first) ==
  /\ steps \in Seq(Moments) /\ Len(steps) = Len(targets) + 1
  /\ steps[1] = from
  /\ \A k \in 1..Len(targets) : steps[k + 1] = StepAt(steps[k], targets, first, k)

\* Its value has one moment more than there are targets, each the step of
\* the one before.
LEMMA StepsGrow ==
  ASSUME NEW from, AtState(from), NEW targets \in Seq(Int), NEW first \in Int, NEW h,
         StepsUpTo(h, from, targets, first, Len(targets))
  PROVE  \A n \in 0..Len(targets) :
           /\ h[n] \in Seq(Moments) /\ Len(h[n]) = n + 1 /\ h[n][1] = from
           /\ \A k \in 1..n : h[n][k + 1] = StepAt(h[n][k], targets, first, k)
<1> DEFINE N == Len(targets)
           Good(n) == /\ h[n] \in Seq(Moments) /\ Len(h[n]) = n + 1 /\ h[n][1] = from
                      /\ \A k \in 1..n : h[n][k + 1] = StepAt(h[n][k], targets, first, k)
           G == {n \in Nat : n <= N => Good(n)}
<1>1. N \in Nat /\ \A k \in 1..N : targets[k] \in Int
  OBVIOUS
<1> HIDE DEF N
<1>2. \A k \in 0..N : h[k] = IF k = 0 THEN <<from>> ELSE Append(h[k - 1], StepAt(h[k - 1][k], targets, first, k))
  BY <1>1 DEF StepsUpTo, StepAt, N
<1>3. from \in Moments
  BY MomentsAre
<1>4. 0 \in G
  <2>1. h[0] = <<from>>
    BY <1>1, <1>2
  <2>2. <<from>> \in Seq(Moments) /\ Len(<<from>>) = 1 /\ <<from>>[1] = from
    BY <1>3
  <2>3. Good(0)
    BY <2>1, <2>2
  <2> QED  BY <2>3
<1>5. ASSUME NEW n \in Nat, n \in G PROVE n + 1 \in G
  <2> SUFFICES ASSUME n + 1 <= N PROVE Good(n + 1)
    OBVIOUS
  <2>1. Good(n)
    BY <1>1, <1>5
  <2> DEFINE s == h[n]
             a == StepAt(s[n + 1], targets, first, n + 1)
  <2>2. h[n + 1] = Append(s, a)
    <3>1. n + 1 \in 0..N /\ n + 1 # 0 /\ (n + 1) - 1 = n
      BY <1>1
    <3> QED  BY <1>2, <3>1
  <2>3. s \in Seq(Moments) /\ Len(s) = n + 1 /\ s[1] = from
    BY <2>1
  <2>4. \A k \in 1..n : s[k + 1] = StepAt(s[k], targets, first, k)
    BY <2>1
  <2> HIDE DEF Good
  <2>5. a \in Moments
    <3> HIDE DEF s
    <3>1. s[n + 1] \in Moments
      BY <2>3
    <3>2. AtState(s[n + 1])
      BY <3>1, MomentsAre
    <3>3. targets[n + 1] \in Int /\ (IF n + 1 = 1 THEN first ELSE FullScale) \in Int
      BY <1>1 DEF FullScale
    <3>4. StepShaped(a)
      <4> DEFINE scale == IF n + 1 = 1 THEN first ELSE FullScale
                 target == targets[n + 1]
                 at == s[n + 1]
      <4>1. AtState(at) /\ target \in Int /\ scale \in Int
        BY <3>2, <3>3
      <4> HIDE DEF scale, target, at
      <4>2. StepShaped(Step(at, target, scale))
        BY <4>1, StepIs
      <4> QED  BY <4>2 DEF StepAt, scale, target, at
    <3>5. AtState(a)
      BY <3>4 DEF StepShaped, AtState
    <3> QED  BY <3>5, MomentsAre
  <2> HIDE DEF a, s
  <2>6. Append(s, a) \in Seq(Moments) /\ Len(Append(s, a)) = n + 2
    BY <2>3, <2>5
  <2>7. \A k \in 1..(n + 1) : Append(s, a)[k] = s[k]
    BY <2>3
  <2>8. Append(s, a)[n + 2] = a
    BY <2>3
  <2>9. Append(s, a)[1] = from
    BY <2>3, <2>7
  <2>10. \A k \in 1..(n + 1) : Append(s, a)[k + 1] = StepAt(Append(s, a)[k], targets, first, k)
    <3> SUFFICES ASSUME NEW k \in 1..(n + 1)
                 PROVE  Append(s, a)[k + 1] = StepAt(Append(s, a)[k], targets, first, k)
      OBVIOUS
    <3>1. Append(s, a)[k] = s[k]
      BY <2>7
    <3>2. CASE k = n + 1
      <4>1. Append(s, a)[k + 1] = a
        <5>1. k + 1 = n + 2
          BY <3>2
        <5> QED  BY <2>8, <5>1
      <4> QED  BY <3>1, <3>2, <4>1 DEF a
    <3>3. CASE k # n + 1
      <4>1. k \in 1..n /\ k + 1 \in 1..(n + 1)
        BY <3>3
      <4>2. Append(s, a)[k + 1] = s[k + 1]
        BY <2>7, <4>1
      <4> QED  BY <2>4, <3>1, <4>1, <4>2
    <3> QED  BY <3>2, <3>3
  <2>11. (n + 1) + 1 = n + 2
    OBVIOUS
  <2> QED  BY <2>2, <2>6, <2>9, <2>10, <2>11 DEF Good
<1>6. Nat \subseteq G
  <2> HIDE DEF G
  <2> QED  BY <1>4, <1>5, AllNaturals
<1> QED  BY <1>1, <1>6 DEF N

\* Producing an update is such a run.
LEMMA ProduceRuns ==
  ASSUME NEW state, NEW momentum, AtState([state |-> state, momentum |-> momentum]),
         NEW targets \in Seq(Int), NEW first \in Int
  PROVE  Runs(ProduceUpdate(state, momentum, targets, first), [state |-> state, momentum |-> momentum], targets, first)
<1> DEFINE from == [state |-> state, momentum |-> momentum]
           N == Len(targets)
           h == CHOOSE f : StepsUpTo(f, from, targets, first, N)
<1>1. ProduceUpdate(state, momentum, targets, first) = h[N]
  BY DEF ProduceUpdate, StepsUpTo
<1>2. N \in Nat
  OBVIOUS
<1> HIDE DEF from, N
<1>3. StepsUpTo(h, from, targets, first, N)
  BY <1>2, StepsExist
<1> HIDE DEF h
<1>4. AtState(from)
  BY DEF from
<1>5. /\ h[N] \in Seq(Moments) /\ Len(h[N]) = N + 1 /\ h[N][1] = from
      /\ \A k \in 1..N : h[N][k + 1] = StepAt(h[N][k], targets, first, k)
  BY <1>2, <1>3, <1>4, StepsGrow DEF N
<1> QED  BY <1>1, <1>5 DEF Runs, from, N

-------------------------------------------------------------------------------
(* A run behind a plan                                                     *)

\* The moments of a run.
LEMMA RunFacts ==
  ASSUME NEW targets \in Seq(Int), NEW first \in Int, NEW from, NEW steps, Runs(steps, from, targets, first)
  PROVE  /\ DOMAIN steps = 1..(Len(targets) + 1)
         /\ \A k \in 1..(Len(targets) + 1) : AtState(steps[k])
         /\ \A k \in 2..(Len(targets) + 1) : StepShaped(steps[k])
         /\ \A k \in 1..Len(targets) : steps[k + 1] = StepAt(steps[k], targets, first, k)
<1>1. /\ steps \in Seq(Moments) /\ Len(steps) = Len(targets) + 1 /\ Len(targets) \in Nat
      /\ \A k \in 1..Len(targets) : steps[k + 1] = StepAt(steps[k], targets, first, k)
  BY DEF Runs
<1>2. DOMAIN steps = 1..(Len(targets) + 1) /\ \A k \in 1..(Len(targets) + 1) : steps[k] \in Moments
  BY <1>1
<1>3. \A k \in 1..(Len(targets) + 1) : AtState(steps[k])
  BY <1>2, MomentsAre
<1>4. ASSUME NEW k \in 2..(Len(targets) + 1) PROVE StepShaped(steps[k])
  <2> DEFINE at == steps[k - 1]
             target == targets[k - 1]
             scale == IF k - 1 = 1 THEN first ELSE FullScale
  <2>1. k - 1 \in 1..Len(targets) /\ k - 1 \in 1..(Len(targets) + 1) /\ (k - 1) + 1 = k
    BY <1>1
  <2>2. AtState(at) /\ target \in Int /\ scale \in Int
    BY <1>3, <2>1 DEF FullScale
  <2>3. steps[k] = Step(at, target, scale)
    BY <1>1, <2>1 DEF StepAt
  <2> HIDE DEF at, target, scale
  <2> QED  BY <2>2, <2>3, StepIs
<1> QED  BY <1>1, <1>2, <1>3, <1>4

\* Behind a plan a run is the same run.
LEMMA RunsMove ==
  ASSUME NEW targets \in Seq(Int), NEW first \in Int, NEW plan, IsPlan(plan),
         NEW from, NEW steps, Runs(steps, from, targets, first),
         NEW others, Runs(others, Moved(from, plan), targets, first)
  PROVE  \A k \in 1..(Len(targets) + 1) : others[k] = Moved(steps[k], plan)
<1> DEFINE N == Len(targets)
           G == {n \in Nat : n <= N => others[n + 1] = Moved(steps[n + 1], plan)}
<1>1. N \in Nat /\ \A k \in 1..N : targets[k] \in Int
  OBVIOUS
<1>2. 0 \in G
  BY DEF Runs
<1>3. /\ \A k \in 1..N : steps[k + 1] = StepAt(steps[k], targets, first, k)
      /\ \A k \in 1..N : others[k + 1] = StepAt(others[k], targets, first, k)
      /\ \A k \in 1..(N + 1) : AtState(steps[k])
  BY RunFacts
<1> HIDE DEF N
<1>4. ASSUME NEW n \in Nat, n \in G PROVE n + 1 \in G
  <2> SUFFICES ASSUME n + 1 <= N PROVE others[(n + 1) + 1] = Moved(steps[(n + 1) + 1], plan)
    OBVIOUS
  <2> DEFINE at == steps[n + 1]
             target == targets[n + 1]
             scale == IF n + 1 = 1 THEN first ELSE FullScale
  <2>1. n + 1 \in 1..N /\ n + 1 \in 1..(N + 1) /\ n <= N
    BY <1>1
  <2>2. others[n + 1] = Moved(at, plan)
    BY <1>4, <2>1
  <2>3. AtState(at) /\ target \in Int /\ scale \in Int
    BY <1>1, <1>3, <2>1 DEF FullScale
  <2>4. steps[(n + 1) + 1] = Step(at, target, scale)
    BY <1>3, <2>1 DEF StepAt
  <2>5. others[(n + 1) + 1] = Step(Moved(at, plan), target, scale)
    BY <1>3, <2>1, <2>2 DEF StepAt
  <2> HIDE DEF at, target, scale
  <2>6. Step(Moved(at, plan), target, scale) = Moved(Step(at, target, scale), plan)
    BY <2>3, StepMoves
  <2> QED  BY <2>4, <2>5, <2>6
<1>5. Nat \subseteq G
  <2> HIDE DEF G
  <2> QED  BY <1>2, <1>4, AllNaturals
<1>6. ASSUME NEW k \in 1..(N + 1) PROVE others[k] = Moved(steps[k], plan)
  <2>1. k - 1 \in Nat /\ k - 1 <= N /\ (k - 1) + 1 = k
    BY <1>1
  <2> QED  BY <1>5, <2>1
<1> QED  BY <1>6 DEF N

\* What is close stays close behind a plan, and was.
LEMMA CloseMoves ==
  ASSUME NEW plan, IsPlan(plan), plan = [seed |-> plan.seed, mode |-> plan.mode, maps |-> plan.maps],
         NEW keys, keys \subseteq Keys, NEW a, Shaped(a, keys), NEW b, Shaped(b, keys)
  PROVE  Close(TransformState(a, plan), TransformState(b, plan)) <=> Close(a, b)
<1> DEFINE x == TransformState(a, plan)
           y == TransformState(b, plan)
           Near(l, r) == \A key \in keys : \A ix \in Shapes[key] : Distance(l[key][ix], r[key][ix]) <= Tolerance
<1>1. ASSUME NEW l, NEW r, Shaped(l, keys), Shaped(r, keys) PROVE Close(l, r) <=> Near(l, r)
  <2>1. DOMAIN l = keys /\ DOMAIN r = keys /\ \A key \in keys : l[key] \in [Shapes[key] -> Int]
    BY <1>1, ShapedFacts
  <2>2. \A key \in keys : DOMAIN l[key] = Shapes[key]
    BY <2>1
  <2> QED  BY <2>1, <2>2 DEF Close
<1>2. /\ Shaped(x, keys) /\ Shaped(y, keys)
      /\ \A key \in keys : \A at \in Shapes[key] : x[key][at] = a[key][Selected(plan, key, at)]
      /\ \A key \in keys : \A at \in Shapes[key] : y[key][at] = b[key][Selected(plan, key, at)]
  <2>1. /\ Shaped(x, keys)
        /\ \A key \in keys : \A at \in Shapes[key] : x[key][at] = a[key][Selected(plan, key, at)]
    BY Transformed
  <2>2. /\ Shaped(y, keys)
        /\ \A key \in keys : \A at \in Shapes[key] : y[key][at] = b[key][Selected(plan, key, at)]
    BY Transformed
  <2> QED  BY <2>1, <2>2
<1> HIDE DEF x, y
<1>3. ASSUME Near(a, b), NEW key \in keys, NEW ix \in Shapes[key]
      PROVE  Distance(x[key][ix], y[key][ix]) <= Tolerance
  <2>1. Selected(plan, key, ix) \in Shapes[key]
    BY SelectedStays
  <2> QED  BY <1>2, <1>3, <2>1
<1>4. ASSUME Near(x, y), NEW key \in keys, NEW ix \in Shapes[key]
      PROVE  Distance(a[key][ix], b[key][ix]) <= Tolerance
  <2> DEFINE at == Selected(InversePlan(plan), key, ix)
  <2>1. at \in Shapes[key]
    BY InverseIsPlan, SelectedStays
  <2>2. Selected(plan, key, at) = ix
    BY InverseIsPlan
  <2> HIDE DEF at
  <2>3. Distance(x[key][at], y[key][at]) <= Tolerance
    BY <1>4, <2>1
  <2> QED  BY <1>2, <2>1, <2>2, <2>3
<1>5. Near(x, y) <=> Near(a, b)
  BY <1>3, <1>4
<1>6. (Close(x, y) <=> Near(x, y)) /\ (Close(a, b) <=> Near(a, b))
  <2> HIDE DEF Near
  <2> QED  BY <1>1, <1>2
<1> QED  BY <1>5, <1>6 DEF x, y

-------------------------------------------------------------------------------
(* Recorded proofs, and what a replay says of them                         *)

\* A recorded proof: a state and its momentum for each checkpoint, the first
\* momentum possibly empty.
IsProof(proof) ==
  /\ proof = [states |-> proof.states, momenta |-> proof.momenta, batches |-> proof.batches]
  /\ proof.batches \in Seq(Int) /\ Len(proof.batches) >= 4
  /\ proof.states \in Seq(Held(Keys)) /\ Len(proof.states) = Len(proof.batches) + 1
  /\ proof.momenta \in Seq(Held(Parameters) \cup Held({})) /\ Len(proof.momenta) = Len(proof.batches) + 1
  /\ \A k \in 2..(Len(proof.batches) + 1) : proof.momenta[k] \in Held(Parameters)

\* The checkpoints of a proof.
LEMMA ProofFacts ==
  ASSUME NEW proof, IsProof(proof)
  PROVE  /\ Len(proof.batches) \in Nat
         /\ DOMAIN proof.states = 1..(Len(proof.batches) + 1)
         /\ DOMAIN proof.momenta = 1..(Len(proof.batches) + 1)
         /\ \A k \in 1..(Len(proof.batches) + 1) : Shaped(proof.states[k], Keys)
         /\ \A k \in 1..(Len(proof.batches) + 1) :
              Shaped(proof.momenta[k], Parameters) \/ Shaped(proof.momenta[k], {})
         /\ \A k \in 2..(Len(proof.batches) + 1) : Shaped(proof.momenta[k], Parameters)
<1> DEFINE n == Len(proof.batches) + 1
<1>1. n - 1 \in Nat /\ n \in Nat /\ Len(proof.batches) \in Nat
  BY DEF IsProof
<1>2. /\ proof.states \in Seq(Held(Keys)) /\ Len(proof.states) = n
      /\ proof.momenta \in Seq(Held(Parameters) \cup Held({})) /\ Len(proof.momenta) = n
      /\ \A k \in 2..n : proof.momenta[k] \in Held(Parameters)
  BY DEF IsProof
<1>3. Parameters \subseteq Keys /\ Keys \subseteq Keys /\ {} \subseteq Keys
  BY KeysAre
<1> HIDE DEF n
<1>4. /\ DOMAIN proof.states = 1..n /\ DOMAIN proof.momenta = 1..n
      /\ \A k \in 1..n : proof.states[k] \in Held(Keys) /\ proof.momenta[k] \in Held(Parameters) \cup Held({})
  BY <1>1, <1>2
<1>5. \A k \in 1..n : Shaped(proof.states[k], Keys)
  BY <1>3, <1>4, HeldAre
<1>6. \A k \in 1..n : Shaped(proof.momenta[k], Parameters) \/ Shaped(proof.momenta[k], {})
  BY <1>3, <1>4, HeldAre
<1>7. \A k \in 2..n : Shaped(proof.momenta[k], Parameters)
  BY <1>2, <1>3, HeldAre
<1> QED  BY <1>1, <1>4, <1>5, <1>6, <1>7 DEF n

\* A plan as the compiler makes one.
Whole(plan) == IsPlan(plan) /\ plan = [seed |-> plan.seed, mode |-> plan.mode, maps |-> plan.maps]

\* A proof whose states and momenta are replaced.
LEMMA ProofReplaced ==
  ASSUME NEW proof, proof = [states |-> proof.states, momenta |-> proof.momenta, batches |-> proof.batches],
         NEW states, NEW momenta
  PROVE  [proof EXCEPT !.states = states, !.momenta = momenta]
           = [states |-> states, momenta |-> momenta, batches |-> proof.batches]
<1>1. DOMAIN proof = {"states", "momenta", "batches"}
  OBVIOUS
<1>2. [proof EXCEPT !.states = states, !.momenta = momenta]
        = [x \in DOMAIN proof |-> IF x = "momenta" THEN momenta ELSE IF x = "states" THEN states ELSE proof[x]]
  OBVIOUS
<1>3. [proof EXCEPT !.states = states, !.momenta = momenta]
        = [x \in {"states", "momenta", "batches"} |->
             IF x = "momenta" THEN momenta ELSE IF x = "states" THEN states ELSE proof[x]]
  BY <1>1, <1>2
<1> QED  BY <1>3

\* A transformed proof is a proof of the transformed checkpoints
\* (transform_replay_proof).
LEMMA TransformedProof ==
  ASSUME NEW proof, IsProof(proof), NEW plan, Whole(plan)
  PROVE  /\ IsProof(TransformProof(proof, plan))
         /\ TransformProof(proof, plan).batches = proof.batches
         /\ \A k \in 1..(Len(proof.batches) + 1) :
              /\ TransformProof(proof, plan).states[k] = TransformState(proof.states[k], plan)
              /\ TransformProof(proof, plan).momenta[k] = TransformState(proof.momenta[k], plan)
<1> DEFINE n == Len(proof.batches) + 1
           T == TransformProof(proof, plan)
           S == [k \in 1..n |-> TransformState(proof.states[k], plan)]
           M == [k \in 1..n |-> TransformState(proof.momenta[k], plan)]
<1>1. /\ n - 1 \in Nat /\ n \in Nat /\ DOMAIN proof.states = 1..n /\ DOMAIN proof.momenta = 1..n
      /\ \A k \in 1..n : Shaped(proof.states[k], Keys)
      /\ \A k \in 1..n : Shaped(proof.momenta[k], Parameters) \/ Shaped(proof.momenta[k], {})
      /\ \A k \in 2..n : Shaped(proof.momenta[k], Parameters)
  BY ProofFacts
<1>2. TransformAll(proof.states, plan) = S /\ TransformOptimizer(proof.momenta, plan) = M
  BY <1>1 DEF TransformAll, TransformOptimizer
<1>3. proof = [states |-> proof.states, momenta |-> proof.momenta, batches |-> proof.batches]
  BY Zenon DEF IsProof
<1>4. T = [states |-> S, momenta |-> M, batches |-> proof.batches]
  <2>1. T = [proof EXCEPT !.states = S, !.momenta = M]
    BY <1>2, Zenon DEF TransformProof
  <2> HIDE DEF S, M, T
  <2> QED  BY <1>3, <2>1, ProofReplaced
<1>5. Parameters \subseteq Keys /\ Keys \subseteq Keys /\ {} \subseteq Keys /\ IsPlan(plan)
  BY KeysAre DEF Whole
<1>6. ASSUME NEW tensors, NEW keys, keys \subseteq Keys, Shaped(tensors, keys)
      PROVE  TransformState(tensors, plan) \in Held(keys)
  <2>1. Shaped(TransformState(tensors, plan), keys)
    BY <1>5, <1>6, Transformed
  <2> QED  BY <1>6, <2>1, HeldAre
<1>15. \A k \in 1..n : TransformState(proof.states[k], plan) \in Held(Keys)
  BY <1>1, <1>5, <1>6
<1>7. \A k \in 1..n : Shaped(proof.momenta[k], Parameters) => TransformState(proof.momenta[k], plan) \in Held(Parameters)
  BY <1>5, <1>6
<1>8. \A k \in 1..n : Shaped(proof.momenta[k], {}) => TransformState(proof.momenta[k], plan) \in Held({})
  BY <1>5, <1>6
<1>9. S \in Seq(Held(Keys)) /\ Len(S) = n
  <2>1. S \in [1..n -> Held(Keys)]
    BY <1>15
  <2> HIDE DEF S, n
  <2> QED  BY <1>1, <2>1
<1>10. M \in Seq(Held(Parameters) \cup Held({})) /\ Len(M) = n
  <2>1. \A k \in 1..n : TransformState(proof.momenta[k], plan) \in Held(Parameters) \cup Held({})
    BY <1>1, <1>7, <1>8
  <2>2. M \in [1..n -> Held(Parameters) \cup Held({})]
    BY <2>1
  <2> HIDE DEF M, n
  <2> QED  BY <1>1, <2>2
<1>11. \A k \in 2..n : M[k] \in Held(Parameters)
  <2>1. \A k \in 2..n : k \in 1..n
    BY <1>1
  <2> QED  BY <1>1, <1>7, <2>1
<1>12. \A k \in 1..n : S[k] = TransformState(proof.states[k], plan) /\ M[k] = TransformState(proof.momenta[k], plan)
  OBVIOUS
<1> HIDE DEF S, M, T
<1>13. T.states = S /\ T.momenta = M /\ T.batches = proof.batches
  BY <1>4
<1>14. IsProof(T)
  BY <1>4, <1>9, <1>10, <1>11, <1>13 DEF IsProof
<1> QED  BY <1>12, <1>13, <1>14 DEF T

\* The training of a proof's own batches, and what it says of the proof.
Trained(proof) == ProduceUpdate(proof.states[1], proof.momenta[1], proof.batches, FullScale)
Start(proof) == [state |-> proof.states[1], momentum |-> proof.momenta[1]]
Base(proof) ==
  \A k \in 2..(Len(proof.batches) + 1) :
    /\ Close(Trained(proof)[k].state, proof.states[k])
    /\ Close(Trained(proof)[k].momentum, proof.momenta[k])

\* The training of a proof is a run.
LEMMA TrainedRuns ==
  ASSUME NEW proof, IsProof(proof)
  PROVE  AtState(Start(proof)) /\ Runs(Trained(proof), Start(proof), proof.batches, FullScale)
<1>1. /\ Shaped(proof.states[1], Keys)
      /\ Shaped(proof.momenta[1], Parameters) \/ Shaped(proof.momenta[1], {})
  BY ProofFacts
<1>2. AtState(Start(proof))
  BY <1>1 DEF AtState, Start
<1>3. proof.batches \in Seq(Int) /\ FullScale \in Int
  BY DEF IsProof, FullScale
<1>4. Runs(ProduceUpdate(proof.states[1], proof.momenta[1], proof.batches, FullScale),
           Start(proof), proof.batches, FullScale)
  BY <1>2, <1>3, ProduceRuns DEF Start
<1> QED  BY <1>2, <1>4 DEF Trained

\* Behind a plan the training of a proof says the same of it.
LEMMA BaseMoves ==
  ASSUME NEW proof, IsProof(proof), NEW plan, Whole(plan)
  PROVE  Base(TransformProof(proof, plan)) <=> Base(proof)
<1> DEFINE n == Len(proof.batches) + 1
           T == TransformProof(proof, plan)
           steps == Trained(proof)
           others == Trained(T)
<1>1. /\ IsProof(T) /\ T.batches = proof.batches
      /\ \A k \in 1..n : /\ T.states[k] = TransformState(proof.states[k], plan)
                         /\ T.momenta[k] = TransformState(proof.momenta[k], plan)
  BY TransformedProof
<1>2. Runs(steps, Start(proof), proof.batches, FullScale)
  BY TrainedRuns
<1>3. Runs(others, Start(T), proof.batches, FullScale)
  BY <1>1, TrainedRuns
<1>4. n \in Nat /\ 1 \in 1..n /\ \A k \in 2..n : k \in 1..n
  BY ProofFacts
<1> HIDE DEF T
<1>5. Start(T) = Moved(Start(proof), plan)
  BY <1>1, <1>4 DEF Start, Moved
<1>6. proof.batches \in Seq(Int) /\ FullScale \in Int /\ IsPlan(plan)
  BY DEF IsProof, FullScale, Whole
<1>7. Base(T) <=> \A k \in 2..n : Close(others[k].state, T.states[k]) /\ Close(others[k].momentum, T.momenta[k])
  BY <1>1 DEF Base
<1>8. Base(proof) <=> \A k \in 2..n : Close(steps[k].state, proof.states[k]) /\ Close(steps[k].momentum, proof.momenta[k])
  BY DEF Base
<1> HIDE DEF steps, others
<1>9. \A k \in 1..n : others[k] = Moved(steps[k], plan)
  BY <1>2, <1>3, <1>5, <1>6, RunsMove
<1>10. \A k \in 2..n : StepShaped(steps[k])
  BY <1>2, <1>6, RunFacts
<1>11. /\ \A k \in 1..n : Shaped(proof.states[k], Keys)
       /\ \A k \in 2..n : Shaped(proof.momenta[k], Parameters)
  BY ProofFacts
<1>12. ASSUME NEW k \in 2..n
       PROVE  /\ Close(others[k].state, T.states[k]) <=> Close(steps[k].state, proof.states[k])
              /\ Close(others[k].momentum, T.momenta[k]) <=> Close(steps[k].momentum, proof.momenta[k])
  <2> DEFINE s == steps[k].state
             m == steps[k].momentum
  <2>1. k \in 1..n
    BY <1>4
  <2>2. others[k].state = TransformState(s, plan) /\ others[k].momentum = TransformState(m, plan)
    <3>1. others[k] = Moved(steps[k], plan)
      BY <1>9, <2>1, Zenon
    <3> QED  BY <3>1 DEF Moved
  <2>3. T.states[k] = TransformState(proof.states[k], plan) /\ T.momenta[k] = TransformState(proof.momenta[k], plan)
    BY <1>1, <2>1
  <2>4. /\ Shaped(s, Keys) /\ Shaped(m, Parameters)
        /\ Shaped(proof.states[k], Keys) /\ Shaped(proof.momenta[k], Parameters)
    BY <1>10, <1>11, <2>1 DEF StepShaped
  <2>5. Keys \subseteq Keys /\ Parameters \subseteq Keys
    BY KeysAre
  <2> HIDE DEF s, m
  <2>6. Close(TransformState(s, plan), TransformState(proof.states[k], plan)) <=> Close(s, proof.states[k])
    BY <2>4, <2>5, CloseMoves DEF Whole
  <2>7. Close(TransformState(m, plan), TransformState(proof.momenta[k], plan)) <=> Close(m, proof.momenta[k])
    BY <2>4, <2>5, CloseMoves DEF Whole
  <2> QED  BY <2>2, <2>3, <2>6, <2>7 DEF s, m
<1>13. Base(T) <=> Base(proof)
  BY <1>7, <1>8, <1>12
<1> QED  BY <1>13 DEF T

\* A replay through a plan says what the training of the proof itself says.
LEMMA ReplayIs ==
  ASSUME NEW proof, IsProof(proof), NEW plan, Whole(plan)
  PROVE  VerifyReplayProof(proof, plan) <=> Base(proof)
<1> DEFINE n == Len(proof.batches) + 1
           T == TransformProof(proof, plan)
           others == Trained(T)
<1>1. /\ IsProof(T) /\ T.batches = proof.batches
      /\ \A k \in 1..n : /\ T.states[k] = TransformState(proof.states[k], plan)
                         /\ T.momenta[k] = TransformState(proof.momenta[k], plan)
  BY TransformedProof
<1>2. /\ n \in Nat /\ 1 \in 1..n /\ (\A k \in 2..n : k \in 1..n)
      /\ DOMAIN proof.states = 1..n /\ DOMAIN proof.momenta = 1..n
  BY ProofFacts
<1>3. Runs(others, Start(T), proof.batches, FullScale)
  BY <1>1, TrainedRuns
<1>4. Len(others) = n
  BY <1>3 DEF Runs
<1>5. \A k \in 1..n : TransformOptimizer(proof.momenta, plan)[k] = TransformState(proof.momenta[k], plan)
  BY <1>2 DEF TransformOptimizer, TransformAll
<1> HIDE DEF T
<1>6. others = ProduceUpdate(TransformState(proof.states[1], plan), TransformOptimizer(proof.momenta, plan)[1],
                             proof.batches, FullScale)
  BY <1>1, <1>2, <1>5 DEF Trained
<1> HIDE DEF others, n
<1>7. VerifyReplayProof(proof, plan) <=>
        \A k \in 2..n : /\ Close(others[k].state, TransformState(proof.states[k], plan))
                        /\ Close(others[k].momentum, TransformOptimizer(proof.momenta, plan)[k])
  BY <1>4, <1>6, Zenon DEF VerifyReplayProof
<1>8. VerifyReplayProof(proof, plan) <=>
        \A k \in 2..n : Close(others[k].state, T.states[k]) /\ Close(others[k].momentum, T.momenta[k])
  BY <1>1, <1>2, <1>5, <1>7
<1>9. Base(T) <=> \A k \in 2..n : Close(others[k].state, T.states[k]) /\ Close(others[k].momentum, T.momenta[k])
  BY <1>1 DEF Base, others, n
<1>10. Base(T) <=> Base(proof)
  BY BaseMoves DEF T
<1> QED  BY <1>8, <1>9, <1>10

\* Undoing a wrapper gives back the proof.
LEMMA ProofRestored ==
  ASSUME NEW proof, IsProof(proof), NEW plan, Whole(plan)
  PROVE  /\ Whole(InversePlan(plan))
         /\ TransformProof(TransformProof(proof, plan), InversePlan(plan)) = proof
<1> DEFINE n == Len(proof.batches) + 1
           T == TransformProof(proof, plan)
           inv == InversePlan(plan)
           R == TransformProof(T, inv)
<1>1. Whole(inv)
  <2>1. IsPlan(inv)
    BY InverseIsPlan DEF Whole
  <2>2. inv = [seed |-> inv.seed, mode |-> inv.mode, maps |-> inv.maps]
    BY DEF Whole, InversePlan
  <2> QED  BY <2>1, <2>2 DEF Whole
<1>2. /\ IsProof(T) /\ T.batches = proof.batches
      /\ \A k \in 1..n : /\ T.states[k] = TransformState(proof.states[k], plan)
                         /\ T.momenta[k] = TransformState(proof.momenta[k], plan)
  BY TransformedProof
<1> HIDE DEF T
<1>3. /\ IsProof(R) /\ R.batches = proof.batches
      /\ \A k \in 1..n : /\ R.states[k] = TransformState(T.states[k], inv)
                         /\ R.momenta[k] = TransformState(T.momenta[k], inv)
  BY <1>1, <1>2, TransformedProof
<1> HIDE DEF R
<1>4. Parameters \subseteq Keys /\ Keys \subseteq Keys /\ {} \subseteq Keys
  BY KeysAre
<1>5. /\ \A k \in 1..n : Shaped(proof.states[k], Keys)
      /\ \A k \in 1..n : Shaped(proof.momenta[k], Parameters) \/ Shaped(proof.momenta[k], {})
      /\ DOMAIN proof.states = 1..n /\ DOMAIN proof.momenta = 1..n /\ n \in Nat
  BY ProofFacts
<1>6. \A tensors : Shaped(tensors, Keys) => TransformState(TransformState(tensors, plan), inv) = tensors
  BY <1>4, Restored DEF Whole
<1>7. \A tensors : Shaped(tensors, Parameters) => TransformState(TransformState(tensors, plan), inv) = tensors
  BY <1>4, Restored DEF Whole
<1>8. \A tensors : Shaped(tensors, {}) => TransformState(TransformState(tensors, plan), inv) = tensors
  BY <1>4, Restored DEF Whole
<1>9. /\ DOMAIN R.states = 1..n /\ DOMAIN R.momenta = 1..n
  BY <1>3, ProofFacts
<1> HIDE DEF n, inv
<1>10. \A k \in 1..n : R.states[k] = proof.states[k] /\ R.momenta[k] = proof.momenta[k]
  BY <1>2, <1>3, <1>5, <1>6, <1>7, <1>8
<1>11. R.states = proof.states /\ R.momenta = proof.momenta
  <2>1. /\ R.states \in Seq(Held(Keys)) /\ proof.states \in Seq(Held(Keys))
        /\ R.momenta \in Seq(Held(Parameters) \cup Held({}))
        /\ proof.momenta \in Seq(Held(Parameters) \cup Held({}))
    BY <1>3 DEF IsProof
  <2>2. Len(R.states) = n /\ Len(proof.states) = n /\ Len(R.momenta) = n /\ Len(proof.momenta) = n
    BY <1>3 DEF IsProof, n
  <2>3. R.states = proof.states
    BY <1>10, <2>1, <2>2, SeqEqual
  <2>4. R.momenta = proof.momenta
    BY <1>10, <2>1, <2>2, SeqEqual
  <2> QED  BY <2>3, <2>4
<1>12. R = [states |-> R.states, momenta |-> R.momenta, batches |-> R.batches]
       /\ proof = [states |-> proof.states, momenta |-> proof.momenta, batches |-> proof.batches]
  BY <1>3, Zenon DEF IsProof
<1>13. R = proof
  BY <1>3, <1>11, <1>12
<1> QED  BY <1>1, <1>13 DEF R, T, inv

-------------------------------------------------------------------------------
(* Plans and descriptors                                                   *)

\* A drawn identity with its first two channels swapped still permutes.
LEMMA DrawnPermutes ==
  ASSUME NEW n \in {2, 3}, NEW drawn, Permutes(drawn, n)
  PROVE  Permutes(Permutation(drawn), n)
<1>1. drawn \in [1..n -> 1..n] /\ IsInjective(drawn) /\ Range(drawn) = 1..n
  BY DEF Permutes
<1>2. CASE \A i \in DOMAIN drawn : drawn[i] = i
  <2> DEFINE swapped == [drawn EXCEPT ![1] = drawn[2], ![2] = drawn[1]]
  <2>1. drawn = [i \in 1..n |-> i] /\ Len(drawn) = n
    BY <1>1, <1>2
  <2>2. Permutation(drawn) = swapped
    BY <1>2, <2>1 DEF Permutation
  <2>3. swapped \in [1..n -> 1..n] /\ swapped[1] = 2 /\ swapped[2] = 1 /\ (n = 3 => swapped[3] = 3)
    BY <1>1, <2>1
  <2> HIDE DEF swapped
  <2>4. IsInjective(swapped)
    BY <2>3 DEF IsInjective
  <2>5. Range(swapped) = 1..n
    <3>1. ASSUME NEW i \in 1..n PROVE \E k \in 1..n : swapped[k] = i
      <4>1. i = 1 \/ i = 2 \/ (n = 3 /\ i = 3)
        OBVIOUS
      <4>2. 1 \in 1..n /\ 2 \in 1..n /\ (n = 3 => 3 \in 1..n)
        OBVIOUS
      <4> QED  BY <2>3, <4>1, <4>2
    <3> QED  BY <2>3, <3>1 DEF Range
  <2> QED  BY <2>2, <2>3, <2>4, <2>5 DEF Permutes
<1>3. CASE ~ \A i \in DOMAIN drawn : drawn[i] = i
  BY <1>3 DEF Permutation
<1> QED  BY <1>2, <1>3

\* So does the identity.
LEMMA SelfPermutes ==
  ASSUME NEW n \in Nat
  PROVE  Permutes([i \in 1..n |-> i], n)
<1> DEFINE map == [i \in 1..n |-> i]
<1>1. map \in [1..n -> 1..n] /\ \A i \in 1..n : map[i] = i
  OBVIOUS
<1> HIDE DEF map
<1>2. IsInjective(map)
  BY <1>1 DEF IsInjective
<1>3. Range(map) = 1..n
  BY <1>1 DEF Range
<1> QED  BY <1>1, <1>2, <1>3 DEF Permutes, map

\* Every plan of a known seed permutes, and so does the one that changes nothing.
LEMMA PlansAreWhole ==
  ASSUME ProbeAssumption, NEW seed, NEW mode, mode = "identity" \/ seed \in DOMAIN DrawnMaps
  PROVE  Whole(Plan(seed, mode)) /\ Plan(seed, mode).seed = seed /\ Plan(seed, mode).mode = mode
<1> DEFINE plan == Plan(seed, mode)
           maps == [name \in DOMAIN ChannelSizes |->
                      IF mode = "identity" THEN [i \in 1..ChannelSizes[name] |-> i]
                                           ELSE Permutation(DrawnMaps[seed][name])]
<1>1. plan = [seed |-> seed, mode |-> mode, maps |-> maps]
  BY DEF Plan
<1>2. DOMAIN maps = DOMAIN ChannelSizes
  OBVIOUS
<1>3. Permutes(maps["hidden0"], 3) /\ Permutes(maps["hidden1"], 2)
  <2>1. CASE mode = "identity"
    <3>1. maps["hidden0"] = [i \in 1..3 |-> i] /\ maps["hidden1"] = [i \in 1..2 |-> i]
      BY <2>1, KeysAre
    <3> HIDE DEF maps
    <3> QED  BY <3>1, SelfPermutes
  <2>2. CASE mode # "identity"
    <3>1. maps["hidden0"] = Permutation(DrawnMaps[seed]["hidden0"]) /\ maps["hidden1"] = Permutation(DrawnMaps[seed]["hidden1"])
      BY <2>2, KeysAre
    <3>2. /\ Permutes(DrawnMaps[seed]["hidden0"], 3)
          /\ Permutes(DrawnMaps[seed]["hidden1"], 2)
      BY <2>2, KeysAre DEF ProbeAssumption, Permutes
    <3> HIDE DEF maps
    <3>3. Permutes(Permutation(DrawnMaps[seed]["hidden0"]), 3)
      BY <3>2, DrawnPermutes
    <3>4. Permutes(Permutation(DrawnMaps[seed]["hidden1"]), 2)
      BY <3>2, DrawnPermutes
    <3> QED  BY <3>1, <3>3, <3>4
  <2> QED  BY <2>1, <2>2
<1> HIDE DEF maps, plan
<1>4. plan.maps = maps /\ plan.seed = seed /\ plan.mode = mode
  BY <1>1
<1>5. IsPlan(plan)
  BY <1>2, <1>3, <1>4 DEF IsPlan
<1>6. plan = [seed |-> plan.seed, mode |-> plan.mode, maps |-> plan.maps]
  BY <1>1, <1>4
<1> QED  BY <1>4, <1>5, <1>6 DEF Whole, plan

\* The owner's replay says what the training of the proof says.
LEMMA ReplaysIs ==
  ASSUME ProbeAssumption, NEW proof, IsProof(proof)
  PROVE  Replays(proof) <=> Base(proof)
<1>1. Whole(AsItIs)
  BY PlansAreWhole DEF AsItIs
<1> HIDE DEF AsItIs
<1> QED  BY <1>1, ReplayIs DEF Replays

\* The maps of a plan are onto their channels.
LEMMA WholeMaps ==
  ASSUME NEW plan, Whole(plan)
  PROVE  \A name \in DOMAIN plan.maps :
           IsInjective(plan.maps[name]) /\ Range(plan.maps[name]) = DOMAIN plan.maps[name]
<1>1. DOMAIN plan.maps = {"hidden0", "hidden1"} /\ Permutes(plan.maps["hidden0"], 3) /\ Permutes(plan.maps["hidden1"], 2)
  BY KeysAre DEF Whole, IsPlan
<1>2. ASSUME NEW map, NEW n, Permutes(map, n) PROVE IsInjective(map) /\ Range(map) = DOMAIN map
  <2>1. map \in [1..n -> 1..n] /\ IsInjective(map) /\ Range(map) = 1..n
    BY <1>2 DEF Permutes
  <2>2. DOMAIN map = 1..n
    BY <2>1
  <2> QED  BY <2>1, <2>2
<1> QED  BY <1>1, <1>2

\* The owner's descriptor is verified; a verified one carries a plan.
LEMMA OwnVerified ==
  ASSUME NEW plan, Whole(plan), NEW protocol, plan.maps = Plan(plan.seed, plan.mode).maps
  PROVE  /\ DescriptorVerified(Descriptor(plan, protocol), protocol)
         /\ Descriptor(plan, protocol).plan = plan /\ Descriptor(plan, protocol).protocol = protocol
<1> DEFINE d == Descriptor(plan, protocol)
<1>1. /\ d.protocol = protocol /\ d.plan = plan /\ d.id = PermutationId(plan)
      /\ d.commitment = <<protocol, plan, PermutationId(plan)>>
  BY DEF Descriptor, Commitment
<1> HIDE DEF d
<1>2. d.commitment = Commitment(d)
  BY <1>1, Zenon DEF Commitment
<1>3. PlanAuthenticated(d)
  BY <1>1, WholeMaps DEF PlanAuthenticated
<1> QED  BY <1>1, <1>2, <1>3 DEF DescriptorVerified, d

Known(plan) == plan = [seed |-> plan.seed, mode |-> plan.mode, maps |-> plan.maps] /\ plan.seed \in DOMAIN DrawnMaps
\* A descriptor that passes the verifier's rebuild of its plan carries a
\* permutation, whoever wrote it.
LEMMA VerifiedPlans ==
  ASSUME ProbeAssumption, NEW d, NEW protocol, DescriptorVerified(d, protocol), Known(d.plan)
  PROVE  Whole(d.plan)
<1> DEFINE other == Plan(d.plan.seed, d.plan.mode)
<1>1. Whole(other)
  BY PlansAreWhole DEF Known
<1>2. d.plan.maps = other.maps
  BY DEF DescriptorVerified, PlanAuthenticated
<1> HIDE DEF other
<1> QED  BY <1>1, <1>2 DEF Whole, IsPlan, Known

\* However a delivery garbles a descriptor, its seed is one that can be drawn.
LEMMA GarbledAreKnown ==
  ASSUME ProbeAssumption, NEW plan, Known(plan), NEW protocol, NEW d \in Garbled(Descriptor(plan, protocol))
  PROVE  Known(d.plan)
<1> DEFINE own == Descriptor(plan, protocol)
           seed2 == CHOOSE seed \in DOMAIN DrawnMaps : seed # plan.seed
           other == Plan(seed2, "permuted")
           plans == {other, Plan(plan.seed, "identity"), [plan EXCEPT !.maps = other.maps],
                     [plan EXCEPT !.maps["hidden0"] = [i \in 1..3 |-> 1]]}
<1>1. \E seed \in DOMAIN DrawnMaps : seed # plan.seed
  BY DEF ProbeAssumption, Known
<1>2. seed2 \in DOMAIN DrawnMaps
  BY <1>1
<1>3. own.plan = plan /\ own.protocol = protocol
      /\ own = [protocol |-> own.protocol, plan |-> own.plan, id |-> own.id, commitment |-> own.commitment]
  BY DEF Descriptor
<1>4. Garbled(own) = {[own EXCEPT !.plan = p] : p \in plans} \cup {Descriptor(p, own.protocol) : p \in plans}
                       \cup {Descriptor(own.plan, "v0")}
  BY <1>3 DEF Garbled
<1> HIDE DEF own, seed2
<1>5. \A p \in plans : Known(p)
  <2>1. Known(other)
    BY <1>2 DEF Plan, Known
  <2>2. Known(Plan(plan.seed, "identity"))
    BY DEF Plan, Known
  <2> HIDE DEF other
  <2>3. Known([plan EXCEPT !.maps = other.maps])
    BY DEF Known
  <2>4. Known([plan EXCEPT !.maps["hidden0"] = [i \in 1..3 |-> 1]])
    BY DEF Known
  <2> QED  BY <2>1, <2>2, <2>3, <2>4
<1> HIDE DEF plans
<1>6. \A p : [own EXCEPT !.plan = p].plan = p
  BY <1>3
<1>7. \A p, q : Descriptor(p, q).plan = p
  BY DEF Descriptor
<1>8. (\E p \in plans : d = [own EXCEPT !.plan = p]) \/ (\E p \in plans : d = Descriptor(p, own.protocol))
        \/ d = Descriptor(own.plan, "v0")
  BY <1>4 DEF own
<1> QED  BY <1>3, <1>5, <1>6, <1>7, <1>8

-------------------------------------------------------------------------------
(* Identities of a proof, read at once or as it is produced                *)

\* The hash of a sequence of states while it is read, as the recursion gives it.
Unfed == [complete |-> <<>>, checkpoint |-> <<>>]
HashUpTo(h, observed, n) ==
  h = [k \in 0..n |-> IF k = 0 THEN [complete |-> <<>>, checkpoint |-> <<>>]
                      ELSE Accumulate(h[k - 1], k - 1, observed[k])]
HashOf(observed) == (CHOOSE h : HashUpTo(h, observed, Len(observed)))[Len(observed)]

\* The recursion has a value for every number of states.
LEMMA HashExists ==
  ASSUME NEW observed
  PROVE  \A n \in Nat : \E h : HashUpTo(h, observed, n)
<1> DEFINE G == {n \in Nat : \E h : HashUpTo(h, observed, n)}
           More(s, k) == Accumulate(s, k - 1, observed[k])
<1>1. 0 \in G
  <2> DEFINE h == [k \in 0..0 |-> Unfed]
  <2>1. HashUpTo(h, observed, 0)
    BY DEF HashUpTo, Unfed
  <2> QED  BY <2>1
<1>2. ASSUME NEW n \in Nat, n \in G PROVE n + 1 \in G
  <2>1. PICK h : HashUpTo(h, observed, n)
    BY <1>2
  <2>2. h = [k \in 0..n |-> IF k = 0 THEN Unfed ELSE More(h[k - 1], k)]
    BY <2>1, Zenon DEF HashUpTo, Unfed
  <2> DEFINE g == [k \in 0..(n + 1) |-> IF k = 0 THEN Unfed ELSE More(h[k - 1], k)]
  <2> HIDE DEF More
  <2>3. \A k \in 0..n : g[k] = h[k]
    BY <2>2
  <2>4. \A k \in 0..(n + 1) : k # 0 => k - 1 \in 0..n
    OBVIOUS
  <2>5. \A k \in 0..(n + 1) : g[k] = IF k = 0 THEN Unfed ELSE More(g[k - 1], k)
    BY <2>3, <2>4
  <2>6. g = [k \in 0..(n + 1) |-> IF k = 0 THEN Unfed ELSE More(g[k - 1], k)]
    <3>1. g = [k \in 0..(n + 1) |-> g[k]]
      OBVIOUS
    <3> HIDE DEF g
    <3> QED  BY <2>5, <3>1
  <2> HIDE DEF g
  <2>7. HashUpTo(g, observed, n + 1)
    BY <2>6, Zenon DEF HashUpTo, More, Unfed
  <2> QED  BY <2>7
<1>3. Nat \subseteq G
  <2> HIDE DEF G
  <2> QED  BY <1>1, <1>2, AllNaturals
<1> QED  BY <1>3

\* A sequence is made by appending its elements.
LEMMA PrefixGrows ==
  ASSUME NEW S, NEW all \in Seq(S), NEW n \in Nat, n < Len(all)
  PROVE  Append(SubSeq(all, 1, n), all[n + 1]) = SubSeq(all, 1, n + 1)
<1>1. /\ SubSeq(all, 1, n) \in Seq(S) /\ Len(SubSeq(all, 1, n)) = n
      /\ \A k \in 1..n : SubSeq(all, 1, n)[k] = all[k]
  OBVIOUS
<1>2. /\ SubSeq(all, 1, n + 1) \in Seq(S) /\ Len(SubSeq(all, 1, n + 1)) = n + 1
      /\ \A k \in 1..(n + 1) : SubSeq(all, 1, n + 1)[k] = all[k]
  OBVIOUS
<1>3. all[n + 1] \in S
  OBVIOUS
<1> DEFINE l == Append(SubSeq(all, 1, n), all[n + 1])
           r == SubSeq(all, 1, n + 1)
<1>4. l \in Seq(S) /\ Len(l) = n + 1 /\ \A k \in 1..(n + 1) : l[k] = all[k]
  BY <1>1, <1>3
<1>5. r \in Seq(S) /\ Len(r) = n + 1 /\ \A k \in 1..(n + 1) : r[k] = all[k]
  BY <1>2
<1> HIDE DEF l, r
<1>6. \A k \in 1..Len(l) : l[k] = r[k]
  BY <1>4, <1>5
<1>7. l = r
  BY <1>4, <1>5, <1>6, SeqEqual
<1> QED  BY <1>7 DEF l, r

\* Fed one state at a time, a hash is that of all of them.
LEMMA HashIs ==
  ASSUME NEW S, NEW observed \in Seq(S), Len(observed) >= 1
  PROVE  HashOf(observed) = [complete |-> FeedAll(observed), checkpoint |-> FeedAll(Tail(observed))]
<1> DEFINE N == Len(observed)
           rest == Tail(observed)
           all == FeedAll(observed)
           later == FeedAll(rest)
           A == {all[k] : k \in 1..N}
           L == {later[k] : k \in 1..(N - 1)}
           h == CHOOSE f : HashUpTo(f, observed, N)
           G == {n \in Nat : n + 1 <= N =>
                   h[n + 1] = [complete |-> SubSeq(all, 1, n + 1), checkpoint |-> SubSeq(later, 1, n)]}
<1>1. N \in Nat /\ N >= 1 /\ DOMAIN observed = 1..N
      /\ rest \in Seq(S) /\ Len(rest) = N - 1 /\ \A k \in 1..(N - 1) : rest[k] = observed[k + 1]
  OBVIOUS
<1>2. DOMAIN rest = 1..(N - 1)
  BY <1>1
<1> HIDE DEF N, rest
<1>3. all = [k \in 1..N |-> Feed(k - 1, observed[k])]
  BY <1>1 DEF FeedAll
<1>4. later = [k \in 1..(N - 1) |-> Feed(k - 1, rest[k])]
  BY <1>2 DEF FeedAll
<1> HIDE DEF all, later
<1>5. all \in Seq(A) /\ Len(all) = N
  <2>1. all \in [1..N -> A]
    BY <1>3
  <2> HIDE DEF A
  <2> QED  BY <1>1, <2>1
<1>6. later \in Seq(L) /\ Len(later) = N - 1
  <2>1. later \in [1..(N - 1) -> L]
    BY <1>4
  <2>2. N - 1 \in Nat
    BY <1>1
  <2> HIDE DEF L
  <2> QED  BY <2>1, <2>2
<1> HIDE DEF A, L
<1>7. HashUpTo(h, observed, N)
  BY <1>1, HashExists
<1> HIDE DEF h
<1>8. /\ h[0] = [complete |-> <<>>, checkpoint |-> <<>>]
      /\ \A k \in 1..N : h[k] = Accumulate(h[k - 1], k - 1, observed[k])
  BY <1>1, <1>7 DEF HashUpTo
<1>9. 0 \in G
  <2>1. h[1] = Accumulate(h[0], 0, observed[1])
    BY <1>1, <1>8
  <2>2. h[1] = [complete |-> Append(<<>>, Feed(0, observed[1])), checkpoint |-> <<>>]
    BY <1>8, <2>1 DEF Accumulate
  <2>3. all[1] = Feed(0, observed[1])
    BY <1>1, <1>3
  <2>4. Append(<<>>, all[1]) = SubSeq(all, 1, 1)
    <3>1. Append(SubSeq(all, 1, 0), all[0 + 1]) = SubSeq(all, 1, 0 + 1)
      BY <1>1, <1>5, PrefixGrows
    <3>2. SubSeq(all, 1, 0) = <<>>
      BY <1>5
    <3> QED  BY <3>1, <3>2
  <2>5. SubSeq(later, 1, 0) = <<>>
    BY <1>6
  <2>6. h[0 + 1] = [complete |-> SubSeq(all, 1, 0 + 1), checkpoint |-> SubSeq(later, 1, 0)]
    BY <2>2, <2>3, <2>4, <2>5
  <2> QED  BY <2>6
<1>10. ASSUME NEW n \in Nat, n \in G PROVE n + 1 \in G
  <2> SUFFICES ASSUME (n + 1) + 1 <= N
               PROVE  h[(n + 1) + 1] = [complete |-> SubSeq(all, 1, (n + 1) + 1), checkpoint |-> SubSeq(later, 1, n + 1)]
    OBVIOUS
  <2>1. h[n + 1] = [complete |-> SubSeq(all, 1, n + 1), checkpoint |-> SubSeq(later, 1, n)]
    BY <1>1, <1>10
  <2>2. h[(n + 1) + 1] = Accumulate(h[n + 1], n + 1, observed[(n + 1) + 1])
    <3>1. (n + 1) + 1 \in 1..N /\ ((n + 1) + 1) - 1 = n + 1
      BY <1>1
    <3> QED  BY <1>8, <3>1
  <2>3. h[(n + 1) + 1] = [complete |-> Append(SubSeq(all, 1, n + 1), Feed(n + 1, observed[(n + 1) + 1])),
                          checkpoint |-> Append(SubSeq(later, 1, n), Feed((n + 1) - 1, observed[(n + 1) + 1]))]
    <3>1. n + 1 # 0
      OBVIOUS
    <3> QED  BY <2>1, <2>2, <3>1 DEF Accumulate
  <2>4. all[(n + 1) + 1] = Feed(n + 1, observed[(n + 1) + 1])
    <3>1. (n + 1) + 1 \in 1..N /\ ((n + 1) + 1) - 1 = n + 1
      BY <1>1
    <3> QED  BY <1>3, <3>1
  <2>5. later[n + 1] = Feed((n + 1) - 1, observed[(n + 1) + 1])
    <3>1. n + 1 \in 1..(N - 1)
      BY <1>1
    <3> QED  BY <1>1, <1>4, <3>1
  <2>6. Append(SubSeq(all, 1, n + 1), all[(n + 1) + 1]) = SubSeq(all, 1, (n + 1) + 1)
    BY <1>1, <1>5, PrefixGrows
  <2>7. Append(SubSeq(later, 1, n), later[n + 1]) = SubSeq(later, 1, n + 1)
    BY <1>1, <1>6, PrefixGrows
  <2> QED  BY <2>3, <2>4, <2>5, <2>6, <2>7
<1>11. Nat \subseteq G
  <2> HIDE DEF G
  <2> QED  BY <1>9, <1>10, AllNaturals
<1>12. h[N] = [complete |-> SubSeq(all, 1, N), checkpoint |-> SubSeq(later, 1, N - 1)]
  <2>1. N - 1 \in Nat /\ (N - 1) + 1 = N /\ (N - 1) + 1 <= N
    BY <1>1
  <2>2. N - 1 \in G
    BY <1>11, <2>1
  <2> QED  BY <2>1, <2>2
<1>13. SubSeq(all, 1, N) = all /\ SubSeq(later, 1, N - 1) = later
  <2>1. SubSeq(all, 1, N) = all
    BY <1>5
  <2>2. SubSeq(later, 1, N - 1) = later
    BY <1>6
  <2> QED  BY <2>1, <2>2
<1>14. HashOf(observed) = h[N]
  BY DEF HashOf, h, N
<1> QED  BY <1>12, <1>13, <1>14 DEF all, later, rest

\* The identity taken in one pass is the identity (compute_fused_hashes).
LEMMA FusedIs ==
  ASSUME NEW proof, IsProof(proof)
  PROVE  FusedHashes(proof.states, proof.momenta, proof.batches) = ComponentHashes(proof)
<1>1. /\ proof.states \in Seq(Held(Keys)) /\ Len(proof.states) >= 1
      /\ proof.momenta \in Seq(Held(Parameters) \cup Held({})) /\ Len(proof.momenta) >= 1
  BY DEF IsProof
<1>2. FusedHashes(proof.states, proof.momenta, proof.batches)
        = [proof |-> <<HashOf(proof.states).complete, HashOf(proof.momenta).complete, proof.batches>>,
           checkpoint |-> HashOf(proof.states).checkpoint,
           optimizer |-> HashOf(proof.momenta).complete]
  BY Zenon DEF FusedHashes, HashOf, HashUpTo
<1> DEFINE s == proof.states
           m == proof.momenta
<1> HIDE DEF s, m
<1>3. HashOf(s) = [complete |-> FeedAll(s), checkpoint |-> FeedAll(Tail(s))]
  BY <1>1, HashIs DEF s
<1>4. HashOf(m) = [complete |-> FeedAll(m), checkpoint |-> FeedAll(Tail(m))]
  BY <1>1, HashIs DEF m
<1>5. HashOf(s).complete = FeedAll(s) /\ HashOf(s).checkpoint = FeedAll(Tail(s)) /\ HashOf(m).complete = FeedAll(m)
  BY <1>3, <1>4
<1> QED  BY <1>2, <1>5 DEF ComponentHashes, s, m

-------------------------------------------------------------------------------
(* What can be checked of a proof without training                         *)

\* What can be checked of a proof without training, coordinate by coordinate.
Follows(after, before, momentum) ==
  \A key \in Parameters : \A ix \in Shapes[key] :
    Distance(after[key][ix], before[key][ix] - momentum[key][ix]) <= Tolerance
LEMMA PublicIs ==
  ASSUME NEW proof, IsProof(proof)
  PROVE  SgdPublicConsistency(proof) <=>
           \A k \in 2..(Len(proof.batches) + 1) : Follows(proof.states[k], proof.states[k - 1], proof.momenta[k])
<1> DEFINE n == Len(proof.batches) + 1
<1>1. Len(proof.states) = n
  BY DEF IsProof
<1>2. \A k \in 2..n : Shaped(proof.momenta[k], Parameters)
  BY ProofFacts
<1> HIDE DEF n
<1>3. \A k \in 2..n : DOMAIN proof.momenta[k] = Parameters
  BY <1>2, ShapedFacts
<1>4. \A k \in 2..n : \A key \in Parameters : DOMAIN proof.momenta[k][key] = Shapes[key]
  <2> SUFFICES ASSUME NEW k \in 2..n, NEW key \in Parameters PROVE DOMAIN proof.momenta[k][key] = Shapes[key]
    OBVIOUS
  <2>1. proof.momenta[k][key] \in [Shapes[key] -> Int]
    BY <1>2, ShapedFacts
  <2> QED  BY <2>1
<1>5. SgdPublicConsistency(proof) <=>
        \A k \in 2..n : \A key \in Parameters : \A ix \in Shapes[key] :
          Distance(proof.states[k][key][ix], proof.states[k - 1][key][ix] - proof.momenta[k][key][ix]) <= Tolerance
  BY <1>1, <1>3, <1>4 DEF SgdPublicConsistency
<1> QED  BY <1>5, Zenon DEF Follows, n

\* A wrapper hides nothing that can be checked without training.
LEMMA PublicMoves ==
  ASSUME NEW proof, IsProof(proof), SgdPublicConsistency(proof), NEW plan, Whole(plan)
  PROVE  SgdPublicConsistency(TransformProof(proof, plan))
<1> DEFINE n == Len(proof.batches) + 1
           T == TransformProof(proof, plan)
<1>1. /\ IsProof(T) /\ T.batches = proof.batches
      /\ \A k \in 1..n : /\ T.states[k] = TransformState(proof.states[k], plan)
                         /\ T.momenta[k] = TransformState(proof.momenta[k], plan)
  BY TransformedProof
<1>2. \A k \in 2..n : Follows(proof.states[k], proof.states[k - 1], proof.momenta[k])
  BY PublicIs
<1> HIDE DEF T
<1>3. ASSUME NEW k \in 2..n PROVE Follows(T.states[k], T.states[k - 1], T.momenta[k])
  <2> DEFINE s == proof.states[k]
             r == proof.states[k - 1]
             m == proof.momenta[k]
  <2>1. k \in 1..n /\ k - 1 \in 1..n
    BY ProofFacts
  <2>2. Shaped(s, Keys) /\ Shaped(r, Keys) /\ Shaped(m, Parameters)
    BY <2>1, ProofFacts
  <2>3. T.states[k] = TransformState(s, plan) /\ T.states[k - 1] = TransformState(r, plan)
        /\ T.momenta[k] = TransformState(m, plan)
    BY <1>1, <2>1
  <2>4. Follows(s, r, m)
    BY <1>2
  <2>5. Parameters \subseteq Keys /\ Keys \subseteq Keys /\ IsPlan(plan)
    BY KeysAre DEF Whole
  <2> HIDE DEF s, r, m
  <2>6. /\ Shaped(TransformState(s, plan), Keys)
        /\ \A key \in Keys : \A at \in Shapes[key] : TransformState(s, plan)[key][at] = s[key][Selected(plan, key, at)]
    BY <2>2, <2>5, Transformed
  <2>7. /\ Shaped(TransformState(r, plan), Keys)
        /\ \A key \in Keys : \A at \in Shapes[key] : TransformState(r, plan)[key][at] = r[key][Selected(plan, key, at)]
    BY <2>2, <2>5, Transformed, SMTT(30)
  <2>8. /\ Shaped(TransformState(m, plan), Parameters)
        /\ \A key \in Parameters : \A at \in Shapes[key] :
             TransformState(m, plan)[key][at] = m[key][Selected(plan, key, at)]
    BY <2>2, <2>5, Transformed
  <2>9. \A key \in Keys : \A at \in Shapes[key] : Selected(plan, key, at) \in Shapes[key]
    BY <2>5, SelectedStays
  <2>10. ASSUME NEW key \in Parameters, NEW at \in Shapes[key]
         PROVE  Distance(T.states[k][key][at], T.states[k - 1][key][at] - T.momenta[k][key][at]) <= Tolerance
    <3>1. key \in Keys /\ Selected(plan, key, at) \in Shapes[key]
      BY <2>5, <2>9
    <3>2. Distance(s[key][Selected(plan, key, at)],
                   r[key][Selected(plan, key, at)] - m[key][Selected(plan, key, at)]) <= Tolerance
      BY <2>4, <3>1 DEF Follows
    <3>3. T.states[k][key][at] = s[key][Selected(plan, key, at)]
      BY <2>3, <2>6, <3>1
    <3>4. T.states[k - 1][key][at] = r[key][Selected(plan, key, at)]
      BY <2>3, <2>7, <3>1
    <3>5. T.momenta[k][key][at] = m[key][Selected(plan, key, at)]
      BY <2>3, <2>8
    <3> QED  BY <3>2, <3>3, <3>4, <3>5
  <2> QED  BY <2>10 DEF Follows
<1>4. SgdPublicConsistency(T)
  BY <1>1, <1>3, PublicIs
<1> QED  BY <1>4 DEF T

\* One coordinate of a tensor replaced; one of a recorded state.
LEMMA TensorReplaced ==
  ASSUME NEW keys, NEW s, Shaped(s, keys), NEW key \in keys, NEW ix \in Shapes[key], NEW v \in Int
  PROVE  /\ Shaped([s EXCEPT ![key][ix] = v], keys)
         /\ \A k \in keys : \A x \in Shapes[k] :
              [s EXCEPT ![key][ix] = v][k][x] = IF k = key /\ x = ix THEN v ELSE s[k][x]
<1> DEFINE r == [s EXCEPT ![key][ix] = v]
<1>1. DOMAIN s = keys /\ \A k \in keys : s[k] \in [Shapes[k] -> Int]
  BY ShapedFacts
<1>2. r = [k \in keys |-> IF k = key THEN [s[key] EXCEPT ![ix] = v] ELSE s[k]]
  BY <1>1
<1> HIDE DEF r
<1>3. r[key] = [s[key] EXCEPT ![ix] = v] /\ \A k \in keys : k # key => r[k] = s[k]
  BY <1>2
<1>4. r[key] \in [Shapes[key] -> Int] /\ \A x \in Shapes[key] : r[key][x] = IF x = ix THEN v ELSE s[key][x]
  BY <1>1, <1>3
<1>5. r = [k \in keys |-> r[k]]
  BY <1>2
<1>6. \A k \in keys : r[k] \in [Shapes[k] -> Int]
  BY <1>1, <1>3, <1>4
<1>7. Shaped(r, keys)
  BY <1>5, <1>6, Zenon DEF Shaped
<1>8. \A k \in keys : \A x \in Shapes[k] : r[k][x] = IF k = key /\ x = ix THEN v ELSE s[k][x]
  BY <1>3, <1>4
<1> QED  BY <1>7, <1>8 DEF r

Replaces(M, proof, n, key, ix, v) ==
  /\ IsProof(M) /\ M.momenta = proof.momenta /\ M.batches = proof.batches
  /\ \A q \in Keys : \A x \in Shapes[q] :
       M.states[n][q][x] = IF q = key /\ x = ix THEN v ELSE proof.states[n][q][x]
  /\ \A k \in 1..(Len(proof.batches) + 1) : k # n => M.states[k] = proof.states[k]
LEMMA StateReplaced ==
  ASSUME NEW proof, IsProof(proof), NEW k \in 1..Len(proof.batches), NEW key \in Keys, NEW ix \in Shapes[key], NEW v \in Int,
         NEW M, M = [proof EXCEPT !.states[k + 1][key][ix] = v]
  PROVE  Replaces(M, proof, k + 1, key, ix, v)
<1> DEFINE N == Len(proof.batches) + 1
           s == [proof.states[k + 1] EXCEPT ![key][ix] = v]
           states == [proof.states EXCEPT ![k + 1] = s]
<1>1. proof = [states |-> proof.states, momenta |-> proof.momenta, batches |-> proof.batches]
  BY Zenon DEF IsProof
<1>2. /\ N \in Nat /\ DOMAIN proof.states = 1..N /\ k + 1 \in 1..N
      /\ \A n \in 1..N : Shaped(proof.states[n], Keys)
  BY ProofFacts
<1>3. /\ Shaped(s, Keys)
      /\ \A q \in Keys : \A x \in Shapes[q] :
           s[q][x] = IF q = key /\ x = ix THEN v ELSE proof.states[k + 1][q][x]
  <2> DEFINE t == proof.states[k + 1]
  <2>1. Shaped(t, Keys)
    BY <1>2
  <2> HIDE DEF t
  <2>2. /\ Shaped([t EXCEPT ![key][ix] = v], Keys)
        /\ \A q \in Keys : \A x \in Shapes[q] :
             [t EXCEPT ![key][ix] = v][q][x] = IF q = key /\ x = ix THEN v ELSE t[q][x]
    BY <2>1, TensorReplaced
  <2> QED  BY <2>2, Zenon DEF t
<1>4. s \in Held(Keys)
  BY <1>3, HeldAre
<1>5. M = [proof EXCEPT !.states = states]
  OBVIOUS
<1>6. proof.states \in Seq(Held(Keys)) /\ Len(proof.states) = N
  BY DEF IsProof
<1> HIDE DEF s, N
<1>7. /\ states \in Seq(Held(Keys)) /\ Len(states) = N
      /\ states[k + 1] = s /\ \A n \in 1..N : n # k + 1 => states[n] = proof.states[n]
  BY <1>2, <1>4, <1>6
<1> HIDE DEF states
<1>8. M = [states |-> states, momenta |-> proof.momenta, batches |-> proof.batches]
  <2>1. M = [proof EXCEPT !.states = states, !.momenta = proof.momenta]
    <3>1. DOMAIN proof = {"states", "momenta", "batches"}
      BY <1>1
    <3> QED  BY <1>5, <3>1
  <2> QED  BY <1>1, <2>1, ProofReplaced
<1>9. M.states = states /\ M.momenta = proof.momenta /\ M.batches = proof.batches
  BY <1>8
<1>10. IsProof(M)
  BY <1>7, <1>8, <1>9 DEF IsProof, N
<1> QED  BY <1>3, <1>7, <1>9, <1>10 DEF N, Replaces

-------------------------------------------------------------------------------
(* Sources                                                                 *)

\* A step moves its parameters by its momentum.
LEMMA StepFollows ==
  ASSUME NEW at, AtState(at), NEW target \in Int, NEW scale \in Int, NEW key \in Parameters, NEW ix \in Shapes[key]
  PROVE  /\ at.state[key][ix] \in Int
         /\ Step(at, target, scale).momentum[key][ix] \in Int
         /\ Step(at, target, scale).state[key][ix] = at.state[key][ix] - Step(at, target, scale).momentum[key][ix]
<1> DEFINE next == Step(at, target, scale)
<1>1. /\ StepShaped(next)
      /\ next.state[key][ix] = at.state[key][ix] - next.momentum[key][ix]
  BY StepIs
<1> HIDE DEF next
<1>2. Shaped(at.state, Keys) /\ Shaped(next.momentum, Parameters) /\ key \in Keys
  BY <1>1, KeysAre DEF AtState, StepShaped
<1>3. at.state[key] \in [Shapes[key] -> Int] /\ next.momentum[key] \in [Shapes[key] -> Int]
  BY <1>2, ShapedFacts
<1> QED  BY <1>1, <1>3 DEF next

\* So does each step of a run.
LEMMA RunFollows ==
  ASSUME NEW targets \in Seq(Int), NEW first \in Int, NEW from, NEW steps, Runs(steps, from, targets, first),
         NEW k \in 2..(Len(targets) + 1), NEW key \in Parameters, NEW ix \in Shapes[key]
  PROVE  /\ steps[k - 1].state[key][ix] \in Int /\ steps[k].momentum[key][ix] \in Int
         /\ steps[k].state[key][ix] = steps[k - 1].state[key][ix] - steps[k].momentum[key][ix]
<1> DEFINE at == steps[k - 1]
           target == targets[k - 1]
           scale == IF k - 1 = 1 THEN first ELSE FullScale
<1>1. k - 1 \in 1..Len(targets) /\ k - 1 \in 1..(Len(targets) + 1) /\ (k - 1) + 1 = k
  OBVIOUS
<1>2. AtState(at) /\ target \in Int /\ scale \in Int
  <2>1. AtState(at)
    BY <1>1, RunFacts
  <2> QED  BY <1>1, <2>1 DEF FullScale
<1>3. steps[k] = Step(at, target, scale)
  <2>1. steps[(k - 1) + 1] = StepAt(steps[k - 1], targets, first, k - 1)
    BY <1>1, RunFacts
  <2> QED  BY <1>1, <2>1 DEF StepAt
<1> HIDE DEF at, target, scale
<1>4. /\ at.state[key][ix] \in Int /\ Step(at, target, scale).momentum[key][ix] \in Int
      /\ Step(at, target, scale).state[key][ix] = at.state[key][ix] - Step(at, target, scale).momentum[key][ix]
  BY <1>2, StepFollows
<1> QED  BY <1>3, <1>4 DEF at

\* What is recorded of a training from no momentum is a proof, and its own training.
LEMMA RecordedIs ==
  ASSUME NEW origin, Shaped(origin, Keys), NEW targets \in Seq(Int), Len(targets) >= 4
  PROVE  LET steps == ProduceUpdate(origin, <<>>, targets, FullScale)
             proof == Recorded(steps, targets)
         IN /\ IsProof(proof) /\ proof.batches = targets /\ Trained(proof) = steps
            /\ Runs(steps, [state |-> origin, momentum |-> <<>>], targets, FullScale)
            /\ \A k \in 1..(Len(targets) + 1) : proof.states[k] = steps[k].state /\ proof.momenta[k] = steps[k].momentum
<1> DEFINE steps == ProduceUpdate(origin, <<>>, targets, FullScale)
           proof == Recorded(steps, targets)
           from == [state |-> origin, momentum |-> <<>>]
           N == Len(targets) + 1
<1>1. AtState(from)
  BY NoMomentum DEF AtState
<1>2. FullScale \in Int
  BY DEF FullScale
<1>3. Runs(steps, from, targets, FullScale)
  BY <1>1, <1>2, ProduceRuns
<1> HIDE DEF steps
<1>4. /\ DOMAIN steps = 1..N /\ \A k \in 1..N : AtState(steps[k])
      /\ \A k \in 2..N : StepShaped(steps[k])
  BY <1>2, <1>3, RunFacts
<1>5. proof = [states |-> [k \in 1..N |-> steps[k].state], momenta |-> [k \in 1..N |-> steps[k].momentum],
               batches |-> targets]
  BY <1>4 DEF Recorded
<1>6. N \in Nat /\ N - 1 \in Nat /\ 1 \in 1..N /\ \A k \in 2..N : k \in 1..N
  OBVIOUS
<1> HIDE DEF proof, N
<1>7. /\ proof.states = [k \in 1..N |-> steps[k].state] /\ proof.momenta = [k \in 1..N |-> steps[k].momentum]
      /\ proof.batches = targets
  BY <1>5
<1>8. Parameters \subseteq Keys /\ Keys \subseteq Keys /\ {} \subseteq Keys
  BY KeysAre
<1>9. \A k \in 1..N : steps[k].state \in Held(Keys)
  BY <1>4, <1>8, HeldAre DEF AtState
<1>10. \A k \in 1..N : steps[k].momentum \in Held(Parameters) \cup Held({})
  <2> SUFFICES ASSUME NEW k \in 1..N PROVE steps[k].momentum \in Held(Parameters) \cup Held({})
    OBVIOUS
  <2>1. Shaped(steps[k].momentum, Parameters) \/ Shaped(steps[k].momentum, {})
    BY <1>4 DEF AtState
  <2> QED  BY <1>8, <2>1, HeldAre
<1>11. \A k \in 2..N : steps[k].momentum \in Held(Parameters)
  BY <1>4, <1>8, HeldAre DEF StepShaped
<1>12. proof.states \in Seq(Held(Keys)) /\ Len(proof.states) = N
  BY <1>6, <1>7, <1>9
<1>13. proof.momenta \in Seq(Held(Parameters) \cup Held({})) /\ Len(proof.momenta) = N
  BY <1>6, <1>7, <1>10
<1>14. \A k \in 1..N : proof.states[k] = steps[k].state /\ proof.momenta[k] = steps[k].momentum
  BY <1>7
<1>15. IsProof(proof)
  <2>1. proof = [states |-> proof.states, momenta |-> proof.momenta, batches |-> proof.batches]
    BY <1>5, <1>7
  <2>2. \A k \in 2..N : proof.momenta[k] \in Held(Parameters)
    BY <1>6, <1>11, <1>14
  <2> QED  BY <1>7, <1>12, <1>13, <2>1, <2>2 DEF IsProof, N
<1>16. Trained(proof) = steps
  <2>1. steps[1] = from
    BY <1>3 DEF Runs
  <2>2. proof.states[1] = origin /\ proof.momenta[1] = <<>>
    BY <1>6, <1>14, <2>1
  <2> QED  BY <1>7, <2>2, Zenon DEF Trained, steps
<1> QED  BY <1>3, <1>7, <1>14, <1>15, <1>16, Zenon DEF steps, proof, N, from

\* A source is a proof, and one that replays can be checked without training:
\* what its record deviates by is within the tolerance.
LEMMA SourceIs ==
  ASSUME Tolerance \in Nat, NEW origin, Shaped(origin, Keys), NEW targets \in Seq(Int), Len(targets) >= 4,
         NEW j \in 1..Len(targets), NEW place \in Keys, NEW at \in Shapes[place], NEW by \in Int
  PROVE  LET proof == Recorded(ProduceUpdate(origin, <<>>, targets, FullScale), targets)
             recorded == [proof EXCEPT !.states[j + 1][place][at] = @ + by]
         IN /\ IsProof(proof) /\ (Base(proof) => SgdPublicConsistency(proof))
            /\ IsProof(recorded) /\ (Base(recorded) => SgdPublicConsistency(recorded))
<1> DEFINE steps == ProduceUpdate(origin, <<>>, targets, FullScale)
           proof == Recorded(steps, targets)
           N == Len(targets) + 1
           v == proof.states[j + 1][place][at] + by
           recorded == [proof EXCEPT !.states[j + 1][place][at] = v]
<1>1. /\ IsProof(proof) /\ proof.batches = targets /\ Trained(proof) = steps
      /\ Runs(steps, [state |-> origin, momentum |-> <<>>], targets, FullScale)
      /\ \A k \in 1..N : proof.states[k] = steps[k].state /\ proof.momenta[k] = steps[k].momentum
  BY RecordedIs
<1> HIDE DEF steps, proof
<1>2. N \in Nat /\ j + 1 \in 1..N /\ 1 \in 1..N /\ 1 # j + 1 /\ \A k \in 2..N : k \in 1..N /\ k - 1 \in 1..N
  OBVIOUS
<1>3. FullScale \in Int
  BY DEF FullScale
<1>4. \A k \in 2..N : \A key \in Parameters : \A ix \in Shapes[key] :
         /\ steps[k - 1].state[key][ix] \in Int /\ steps[k].momentum[key][ix] \in Int
         /\ steps[k].state[key][ix] = steps[k - 1].state[key][ix] - steps[k].momentum[key][ix]
  BY <1>1, <1>3, RunFollows
<1>5. SgdPublicConsistency(proof)
  <2>1. ASSUME NEW k \in 2..N PROVE Follows(proof.states[k], proof.states[k - 1], proof.momenta[k])
    <3>1. /\ proof.states[k] = steps[k].state /\ proof.states[k - 1] = steps[k - 1].state
          /\ proof.momenta[k] = steps[k].momentum
      BY <1>1, <1>2
    <3>2. ASSUME NEW key \in Parameters, NEW ix \in Shapes[key]
          PROVE  Distance(steps[k].state[key][ix], steps[k - 1].state[key][ix] - steps[k].momentum[key][ix]) <= Tolerance
      <4> DEFINE a == steps[k].state[key][ix]
                 b == steps[k - 1].state[key][ix]
                 m == steps[k].momentum[key][ix]
      <4>1. b \in Int /\ m \in Int /\ a = b - m
        BY <1>4
      <4> HIDE DEF a, b, m
      <4>2. Distance(a, b - m) <= Tolerance
        BY <4>1 DEF Distance
      <4> QED  BY <4>2 DEF a, b, m
    <3> QED  BY <3>1, <3>2 DEF Follows
  <2> QED  BY <1>1, <2>1, PublicIs
<1>6. Shaped(proof.states[j + 1], Keys)
  BY <1>1, <1>2, ProofFacts
<1>7. proof.states[j + 1][place][at] \in Int /\ v \in Int
  <2>1. proof.states[j + 1][place] \in [Shapes[place] -> Int]
    BY <1>6, ShapedFacts
  <2> QED  BY <2>1, SMTT(30)
<1> HIDE DEF v
<1>8. /\ IsProof(recorded) /\ recorded.momenta = proof.momenta /\ recorded.batches = proof.batches
      /\ \A n \in 1..N : n # j + 1 => recorded.states[n] = proof.states[n]
      /\ \A key \in Keys : \A x \in Shapes[key] :
           recorded.states[j + 1][key][x] = IF key = place /\ x = at THEN v ELSE proof.states[j + 1][key][x]
  <2>1. j \in 1..Len(proof.batches) /\ Len(proof.batches) + 1 = N /\ IsProof(proof)
    BY <1>1
  <2>2. recorded = [proof EXCEPT !.states[j + 1][place][at] = v]
    BY Zenon
  <2> HIDE DEF recorded, N
  <2>3. Replaces(recorded, proof, j + 1, place, at, v)
    BY <1>7, <2>1, <2>2, StateReplaced
  <2> QED  BY <2>1, <2>3 DEF Replaces
<1> HIDE DEF recorded
<1>10. Trained(recorded) = steps
  BY <1>1, <1>2, <1>8 DEF Trained
<1>11. ASSUME Base(recorded) PROVE SgdPublicConsistency(recorded)
  <2>1. Close(steps[j + 1].state, recorded.states[j + 1])
    BY <1>1, <1>2, <1>8, <1>10, <1>11 DEF Base
  <2>2. Distance(steps[j + 1].state[place][at], v) <= Tolerance
    <3>1. Shaped(steps[j + 1].state, Keys)
      BY <1>1, <1>2, <1>6
    <3>2. place \in DOMAIN steps[j + 1].state /\ at \in DOMAIN steps[j + 1].state[place]
      BY <3>1, ShapedFacts
    <3>3. Distance(steps[j + 1].state[place][at], recorded.states[j + 1][place][at]) <= Tolerance
      BY <2>1, <3>2 DEF Close
    <3> QED  BY <1>8, <3>3
  <2>3. v = steps[j + 1].state[place][at] + by /\ steps[j + 1].state[place][at] \in Int
    BY <1>1, <1>2, <1>7 DEF v
  <2>4. by <= Tolerance /\ -by <= Tolerance
    <3> DEFINE x == steps[j + 1].state[place][at]
    <3>1. Distance(x, v) <= Tolerance /\ v = x + by /\ x \in Int
      BY <2>2, <2>3
    <3> HIDE DEF x
    <3> QED  BY <3>1 DEF Distance
  <2>5. ASSUME NEW k \in 2..N PROVE Follows(recorded.states[k], recorded.states[k - 1], recorded.momenta[k])
    <3>1. /\ proof.states[k] = steps[k].state /\ proof.states[k - 1] = steps[k - 1].state
          /\ recorded.momenta[k] = steps[k].momentum
      BY <1>1, <1>2, <1>8
    <3>2. ASSUME NEW key \in Parameters, NEW ix \in Shapes[key]
          PROVE  Distance(recorded.states[k][key][ix],
                          recorded.states[k - 1][key][ix] - recorded.momenta[k][key][ix]) <= Tolerance
      <4> DEFINE a == steps[k].state[key][ix]
                 b == steps[k - 1].state[key][ix]
                 m == steps[k].momentum[key][ix]
      <4>1. b \in Int /\ m \in Int /\ a = b - m /\ a \in Int
        <5>1. b \in Int /\ m \in Int /\ a = b - m
          BY <1>4
        <5> HIDE DEF a, b, m
        <5> QED  BY <5>1
      <4>2. recorded.momenta[k][key][ix] = m
        BY <3>1
      <4>3. key \in Keys
        BY KeysAre
      <4>4. recorded.states[k][key][ix] = a
              \/ (k = j + 1 /\ recorded.states[k][key][ix] = a + by)
        <5>1. k \in 1..N /\ proof.states[k] = steps[k].state
          BY <1>2, <3>1
        <5>2. CASE k # j + 1
          <6>1. recorded.states[k] = proof.states[k]
            BY <1>8, <5>1, <5>2
          <6> QED  BY <5>1, <6>1
        <5>3. CASE k = j + 1
          <6>1. recorded.states[j + 1][key][ix]
                  = IF key = place /\ ix = at THEN v ELSE proof.states[j + 1][key][ix]
            BY <1>8, <4>3
          <6>2. CASE key = place /\ ix = at
            BY <2>3, <5>3, <6>1, <6>2
          <6>3. CASE ~(key = place /\ ix = at)
            BY <5>1, <5>3, <6>1, <6>3
          <6> QED  BY <6>2, <6>3
        <5> QED  BY <5>2, <5>3
      <4>5. recorded.states[k - 1][key][ix] = b
              \/ (k - 1 = j + 1 /\ recorded.states[k - 1][key][ix] = b + by)
        <5>1. k - 1 \in 1..N /\ proof.states[k - 1] = steps[k - 1].state
          BY <1>2, <3>1
        <5>2. CASE k - 1 # j + 1
          <6>1. recorded.states[k - 1] = proof.states[k - 1]
            BY <1>8, <5>1, <5>2
          <6> QED  BY <5>1, <6>1
        <5>3. CASE k - 1 = j + 1
          <6>1. recorded.states[j + 1][key][ix]
                  = IF key = place /\ ix = at THEN v ELSE proof.states[j + 1][key][ix]
            BY <1>8, <4>3
          <6>2. CASE key = place /\ ix = at
            BY <2>3, <5>3, <6>1, <6>2
          <6>3. CASE ~(key = place /\ ix = at)
            BY <5>1, <5>3, <6>1, <6>3
          <6> QED  BY <6>2, <6>3
        <5> QED  BY <5>2, <5>3
      <4> DEFINE x == recorded.states[k][key][ix]
                 y == recorded.states[k - 1][key][ix]
      <4>6. (x = a /\ y = b) \/ (x = a + by /\ y = b) \/ (x = a /\ y = b + by)
        <5>1. ~(k = j + 1 /\ k - 1 = j + 1)
          OBVIOUS
        <5> QED  BY <4>4, <4>5, <5>1
      <4> HIDE DEF a, b, m, x, y
      <4>7. Distance(x, y - m) <= Tolerance
        BY <2>4, <4>1, <4>6, SMTT(30) DEF Distance
      <4> QED  BY <4>2, <4>7 DEF x, y
    <3> QED  BY <3>2 DEF Follows
  <2> QED  BY <1>1, <1>8, <2>5, PublicIs
<1>12. recorded = [proof EXCEPT !.states[j + 1][place][at] = @ + by]
  BY DEF recorded, v
<1> QED  BY <1>1, <1>5, <1>8, <1>11, <1>12, Zenon DEF proof, steps

-------------------------------------------------------------------------------
(* Mutations                                                               *)

\* A mutation of a proof changes one coordinate of a checkpoint.
IsMutation(m, proof, coherent) ==
  /\ m.k \in 1..Len(proof.batches) /\ m.spot[1] \in Keys /\ m.spot[2] \in Shapes[m.spot[1]]
  /\ m.before = proof.states[m.k + 1][m.spot[1]][m.spot[2]] /\ m.before \in Int /\ m.after \in Int
  /\ coherent => m.spot[1] \in Parameters
\* The mutations the compiler selects, the registered ones precision safe.
LEMMA MutationsAre ==
  ASSUME ProbeAssumption, NEW proof, IsProof(proof), NEW atom, NEW setup, NEW m \in Mutations(proof, atom, setup)
  PROVE  /\ IsMutation(m, proof, setup.mutation = "coherent")
         /\ setup.protocol = "v4" => PrecisionSafe(m)
<1> DEFINE checkpoints == IF setup.mutation = "coherent" THEN 1..(Len(proof.states) - 1) ELSE {CheckpointOf(atom)}
           spots == {s \in Spots : setup.mutation = "coherent" => s[1] \in Parameters}
<1>1. m \in {Mutation(proof, atom, k, spot) : k \in checkpoints, spot \in spots}
      /\ (setup.protocol = "v4" => PrecisionSafe(m))
  BY DEF Mutations
<1>2. PICK k \in checkpoints, spot \in spots : m = Mutation(proof, atom, k, spot)
  BY <1>1
<1>3. k \in 1..Len(proof.batches) /\ Len(proof.batches) \in Nat
  <2>1. Len(proof.batches) \in Nat /\ Len(proof.batches) >= 4 /\ Len(proof.states) = Len(proof.batches) + 1
    BY ProofFacts DEF IsProof
  <2> QED  BY <2>1 DEF CheckpointOf
<1>4. spot[1] \in Keys /\ spot[2] \in Shapes[spot[1]] /\ (setup.mutation = "coherent" => spot[1] \in Parameters)
  BY KeysAre DEF ProbeAssumption
<1> DEFINE before == proof.states[k + 1][spot[1]][spot[2]]
           after == Stored(before + SignOf(atom) * Magnitude)
<1>5. before \in Int
  <2> DEFINE s == proof.states[k + 1]
  <2>1. Shaped(s, Keys)
    BY <1>3, ProofFacts
  <2> HIDE DEF s
  <2>2. s[spot[1]] \in [Shapes[spot[1]] -> Int]
    BY <1>4, <2>1, ShapedFacts
  <2> QED  BY <1>4, <2>2 DEF s
<1> HIDE DEF before
<1>6. after \in Int
  <2>1. ASSUME NEW value \in Int PROVE Stored(value) \in Int
    BY <2>1 DEF Stored, Grain
  <2>2. before + SignOf(atom) * Magnitude \in Int
    BY <1>5 DEF SignOf, ProbeAssumption
  <2> QED  BY <2>1, <2>2
<1>7. m.k = k /\ m.spot = spot /\ m.before = before /\ m.after = after
  BY <1>2 DEF Mutation, before
<1> HIDE DEF after
<1>8. IsMutation(m, proof, setup.mutation = "coherent")
  BY <1>3, <1>4, <1>5, <1>6, <1>7 DEF IsMutation, before
<1> QED  BY <1>1, <1>8

\* The momenta a coherent mutation moves.
Implied(proof, n, key, ix) == proof.states[n - 1][key][ix] - proof.states[n][key][ix]
PreservedMomenta(M, proof, k, key, ix) ==
  /\ IsProof(M) /\ M.states = proof.states /\ M.batches = proof.batches /\ M.momenta[1] = proof.momenta[1]
  /\ \A n \in 2..(Len(proof.batches) + 1) : \A q \in Parameters : \A x \in Shapes[q] :
       M.momenta[n][q][x] = IF n \in {k, k + 1} /\ q = key /\ x = ix THEN Implied(proof, n, key, ix)
                            ELSE proof.momenta[n][q][x]
\* Only the momenta of the coordinate of the mutation move.
LEMMA SgdIdentityPreserved ==
  ASSUME NEW proof, IsProof(proof), NEW m, m.k \in 1..Len(proof.batches),
         m.spot[1] \in Parameters, m.spot[2] \in Shapes[m.spot[1]]
  PROVE  PreservedMomenta(PreserveSgdIdentity(proof, m), proof, m.k + 1, m.spot[1], m.spot[2])
<1> DEFINE N == Len(proof.batches) + 1
           key == m.spot[1]
           ix == m.spot[2]
           k == m.k + 1
           momenta == [n \in 1..N |->
                         IF n \in {k, k + 1} THEN [proof.momenta[n] EXCEPT ![key][ix] = Implied(proof, n, key, ix)]
                                             ELSE proof.momenta[n]]
           M == PreserveSgdIdentity(proof, m)
<1>1. proof = [states |-> proof.states, momenta |-> proof.momenta, batches |-> proof.batches]
  BY Zenon DEF IsProof
<1>2. /\ N \in Nat /\ DOMAIN proof.momenta = 1..N
      /\ \A n \in 1..N : Shaped(proof.states[n], Keys)
      /\ \A n \in 1..N : Shaped(proof.momenta[n], Parameters) \/ Shaped(proof.momenta[n], {})
      /\ \A n \in 2..N : Shaped(proof.momenta[n], Parameters)
  BY ProofFacts
<1>3. M = [proof EXCEPT !.momenta = momenta]
  BY <1>2, Zenon DEF PreserveSgdIdentity, Implied
<1>4. k \in Nat /\ k >= 2 /\ key \in Parameters /\ ix \in Shapes[key] /\ Parameters \subseteq Keys
  BY KeysAre
<1> HIDE DEF M, N, k, key, ix
<1>5. \A n \in 2..N : Implied(proof, n, key, ix) \in Int
  <2> SUFFICES ASSUME NEW n \in 2..N PROVE Implied(proof, n, key, ix) \in Int
    OBVIOUS
  <2>1. n \in 1..N /\ n - 1 \in 1..N /\ key \in Keys
    BY <1>2, <1>4
  <2>2. proof.states[n][key] \in [Shapes[key] -> Int] /\ proof.states[n - 1][key] \in [Shapes[key] -> Int]
    BY <1>2, <2>1, ShapedFacts
  <2> QED  BY <1>4, <2>2 DEF Implied
<1>6. ASSUME NEW n \in 2..N
      PROVE  /\ Shaped(momenta[n], Parameters)
             /\ \A q \in Parameters : \A x \in Shapes[q] :
                  momenta[n][q][x] = IF n \in {k, k + 1} /\ q = key /\ x = ix THEN Implied(proof, n, key, ix)
                                     ELSE proof.momenta[n][q][x]
  <2> DEFINE v == Implied(proof, n, key, ix)
             t == proof.momenta[n]
  <2>1. v \in Int /\ Shaped(t, Parameters) /\ n \in 1..N
    BY <1>2, <1>5
  <2>2. momenta[n] = IF n \in {k, k + 1} THEN [t EXCEPT ![key][ix] = v] ELSE t
    BY <2>1
  <2> HIDE DEF v, t, momenta
  <2>3. /\ Shaped([t EXCEPT ![key][ix] = v], Parameters)
        /\ \A q \in Parameters : \A x \in Shapes[q] :
             [t EXCEPT ![key][ix] = v][q][x] = IF q = key /\ x = ix THEN v ELSE t[q][x]
    BY <1>4, <2>1, TensorReplaced
  <2>4. CASE n \in {k, k + 1}
    <3>1. momenta[n] = [t EXCEPT ![key][ix] = v]
      BY <2>2, <2>4
    <3> QED  BY <2>3, <2>4, <3>1 DEF v, t
  <2>5. CASE n \notin {k, k + 1}
    <3>1. momenta[n] = t
      BY <2>2, <2>5
    <3> QED  BY <2>1, <2>5, <3>1 DEF v, t
  <2> QED  BY <2>4, <2>5
<1>7. 1 \in 1..N /\ 1 \notin {k, k + 1} /\ momenta[1] = proof.momenta[1] /\ N - 1 \in Nat
  <2>1. 1 \in 1..N /\ N - 1 \in Nat
    BY ProofFacts DEF N
  <2> QED  BY <1>4, <2>1
<1>8. \A n \in 2..N : momenta[n] \in Held(Parameters)
  BY <1>4, <1>6, HeldAre
<1>9. proof.momenta \in Seq(Held(Parameters) \cup Held({})) /\ Len(proof.momenta) = N
  BY DEF IsProof, N
<1>10. momenta \in Seq(Held(Parameters) \cup Held({})) /\ Len(momenta) = N
  <2>1. \A n \in 1..N : n = 1 \/ n \in 2..N
    BY <1>2
  <2>2. proof.momenta[1] \in Held(Parameters) \cup Held({})
    BY <1>7, <1>9
  <2>3. \A n \in 1..N : momenta[n] \in Held(Parameters) \cup Held({})
    BY <1>7, <1>8, <2>1, <2>2
  <2>4. momenta \in [1..N -> Held(Parameters) \cup Held({})]
    BY <2>3
  <2> HIDE DEF momenta
  <2> QED  BY <1>2, <2>4
<1> HIDE DEF momenta
<1>11. M = [states |-> proof.states, momenta |-> momenta, batches |-> proof.batches]
  <2>1. M = [proof EXCEPT !.states = proof.states, !.momenta = momenta]
    <3>1. DOMAIN proof = {"states", "momenta", "batches"}
      BY <1>1
    <3> QED  BY <1>3, <3>1
  <2> QED  BY <1>1, <2>1, ProofReplaced
<1>12. M.states = proof.states /\ M.momenta = momenta /\ M.batches = proof.batches
  BY <1>11
<1>13. IsProof(M)
  BY <1>8, <1>10, <1>11, <1>12 DEF IsProof, N
<1>14. \A n \in 2..N : \A q \in Parameters : \A x \in Shapes[q] :
         M.momenta[n][q][x] = IF n \in {k, k + 1} /\ q = key /\ x = ix THEN Implied(proof, n, key, ix)
                              ELSE proof.momenta[n][q][x]
  BY <1>6, <1>12
<1>15. PreservedMomenta(M, proof, k, key, ix)
  BY <1>7, <1>12, <1>13, <1>14 DEF PreservedMomenta, N
<1> QED  BY <1>15 DEF M, k, key, ix

\* A mutation leaves the training of a proof as it was, and a replay refuses it.
LEMMA MutatedIs ==
  ASSUME Tolerance \in Nat, NEW proof, IsProof(proof), NEW m, NEW setup, IsMutation(m, proof, setup.mutation = "coherent")
  PROVE  /\ IsProof(MutateProof(proof, m, setup))
         /\ Base(proof) /\ Observed(m) - Tolerance > Tolerance => ~Base(MutateProof(proof, m, setup))
         /\ SgdPublicConsistency(proof) /\ setup.mutation = "coherent" => SgdPublicConsistency(MutateProof(proof, m, setup))
<1> DEFINE N == Len(proof.batches) + 1
           key == m.spot[1]
           ix == m.spot[2]
           k == m.k + 1
           mutated == [proof EXCEPT !.states[m.k + 1][m.spot[1]][m.spot[2]] = m.after]
           c == MutateProof(proof, m, setup)
<1>1. /\ m.k \in 1..Len(proof.batches) /\ key \in Keys /\ ix \in Shapes[key]
      /\ m.before = proof.states[k][key][ix] /\ m.before \in Int /\ m.after \in Int
      /\ (setup.mutation = "coherent" => key \in Parameters)
  BY DEF IsMutation
<1>2. Replaces(mutated, proof, k, key, ix, m.after)
  BY <1>1, StateReplaced
<1>3. c = IF setup.mutation = "coherent" THEN PreserveSgdIdentity(mutated, m) ELSE mutated
  BY DEF MutateProof
<1> HIDE DEF mutated, c
<1>4. N \in Nat /\ 1 \in 1..N /\ k \in 2..N /\ \A n \in 2..N : n \in 1..N /\ n - 1 \in 1..N
  <2>1. Len(proof.batches) \in Nat
    BY ProofFacts
  <2> QED  BY <1>1, <2>1
<1>5. /\ IsProof(mutated) /\ mutated.momenta = proof.momenta /\ mutated.batches = proof.batches
      /\ \A q \in Keys : \A x \in Shapes[q] :
           mutated.states[k][q][x] = IF q = key /\ x = ix THEN m.after ELSE proof.states[k][q][x]
      /\ \A n \in 1..N : n # k => mutated.states[n] = proof.states[n]
  BY <1>2 DEF Replaces, N
<1>6. ASSUME setup.mutation = "coherent"
      PROVE  /\ IsProof(c) /\ c.states = mutated.states /\ c.batches = proof.batches /\ c.momenta[1] = proof.momenta[1]
             /\ (SgdPublicConsistency(proof) => SgdPublicConsistency(c))
  <2>1. PreservedMomenta(PreserveSgdIdentity(mutated, m), mutated, m.k + 1, m.spot[1], m.spot[2])
    BY <1>1, <1>5, <1>6, SgdIdentityPreserved
  <2>2. c = PreserveSgdIdentity(mutated, m)
    BY <1>3, <1>6
  <2>3. /\ IsProof(c) /\ c.states = mutated.states /\ c.batches = mutated.batches /\ c.momenta[1] = mutated.momenta[1]
        /\ \A n \in 2..N : \A q \in Parameters : \A x \in Shapes[q] :
             c.momenta[n][q][x] = IF n \in {k, k + 1} /\ q = key /\ x = ix THEN Implied(mutated, n, key, ix)
                                  ELSE mutated.momenta[n][q][x]
    BY <1>5, <2>1, <2>2 DEF PreservedMomenta, N
  <2>4. ASSUME SgdPublicConsistency(proof) PROVE SgdPublicConsistency(c)
    <3>1. \A n \in 2..N : Follows(proof.states[n], proof.states[n - 1], proof.momenta[n])
      BY <2>4, PublicIs DEF N
    <3>2. ASSUME NEW n \in 2..N, NEW q \in Parameters, NEW x \in Shapes[q]
          PROVE  Distance(c.states[n][q][x], c.states[n - 1][q][x] - c.momenta[n][q][x]) <= Tolerance
      <4>1. q \in Keys /\ n \in 1..N /\ n - 1 \in 1..N /\ Parameters \subseteq Keys
        BY <1>4, KeysAre
      <4>2. CASE n \in {k, k + 1} /\ q = key /\ x = ix
        <5> DEFINE a == c.states[n][q][x]
                   b == c.states[n - 1][q][x]
        <5>1. c.momenta[n][q][x] = b - a
          BY <2>3, <4>2 DEF Implied
        <5>2. a \in Int /\ b \in Int
          <6>1. Shaped(c.states[n], Keys) /\ Shaped(c.states[n - 1], Keys)
            BY <1>5, <2>3, <4>1, ProofFacts DEF N
          <6>2. c.states[n][q] \in [Shapes[q] -> Int] /\ c.states[n - 1][q] \in [Shapes[q] -> Int]
            BY <4>1, <6>1, ShapedFacts
          <6> QED  BY <6>2
        <5> HIDE DEF a, b
        <5>3. Distance(a, b - (b - a)) <= Tolerance
          BY <5>2 DEF Distance
        <5> QED  BY <5>1, <5>3 DEF a, b
      <4>3. CASE ~(n \in {k, k + 1} /\ q = key /\ x = ix)
        <5>1. c.momenta[n][q][x] = proof.momenta[n][q][x]
          BY <1>5, <2>3, <4>3
        <5>2. c.states[n][q][x] = proof.states[n][q][x]
          <6>1. CASE n # k
            BY <1>5, <2>3, <4>1, <6>1
          <6>2. CASE n = k
            BY <1>5, <2>3, <4>1, <4>3, <6>2
          <6> QED  BY <6>1, <6>2
        <5>3. c.states[n - 1][q][x] = proof.states[n - 1][q][x]
          <6>1. CASE n - 1 # k
            BY <1>5, <2>3, <4>1, <6>1
          <6>2. CASE n - 1 = k
            <7>1. n = k + 1
              BY <1>4, <6>2
            <7> QED  BY <1>5, <2>3, <4>1, <4>3, <6>2, <7>1
          <6> QED  BY <6>1, <6>2
        <5>4. Distance(proof.states[n][q][x], proof.states[n - 1][q][x] - proof.momenta[n][q][x]) <= Tolerance
          BY <3>1 DEF Follows
        <5> QED  BY <5>1, <5>2, <5>3, <5>4
      <4> QED  BY <4>2, <4>3
    <3>3. \A n \in 2..N : Follows(c.states[n], c.states[n - 1], c.momenta[n])
      BY <3>2 DEF Follows
    <3> QED  BY <1>5, <2>3, <3>3, PublicIs DEF N
  <2> QED  BY <1>5, <2>3, <2>4
<1>8. /\ IsProof(c) /\ c.states = mutated.states /\ c.batches = proof.batches /\ c.momenta[1] = proof.momenta[1]
      /\ (SgdPublicConsistency(proof) /\ setup.mutation = "coherent" => SgdPublicConsistency(c))
  <2>1. CASE setup.mutation = "coherent"
    BY <1>6, <2>1
  <2>2. CASE setup.mutation # "coherent"
    BY <1>3, <1>5, <2>2
  <2> QED  BY <2>1, <2>2
<1>9. ASSUME Base(proof), Observed(m) - Tolerance > Tolerance PROVE ~Base(c)
  <2> SUFFICES ASSUME Base(c) PROVE FALSE
    OBVIOUS
  <2>1. Trained(c) = Trained(proof)
    <3>1. 1 # k /\ c.states[1] = proof.states[1]
      BY <1>4, <1>5, <1>8
    <3> QED  BY <1>8, <3>1 DEF Trained
  <2> DEFINE s == Trained(proof)[k].state
             r == proof.states[k]
             t == c.states[k]
  <2>2. Close(s, r)
    BY <1>4, <1>9 DEF Base, N
  <2>3. Close(s, t)
    BY <1>4, <1>8, <2>1 DEF Base, N
  <2>4. StepShaped(Trained(proof)[k])
    <3>1. FullScale \in Int /\ proof.batches \in Seq(Int)
      BY DEF FullScale, IsProof
    <3>2. Runs(Trained(proof), Start(proof), proof.batches, FullScale)
      BY TrainedRuns
    <3> QED  BY <1>4, <3>1, <3>2, RunFacts DEF N
  <2>5. Shaped(s, Keys)
    BY <2>4 DEF StepShaped
  <2>6. t[key][ix] = m.after /\ r[key][ix] = m.before
    <3>1. \A q \in Keys : \A x \in Shapes[q] :
            mutated.states[k][q][x] = IF q = key /\ x = ix THEN m.after ELSE proof.states[k][q][x]
      BY <1>5
    <3>2. key \in Keys /\ ix \in Shapes[key] /\ r[key][ix] = m.before
      BY <1>1
    <3>3. mutated.states[k][key][ix] = m.after
      BY <3>1, <3>2
    <3>4. t = mutated.states[k]
      BY <1>8
    <3> QED  BY <3>2, <3>3, <3>4
  <2> HIDE DEF s, r, t
  <2>7. key \in DOMAIN s /\ s[key] \in [Shapes[key] -> Int]
    BY <1>1, <2>5, ShapedFacts
  <2>8. ix \in DOMAIN s[key] /\ s[key][ix] \in Int
    BY <1>1, <2>7
  <2>9. Distance(s[key][ix], r[key][ix]) <= Tolerance /\ Distance(s[key][ix], t[key][ix]) <= Tolerance
    BY <2>2, <2>3, <2>7, <2>8 DEF Close
  <2> DEFINE v == s[key][ix]
             a == m.after
             b == m.before
  <2>10. v \in Int /\ a \in Int /\ b \in Int /\ Distance(v, b) <= Tolerance /\ Distance(v, a) <= Tolerance
         /\ Distance(a, b) - Tolerance > Tolerance
    BY <1>1, <1>9, <2>6, <2>8, <2>9 DEF Observed
  <2> HIDE DEF v, a, b
  <2> QED  BY <2>10 DEF Distance
<1> QED  BY <1>8, <1>9 DEF c

-------------------------------------------------------------------------------
(* Continuations                                                           *)

\* c is in Seq(S): the first k elements of a, then those of b after its first.
Joins(c, S, a, b, k) ==
  /\ c \in Seq(S) /\ Len(c) = k + (Len(b) - 1)
  /\ \A n \in 1..k : c[n] = a[n]
  /\ \A n \in (k + 1)..(k + (Len(b) - 1)) : c[n] = b[(n - k) + 1]

\* The record of a continuation begins as its source.
LEMMA JoinedIs ==
  ASSUME NEW S, NEW a \in Seq(S), NEW b \in Seq(S), NEW k \in 1..Len(a), Len(b) >= 1
  PROVE  Joins(SubSeq(a, 1, k) \o Tail(b), S, a, b, k)
<1> USE DEF Joins
<1> DEFINE p == SubSeq(a, 1, k)
           t == Tail(b)
<1>1. p \in Seq(S) /\ Len(p) = k /\ \A n \in 1..k : p[n] = a[n]
  OBVIOUS
<1>2. t \in Seq(S) /\ Len(t) = Len(b) - 1 /\ \A n \in 1..(Len(b) - 1) : t[n] = b[n + 1]
  OBVIOUS
<1>3. k \in Nat /\ Len(b) \in Nat
  OBVIOUS
<1> HIDE DEF p, t
<1>4. p \o t \in Seq(S) /\ Len(p \o t) = k + (Len(b) - 1)
  <2>1. p \o t \in Seq(S) /\ Len(p \o t) = Len(p) + Len(t)
    BY <1>1, <1>2, ConcatProperties
  <2> QED  BY <1>1, <1>2, <2>1
<1>5. \A n \in 1..k : (p \o t)[n] = a[n]
  BY <1>1, <1>2
<1>6. ASSUME NEW n \in (k + 1)..(k + (Len(b) - 1)) PROVE (p \o t)[n] = b[(n - k) + 1]
  <2>1. (p \o t)[n] = t[n - k]
    BY <1>1, <1>2, <1>3
  <2>2. n - k \in 1..(Len(b) - 1)
    BY <1>3
  <2> QED  BY <1>2, <2>1, <2>2
<1> QED  BY <1>4, <1>5, <1>6 DEF p, t

\* Training on from a checkpoint gives a proof, as consistent as its source.
LEMMA ContinuationIs ==
  ASSUME Tolerance \in Nat, NEW proof, IsProof(proof), NEW k \in 1..4
  PROVE  /\ IsProof(GradientContinuation(proof, k))
         /\ SgdPublicConsistency(proof) => SgdPublicConsistency(GradientContinuation(proof, k))
<1> DEFINE L == Len(proof.batches)
           targets == SubSeq(proof.batches, k, L)
           from == [state |-> proof.states[k], momentum |-> proof.momenta[k]]
           suffix == ProduceUpdate(proof.states[k], proof.momenta[k], targets, SmallerScale)
           M == Len(targets) + 1
           sr == [n \in 1..M |-> suffix[n].state]
           mr == [n \in 1..M |-> suffix[n].momentum]
           states == SubSeq(proof.states, 1, k) \o Tail(sr)
           momenta == SubSeq(proof.momenta, 1, k) \o Tail(mr)
           c == GradientContinuation(proof, k)
<1>1. /\ proof = [states |-> proof.states, momenta |-> proof.momenta, batches |-> proof.batches]
      /\ proof.batches \in Seq(Int)
  BY Zenon DEF IsProof
<1>2. L \in Nat /\ L >= 4 /\ k \in 1..L /\ k \in 1..(L + 1)
  BY ProofFacts DEF IsProof
<1>3. /\ proof.states \in Seq(Held(Keys)) /\ Len(proof.states) = L + 1
      /\ proof.momenta \in Seq(Held(Parameters) \cup Held({})) /\ Len(proof.momenta) = L + 1
      /\ \A n \in 2..(L + 1) : proof.momenta[n] \in Held(Parameters)
  BY DEF IsProof
<1>4. targets \in Seq(Int) /\ Len(targets) = (L - k) + 1
  BY <1>1, <1>2
<1>5. AtState(from)
  <2>1. /\ Shaped(proof.states[k], Keys)
        /\ Shaped(proof.momenta[k], Parameters) \/ Shaped(proof.momenta[k], {})
    BY <1>2, ProofFacts
  <2> QED  BY <2>1 DEF AtState
<1>6. SmallerScale \in Int
  BY DEF SmallerScale
<1> HIDE DEF targets
<1>7. Runs(suffix, from, targets, SmallerScale)
  BY <1>4, <1>5, <1>6, ProduceRuns
<1>8. c = [proof EXCEPT !.states = SubSeq(proof.states, 1, k) \o Tail([n \in DOMAIN suffix |-> suffix[n].state]),
                        !.momenta = SubSeq(proof.momenta, 1, k) \o Tail([n \in DOMAIN suffix |-> suffix[n].momentum])]
  BY Zenon DEF GradientContinuation, targets
<1> HIDE DEF suffix, c
<1>9. /\ DOMAIN suffix = 1..M /\ (\A n \in 1..M : AtState(suffix[n])) /\ \A n \in 2..M : StepShaped(suffix[n])
  BY <1>4, <1>6, <1>7, RunFacts
<1>10. suffix[1] = from
  BY <1>7 DEF Runs
<1>11. M \in Nat /\ M = (L - k) + 2 /\ M >= 2
  BY <1>2, <1>4
<1> HIDE DEF M
<1>12. Parameters \subseteq Keys /\ Keys \subseteq Keys /\ {} \subseteq Keys
  BY KeysAre
<1>13. \A n \in 1..M : suffix[n].state \in Held(Keys)
  BY <1>9, <1>12, HeldAre DEF AtState
<1>14. \A n \in 1..M : suffix[n].momentum \in Held(Parameters) \cup Held({})
  <2> SUFFICES ASSUME NEW n \in 1..M PROVE suffix[n].momentum \in Held(Parameters) \cup Held({})
    OBVIOUS
  <2>1. Shaped(suffix[n].momentum, Parameters) \/ Shaped(suffix[n].momentum, {})
    BY <1>9 DEF AtState
  <2> QED  BY <1>12, <2>1, HeldAre
<1>15. \A n \in 2..M : suffix[n].momentum \in Held(Parameters)
  BY <1>9, <1>12, HeldAre DEF StepShaped
<1>16. sr \in Seq(Held(Keys)) /\ Len(sr) = M /\ \A n \in 1..M : sr[n] = suffix[n].state
  BY <1>11, <1>13
<1>17. mr \in Seq(Held(Parameters) \cup Held({})) /\ Len(mr) = M /\ \A n \in 1..M : mr[n] = suffix[n].momentum
  BY <1>11, <1>14
<1>18. c = [proof EXCEPT !.states = states, !.momenta = momenta]
  BY <1>8, <1>9
<1> HIDE DEF sr, mr, L
<1>19. /\ states \in Seq(Held(Keys)) /\ Len(states) = k + (M - 1)
       /\ (\A n \in 1..k : states[n] = proof.states[n])
       /\ \A n \in (k + 1)..(k + (M - 1)) : states[n] = sr[(n - k) + 1]
  <2>1. k \in 1..Len(proof.states) /\ Len(sr) >= 1
    BY <1>2, <1>3, <1>11, <1>16
  <2> DEFINE a == proof.states
             U == Held(Keys)
  <2>0. a \in Seq(U) /\ sr \in Seq(U) /\ k \in 1..Len(a) /\ Len(sr) >= 1
    BY <1>3, <1>16, <2>1
  <2> HIDE DEF a, U
  <2>2. Joins(SubSeq(a, 1, k) \o Tail(sr), U, a, sr, k)
    BY Zenon, <2>0, JoinedIs
  <2> QED  BY <1>16, <2>2 DEF a, U, Joins
<1>20. /\ momenta \in Seq(Held(Parameters) \cup Held({})) /\ Len(momenta) = k + (M - 1)
       /\ (\A n \in 1..k : momenta[n] = proof.momenta[n])
       /\ \A n \in (k + 1)..(k + (M - 1)) : momenta[n] = mr[(n - k) + 1]
  <2>1. k \in 1..Len(proof.momenta) /\ Len(mr) >= 1
    BY <1>2, <1>3, <1>11, <1>17
  <2> DEFINE a == proof.momenta
             U == Held(Parameters) \cup Held({})
  <2>0. a \in Seq(U) /\ mr \in Seq(U) /\ k \in 1..Len(a) /\ Len(mr) >= 1
    BY <1>3, <1>17, <2>1
  <2> HIDE DEF a, U
  <2>2. Joins(SubSeq(a, 1, k) \o Tail(mr), U, a, mr, k)
    BY Zenon, <2>0, JoinedIs
  <2> QED  BY <1>17, <2>2 DEF a, U, Joins
<1> HIDE DEF states, momenta
<1>21. k + (M - 1) = L + 1 /\ \A n \in (k + 1)..(L + 1) : (n - k) + 1 \in 2..M
  BY <1>2, <1>11
<1>22. \A n \in 2..(L + 1) : momenta[n] \in Held(Parameters)
  <2> SUFFICES ASSUME NEW n \in 2..(L + 1) PROVE momenta[n] \in Held(Parameters)
    OBVIOUS
  <2>1. CASE n \in 1..k
    BY <1>3, <1>20, <2>1
  <2>2. CASE n \notin 1..k
    <3>1. n \in (k + 1)..(L + 1)
      BY <1>2, <2>2
    <3>2. (n - k) + 1 \in 2..M /\ (n - k) + 1 \in 1..M
      BY <1>11, <1>21, <3>1
    <3>3. momenta[n] = suffix[(n - k) + 1].momentum
      BY <1>17, <1>20, <1>21, <3>1, <3>2
    <3> QED  BY <1>15, <3>2, <3>3
  <2> QED  BY <2>1, <2>2
<1>23. c = [states |-> states, momenta |-> momenta, batches |-> proof.batches]
  BY <1>1, <1>18, ProofReplaced
<1>24. c.states = states /\ c.momenta = momenta /\ c.batches = proof.batches
  BY <1>23
<1>25. IsProof(c)
  BY <1>1, <1>2, <1>19, <1>20, <1>21, <1>22, <1>23, <1>24 DEF IsProof, L
<1>26. ASSUME SgdPublicConsistency(proof) PROVE SgdPublicConsistency(c)
  <2>1. \A n \in 2..(L + 1) : Follows(proof.states[n], proof.states[n - 1], proof.momenta[n])
    BY <1>26, PublicIs DEF L
  <2>2. ASSUME NEW n \in 2..(L + 1) PROVE Follows(states[n], states[n - 1], momenta[n])
    <3>1. CASE n \in 1..k
      <4>1. n - 1 \in 1..k
        BY <3>1
      <4>2. states[n] = proof.states[n] /\ states[n - 1] = proof.states[n - 1] /\ momenta[n] = proof.momenta[n]
        BY <1>19, <1>20, <3>1, <4>1
      <4> QED  BY <2>1, <4>2
    <3>2. CASE n \notin 1..k
      <4> DEFINE i == (n - k) + 1
      <4>1. n \in (k + 1)..(L + 1) /\ i \in 2..M /\ i \in 1..M /\ i - 1 \in 1..M /\ i - 1 = n - k
        BY <1>2, <1>11, <1>21, <3>2
      <4> HIDE DEF i
      <4>2. states[n] = suffix[i].state /\ momenta[n] = suffix[i].momentum
        BY <1>16, <1>17, <1>19, <1>20, <1>21, <4>1 DEF i
      <4>3. states[n - 1] = suffix[i - 1].state
        <5>1. CASE n - 1 = k
          <6>1. i - 1 = 1 /\ k \in 1..k
            BY <4>1, <5>1
          <6>2. states[k] = proof.states[k]
            BY <1>19, <6>1
          <6>3. suffix[1].state = proof.states[k]
            BY <1>10
          <6> QED  BY <5>1, <6>1, <6>2, <6>3
        <5>2. CASE n - 1 # k
          <6>1. n - 1 \in (k + 1)..(L + 1) /\ ((n - 1) - k) + 1 = i - 1
            BY <1>2, <4>1, <5>2
          <6>2. states[n - 1] = sr[i - 1]
            BY <1>19, <1>21, <6>1
          <6> QED  BY <1>16, <4>1, <6>2
        <5> QED  BY <5>1, <5>2
      <4>4. ASSUME NEW key \in Parameters, NEW ix \in Shapes[key]
            PROVE  Distance(suffix[i].state[key][ix], suffix[i - 1].state[key][ix] - suffix[i].momentum[key][ix]) <= Tolerance
        <5> DEFINE a == suffix[i].state[key][ix]
                   b == suffix[i - 1].state[key][ix]
                   m == suffix[i].momentum[key][ix]
        <5>1. b \in Int /\ m \in Int /\ a = b - m
          BY <1>4, <1>6, <1>7, <4>1, RunFollows DEF M
        <5> HIDE DEF a, b, m
        <5>2. Distance(a, b - m) <= Tolerance
          BY <5>1 DEF Distance
        <5> QED  BY <5>2 DEF a, b, m
      <4> QED  BY <4>2, <4>3, <4>4 DEF Follows
    <3> QED  BY <3>1, <3>2
  <2> QED  BY <1>24, <1>25, <2>2, PublicIs DEF L
<1> QED  BY <1>25, <1>26 DEF c

-------------------------------------------------------------------------------
(* Bundles                                                                 *)

\* What is known of a candidate when it is compiled.
CandidateFits(setup, role, mutation, candidate) ==
  /\ IsProof(candidate)
  /\ role # "challenge" => candidate = source
  /\ role # "production" => valid
  /\ role = "challenge" /\ setup.mutation # "continuation" =>
       /\ Observed(mutation) \in Nat
       /\ Observed(mutation) - Tolerance > Tolerance => ~Base(candidate)
       /\ setup.protocol = "v4" => PrecisionSafe(mutation)
  /\ role = "challenge" /\ setup.mutation # "suffix" => SgdPublicConsistency(candidate)

PlanOf(setup) == Plan(setup.seed, IF setup.wrapper = "identity" THEN "identity" ELSE "permuted")
Wrapped(setup, candidate) == IF setup.wrapper = "identity" THEN candidate ELSE TransformProof(candidate, PlanOf(setup))

SourceKept ==
  stage # "training" =>
    /\ IsProof(source) /\ valid \in BOOLEAN /\ (valid <=> Base(source)) /\ (valid => SgdPublicConsistency(source))
ExpectedFits(b) == b.expected = (valid /\ b.role # "challenge") \/ (b.role = "production" /\ ~valid)
BundleFits(b) ==
  /\ b.setup \in Setups /\ b.role \in {"production", "control", "challenge"}
  /\ CandidateFits(b.setup, b.role, b.mutation, b.candidate)
  /\ b.wrapped = Wrapped(b.setup, b.candidate)
  /\ b.wrappedHashes = ComponentHashes(b.wrapped)
  /\ b.candidateHashes = ComponentHashes(b.candidate)
       \/ (b.candidateHashes = Deferred /\ b.setup.identity = "deferred" /\ b.role = "challenge")
  /\ ExpectedFits(b)

\* The plan of a setup is one, and known to the verifier.
LEMMA PlanOfIs ==
  ASSUME ProbeAssumption, NEW setup \in Setups
  PROVE  /\ Whole(PlanOf(setup)) /\ Known(PlanOf(setup))
         /\ PlanOf(setup).maps = Plan(PlanOf(setup).seed, PlanOf(setup).mode).maps
         /\ PlanOf(setup).seed = setup.seed
         /\ PlanOf(setup).mode = "identity" <=> setup.wrapper = "identity"
<1> DEFINE mode == IF setup.wrapper = "identity" THEN "identity" ELSE "permuted"
           plan == Plan(setup.seed, mode)
<1>1. setup.seed \in DOMAIN DrawnMaps
  BY DEF ProbeAssumption
<1>2. Whole(plan) /\ plan.seed = setup.seed /\ plan.mode = mode
  <2> HIDE DEF mode
  <2> QED  BY <1>1, PlansAreWhole
<1>3. mode = "identity" <=> setup.wrapper = "identity"
  OBVIOUS
<1> HIDE DEF mode
<1>4. plan.maps = Plan(plan.seed, plan.mode).maps
  BY <1>2
<1> HIDE DEF plan
<1>5. Known(plan)
  BY <1>1, <1>2 DEF Known, Whole
<1>6. PlanOf(setup) = plan
  BY Zenon DEF PlanOf, plan, mode
<1> QED  BY <1>2, <1>3, <1>4, <1>5, <1>6

\* A wrapped candidate says what the candidate does, and unwraps to it.
LEMMA WrappedIs ==
  ASSUME ProbeAssumption, NEW setup \in Setups, NEW candidate, IsProof(candidate)
  PROVE  /\ IsProof(Wrapped(setup, candidate))
         /\ Base(Wrapped(setup, candidate)) <=> Base(candidate)
         /\ SgdPublicConsistency(candidate) => SgdPublicConsistency(Wrapped(setup, candidate))
         /\ Canonicalize(Wrapped(setup, candidate), PlanOf(setup)) = candidate
<1>1. Whole(PlanOf(setup)) /\ (PlanOf(setup).mode = "identity" <=> setup.wrapper = "identity")
  BY PlanOfIs
<1> DEFINE plan == PlanOf(setup)
<1>2. CASE setup.wrapper = "identity"
  BY <1>1, <1>2 DEF Wrapped, Canonicalize
<1>3. CASE setup.wrapper # "identity"
  <2>1. Wrapped(setup, candidate) = TransformProof(candidate, plan)
    BY <1>3 DEF Wrapped
  <2>2. \A proof : Canonicalize(proof, plan) = TransformProof(proof, InversePlan(plan))
    BY <1>1, <1>3 DEF Canonicalize
  <2> HIDE DEF plan
  <2>3. IsProof(TransformProof(candidate, plan)) /\ (Base(TransformProof(candidate, plan)) <=> Base(candidate))
    BY <1>1, TransformedProof, BaseMoves DEF plan
  <2>4. SgdPublicConsistency(candidate) => SgdPublicConsistency(TransformProof(candidate, plan))
    BY <1>1, PublicMoves DEF plan
  <2>5. TransformProof(TransformProof(candidate, plan), InversePlan(plan)) = candidate
    BY <1>1, ProofRestored DEF plan
  <2> QED  BY <2>1, <2>2, <2>3, <2>4, <2>5 DEF plan
<1> QED  BY <1>2, <1>3

\* Whatever plan a verifier inverts, its replay says what the proof does.
LEMMA AnswersAre ==
  ASSUME ProbeAssumption, NEW proof, IsProof(proof), NEW plan, Whole(plan)
  PROVE  /\ StreamedReplay(proof, plan) <=> Base(proof)
         /\ Replays(Canonicalize(proof, plan)) <=> Base(proof)
         /\ CanonicalHashes(proof, plan) = ComponentHashes(Canonicalize(proof, plan))
<1>1. Whole(AsItIs) /\ Whole(InversePlan(plan))
  <2>1. Whole(AsItIs)
    BY PlansAreWhole DEF AsItIs
  <2> QED  BY <2>1, ProofRestored
<1> DEFINE inv == InversePlan(plan)
<1> HIDE DEF inv
<1>2. IsProof(TransformProof(proof, inv)) /\ (Base(TransformProof(proof, inv)) <=> Base(proof))
  BY <1>1, TransformedProof, BaseMoves DEF inv
<1>3. (VerifyReplayProof(proof, AsItIs) <=> Base(proof)) /\ (VerifyReplayProof(proof, inv) <=> Base(proof))
  BY <1>1, ReplayIs DEF inv
<1>4. IsProof(Canonicalize(proof, plan)) /\ (Base(Canonicalize(proof, plan)) <=> Base(proof))
  BY <1>2 DEF Canonicalize, inv
<1>5. StreamedReplay(proof, plan) <=> Base(proof)
  <2>1. CASE plan.mode = "identity"
    BY <1>3, <2>1 DEF StreamedReplay
  <2>2. CASE plan.mode # "identity"
    BY <1>3, <2>2 DEF StreamedReplay, inv
  <2> QED  BY <2>1, <2>2
<1>6. CanonicalHashes(proof, plan) = ComponentHashes(Canonicalize(proof, plan))
  <2>1. CASE plan.mode = "identity"
    BY <2>1 DEF CanonicalHashes, Canonicalize
  <2>2. CASE plan.mode # "identity"
    <3> DEFINE canonical == Canonicalize(proof, plan)
    <3>1. CanonicalHashes(proof, plan) = FusedHashes(canonical.states, canonical.momenta, canonical.batches)
      BY <2>2 DEF CanonicalHashes
    <3> HIDE DEF canonical
    <3> QED  BY <1>4, <3>1, FusedIs DEF canonical
  <2> QED  BY <2>1, <2>2
<1>7. Replays(Canonicalize(proof, plan)) <=> Base(Canonicalize(proof, plan))
  BY <1>4, ReplaysIs
<1> QED  BY <1>4, <1>5, <1>6, <1>7

\* Everything compiled of a fitting candidate fits.
LEMMA BundleIs ==
  ASSUME ProbeAssumption, IsProof(source), valid \in BOOLEAN, NEW setup \in Setups,
         NEW role \in {"production", "control", "challenge"}, NEW atom, NEW mutation, NEW candidate,
         NEW verdictKnown \in BOOLEAN, CandidateFits(setup, role, mutation, candidate)
  PROVE  BundleFits(Bundle(setup, role, atom, mutation, candidate, verdictKnown))
<1> DEFINE b == Bundle(setup, role, atom, mutation, candidate, verdictKnown)
           wrapped == Wrapped(setup, candidate)
           unmodified == role # "challenge"
           fusing == setup.wrapper # "identity" /\ setup.identity \in {"fused", "deferred"}
<1>1. /\ b.setup = setup /\ b.role = role /\ b.mutation = mutation /\ b.candidate = candidate
      /\ b.wrapped = wrapped
      /\ b.candidateHashes
           = IF unmodified THEN ComponentHashes(source)
             ELSE IF ~fusing THEN ComponentHashes(candidate)
             ELSE IF setup.identity = "fused" THEN FusedHashes(candidate.states, candidate.momenta, candidate.batches)
             ELSE Deferred
      /\ b.wrappedHashes
           = IF fusing THEN FusedHashes(wrapped.states, wrapped.momenta, wrapped.batches)
             ELSE IF setup.wrapper = "identity" /\ unmodified THEN ComponentHashes(source)
             ELSE ComponentHashes(wrapped)
      /\ b.expected = IF role = "production" /\ verdictKnown THEN valid ELSE role # "challenge"
  BY DEF Bundle, Wrapped, PlanOf
<1> HIDE DEF b
<1>2. IsProof(candidate) /\ (unmodified => candidate = source) /\ (role # "production" => valid)
  BY DEF CandidateFits
<1>3. IsProof(wrapped)
  BY <1>2, WrappedIs
<1>4. setup.wrapper = "identity" => wrapped = candidate
  BY DEF Wrapped
<1> HIDE DEF wrapped
<1>5. /\ FusedHashes(wrapped.states, wrapped.momenta, wrapped.batches) = ComponentHashes(wrapped)
      /\ FusedHashes(candidate.states, candidate.momenta, candidate.batches) = ComponentHashes(candidate)
  BY <1>2, <1>3, FusedIs
<1>6. b.wrappedHashes = ComponentHashes(b.wrapped)
  <2>1. CASE fusing
    BY <1>1, <1>5, <2>1
  <2>2. CASE ~fusing /\ setup.wrapper = "identity" /\ unmodified
    <3>1. wrapped = source
      BY <1>2, <1>4, <2>2
    <3> QED  BY <1>1, <2>2, <3>1
  <2>3. CASE ~fusing /\ ~(setup.wrapper = "identity" /\ unmodified)
    BY <1>1, <2>3
  <2> QED  BY <2>1, <2>2, <2>3
<1>7. b.candidateHashes = ComponentHashes(b.candidate)
        \/ (b.candidateHashes = Deferred /\ b.setup.identity = "deferred" /\ b.role = "challenge")
  <2>1. CASE unmodified
    BY <1>1, <1>2, <2>1
  <2>2. CASE ~unmodified /\ ~fusing
    BY <1>1, <2>2
  <2>3. CASE ~unmodified /\ fusing /\ setup.identity = "fused"
    BY <1>1, <1>5, <2>3
  <2>4. CASE ~unmodified /\ fusing /\ setup.identity # "fused"
    BY <1>1, <2>4
  <2> QED  BY <2>1, <2>2, <2>3, <2>4
<1>8. ExpectedFits(b)
  <2>1. b.role = role /\ b.expected = IF role = "production" /\ verdictKnown THEN valid ELSE role # "challenge"
    BY <1>1
  <2>2. CASE valid
    <3>1. b.expected = (role # "challenge")
      BY <2>1, <2>2
    <3> QED  BY <2>1, <2>2, <3>1 DEF ExpectedFits
  <2>3. CASE ~valid
    <3>1. role = "production"
      BY <1>2, <2>3
    <3> QED  BY <2>1, <2>3, <3>1 DEF ExpectedFits
  <2> QED  BY <2>2, <2>3
<1>9. CandidateFits(b.setup, b.role, b.mutation, b.candidate) /\ b.wrapped = Wrapped(b.setup, b.candidate)
  BY <1>1, Zenon DEF wrapped
<1>10. BundleFits(b)
  BY <1>1, <1>6, <1>7, <1>8, <1>9, Zenon DEF BundleFits
<1> QED  BY <1>10 DEF b

-------------------------------------------------------------------------------
(* Every step of the compiler and of a verifier                            *)

BundleKept == stage \notin {"training", "source"} => BundleFits(bundle)
DescriptorKept ==
  /\ stage \in {"compiled", "delivered", "answered", "withdrawn"} =>
       descriptor = Descriptor(PlanOf(bundle.setup), bundle.setup.protocol)
  /\ stage \in {"garbled", "garbled answer"} => Known(descriptor.plan) /\ bundle.role # "challenge"
Established == stage = "delivered" /\ bundle.role = "challenge" => ~Base(bundle.candidate)
ProbesInv == SourceKept /\ BundleKept /\ DescriptorKept /\ Established /\ ProbesSound

\* What the owner keeps of a delivered bundle.
Truth == valid /\ bundle.role # "challenge"

\* Nothing is claimed before there is a source.
LEMMA InitProbes == ProbesInit => ProbesInv
BY DEF ProbesInit, ProbesInv, SourceKept, BundleKept, DescriptorKept, Established, ProbesSound,
       ReplaysAsExpected, IdentitiesAgree, ChallengesCoherent, WithdrawnForCause

\* The stages at which nothing is claimed of an answer.
LEMMA NothingAnswered ==
  ASSUME stage' \in {"training", "source", "compiled", "delivered", "garbled"}
  PROVE  ProbesSound'
BY DEF ProbesSound, ReplaysAsExpected, IdentitiesAgree, ChallengesCoherent, WithdrawnForCause

\* What is recorded of a training is a proof, and the owner's replay of it
\* tells whether its training says so.
LEMMA ProduceSourceKeeps ==
  ASSUME ProbeAssumption, ProbesInv, ProduceSource
  PROVE  ProbesInv'
<1>1. stage' = "source"
  BY DEF ProduceSource
<1>2. PICK origin \in Origins, targets \in BatchSequences, flaw \in Flaws :
        LET proof == Recorded(ProduceUpdate(origin, <<>>, targets, FullScale), targets)
            recorded == IF flaw.by = 0 THEN proof
                        ELSE [proof EXCEPT !.states[flaw.k + 1][flaw.spot[1]][flaw.spot[2]] = @ + flaw.by]
        IN source' = recorded /\ valid' = Replays(recorded)
  BY DEF ProduceSource
<1> DEFINE proof == Recorded(ProduceUpdate(origin, <<>>, targets, FullScale), targets)
           j == flaw.k
           place == flaw.spot[1]
           at == flaw.spot[2]
           by == flaw.by
           recorded == [proof EXCEPT !.states[j + 1][place][at] = @ + by]
<1>3. /\ Shaped(origin, Keys) /\ targets \in Seq(Int) /\ Len(targets) >= 4 /\ Tolerance \in Nat
      /\ j \in 1..Len(targets) /\ place \in Keys /\ at \in Shapes[place] /\ by \in Int
  BY KeysAre DEF ProbeAssumption
<1>4. (source' = proof \/ source' = recorded) /\ valid' = Replays(source')
  <2>1. CASE flaw.by = 0
    BY <1>2, <2>1
  <2>2. CASE flaw.by # 0
    BY <1>2, <2>2
  <2> QED  BY <2>1, <2>2
<1> HIDE DEF j, place, at, by
<1>5. /\ IsProof(proof) /\ (Base(proof) => SgdPublicConsistency(proof))
      /\ IsProof(recorded) /\ (Base(recorded) => SgdPublicConsistency(recorded))
  BY <1>3, SourceIs
<1> HIDE DEF proof, recorded
<1>6. IsProof(source') /\ (Base(source') => SgdPublicConsistency(source'))
  BY <1>4, <1>5
<1>7. valid' \in BOOLEAN /\ (valid' <=> Base(source'))
  <2>1. Replays(source') \in BOOLEAN
    BY DEF Replays, VerifyReplayProof
  <2>2. Replays(source') <=> Base(source')
    BY <1>6, ReplaysIs
  <2> QED  BY <1>4, <2>1, <2>2
<1>8. SourceKept'
  BY <1>6, <1>7 DEF SourceKept
<1> QED  BY <1>1, <1>8, NothingAnswered DEF ProbesInv, BundleKept, DescriptorKept, Established

\* The candidates of a task fit.
LEMMA CandidatesFit ==
  ASSUME ProbeAssumption, IsProof(source), valid => Base(source) /\ SgdPublicConsistency(source), NEW setup \in Setups
  PROVE  /\ CandidateFits(setup, "production", Nothing, source)
         /\ valid => CandidateFits(setup, "control", Nothing, source)
         /\ valid /\ setup.mutation = "continuation" =>
              \A atom \in 1..4 : CandidateFits(setup, "challenge", Nothing, GradientContinuation(source, atom))
         /\ valid /\ setup.mutation # "continuation" =>
              \A atom \in 1..4 : \A mutation \in Mutations(source, atom, setup) :
                CandidateFits(setup, "challenge", mutation, MutateProof(source, mutation, setup))
<1>1. Tolerance \in Nat /\ setup.mutation \in {"suffix", "coherent", "continuation"}
  BY DEF ProbeAssumption
<1>2. CandidateFits(setup, "production", Nothing, source) /\ (valid => CandidateFits(setup, "control", Nothing, source))
  BY DEF CandidateFits
<1>3. ASSUME valid, setup.mutation = "continuation", NEW atom \in 1..4
      PROVE  CandidateFits(setup, "challenge", Nothing, GradientContinuation(source, atom))
  <2> DEFINE c == GradientContinuation(source, atom)
  <2>1. IsProof(c) /\ SgdPublicConsistency(c)
    BY <1>1, <1>3, ContinuationIs
  <2> HIDE DEF c
  <2>2. CandidateFits(setup, "challenge", Nothing, c)
    BY <1>3, <2>1 DEF CandidateFits
  <2> QED  BY <2>2 DEF c
<1>4. ASSUME valid, setup.mutation # "continuation", NEW atom \in 1..4, NEW mutation \in Mutations(source, atom, setup)
      PROVE  CandidateFits(setup, "challenge", mutation, MutateProof(source, mutation, setup))
  <2> DEFINE c == MutateProof(source, mutation, setup)
  <2>1. IsMutation(mutation, source, setup.mutation = "coherent") /\ (setup.protocol = "v4" => PrecisionSafe(mutation))
    BY MutationsAre
  <2>2. /\ IsProof(c)
        /\ Base(source) /\ Observed(mutation) - Tolerance > Tolerance => ~Base(c)
        /\ SgdPublicConsistency(source) /\ setup.mutation = "coherent" => SgdPublicConsistency(c)
    BY <1>1, <2>1, MutatedIs
  <2>3. Observed(mutation) \in Nat
    <3> DEFINE a == mutation.after
               b == mutation.before
    <3>1. a \in Int /\ b \in Int
      BY <2>1 DEF IsMutation
    <3> HIDE DEF a, b
    <3>2. Distance(a, b) \in Nat
      BY <3>1 DEF Distance
    <3> QED  BY <3>2 DEF Observed, a, b
  <2> HIDE DEF c
  <2>4. CandidateFits(setup, "challenge", mutation, c)
    BY <1>1, <1>4, <2>1, <2>2, <2>3 DEF CandidateFits
  <2> QED  BY <2>4 DEF c
<1> QED  BY <1>2, <1>3, <1>4

\* A compiled task is made of a candidate that fits.
LEMMA CompileTaskKeeps ==
  ASSUME ProbeAssumption, ProbesInv, CompileTask
  PROVE  ProbesInv'
<1>1. stage = "source" /\ stage' = "compiled" /\ UNCHANGED <<source, valid>>
  BY DEF CompileTask
<1>2. IsProof(source) /\ valid \in BOOLEAN /\ (valid <=> Base(source)) /\ (valid => SgdPublicConsistency(source))
  BY <1>1 DEF ProbesInv, SourceKept
<1>3. \E setup \in Setups, role \in {"production", "control", "challenge"}, verdictKnown \in BOOLEAN, atom \in 0..4 :
        \E mutation, candidate :
          /\ Delivers(Bundle(setup, role, atom, mutation, candidate, verdictKnown), PlanOf(setup))
          /\ CandidateFits(setup, role, mutation, candidate)
  <2>1. PICK setup \in Setups, role \in {"production", "control", "challenge"}, verdictKnown \in BOOLEAN :
          IF role # "production"
            THEN /\ verdictKnown /\ valid
                 /\ \/ /\ role = "control"
                       /\ Delivers(Bundle(setup, role, 0, Nothing, source, TRUE), PlanOf(setup))
                    \/ /\ role = "challenge" /\ setup.mutation = "continuation"
                       /\ \E atom \in 1..4 :
                            Delivers(Bundle(setup, role, atom, Nothing,
                                            GradientContinuation(source, atom), TRUE), PlanOf(setup))
                    \/ /\ role = "challenge" /\ setup.mutation # "continuation"
                       /\ \E atom \in 1..4 : \E mutation \in Mutations(source, atom, setup) :
                            Delivers(Bundle(setup, role, atom, mutation,
                                            MutateProof(source, mutation, setup), TRUE), PlanOf(setup))
            ELSE Delivers(Bundle(setup, role, 0, Nothing, source, verdictKnown), PlanOf(setup))
    BY Zenon DEF CompileTask, PlanOf
  <2>2. /\ CandidateFits(setup, "production", Nothing, source)
        /\ valid => CandidateFits(setup, "control", Nothing, source)
        /\ valid /\ setup.mutation = "continuation" =>
             \A atom \in 1..4 : CandidateFits(setup, "challenge", Nothing, GradientContinuation(source, atom))
        /\ valid /\ setup.mutation # "continuation" =>
             \A atom \in 1..4 : \A mutation \in Mutations(source, atom, setup) :
               CandidateFits(setup, "challenge", mutation, MutateProof(source, mutation, setup))
    BY <1>2, CandidatesFit
  <2>3. TRUE \in BOOLEAN /\ 0 \in 0..4 /\ \A atom \in 1..4 : atom \in 0..4
    OBVIOUS
  <2>4. CASE role = "production"
    <3>1. Delivers(Bundle(setup, role, 0, Nothing, source, verdictKnown), PlanOf(setup))
      BY <2>1, <2>4
    <3> QED  BY <2>2, <2>3, <2>4, <3>1
  <2>5. CASE role = "control"
    <3>1. valid /\ Delivers(Bundle(setup, role, 0, Nothing, source, TRUE), PlanOf(setup))
      BY <2>1, <2>5
    <3> QED  BY <2>2, <2>3, <2>5, <3>1
  <2>6. CASE role = "challenge" /\ setup.mutation = "continuation"
    <3>1. PICK atom \in 1..4 :
            Delivers(Bundle(setup, role, atom, Nothing, GradientContinuation(source, atom), TRUE), PlanOf(setup))
      BY <2>1, <2>6
    <3>2. CandidateFits(setup, role, Nothing, GradientContinuation(source, atom)) /\ atom \in 0..4
      BY <2>1, <2>2, <2>3, <2>6
    <3> QED  BY <2>3, <3>1, <3>2
  <2>7. CASE role = "challenge" /\ setup.mutation # "continuation"
    <3>1. PICK atom \in 1..4 : \E mutation \in Mutations(source, atom, setup) :
            Delivers(Bundle(setup, role, atom, mutation, MutateProof(source, mutation, setup), TRUE), PlanOf(setup))
      BY <2>1, <2>7
    <3>2. PICK mutation \in Mutations(source, atom, setup) :
            Delivers(Bundle(setup, role, atom, mutation, MutateProof(source, mutation, setup), TRUE), PlanOf(setup))
      BY <3>1
    <3>3. CandidateFits(setup, role, mutation, MutateProof(source, mutation, setup)) /\ atom \in 0..4
      BY <2>1, <2>2, <2>3, <2>7
    <3> QED  BY <2>3, <3>2, <3>3
  <2> QED  BY <2>4, <2>5, <2>6, <2>7
<1>4. PICK setup \in Setups, role \in {"production", "control", "challenge"}, verdictKnown \in BOOLEAN, atom \in 0..4 :
        \E mutation, candidate :
          /\ Delivers(Bundle(setup, role, atom, mutation, candidate, verdictKnown), PlanOf(setup))
          /\ CandidateFits(setup, role, mutation, candidate)
  BY <1>3
<1>5. PICK mutation, candidate :
          /\ Delivers(Bundle(setup, role, atom, mutation, candidate, verdictKnown), PlanOf(setup))
          /\ CandidateFits(setup, role, mutation, candidate)
  BY <1>4
<1> DEFINE b == Bundle(setup, role, atom, mutation, candidate, verdictKnown)
<1>6. BundleFits(b)
  BY <1>2, <1>5, BundleIs
<1>7. bundle' = b /\ descriptor' = Descriptor(PlanOf(setup), b.setup.protocol)
  BY <1>5, Zenon DEF Delivers
<1>8. b.setup = setup
  BY DEF Bundle
<1> HIDE DEF b
<1>9. BundleFits(bundle)'
  BY <1>1, <1>6, <1>7 DEF BundleFits, CandidateFits, ExpectedFits
<1>10. descriptor' = Descriptor(PlanOf(bundle'.setup), bundle'.setup.protocol)
  BY <1>7, <1>8
<1>11. SourceKept'
  BY <1>1, <1>2 DEF SourceKept
<1>12. DescriptorKept'
  BY <1>1, <1>10 DEF DescriptorKept
<1>13. BundleKept' /\ Established'
  BY <1>1, <1>9 DEF BundleKept, Established
<1> QED  BY <1>1, <1>11, <1>12, <1>13, NothingAnswered DEF ProbesInv

\* What is known of a bundle stays while the source and the bundle do.
LEMMA BundleStays ==
  ASSUME ProbesInv, stage \notin {"training", "source"}, stage' \notin {"training", "source"},
         UNCHANGED <<source, valid, bundle>>
  PROVE  SourceKept' /\ BundleKept' /\ BundleFits(bundle)
<1>1. SourceKept'
  BY DEF ProbesInv, SourceKept
<1>2. BundleFits(bundle)
  BY DEF ProbesInv, BundleKept
<1>3. BundleFits(bundle)'
  BY <1>2 DEF BundleFits, CandidateFits, ExpectedFits
<1> QED  BY <1>1, <1>2, <1>3 DEF BundleKept

\* A precision safe mutation is a witness, so rounding withdraws none.
LEMMA SafeIsWitness ==
  ASSUME ProbeAssumption, NEW m, Observed(m) \in Nat, PrecisionSafe(m), NEW plan, Whole(plan)
  PROVE  WitnessHolds(m, TRUE, plan)
<1> DEFINE o == Observed(m)
<1>1. 4 * o >= 3 * Magnitude
  BY DEF PrecisionSafe
<1>2. Tolerance \in Nat \ {0} /\ Magnitude \in Nat /\ Magnitude >= 4 * Tolerance
  BY DEF ProbeAssumption
<1>3. o \in Nat
  OBVIOUS
<1> HIDE DEF o
<1>4. o >= 3 * Tolerance /\ o - Tolerance > Tolerance
  BY <1>1, <1>2, <1>3
<1>5. \A name \in DOMAIN plan.maps : Range(plan.maps[name]) = DOMAIN plan.maps[name]
  BY WholeMaps
<1> QED  BY <1>4, <1>5 DEF WitnessHolds, o

\* A challenge that stays is one a replay refuses; rounding costs none of the
\* registered protocol.
LEMMA ExamineTaskKeeps ==
  ASSUME ProbeAssumption, ProbesInv, ExamineTask
  PROVE  ProbesInv'
<1>1. /\ stage = "compiled" /\ UNCHANGED <<source, valid, bundle, descriptor, answer>>
      /\ stage' = IF bundle.role = "challenge" => ChallengeEstablished THEN "delivered" ELSE "withdrawn"
  BY DEF ExamineTask
<1>2. stage' \in {"delivered", "withdrawn"}
  BY <1>1
<1>3. SourceKept' /\ BundleKept' /\ BundleFits(bundle)
  BY <1>1, <1>2, BundleStays
<1>4. descriptor = Descriptor(PlanOf(bundle.setup), bundle.setup.protocol)
  BY <1>1 DEF ProbesInv, DescriptorKept
<1>5. DescriptorKept'
  BY <1>1, <1>2, <1>4 DEF DescriptorKept
<1>6. /\ bundle.setup \in Setups /\ IsProof(bundle.candidate)
      /\ (bundle.role # "production" => valid)
      /\ (bundle.role = "challenge" /\ bundle.setup.mutation # "continuation" =>
            /\ Observed(bundle.mutation) \in Nat
            /\ Observed(bundle.mutation) - Tolerance > Tolerance => ~Base(bundle.candidate)
            /\ bundle.setup.protocol = "v4" => PrecisionSafe(bundle.mutation))
  BY <1>3 DEF BundleFits, CandidateFits
<1>7. Whole(PlanOf(bundle.setup)) /\ descriptor.plan = PlanOf(bundle.setup)
  <2>1. Whole(PlanOf(bundle.setup))
    BY <1>6, PlanOfIs
  <2> QED  BY <1>4, <2>1 DEF Descriptor
<1>8. ASSUME stage' = "delivered", bundle.role = "challenge" PROVE ~Base(bundle.candidate)
  <2>1. ChallengeEstablished
    BY <1>1, <1>8
  <2>2. CASE bundle.setup.mutation = "continuation"
    <3>1. ~Replays(bundle.candidate)
      BY <2>1, <2>2 DEF ChallengeEstablished
    <3> QED  BY <1>6, <3>1, ReplaysIs
  <2>3. CASE bundle.setup.mutation # "continuation"
    <3>1. Observed(bundle.mutation) - Tolerance > Tolerance
      BY <2>1, <2>3 DEF ChallengeEstablished, WitnessHolds
    <3> QED  BY <1>6, <1>8, <2>3, <3>1
  <2> QED  BY <2>2, <2>3
<1>9. Established'
  BY <1>1, <1>8 DEF Established
<1>10. ASSUME stage' = "withdrawn", bundle.setup.mutation # "continuation", bundle.setup.protocol = "v4" PROVE FALSE
  <2>1. bundle.role = "challenge" /\ ~ChallengeEstablished
    BY <1>1, <1>10
  <2>2. Observed(bundle.mutation) \in Nat /\ PrecisionSafe(bundle.mutation)
    BY <1>6, <1>10, <2>1
  <2>3. WitnessHolds(bundle.mutation, TRUE, PlanOf(bundle.setup))
    BY <1>7, <2>2, SafeIsWitness
  <2>4. ~WitnessHolds(bundle.mutation, valid, PlanOf(bundle.setup)) /\ valid
    BY <1>6, <1>7, <1>10, <2>1 DEF ChallengeEstablished
  <2> QED  BY <2>3, <2>4 DEF WitnessHolds
<1>11. ProbesSound'
  BY <1>1, <1>2, <1>10 DEF ProbesSound, ReplaysAsExpected, IdentitiesAgree, ChallengesCoherent, WithdrawnForCause
<1> QED  BY <1>3, <1>5, <1>9, <1>11 DEF ProbesInv

\* A garbled descriptor is of a known seed.
LEMMA GarbleDescriptorKeeps ==
  ASSUME ProbeAssumption, ProbesInv, GarbleDescriptor
  PROVE  ProbesInv'
<1>1. /\ stage = "delivered" /\ stage' = "garbled" /\ UNCHANGED <<source, valid, bundle, answer>>
      /\ bundle.role # "challenge" /\ descriptor' \in Garbled(descriptor)
  BY DEF GarbleDescriptor
<1>2. SourceKept' /\ BundleKept' /\ BundleFits(bundle)
  BY <1>1, BundleStays
<1>3. descriptor = Descriptor(PlanOf(bundle.setup), bundle.setup.protocol)
  BY <1>1 DEF ProbesInv, DescriptorKept
<1>4. Known(PlanOf(bundle.setup))
  BY <1>2, PlanOfIs DEF BundleFits
<1>5. Known(descriptor'.plan)
  BY <1>1, <1>3, <1>4, GarbledAreKnown
<1>6. DescriptorKept' /\ Established'
  BY <1>1, <1>5 DEF DescriptorKept, Established, Known
<1> QED  BY <1>1, <1>2, <1>6, NothingAnswered DEF ProbesInv

\* A verifier that inverts a plan reads off its bundle what the source's replay gave.
LEMMA AnswersTell ==
  ASSUME ProbeAssumption, SourceKept, stage # "training", BundleFits(bundle),
         bundle.role = "challenge" => ~Base(bundle.candidate), NEW plan, Whole(plan)
  PROVE  /\ StreamedReplay(bundle.wrapped, plan) <=> Truth
         /\ Replays(Canonicalize(bundle.wrapped, plan)) <=> Truth
         /\ CanonicalHashes(bundle.wrapped, plan) = ComponentHashes(Canonicalize(bundle.wrapped, plan))
<1>1. /\ bundle.setup \in Setups /\ IsProof(bundle.candidate) /\ (bundle.role # "challenge" => bundle.candidate = source)
      /\ bundle.wrapped = Wrapped(bundle.setup, bundle.candidate)
  BY DEF BundleFits, CandidateFits
<1>2. IsProof(bundle.wrapped) /\ (Base(bundle.wrapped) <=> Base(bundle.candidate))
  BY <1>1, WrappedIs
<1>3. Base(bundle.candidate) <=> Truth
  BY <1>1 DEF Truth, SourceKept
<1>4. /\ StreamedReplay(bundle.wrapped, plan) <=> Base(bundle.wrapped)
      /\ Replays(Canonicalize(bundle.wrapped, plan)) <=> Base(bundle.wrapped)
      /\ CanonicalHashes(bundle.wrapped, plan) = ComponentHashes(Canonicalize(bundle.wrapped, plan))
  BY <1>2, AnswersAre
<1> QED  BY <1>2, <1>3, <1>4

\* An answer is what the replay of the source says, or a refusal.
LEMMA AnswerTaskKeeps ==
  ASSUME ProbeAssumption, ProbesInv, AnswerTask
  PROVE  ProbesInv'
<1> DEFINE given == [streamed |-> StreamedReplay(bundle.wrapped, descriptor.plan),
                     replayed |-> Replays(Canonicalize(bundle.wrapped, descriptor.plan)),
                     hashes |-> CanonicalHashes(bundle.wrapped, descriptor.plan),
                     public |-> SgdPublicConsistency(bundle.wrapped)]
<1>1. /\ stage \in {"delivered", "garbled"} /\ UNCHANGED <<source, valid, bundle, descriptor>>
      /\ answer' = IF ~DescriptorVerified(descriptor, bundle.setup.protocol) THEN Refused ELSE given
      /\ stage' = IF stage = "garbled" THEN "garbled answer" ELSE "answered"
  BY Zenon DEF AnswerTask
<1>2. stage' \in {"answered", "garbled answer"} /\ (stage = "delivered" <=> stage' = "answered")
  BY <1>1
<1>3. SourceKept' /\ BundleKept' /\ BundleFits(bundle) /\ SourceKept
  BY <1>1, <1>2, BundleStays DEF ProbesInv
<1>4. DescriptorKept' /\ Established'
  BY <1>1, <1>2 DEF ProbesInv, DescriptorKept, Established, Known
<1>5. bundle.role = "challenge" => ~Base(bundle.candidate)
  BY <1>1 DEF ProbesInv, Established, DescriptorKept
<1>6. /\ bundle.setup \in Setups /\ IsProof(bundle.candidate) /\ bundle.wrapped = Wrapped(bundle.setup, bundle.candidate)
      /\ bundle.wrappedHashes = ComponentHashes(bundle.wrapped)
      /\ bundle.candidateHashes = ComponentHashes(bundle.candidate)
           \/ (bundle.candidateHashes = Deferred /\ bundle.setup.identity = "deferred" /\ bundle.role = "challenge")
      /\ bundle.expected = Truth \/ (bundle.role = "production" /\ ~valid)
      /\ (bundle.role = "challenge" /\ bundle.setup.mutation # "suffix" => SgdPublicConsistency(bundle.candidate))
  BY <1>3 DEF BundleFits, CandidateFits, ExpectedFits, Truth
<1>7. Whole(PlanOf(bundle.setup)) /\ PlanOf(bundle.setup).maps = Plan(PlanOf(bundle.setup).seed, PlanOf(bundle.setup).mode).maps
  BY <1>6, PlanOfIs
<1>8. ASSUME stage = "delivered"
      PROVE  DescriptorVerified(descriptor, bundle.setup.protocol) /\ descriptor.plan = PlanOf(bundle.setup)
  <2>1. descriptor = Descriptor(PlanOf(bundle.setup), bundle.setup.protocol)
    BY <1>8 DEF ProbesInv, DescriptorKept
  <2> QED  BY <1>7, <2>1, OwnVerified
<1>9. ASSUME DescriptorVerified(descriptor, bundle.setup.protocol) PROVE Whole(descriptor.plan)
  <2>1. CASE stage = "delivered"
    BY <1>7, <1>8, <2>1
  <2>2. CASE stage = "garbled"
    <3>1. Known(descriptor.plan)
      BY <2>2 DEF ProbesInv, DescriptorKept
    <3> QED  BY <1>9, <3>1, VerifiedPlans
  <2> QED  BY <1>1, <2>1, <2>2
<1>10. ASSUME DescriptorVerified(descriptor, bundle.setup.protocol)
       PROVE  /\ StreamedReplay(bundle.wrapped, descriptor.plan) <=> Truth
              /\ Replays(Canonicalize(bundle.wrapped, descriptor.plan)) <=> Truth
              /\ CanonicalHashes(bundle.wrapped, descriptor.plan)
                   = ComponentHashes(Canonicalize(bundle.wrapped, descriptor.plan))
  <2>1. Whole(descriptor.plan) /\ stage # "training"
    BY <1>1, <1>9, <1>10
  <2> QED  BY <1>3, <1>5, <2>1, AnswersTell
<1>11. /\ StreamedReplay(bundle.wrapped, descriptor.plan) \in BOOLEAN
       /\ Replays(Canonicalize(bundle.wrapped, descriptor.plan)) \in BOOLEAN
       /\ Truth \in BOOLEAN
  BY DEF StreamedReplay, Replays, VerifyReplayProof, Truth
<1>12. given # Refused
  <2>1. "refused" \in DOMAIN Refused /\ "refused" \notin DOMAIN given
    BY DEF Refused
  <2> QED  BY <2>1
<1>13. /\ given.streamed = StreamedReplay(bundle.wrapped, descriptor.plan)
       /\ given.replayed = Replays(Canonicalize(bundle.wrapped, descriptor.plan))
       /\ given.hashes = CanonicalHashes(bundle.wrapped, descriptor.plan)
       /\ given.public = SgdPublicConsistency(bundle.wrapped)
  OBVIOUS
<1> HIDE DEF given
<1>14. answer' # Refused => answer' = given /\ DescriptorVerified(descriptor, bundle.setup.protocol)
  BY <1>1
<1>15. Truth' = Truth /\ valid' = valid /\ bundle' = bundle
  BY <1>1 DEF Truth
<1>16. answer' # Refused => answer'.streamed = Truth' /\ answer'.replayed = Truth'
  BY <1>10, <1>11, <1>13, <1>14, <1>15
<1>17. stage' = "answered" => answer' # Refused
  BY <1>1, <1>2, <1>8, <1>12
<1>18. ReplaysAsExpected'
  BY <1>6, <1>15, <1>16, <1>17 DEF ReplaysAsExpected, Truth
<1>19. IdentitiesAgree'
  <2> SUFFICES ASSUME stage' = "answered"
               PROVE  /\ bundle.wrappedHashes = ComponentHashes(bundle.wrapped)
                      /\ answer'.hashes = ComponentHashes(bundle.candidate)
                      /\ bundle.candidateHashes = ComponentHashes(bundle.candidate)
                           \/ (bundle.candidateHashes = Deferred /\ bundle.setup.identity = "deferred"
                                 /\ bundle.role = "challenge")
    BY <1>15 DEF IdentitiesAgree
  <2>1. answer' = given /\ DescriptorVerified(descriptor, bundle.setup.protocol) /\ descriptor.plan = PlanOf(bundle.setup)
    BY <1>2, <1>8, <1>14, <1>17
  <2>2. Canonicalize(bundle.wrapped, PlanOf(bundle.setup)) = bundle.candidate
    BY <1>6, WrappedIs
  <2>3. answer'.hashes = ComponentHashes(bundle.candidate)
    BY <1>10, <1>13, <2>1, <2>2
  <2> QED  BY <1>6, <2>3
<1>20. ChallengesCoherent'
  <2> SUFFICES ASSUME stage' = "answered", bundle.role = "challenge", bundle.setup.mutation # "suffix"
               PROVE  answer'.public
    BY <1>15 DEF ChallengesCoherent
  <2>1. answer' = given
    BY <1>14, <1>17
  <2>2. SgdPublicConsistency(bundle.wrapped)
    BY <1>6, WrappedIs
  <2> QED  BY <1>13, <2>1, <2>2
<1>21. WithdrawnForCause'
  BY <1>2 DEF WithdrawnForCause
<1> QED  BY <1>3, <1>4, <1>18, <1>19, <1>20, <1>21 DEF ProbesInv, ProbesSound

\* Nothing changes when nothing happens.
LEMMA StutterProbesKeeps ==
  ASSUME ProbesInv, UNCHANGED probed
  PROVE  ProbesInv'
<1>1. UNCHANGED <<stage, source, valid, bundle, descriptor, answer>>
  BY DEF probed
<1>2. SourceKept'
  BY <1>1 DEF ProbesInv, SourceKept
<1>3. BundleKept'
  <2>1. ASSUME BundleFits(bundle) PROVE BundleFits(bundle)'
    BY <1>1, <2>1 DEF BundleFits, CandidateFits, ExpectedFits
  <2> QED  BY <1>1, <2>1 DEF ProbesInv, BundleKept
<1>4. DescriptorKept' /\ Established'
  BY <1>1 DEF ProbesInv, DescriptorKept, Established, Known
<1>5. ProbesSound'
  BY <1>1 DEF ProbesInv, ProbesSound, ReplaysAsExpected, IdentitiesAgree, ChallengesCoherent, WithdrawnForCause
<1> QED  BY <1>2, <1>3, <1>4, <1>5 DEF ProbesInv

\* So every step keeps what is known.
LEMMA NextProbesKeeps ==
  ASSUME ProbeAssumption, ProbesInv, [ProbesNext]_probed
  PROVE  ProbesInv'
<1>1. CASE ProduceSource
  BY <1>1, ProduceSourceKeeps
<1>2. CASE CompileTask
  BY <1>2, CompileTaskKeeps
<1>3. CASE ExamineTask
  BY <1>3, ExamineTaskKeeps
<1>4. CASE GarbleDescriptor
  BY <1>4, GarbleDescriptorKeeps
<1>5. CASE AnswerTask
  BY <1>5, AnswerTaskKeeps
<1>6. CASE Finished
  BY <1>6, StutterProbesKeeps DEF Finished
<1>7. CASE UNCHANGED probed
  BY <1>7, StutterProbesKeeps
<1> QED  BY <1>1, <1>2, <1>3, <1>4, <1>5, <1>6, <1>7 DEF ProbesNext

\* What the owner knows of a task at each stage: that a source is a proof and
\* whether it replays, that a bundle is made of a candidate that fits, whose
\* descriptor is on the way, and that a delivered challenge is refused by the
\* training of its own batches (compile_task, canonicalize_and_verify).
THEOREM ProbesInductive == ProbeAssumption /\ ProbesSpec => []ProbesInv
<1>1. ASSUME ProbeAssumption PROVE ProbesInv /\ [ProbesNext]_probed => ProbesInv'
  BY <1>1, NextProbesKeeps
<1>2. ASSUME ProbeAssumption PROVE ProbesSpec => []ProbesInv
  BY <1>1, <1>2, InitProbes, PTL DEF ProbesSpec
<1> QED  BY <1>2

\* Whatever the wrapper, the seed and the order of identity and transformation,
\* a replay task is answered as the replay of its source was, and a challenge
\* is refused; identities agree however they are computed; and challenges pass
\* what can be checked without a replay.
THEOREM ProbesAreSound == ProbeAssumption /\ ProbesSpec => []ProbesSound
<1>1. ProbesInv => ProbesSound
  BY DEF ProbesInv
<1> QED  BY <1>1, ProbesInductive, PTL
===============================================================================
