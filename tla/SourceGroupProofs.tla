--------------------------- MODULE SourceGroupProofs ---------------------------
(***************************************************************************)
(* Theorems about SourceGroup: what a preparation comes to, that it is     *)
(* paid once and shared as it was, and what a settled report and a route   *)
(* are worth, for every bank, every choice of bad sources and every group  *)
(* of units.                                                               *)
(***************************************************************************)
EXTENDS SourceGroup, FiniteSetTheorems, TLAPS

(* The registry: what the methods have in common.                          *)
MethodType == [probes: {"none", "source", "gold"}, audit: Nat, direct: BOOLEAN, opaque: BOOLEAN,
               threshold: {1, 2}, complete: BOOLEAN]

LEMMA MethodFacts ==
  ASSUME NEW m \in MethodKeys
  PROVE  MethodOf(m) \in MethodType
  BY AuditAssumption DEF MethodKeys, MethodOf, MethodType, Base

LEMMA DirectHasNoProbes ==
  ASSUME NEW m \in MethodKeys, MethodOf(m).direct
  PROVE  MethodOf(m).probes = "none"
  BY DEF MethodKeys, MethodOf, Base

LEMMA ProbeNumbers ==
  /\ NumProbes \in Nat /\ NumProbes >= 4 /\ Controls \in Nat /\ Controls >= 2
  /\ Controls + 2 <= NumProbes
  BY ProbesAssumption DEF NumProbes

LEMMA BankFacts ==
  /\ Priority \in Seq(Sources) /\ Len(Priority) \in Nat /\ DOMAIN Priority = 1..Len(Priority)
  /\ GoldOrder \in Seq(Gold) /\ Len(GoldOrder) = NumProbes /\ DOMAIN GoldOrder = 1..NumProbes
  /\ \A i \in 1..Len(Priority) : Priority[i] \in Sources
  /\ \A i \in 1..NumProbes : GoldOrder[i] \in Gold
  BY BankAssumption, ProbeNumbers DEF Sources, Gold

(* The unit in progress is one of the plan.                                *)
LEMMA UnitFacts ==
  ASSUME TypeOK
  PROVE  /\ plan.units \in Seq(Units) /\ Len(plan.units) \in Nat
         /\ DOMAIN plan.units = 1..Len(plan.units)
         /\ 0 \notin DOMAIN plan.units
         /\ unit # 0 => /\ unit \in DOMAIN plan.units /\ U \in Units /\ U.method \in MethodKeys
                        /\ M \in MethodType
<1>1. plan.units \in Seq(Units)
  BY PlansAssumption DEF TypeOK
<1>2. Len(plan.units) \in Nat /\ DOMAIN plan.units = 1..Len(plan.units)
  BY <1>1
<1>3. unit # 0 => unit \in DOMAIN plan.units /\ U \in Units
  BY <1>1, <1>2 DEF TypeOK, U
<1>4. ASSUME unit # 0 PROVE U.method \in MethodKeys /\ M \in MethodType
  BY <1>3, <1>4, MethodFacts DEF Units, M
<1> QED BY <1>1, <1>2, <1>3, <1>4

(* Sequences of sources grow at their end.                                 *)
LEMMA AppendFacts ==
  ASSUME NEW q \in Seq(AllSources), NEW e \in AllSources
  PROVE  /\ Append(q, e) \in Seq(AllSources) /\ Len(Append(q, e)) = Len(q) + 1
         /\ \A i \in 1..Len(q) : Append(q, e)[i] = q[i]
         /\ Append(q, e)[Len(q) + 1] = e
         /\ Chosen(Append(q, e)) = Chosen(q) \cup {e}
<1>1. /\ Append(q, e) \in Seq(AllSources) /\ Len(Append(q, e)) = Len(q) + 1
      /\ \A i \in 1..Len(q) : Append(q, e)[i] = q[i]
      /\ Append(q, e)[Len(q) + 1] = e
  OBVIOUS
<1>2. /\ Len(q) \in Nat /\ DOMAIN q = 1..Len(q)
      /\ DOMAIN Append(q, e) = 1..(Len(q) + 1)
  BY <1>1
<1>3. \A x : x \in Chosen(Append(q, e)) => x \in Chosen(q) \cup {e}
  BY <1>1, <1>2 DEF Chosen
<1>4. \A x : x \in Chosen(q) \cup {e} => x \in Chosen(Append(q, e))
  BY <1>1, <1>2 DEF Chosen
<1> QED BY <1>1, <1>3, <1>4

LEMMA ChosenFacts ==
  ASSUME NEW q \in Seq(AllSources)
  PROVE  Chosen(q) \subseteq AllSources /\ (q = <<>> => Chosen(q) = {})
  BY DEF Chosen

(* The candidate looked at next.                                           *)
LEMMA CandidateFacts ==
  ASSUME TypeOK, Searching
  PROVE  /\ Candidates[tried + 1] \in AllSources
         /\ tried + 1 \in 1..Len(Candidates) /\ Len(Candidates) \in Nat
         /\ ~Gilded => Candidates = Priority
         /\ Gilded => Candidates = GoldOrder
<1>1. tried \in Nat /\ tried < Len(Candidates)
  BY DEF TypeOK, Searching
<1>2. Len(Candidates) \in Nat
  BY BankFacts, ProbeNumbers DEF Candidates
<1>3. tried + 1 \in 1..Len(Candidates)
  BY <1>1, <1>2
<1> QED BY <1>2, <1>3, BankFacts DEF Candidates, AllSources

-------------------------------------------------------------------------------
(* Types                                                                   *)

LEMMA RestType == Rest \subseteq Sources
  BY DEF Rest

LEMMA DeliverType ==
  ASSUME TypeOK, unit # 0, NEW p \in SUBSET Sources, Deliver(p)
  PROVE  /\ place' \in {"direct", "serve"} /\ production' \subseteq Sources
         /\ DOMAIN templates' \subseteq MethodKeys
         /\ \A m \in DOMAIN templates' :
              /\ templates'[m].receipts \subseteq AllSources
              /\ templates'[m].selected \in Seq(AllSources)
              /\ templates'[m].production \subseteq Sources
              /\ templates'[m].folder \in DOMAIN plan.units
<1>1. place' \in {"direct", "serve"} /\ production' = p
  BY DEF Deliver, ServeFrom
<1>2. CASE ~Reusable
  BY <1>1, <1>2 DEF Deliver, TypeOK
<1>3. CASE Reusable
  <2>1. templates' = [m \in DOMAIN templates \cup {U.method} |->
                        IF m = U.method THEN Template(p) ELSE templates[m]]
    BY <1>3 DEF Deliver
  <2>2. Template(p).receipts \subseteq AllSources /\ Template(p).selected \in Seq(AllSources)
        /\ Template(p).production \subseteq Sources /\ Template(p).folder \in DOMAIN plan.units
    BY UnitFacts DEF Template, TypeOK
  <2>3. U.method \in MethodKeys
    BY UnitFacts
  <2>4. DOMAIN templates' = DOMAIN templates \cup {U.method}
    BY <2>1
  <2>5. \A m \in DOMAIN templates' : templates'[m] = IF m = U.method THEN Template(p) ELSE templates[m]
    BY <2>1
  <2> QED BY <1>1, <2>2, <2>3, <2>4, <2>5 DEF TypeOK
<1> QED BY <1>2, <1>3

LEMMA AcquireType ==
  ASSUME TypeOK, NEW s \in AllSources, Acquire(s)
  PROVE  receipts' \subseteq AllSources /\ replays' \in [AllSources -> Nat] /\ given' = given
<1>1. receipts' \subseteq AllSources /\ given' = given
  BY DEF Acquire, TypeOK
<1>2. replays \in [AllSources -> Nat] /\ replays[s] + 1 \in Nat
  BY DEF TypeOK
<1>3. replays' \in [AllSources -> Nat]
  BY <1>2 DEF Acquire
<1> QED BY <1>1, <1>3

LEMMA TypeInit == Init => TypeOK
<1> SUFFICES ASSUME Init PROVE TypeOK
  OBVIOUS
<1>1. plan \in Plans /\ passes \subseteq AllSources
  BY DEF Init
<1>2. replays \in [AllSources -> Nat]
  BY DEF Init, NoReplays
<1>3. /\ left \subseteq DOMAIN plan.units /\ unit \in {0} \cup DOMAIN plan.units
      /\ place \in Places /\ (place \in Places \ {"idle", "done"} => unit # 0)
      /\ targets \subseteq SUBSET Sources /\ folders \subseteq DOMAIN plan.units
  BY DEF Init, Places
<1>4. DOMAIN templates = {}
  BY DEF Init
<1>5. /\ given \subseteq AllSources /\ receipts \subseteq AllSources
      /\ tried \in Nat /\ selected \in Seq(AllSources) /\ production \subseteq Sources
      /\ folder \in {0} \cup DOMAIN plan.units
      /\ drawn \subseteq Sources /\ audited \subseteq Sources
  BY DEF Init
<1> QED BY <1>1, <1>2, <1>3, <1>4, <1>5 DEF TypeOK

LEMMA TypeStep == TypeOK /\ [Next]_vars => TypeOK'
<1> SUFFICES ASSUME TypeOK, [Next]_vars PROVE TypeOK'
  OBVIOUS
<1> USE DEF Places
<1>0. NoReplays \in [AllSources -> Nat]
  BY DEF NoReplays
<1>1. ASSUME NEW i \in left, StartUnit(i) PROVE TypeOK'
  <2>1. i \in DOMAIN plan.units /\ i # 0
    BY UnitFacts DEF TypeOK
  <2>2. /\ plan' = plan /\ passes' = passes /\ left' \subseteq left /\ unit' = i
        /\ place' \in {"fixture", "begin"}
        /\ targets' = targets /\ templates' = templates /\ folders' = folders
        /\ receipts' = {} /\ given' = {} /\ replays' = NoReplays
        /\ tried' = 0 /\ selected' = <<>> /\ production' = {} /\ folder' = folder
        /\ drawn' = drawn /\ audited' = {}
    BY <1>1 DEF StartUnit, NewJob, fixed, group
  <2> QED BY <1>0, <2>1, <2>2 DEF TypeOK
<1>2. CASE TrySource
  <2>1. PICK s \in AllSources :
          /\ s = Candidates[tried + 1] /\ Acquire(s)
          /\ selected' = IF s \in passes THEN Append(selected, s) ELSE selected
    BY <1>2, CandidateFacts DEF TrySource
  <2>2. selected' \in Seq(AllSources)
    BY <2>1, AppendFacts DEF TypeOK
  <2> QED BY <1>2, <2>1, <2>2, AcquireType DEF TypeOK, TrySource, fixed, schedule, group, serving
<1>3. CASE FixtureDone
  <2>1. /\ plan' = plan /\ passes' = passes /\ left' = left /\ unit' = unit
        /\ unit # 0 /\ place' = "begin" /\ targets' \subseteq {Rest}
        /\ templates' = templates /\ folders' = folders
        /\ receipts' = {} /\ given' = {} /\ replays' = NoReplays
        /\ tried' = 0 /\ selected' = <<>> /\ production' = {} /\ folder' = folder
        /\ drawn' = drawn /\ audited' = audited
    BY <1>3 DEF FixtureDone, NewJob, fixed, schedule, serving, TypeOK
  <2> QED BY <1>0, <2>1, RestType DEF TypeOK
<1>4. CASE Reuse
  <2>1. U.method \in DOMAIN templates /\ unit # 0
    BY <1>4 DEF Reuse, Templated, TypeOK
  <2>2. /\ plan' = plan /\ passes' = passes /\ left' = left /\ unit' = unit
        /\ place' \in {"serve", "direct"} /\ targets' = targets /\ templates' = templates
        /\ folders' = folders
        /\ receipts' = templates[U.method].receipts /\ given' = receipts'
        /\ selected' = templates[U.method].selected
        /\ production' = templates[U.method].production
        /\ folder' = templates[U.method].folder
        /\ replays' = NoReplays /\ tried' = 0 /\ drawn' = drawn /\ audited' = audited
    BY <1>4 DEF Reuse, ServeFrom, fixed, schedule, group, serving
  <2> QED BY <1>0, <2>1, <2>2 DEF TypeOK
<1>5. CASE Prepare
  <2>0. unit # 0 /\ unit \in DOMAIN plan.units
    BY <1>5 DEF Prepare, TypeOK
  <2>1. CASE M.probes # "source" /\ targets = {}
    BY <1>5, <2>0, <2>1 DEF Prepare, Raise, TypeOK, fixed, schedule, group, cache, choice, serving
  <2>2. CASE ~(M.probes # "source" /\ targets = {})
    <3>1. /\ folders' = folders \cup {unit} /\ folder' = unit
          /\ plan' = plan /\ passes' = passes /\ left' = left /\ unit' = unit
          /\ targets' = targets /\ drawn' = drawn /\ audited' = audited
          /\ given' = given /\ receipts' = receipts /\ replays' = replays
          /\ tried' = tried /\ selected' = selected
      BY <1>5, <2>2 DEF Prepare, fixed, schedule, serving, cache
    <3>2. CASE M.probes = "none"
      <4>1. PICK p \in targets : Deliver(p)
        BY <1>5, <2>2, <3>2 DEF Prepare
      <4>2. p \in SUBSET Sources
        BY DEF TypeOK
      <4> QED BY <2>0, <3>1, <4>1, <4>2, DeliverType DEF TypeOK
    <3>3. CASE M.probes # "none"
      <4>1. place' = "try" /\ templates' = templates /\ production' = production
        BY <1>5, <2>2, <3>3 DEF Prepare
      <4> QED BY <2>0, <3>1, <4>1 DEF TypeOK
    <3> QED BY <3>2, <3>3
  <2> QED BY <2>1, <2>2
<1>6. CASE Prepared
  <2>0. unit # 0
    BY <1>6 DEF Prepared, TypeOK
  <2>1. PICK p \in IF Gilded THEN targets ELSE {Rest} :
          IF targets # {} /\ targets # {p} THEN Raise /\ UNCHANGED fixed
          ELSE /\ Deliver(p) /\ targets' = {p}
               /\ UNCHANGED <<fixed, schedule, folders, rows, cache, tried, selected, folder, reports,
                              serving>>
    BY <1>6 DEF Prepared
  <2>2. p \in SUBSET Sources
    BY RestType DEF TypeOK
  <2>3. CASE targets # {} /\ targets # {p}
    BY <2>0, <2>1, <2>3 DEF Raise, TypeOK, fixed, schedule, group, cache, choice, serving
  <2>4. CASE ~(targets # {} /\ targets # {p})
    BY <2>0, <2>1, <2>2, <2>4, DeliverType DEF TypeOK, fixed, schedule, cache, serving
  <2> QED BY <2>3, <2>4
<1>7. CASE Serve
  <2>1. place' \in {"raised", "reported"} /\ unit # 0
    BY <1>7 DEF Serve, Raise, TypeOK
  <2> QED BY <1>7, <2>1 DEF Serve, Raise, TypeOK, fixed, schedule, group, cache, choice, serving
<1>8. CASE Draw
  BY <1>8 DEF Draw, TypeOK, fixed, schedule, group, cache, choice
<1>9. ASSUME NEW s \in Sources, Audit(s) \/ Direct(s) PROVE TypeOK'
  <2>1. Acquire(s) /\ audited' = audited \cup {s} /\ s \in AllSources
    BY <1>9 DEF Audit, Direct, AllSources
  <2> QED BY <1>9, <2>1, AcquireType DEF Audit, Direct, TypeOK, fixed, schedule, group, choice
<1>10. CASE Settle
  <2>1. place' \in {"raised", "serve"} /\ unit # 0
    BY <1>10 DEF Settle, Raise, TypeOK
  <2> QED BY <1>10, <2>1 DEF Settle, Raise, TypeOK, fixed, schedule, group, cache, choice, serving
<1>11. CASE FinishUnit
  <2>1. CASE M.complete /\ Issued /\ ~MayClose(epoch)
    BY <1>11, <2>1 DEF FinishUnit, Raise, TypeOK, fixed, schedule, group, cache, choice, serving
  <2>2. CASE ~(M.complete /\ Issued /\ ~MayClose(epoch))
    <3>1. /\ place' = "idle" /\ plan' = plan /\ passes' = passes /\ left' = left /\ unit' = unit
          /\ targets' = targets /\ folders' \subseteq folders
          /\ UNCHANGED <<given, receipts, replays, tried, selected, production, folder, drawn,
                         audited>>
      BY <1>11, <2>2 DEF FinishUnit, fixed, schedule, cache, choice, serving
    <3>2. /\ DOMAIN templates' \subseteq DOMAIN templates
          /\ \A m \in DOMAIN templates' : templates'[m] = templates[m]
      BY <1>11, <2>2 DEF FinishUnit
    <3> QED BY <3>1, <3>2 DEF TypeOK
  <2> QED BY <2>1, <2>2
<1>12. CASE NotIssued \/ Served \/ EndGroup
  BY <1>12 DEF NotIssued, Served, EndGroup, TypeOK, fixed, schedule, group, cache, choice, serving
<1>13. CASE UNCHANGED vars
  BY <1>13 DEF vars, TypeOK, fixed, schedule, group, cache, choice, serving
<1> QED BY <1>1, <1>2, <1>3, <1>4, <1>5, <1>6, <1>7, <1>8, <1>9, <1>10, <1>11, <1>12, <1>13 DEF Next

(* Every variable keeps its type.                                          *)
THEOREM TypeCorrect == Spec => []TypeOK
  BY TypeInit, TypeStep, PTL DEF Spec

-------------------------------------------------------------------------------
(* Receipts: what was replayed is what was added to what was given.        *)

ReceiptsInv == given \subseteq receipts /\ ReferencesPaidOnce

LEMMA AcquireReceipts ==
  ASSUME TypeOK, ReceiptsInv, NEW s \in AllSources, Acquire(s)
  PROVE  ReceiptsInv'
<1>1. given' = given /\ receipts' = receipts \cup {s} /\ replays \in [AllSources -> Nat]
  BY DEF Acquire, TypeOK
<1>2. CASE s \in receipts
  <2>1. receipts' = receipts /\ replays' = replays
    BY <1>1, <1>2 DEF Acquire
  <2> QED BY <1>1, <2>1 DEF ReceiptsInv, ReferencesPaidOnce
<1>3. CASE s \notin receipts
  <2>1. replays' = [replays EXCEPT ![s] = @ + 1]
    BY <1>3 DEF Acquire
  <2>2. replays[s] = 0 /\ s \notin given
    BY <1>3 DEF ReceiptsInv, ReferencesPaidOnce
  <2>3. ASSUME NEW x \in AllSources
        PROVE  replays'[x] = IF x \in receipts' \ given' THEN 1 ELSE 0
    <3>1. CASE x = s
      BY <1>1, <2>1, <2>2, <3>1
    <3>2. CASE x # s
      <4>1. replays'[x] = replays[x]
        BY <1>1, <2>1, <3>2
      <4> QED BY <1>1, <3>2, <4>1 DEF ReceiptsInv, ReferencesPaidOnce
    <3> QED BY <3>1, <3>2
  <2> QED BY <1>1, <2>3 DEF ReceiptsInv, ReferencesPaidOnce
<1> QED BY <1>2, <1>3

LEMMA ReceiptsInit == Init => ReceiptsInv
  BY DEF Init, ReceiptsInv, ReferencesPaidOnce, NoReplays

LEMMA ReceiptsStep == TypeOK /\ ReceiptsInv /\ [Next]_vars => ReceiptsInv'
<1> SUFFICES ASSUME TypeOK, ReceiptsInv, [Next]_vars PROVE ReceiptsInv'
  OBVIOUS
<1>1. CASE UNCHANGED cache
  BY <1>1 DEF cache, ReceiptsInv, ReferencesPaidOnce
<1>2. ASSUME replays' = NoReplays, given' = receipts' PROVE ReceiptsInv'
  BY <1>2 DEF ReceiptsInv, ReferencesPaidOnce, NoReplays
<1>3. ASSUME NEW i \in left, StartUnit(i) PROVE ReceiptsInv'
  BY <1>2, <1>3 DEF StartUnit, NewJob
<1>4. CASE FixtureDone
  BY <1>2, <1>4 DEF FixtureDone, NewJob
<1>5. CASE Reuse
  BY <1>2, <1>5 DEF Reuse
<1>6. CASE TrySource
  BY <1>6, CandidateFacts, AcquireReceipts DEF TrySource
<1>7. ASSUME NEW s \in Sources, Audit(s) \/ Direct(s) PROVE ReceiptsInv'
  BY <1>7, AcquireReceipts DEF Audit, Direct, AllSources
<1>8. CASE Prepare
  BY <1>1, <1>8 DEF Prepare, Raise, cache
<1>9. CASE Prepared
  BY <1>1, <1>9 DEF Prepared, Raise
<1>10. CASE Serve \/ Draw \/ Settle \/ Served \/ FinishUnit \/ EndGroup \/ NotIssued
  BY <1>1, <1>10 DEF Serve, Draw, Settle, Served, FinishUnit, EndGroup, NotIssued, Raise
<1>11. CASE UNCHANGED vars
  BY <1>1, <1>11 DEF vars
<1> QED BY <1>3, <1>4, <1>5, <1>6, <1>7, <1>8, <1>9, <1>10, <1>11 DEF Next

(* A job pays for each of its references once, or not at all if it came    *)
(* with a reused preparation (JobReferences.acquire, reuse_preparation).   *)
THEOREM ReferencesPaidOnceAlways == Spec => []ReferencesPaidOnce
<1>1. ReceiptsInv => ReferencesPaidOnce
  BY DEF ReceiptsInv
<1> QED BY <1>1, TypeInit, TypeStep, ReceiptsInit, ReceiptsStep, PTL DEF Spec

-------------------------------------------------------------------------------
(* The search for probes                                                   *)

Looked(n)    == {Candidates[i] : i \in 1..n}
Injective(q) == \A i, k \in 1..Len(q) : q[i] = q[k] => i = k

SearchInv ==
  /\ place = "begin" =>
       receipts = {} /\ given = {} /\ tried = 0 /\ selected = <<>>
  /\ place \in {"fixture", "try"} =>
       /\ tried <= Len(Candidates) /\ receipts = Looked(tried)
       /\ Chosen(selected) = passes \cap receipts
       /\ Injective(selected) /\ Len(selected) <= NumProbes /\ Len(selected) <= tried
       /\ Len(selected) = tried => Chosen(selected) = receipts
       /\ ~Gilded /\ Len(selected) = NumProbes =>
            tried \in 1..Len(Priority) /\ Priority[tried] = selected[NumProbes]
  /\ place = "try" => M.probes # "none"

LEMMA InjectiveCardinality ==
  ASSUME NEW q \in Seq(AllSources), Injective(q)
  PROVE  IsFiniteSet(Chosen(q)) /\ Cardinality(Chosen(q)) = Len(q)
<1>1. Len(q) \in Nat /\ DOMAIN q = 1..Len(q)
  OBVIOUS
<1>2. q \in [1..Len(q) -> Chosen(q)]
  BY <1>1 DEF Chosen
<1>3. q \in Injection(1..Len(q), Chosen(q))
  BY <1>2 DEF Injective, Injection, IsInjective
<1>4. \A x \in Chosen(q) : \E i \in 1..Len(q) : q[i] = x
  BY <1>1 DEF Chosen
<1>5. q \in Surjection(1..Len(q), Chosen(q))
  BY <1>2, <1>4 DEF Surjection
<1>6. ExistsBijection(1..Len(q), Chosen(q))
  BY <1>3, <1>5 DEF Bijection, ExistsBijection
<1>7. IsFiniteSet(1..Len(q)) /\ Cardinality(1..Len(q)) = Len(q)
  BY <1>1, FS_Interval
<1> QED BY <1>6, <1>7, FS_Bijection

LEMMA SearchTry ==
  ASSUME TypeOK, SearchInv, TrySource
  PROVE  SearchInv'
<1> DEFINE s == Candidates[tried + 1]
<1>1. /\ Searching /\ Acquire(s) /\ tried' = tried + 1 /\ place' = place
      /\ selected' = IF s \in passes THEN Append(selected, s) ELSE selected
      /\ plan' = plan /\ unit' = unit /\ passes' = passes /\ receipts' = receipts \cup {s}
  BY DEF TrySource, Acquire, fixed, schedule
<1>2. place \in {"fixture", "try"} /\ tried \in Nat /\ tried < Len(Candidates)
  BY <1>1 DEF Searching, TypeOK
<1>3. /\ s \in AllSources /\ tried + 1 \in 1..Len(Candidates) /\ Len(Candidates) \in Nat
      /\ ~Gilded => Candidates = Priority
      /\ Gilded => Candidates = GoldOrder
  BY <1>1, CandidateFacts
<1>4. Candidates' = Candidates /\ M' = M /\ Gilded' = Gilded
  BY <1>1 DEF Candidates, Gilded, M, U
<1>5. /\ receipts = Looked(tried) /\ Chosen(selected) = passes \cap receipts
      /\ Injective(selected) /\ Len(selected) <= NumProbes /\ Len(selected) <= tried
      /\ (Len(selected) = tried => Chosen(selected) = receipts)
      /\ place = "try" => M.probes # "none"
  BY <1>2 DEF SearchInv
<1>6. Looked(tried + 1) = Looked(tried) \cup {s}
  BY <1>2 DEF Looked
<1>7. \A i, k \in DOMAIN Candidates : Candidates[i] = Candidates[k] => i = k
  BY BankAssumption DEF Candidates
<1>8. DOMAIN Candidates = 1..Len(Candidates)
  BY BankFacts DEF Candidates
<1>9. s \notin receipts
  BY <1>2, <1>3, <1>5, <1>7, <1>8 DEF Looked
<1>10. selected \in Seq(AllSources) /\ Len(selected) \in Nat /\ NumProbes \in Nat
  BY ProbeNumbers DEF TypeOK
<1>11. receipts' = Looked(tried + 1)
  BY <1>1, <1>5, <1>6
<1>12. Looked(tried)' = Looked(tried + 1)
  BY <1>1, <1>4 DEF Looked
<1>13. Len(selected) < NumProbes
  <2>1. CASE Gilded
    BY <1>2, <1>3, <1>5, <1>10, <2>1, BankFacts
  <2>2. CASE ~Gilded
    BY <1>1, <2>2 DEF Searching
  <2> QED BY <2>1, <2>2
<1>14. CASE s \in passes
  <2>1. selected' = Append(selected, s)
    BY <1>1, <1>14
  <2>2. /\ Len(selected') = Len(selected) + 1
        /\ \A i \in 1..Len(selected) : selected'[i] = selected[i]
        /\ selected'[Len(selected) + 1] = s
        /\ Chosen(selected') = Chosen(selected) \cup {s}
    BY <1>3, <1>10, <2>1, AppendFacts
  <2>3. Chosen(selected') = passes \cap receipts'
    BY <1>1, <1>5, <1>14, <2>2
  <2>4. \A i \in 1..Len(selected) : selected[i] # s
    BY <1>5, <1>9, <1>10 DEF Chosen
  <2>5. Injective(selected)'
    BY <1>5, <1>10, <2>2, <2>4 DEF Injective
  <2>6. Len(selected') <= NumProbes /\ Len(selected') <= tried + 1
    BY <1>2, <1>5, <1>10, <1>13, <2>2
  <2>7. Len(selected') = tried + 1 => Chosen(selected') = receipts'
    BY <1>1, <1>2, <1>5, <1>10, <2>2
  <2>8. ~Gilded /\ Len(selected') = NumProbes =>
           tried + 1 \in 1..Len(Priority) /\ Priority[tried + 1] = selected'[NumProbes]
    BY <1>3, <1>10, <2>2
  <2>9. tried + 1 <= Len(Candidates)
    BY <1>3
  <2> QED BY <1>1, <1>2, <1>4, <1>5, <1>11, <1>12, <2>3, <2>5, <2>6, <2>7, <2>8, <2>9 DEF SearchInv
<1>15. CASE s \notin passes
  <2>1. selected' = selected
    BY <1>1, <1>15
  <2>2. Chosen(selected') = passes \cap receipts'
    BY <1>1, <1>5, <1>15, <2>1
  <2>3. Injective(selected)'
    BY <1>5, <2>1 DEF Injective
  <2>4. Len(selected') < NumProbes /\ Len(selected') <= tried /\ Len(selected') < tried + 1
    BY <1>2, <1>5, <1>10, <1>13, <2>1
  <2>5. tried + 1 <= Len(Candidates)
    BY <1>3
  <2> QED BY <1>1, <1>2, <1>4, <1>5, <1>10, <1>11, <1>12, <2>2, <2>3, <2>4, <2>5 DEF SearchInv
<1> QED BY <1>14, <1>15

LEMMA SearchBegins ==
  ASSUME place' \in {"fixture", "try"}, receipts' = {}, tried' = 0, selected' = <<>>,
         place' = "try" => M'.probes # "none"
  PROVE  SearchInv'
<1>1. Looked(tried)' = {} /\ Chosen(selected') = {}
  BY DEF Looked, Chosen
<1>2. Injective(selected)' /\ Len(selected') = 0
  BY DEF Injective
<1>3. 0 <= Len(Candidates')
  BY BankFacts, ProbeNumbers DEF Candidates
<1> QED BY <1>1, <1>2, <1>3, ProbeNumbers DEF SearchInv

LEMMA SearchStep == TypeOK /\ SearchInv /\ [Next]_vars => SearchInv'
<1> SUFFICES ASSUME TypeOK, SearchInv, [Next]_vars PROVE SearchInv'
  OBVIOUS
<1>0. ASSUME place' \notin {"begin", "fixture", "try"} PROVE SearchInv'
  BY <1>0 DEF SearchInv
<1>1. ASSUME place' = "begin", NewJob PROVE SearchInv'
  BY <1>1 DEF SearchInv, NewJob
<1>2. ASSUME NEW i \in left, StartUnit(i) PROVE SearchInv'
  <2>1. NewJob /\ place' \in {"fixture", "begin"}
    BY <1>2 DEF StartUnit
  <2>2. CASE place' = "fixture"
    BY <2>1, <2>2, SearchBegins DEF NewJob
  <2> QED BY <1>1, <2>1, <2>2
<1>3. CASE FixtureDone
  BY <1>1, <1>3 DEF FixtureDone
<1>4. CASE TrySource
  BY <1>4, SearchTry
<1>5. CASE Prepare
  <2>1. place = "begin"
    BY <1>5 DEF Prepare
  <2>2. receipts = {} /\ tried = 0 /\ selected = <<>>
    BY <2>1 DEF SearchInv
  <2>3. CASE place' \notin {"begin", "fixture", "try"}
    BY <1>0, <2>3
  <2>4. CASE place' \in {"begin", "fixture", "try"}
    <3>1. /\ M.probes # "none" /\ place' = "try" /\ unit' = unit /\ plan' = plan
          /\ receipts' = {} /\ tried' = 0 /\ selected' = <<>>
      BY <1>5, <2>2, <2>4 DEF Prepare, Raise, Deliver, ServeFrom, cache, fixed, schedule
    <3>2. M' = M
      BY <3>1 DEF M, U
    <3> QED BY <3>1, <3>2, SearchBegins
  <2> QED BY <2>3, <2>4
<1>6. CASE Prepared \/ Reuse \/ NotIssued
  BY <1>0, <1>6 DEF Prepared, Reuse, NotIssued, Deliver, ServeFrom, Raise
<1>7. CASE Serve \/ Draw \/ Settle \/ Served \/ FinishUnit \/ EndGroup
  BY <1>0, <1>7 DEF Serve, Draw, Settle, Served, FinishUnit, EndGroup, Raise
<1>8. ASSUME NEW s \in Sources, Audit(s) \/ Direct(s) PROVE SearchInv'
  BY <1>0, <1>8 DEF Audit, Direct
<1>9. CASE UNCHANGED vars
  <2>1. UNCHANGED <<place, receipts, given, tried, selected, passes, unit, plan>>
    BY <1>9 DEF vars, cache, choice, fixed, schedule
  <2>2. M' = M /\ Gilded' = Gilded /\ Candidates' = Candidates
    BY <2>1 DEF M, U, Gilded, Candidates
  <2>3. Looked(tried)' = Looked(tried)
    BY <2>1, <2>2 DEF Looked
  <2> QED BY <2>1, <2>2, <2>3 DEF SearchInv, Injective
<1> QED BY <1>2, <1>3, <1>4, <1>5, <1>6, <1>7, <1>8, <1>9 DEF Next

-------------------------------------------------------------------------------
(* What a job delivers, and what a template holds                          *)

JobOK(m, sel, prod, good) ==
  /\ sel \in Seq(AllSources) /\ prod \subseteq Sources
  /\ MethodOf(m).probes # "none" =>
       Len(sel) = NumProbes /\ Injective(sel) /\ Chosen(sel) \subseteq good
  /\ MethodOf(m).probes = "source" =>
       /\ \E n \in 1..Len(Priority) : Chosen(sel) = good \cap Tried(n)
       /\ prod = Sources \ Chosen(sel)
  /\ MethodOf(m).probes = "gold" => Chosen(sel) = Gold
  /\ MethodOf(m).probes = "none" => sel = <<>>

RefsOK(m, sel, refs) ==
  /\ MethodOf(m).probes = "source" =>
       \E n \in 1..Len(Priority) : refs = Tried(n) /\ Priority[n] = sel[NumProbes]
  /\ MethodOf(m).probes = "gold" => refs = Gold
  /\ MethodOf(m).probes = "none" => refs = {}

TemplateOK(m, t, good) ==
  JobOK(m, t.selected, t.production, good) /\ RefsOK(m, t.selected, t.receipts)

Refused ==
  ~Issued /\ (M.probes = "source" => Cardinality(Good) < NumProbes /\ receipts = Sources)

ServiceInv ==
  /\ InService => JobOK(U.method, selected, production, passes)
  /\ \A m \in DOMAIN templates : TemplateOK(m, templates[m], passes)
  /\ place = "close" => JobOK(U.method, selected, production, passes) \/ Refused

LEMMA LookedIsTried ==
  /\ ~Gilded => \A n : Looked(n) = Tried(n)
  /\ Tried(Len(Priority)) = Sources
  /\ \A n \in 1..Len(Priority) : Tried(n) \subseteq Sources
  /\ Gilded => Looked(NumProbes) = Gold
<1>1. ~Gilded => \A n : Looked(n) = Tried(n)
  BY DEF Looked, Tried, Candidates
<1>2. Tried(Len(Priority)) = Sources
  BY BankFacts DEF Tried, Sources
<1>3. \A n \in 1..Len(Priority) : Tried(n) \subseteq Sources
  BY BankFacts DEF Tried, Sources
<1>4. Gilded => Looked(NumProbes) = Gold
  BY BankFacts DEF Looked, Candidates, Gold
<1> QED BY <1>1, <1>2, <1>3, <1>4

(* The end of a successful search.                                         *)
LEMMA SearchDelivers ==
  ASSUME TypeOK, SearchInv, place = "try", ~Searching, Issued,
         NEW p \in SUBSET Sources, ~Gilded => p = Rest
  PROVE  JobOK(U.method, selected, p, passes) /\ RefsOK(U.method, selected, receipts)
<1>1. /\ M.probes # "none" /\ tried <= Len(Candidates) /\ receipts = Looked(tried)
      /\ Chosen(selected) = passes \cap receipts
      /\ Injective(selected) /\ Len(selected) <= NumProbes /\ Len(selected) <= tried
      /\ Len(selected) = tried => Chosen(selected) = receipts
      /\ ~Gilded /\ Len(selected) = NumProbes =>
           tried \in 1..Len(Priority) /\ Priority[tried] = selected[NumProbes]
  BY DEF SearchInv
<1>2. unit # 0 /\ selected \in Seq(AllSources) /\ tried \in Nat /\ Len(selected) \in Nat
  BY DEF TypeOK
<1>3. M.probes \in {"source", "gold"} /\ M = MethodOf(U.method)
  BY <1>1, <1>2, UnitFacts DEF MethodType, M
<1>4. Len(selected) = NumProbes
  BY <1>1 DEF Issued
<1>5. CASE M.probes = "source"
  <2>1. ~Gilded
    BY <1>5 DEF Gilded
  <2>2. receipts = Tried(tried) /\ tried \in 1..Len(Priority) /\ Priority[tried] = selected[NumProbes]
    BY <1>1, <1>4, <2>1, LookedIsTried
  <2> QED BY <1>1, <1>2, <1>3, <1>4, <1>5, <2>1, <2>2 DEF JobOK, RefsOK, Rest
<1>6. CASE M.probes = "gold"
  <2>1. Gilded /\ Candidates = GoldOrder
    BY <1>6 DEF Gilded, Candidates
  <2>2. tried = NumProbes
    BY <1>1, <1>2, <1>4, <2>1, BankFacts, ProbeNumbers DEF Searching
  <2>3. receipts = Gold /\ Chosen(selected) = Gold
    BY <1>1, <1>4, <2>1, <2>2, LookedIsTried
  <2> QED BY <1>1, <1>2, <1>3, <1>4, <1>6, <2>3 DEF JobOK, RefsOK
<1> QED BY <1>3, <1>5, <1>6

(* The end of a search that fails.                                         *)
LEMMA SearchFails ==
  ASSUME TypeOK, SearchInv, place \in {"fixture", "try"}, ~Gilded, ~Searching,
         Len(selected) # NumProbes
  PROVE  Cardinality(Good) < NumProbes /\ receipts = Sources
<1>1. Candidates = Priority
  BY DEF Candidates
<1>2. /\ tried <= Len(Candidates) /\ receipts = Looked(tried)
      /\ Chosen(selected) = passes \cap receipts
      /\ Injective(selected) /\ Len(selected) <= NumProbes
  BY DEF SearchInv
<1>3. selected \in Seq(AllSources) /\ tried \in Nat /\ Len(selected) \in Nat
  BY DEF TypeOK
<1>4. Len(selected) < NumProbes
  BY <1>2, <1>3, ProbeNumbers
<1>5. tried = Len(Priority)
  <2>1. ~(tried < Len(Priority))
    BY <1>1, <1>4 DEF Searching
  <2>2. tried <= Len(Priority) /\ Len(Priority) \in Nat /\ tried \in Nat
    BY <1>1, <1>2, <1>3, BankFacts
  <2> QED BY <2>1, <2>2
<1>6. receipts = Sources
  BY <1>1, <1>2, <1>5, LookedIsTried
<1>7. Chosen(selected) = Good
  BY <1>2, <1>6 DEF Good
<1> QED BY <1>2, <1>3, <1>4, <1>6, <1>7, InjectiveCardinality

LEMMA SearchRefuses ==
  ASSUME TypeOK, SearchInv, place = "try", ~Searching, ~Issued
  PROVE  Refused
<1>1. ASSUME M.probes = "source"
      PROVE  Cardinality(Good) < NumProbes /\ receipts = Sources
  BY <1>1, SearchFails DEF Issued, Gilded
<1> QED BY <1>1 DEF Refused

LEMMA DeliverService ==
  ASSUME TypeOK, ServiceInv, NEW p, Deliver(p), unit # 0,
         unit' = unit, plan' = plan, passes' = passes, selected' = selected,
         JobOK(U.method, selected, p, passes), RefsOK(U.method, selected, receipts)
  PROVE  ServiceInv'
<1>1. U' = U /\ production' = p /\ place' \in {"serve", "direct"}
  BY DEF U, Deliver, ServeFrom
<1>2. JobOK(U.method, selected, production, passes)'
  BY <1>1
<1>3. TemplateOK(U.method, Template(p), passes)
  BY DEF TemplateOK, Template
<1>4. \A m \in DOMAIN templates : TemplateOK(m, templates[m], passes)
  BY DEF ServiceInv
<1>5. \A m \in DOMAIN templates' : TemplateOK(m, templates'[m], passes)
  <2>1. CASE Reusable
    <3>1. templates' = [m \in DOMAIN templates \cup {U.method} |->
                          IF m = U.method THEN Template(p) ELSE templates[m]]
      BY <2>1 DEF Deliver
    <3> QED BY <1>3, <1>4, <3>1
  <2>2. CASE ~Reusable
    BY <1>4, <2>2 DEF Deliver
  <2> QED BY <2>1, <2>2
<1> QED BY <1>1, <1>2, <1>5 DEF ServiceInv

LEMMA ServiceInit == Init => ServiceInv
  BY DEF Init, ServiceInv, InService

LEMMA ServiceStep == TypeOK /\ SearchInv /\ ServiceInv /\ [Next]_vars => ServiceInv'
<1> SUFFICES ASSUME TypeOK, SearchInv, ServiceInv, [Next]_vars PROVE ServiceInv'
  OBVIOUS
<1>1. ASSUME passes' = passes, templates' = templates,
             place' \notin {"serve", "reported", "audit", "direct", "close"}
      PROVE  ServiceInv'
  BY <1>1 DEF ServiceInv, InService
<1>2. ASSUME UNCHANGED <<passes, templates, unit, plan, selected, production>>,
             InService, place' \in {"serve", "reported", "audit", "direct", "close", "raised"}
      PROVE  ServiceInv'
  <2>1. U' = U
    BY <1>2 DEF U
  <2>2. JobOK(U.method, selected, production, passes)'
    BY <1>2, <2>1 DEF ServiceInv
  <2> QED BY <1>2, <2>2 DEF ServiceInv
<1>3. ASSUME NEW i \in left, StartUnit(i) PROVE ServiceInv'
  BY <1>1, <1>3 DEF StartUnit, fixed, group
<1>4. CASE TrySource
  BY <1>1, <1>4 DEF TrySource, Searching, fixed, group
<1>5. CASE FixtureDone
  BY <1>1, <1>5 DEF FixtureDone, fixed
<1>6. CASE Reuse
  <2>1. /\ U.method \in DOMAIN templates /\ U' = U
        /\ selected' = templates[U.method].selected
        /\ production' = templates[U.method].production
        /\ passes' = passes /\ templates' = templates /\ place' \in {"serve", "direct"}
    BY <1>6 DEF Reuse, ServeFrom, Templated, U, fixed, schedule, group
  <2>2. JobOK(U.method, selected, production, passes)'
    BY <2>1 DEF ServiceInv, TemplateOK
  <2> QED BY <2>1, <2>2 DEF ServiceInv
<1>7. CASE Prepare
  <2>1. place = "begin" /\ unit # 0 /\ passes' = passes
    BY <1>7 DEF Prepare, Raise, fixed, TypeOK, Places
  <2>2. CASE templates' = templates /\ place' \in {"raised", "try"}
    BY <1>1, <2>1, <2>2
  <2>3. CASE ~(templates' = templates /\ place' \in {"raised", "try"})
    <3>1. PICK p \in targets : Deliver(p)
      BY <1>7, <2>3 DEF Prepare, Raise, group
    <3>2. M.probes = "none" /\ selected' = selected /\ unit' = unit /\ plan' = plan
      BY <1>7, <2>3 DEF Prepare, Raise, group, fixed, schedule
    <3>3. receipts = {} /\ selected = <<>>
      BY <2>1 DEF SearchInv
    <3>4. p \subseteq Sources /\ selected \in Seq(AllSources)
      BY DEF TypeOK
    <3>5. JobOK(U.method, selected, p, passes) /\ RefsOK(U.method, selected, receipts)
      BY <3>2, <3>3, <3>4 DEF JobOK, RefsOK, M
    <3> QED BY <2>1, <3>1, <3>2, <3>5, DeliverService
  <2> QED BY <2>2, <2>3
<1>8. CASE NotIssued
  <2>1. Refused
    BY <1>8, SearchRefuses DEF NotIssued
  <2>2. UNCHANGED <<fixed, schedule, templates, receipts, selected, production>> /\ place' = "close"
    BY <1>8 DEF NotIssued, group, cache, choice
  <2>3. Refused'
    BY <2>1, <2>2 DEF Refused, Issued, M, U, Good, fixed, schedule
  <2> QED BY <2>2, <2>3 DEF ServiceInv, InService, fixed
<1>9. CASE Prepared
  <2>0. place = "try" /\ unit # 0 /\ ~Searching /\ Issued
    BY <1>9 DEF Prepared, TypeOK, Places
  <2>1. PICK p \in IF Gilded THEN targets ELSE {Rest} :
          IF targets # {} /\ targets # {p} THEN Raise /\ UNCHANGED fixed
          ELSE /\ Deliver(p) /\ targets' = {p}
               /\ UNCHANGED <<fixed, schedule, folders, rows, cache, tried, selected, folder, reports,
                              serving>>
    BY <1>9 DEF Prepared
  <2>2. p \in SUBSET Sources /\ (~Gilded => p = Rest)
    BY <2>1, RestType DEF TypeOK
  <2>3. CASE targets # {} /\ targets # {p}
    BY <1>1, <2>1, <2>3 DEF Raise, fixed, group
  <2>4. CASE ~(targets # {} /\ targets # {p})
    <3>1. JobOK(U.method, selected, p, passes) /\ RefsOK(U.method, selected, receipts)
      BY <2>0, <2>2, SearchDelivers
    <3> QED BY <2>0, <2>1, <2>4, <3>1, DeliverService DEF fixed, schedule
  <2> QED BY <2>3, <2>4
<1>10. CASE Serve \/ Draw \/ Settle \/ Served
  <2>1. InService /\ UNCHANGED <<passes, templates, unit, plan, selected, production>>
    BY <1>10 DEF Serve, Draw, Settle, Served, InService, Raise, fixed, schedule, group, choice
  <2>2. place' \in {"serve", "reported", "audit", "direct", "close", "raised"}
    BY <1>10 DEF Serve, Draw, Settle, Served, Raise
  <2> QED BY <1>2, <2>1, <2>2
<1>11. ASSUME NEW s \in Sources, Audit(s) \/ Direct(s) PROVE ServiceInv'
  <2>1. InService /\ UNCHANGED <<passes, templates, unit, plan, selected, production>>
    BY <1>11 DEF Audit, Direct, InService, fixed, schedule, group, choice
  <2>2. place' \in {"audit", "direct"}
    BY <1>11 DEF Audit, Direct
  <2> QED BY <1>2, <2>1, <2>2
<1>12. CASE FinishUnit
  <2>1. passes' = passes /\ place' \in {"raised", "idle"}
    BY <1>12 DEF FinishUnit, Raise, fixed
  <2>2. \A m \in DOMAIN templates' : m \in DOMAIN templates /\ templates'[m] = templates[m]
    BY <1>12 DEF FinishUnit, Raise, group
  <2> QED BY <2>1, <2>2 DEF ServiceInv, InService
<1>13. CASE EndGroup
  BY <1>1, <1>13 DEF EndGroup, fixed, group
<1>14. CASE UNCHANGED vars
  <2>1. UNCHANGED <<passes, templates, unit, plan, selected, production, place, receipts>>
    BY <1>14 DEF vars, fixed, schedule, group, choice, cache
  <2>2. U' = U /\ M' = M /\ Good' = Good /\ Issued' = Issued /\ InService' = InService
    BY <2>1 DEF U, M, Good, Issued, InService
  <2> QED BY <2>1, <2>2 DEF ServiceInv, Refused
<1> QED BY <1>3, <1>4, <1>5, <1>6, <1>7, <1>8, <1>9, <1>10, <1>11, <1>12, <1>13, <1>14 DEF Next

LEMMA SearchInit == Init => SearchInv
  BY DEF Init, SearchInv

(* The probes are exactly the first sources of the private order that      *)
(* pass; a refused job has a replay of every source as its evidence.       *)
THEOREM PreparationSoundAlways == Spec => []PreparationSound
<1>1. TypeOK /\ ServiceInv => PreparationSound
  <2> SUFFICES ASSUME TypeOK, ServiceInv PROVE PreparationSound
    OBVIOUS
  <2>1. InService \/ place = "close" => unit # 0
    BY DEF TypeOK, InService, Places
  <2>2. M = MethodOf(U.method)
    BY DEF M
  <2>3. ASSUME InService, M.probes = "source"
        PROVE  /\ \E n \in 0..Len(Priority) : Chosen(selected) = passes \cap Tried(n)
               /\ Cardinality(Chosen(selected)) = NumProbes
               /\ production = Sources \ Chosen(selected)
    BY <2>2, <2>3, InjectiveCardinality, BankFacts DEF ServiceInv, JobOK
  <2>4. ASSUME place = "close", M.probes = "source", ~Issued
        PROVE  Cardinality(Good) < NumProbes /\ receipts = Sources
    BY <2>2, <2>4 DEF ServiceInv, JobOK, Refused, Issued
  <2>5. ASSUME InService, M.probes = "gold"
        PROVE  Chosen(selected) = Gold /\ Gold \subseteq passes
    BY <2>2, <2>5 DEF ServiceInv, JobOK
  <2> QED BY <2>3, <2>4, <2>5 DEF PreparationSound
<1> QED BY <1>1, TypeInit, TypeStep, SearchInit, SearchStep, ServiceInit, ServiceStep, PTL DEF Spec

(* A template keeps the receipts of its preparation and no later audit's.  *)
THEOREM AuditsStayOutAlways == Spec => []AuditsStayOut
<1>1. TypeOK /\ ServiceInv => AuditsStayOut
  <2> SUFFICES ASSUME TypeOK, ServiceInv, NEW m \in DOMAIN templates
               PROVE  CASE MethodOf(m).probes = "source" ->
                             /\ \E n \in 1..Len(Priority) :
                                  /\ templates[m].receipts = Tried(n)
                                  /\ Priority[n] = templates[m].selected[NumProbes]
                             /\ Len(templates[m].selected) = NumProbes
                        [] MethodOf(m).probes = "gold" -> templates[m].receipts = Gold
                        [] OTHER -> templates[m].receipts = {}
    BY DEF AuditsStayOut
  <2>1. TemplateOK(m, templates[m], passes)
    BY DEF ServiceInv
  <2>2. MethodOf(m).probes \in {"none", "source", "gold"}
    BY MethodFacts DEF TypeOK, MethodType
  <2> QED BY <2>1, <2>2 DEF TemplateOK, JobOK, RefsOK
<1> QED BY <1>1, TypeInit, TypeStep, SearchInit, SearchStep, ServiceInit, ServiceStep, PTL DEF Spec

-------------------------------------------------------------------------------
(* One production for the whole group.  Once the group has targets, every   *)
(* template, every job in service and every issued row has them; while it  *)
(* has none nothing was issued.                                            *)

Listed(s) == \E S : s \in Seq(S)

PairInv ==
  /\ Listed(rows)
  /\ targets = {} \/ \E p : targets = {p}
  /\ place = "fixture" => targets = {}
  /\ \A m \in DOMAIN templates : targets = {templates[m].production}
  /\ \A a \in DOMAIN rows : rows[a].issued => targets = {rows[a].production}
  /\ InService => targets = {production}
  /\ place = "close" /\ Issued => targets = {production}

LEMMA AppendListed ==
  ASSUME NEW s, NEW e, Listed(s)
  PROVE  /\ Listed(Append(s, e))
         /\ \A i \in DOMAIN Append(s, e) :
              Append(s, e)[i] = e \/ (i \in DOMAIN s /\ Append(s, e)[i] = s[i])
<1>1. PICK S : s \in Seq(S)
  BY DEF Listed
<1>2. s \in Seq(S \cup {e})
  BY <1>1
<1>3. Append(s, e) \in Seq(S \cup {e})
  BY <1>2
<1> QED BY <1>2, <1>3 DEF Listed

LEMMA PairInit == Init => PairInv
<1> SUFFICES ASSUME Init PROVE PairInv
  OBVIOUS
<1>1. rows = <<>> /\ <<>> \in Seq({})
  BY DEF Init
<1> QED BY <1>1 DEF Init, PairInv, InService, Listed

(* A delivery to the group's targets.                                      *)
LEMMA DeliverPair ==
  ASSUME PairInv, NEW p, Deliver(p), rows' = rows, targets' = {p},
         targets = {} \/ targets = {p}
  PROVE  PairInv'
<1>1. production' = p /\ place' \in {"serve", "direct"}
  BY DEF Deliver, ServeFrom
<1>2. \A m \in DOMAIN templates : templates[m].production = p
  BY DEF PairInv
<1>3. \A m \in DOMAIN templates' : templates'[m].production = p
  <2>1. CASE Reusable
    <3>1. templates' = [m \in DOMAIN templates \cup {U.method} |->
                          IF m = U.method THEN Template(p) ELSE templates[m]]
      BY <2>1 DEF Deliver
    <3>2. Template(p).production = p
      BY DEF Template
    <3> QED BY <1>2, <3>1, <3>2
  <2>2. CASE ~Reusable
    BY <1>2, <2>2 DEF Deliver
  <2> QED BY <2>1, <2>2
<1>4. \A a \in DOMAIN rows' : rows'[a].issued => rows'[a].production = p
  BY DEF PairInv
<1>5. Listed(rows')
  BY DEF PairInv
<1> QED BY <1>1, <1>3, <1>4, <1>5 DEF PairInv

LEMMA PairStep == TypeOK /\ SearchInv /\ PairInv /\ [Next]_vars => PairInv'
<1> SUFFICES ASSUME TypeOK, SearchInv, PairInv, [Next]_vars PROVE PairInv'
  OBVIOUS
<1>1. ASSUME UNCHANGED <<targets, rows>>,
             \A m \in DOMAIN templates' : m \in DOMAIN templates /\ templates'[m] = templates[m],
             place' = "fixture" => targets = {},
             place' \in {"serve", "reported", "audit", "direct"} => targets = {production'},
             place' = "close" => ~Issued' \/ targets = {production'}
      PROVE  PairInv'
  BY <1>1 DEF PairInv, InService
<1>2. ASSUME NEW i \in left, StartUnit(i) PROVE PairInv'
  BY <1>1, <1>2 DEF StartUnit, group
<1>3. CASE TrySource
  <2>1. place \in {"fixture", "try"} /\ UNCHANGED <<targets, rows, templates, place>>
    BY <1>3 DEF TrySource, Searching, group
  <2> QED BY <1>1, <2>1 DEF PairInv
<1>4. CASE FixtureDone
  <2>1. targets = {} /\ place' = "begin" /\ UNCHANGED <<rows, templates>>
    BY <1>4 DEF FixtureDone, PairInv
  <2>2. targets' = {} \/ \E p : targets' = {p}
    BY <1>4 DEF FixtureDone
  <2> QED BY <2>1, <2>2 DEF PairInv, InService
<1>5. CASE Reuse
  <2>1. /\ U.method \in DOMAIN templates /\ production' = templates[U.method].production
        /\ UNCHANGED <<targets, rows, templates>> /\ place' \in {"serve", "direct"}
    BY <1>5 DEF Reuse, ServeFrom, Templated, group
  <2>2. targets = {production'}
    BY <2>1 DEF PairInv
  <2> QED BY <1>1, <2>1, <2>2
<1>6. CASE Prepare
  <2>1. CASE UNCHANGED <<targets, rows, templates>> /\ place' \in {"raised", "try"}
    BY <1>1, <2>1
  <2>2. CASE ~(UNCHANGED <<targets, rows, templates>> /\ place' \in {"raised", "try"})
    <3>1. PICK p \in targets : Deliver(p)
      BY <1>6, <2>2 DEF Prepare, Raise, group
    <3>2. UNCHANGED <<targets, rows>>
      BY <1>6 DEF Prepare, Raise, group
    <3>3. targets = {p}
      BY <3>1 DEF PairInv
    <3> QED BY <3>1, <3>2, <3>3, DeliverPair
  <2> QED BY <2>1, <2>2
<1>7. CASE NotIssued
  <2>1. UNCHANGED <<unit, plan, selected, targets, rows, templates>> /\ place' = "close" /\ ~Issued
    BY <1>7 DEF NotIssued, fixed, schedule, choice, group
  <2>2. ~Issued'
    BY <2>1 DEF Issued, M, U
  <2> QED BY <1>1, <2>1, <2>2
<1>8. CASE Prepared
  <2>1. PICK p \in IF Gilded THEN targets ELSE {Rest} :
          IF targets # {} /\ targets # {p} THEN Raise /\ UNCHANGED fixed
          ELSE /\ Deliver(p) /\ targets' = {p}
               /\ UNCHANGED <<fixed, schedule, folders, rows, cache, tried, selected, folder, reports,
                              serving>>
    BY <1>8 DEF Prepared
  <2>2. CASE targets # {} /\ targets # {p}
    BY <1>1, <2>1, <2>2 DEF Raise, group
  <2>3. CASE ~(targets # {} /\ targets # {p})
    BY <2>1, <2>3, DeliverPair
  <2> QED BY <2>2, <2>3
<1>9. CASE Serve \/ Draw \/ Settle \/ Served
  <2>1. InService /\ UNCHANGED <<targets, rows, templates, production>>
    BY <1>9 DEF Serve, Draw, Settle, Served, InService, Raise, group, choice
  <2>2. place' # "fixture"
    BY <1>9 DEF Serve, Draw, Settle, Served, Raise
  <2> QED BY <1>1, <2>1, <2>2 DEF PairInv
<1>10. ASSUME NEW s \in Sources, Audit(s) \/ Direct(s) PROVE PairInv'
  <2>1. InService /\ UNCHANGED <<targets, rows, templates, production, place>>
    BY <1>10 DEF Audit, Direct, InService, group, choice
  <2>2. place # "fixture"
    BY <1>10 DEF Audit, Direct
  <2> QED BY <1>1, <2>1, <2>2 DEF PairInv
<1>11. CASE FinishUnit
  <2>1. CASE Raise
    BY <1>1, <2>1 DEF Raise, group
  <2>2. CASE ~Raise
    <3>1. PICK r : /\ r = [unit |-> unit, issued |-> Issued, route |-> Route,
                           production |-> production, reports |-> reports]
                   /\ rows' = Append(rows, r)
      BY <1>11, <2>2 DEF FinishUnit
    <3>2. place = "close" /\ place' = "idle" /\ targets' = targets
      BY <1>11, <2>2 DEF FinishUnit
    <3>3. \A m \in DOMAIN templates' : m \in DOMAIN templates /\ templates'[m] = templates[m]
      BY <1>11, <2>2 DEF FinishUnit
    <3>4. r.issued => targets = {r.production}
      BY <3>1, <3>2 DEF PairInv
    <3>5. Listed(rows) /\ \A a \in DOMAIN rows : rows[a].issued => targets = {rows[a].production}
      BY DEF PairInv
    <3>6. /\ Listed(rows')
          /\ \A i \in DOMAIN rows' : rows'[i] = r \/ (i \in DOMAIN rows /\ rows'[i] = rows[i])
      BY <3>1, <3>5, AppendListed
    <3>7. \A a \in DOMAIN rows' : rows'[a].issued => targets' = {rows'[a].production}
      BY <3>2, <3>4, <3>5, <3>6
    <3> QED BY <3>2, <3>3, <3>6, <3>7 DEF PairInv, InService
  <2> QED BY <2>1, <2>2
<1>12. CASE EndGroup
  BY <1>1, <1>12 DEF EndGroup, group
<1>13. CASE UNCHANGED vars
  <2>1. UNCHANGED <<targets, rows, templates, place, production, selected, unit, plan>>
    BY <1>13 DEF vars, fixed, schedule, group, choice
  <2>2. Issued' = Issued
    BY <2>1 DEF Issued, M, U
  <2> QED BY <1>1, <2>1, <2>2 DEF PairInv, InService
<1> QED BY <1>2, <1>3, <1>4, <1>5, <1>6, <1>7, <1>8, <1>9, <1>10, <1>11, <1>12, <1>13 DEF Next

(* Whatever the order of methods, and with or without reuse, all jobs that *)
(* were issued in a group have the same production targets.                *)
THEOREM SameProductionAlways == Spec => []SameProduction
<1>1. PairInv => SameProduction
  <2> SUFFICES ASSUME PairInv PROVE SameProduction
    OBVIOUS
  <2>1. ASSUME NEW a \in DOMAIN rows, NEW b \in DOMAIN rows, rows[a].issued, rows[b].issued
        PROVE  rows[a].production = rows[b].production
    <3>1. targets = {rows[a].production} /\ targets = {rows[b].production}
      BY <2>1 DEF PairInv
    <3> QED BY <3>1
  <2>2. InService => targets = {production}
    BY DEF PairInv
  <2> QED BY <2>1, <2>2 DEF SameProduction
<1> QED BY <1>1, TypeInit, TypeStep, SearchInit, SearchStep, PairInit, PairStep, PTL DEF Spec

(* What GroupPrepared joins: probes, production and references of every    *)
(* job of a group are settled by the sources and by nothing an earlier job *)
(* did.                                                                    *)
THEOREM GroupPreparedAlways == Spec => []GroupPrepared
<1>1. PreparationSound /\ SameProduction /\ AuditsStayOut => GroupPrepared
  BY DEF GroupPrepared
<1> QED BY <1>1, PreparationSoundAlways, SameProductionAlways, AuditsStayOutAlways, PTL

-------------------------------------------------------------------------------
(* What a settled report is worth.                                         *)

ReportOK(u, r, prod, good) ==
  LET method == MethodOf(u.method)
  IN  /\ u.behavior = "honest" => r.status = "PASS"
      /\ u.behavior \in {"constant-accept", "constant-reject"} /\ method.probes # "none"
           => r.status # "PASS"
      /\ \/ method.audit = Cardinality(prod)
         \/ method.opaque /\ method.probes # "none" /\ u.behavior \notin {"partial", "shortcut"}
         => (r.status = "PASS" => \A s \in prod : r.verdicts[s] <=> s \in good)

(* A delivered job: production and probes are different sources and every  *)
(* probe's source passes; two probes answered wrongly fail any method.     *)
LEMMA JobFacts ==
  ASSUME NEW m \in MethodKeys, NEW sel, NEW prod, NEW good, JobOK(m, sel, prod, good)
  PROVE  /\ \A s \in prod : s \notin Chosen(sel)
         /\ MethodOf(m).probes # "none" => Chosen(sel) \subseteq good
         /\ MethodOf(m).probes = "none" => Chosen(sel) = {}
         /\ Challenged(sel) \subseteq Chosen(sel)
         /\ IsFiniteSet(prod)
<1>1. Challenged(sel) \subseteq Chosen(sel)
  BY DEF Challenged, Chosen
<1>2. MethodOf(m).probes \in {"none", "source", "gold"}
  BY MethodFacts DEF MethodType
<1>3. MethodOf(m).probes = "none" => Chosen(sel) = {}
  BY DEF JobOK, Chosen
<1>4. \A s \in prod : s \notin Chosen(sel)
  <2>1. CASE MethodOf(m).probes = "source"
    BY <2>1 DEF JobOK
  <2>2. CASE MethodOf(m).probes = "gold"
    BY <2>2, BankAssumption DEF JobOK
  <2> QED BY <1>2, <1>3, <2>1, <2>2
<1>5. IsFiniteSet(Sources)
  <2>1. Priority \in Seq(AllSources) /\ Injective(Priority)
    BY BankAssumption, BankFacts DEF Injective, AllSources
  <2>2. Chosen(Priority) = Sources
    BY DEF Chosen, Sources
  <2> QED BY <2>1, <2>2, InjectiveCardinality
<1>6. IsFiniteSet(prod)
  BY <1>5, FS_Subset DEF JobOK
<1> QED BY <1>1, <1>3, <1>4, <1>6 DEF JobOK

LEMMA TwoMismatches ==
  ASSUME NEW m \in MethodKeys, NEW sel, NEW prod, NEW good, JobOK(m, sel, prod, good),
         MethodOf(m).probes # "none", NEW ver,
         NEW i \in 1..NumProbes, NEW k \in 1..NumProbes, i # k,
         {sel[i], sel[k]} \subseteq ProbeMismatches(ver, sel)
  PROVE  Cardinality(ProbeMismatches(ver, sel)) >= MethodOf(m).threshold
<1>1. sel \in Seq(AllSources) /\ Injective(sel) /\ Len(sel) = NumProbes
  BY DEF JobOK
<1>2. sel[i] # sel[k]
  BY <1>1 DEF Injective
<1>3. IsFiniteSet(ProbeMismatches(ver, sel))
  <2>1. ProbeMismatches(ver, sel) \subseteq Chosen(sel)
    BY DEF ProbeMismatches
  <2> QED BY <1>1, <2>1, InjectiveCardinality, FS_Subset
<1>4. IsFiniteSet({sel[i]}) /\ Cardinality({sel[i]}) = 1
  BY FS_Singleton
<1>5. Cardinality({sel[i]} \cup {sel[k]}) = 2
  <2>1. Cardinality({sel[i]} \cup {sel[k]}) =
          IF sel[k] \in {sel[i]} THEN Cardinality({sel[i]}) ELSE Cardinality({sel[i]}) + 1
    BY <1>4, FS_AddElement
  <2> QED BY <1>2, <1>4, <2>1
<1>6. Cardinality({sel[i]} \cup {sel[k]}) <= Cardinality(ProbeMismatches(ver, sel))
  BY <1>3, FS_Subset
<1>7. Cardinality(ProbeMismatches(ver, sel)) \in Nat
  BY <1>3, FS_CardinalityType
<1>8. MethodOf(m).threshold \in {1, 2}
  BY MethodFacts DEF MethodType
<1> QED BY <1>5, <1>6, <1>7, <1>8

(* Which probes are challenges.                                            *)
LEMMA Positions ==
  ASSUME NEW sel \in Seq(AllSources), Injective(sel), Len(sel) = NumProbes
  PROVE  /\ {1, 2, Controls + 1, Controls + 2} \subseteq 1..NumProbes
         /\ \A i \in 1..NumProbes : sel[i] \in Chosen(sel)
         /\ \A i \in {1, 2} : sel[i] \notin Challenged(sel)
         /\ \A i \in {Controls + 1, Controls + 2} : sel[i] \in Challenged(sel)
<1>1. {1, 2, Controls + 1, Controls + 2} \subseteq 1..NumProbes
  BY ProbeNumbers
<1>2. DOMAIN sel = 1..NumProbes
  OBVIOUS
<1>3. \A i \in {1, 2} : sel[i] \notin Challenged(sel)
  <2> SUFFICES ASSUME NEW i \in {1, 2}, NEW k \in DOMAIN sel, k > Controls, sel[k] = sel[i]
               PROVE  FALSE
    BY DEF Challenged
  <2>1. i \in 1..NumProbes /\ i <= Controls /\ k \in 1..NumProbes
    BY <1>1, <1>2, ProbeNumbers
  <2>2. i = k
    BY <2>1 DEF Injective
  <2> QED BY <2>1, <2>2, ProbeNumbers
<1>4. \A i \in {Controls + 1, Controls + 2} : sel[i] \in Challenged(sel)
  <2>1. \A i \in {Controls + 1, Controls + 2} : i \in DOMAIN sel /\ i > Controls
    BY <1>1, <1>2, ProbeNumbers
  <2> QED BY <2>1 DEF Challenged
<1>5. \A i \in 1..NumProbes : sel[i] \in Chosen(sel)
  BY <1>2 DEF Chosen
<1> QED BY <1>1, <1>3, <1>4, <1>5

LEMMA ReportSettles ==
  ASSUME NEW u, u.method \in MethodKeys, NEW sel, NEW prod, NEW good, JobOK(u.method, sel, prod, good),
         NEW ver, NEW h, NEW d, d \subseteq prod, Cardinality(d) = MethodOf(u.method).audit,
         \A s \in prod \cup Chosen(sel) :
           ver[s] = Verdict(u.behavior, s, h, MethodOf(u.method), Sources, good, sel)
  PROVE  ReportOK(u, [verdicts |-> ver, status |-> Status(ver, d, MethodOf(u.method), good, sel)],
                  prod, good)
<1> DEFINE method == MethodOf(u.method)
           status == Status(ver, d, method, good, sel)
<1>0. method \in MethodType
  BY MethodFacts
<1>1. /\ \A s \in prod : s \notin Chosen(sel) /\ s \notin Challenged(sel)
      /\ method.probes # "none" => Chosen(sel) \subseteq good
      /\ method.probes = "none" => Chosen(sel) = {}
      /\ IsFiniteSet(prod)
  BY JobFacts
<1>2. ASSUME u.behavior = "honest" PROVE status = "PASS"
  <2>1. \A s \in prod \cup Chosen(sel) : ver[s] = Outcome(s, good, sel)
    BY <1>2 DEF Verdict
  <2>2. ProbeMismatches(ver, sel) = {}
    <3> SUFFICES ASSUME NEW s \in Chosen(sel) PROVE ver[s] = ProbeAnswer(s, sel)
      BY DEF ProbeMismatches
    <3>1. s \in good
      BY <1>1, <1>0 DEF MethodType
    <3> QED BY <2>1, <3>1 DEF Outcome, ProbeAnswer
  <2>3. AuditMismatches(ver, d, good) = {}
    <3> SUFFICES ASSUME NEW s \in d PROVE ver[s] = (s \in good)
      BY DEF AuditMismatches
    <3> QED BY <1>1, <2>1 DEF Outcome
  <2>4. ~(Cardinality({}) >= method.threshold)
    BY <1>0, FS_EmptySet DEF MethodType
  <2> QED BY <2>2, <2>3, <2>4 DEF Status
<1>3. ASSUME u.behavior \in {"constant-accept", "constant-reject"}, method.probes # "none"
      PROVE  status # "PASS"
  <2>1. sel \in Seq(AllSources) /\ Injective(sel) /\ Len(sel) = NumProbes
    BY <1>3 DEF JobOK
  <2>2. /\ {1, 2, Controls + 1, Controls + 2} \subseteq 1..NumProbes
        /\ \A i \in 1..NumProbes : sel[i] \in Chosen(sel)
        /\ \A i \in {1, 2} : sel[i] \notin Challenged(sel)
        /\ \A i \in {Controls + 1, Controls + 2} : sel[i] \in Challenged(sel)
    BY <2>1, Positions
  <2>3. Cardinality(ProbeMismatches(ver, sel)) >= method.threshold
    <3>1. CASE u.behavior = "constant-accept"
      <4>1. \A s \in Chosen(sel) : ver[s] = TRUE
        BY <3>1 DEF Verdict
      <4>2. {sel[Controls + 1], sel[Controls + 2]} \subseteq ProbeMismatches(ver, sel)
        BY <2>2, <4>1 DEF ProbeMismatches, ProbeAnswer
      <4>3. Controls + 1 # Controls + 2
        BY ProbeNumbers
      <4> QED BY <1>3, <2>2, <4>2, <4>3, TwoMismatches
    <3>2. CASE u.behavior = "constant-reject"
      <4>1. \A s \in Chosen(sel) : ver[s] = FALSE
        BY <3>2 DEF Verdict
      <4>2. {sel[1], sel[2]} \subseteq ProbeMismatches(ver, sel)
        BY <2>2, <4>1 DEF ProbeMismatches, ProbeAnswer
      <4> QED BY <1>3, <2>2, <4>2, TwoMismatches
    <3> QED BY <1>3, <3>1, <3>2
  <2> QED BY <2>3 DEF Status
<1>4. ASSUME method.audit = Cardinality(prod), status = "PASS", NEW s \in prod
      PROVE  ver[s] <=> s \in good
  <2>1. d = prod
    BY <1>1, <1>4, FS_Subset
  <2>2. AuditMismatches(ver, d, good) = {}
    BY <1>4 DEF Status
  <2> QED BY <2>1, <2>2 DEF AuditMismatches
<1>5. ASSUME method.opaque, method.probes # "none", u.behavior \notin {"partial", "shortcut"},
             status = "PASS", NEW s \in prod
      PROVE  ver[s] <=> s \in good
  <2>1. u.behavior \notin {"constant-accept", "constant-reject"}
    BY <1>3, <1>5
  <2>2. ver[s] = Outcome(s, good, sel)
    BY <1>5, <2>1 DEF Verdict, Recognized
  <2> QED BY <1>1, <2>2 DEF Outcome
<1> QED BY <1>2, <1>3, <1>4, <1>5 DEF ReportOK

(* The reports that passed agree on every target, so the majority does.    *)
LEMMA DecisionSound ==
  ASSUME NEW prod, NEW good, NEW reps, Listed(reps),
         \A v \in DOMAIN reps : reps[v].status = "PASS" =>
           \A s \in prod : reps[v].verdicts[s] <=> s \in good
  PROVE  /\ Decision(prod, reps) = "accept" => prod \subseteq good
         /\ Decision(prod, reps) = "reject" => ~(prod \subseteq good)
<1> DEFINE voters == Eligible(reps)
<1>1. IsFiniteSet(voters) /\ Cardinality(voters) \in Nat
  <2>1. PICK S : reps \in Seq(S)
    BY DEF Listed
  <2>2. DOMAIN reps = 1..Len(reps) /\ Len(reps) \in Nat
    BY <2>1
  <2>3. IsFiniteSet(DOMAIN reps)
    BY <2>2, FS_Interval
  <2>4. voters \subseteq DOMAIN reps
    BY DEF Eligible
  <2> QED BY <2>3, <2>4, FS_Subset, FS_CardinalityType
<1>2. ASSUME NEW s \in prod, s \in good PROVE Accepting(s, voters, reps) = voters
  BY <1>2 DEF Eligible, Accepting
<1>3. ASSUME NEW s \in prod, s \notin good PROVE Accepting(s, voters, reps) = {}
  BY <1>3 DEF Eligible, Accepting
<1>4. ASSUME NEW s \in prod, Cardinality(voters) >= Quorum
      PROVE  Accepts(s, voters, reps) <=> s \in good
  <2>1. Cardinality(voters) >= 3
    BY <1>4 DEF Quorum
  <2>2. CASE s \in good
    BY <1>1, <1>2, <2>1, <2>2 DEF Accepts
  <2>3. CASE s \notin good
    BY <1>1, <1>3, <2>1, <2>3, FS_EmptySet DEF Accepts
  <2> QED BY <2>2, <2>3
<1>5. Decision(prod, reps) \in {"accept", "reject"} => Cardinality(voters) >= Quorum
  BY <1>1 DEF Decision, Quorum
<1>6. Decision(prod, reps) = "accept" => \A s \in prod : Accepts(s, voters, reps)
  BY DEF Decision
<1>7. Decision(prod, reps) = "reject" => ~(\A s \in prod : Accepts(s, voters, reps))
  BY DEF Decision
<1> QED BY <1>4, <1>5, <1>6, <1>7

ReportsOK(u, reps, prod, good) ==
  Listed(reps) /\ \A v \in DOMAIN reps : ReportOK(u, reps[v], prod, good)

RowOK(u, r, good) ==
  LET method == MethodOf(u.method)
  IN  /\ ReportsOK(u, r.reports, r.production, good)
      /\ \/ method.direct
         \/ method.audit = Cardinality(r.production)
         \/ method.opaque /\ method.probes # "none" /\ u.behavior \notin {"partial", "shortcut"}
         => /\ r.route = "accept" => r.production \subseteq good
            /\ r.route = "reject" => ~(r.production \subseteq good)

ServedInv ==
  /\ place \in {"fixture", "begin", "try"} => reports = <<>>
  /\ place \in {"reported", "audit"} =>
       \A s \in Tasks :
         verdicts[s] = Verdict(U.behavior, s, hunch, M, Sources, passes, selected)
  /\ place = "audit" => drawn \subseteq production /\ Cardinality(drawn) = M.audit
  /\ InService \/ place = "close" => ReportsOK(U, reports, production, passes)
  /\ Listed(rows)
  /\ \A a \in DOMAIN rows : RowOK(plan.units[rows[a].unit], rows[a], passes)

LEMMA NoReportsOK == ASSUME NEW u, NEW prod, NEW good PROVE ReportsOK(u, <<>>, prod, good)
<1>1. <<>> \in Seq({}) /\ DOMAIN <<>> = {}
  OBVIOUS
<1> QED BY <1>1 DEF ReportsOK, Listed

LEMMA ServedInit == Init => ServedInv
<1>1. rows = <<>> /\ place = "idle" /\ reports = <<>> => ServedInv
  <2>1. <<>> \in Seq({}) /\ DOMAIN <<>> = {}
    OBVIOUS
  <2> QED BY <2>1 DEF ServedInv, InService, Listed
<1> QED BY <1>1 DEF Init

LEMMA ServedStep ==
  TypeOK /\ SearchInv /\ ServiceInv /\ ServedInv /\ [Next]_vars => ServedInv'
<1> SUFFICES ASSUME TypeOK, SearchInv, ServiceInv, ServedInv, [Next]_vars PROVE ServedInv'
  OBVIOUS
<1> DEFINE RowsOK == Listed(rows) /\ \A a \in DOMAIN rows :
                       RowOK(plan.units[rows[a].unit], rows[a], passes)
<1>0. RowsOK /\ (UNCHANGED <<rows, plan, passes>> => RowsOK')
  BY DEF ServedInv
(* Nothing was reported yet. *)
<1>1. ASSUME UNCHANGED <<rows, plan, passes>>, reports' = <<>>, place' \notin {"reported", "audit"}
      PROVE  ServedInv'
  <2>1. ReportsOK(U', reports', production', passes')
    BY <1>1, NoReportsOK
  <2> QED BY <1>0, <1>1, <2>1 DEF ServedInv
(* The service goes on: what the unit is about does not change. *)
<1>2. ASSUME UNCHANGED <<rows, plan, passes, unit, selected, production>>, InService
      PROVE  /\ RowsOK' /\ U' = U /\ M' = M /\ Tasks' = Tasks
             /\ ReportsOK(U, reports, production, passes)
             /\ (reports' = reports => ReportsOK(U, reports, production, passes)')
  <2>1. U' = U /\ M' = M /\ Tasks' = Tasks
    BY <1>2 DEF U, M, Tasks
  <2>2. ReportsOK(U, reports, production, passes)
    BY <1>2 DEF ServedInv
  <2> QED BY <1>0, <1>2, <2>1, <2>2
<1>3. ASSUME NEW i \in left, StartUnit(i) PROVE ServedInv'
  BY <1>1, <1>3 DEF StartUnit, fixed, group
<1>4. CASE TrySource
  <2>1. UNCHANGED <<rows, plan, passes>> /\ reports' = <<>> /\ place' \in {"fixture", "try"}
    BY <1>4 DEF TrySource, Searching, fixed, group, ServedInv
  <2> QED BY <1>1, <2>1
<1>5. CASE FixtureDone
  <2>1. UNCHANGED <<rows, plan, passes>> /\ reports' = <<>> /\ place' = "begin"
    BY <1>5 DEF FixtureDone, fixed, ServedInv
  <2> QED BY <1>1, <2>1
<1>6. CASE Reuse
  <2>1. UNCHANGED <<rows, plan, passes>> /\ reports' = <<>> /\ place' \in {"serve", "direct"}
    BY <1>6 DEF Reuse, ServeFrom, fixed, group, ServedInv
  <2> QED BY <1>1, <2>1
<1>7. CASE Prepare
  <2>1. /\ UNCHANGED <<rows, plan, passes>> /\ reports' = <<>>
        /\ place' \in {"raised", "try", "serve", "direct"}
    BY <1>7 DEF Prepare, Raise, Deliver, ServeFrom, fixed, group, ServedInv
  <2> QED BY <1>1, <2>1
<1>8. CASE NotIssued
  <2>1. UNCHANGED <<rows, plan, passes>> /\ reports' = <<>> /\ place' = "close"
    BY <1>8 DEF NotIssued, fixed, group, ServedInv
  <2> QED BY <1>1, <2>1
<1>9. CASE Prepared
  <2>1. UNCHANGED <<rows, plan, passes>> /\ reports' = <<>>
    BY <1>9 DEF Prepared, Raise, fixed, group, ServedInv
  <2>2. place' \in {"raised", "serve", "direct"}
    BY <1>9 DEF Prepared, Raise, Deliver, ServeFrom
  <2> QED BY <1>1, <2>1, <2>2
<1>10. ASSUME Raise, UNCHANGED fixed PROVE ServedInv'
  BY <1>0, <1>10 DEF Raise, fixed, group, ServedInv, InService
<1>11. CASE Serve
  <2>1. CASE Raise /\ UNCHANGED fixed
    BY <1>10, <2>1
  <2>2. CASE ~(Raise /\ UNCHANGED fixed)
    <3>1. /\ UNCHANGED <<rows, plan, passes, unit, selected, production, hunch, reports>>
          /\ verdicts' = [s \in Tasks |-> Verdict(U.behavior, s, hunch, M, Sources, passes, selected)]
          /\ place' = "reported" /\ InService
      BY <1>11, <2>2 DEF Serve, fixed, schedule, group, choice, InService
    <3>2. \A s \in Tasks : verdicts'[s] = Verdict(U.behavior, s, hunch, M, Sources, passes, selected)
      BY <3>1
    <3>3. /\ RowsOK' /\ U' = U /\ M' = M /\ Tasks' = Tasks
          /\ ReportsOK(U, reports, production, passes)'
      BY <1>2, <3>1
    <3>4. \A s \in Tasks' : verdicts'[s] = Verdict(U'.behavior, s, hunch', M', Sources, passes', selected')
      BY <3>1, <3>2, <3>3
    <3> QED BY <3>1, <3>3, <3>4 DEF ServedInv
  <2> QED BY <2>1, <2>2
<1>12. CASE Draw
  <2>1. /\ UNCHANGED <<rows, plan, passes, unit, selected, production, hunch, reports, verdicts>>
        /\ drawn' \subseteq production /\ Cardinality(drawn') = M.audit
        /\ place = "reported" /\ place' = "audit" /\ InService
    BY <1>12 DEF Draw, fixed, schedule, group, choice, InService
  <2>2. \A s \in Tasks : verdicts[s] = Verdict(U.behavior, s, hunch, M, Sources, passes, selected)
    BY <2>1 DEF ServedInv
  <2>3. /\ RowsOK' /\ U' = U /\ M' = M /\ Tasks' = Tasks
        /\ ReportsOK(U, reports, production, passes)'
    BY <1>2, <2>1
  <2>4. \A s \in Tasks' : verdicts'[s] = Verdict(U'.behavior, s, hunch', M', Sources, passes', selected')
    BY <2>1, <2>2, <2>3
  <2> QED BY <2>1, <2>3, <2>4 DEF ServedInv
<1>13. ASSUME NEW s \in Sources, Audit(s) PROVE ServedInv'
  <2>1. /\ UNCHANGED <<rows, plan, passes, unit, selected, production, hunch, reports, verdicts, drawn>>
        /\ place = "audit" /\ place' = "audit" /\ InService
    BY <1>13 DEF Audit, fixed, schedule, group, choice, InService
  <2>2. /\ \A x \in Tasks : verdicts[x] = Verdict(U.behavior, x, hunch, M, Sources, passes, selected)
        /\ drawn \subseteq production /\ Cardinality(drawn) = M.audit
    BY <2>1 DEF ServedInv
  <2>3. /\ RowsOK' /\ U' = U /\ M' = M /\ Tasks' = Tasks
        /\ ReportsOK(U, reports, production, passes)'
    BY <1>2, <2>1
  <2>4. \A x \in Tasks' : verdicts'[x] = Verdict(U'.behavior, x, hunch', M', Sources, passes', selected')
    BY <2>1, <2>2, <2>3
  <2> QED BY <2>1, <2>2, <2>3, <2>4 DEF ServedInv
<1>14. CASE Settle
  <2> DEFINE r == [verdicts |-> verdicts, status |-> Status(verdicts, drawn, M, passes, selected)]
  <2>1. CASE Raise /\ UNCHANGED fixed
    BY <1>10, <2>1
  <2>2. CASE ~(Raise /\ UNCHANGED fixed)
    <3>1. /\ UNCHANGED <<rows, plan, passes, unit, selected, production>>
          /\ reports' = Append(reports, r) /\ place = "audit" /\ place' = "serve" /\ InService
      BY <1>14, <2>2 DEF Settle, fixed, schedule, group, choice, InService
    <3>2. unit # 0
      BY <3>1 DEF TypeOK, Places
    <3>3. ReportOK(U, r, production, passes)
      <4>1. U.method \in MethodKeys /\ M = MethodOf(U.method)
        BY <3>2, UnitFacts DEF M
      <4>2. JobOK(U.method, selected, production, passes)
        BY <3>1 DEF ServiceInv
      <4>3. /\ \A x \in production \cup Chosen(selected) : 
                 verdicts[x] = Verdict(U.behavior, x, hunch, MethodOf(U.method), Sources, passes,
                                       selected)
            /\ drawn \subseteq production /\ Cardinality(drawn) = MethodOf(U.method).audit
        BY <3>1, <4>1 DEF ServedInv, Tasks
      <4>4. ReportOK(U, [verdicts |-> verdicts,
                         status |-> Status(verdicts, drawn, MethodOf(U.method), passes, selected)],
                     production, passes)
        BY <4>1, <4>2, <4>3, ReportSettles
      <4> QED BY <4>1, <4>4
    <3>4. RowsOK' /\ U' = U /\ ReportsOK(U, reports, production, passes)
      BY <1>2, <3>1
    <3>5. ReportsOK(U, Append(reports, r), production, passes)
      <4>1. Listed(reports) /\ \A v \in DOMAIN reports : ReportOK(U, reports[v], production, passes)
        BY <3>4 DEF ReportsOK
      <4> HIDE DEF r
      <4>2. /\ Listed(Append(reports, r))
            /\ \A v \in DOMAIN Append(reports, r) :
                 Append(reports, r)[v] = r \/ (v \in DOMAIN reports /\ Append(reports, r)[v] = reports[v])
        BY <4>1, AppendListed
      <4>3. \A v \in DOMAIN Append(reports, r) : ReportOK(U, Append(reports, r)[v], production, passes)
        BY <3>3, <4>1, <4>2
      <4> QED BY <4>2, <4>3 DEF ReportsOK
    <3>6. ReportsOK(U', reports', production', passes')
      BY <3>1, <3>4, <3>5
    <3> QED BY <3>1, <3>4, <3>6 DEF ServedInv
  <2> QED BY <2>1, <2>2
<1>15. ASSUME Served \/ \E s \in Sources : Direct(s) PROVE ServedInv'
  <2>1. /\ UNCHANGED <<rows, plan, passes, unit, selected, production, reports>>
        /\ InService /\ place' \in {"direct", "close"}
    BY <1>15 DEF Served, Direct, fixed, schedule, group, choice, InService
  <2>2. RowsOK' /\ ReportsOK(U, reports, production, passes)'
    BY <1>2, <2>1
  <2> QED BY <2>1, <2>2 DEF ServedInv
<1>16. CASE FinishUnit
  <2>1. CASE Raise /\ UNCHANGED fixed
    BY <1>10, <2>1
  <2>2. CASE ~(Raise /\ UNCHANGED fixed)
    <3> DEFINE r == [unit |-> unit, issued |-> Issued, route |-> Route,
                     production |-> production, reports |-> reports]
    <3>1. /\ rows' = Append(rows, r) /\ place = "close" /\ place' = "idle"
          /\ UNCHANGED <<plan, passes>>
      BY <1>16, <2>2 DEF FinishUnit, fixed
    <3>2. ReportsOK(U, reports, production, passes)
      BY <3>1 DEF ServedInv
    <3>3. RowOK(U, r, passes)
      <4>1. /\ M.direct => /\ Route = "accept" => production \subseteq passes
                           /\ Route = "reject" => ~(production \subseteq passes)
            /\ ~M.direct => /\ Route = "accept" => Decision(production, reports) = "accept"
                            /\ Route = "reject" => Decision(production, reports) = "reject"
        BY DEF Route
      <4>2. ASSUME \/ M.audit = Cardinality(production)
                   \/ M.opaque /\ M.probes # "none" /\ U.behavior \notin {"partial", "shortcut"}
            PROVE  /\ Decision(production, reports) = "accept" => production \subseteq passes
                   /\ Decision(production, reports) = "reject" => ~(production \subseteq passes)
        <5>1. Listed(reports) /\ \A v \in DOMAIN reports : reports[v].status = "PASS" =>
                \A s \in production : reports[v].verdicts[s] <=> s \in passes
          BY <3>2, <4>2 DEF ReportsOK, ReportOK, M
        <5> QED BY <5>1, DecisionSound
      <4> QED BY <3>2, <4>1, <4>2 DEF RowOK, M
    <3>4. r.unit = unit /\ U = plan.units[unit]
      BY DEF U
    <3> HIDE DEF r
    <3>5. /\ Listed(rows')
          /\ \A a \in DOMAIN rows' : rows'[a] = r \/ (a \in DOMAIN rows /\ rows'[a] = rows[a])
      BY <1>0, <3>1, AppendListed
    <3>6. \A a \in DOMAIN rows' : RowOK(plan.units[rows'[a].unit], rows'[a], passes)
      BY <1>0, <3>3, <3>4, <3>5
    <3> QED BY <3>1, <3>5, <3>6 DEF ServedInv, InService
  <2> QED BY <2>1, <2>2
<1>17. CASE EndGroup
  BY <1>0, <1>17 DEF EndGroup, fixed, group, ServedInv, InService
<1>18. CASE UNCHANGED vars
  BY <1>18 DEF vars, fixed, schedule, group, choice, serving, ServedInv, InService, Tasks, U, M
<1> QED BY <1>3, <1>4, <1>5, <1>6, <1>7, <1>8, <1>9, <1>11, <1>12, <1>13, <1>14, <1>15, <1>16, <1>17,
           <1>18 DEF Next

LEMMA ServedAlways == Spec => []ServedInv
  BY TypeInit, TypeStep, SearchInit, SearchStep, ServiceInit, ServiceStep, ServedInit, ServedStep,
     PTL DEF Spec

(* A verifier that replays everything and says what it found is paid by    *)
(* every method, whatever the trainer did and however the audit is drawn.  *)
THEOREM HonestPassesAlways == Spec => []HonestPasses
<1>1. ServedInv => HonestPasses
  BY DEF ServedInv, HonestPasses, RowOK, ReportsOK, ReportOK, BehaviorOf
<1> QED BY <1>1, ServedAlways, PTL

(* One answer for every task is never paid by a method with probes: the    *)
(* controls and the challenges are each at least its failure threshold.    *)
THEOREM NoFreeRideAlways == Spec => []NoFreeRide
<1>1. ServedInv => NoFreeRide
  BY DEF ServedInv, NoFreeRide, RowOK, ReportsOK, ReportOK, BehaviorOf, KeyOf
<1> QED BY <1>1, ServedAlways, PTL

(* What PaidForReplay joins: the honest are paid, the constant are not.     *)
THEOREM PaidForReplayAlways == Spec => []PaidForReplay
<1>1. HonestPasses /\ NoFreeRide => PaidForReplay
  BY DEF PaidForReplay
<1> QED BY <1>1, HonestPassesAlways, NoFreeRideAlways, PTL

(* Where the owner replays all production, or bindings are opaque and the  *)
(* verifiers replay what they cannot recognize, the trainer is accepted    *)
(* only if all its production replays and rejected only if some does not.  *)
THEOREM RouteSoundAlways == Spec => []RouteSound
<1>1. ServedInv => RouteSound
  BY DEF ServedInv, RouteSound, Claimed, RowOK, BehaviorOf, KeyOf
<1> QED BY <1>1, ServedAlways, PTL
-------------------------------------------------------------------------------
(* Deliveries on scratch.  A template's folder is that of the unit of its   *)
(* method that made it, so templates never share one; the only other       *)
(* folder there may be is that of the unit in progress.                    *)

Waiting == place \in {"idle", "done"}

DiskInv ==
  /\ place = "try" => folder = unit /\ unit \in folders /\ ~Templated
  /\ InService => folder \in folders
  /\ \A m \in DOMAIN templates :
       LET u == templates[m].folder
       IN  u \in folders /\ plan.units[u].functional /\ plan.units[u].method = m
  /\ \A u \in folders :
       (\E m \in DOMAIN templates : templates[m].folder = u) \/ (~Waiting /\ u = unit)

LEMMA DiskInit == Init => DiskInv
  BY DEF Init, DiskInv, InService, Waiting

(* A delivery from the folder the unit has just made.                      *)
LEMMA DeliverDisk ==
  ASSUME TypeOK, DiskInv, unit # 0, NEW p, Deliver(p), ~Templated,
         folder' = unit, folders' = folders \cup {unit}, unit' = unit, plan' = plan
  PROVE  DiskInv'
<1>1. place' \in {"serve", "direct"}
  BY DEF Deliver, ServeFrom
<1>2. \A m \in DOMAIN templates' :
        LET u == templates'[m].folder
        IN  u \in folders' /\ plan.units[u].functional /\ plan.units[u].method = m
  <2>1. CASE Reusable
    <3>1. templates' = [m \in DOMAIN templates \cup {U.method} |->
                          IF m = U.method THEN Template(p) ELSE templates[m]]
      BY <2>1 DEF Deliver
    <3>2. Template(p).folder = unit /\ U.functional /\ U = plan.units[unit]
      BY <2>1 DEF Template, Reusable, U
    <3> QED BY <3>1, <3>2 DEF DiskInv
  <2>2. CASE ~Reusable
    BY <2>2 DEF Deliver, DiskInv
  <2> QED BY <2>1, <2>2
<1>3. \A m \in DOMAIN templates : m \in DOMAIN templates' /\ templates'[m] = templates[m]
  <2>1. CASE Reusable
    <3>1. templates' = [m \in DOMAIN templates \cup {U.method} |->
                          IF m = U.method THEN Template(p) ELSE templates[m]]
      BY <2>1 DEF Deliver
    <3>2. U.method \notin DOMAIN templates
      BY <2>1 DEF Templated
    <3> QED BY <3>1, <3>2
  <2>2. CASE ~Reusable
    BY <2>2 DEF Deliver
  <2> QED BY <2>1, <2>2
<1>4. \A u \in folders' :
        (\E m \in DOMAIN templates' : templates'[m].folder = u) \/ u = unit
  BY <1>3 DEF DiskInv
<1> QED BY <1>1, <1>2, <1>4 DEF DiskInv, InService, Waiting

LEMMA DiskStep == TypeOK /\ DiskInv /\ [Next]_vars => DiskInv'
<1> SUFFICES ASSUME TypeOK, DiskInv, [Next]_vars PROVE DiskInv'
  OBVIOUS
(* Steps that leave scratch and the templates alone. *)
<1>1. ASSUME UNCHANGED <<templates, folders, plan>>,
             place' = "try" => place = "try" /\ UNCHANGED <<folder, unit>>,
             place' \in {"serve", "reported", "audit", "direct"} => folder' \in folders,
             ~Waiting => ~Waiting' /\ unit' = unit
      PROVE  DiskInv'
  <2>1. place' = "try" => folder' = unit' /\ unit' \in folders' /\ ~Templated'
    BY <1>1 DEF DiskInv, Templated, Reusable, U, M
  <2>2. InService' => folder' \in folders'
    BY <1>1 DEF InService
  <2>3. \A m \in DOMAIN templates' :
          LET u == templates'[m].folder
          IN  u \in folders' /\ plan'.units[u].functional /\ plan'.units[u].method = m
    BY <1>1 DEF DiskInv
  <2>4. \A u \in folders' :
          (\E m \in DOMAIN templates' : templates'[m].folder = u) \/ (~Waiting' /\ u = unit')
    BY <1>1 DEF DiskInv
  <2> QED BY <2>1, <2>2, <2>3, <2>4 DEF DiskInv
<1>2. ASSUME NEW i \in left, StartUnit(i) PROVE DiskInv'
  <2>1. Waiting /\ place' \in {"fixture", "begin"}
    BY <1>2 DEF StartUnit, Waiting
  <2> QED BY <1>1, <1>2, <2>1 DEF StartUnit, group, fixed
<1>3. CASE TrySource
  <2>1. place \in {"fixture", "try"} /\ UNCHANGED <<templates, folders, plan, place, folder, unit>>
    BY <1>3 DEF TrySource, Searching, group, fixed, schedule
  <2> QED BY <1>1, <2>1 DEF Waiting
<1>4. CASE FixtureDone
  <2>1. place' = "begin" /\ UNCHANGED <<templates, folders, plan, folder, unit>>
    BY <1>4 DEF FixtureDone, fixed, schedule
  <2> QED BY <1>1, <2>1 DEF Waiting
<1>5. CASE Reuse
  <2>1. /\ U.method \in DOMAIN templates /\ folder' = templates[U.method].folder
        /\ UNCHANGED <<templates, folders, plan, unit>> /\ place' \in {"serve", "direct"}
    BY <1>5 DEF Reuse, ServeFrom, Templated, group, fixed, schedule
  <2>2. folder' \in folders
    BY <2>1 DEF DiskInv
  <2> QED BY <1>1, <2>1, <2>2 DEF Waiting
<1>6. CASE Prepare
  <2>0. unit # 0 /\ place = "begin" /\ ~Templated /\ UNCHANGED <<plan, unit>>
    BY <1>6 DEF Prepare, TypeOK, Places, Raise, fixed, schedule
  <2>1. CASE M.probes # "source" /\ targets = {}
    <3>1. place' = "raised" /\ UNCHANGED <<templates, folders>>
      BY <1>6, <2>1 DEF Prepare, Raise, group
    <3> QED BY <1>1, <2>0, <3>1 DEF Waiting
  <2>2. CASE ~(M.probes # "source" /\ targets = {})
    <3>1. folders' = folders \cup {unit} /\ folder' = unit
      BY <1>6, <2>2 DEF Prepare
    <3>2. CASE M.probes = "none"
      <4>1. PICK p \in targets : Deliver(p)
        BY <1>6, <2>2, <3>2 DEF Prepare
      <4> QED BY <2>0, <3>1, <4>1, DeliverDisk
    <3>3. CASE M.probes # "none"
      <4>1. place' = "try" /\ templates' = templates
        BY <1>6, <2>2, <3>3 DEF Prepare
      <4>2. ~Templated'
        BY <2>0, <4>1 DEF Templated, Reusable, U, M
      <4> QED BY <2>0, <3>1, <4>1, <4>2 DEF DiskInv, InService, Waiting
    <3> QED BY <3>2, <3>3
  <2> QED BY <2>1, <2>2
<1>7. CASE NotIssued
  <2>1. place = "try" /\ place' = "close" /\ UNCHANGED <<templates, folders, plan, unit>>
    BY <1>7 DEF NotIssued, group, fixed, schedule
  <2> QED BY <1>1, <2>1 DEF Waiting
<1>8. CASE Prepared
  <2>1. PICK p \in IF Gilded THEN targets ELSE {Rest} :
          IF targets # {} /\ targets # {p} THEN Raise /\ UNCHANGED fixed
          ELSE /\ Deliver(p) /\ targets' = {p}
               /\ UNCHANGED <<fixed, schedule, folders, rows, cache, tried, selected, folder, reports,
                              serving>>
    BY <1>8 DEF Prepared
  <2>2. place = "try" /\ unit # 0 /\ ~Templated /\ folder = unit /\ unit \in folders
    BY <1>8 DEF Prepared, TypeOK, Places, DiskInv
  <2>3. CASE targets # {} /\ targets # {p}
    <3>1. place' = "raised" /\ UNCHANGED <<templates, folders, plan, unit>>
      BY <2>1, <2>3 DEF Raise, group, fixed, schedule
    <3> QED BY <1>1, <2>2, <3>1 DEF Waiting
  <2>4. CASE ~(targets # {} /\ targets # {p})
    <3>1. Deliver(p) /\ UNCHANGED <<folders, folder, unit, plan>>
      BY <2>1, <2>4 DEF fixed, schedule
    <3>2. folders' = folders \cup {unit} /\ folder' = unit
      BY <2>2, <3>1
    <3> QED BY <2>2, <3>1, <3>2, DeliverDisk
  <2> QED BY <2>3, <2>4
<1>9. CASE Serve \/ Draw \/ Settle \/ Served
  <2>1. InService /\ UNCHANGED <<templates, folders, plan, unit, folder>>
    BY <1>9 DEF Serve, Draw, Settle, Served, InService, Raise, group, choice, fixed, schedule
  <2>2. place' \in {"raised", "reported", "audit", "serve", "close"}
    BY <1>9 DEF Serve, Draw, Settle, Served, Raise
  <2> QED BY <1>1, <2>1, <2>2 DEF DiskInv, InService, Waiting
<1>10. ASSUME NEW s \in Sources, Audit(s) \/ Direct(s) PROVE DiskInv'
  <2>1. InService /\ UNCHANGED <<templates, folders, plan, unit, folder, place>>
    BY <1>10 DEF Audit, Direct, InService, group, choice, fixed, schedule
  <2> QED BY <1>1, <2>1 DEF DiskInv, InService, Waiting
<1>11. CASE FinishUnit
  <2>0. place = "close" /\ UNCHANGED <<plan, unit>>
    BY <1>11 DEF FinishUnit, Raise, fixed, schedule
  <2>1. CASE M.complete /\ Issued /\ ~MayClose(epoch)
    <3>1. place' = "raised" /\ UNCHANGED <<templates, folders>>
      BY <1>11, <2>1 DEF FinishUnit, Raise, group
    <3> QED BY <1>1, <2>0, <3>1 DEF Waiting
  <2>2. CASE ~(M.complete /\ Issued /\ ~MayClose(epoch))
    <3> DEFINE last   == LastUse /\ U.method \in DOMAIN templates
               kept   == DOMAIN templates \ (IF last THEN {U.method} ELSE {})
               popped == IF last THEN {templates[U.method].folder} ELSE {}
    <3>1. /\ templates' = [m \in kept |-> templates[m]]
          /\ folders' = folders \ (popped \cup ({unit} \ {templates[m].folder : m \in kept}))
          /\ place' = "idle"
      BY <1>11, <2>2 DEF FinishUnit
    <3>2. ASSUME NEW m \in kept PROVE templates[m].folder \in folders'
      <4>1. templates[m].folder \notin popped
        BY <3>2 DEF DiskInv
      <4> QED BY <3>1, <3>2, <4>1 DEF DiskInv
    <3>3. ASSUME NEW u \in folders' PROVE \E m \in kept : templates[m].folder = u
      <4>1. u \in folders /\ u \notin popped /\ u \notin ({unit} \ {templates[m].folder : m \in kept})
        BY <3>1
      <4>2. CASE u = unit
        BY <4>1, <4>2
      <4>3. CASE u # unit
        <5>1. PICK m \in DOMAIN templates : templates[m].folder = u
          BY <4>1, <4>3 DEF DiskInv
        <5>2. m \in kept
          BY <4>1, <5>1
        <5> QED BY <5>1, <5>2
      <4> QED BY <4>2, <4>3
    <3>4. DOMAIN templates' = kept /\ \A m \in kept : m \in DOMAIN templates /\ templates'[m] = templates[m]
      BY <3>1
    <3> HIDE DEF kept
    <3> QED BY <2>0, <3>1, <3>2, <3>3, <3>4 DEF DiskInv, InService, Waiting
  <2> QED BY <2>1, <2>2
<1>12. CASE EndGroup
  <2>1. Waiting /\ place' = "done" /\ UNCHANGED <<templates, folders, plan>>
    BY <1>12 DEF EndGroup, Waiting, group, fixed
  <2> QED BY <1>1, <2>1
<1>13. CASE UNCHANGED vars
  <2>1. UNCHANGED <<templates, folders, plan, unit, folder, place>>
    BY <1>13 DEF vars, group, fixed, schedule, choice
  <2> QED BY <1>1, <2>1 DEF DiskInv, InService, Waiting
<1> QED BY <1>2, <1>3, <1>4, <1>5, <1>6, <1>7, <1>8, <1>9, <1>10, <1>11, <1>12, <1>13 DEF Next
(* Every set of naturals has a least element.                              *)
LEMMA Least ==
  ASSUME NEW S \in SUBSET Nat, S # {}
  PROVE  \E x \in S : \A y \in S : x <= y
<1>1. PICK x \in S : \A y \in S : ~(<<y, x>> \in OpToRel(<, Nat))
  BY NatLessThanWellFounded, WFMin
<1>2. ASSUME NEW y \in S PROVE x <= y
  <2>1. ~(y < x)
    BY <1>1 DEF OpToRel
  <2> QED BY <2>1
<1> QED BY <1>2

(* The rank of a functional unit is that of the first of its method; the   *)
(* other units come last.                                                  *)
LEMMA FirstUseFacts ==
  ASSUME TypeOK, NEW i \in DOMAIN plan.units, plan.units[i].functional
  PROVE  LET f == FirstUse(plan.units[i].method)
         IN  f \in DOMAIN plan.units /\ plan.units[f].method = plan.units[i].method
<1> DEFINE m == plan.units[i].method
           S == {k \in DOMAIN plan.units : plan.units[k].functional /\ plan.units[k].method = m}
<1>1. Len(plan.units) \in Nat /\ DOMAIN plan.units = 1..Len(plan.units)
  BY UnitFacts
<1>2. PICK f \in S : \A k \in S : f <= k
  <2>1. S \in SUBSET Nat /\ S # {}
    BY <1>1
  <2> HIDE DEF S
  <2> QED BY <2>1, Least
<1>3. ASSUME NEW k \in 1..(f - 1), plan.units[k].functional PROVE plan.units[k].method # m
  <2>1. f \in 1..Len(plan.units)
    BY <1>1
  <2>2. k \in DOMAIN plan.units /\ ~(f <= k)
    BY <1>1, <2>1
  <2> QED BY <1>2, <1>3, <2>2
<1> DEFINE First(k) == /\ plan.units[k].functional /\ plan.units[k].method = m
                       /\ \A l \in 1..(k - 1) : plan.units[l].functional => plan.units[l].method # m
<1>4. \E k \in DOMAIN plan.units : First(k)
  BY <1>2, <1>3
<1>5. FirstUse(m) = CHOOSE k \in DOMAIN plan.units : First(k)
  BY DEF FirstUse
<1>6. FirstUse(m) \in DOMAIN plan.units /\ First(FirstUse(m))
  <2> HIDE DEF First, m
  <2> QED BY <1>4, <1>5
<1> QED BY <1>6

LEMMA RankFacts ==
  ASSUME TypeOK, NEW i \in DOMAIN plan.units
  PROVE  /\ Rank(i) \in Nat
         /\ plan.releaseEarly /\ plan.units[i].functional =>
              Rank(i) = FirstUse(plan.units[i].method) /\ Rank(i) <= Len(plan.units)
         /\ plan.releaseEarly /\ ~plan.units[i].functional => Rank(i) = Len(plan.units) + 1
  BY UnitFacts, FirstUseFacts DEF Rank

LEMMA SameRank ==
  ASSUME TypeOK, plan.releaseEarly, NEW i \in DOMAIN plan.units, NEW k \in DOMAIN plan.units,
         plan.units[i].functional, Rank(k) <= Rank(i), Rank(i) <= Rank(k)
  PROVE  plan.units[k].functional /\ plan.units[k].method = plan.units[i].method
<1>1. Rank(i) = Rank(k)
  BY RankFacts
<1>2. plan.units[k].functional
  BY <1>1, RankFacts, UnitFacts
<1>3. FirstUse(plan.units[i].method) = FirstUse(plan.units[k].method)
  BY <1>1, <1>2, RankFacts
<1> QED BY <1>2, <1>3, FirstUseFacts

(* Units are taken by rank, so that when preparations are released early a  *)
(* template is there only while its method has the turn.                   *)
OrderInv ==
  /\ \A i \in DOMAIN plan.units \ left, k \in left : Rank(i) <= Rank(k)
  /\ unit \notin left
  /\ \A m \in DOMAIN templates : templates[m].folder \notin left
  /\ plan.releaseEarly =>
       \A m \in DOMAIN templates :
         IF Waiting THEN \E k \in left : plan.units[k].functional /\ plan.units[k].method = m
         ELSE m = U.method /\ U.functional

LEMMA OrderInit == Init => OrderInv
<1> SUFFICES ASSUME Init PROVE OrderInv
  OBVIOUS
<1>1. TypeOK
  BY TypeInit
<1>2. left = DOMAIN plan.units /\ unit = 0 /\ DOMAIN templates = {}
  BY DEF Init
<1>3. unit \notin left
  BY <1>1, <1>2, UnitFacts
<1> QED BY <1>2, <1>3 DEF OrderInv

LEMMA OrderStep == TypeOK /\ DiskInv /\ OrderInv /\ [Next]_vars => OrderInv'
<1> SUFFICES ASSUME TypeOK, DiskInv, OrderInv, [Next]_vars PROVE OrderInv'
  OBVIOUS
<1>1. ASSUME plan' = plan
      PROVE  (\A i : Rank(i)' = Rank(i)) /\ (unit' = unit => U' = U)
  BY <1>1 DEF Rank, FirstUse, U
(* Steps of a unit in progress that keep the templates. *)
<1>2. ASSUME UNCHANGED <<plan, left, unit, templates>>, Waiting' <=> Waiting PROVE OrderInv'
  BY <1>1, <1>2 DEF OrderInv
<1>3. ASSUME NEW p, Deliver(p), ~Waiting, unit # 0, UNCHANGED <<plan, left, unit>> PROVE OrderInv'
  <2>1. ~Waiting'
    BY <1>3 DEF Deliver, ServeFrom, Waiting
  <2>2. CASE ~Reusable
    <3>1. templates' = templates
      BY <1>3, <2>2 DEF Deliver
    <3> QED BY <1>2, <1>3, <2>1, <3>1
  <2>3. CASE Reusable
    <3>1. templates' = [m \in DOMAIN templates \cup {U.method} |->
                          IF m = U.method THEN Template(p) ELSE templates[m]]
      BY <1>3, <2>3 DEF Deliver
    <3>2. Template(p).folder = unit /\ U.functional
      BY <2>3 DEF Template, Reusable
    <3>3. \A m \in DOMAIN templates' :
            (m = U.method /\ templates'[m].folder = unit)
            \/ (m \in DOMAIN templates /\ templates'[m] = templates[m])
      BY <3>1, <3>2
    <3>4. \A m \in DOMAIN templates' : templates'[m].folder \notin left
      BY <3>3 DEF OrderInv
    <3>5. plan.releaseEarly => \A m \in DOMAIN templates' : m = U.method /\ U.functional
      BY <1>3, <3>2, <3>3 DEF OrderInv
    <3> QED BY <1>1, <1>3, <2>1, <3>4, <3>5 DEF OrderInv
  <2> QED BY <2>2, <2>3
<1>4. ASSUME NEW i \in left, StartUnit(i) PROVE OrderInv'
  <2>1. /\ i \in DOMAIN plan.units /\ Due(i) /\ Waiting /\ ~Waiting'
        /\ unit' = i /\ left' = left \ {i} /\ UNCHANGED <<plan, templates>>
    BY <1>4 DEF StartUnit, Waiting, TypeOK, fixed, group
  <2>2. \A k \in left \ {i} : Rank(i) <= Rank(k)
    <3> TAKE k \in left \ {i}
    <3>1. Rank(i) \in Nat /\ Rank(k) \in Nat
      BY <2>1, RankFacts DEF TypeOK
    <3> QED BY <2>1, <3>1 DEF Due
  <2>3. \A j \in DOMAIN plan.units \ left', k \in left' : Rank(j) <= Rank(k)
    BY <2>1, <2>2 DEF OrderInv
  <2>4. ASSUME plan.releaseEarly, NEW m \in DOMAIN templates
        PROVE  plan.units[i].functional /\ m = plan.units[i].method
    <3>1. PICK k \in left : plan.units[k].functional /\ plan.units[k].method = m
      BY <2>1, <2>4 DEF OrderInv
    <3> DEFINE j == templates[m].folder
    <3>2. j \in DOMAIN plan.units \ left /\ plan.units[j].functional /\ plan.units[j].method = m
      BY DEF OrderInv, DiskInv, TypeOK
    <3>3. Rank(j) <= Rank(i) /\ k \in DOMAIN plan.units
      BY <3>2 DEF OrderInv, TypeOK
    <3>4. Rank(i) <= Rank(k)
      BY <2>1, <2>2, <3>1, RankFacts
    <3>5. Rank(j) = Rank(k)
      BY <2>4, <3>1, <3>2, <3>3, RankFacts
    <3> QED BY <2>1, <2>4, <3>2, <3>3, <3>4, <3>5, SameRank
  <2>5. U' = plan.units[i]
    BY <2>1 DEF U
  <2> QED BY <1>1, <2>1, <2>3, <2>4, <2>5 DEF OrderInv
<1>5. CASE TrySource \/ FixtureDone \/ Reuse \/ NotIssued
  <2>1. UNCHANGED <<plan, left, unit, templates>> /\ ~Waiting /\ ~Waiting'
    BY <1>5 DEF TrySource, Searching, FixtureDone, Reuse, ServeFrom, NotIssued, fixed, schedule,
                group, Waiting
  <2> QED BY <1>2, <2>1
<1>6. CASE Prepare
  <2>0. unit # 0 /\ ~Waiting /\ UNCHANGED <<plan, left, unit>>
    BY <1>6 DEF Prepare, TypeOK, Places, Raise, fixed, schedule, Waiting
  <2>1. CASE place' \in {"raised", "try"} /\ templates' = templates
    BY <1>2, <2>0, <2>1 DEF Waiting
  <2>2. CASE ~(place' \in {"raised", "try"} /\ templates' = templates)
    <3>1. PICK p \in targets : Deliver(p)
      BY <1>6, <2>2 DEF Prepare, Raise, group
    <3> QED BY <1>3, <2>0, <3>1
  <2> QED BY <2>1, <2>2
<1>7. CASE Prepared
  <2>1. PICK p \in IF Gilded THEN targets ELSE {Rest} :
          IF targets # {} /\ targets # {p} THEN Raise /\ UNCHANGED fixed
          ELSE /\ Deliver(p) /\ targets' = {p}
               /\ UNCHANGED <<fixed, schedule, folders, rows, cache, tried, selected, folder, reports,
                              serving>>
    BY <1>7 DEF Prepared
  <2>2. unit # 0 /\ ~Waiting
    BY <1>7 DEF Prepared, TypeOK, Places, Waiting
  <2>3. CASE targets # {} /\ targets # {p}
    <3>1. place' = "raised" /\ UNCHANGED <<templates, left, plan, unit>>
      BY <2>1, <2>3 DEF Raise, group, fixed, schedule
    <3> QED BY <1>2, <2>2, <3>1 DEF Waiting
  <2>4. CASE ~(targets # {} /\ targets # {p})
    BY <1>3, <2>1, <2>2, <2>4 DEF fixed, schedule
  <2> QED BY <2>3, <2>4
<1>8. CASE Serve \/ Draw \/ Settle \/ Served
  <2>1. UNCHANGED <<plan, left, unit, templates>> /\ ~Waiting /\ ~Waiting'
    BY <1>8 DEF Serve, Draw, Settle, Served, Raise, fixed, schedule, group, Waiting
  <2> QED BY <1>2, <2>1
<1>9. ASSUME NEW s \in Sources, Audit(s) \/ Direct(s) PROVE OrderInv'
  <2>1. UNCHANGED <<plan, left, unit, templates, place>>
    BY <1>9 DEF Audit, Direct, fixed, schedule, group
  <2> QED BY <1>2, <2>1 DEF Waiting
<1>10. CASE FinishUnit
  <2>0. place = "close" /\ UNCHANGED <<plan, left, unit>>
    BY <1>10 DEF FinishUnit, Raise, fixed, schedule
  <2>1. CASE M.complete /\ Issued /\ ~MayClose(epoch)
    <3>1. place' = "raised" /\ templates' = templates
      BY <1>10, <2>1 DEF FinishUnit, Raise, group
    <3> QED BY <1>2, <2>0, <3>1 DEF Waiting
  <2>2. CASE ~(M.complete /\ Issued /\ ~MayClose(epoch))
    <3> DEFINE last == LastUse /\ U.method \in DOMAIN templates
               kept == DOMAIN templates \ (IF last THEN {U.method} ELSE {})
    <3>1. templates' = [m \in kept |-> templates[m]] /\ place' = "idle"
      BY <1>10, <2>2 DEF FinishUnit
    <3>2. ASSUME plan.releaseEarly, NEW m \in kept
          PROVE  \E k \in left : plan.units[k].functional /\ plan.units[k].method = m
      <4>1. m = U.method /\ U.functional /\ m \in DOMAIN templates
        BY <2>0, <3>2 DEF OrderInv, Waiting
      <4>2. ~LastUse
        BY <4>1
      <4> QED BY <3>2, <4>1, <4>2 DEF LastUse
    <3>3. DOMAIN templates' = kept /\ \A m \in kept : m \in DOMAIN templates /\ templates'[m] = templates[m]
      BY <3>1
    <3> HIDE DEF kept
    <3> QED BY <1>1, <2>0, <3>1, <3>2, <3>3 DEF OrderInv, Waiting
  <2> QED BY <2>1, <2>2
<1>11. CASE EndGroup
  BY <1>2, <1>11 DEF EndGroup, Waiting, fixed, schedule, group
<1>12. CASE UNCHANGED vars
  BY <1>2, <1>12 DEF vars, Waiting, fixed, schedule, group
<1> QED BY <1>4, <1>5, <1>6, <1>7, <1>8, <1>9, <1>10, <1>11, <1>12 DEF Next

LEMMA FewTemplates ==
  ASSUME TypeOK, DiskInv, OrderInv, plan.releaseEarly
  PROVE  Cardinality(DOMAIN templates) <= 1
<1>1. ASSUME NEW m \in DOMAIN templates, NEW n \in DOMAIN templates PROVE m = n
  <2>1. CASE ~Waiting
    BY <2>1 DEF OrderInv
  <2>2. CASE Waiting
    <3> DEFINE i == templates[m].folder
               j == templates[n].folder
    <3>1. PICK k \in left : plan.units[k].functional /\ plan.units[k].method = m
      BY <2>2 DEF OrderInv
    <3>2. PICK l \in left : plan.units[l].functional /\ plan.units[l].method = n
      BY <2>2 DEF OrderInv
    <3>3. /\ i \in DOMAIN plan.units \ left /\ plan.units[i].functional /\ plan.units[i].method = m
          /\ j \in DOMAIN plan.units \ left /\ plan.units[j].functional /\ plan.units[j].method = n
      BY DEF OrderInv, DiskInv, TypeOK
    <3>4. k \in DOMAIN plan.units /\ l \in DOMAIN plan.units
      BY DEF TypeOK
    <3>5. Rank(i) <= Rank(l) /\ Rank(j) <= Rank(k)
      BY <3>3 DEF OrderInv
    <3>6. Rank(i) = Rank(k) /\ Rank(j) = Rank(l)
      BY <3>1, <3>2, <3>3, <3>4, RankFacts
    <3>7. Rank(i) <= Rank(j) /\ Rank(j) <= Rank(i)
      BY <3>5, <3>6
    <3> QED BY <3>3, <3>7, SameRank
  <2> QED BY <2>1, <2>2
<1>2. CASE DOMAIN templates = {}
  BY <1>2, FS_EmptySet
<1>3. CASE DOMAIN templates # {}
  <2>1. PICK m : DOMAIN templates = {m}
    BY <1>1, <1>3
  <2> QED BY <2>1, FS_Singleton
<1> QED BY <1>2, <1>3

(* A verifier never reads a folder that is gone, and scratch never keeps   *)
(* one that nobody will read: between units it has the folders of the      *)
(* templates, and at most one when templates are released after the last   *)
(* unit of their method, whatever the order the units are listed in.       *)
THEOREM DeliveriesOnDiskAlways == Spec => []DeliveriesOnDisk
<1>1. TypeOK /\ DiskInv /\ OrderInv => DeliveriesOnDisk
  <2> SUFFICES ASSUME TypeOK, DiskInv, OrderInv PROVE DeliveriesOnDisk
    OBVIOUS
  <2>1. InService => folder \in folders
    BY DEF DiskInv
  <2>2. \A m \in DOMAIN templates : templates[m].folder \in folders
    BY DEF DiskInv
  <2>3. ASSUME place = "idle" PROVE folders = {templates[m].folder : m \in DOMAIN templates}
    BY <2>2, <2>3 DEF DiskInv, Waiting
  <2> QED BY <2>1, <2>2, <2>3, FewTemplates DEF DeliveriesOnDisk
<1> QED BY <1>1, TypeInit, TypeStep, DiskInit, DiskStep, OrderInit, OrderStep, PTL DEF Spec
-------------------------------------------------------------------------------
(* Where a unit could raise.  The targets of a group are what a full        *)
(* search leaves over, whichever job made them, so two searches agree; the *)
(* epoch of a job follows its verifiers one by one.                        *)

Scarce == Cardinality(Good) < NumProbes

SplitAt(n) == passes \cap Tried(n)

TargetsInv ==
  \A p \in targets : \E n \in 1..Len(Priority) :
    p = Sources \ SplitAt(n) /\ Cardinality(SplitAt(n)) = NumProbes

UnderService == place \in {"reported", "audit"}

EpochInv ==
  /\ place = "direct" => M.direct
  /\ InService /\ M.complete =>
       /\ ~epoch.closed /\ ~epoch.published
       /\ UnderService => Upcoming <= U.verifiers
       /\ epoch.states \in [1..U.verifiers -> EpochStates]
       /\ \A v \in 1..U.verifiers :
            /\ v < Upcoming => epoch.states[v] \in Settlements
            /\ v = Upcoming => epoch.states[v] = IF UnderService THEN "RUNNING" ELSE "PLANNED"
            /\ v > Upcoming => epoch.states[v] = "PLANNED"
  /\ place = "close" /\ M.complete /\ Issued => MayClose(epoch)

CauseInv ==
  /\ place = "begin" /\ M.probes # "source" /\ targets = {} => Scarce
  /\ RaisesForCause

LEMMA ListedLength ==
  ASSUME NEW s, Listed(s)
  PROVE  Len(s) \in Nat /\ \A e : Len(Append(s, e)) = Len(s) + 1
<1>1. PICK S : s \in Seq(S)
  BY DEF Listed
<1>2. ASSUME NEW e PROVE Len(Append(s, e)) = Len(s) + 1
  <2>1. s \in Seq(S \cup {e}) /\ e \in S \cup {e}
    BY <1>1
  <2> QED BY <2>1
<1> QED BY <1>1, <1>2

(* The first sources that pass, as many as a job needs, are the same       *)
(* wherever its search stopped.                                            *)
LEMMA SplitsNested ==
  ASSUME NEW n \in 1..Len(Priority), NEW k \in 1..Len(Priority), n <= k,
         Cardinality(SplitAt(n)) = Cardinality(SplitAt(k))
  PROVE  SplitAt(n) = SplitAt(k)
<1>1. n \in Nat /\ k \in Nat /\ 1..n \subseteq 1..k
  BY BankFacts
<1>2. [i \in 1..k |-> Priority[i]] \in Surjection(1..k, Tried(k))
  BY DEF Tried, Surjection
<1>3. IsFiniteSet(Tried(k))
  BY <1>1, <1>2, FS_Interval, FS_Surjection
<1>4. IsFiniteSet(SplitAt(k))
  BY <1>3, FS_Subset DEF SplitAt
<1>5. SplitAt(n) \in SUBSET SplitAt(k)
  BY <1>1 DEF SplitAt, Tried
<1> QED BY <1>4, <1>5, FS_Subset

LEMMA SplitsAgree ==
  ASSUME NEW n \in 1..Len(Priority), NEW k \in 1..Len(Priority),
         Cardinality(SplitAt(n)) = Cardinality(SplitAt(k))
  PROVE  SplitAt(n) = SplitAt(k)
<1>1. n <= k \/ k <= n
  BY BankFacts
<1> QED BY <1>1, SplitsNested

LEMMA SearchSplits ==
  ASSUME TypeOK, SearchInv, place \in {"fixture", "try"}, ~Gilded, Len(selected) = NumProbes
  PROVE  \E n \in 1..Len(Priority) : Rest = Sources \ SplitAt(n) /\ Cardinality(SplitAt(n)) = NumProbes
<1>1. /\ Chosen(selected) = passes \cap Looked(tried) /\ Injective(selected)
      /\ tried \in 1..Len(Priority)
  BY DEF SearchInv
<1>2. Looked(tried) = Tried(tried)
  BY LookedIsTried
<1>3. Chosen(selected) = SplitAt(tried)
  BY <1>1, <1>2 DEF SplitAt
<1>4. Cardinality(SplitAt(tried)) = NumProbes
  BY <1>1, <1>3, InjectiveCardinality DEF TypeOK
<1> QED BY <1>1, <1>3, <1>4 DEF Rest

(* A search that comes to an end finds the targets the group has.          *)
LEMMA SearchAgrees ==
  ASSUME TypeOK, SearchInv, PairInv, TargetsInv, place = "try", Issued, targets # {},
         NEW p \in IF Gilded THEN targets ELSE {Rest}
  PROVE  targets = {p}
<1>1. CASE Gilded
  BY <1>1 DEF PairInv
<1>2. CASE ~Gilded
  <2>1. Len(selected) = NumProbes
    BY DEF Issued, SearchInv
  <2>2. PICK n \in 1..Len(Priority) : Rest = Sources \ SplitAt(n) /\ Cardinality(SplitAt(n)) = NumProbes
    BY <1>2, <2>1, SearchSplits
  <2>3. PICK q : targets = {q}
    BY DEF PairInv
  <2>4. PICK k \in 1..Len(Priority) : q = Sources \ SplitAt(k) /\ Cardinality(SplitAt(k)) = NumProbes
    BY <2>3 DEF TargetsInv
  <2>5. q = Rest
    BY <2>2, <2>4, SplitsAgree
  <2> QED BY <1>2, <2>3, <2>5
<1> QED BY <1>1, <1>2

LEMMA TargetsStep == TypeOK /\ SearchInv /\ PairInv /\ TargetsInv /\ [Next]_vars => TargetsInv'
<1> SUFFICES ASSUME TypeOK, SearchInv, PairInv, TargetsInv, [Next]_vars PROVE TargetsInv'
  OBVIOUS
<1>0. passes' = passes
  BY DEF Next, vars, StartUnit, TrySource, FixtureDone, Reuse, Prepare, NotIssued, Prepared, Serve,
         Draw, Settle, Served, FinishUnit, EndGroup, Audit, Direct, Raise, fixed
<1>1. ASSUME NEW p, targets' \subseteq targets \cup {p},
             \E n \in 1..Len(Priority) : p = Sources \ SplitAt(n) /\ Cardinality(SplitAt(n)) = NumProbes
      PROVE  TargetsInv'
  BY <1>0, <1>1 DEF TargetsInv, SplitAt
<1>2. ASSUME targets' \subseteq targets PROVE TargetsInv'
  BY <1>0, <1>2 DEF TargetsInv, SplitAt
<1>3. CASE FixtureDone
  <2>1. CASE Len(selected) = NumProbes
    <3>1. place = "fixture" /\ ~Gilded /\ targets' = {Rest}
      BY <1>3, <2>1 DEF FixtureDone, Gilded
    <3> QED BY <1>1, <2>1, <3>1, SearchSplits
  <2>2. CASE Len(selected) # NumProbes
    BY <1>2, <1>3, <2>2 DEF FixtureDone
  <2> QED BY <2>1, <2>2
<1>4. CASE Prepared
  <2>1. PICK p \in IF Gilded THEN targets ELSE {Rest} :
          IF targets # {} /\ targets # {p} THEN Raise /\ UNCHANGED fixed
          ELSE /\ Deliver(p) /\ targets' = {p}
               /\ UNCHANGED <<fixed, schedule, folders, rows, cache, tried, selected, folder, reports,
                              serving>>
    BY <1>4 DEF Prepared
  <2>2. targets' \subseteq targets \cup {p}
    BY <2>1 DEF Raise, group
  <2>3. CASE Gilded
    BY <1>2, <2>1, <2>2, <2>3
  <2>4. CASE ~Gilded
    <3>1. place = "try" /\ Len(selected) = NumProbes /\ p = Rest
      BY <1>4, <2>1, <2>4 DEF Prepared, Issued, SearchInv
    <3> QED BY <1>1, <2>2, <2>4, <3>1, SearchSplits
  <2> QED BY <2>3, <2>4
<1>5. CASE (\E i \in left : StartUnit(i)) \/ TrySource \/ Reuse \/ Prepare \/ NotIssued
  BY <1>2, <1>5 DEF StartUnit, TrySource, Reuse, Prepare, NotIssued, Raise, group
<1>6. CASE Serve \/ Draw \/ Settle \/ Served \/ FinishUnit \/ EndGroup
           \/ (\E s \in Sources : Audit(s) \/ Direct(s)) \/ UNCHANGED vars
  BY <1>2, <1>6 DEF Serve, Draw, Settle, Served, FinishUnit, EndGroup, Audit, Direct, vars, Raise,
                    group
<1> QED BY <1>3, <1>4, <1>5, <1>6 DEF Next
LEMMA ServeFromEpoch ==
  ASSUME TypeOK, unit # 0, NEW q, NEW p, ServeFrom(q, p), reports' = <<>>, UNCHANGED <<unit, plan>>
  PROVE  EpochInv'
<1>1. U' = U /\ M' = M /\ U.verifiers \in Nat \ {0}
  BY UnitFacts DEF U, M, Units
<1>2. place' = IF M.direct THEN "direct" ELSE "serve"
  BY DEF ServeFrom
<1>3. ASSUME M.complete
      PROVE  /\ ~epoch'.closed /\ ~epoch'.published
             /\ epoch'.states = [v \in 1..U.verifiers |-> "PLANNED"]
  BY <1>3 DEF ServeFrom, NewEpoch
<1>4. Upcoming' = 1 /\ ~UnderService'
  BY <1>2 DEF Upcoming, UnderService
<1>5. ASSUME M.complete
      PROVE  /\ epoch'.states \in [1..U.verifiers -> EpochStates]
             /\ \A v \in 1..U.verifiers : v >= 1 /\ epoch'.states[v] = "PLANNED"
  BY <1>1, <1>3, <1>5 DEF EpochStates
<1>6. \A v \in 1..U.verifiers : ~(v < 1)
  BY <1>1
<1> QED BY <1>1, <1>2, <1>3, <1>4, <1>5, <1>6 DEF EpochInv

LEMMA EpochStep ==
  TypeOK /\ ServedInv /\ EpochInv /\ [Next]_vars => EpochInv'
<1> SUFFICES ASSUME TypeOK, ServedInv, EpochInv, [Next]_vars PROVE EpochInv'
  OBVIOUS
<1> DEFINE n == Upcoming
(* No service, and nothing to close. *)
<1>1. ASSUME place' \in {"idle", "fixture", "begin", "try", "done", "raised"} PROVE EpochInv'
  BY <1>1 DEF EpochInv, InService
<1>2. ASSUME InService
      PROVE  /\ U.verifiers \in Nat \ {0} /\ n \in Nat /\ M \in MethodType
             /\ \A e : Len(Append(reports, e)) + 1 = n + 1
  BY <1>2, ListedLength, UnitFacts DEF ServedInv, ReportsOK, InService, TypeOK, Places, Units, Upcoming
<1>3. ASSUME UNCHANGED <<unit, plan>> PROVE U' = U /\ M' = M
  BY <1>3 DEF U, M
<1>4. CASE (\E i \in left : StartUnit(i)) \/ TrySource \/ FixtureDone
  BY <1>1, <1>4 DEF StartUnit, TrySource, Searching, FixtureDone
<1>5. CASE Reuse
  <2>1. PICK q, p : ServeFrom(q, p)
    BY <1>5 DEF Reuse
  <2>2. reports' = <<>> /\ UNCHANGED <<unit, plan>> /\ unit # 0
    BY <1>5 DEF Reuse, ServedInv, TypeOK, Places, fixed, schedule
  <2> QED BY <2>1, <2>2, ServeFromEpoch
<1>6. CASE Prepare
  <2>1. CASE place' \in {"raised", "try"}
    BY <1>1, <2>1
  <2>2. CASE place' \notin {"raised", "try"}
    <3>1. PICK p \in targets : Deliver(p)
      BY <1>6, <2>2 DEF Prepare, Raise
    <3>2. reports' = <<>> /\ UNCHANGED <<unit, plan>> /\ unit # 0
      BY <1>6 DEF Prepare, Raise, ServedInv, TypeOK, Places, fixed, schedule
    <3> QED BY <3>1, <3>2, ServeFromEpoch DEF Deliver
  <2> QED BY <2>1, <2>2
<1>7. CASE NotIssued
  <2>1. UNCHANGED <<unit, plan, selected>> /\ place' = "close" /\ ~Issued
    BY <1>7 DEF NotIssued, fixed, schedule, choice
  <2>2. ~Issued'
    BY <2>1 DEF Issued, M, U
  <2> QED BY <2>1, <2>2 DEF EpochInv, InService
<1>8. CASE Prepared
  <2>1. PICK p \in IF Gilded THEN targets ELSE {Rest} :
          IF targets # {} /\ targets # {p} THEN Raise /\ UNCHANGED fixed
          ELSE /\ Deliver(p) /\ targets' = {p}
               /\ UNCHANGED <<fixed, schedule, folders, rows, cache, tried, selected, folder, reports,
                              serving>>
    BY <1>8 DEF Prepared
  <2>2. CASE targets # {} /\ targets # {p}
    BY <1>1, <2>1, <2>2 DEF Raise
  <2>3. CASE ~(targets # {} /\ targets # {p})
    <3>1. reports' = <<>> /\ UNCHANGED <<unit, plan>> /\ unit # 0
      BY <1>8, <2>1, <2>3 DEF Prepared, ServedInv, TypeOK, Places, fixed, schedule
    <3>2. ServeFrom(selected, p)
      BY <2>1, <2>3 DEF Deliver
    <3> QED BY <3>1, <3>2, ServeFromEpoch
  <2> QED BY <2>2, <2>3
<1>9. CASE Serve
  <2>1. CASE M.complete /\ ~MayBegin(epoch, n)
    BY <1>1, <1>9, <2>1 DEF Serve, Raise
  <2>2. CASE ~(M.complete /\ ~MayBegin(epoch, n))
    <3>1. /\ InService /\ ~UnderService /\ place' = "reported" /\ UNCHANGED <<unit, plan, reports>>
          /\ n <= U.verifiers
          /\ M.complete => epoch' = [epoch EXCEPT !.states[n] = "RUNNING"]
      BY <1>9, <2>2 DEF Serve, InService, UnderService, Begun, fixed, schedule
    <3>2. Upcoming' = n /\ UnderService' /\ M' = M /\ U' = U
      BY <1>3, <3>1 DEF Upcoming, UnderService
    <3>3. ASSUME M.complete
          PROVE  /\ ~epoch'.closed /\ ~epoch'.published
                 /\ epoch'.states \in [1..U.verifiers -> EpochStates]
                 /\ \A v \in 1..U.verifiers :
                      epoch'.states[v] = IF v = n THEN "RUNNING" ELSE epoch.states[v]
      <4>1. MayBegin(epoch, n) /\ epoch.states \in [1..U.verifiers -> EpochStates]
        BY <2>2, <3>1, <3>3 DEF EpochInv
      <4>2. epoch' = [epoch EXCEPT !.states[n] = "RUNNING"]
        BY <3>1, <3>3
      <4>3. ~epoch.closed /\ ~epoch.published
        BY <4>1 DEF MayBegin
      <4>4. epoch'.closed = epoch.closed /\ epoch'.published = epoch.published
        BY <4>2
      <4>5. epoch'.states = [epoch.states EXCEPT ![n] = "RUNNING"]
        BY <4>2
      <4> QED BY <1>2, <3>1, <4>1, <4>3, <4>4, <4>5 DEF EpochStates
    <3>4. ASSUME M.complete
          PROVE \A v \in 1..U.verifiers :
                  /\ v < n => epoch'.states[v] \in Settlements
                  /\ v = n => epoch'.states[v] = "RUNNING"
                  /\ v > n => epoch'.states[v] = "PLANNED"
      <4>1. \A v \in 1..U.verifiers : /\ v < n => epoch.states[v] \in Settlements
                                      /\ v > n => epoch.states[v] = "PLANNED"
        BY <3>1, <3>4 DEF EpochInv
      <4> QED BY <1>2, <3>1, <3>3, <3>4, <4>1
    <3> QED BY <3>1, <3>2, <3>3, <3>4 DEF EpochInv
  <2> QED BY <2>1, <2>2
<1>10. CASE Draw
  <2>1. /\ UNCHANGED <<unit, plan, reports, epoch>> /\ place = "reported" /\ place' = "audit"
    BY <1>10 DEF Draw, fixed, schedule
  <2>2. Upcoming' = n /\ UnderService /\ UnderService' /\ M' = M /\ U' = U /\ InService
    BY <1>3, <2>1 DEF Upcoming, UnderService, InService
  <2> QED BY <2>1, <2>2 DEF EpochInv
<1>11. ASSUME NEW s \in Sources, Audit(s) \/ Direct(s) PROVE EpochInv'
  <2>1. UNCHANGED <<unit, plan, reports, epoch, place>> /\ InService
    BY <1>11 DEF Audit, Direct, fixed, schedule, InService
  <2>2. Upcoming' = n /\ UnderService' = UnderService /\ M' = M /\ U' = U
    BY <1>3, <2>1 DEF Upcoming, UnderService
  <2>3. place # "close"
    BY <1>11 DEF Audit, Direct
  <2> QED BY <2>1, <2>2, <2>3 DEF EpochInv
<1>12. CASE Settle
  <2> DEFINE status == Status(verdicts, drawn, M, passes, selected)
  <2>0. status \in Settlements
    BY DEF Status, Settlements
  <2> HIDE DEF status
  <2>1. CASE M.complete /\ ~MayFinish(epoch, n, status)
    BY <1>1, <1>12, <2>1 DEF Settle, Raise, status
  <2>2. CASE ~(M.complete /\ ~MayFinish(epoch, n, status))
    <3>1. /\ InService /\ UnderService /\ place' = "serve" /\ UNCHANGED <<unit, plan>>
          /\ reports' = Append(reports, [verdicts |-> verdicts, status |-> status])
          /\ M.complete => epoch' = [epoch EXCEPT !.states[n] = status]
      BY <1>12, <2>2 DEF Settle, InService, UnderService, Finished, fixed, schedule, status
    <3>2. Upcoming' = n + 1 /\ ~UnderService' /\ M' = M /\ U' = U
      BY <1>2, <1>3, <3>1 DEF Upcoming, UnderService
    <3>3. ASSUME M.complete
          PROVE  /\ ~epoch'.closed /\ ~epoch'.published
                 /\ epoch'.states \in [1..U.verifiers -> EpochStates]
                 /\ \A v \in 1..U.verifiers :
                      epoch'.states[v] = IF v = n THEN status ELSE epoch.states[v]
      <4>1. /\ epoch.states \in [1..U.verifiers -> EpochStates]
            /\ ~epoch.closed /\ ~epoch.published
        BY <3>1, <3>3 DEF EpochInv
      <4>2. epoch' = [epoch EXCEPT !.states[n] = status]
        BY <3>1, <3>3
      <4>3. MayFinish(epoch, n, status)
        BY <2>2, <3>3
      <4>4. epoch'.closed = epoch.closed /\ epoch'.published = epoch.published
        BY <4>2
      <4>5. epoch'.states = [epoch.states EXCEPT ![n] = status]
        BY <4>2
      <4>6. status \in EpochStates
        BY <2>0 DEF EpochStates
      <4> QED BY <4>1, <4>4, <4>5, <4>6
    <3>4. ASSUME M.complete, NEW v \in 1..U.verifiers
          PROVE  /\ v < n + 1 => epoch'.states[v] \in Settlements
                 /\ v = n + 1 => epoch'.states[v] = "PLANNED"
                 /\ v > n + 1 => epoch'.states[v] = "PLANNED"
      <4>1. /\ v < n => epoch.states[v] \in Settlements
            /\ v > n => epoch.states[v] = "PLANNED"
        BY <3>1, <3>4 DEF EpochInv
      <4>2. epoch'.states[v] = IF v = n THEN status ELSE epoch.states[v]
        BY <3>3, <3>4
      <4>3. v \in Nat /\ n \in Nat
        BY <1>2, <3>1
      <4>4. CASE v < n
        BY <4>1, <4>2, <4>3, <4>4
      <4>5. CASE v = n
        BY <2>0, <4>2, <4>3, <4>5
      <4>6. CASE v > n
        BY <4>1, <4>2, <4>3, <4>6
      <4> QED BY <4>3, <4>4, <4>5, <4>6
    <3> QED BY <3>1, <3>2, <3>3, <3>4 DEF EpochInv
  <2> QED BY <2>1, <2>2
<1>13. CASE Served
  <2>1. /\ UNCHANGED <<unit, plan, selected, epoch>> /\ place' = "close" /\ InService /\ ~UnderService
    BY <1>13 DEF Served, fixed, schedule, choice, InService, UnderService
  <2>2. M' = M /\ U' = U
    BY <1>3, <2>1
  <2>3. ASSUME M.complete PROVE MayClose(epoch)
    <3>1. /\ epoch.states \in [1..U.verifiers -> EpochStates]
          /\ \A v \in 1..U.verifiers :
               /\ v < n => epoch.states[v] \in Settlements
               /\ v = n => epoch.states[v] = "PLANNED"
               /\ v > n => epoch.states[v] = "PLANNED"
      BY <2>1, <2>3 DEF EpochInv
    <3>2. \A v \in 1..U.verifiers : v < n \/ v = n \/ v > n
      BY <1>2, <2>1
    <3> QED BY <3>1, <3>2 DEF MayClose, Settlements
  <2> QED BY <2>1, <2>2, <2>3 DEF EpochInv, InService, MayClose
<1>14. CASE FinishUnit \/ EndGroup
  BY <1>1, <1>14 DEF FinishUnit, EndGroup, Raise
<1>15. CASE UNCHANGED vars
  <2>1. UNCHANGED <<unit, plan, reports, epoch, place, selected>>
    BY <1>15 DEF vars, fixed, schedule, choice
  <2>2. Upcoming' = n /\ UnderService' = UnderService /\ M' = M /\ U' = U /\ InService' = InService
        /\ Issued' = Issued /\ MayClose(epoch)' = MayClose(epoch)
    BY <2>1 DEF Upcoming, UnderService, M, U, InService, Issued, MayClose
  <2> QED BY <2>1, <2>2 DEF EpochInv
<1> QED BY <1>4, <1>5, <1>6, <1>7, <1>8, <1>9, <1>10, <1>11, <1>12, <1>13, <1>14, <1>15 DEF Next

LEMMA CauseInit == Init => TargetsInv /\ EpochInv /\ CauseInv
  BY DEF Init, TargetsInv, EpochInv, CauseInv, RaisesForCause, InService

LEMMA CauseStep ==
  TypeOK /\ SearchInv /\ PairInv /\ ServedInv /\ TargetsInv /\ EpochInv /\ CauseInv /\ [Next]_vars
    => CauseInv'
<1> SUFFICES ASSUME TypeOK, SearchInv, PairInv, ServedInv, TargetsInv, EpochInv, CauseInv, [Next]_vars
             PROVE  CauseInv'
  OBVIOUS
<1>0. passes' = passes /\ (Scarce' <=> Scarce)
  BY DEF Next, vars, StartUnit, TrySource, FixtureDone, Reuse, Prepare, NotIssued, Prepared, Serve,
         Draw, Settle, Served, FinishUnit, EndGroup, Audit, Direct, Raise, fixed, Scarce, Good
<1>1. ASSUME place' \notin {"begin", "raised"} PROVE CauseInv'
  BY <1>1 DEF CauseInv, RaisesForCause
<1>2. ASSUME place' = "raised", Scarce PROVE CauseInv'
  BY <1>0, <1>2 DEF CauseInv, RaisesForCause, Scarce
<1>3. ASSUME NEW i \in left, StartUnit(i) PROVE CauseInv'
  <2>1. CASE place' = "fixture"
    BY <1>1, <2>1
  <2>2. CASE place' # "fixture"
    <3>1. place' = "begin" /\ targets' = targets
          /\ ~(targets = {} /\ MethodOf(plan.units[i].method).probes # "source")
      BY <1>3, <2>2 DEF StartUnit, group
    <3>2. M' = MethodOf(plan.units[i].method)
      BY <1>3 DEF StartUnit, fixed, M, U
    <3> QED BY <3>1, <3>2 DEF CauseInv, RaisesForCause
  <2> QED BY <2>1, <2>2
<1>4. CASE FixtureDone
  <2>1. place = "fixture" /\ ~Gilded /\ ~Searching /\ place' = "begin"
        /\ targets' = IF Len(selected) = NumProbes THEN {Rest} ELSE {}
    BY <1>4 DEF FixtureDone, Gilded
  <2>2. targets' = {} => Scarce
    BY <2>1, SearchFails DEF Scarce
  <2> QED BY <1>0, <2>1, <2>2 DEF CauseInv, RaisesForCause
<1>5. CASE Prepare
  <2>1. CASE place' = "raised"
    <3>1. place = "begin" /\ M.probes # "source" /\ targets = {}
      BY <1>5, <2>1 DEF Prepare, Deliver, ServeFrom
    <3> QED BY <1>2, <2>1, <3>1 DEF CauseInv
  <2>2. CASE place' # "raised"
    BY <1>1, <1>5, <2>2 DEF Prepare, Raise, Deliver, ServeFrom
  <2> QED BY <2>1, <2>2
<1>6. CASE Prepared
  <2>1. PICK p \in IF Gilded THEN targets ELSE {Rest} :
          IF targets # {} /\ targets # {p} THEN Raise /\ UNCHANGED fixed
          ELSE /\ Deliver(p) /\ targets' = {p}
               /\ UNCHANGED <<fixed, schedule, folders, rows, cache, tried, selected, folder, reports,
                              serving>>
    BY <1>6 DEF Prepared
  <2>2. ~(targets # {} /\ targets # {p})
    BY <1>6, SearchAgrees DEF Prepared
  <2>3. place' \in {"serve", "direct"}
    BY <2>1, <2>2 DEF Deliver, ServeFrom
  <2> QED BY <1>1, <2>3
<1>7. ASSUME InService
      PROVE  U.verifiers \in Nat \ {0} /\ Upcoming \in Nat \ {0}
  BY <1>7, ListedLength, UnitFacts DEF ServedInv, ReportsOK, InService, TypeOK, Places, Units, Upcoming
<1>8. CASE Serve
  <2>1. ASSUME M.complete PROVE MayBegin(epoch, Upcoming)
    <3>1. InService /\ ~UnderService /\ Upcoming \in 1..U.verifiers
      BY <1>7, <1>8 DEF Serve, InService, UnderService
    <3> QED BY <2>1, <3>1 DEF EpochInv, MayBegin
  <2>2. place' = "reported"
    BY <1>8, <2>1 DEF Serve
  <2> QED BY <1>1, <2>2
<1>9. CASE Settle
  <2> DEFINE status == Status(verdicts, drawn, M, passes, selected)
  <2>1. ASSUME M.complete PROVE MayFinish(epoch, Upcoming, status)
    <3>1. InService /\ UnderService
      BY <1>9 DEF Settle, InService, UnderService
    <3>2. Upcoming \in 1..U.verifiers
      BY <1>7, <2>1, <3>1 DEF EpochInv
    <3>3. status \in Settlements
      BY DEF Status, Settlements
    <3> QED BY <2>1, <3>1, <3>2, <3>3 DEF EpochInv, MayFinish
  <2>2. place' = "serve"
    BY <1>9, <2>1 DEF Settle
  <2> QED BY <1>1, <2>2
<1>10. CASE FinishUnit
  <2>1. M.complete /\ Issued => MayClose(epoch)
    BY <1>10 DEF FinishUnit, EpochInv
  <2>2. place' = "idle"
    BY <1>10, <2>1 DEF FinishUnit
  <2> QED BY <1>1, <2>2
<1>11. CASE TrySource \/ Reuse \/ NotIssued \/ Draw \/ Served \/ EndGroup
            \/ (\E s \in Sources : Audit(s) \/ Direct(s))
  BY <1>1, <1>11 DEF TrySource, Searching, Reuse, ServeFrom, NotIssued, Draw, Served, EndGroup, Audit,
                     Direct
<1>12. CASE UNCHANGED vars
  <2>1. UNCHANGED <<unit, plan, place, targets>>
    BY <1>12 DEF vars, fixed, schedule, group
  <2>2. M' = M
    BY <2>1 DEF M, U
  <2> QED BY <1>0, <2>1, <2>2 DEF CauseInv, RaisesForCause, Scarce
<1> QED BY <1>3, <1>4, <1>5, <1>6, <1>8, <1>9, <1>10, <1>11, <1>12 DEF Next

(* No check of the preparation, of the pairing or of the epoch ever fires  *)
(* in a group, whatever its methods, except that a comparator finds no     *)
(* targets where too few sources pass for any job to have its probes.      *)
THEOREM RaisesForCauseAlways == Spec => []RaisesForCause
<1>1. CauseInv => RaisesForCause
  BY DEF CauseInv
<1> QED BY <1>1, TypeInit, TypeStep, SearchInit, SearchStep, ServiceInit, ServiceStep, PairInit,
           PairStep, ServedInit, ServedStep, CauseInit, TargetsStep, EpochStep, CauseStep, PTL DEF Spec
===============================================================================
