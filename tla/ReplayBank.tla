-------------------------------- MODULE ReplayBank --------------------------------
(***************************************************************************)
(* verifier_replay_bank.py: the evaluator's bank of one-batch replay       *)
(* proofs.  A block is generated with production and sentinel segments,    *)
(* some of them tampered with; each proof is replayed at most once per     *)
(* execution plan and the observation is cached; when every proof is       *)
(* characterised the cache is published as rows without tensors, and read  *)
(* back by whoever settles the assignments.                                *)
(*                                                                         *)
(* A replay runs on a device that need not repeat itself: a proof listed   *)
(* as unstable can be accepted or rejected each time it is run.  The rows  *)
(* that are read can be those of another characterisation in part.         *)
(***************************************************************************)
EXTENDS Integers, FiniteSets, FiniteSetsExt

CONSTANTS
  Positions,        (* the microsegments of the block                      *)
  ProductionCount,
  MajorityCount,    (* round(production_count * majority_fraction)         *)
  MostUnstable,     (* unstable proofs of a block                          *)
  MostHits          (* observations repeated of a bank                     *)

Canonical == "canonical-full-microsegment"
Rerun == "adjudication-rerun"
Plans == {Canonical, Rerun}
Here == "this-device"
Elsewhere == "another-device"

ASSUME BankAssumption ==
  /\ IsFiniteSet(Positions) /\ Positions \subseteq Nat
  /\ ProductionCount \in 1..(Cardinality(Positions) - 1)
  /\ MajorityCount \in 1..ProductionCount
  /\ MostUnstable \in Nat /\ MostHits \in Nat

VARIABLES
  unstable,       (* no step changes it                                    *)
  entries,        (* what the bank registered for each proof               *)
  cache,          (* the observation stored under each key                 *)
  hits,           (* observations answered from the cache                  *)
  todo,           (* what characterize_all has still to observe            *)
  rows,           (* the characterisation that was published               *)
  frozen,         (* the bank read back                                    *)
  bankPhase
bank == <<unstable, entries, cache, hits, todo, rows, frozen, bankPhase>>

NoBank == [sentinels |-> {}, proofs |-> {}, cache |-> <<>>]
SentinelCount == Cardinality(Positions) - ProductionCount

-------------------------------------------------------------------------------
(* The live bank                                                           *)

BankInit ==
  /\ unstable \in {S \in SUBSET Positions : Cardinality(S) <= MostUnstable}
  /\ entries = <<>> /\ cache = <<>> /\ hits = 0 /\ todo = {}
  /\ rows = {} /\ frozen = NoBank /\ bankPhase = "new"

(* Roles and truths are shuffled: most production segments say what is     *)
(* true of the trainer, half of the sentinels are valid.                   *)
Build(trainerValid) ==
  LET valid == IF trainerValid THEN MajorityCount ELSE ProductionCount - MajorityCount
  IN  /\ bankPhase = "new"
      /\ \E production \in kSubset(ProductionCount, Positions) :
           \E genuine \in SUBSET Positions :
             /\ Cardinality(genuine \cap production) = valid
             /\ Cardinality(genuine \ production) = SentinelCount \div 2
             /\ entries' = [p \in Positions |-> [sentinel |-> p \notin production,
                                                 expected |-> p \in genuine]]
      /\ bankPhase' = "built"
      /\ UNCHANGED <<unstable, cache, hits, todo, rows, frozen>>

Outcomes(p) == {entries[p].expected} \cup (IF p \in unstable THEN BOOLEAN ELSE {})

CacheKey(p, plan, device) == <<p, plan, device>>

(* observe: from the cache, or executed once and stored.                   *)
Observed(p, plan) ==
  LET key == CacheKey(p, plan, Here)
  IN  IF key \in DOMAIN cache
      THEN hits' = hits + 1 /\ UNCHANGED cache
      ELSE /\ \E verdict \in Outcomes(p) :
                cache' = [k \in DOMAIN cache \cup {key} |->
                            IF k = key THEN [proof |-> p, plan |-> plan, verdict |-> verdict]
                            ELSE cache[k]]
           /\ UNCHANGED hits

(* A behaviour replays a segment, the adjudicator a sentinel again.        *)
Use(p, plan) ==
  /\ bankPhase \in {"built", "characterized"} /\ hits < MostHits
  /\ plan = Rerun => entries[p].sentinel
  /\ Observed(p, plan)
  /\ UNCHANGED <<unstable, entries, todo, rows, frozen, bankPhase>>

(* Every proof once, then every sentinel again.                            *)
Required(sentinel) == IF sentinel THEN Plans ELSE {Canonical}

Characterize ==
  /\ bankPhase = "built"
  /\ todo' = {item \in Positions \X Plans : item[2] \in Required(entries[item[1]].sentinel)}
  /\ bankPhase' = "characterizing"
  /\ UNCHANGED <<unstable, entries, cache, hits, rows, frozen>>

(* In the order of identities, which is the order of positions here: roles *)
(* and truths are arbitrary for every position.                            *)
Before(a, b) ==
  \/ a[2] = Canonical /\ b[2] = Rerun
  \/ a[2] = b[2] /\ a[1] < b[1]

CharacterizeNext ==
  /\ bankPhase = "characterizing"
  /\ \E item \in todo :
       /\ \A other \in todo : Before(item, other) \/ item = other
       /\ Observed(item[1], item[2])
       /\ todo' = todo \ {item}
  /\ bankPhase' = IF todo' = {} THEN "characterized" ELSE bankPhase
  /\ UNCHANGED <<unstable, entries, rows, frozen>>

-------------------------------------------------------------------------------
(* The published characterisation                                          *)

ObservationsOf(p) ==
  {[key |-> k, proof |-> p, plan |-> cache[k].plan, verdict |-> cache[k].verdict] :
     k \in {key \in DOMAIN cache : cache[key].proof = p}}
PlansIn(observations) == {o.plan : o \in observations}

(* The source a row names is named in its public segment and its truth.    *)
BankRow(p) ==
  [source |-> p, public |-> p, truth |-> p, proof |-> p, payload |-> p, sealed |-> p,
   device |-> Here, sentinel |-> entries[p].sentinel, observations |-> ObservationsOf(p)]

Incomplete(p) == PlansIn(ObservationsOf(p)) # Required(entries[p].sentinel)

Publish ==
  /\ bankPhase \in {"built", "characterized"}
  /\ IF \E p \in Positions : Incomplete(p)
     THEN bankPhase' = "raised" /\ UNCHANGED rows
     ELSE bankPhase' = "published" /\ rows' = {BankRow(p) : p \in Positions}
  /\ UNCHANGED <<unstable, entries, cache, hits, todo, frozen>>

(* The same observation made on the other device.                          *)
Foreign(o) ==
  [o EXCEPT !.key = CacheKey(o.proof, o.plan, Elsewhere), !.verdict = ~o.verdict]
Moved(r, other) ==
  [r EXCEPT !.source = other.source, !.public = other.source, !.truth = other.source]
Drifted(r, other) ==
  {[r EXCEPT !.device = Elsewhere], [r EXCEPT !.sentinel = ~r.sentinel],
   [r EXCEPT !.public = other.public, !.payload = other.payload],
   [r EXCEPT !.truth = other.truth, !.sealed = other.sealed, !.sentinel = other.sentinel],
   [r EXCEPT !.payload = other.payload], [r EXCEPT !.sealed = other.sealed],
   [r EXCEPT !.observations = other.observations],
   [r EXCEPT !.observations = @ \cup other.observations],
   [r EXCEPT !.observations = {Foreign(o) : o \in @}],
   [r EXCEPT !.observations = @ \cup {[o EXCEPT !.verdict = ~o.verdict] : o \in @}]}
  \cup {[r EXCEPT !.observations = @ \ {o}] : o \in r.observations}
  \cup {Moved(r, other)}
(* A row is changed, or a copy of it is found under another's source.      *)
Exchanged(r, other) ==
  {(rows \ {r}) \cup {changed} : changed \in Drifted(r, other)}
  \cup {rows \cup {Moved(r, other)}}
Readable ==
  {rows} \cup {rows \ {r} : r \in rows}
  \cup UNION {UNION {Exchanged(r, other) : other \in rows} : r \in rows}

\* Mutant: an observation is taken for that of the row it is found in.
RowDriftsUnkeyed(r) ==
  \/ r.device # Here \/ r.public # r.source \/ r.truth # r.source
  \/ r.payload # r.proof \/ r.sealed # r.proof
  \/ \E o \in r.observations : o.proof # r.proof
  \/ PlansIn(r.observations) # Required(r.sentinel)

RowDrifts(r) ==
  \/ r.device # Here \/ r.public # r.source \/ r.truth # r.source
  \/ r.payload # r.proof \/ r.sealed # r.proof
  \/ \E o \in r.observations : o.proof # r.proof \/ o.key # CacheKey(r.proof, o.plan, Here)
  \/ PlansIn(r.observations) # Required(r.sentinel)

(* Every row's observations are stored under their keys, and no two share  *)
(* one; no two rows share a source.                                        *)
Clash(r, q) == r.source = q.source \/ \E o \in r.observations, u \in q.observations : o.key = u.key
ReadRefused(read) ==
  \/ read = {}
  \/ \E r \in read : RowDrifts(r)
  \/ \E r, q \in read : r # q /\ Clash(r, q)
  \/ \E r \in read : \E o, u \in r.observations : o # u /\ o.key = u.key

Read(read) ==
  /\ bankPhase = "published"
  /\ IF ReadRefused(read) THEN bankPhase' = "raised" /\ UNCHANGED frozen
     ELSE /\ bankPhase' = "frozen"
          /\ frozen' = [proofs |-> {r.proof : r \in read},
                        sentinels |-> {r.proof : r \in {q \in read : q.sentinel}},
                        cache |-> LET all == UNION {r.observations : r \in read}
                                  IN  [k \in {o.key : o \in all} |->
                                         (CHOOSE o \in all : o.key = k).verdict]]
  /\ UNCHANGED <<unstable, entries, cache, hits, todo, rows>>

BankNext ==
  \/ \E trainerValid \in BOOLEAN : Build(trainerValid)
  \/ \E p \in Positions, plan \in Plans : Use(p, plan)
  \/ Characterize \/ CharacterizeNext \/ Publish
  \/ \E read \in Readable : Read(read)

BankSpec == BankInit /\ [][BankNext]_bank

-------------------------------------------------------------------------------
(* Properties                                                              *)

(* characterize_all is enough to publish, whatever was observed before or  *)
(* after it.                                                               *)
CharacterizedIsPublishable ==
  bankPhase = "characterized" => \A p \in Positions : ~Incomplete(p)

(* A bank that was read answers whatever its segments can be asked, a      *)
(* replay of each and a rerun of its sentinels, as the live bank did on    *)
(* this device; and the sentinels are those of the block.                  *)
FrozenFaithful ==
  bankPhase = "frozen" =>
    /\ frozen.sentinels = {p \in frozen.proofs : entries[p].sentinel}
    /\ \A p \in frozen.proofs : \A plan \in Required(p \in frozen.sentinels) :
         /\ CacheKey(p, plan, Here) \in DOMAIN frozen.cache
         /\ frozen.cache[CacheKey(p, plan, Here)] = cache[CacheKey(p, plan, Here)].verdict

BankFaithful == CharacterizedIsPublishable /\ FrozenFaithful
===============================================================================
