------------------------------ MODULE ReplayProbes ------------------------------
(***************************************************************************)
(* The compiler of replay tasks and the replay that answers them: a        *)
(* trainer records a proof of its training, the owner makes a production   *)
(* task, a control or a mutated challenge of it behind a permutation of    *)
(* the hidden channels, and a verifier inverts the permutation and         *)
(* replays.                                                                *)
(*                                                                         *)
(* Tensors are functions from index tuples to integers; a hash is the      *)
(* sequence of what was fed to it.                                         *)
(***************************************************************************)
EXTENDS Integers, Sequences, Functions

CONSTANTS
  DrawnMaps,  (* per seed and channel map: the order the generator draws    *)
  Origins,    (* states training starts from                               *)
  BatchSequences, (* the batches of a proof, each its target               *)
  Flaws,      (* how a recorded source differs from its training           *)
  Spots,      (* <<key, index>> the pseudo-random selection may fall on    *)
  Setups,     (* what the methods register: [protocol, mutation, identity, *)
              (* wrapper, seed, opaque]                                    *)
  Tolerance,  (* of a replay                                               *)
  Magnitude,  (* of a registered mutation                                  *)
  Coarse      (* from this value on, floating point steps by Grain         *)
Grain == 16

ChannelSizes == [hidden0 |-> 3, hidden1 |-> 2]
Parameters == {"w1", "w3", "w5", "b5"}

(* The coordinates of each tensor; rm is a buffer of batch normalisation.  *)
Shapes ==
  [w1 |-> {<<i>> : i \in 1..3}, rm |-> {<<i>> : i \in 1..3}, w3 |-> (1..2) \X (1..3),
   w5 |-> {1} \X (1..2), b5 |-> {<<1>>}]
Shaped(tensors, keys) ==
  /\ tensors = [key \in keys |-> tensors[key]]
  /\ \A key \in keys : tensors[key] \in [Shapes[key] -> Int]

(* A mutation is registered at four times the tolerance of a replay.       *)
ProbeAssumption ==
  /\ Tolerance \in Nat \ {0} /\ Magnitude \in Nat /\ Magnitude >= 4 * Tolerance /\ Coarse \in Int
  /\ \A seed \in DOMAIN DrawnMaps : \A name \in DOMAIN ChannelSizes :
       /\ DrawnMaps[seed][name] \in [1..ChannelSizes[name] -> 1..ChannelSizes[name]]
       /\ IsInjective(DrawnMaps[seed][name]) /\ Range(DrawnMaps[seed][name]) = 1..ChannelSizes[name]
  /\ \A seed \in DOMAIN DrawnMaps : DOMAIN DrawnMaps # {seed}
  /\ \A origin \in Origins : Shaped(origin, DOMAIN Shapes)
  /\ BatchSequences \subseteq Seq(Int) /\ \A targets \in BatchSequences : Len(targets) >= 4
  /\ \A spot \in Spots : spot[1] \in DOMAIN Shapes /\ spot[2] \in Shapes[spot[1]]
  /\ \A flaw \in Flaws :
       /\ flaw.by \in Int /\ flaw.spot[1] \in DOMAIN Shapes /\ flaw.spot[2] \in Shapes[flaw.spot[1]]
       /\ \A targets \in BatchSequences : flaw.k \in 1..Len(targets)
  /\ \A s \in Setups : s.seed \in DOMAIN DrawnMaps /\ s.mutation \in {"suffix", "coherent", "continuation"}

VARIABLES
  stage,
  source,     (* the recorded proof                                        *)
  valid,      (* what the owner's replay of it returns                     *)
  bundle,     (* what the owner keeps and publishes of the compiled task   *)
  descriptor, (* of the wrapper, as the verifier receives it               *)
  answer      (* of the verifier                                           *)
probed == <<stage, source, valid, bundle, descriptor, answer>>
Nothing == "nothing"
Deferred == [deferred |-> TRUE]
Refused == [refused |-> TRUE]

-------------------------------------------------------------------------------
(* Permutations                                                            *)

(* Per dimension of a tensor, the channel map it follows.                  *)
DimensionMaps ==
  [w1 |-> <<"hidden0">>, rm |-> <<"hidden0">>, w3 |-> <<"hidden1", "hidden0">>,
   w5 |-> <<"outputs", "hidden1">>, b5 |-> <<"outputs">>]

(* A drawn identity is not one: its first two channels are swapped.        *)
Permutation(drawn) ==
  IF Len(drawn) > 1 /\ \A i \in DOMAIN drawn : drawn[i] = i
    THEN [drawn EXCEPT ![1] = drawn[2], ![2] = drawn[1]] ELSE drawn
Plan(seed, mode) ==
  [seed |-> seed, mode |-> mode,
   maps |-> [name \in DOMAIN ChannelSizes |->
               IF mode = "identity" THEN [i \in 1..ChannelSizes[name] |-> i]
                                    ELSE Permutation(DrawnMaps[seed][name])]]
InversePlan(plan) ==
  [plan EXCEPT !.maps = [name \in DOMAIN ChannelSizes |-> AntiFunction(plan.maps[name])]]

(* index_select on every mapped dimension; momentum may cover fewer keys.  *)
Selected(plan, key, at) ==
  LET Select(name, i) == IF name \in DOMAIN plan.maps THEN plan.maps[name][i] ELSE i
  IN [d \in DOMAIN at |-> Select(DimensionMaps[key][d], at[d])]
TransformState(state, plan) ==
  [key \in DOMAIN state |-> [at \in DOMAIN state[key] |-> state[key][Selected(plan, key, at)]]]
TransformAll(states, plan) == [k \in DOMAIN states |-> TransformState(states[k], plan)]

(* Mutant: momenta are delivered as they were recorded.                    *)
MomentaUnwrapped(states, plan) == states
TransformOptimizer(states, plan) == TransformAll(states, plan)

(* states and momenta begin with the initial one.                          *)
TransformProof(proof, plan) ==
  [proof EXCEPT !.states = TransformAll(@, plan), !.momenta = TransformOptimizer(@, plan)]

-------------------------------------------------------------------------------
(* Training and its replay: the model and its gradient are the library's   *)
(* and treat the hidden channels alike.                                    *)

Sign(n) == IF n > 0 THEN 1 ELSE IF n < 0 THEN -1 ELSE 0
Gradient(state, target) ==
  LET Into(j, i) == state.w3[<<j, i>>] * state.w1[<<i>>]
      hidden == [j \in 1..2 |-> Into(j, 1) + Into(j, 2) + Into(j, 3)]
      output == state.w5[<<1, 1>>] * hidden[1] + state.w5[<<1, 2>>] * hidden[2] + state.b5[<<1>>]
      error == Sign(output - target)
      Back(i) == state.w5[<<1, 1>>] * state.w3[<<1, i>>] + state.w5[<<1, 2>>] * state.w3[<<2, i>>]
  IN [w1 |-> [at \in DOMAIN state.w1 |-> error * Sign(Back(at[1]))],
      w3 |-> [at \in DOMAIN state.w3 |-> error * Sign(state.w5[<<1, at[1]>>] * state.w1[<<at[2]>>])],
      w5 |-> [at \in DOMAIN state.w5 |-> error * Sign(hidden[at[2]])],
      b5 |-> [at \in DOMAIN state.b5 |-> error]]

(* A step of SGD with learning rate and momentum one; the buffer follows   *)
(* its statistics.  The gradient comes in steps of `scale'.                *)
FullScale == 4
SmallerScale == 2
Step(at, target, scale) ==
  LET gradient == Gradient(at.state, target)
      momentum == [key \in Parameters |-> [ix \in DOMAIN gradient[key] |->
                     scale * gradient[key][ix]
                       + IF key \in DOMAIN at.momentum THEN at.momentum[key][ix] ELSE 0]]
  IN [momentum |-> momentum,
      state |-> [key \in DOMAIN at.state |-> [ix \in DOMAIN at.state[key] |->
                   IF key \in Parameters THEN at.state[key][ix] - momentum[key][ix]
                                         ELSE at.state[key][ix] + Grain * Sign(at.state.w1[ix])]]]

(* The steps from a state on, the first with its gradient scaled.          *)
ProduceUpdate(state, momentum, targets, firstScale) ==
  LET steps[n \in 0..Len(targets)] ==
        IF n = 0 THEN <<[state |-> state, momentum |-> momentum]>>
        ELSE LET taken == steps[n - 1]
             IN Append(taken, Step(taken[n], targets[n], IF n = 1 THEN firstScale ELSE FullScale))
  IN steps[Len(targets)]
Recorded(steps, targets) ==
  [states |-> [k \in DOMAIN steps |-> steps[k].state],
   momenta |-> [k \in DOMAIN steps |-> steps[k].momentum], batches |-> targets]

Distance(a, b) == IF a > b THEN a - b ELSE b - a
Close(left, right) ==
  /\ DOMAIN left = DOMAIN right
  /\ \A key \in DOMAIN left : \A ix \in DOMAIN left[key] :
       Distance(left[key][ix], right[key][ix]) <= Tolerance

(* Train again from the initial state and compare every checkpoint, each   *)
(* restored by a plan only when the replay needs it.                       *)
VerifyReplayProof(proof, plan) ==
  LET steps == ProduceUpdate(TransformState(proof.states[1], plan),
                             TransformOptimizer(proof.momenta, plan)[1], proof.batches, FullScale)
  IN \A k \in 2..Len(steps) :
       /\ Close(steps[k].state, TransformState(proof.states[k], plan))
       /\ Close(steps[k].momentum, TransformOptimizer(proof.momenta, plan)[k])
AsItIs == Plan(CHOOSE seed \in DOMAIN DrawnMaps : TRUE, "identity")
Replays(proof) == VerifyReplayProof(proof, AsItIs)

(* What can be checked of a proof without training: each checkpoint        *)
(* follows from the one before and its momentum.                           *)
SgdPublicConsistency(proof) ==
  \A k \in 2..Len(proof.states) : \A key \in DOMAIN proof.momenta[k] :
    \A ix \in DOMAIN proof.momenta[k][key] :
      Distance(proof.states[k][key][ix],
               proof.states[k - 1][key][ix] - proof.momenta[k][key][ix]) <= Tolerance

-------------------------------------------------------------------------------
(* Identities of a proof                                                   *)

(* A state feeds a hash its position and its tensors, in the order of      *)
(* their names: nothing that the state does not determine.                 *)
Feed(position, state) == <<position, state>>
FeedAll(states) == [k \in DOMAIN states |-> Feed(k - 1, states[k])]
ComponentHashes(proof) ==
  [proof |-> <<FeedAll(proof.states), FeedAll(proof.momenta), proof.batches>>,
   checkpoint |-> FeedAll(Tail(proof.states)),
   optimizer |-> FeedAll(proof.momenta)]

(* Mutant: checkpoints are counted with the initial state.                 *)
AccumulateFromInitial(hash, position, state) ==
  [complete |-> Append(hash.complete, Feed(position, state)),
   checkpoint |-> IF position = 0 THEN hash.checkpoint
                  ELSE Append(hash.checkpoint, Feed(position, state))]

(* The same while the transformed states are produced, in one pass.        *)
Accumulate(hash, position, state) ==
  [complete |-> Append(hash.complete, Feed(position, state)),
   checkpoint |-> IF position = 0 THEN hash.checkpoint
                  ELSE Append(hash.checkpoint, Feed(position - 1, state))]
FusedHashes(states, momenta, batches) ==
  LET Fed(observed) ==
        LET hash[n \in 0..Len(observed)] ==
              IF n = 0 THEN [complete |-> <<>>, checkpoint |-> <<>>]
              ELSE Accumulate(hash[n - 1], n - 1, observed[n])
        IN hash[Len(observed)]
      model == Fed(states)
      optimizer == Fed(momenta).complete
  IN [proof |-> <<model.complete, optimizer, batches>>,
      checkpoint |-> model.checkpoint,
      optimizer |-> optimizer]

-------------------------------------------------------------------------------
(* Challenges                                                              *)

(* What is stored of a value: large ones lose small changes.               *)
Stored(value) ==
  IF Distance(value, 0) < Coarse THEN value
  ELSE ((value + (Grain \div 2)) \div Grain) * Grain
CheckpointOf(atom) == IF atom \in {1, 2} THEN 3 ELSE 4
SignOf(atom) == IF atom \in {1, 3} THEN 1 ELSE -1
Mutation(proof, atom, k, spot) ==
  LET before == proof.states[k + 1][spot[1]][spot[2]]
      after == Stored(before + SignOf(atom) * Magnitude)
  IN [k |-> k, spot |-> spot, before |-> before, after |-> after]
Observed(mutation) == Distance(mutation.after, mutation.before)

(* The registered protocol keeps to coordinates where rounding leaves      *)
(* three quarters of the change.                                           *)
PrecisionSafe(mutation) == 4 * Observed(mutation) >= 3 * Magnitude
Mutations(proof, atom, setup) ==
  LET coherent == setup.mutation = "coherent"
      checkpoints == IF coherent THEN 1..(Len(proof.states) - 1) ELSE {CheckpointOf(atom)}
      found == {Mutation(proof, atom, k, spot) : k \in checkpoints,
                  spot \in {s \in Spots : coherent => s[1] \in Parameters}}
  IN IF setup.protocol = "v4" THEN {m \in found : PrecisionSafe(m)} ELSE found

(* Mutant: the checkpoint after the mutated one still follows from before. *)
PreserveOneIdentity(proof, mutation) ==
  LET key == mutation.spot[1]
      ix == mutation.spot[2]
      k == mutation.k + 1
  IN [proof EXCEPT !.momenta[k][key][ix] = proof.states[k - 1][key][ix] - proof.states[k][key][ix]]

(* A coherent mutation also moves the momenta of its coordinate, of the    *)
(* mutated checkpoint and of the next.                                     *)
PreserveSgdIdentity(proof, mutation) ==
  LET key == mutation.spot[1]
      ix == mutation.spot[2]
      k == mutation.k + 1
      Implied(n) == proof.states[n - 1][key][ix] - proof.states[n][key][ix]
  IN [proof EXCEPT !.momenta = [n \in DOMAIN @ |->
        IF n \in {k, k + 1} THEN [@[n] EXCEPT ![key][ix] = Implied(n)] ELSE @[n]]]
MutateProof(proof, mutation, setup) ==
  LET mutated == [proof EXCEPT !.states[mutation.k + 1][mutation.spot[1]][mutation.spot[2]] = mutation.after]
  IN IF setup.mutation = "coherent" THEN PreserveSgdIdentity(mutated, mutation) ELSE mutated

(* Or the owner trains on from a checkpoint with its first gradient scaled.*)
GradientContinuation(proof, k) ==
  LET suffix == ProduceUpdate(proof.states[k], proof.momenta[k],
                              SubSeq(proof.batches, k, Len(proof.batches)), SmallerScale)
      Continued(steps, record) == SubSeq(steps, 1, k) \o Tail(record)
  IN [proof EXCEPT !.states = Continued(@, [n \in DOMAIN suffix |-> suffix[n].state]),
                   !.momenta = Continued(@, [n \in DOMAIN suffix |-> suffix[n].momentum])]

(* Mutant: what was asked of the mutation is taken for what it did.        *)
WitnessOfRequest(mutation, sourceValid, plan) ==
  /\ sourceValid
  /\ \A name \in DOMAIN plan.maps : Range(plan.maps[name]) = DOMAIN plan.maps[name]
  /\ Magnitude >= 3 * Tolerance
  /\ Magnitude - Tolerance > Tolerance

(* Constant size evidence that a replay refuses a mutation of a valid      *)
(* source: its own deviation and the allowed one are both outdone.         *)
WitnessHolds(mutation, sourceValid, plan) ==
  /\ sourceValid
  /\ \A name \in DOMAIN plan.maps : Range(plan.maps[name]) = DOMAIN plan.maps[name]
  /\ Observed(mutation) >= 3 * Tolerance
  /\ Observed(mutation) - Tolerance > Tolerance
-------------------------------------------------------------------------------
(* The wrapper's public descriptor                                         *)

PermutationId(plan) == <<plan.seed, plan.mode, plan.maps>>
Commitment(d) == <<d.protocol, d.plan, d.id>>
Descriptor(plan, protocol) ==
  LET body == [protocol |-> protocol, plan |-> plan, id |-> PermutationId(plan)]
  IN [protocol |-> protocol, plan |-> plan, id |-> body.id, commitment |-> Commitment(body)]

(* A verifier rebuilds the plan from the public seed before it inverts.    *)
PlanAuthenticated(d) ==
  /\ \A name \in DOMAIN d.plan.maps :
       /\ IsInjective(d.plan.maps[name])
       /\ Range(d.plan.maps[name]) = DOMAIN d.plan.maps[name]
  /\ d.id = PermutationId(d.plan)
  /\ d.plan.maps = Plan(d.plan.seed, d.plan.mode).maps
DescriptorVerified(d, protocol) ==
  d.protocol = protocol /\ d.commitment = Commitment(d) /\ PlanAuthenticated(d)

(* The delivered proof as it was before the wrapper, with its identity     *)
(* taken on the way; or each state restored when the replay consumes it.   *)
Canonicalize(proof, plan) ==
  IF plan.mode = "identity" THEN proof ELSE TransformProof(proof, InversePlan(plan))
CanonicalHashes(proof, plan) ==
  IF plan.mode = "identity" THEN ComponentHashes(proof)
  ELSE LET canonical == Canonicalize(proof, plan)
       IN FusedHashes(canonical.states, canonical.momenta, canonical.batches)
StreamedReplay(proof, plan) ==
  VerifyReplayProof(proof, IF plan.mode = "identity" THEN AsItIs ELSE InversePlan(plan))

(* The descriptors a delivery may arrive with: a part of it is another's,  *)
(* and the identifiers over it are recomputed or not.                      *)
Garbled(d) ==
  LET other == Plan(CHOOSE seed \in DOMAIN DrawnMaps : seed # d.plan.seed, "permuted")
      plans == {other, Plan(d.plan.seed, "identity"), [d.plan EXCEPT !.maps = other.maps],
                [d.plan EXCEPT !.maps["hidden0"] = [i \in 1..3 |-> 1]]}
  IN {[d EXCEPT !.plan = plan] : plan \in plans}
       \cup {Descriptor(plan, d.protocol) : plan \in plans} \cup {Descriptor(d.plan, "v0")}

-------------------------------------------------------------------------------
(* The source                                                              *)

ProbesInit ==
  /\ stage = "training"
  /\ source = Nothing /\ valid = Nothing /\ bundle = Nothing
  /\ descriptor = Nothing /\ answer = Nothing

(* The trainer starts without momentum; what it records may deviate from   *)
(* what it trained, a little by its arithmetic or by not training.         *)
ProduceSource ==
  /\ stage = "training"
  /\ \E origin \in Origins, targets \in BatchSequences, flaw \in Flaws :
       LET proof == Recorded(ProduceUpdate(origin, <<>>, targets, FullScale), targets)
           recorded == IF flaw.by = 0 THEN proof
                       ELSE [proof EXCEPT !.states[flaw.k + 1][flaw.spot[1]][flaw.spot[2]] = @ + flaw.by]
       IN /\ source' = recorded
          /\ valid' = Replays(recorded)
  /\ stage' = "source"
  /\ UNCHANGED <<bundle, descriptor, answer>>

(* Everything the owner keeps and publishes of one task.                     *)
Bundle(setup, role, atom, mutation, candidate, verdictKnown) ==
  LET plan == Plan(setup.seed, IF setup.wrapper = "identity" THEN "identity" ELSE "permuted")
      unmodified == role # "challenge"
      wrapped == IF setup.wrapper = "identity" THEN candidate ELSE TransformProof(candidate, plan)
      fusing == setup.wrapper # "identity" /\ setup.identity \in {"fused", "deferred"}
      sourceHashes == ComponentHashes(source)
      binding == IF setup.opaque THEN <<"handle", sourceHashes.proof>> ELSE sourceHashes.proof
  IN [setup |-> setup, role |-> role, atom |-> atom, mutation |-> mutation, candidate |-> candidate,
      wrapped |-> wrapped,
      candidateHashes |->
        IF unmodified THEN sourceHashes
        ELSE IF ~fusing THEN ComponentHashes(candidate)
        ELSE IF setup.identity = "fused" THEN FusedHashes(candidate.states, candidate.momenta, candidate.batches)
        ELSE Deferred,
      wrappedHashes |->
        IF fusing THEN FusedHashes(wrapped.states, wrapped.momenta, wrapped.batches)
        ELSE IF setup.wrapper = "identity" /\ unmodified THEN sourceHashes
        ELSE ComponentHashes(wrapped),
      taskId |-> <<setup.protocol, binding, PermutationId(plan)>>,
      expected |-> IF role = "production" /\ verdictKnown THEN valid ELSE role # "challenge"]
Delivers(compiled, plan) ==
  /\ bundle' = compiled
  /\ descriptor' = Descriptor(plan, compiled.setup.protocol)

(* A source that did not replay is never a probe; a challenge has an atom  *)
(* and, unless a safe coordinate is missing, a mutation.                   *)
CompileTask ==
  /\ stage = "source"
  /\ \E setup \in Setups, role \in {"production", "control", "challenge"}, verdictKnown \in BOOLEAN :
       LET plan == Plan(setup.seed, IF setup.wrapper = "identity" THEN "identity" ELSE "permuted")
       IN IF role # "production"
            THEN /\ verdictKnown /\ valid
                 /\ \/ /\ role = "control"
                       /\ Delivers(Bundle(setup, role, 0, Nothing, source, TRUE), plan)
                    \/ /\ role = "challenge" /\ setup.mutation = "continuation"
                       /\ \E atom \in 1..4 :
                            Delivers(Bundle(setup, role, atom, Nothing,
                                            GradientContinuation(source, atom), TRUE), plan)
                    \/ /\ role = "challenge" /\ setup.mutation # "continuation"
                       /\ \E atom \in 1..4 : \E mutation \in Mutations(source, atom, setup) :
                            Delivers(Bundle(setup, role, atom, mutation,
                                            MutateProof(source, mutation, setup), TRUE), plan)
            ELSE Delivers(Bundle(setup, role, 0, Nothing, source, verdictKnown), plan)
  /\ stage' = "compiled"
  /\ UNCHANGED <<source, valid, answer>>

(* The owner keeps a challenge only on evidence that a replay refuses it:  *)
(* its own replay of a continuation, the witness of a mutation.            *)
ChallengeEstablished ==
  IF bundle.setup.mutation = "continuation" THEN ~Replays(bundle.candidate)
  ELSE WitnessHolds(bundle.mutation, valid, descriptor.plan)
ExamineTask ==
  /\ stage = "compiled"
  /\ stage' = IF bundle.role = "challenge" => ChallengeEstablished THEN "delivered" ELSE "withdrawn"
  /\ UNCHANGED <<source, valid, bundle, descriptor, answer>>

GarbleDescriptor ==
  /\ stage = "delivered" /\ descriptor = Descriptor(descriptor.plan, bundle.setup.protocol)
  /\ descriptor.plan.seed = bundle.setup.seed /\ bundle.role # "challenge"
  /\ descriptor' \in Garbled(descriptor)
  /\ stage' = "garbled"
  /\ UNCHANGED <<source, valid, bundle, answer>>

(* The verifier streams the restored states into the replay, or restores   *)
(* the proof first; a shortcut looks at the delivered bytes alone.         *)
AnswerTask ==
  /\ stage \in {"delivered", "garbled"}
  /\ answer' = IF ~DescriptorVerified(descriptor, bundle.setup.protocol) THEN Refused
               ELSE [streamed |-> StreamedReplay(bundle.wrapped, descriptor.plan),
                     replayed |-> Replays(Canonicalize(bundle.wrapped, descriptor.plan)),
                     hashes |-> CanonicalHashes(bundle.wrapped, descriptor.plan),
                     public |-> SgdPublicConsistency(bundle.wrapped)]
  /\ stage' = IF stage = "garbled" THEN "garbled answer" ELSE "answered"
  /\ UNCHANGED <<source, valid, bundle, descriptor>>

Finished == stage \in {"withdrawn", "answered", "garbled answer"} /\ UNCHANGED probed
ProbesNext == ProduceSource \/ CompileTask \/ ExamineTask \/ GarbleDescriptor \/ AnswerTask \/ Finished
ProbesSpec == ProbesInit /\ [][ProbesNext]_probed

-------------------------------------------------------------------------------
(* Properties                                                              *)

(* Whatever the wrapper, and whether the states are restored as they are   *)
(* needed or all at once, the replay of a delivered task gives what the    *)
(* replay of its source did, and refuses every challenge.  A descriptor    *)
(* that is not the owner's is refused or makes no difference to that.      *)
(* The expected verdict is wrong only of a source nobody replayed.         *)
ReplaysAsExpected ==
  /\ stage \in {"answered", "garbled answer"} /\ answer # Refused =>
       LET truth == valid /\ bundle.role # "challenge"
       IN /\ answer.streamed = truth /\ answer.replayed = truth
          /\ bundle.expected = truth \/ (bundle.role = "production" /\ ~valid)
  /\ stage = "answered" => answer # Refused

(* Every way to compute the identity of a proof finds the same, and what   *)
(* deferring leaves out is found again after the wrapper is undone.        *)
IdentitiesAgree ==
  stage = "answered" =>
    /\ bundle.wrappedHashes = ComponentHashes(bundle.wrapped)
    /\ answer.hashes = ComponentHashes(bundle.candidate)
    /\ bundle.candidateHashes = ComponentHashes(bundle.candidate)
         \/ (bundle.candidateHashes = Deferred /\ bundle.setup.identity = "deferred" /\ bundle.role = "challenge")

(* What can be checked without a replay does not tell a coherent mutation  *)
(* or a continuation from its source, behind any wrapper.                  *)
ChallengesCoherent ==
  stage = "answered" /\ bundle.role = "challenge" /\ bundle.setup.mutation # "suffix" => answer.public

(* Rounding never costs the owner a mutation of the registered protocol.   *)
WithdrawnForCause ==
  stage = "withdrawn" => bundle.setup.mutation = "continuation" \/ bundle.setup.protocol # "v4"

ProbesSound == ReplaysAsExpected /\ IdentitiesAgree /\ ChallengesCoherent /\ WithdrawnForCause
===============================================================================
