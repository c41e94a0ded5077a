------------------------------ MODULE SourceGroup ------------------------------
(***************************************************************************)
(* The units of one source group, as ScopedStudy.run_dataset runs them:    *)
(* one OnlineJob after the other over the same bank of committed sources.  *)
(* A job with source probes replays sources in a private order until       *)
(* enough pass; the others get the same production targets, from an RCMP   *)
(* job or a fixture, so that methods are compared on the same production.  *)
(* Jobs of functional packages may reuse the preparation of an earlier job *)
(* with the same method, captured before anybody served.                   *)
(*                                                                         *)
(* Left out: how tasks are compiled (CompileLanes), recovery units         *)
(* (ExecutedRecovery), special units, units held back or reusing the row   *)
(* of a finished one, and the shared epochs of claim-linked studies        *)
(* (ServiceStudy).                                                         *)
(***************************************************************************)
EXTENDS JobMethods, DisclosureEpoch

CONSTANTS
  Priority,    (* the bank's sources in the order the role secret gives    *)
  GoldOrder,   (* the sources of a hidden-gold job                         *)
  Plans        (* the groups of units a behaviour may start from           *)

Sources    == {Priority[i] : i \in DOMAIN Priority}
Gold       == {GoldOrder[i] : i \in DOMAIN GoldOrder}
AllSources == Sources \cup Gold

Units ==
  [method: MethodKeys, behavior: Behaviors, verifiers: Nat \ {0}, functional: BOOLEAN]

ASSUME BankAssumption ==
  /\ Priority \in Seq(Sources) /\ GoldOrder \in Seq(Gold)
  /\ \A i, k \in DOMAIN Priority : Priority[i] = Priority[k] => i = k
  /\ \A i, k \in DOMAIN GoldOrder : GoldOrder[i] = GoldOrder[k] => i = k
  /\ Sources \cap Gold = {} /\ Len(GoldOrder) = NumProbes
  /\ Len(Priority) >= NumProbes + AuditAll
ASSUME PlansAssumption ==
  Plans \subseteq [units: Seq(Units), reuse: BOOLEAN, releaseEarly: BOOLEAN]

VARIABLES
  plan,        (* the units and the performance flags; no step changes it  *)
  passes,      (* sources whose replay passes; no step changes it          *)
  left,        (* units not started                                        *)
  unit,        (* the unit in progress, 0 between units                    *)
  place,       (* where the loop is                                        *)
  targets,     (* {} or {the paired production targets}                    *)
  templates,   (* templates[m]: the retained preparation of method m       *)
  folders,     (* delivery folders on scratch, by the unit that made them  *)
  rows,        (* the result of each finished unit                         *)
  (* the job *)
  given,       (* receipts it started with                                 *)
  receipts,    (* sources with an owner receipt                            *)
  replays,     (* replays[s]: how often this job's owner replayed s        *)
  tried,       (* probe candidates looked at                               *)
  selected,    (* the probes' sources, in order                            *)
  production,  (* the production targets' sources                          *)
  folder,      (* the unit whose folder holds the deliveries               *)
  epoch,       (* the disclosure epoch of a job with complete probes       *)
  (* its service *)
  hunch,       (* what the verifiers of the unit go by instead of replays  *)
  reports,     (* settled reports                                          *)
  verdicts,    (* the committed report in progress                         *)
  drawn,       (* the production sampled for its audit                     *)
  audited      (* of these, or of an owner-direct job, already acquired    *)

fixed   == <<plan, passes>>
schedule == <<left, unit>>
group   == <<targets, templates, folders, rows>>
cache   == <<given, receipts, replays>>
choice  == <<tried, selected, production, folder>>
serving == <<verdicts, drawn, audited>>
vars == <<fixed, schedule, place, group, cache, choice, epoch, hunch, reports, serving>>

Places ==
  {"idle", "fixture", "begin", "try", "serve", "reported", "audit", "direct", "close",
   "done", "raised"}

U      == plan.units[unit]
M      == MethodOf(U.method)
Tasks  == production \cup Chosen(selected)
Issued == Len(selected) = NumProbes \/ M.probes = "none"

NoReplays == [s \in AllSources |-> 0]

Init ==
  /\ plan \in Plans
  /\ \E invalid \in SUBSET Sources, broken \in SUBSET Gold :
       /\ Cardinality(broken) <= 1
       /\ passes = AllSources \ (invalid \cup broken)
  /\ left = DOMAIN plan.units /\ unit = 0 /\ place = "idle"
  /\ targets = {} /\ templates = <<>> /\ folders = {} /\ rows = <<>>
  /\ given = {} /\ receipts = {} /\ replays = NoReplays
  /\ tried = 0 /\ selected = <<>> /\ production = {} /\ folder = 0
  /\ epoch = NewEpoch({}) /\ hunch = {} /\ reports = <<>>
  /\ verdicts = <<>> /\ drawn = {} /\ audited = {}

Raise ==
  /\ place' = "raised"
  /\ UNCHANGED <<schedule, group, cache, choice, epoch, hunch, reports, serving>>

-------------------------------------------------------------------------------
(* The schedule.  To release preparations early, the functional units are  *)
(* grouped by method, methods in order of their first use; the units of a  *)
(* method are taken to be listed in the order of their packages.           *)

FirstUse(m) ==
  CHOOSE i \in DOMAIN plan.units :
    /\ plan.units[i].functional /\ plan.units[i].method = m
    /\ \A k \in 1..(i - 1) : plan.units[k].functional => plan.units[k].method # m
RankAsListed(i) == 0
Rank(i) ==
  IF ~plan.releaseEarly THEN 0
  ELSE IF plan.units[i].functional THEN FirstUse(plan.units[i].method)
  ELSE Len(plan.units) + 1
Due(i) ==
  /\ i \in left
  /\ \A k \in left \ {i} : Rank(i) < Rank(k) \/ (Rank(i) = Rank(k) /\ i < k)

(* A job starts with nothing; it serves nobody yet.                        *)
NewJob ==
  /\ receipts' = {} /\ given' = {} /\ replays' = NoReplays
  /\ tried' = 0 /\ selected' = <<>> /\ production' = {} /\ epoch' = NewEpoch({})

(* A comparator that comes first has its targets made by a fixture.        *)
StartUnit(i) ==
  /\ place = "idle" /\ Due(i)
  /\ unit' = i /\ left' = left \ {i}
  /\ place' = IF targets = {} /\ MethodOf(plan.units[i].method).probes # "source"
              THEN "fixture" ELSE "begin"
  /\ NewJob /\ reports' = <<>> /\ audited' = {}
  /\ UNCHANGED <<fixed, group, folder, hunch, verdicts, drawn>>

-------------------------------------------------------------------------------
(* Preparation                                                             *)

(* JobReferences.acquire: one owner replay per source and job.             *)
Acquire(s) ==
  /\ receipts' = receipts \cup {s}
  /\ replays' = IF s \in receipts THEN replays ELSE [replays EXCEPT ![s] = @ + 1]
  /\ UNCHANGED given

(* acquire_probe_sources stops at the last probe it needs or when every    *)
(* source was tried; a gold job replays all its gold.                      *)
Gilded     == place = "try" /\ M.probes = "gold"
Candidates == IF Gilded THEN GoldOrder ELSE Priority
Searching  ==
  /\ place \in {"fixture", "try"} /\ tried < Len(Candidates)
  /\ ~Gilded => Len(selected) < NumProbes

TrySourceTakingAll ==
  /\ Searching
  /\ LET s == Candidates[tried + 1]
     IN  /\ Acquire(s)
         /\ selected' = Append(selected, s)
  /\ tried' = tried + 1
  /\ UNCHANGED <<fixed, schedule, place, group, production, folder, epoch, hunch, reports, serving>>
TrySource ==
  /\ Searching
  /\ LET s == Candidates[tried + 1]
     IN  /\ Acquire(s)
         /\ selected' = IF s \in passes THEN Append(selected, s) ELSE selected
  /\ tried' = tried + 1
  /\ UNCHANGED <<fixed, schedule, place, group, production, folder, epoch, hunch, reports, serving>>

Rest == Sources \ Chosen(selected)

(* The fixture is a job of its own, dropped once its choice is known.      *)
FixtureDone ==
  /\ place = "fixture" /\ ~Searching
  /\ targets' = IF Len(selected) = NumProbes THEN {Rest} ELSE {}
  /\ place' = "begin" /\ NewJob
  /\ UNCHANGED <<fixed, schedule, templates, folders, rows, folder, hunch, reports, serving>>

Reusable == plan.reuse /\ U.functional /\ ~M.complete
Templated == Reusable /\ U.method \in DOMAIN templates

(* What follows a constructor that returns with issued: the template is    *)
(* kept, the epoch registered, the verifiers known.                        *)
Template(p) == [receipts |-> receipts, selected |-> selected, production |-> p, folder |-> unit]
ServeFrom(sel, p) ==
  /\ place' = IF M.direct THEN "direct" ELSE "serve"
  /\ epoch' = NewEpoch(IF M.complete THEN 1..U.verifiers ELSE {})
  /\ hunch' \in Hunches(U.behavior, M, p \cup Chosen(sel), Sources, passes)
Deliver(p) ==
  /\ ServeFrom(selected, p)
  /\ production' = p
  /\ templates' = IF Reusable
                  THEN [m \in DOMAIN templates \cup {U.method} |->
                          IF m = U.method THEN Template(p) ELSE templates[m]]
                  ELSE templates

(* reuse_preparation: receipts are a copy of what the template captured.   *)
Reuse ==
  /\ place = "begin" /\ Templated
  /\ LET t == templates[U.method]
     IN  /\ receipts' = t.receipts /\ given' = t.receipts
         /\ selected' = t.selected /\ production' = t.production /\ folder' = t.folder
         /\ ServeFrom(t.selected, t.production)
  /\ replays' = NoReplays /\ tried' = 0
  /\ UNCHANGED <<fixed, schedule, group, reports, serving>>

(* A new job: RCMP and gold jobs replay candidates first.  Comparators     *)
(* raise if the group has no targets.                                      *)
Prepare ==
  /\ place = "begin" /\ ~Templated
  /\ IF M.probes # "source" /\ targets = {} THEN Raise /\ UNCHANGED fixed
     ELSE /\ folders' = folders \cup {unit} /\ folder' = unit
          /\ IF M.probes = "none"
             THEN /\ \E p \in targets : Deliver(p)
                  /\ UNCHANGED <<cache, tried, selected>>
             ELSE /\ place' = "try"
                  /\ UNCHANGED <<templates, cache, tried, selected, production, epoch, hunch>>
          /\ UNCHANGED <<fixed, schedule, targets, rows, reports, serving>>

(* Not issued: OWNER_REPLAY_REJECT, or the gold is no reference.           *)
NotIssuedWithSources ==
  /\ place = "try" /\ ~Searching /\ ~Issued /\ M.probes = "source"
  /\ place' = "close"
  /\ UNCHANGED <<fixed, schedule, group, cache, choice, epoch, hunch, reports, serving>>
NotIssued ==
  /\ place = "try" /\ ~Searching /\ ~Issued
  /\ place' = "close"
  /\ UNCHANGED <<fixed, schedule, group, cache, choice, epoch, hunch, reports, serving>>

(* An RCMP job must come to the targets the others were given.             *)
Prepared ==
  /\ place = "try" /\ ~Searching /\ Issued
  /\ \E p \in IF Gilded THEN targets ELSE {Rest} :
       IF targets # {} /\ targets # {p} THEN Raise /\ UNCHANGED fixed
       ELSE /\ Deliver(p) /\ targets' = {p}
            /\ UNCHANGED <<fixed, schedule, folders, rows, cache, tried, selected, folder, reports,
                           serving>>

-------------------------------------------------------------------------------
(* Service, one verifier after the other                                   *)

Upcoming == Len(reports) + 1

(* execute_assignment: the report is committed, then revealed.             *)
Serve ==
  /\ place = "serve" /\ Upcoming <= U.verifiers
  /\ IF M.complete /\ ~MayBegin(epoch, Upcoming) THEN Raise /\ UNCHANGED fixed
     ELSE /\ epoch' = IF M.complete THEN Begun(epoch, Upcoming) ELSE epoch
          /\ verdicts' = [s \in Tasks |->
                            Verdict(U.behavior, s, hunch, M, Sources, passes, selected)]
          /\ place' = "reported"
          /\ UNCHANGED <<fixed, schedule, group, cache, choice, hunch, reports, drawn, audited>>

(* audit_sample, from the secret and the report's commitment               *)
Draw ==
  /\ place = "reported"
  /\ drawn' \in {d \in SUBSET production : Cardinality(d) = M.audit}
  /\ audited' = {} /\ place' = "audit"
  /\ UNCHANGED <<fixed, schedule, group, cache, choice, epoch, hunch, reports, verdicts>>

(* The owner acquires the sampled references on its lanes, in any order.   *)
Audit(s) ==
  /\ place = "audit" /\ s \in drawn \ audited
  /\ Acquire(s) /\ audited' = audited \cup {s}
  /\ UNCHANGED <<fixed, schedule, place, group, choice, epoch, hunch, reports, verdicts, drawn>>

SettleUnfinished ==
  /\ place = "audit" /\ audited = drawn
  /\ reports' = Append(reports, [verdicts |-> verdicts,
                                 status |-> Status(verdicts, drawn, M, passes, selected)])
  /\ place' = "serve"
  /\ UNCHANGED <<fixed, schedule, group, cache, choice, epoch, hunch, serving>>
Settle ==
  /\ place = "audit" /\ audited = drawn
  /\ LET status == Status(verdicts, drawn, M, passes, selected)
     IN  IF M.complete /\ ~MayFinish(epoch, Upcoming, status) THEN Raise /\ UNCHANGED fixed
         ELSE /\ epoch' = IF M.complete THEN Finished(epoch, Upcoming, status) ELSE epoch
              /\ reports' = Append(reports, [verdicts |-> verdicts, status |-> status])
              /\ place' = "serve"
              /\ UNCHANGED <<fixed, schedule, group, cache, choice, hunch, serving>>

(* owner-direct: no verifier; the owner acquires every target.             *)
Direct(s) ==
  /\ place = "direct" /\ s \in production \ audited
  /\ Acquire(s) /\ audited' = audited \cup {s}
  /\ UNCHANGED <<fixed, schedule, place, group, choice, epoch, hunch, reports, verdicts, drawn>>

Served ==
  /\ \/ place = "serve" /\ Upcoming > U.verifiers
     \/ place = "direct" /\ audited = production
  /\ place' = "close"
  /\ UNCHANGED <<fixed, schedule, group, cache, choice, epoch, hunch, reports, serving>>

Route ==
  IF ~Issued THEN "none"
  ELSE IF M.direct THEN IF production \subseteq passes THEN "accept" ELSE "reject"
  ELSE IF U.verifiers = 3 THEN Decision(production, reports) ELSE "none"

(* The unit's row; the epoch, if any, is closed and the answers released.  *)
(* Deliveries go unless a template holds them; after the last use of a     *)
(* method its template goes with its folder.                               *)
LastUse ==
  /\ plan.releaseEarly /\ U.functional
  /\ \A k \in left : plan.units[k].functional => plan.units[k].method # U.method
FinishUnit ==
  /\ place = "close"
  /\ IF M.complete /\ Issued /\ ~MayClose(epoch) THEN Raise /\ UNCHANGED fixed
     ELSE LET last   == LastUse /\ U.method \in DOMAIN templates
              kept   == DOMAIN templates \ (IF last THEN {U.method} ELSE {})
              popped == IF last THEN {templates[U.method].folder} ELSE {}
          IN  /\ epoch' = IF M.complete /\ Issued THEN Released(Closed(epoch)) ELSE epoch
              /\ rows' = Append(rows, [unit |-> unit, issued |-> Issued, route |-> Route,
                                       production |-> production, reports |-> reports])
              /\ templates' = [m \in kept |-> templates[m]]
              /\ folders' = folders \ (popped \cup ({unit} \ {templates[m].folder : m \in kept}))
              /\ place' = "idle"
              /\ UNCHANGED <<fixed, schedule, targets, cache, choice, hunch, reports, serving>>

EndGroup ==
  /\ place = "idle" /\ left = {}
  /\ place' = "done"
  /\ UNCHANGED <<fixed, schedule, group, cache, choice, epoch, hunch, reports, serving>>

Next ==
  \/ \E i \in left : StartUnit(i)
  \/ TrySource \/ FixtureDone \/ Reuse \/ Prepare \/ NotIssued \/ Prepared
  \/ Serve \/ Draw \/ Settle \/ Served \/ FinishUnit \/ EndGroup
  \/ \E s \in Sources : Audit(s) \/ Direct(s)

Spec == Init /\ [][Next]_vars
FairSpec == Spec /\ WF_vars(Next)

-------------------------------------------------------------------------------
(* Properties                                                              *)

Tried(n)  == {Priority[i] : i \in 1..n}
InService == place \in {"serve", "reported", "audit", "direct"}
Good      == Sources \cap passes

TypeOK ==
  /\ plan \in Plans /\ passes \subseteq AllSources
  /\ left \subseteq DOMAIN plan.units /\ unit \in {0} \cup DOMAIN plan.units
  /\ place \in Places /\ (place \in Places \ {"idle", "done"} => unit # 0)
  /\ targets \subseteq SUBSET Sources /\ folders \subseteq DOMAIN plan.units
  /\ DOMAIN templates \subseteq MethodKeys
  /\ \A m \in DOMAIN templates :
       /\ templates[m].receipts \subseteq AllSources /\ templates[m].selected \in Seq(AllSources)
       /\ templates[m].production \subseteq Sources
       /\ templates[m].folder \in DOMAIN plan.units
  /\ given \subseteq AllSources /\ receipts \subseteq AllSources
  /\ replays \in [AllSources -> Nat]
  /\ tried \in Nat /\ selected \in Seq(AllSources) /\ production \subseteq Sources
  /\ folder \in {0} \cup DOMAIN plan.units
  /\ drawn \subseteq Sources /\ audited \subseteq Sources

(* The probes are the first passing sources of the private order, no more  *)
(* and no fewer than needed, and everything else, what failed included, is *)
(* production; a job is refused only when too few sources pass, on the     *)
(* evidence of a replay of each (acquire_probe_sources); a gold job goes   *)
(* out only with all its gold good.                                        *)
PreparationSound ==
  /\ InService /\ M.probes = "source" =>
       /\ \E n \in 0..Len(Priority) : Chosen(selected) = passes \cap Tried(n)
       /\ Cardinality(Chosen(selected)) = NumProbes
       /\ production = Sources \ Chosen(selected)
  /\ place = "close" /\ M.probes = "source" /\ ~Issued =>
       Cardinality(Good) < NumProbes /\ receipts = Sources
  /\ InService /\ M.probes = "gold" => Chosen(selected) = Gold /\ Gold \subseteq passes

(* Jobs that were issued in one group are compared on the same production: *)
(* independent preparations come to the same choice.                       *)
SameProduction ==
  /\ InService => targets = {production}
  /\ \A a, b \in DOMAIN rows :
       rows[a].issued /\ rows[b].issued => rows[a].production = rows[b].production

(* Each reference a job has was replayed by this job exactly once, or came *)
(* with the preparation it reuses and was not replayed at all.             *)
ReferencesPaidOnce ==
  \A s \in AllSources : replays[s] = IF s \in receipts \ given THEN 1 ELSE 0

(* "later audit answers cannot enter it": a template has the receipts of   *)
(* its preparation, whatever the jobs that share it audited since.         *)
AuditsStayOut ==
  \A m \in DOMAIN templates :
    LET t == templates[m]
    IN  CASE MethodOf(m).probes = "source" ->
               /\ \E n \in 1..Len(Priority) :
                    t.receipts = Tried(n) /\ Priority[n] = t.selected[NumProbes]
               /\ Len(t.selected) = NumProbes
          [] MethodOf(m).probes = "gold" -> t.receipts = Gold
          [] OTHER -> t.receipts = {}

(* What the jobs of a group are judged on is settled by the sources alone: *)
(* the right probes, the same production for every job, and references     *)
(* that no audit of an earlier job has touched.                            *)
GroupPrepared == PreparationSound /\ SameProduction /\ AuditsStayOut

(* What a verifier reads is on disk as long as somebody may read it, and   *)
(* no longer: between units scratch has the folders of templates only, one *)
(* when templates are released early.                                      *)
DeliveriesOnDisk ==
  /\ InService => folder \in folders
  /\ \A m \in DOMAIN templates : templates[m].folder \in folders
  /\ place = "idle" => folders = {templates[m].folder : m \in DOMAIN templates}
  /\ plan.releaseEarly => Cardinality(DOMAIN templates) <= 1

BehaviorOf(r) == plan.units[r.unit].behavior
KeyOf(r)      == plan.units[r.unit].method

(* An honest verifier is never slashed, whatever the job and its sources.  *)
HonestPasses ==
  \A i \in DOMAIN rows : BehaviorOf(rows[i]) = "honest" =>
    \A v \in DOMAIN rows[i].reports : rows[i].reports[v].status = "PASS"

(* A verifier that gives one answer to everything is never paid by a       *)
(* method with probes, whatever the threshold.                             *)
NoFreeRide ==
  \A i \in DOMAIN rows :
    /\ BehaviorOf(rows[i]) \in {"constant-accept", "constant-reject"}
    /\ MethodOf(KeyOf(rows[i])).probes # "none"
    => \A v \in DOMAIN rows[i].reports : rows[i].reports[v].status # "PASS"

(* A verifier is paid for replaying and for nothing less.                  *)
PaidForReplay == HonestPasses /\ NoFreeRide

(* The trainer's route is right: accepted only if all production replays,  *)
(* rejected only if some does not.  Claimed where the owner replays all    *)
(* production itself, and where bindings are opaque and the verifiers      *)
(* neither sample nor use a public test.                                   *)
Claimed(r) ==
  LET method == MethodOf(KeyOf(r))
  IN  \/ method.direct
      \/ method.audit = Cardinality(r.production)
      \/ method.opaque /\ method.probes # "none" /\ BehaviorOf(r) \notin {"partial", "shortcut"}
RouteSound ==
  \A i \in DOMAIN rows : Claimed(rows[i]) =>
    /\ rows[i].route = "accept" => rows[i].production \subseteq passes
    /\ rows[i].route = "reject" => ~(rows[i].production \subseteq passes)

(* None of the checks of the preparation, of the pairing or of the epoch   *)
(* fires, except that a comparator has no targets if too few sources pass. *)
RaisesForCause == place = "raised" => Cardinality(Good) < NumProbes

(* Every group comes to its end.                                           *)
Ends == <>(place \in {"done", "raised"})
===============================================================================
