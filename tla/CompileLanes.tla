----------------------------- MODULE CompileLanes -----------------------------
(***************************************************************************)
(* How a job's payloads come into being (verification/on_demand_service.py).*)
(* The bank's sources are written to scratch one by one; then the tasks are *)
(* compiled on the owner's TaskLanes (core/task_lanes.py), and each is      *)
(* borrowed from its source, kept resident under a budget the lanes share   *)
(* (core/tensor_storage.py), or written to scratch under a capacity guard   *)
(* (core/scratch_budget.py).                                                *)
(*                                                                          *)
(* The guard is a ContextVar set by the thread that calls the job: a thread *)
(* of the pool does not see it.                                             *)
(***************************************************************************)
EXTENDS Integers, Sequences, FiniteSets, FiniteSetsExt

CONSTANTS
  Setups,       \* the jobs looked at, each a record of SetupType
  Reserve,      \* the guard's allowance for serialization, in bytes
  MaxOverhead,  \* bound: the most serialization adds to a payload
  None          \* no capacity guard was entered

LaneCounts == {1, 2, 4, 8, 16}

\* width: owner_compile_lanes; size: the payload of each task, in the order
\* they are compiled; challenges: the ranks that carry a mutation; identity:
\* the wrapper profile is "identity"; diskDelivery: identity_disk_delivery;
\* residentLimit: resident_delivery_bytes; capacity: the guard's limit; bank:
\* the payload of each source; before: what the scratch root already holds.
ValidSetup(s) ==
  /\ s.width \in LaneCounts
  /\ s.size \in Seq(Nat)
  /\ s.bank \in Seq(Nat)
  /\ s.challenges \subseteq 1..Len(s.size)
  /\ s.identity \in BOOLEAN /\ s.diskDelivery \in BOOLEAN
  /\ s.residentLimit \in Nat /\ s.before \in Nat
  /\ s.capacity \in Nat \cup {None}

ASSUME SetupsAssumption == \A s \in Setups : ValidSetup(s)
ASSUME SizesAssumption ==
  Reserve \in Nat /\ MaxOverhead \in Nat /\ None \notin Nat

VARIABLES
  setup,      \* the job
  main,       \* where the thread that builds the job is
  built,      \* the number of sources in the bank
  task,       \* the state of each task, by rank
  submitted,  \* the number of tasks handed to the pool
  taken,      \* the number of results taken, in order
  used,       \* ResidentDeliveryBudget.used
  disk        \* the bytes in the scratch root

vars == <<setup, main, built, task, submitted, taken, used, disk>>

Count == Len(setup.size)
Tasks == 1..Count

\* "kept" holds resident budget; "resident" is in memory without asking for it.
Delivered == {"borrowed", "resident", "kept", "stored"}
Running == {"compiling", "writing"}
Statuses == Delivered \cup Running \cup {"waiting", "queued", "failed", "cancelled"}
Places == {"bank", "unbuilt", "inline", "filling", "taking", "refilling",
           "raising", "closing", "returned", "raised"}

TypeOK ==
  /\ setup \in Setups
  /\ main \in Places
  /\ built \in 0..Len(setup.bank)
  /\ task \in [Tasks -> Statuses]
  /\ submitted \in 0..Count /\ taken \in 0..Count
  /\ used \in Nat /\ disk \in Nat

Init ==
  /\ setup \in Setups
  /\ main = "bank" /\ built = 0
  /\ task = [t \in Tasks |-> "waiting"]
  /\ submitted = 0 /\ taken = 0
  /\ used = 0 /\ disk = setup.before

Set(t, s) == task' = [task EXCEPT ![t] = s]

-----------------------------------------------------------------------------
(* guarded_tensor_save, by a thread that sees the guard's limit or None.    *)

Within(bytes, limit) == IF limit = None THEN TRUE ELSE bytes <= limit

\* The check before the write passes.
Admitted(size, limit) == Within(disk + size + Reserve, limit)

\* Mutant: what serialization added is not looked at again.
SaveDoneUnchecked(size, limit) ==
  Admitted(size, limit) /\ \E extra \in 0..MaxOverhead : disk' = disk + size + extra

\* The payload is on disk and the check after the write passes.
SaveDone(size, limit) ==
  /\ Admitted(size, limit)
  /\ \E extra \in 0..MaxOverhead : disk' = disk + size + extra
  /\ Within(disk', limit)

\* It is refused, or torch.save fails having written some of it, or the check
\* after the write fails and what was written is preserved.
SaveRaises(size, limit) ==
  \/ ~Admitted(size, limit) /\ UNCHANGED disk
  \/ /\ Admitted(size, limit)
     /\ \E part \in 0..size : disk' = disk + part
  \/ /\ Admitted(size, limit)
     /\ \E extra \in 0..MaxOverhead : disk' = disk + size + extra
     /\ ~Within(disk', limit)

LimitSeenByMain == setup.capacity
LimitSeenByLane == IF setup.width = 1 THEN setup.capacity ELSE None

-----------------------------------------------------------------------------
(* build_source_bank, on the main thread.                                   *)

BuildSource ==
  /\ main = "bank" /\ built < Len(setup.bank)
  /\ \/ /\ SaveDone(setup.bank[built + 1], LimitSeenByMain)
        /\ built' = built + 1 /\ UNCHANGED main
     \/ /\ SaveRaises(setup.bank[built + 1], LimitSeenByMain)
        /\ main' = "unbuilt" /\ UNCHANGED built
  /\ UNCHANGED <<setup, task, submitted, taken, used>>

StartMap ==
  /\ main = "bank" /\ built = Len(setup.bank)
  /\ main' = IF setup.width = 1 THEN "inline" ELSE "filling"
  /\ UNCHANGED <<setup, built, task, submitted, taken, used, disk>>

-----------------------------------------------------------------------------
(* TaskLanes.map.                                                           *)

\* executor.submit of the next item.
Submit ==
  /\ submitted' = submitted + 1
  /\ Set(submitted + 1, "queued")

Fill ==
  /\ main = "filling"
  /\ IF submitted < setup.width /\ submitted < Count
       THEN Submit /\ UNCHANGED main
       ELSE main' = "taking" /\ UNCHANGED <<task, submitted>>
  /\ UNCHANGED <<setup, built, taken, used, disk>>

\* popleft().result(): waits for the oldest future, returns or raises.
TakeResult ==
  /\ main = "taking" /\ taken < submitted
  /\ \/ /\ task[taken + 1] \in Delivered
        /\ taken' = taken + 1 /\ main' = "refilling"
     \/ /\ task[taken + 1] = "failed"
        /\ main' = "raising" /\ UNCHANGED taken
  /\ UNCHANGED <<setup, built, task, submitted, used, disk>>

Refill ==
  /\ main = "refilling"
  /\ main' = "taking"
  /\ IF submitted < Count THEN Submit ELSE UNCHANGED <<task, submitted>>
  /\ UNCHANGED <<setup, built, taken, used, disk>>

Return ==
  /\ \/ main = "taking" /\ taken = submitted
     \/ main = "inline" /\ taken = Count
  /\ main' = "returned"
  /\ UNCHANGED <<setup, built, task, submitted, taken, used, disk>>

\* shutdown(wait=True, cancel_futures=True): what is queued is cancelled ...
Cancel ==
  /\ main = "raising"
  /\ main' = "closing"
  /\ task' = [t \in Tasks |-> IF task[t] = "queued" THEN "cancelled" ELSE task[t]]
  /\ UNCHANGED <<setup, built, submitted, taken, used, disk>>

\* Mutant: shutdown(wait=False).
JoinedWithoutWaiting ==
  /\ main = "closing"
  /\ main' = "raised"
  /\ UNCHANGED <<setup, built, task, submitted, taken, used, disk>>

\* Mutant: waits for every submitted future to have a result.
JoinedOnResults ==
  /\ main = "closing"
  /\ \A t \in 1..submitted : task[t] \in Delivered \cup {"cancelled"}
  /\ main' = "raised"
  /\ UNCHANGED <<setup, built, task, submitted, taken, used, disk>>

\* ... and what is running is waited for.
Joined ==
  /\ main = "closing"
  /\ \A t \in Tasks : task[t] \notin Running
  /\ main' = "raised"
  /\ UNCHANGED <<setup, built, task, submitted, taken, used, disk>>

\* With one lane the items are called one after the other, without a pool.
CallInline ==
  /\ main = "inline" /\ taken < Count
  /\ \/ /\ task[taken + 1] = "waiting"
        /\ Set(taken + 1, "compiling")
        /\ submitted' = submitted + 1
        /\ UNCHANGED <<main, taken>>
     \/ /\ task[taken + 1] \in Delivered
        /\ taken' = taken + 1 /\ UNCHANGED <<main, task, submitted>>
     \/ /\ task[taken + 1] = "failed"
        /\ main' = "raised" /\ UNCHANGED <<task, submitted, taken>>
  /\ UNCHANGED <<setup, built, used, disk>>

-----------------------------------------------------------------------------
(* compile_one, on a lane.                                                  *)

\* A worker takes the oldest work item off the pool's queue.
StartTask(t) ==
  /\ task[t] = "queued"
  /\ \A u \in Tasks : u < t => task[u] # "queued"
  /\ Cardinality({u \in Tasks : task[u] \in Running}) < setup.width  \* max_workers
  /\ Set(t, "compiling")
  /\ UNCHANGED <<setup, main, built, submitted, taken, used, disk>>

\* A source changed under its mapping, a witness is invalid, a challenge passes.
CompileRaises(t) ==
  /\ task[t] = "compiling"
  /\ Set(t, "failed")
  /\ UNCHANGED <<setup, main, built, submitted, taken, used, disk>>

\* Identity delivery hands out the mapping of the source itself.
Borrows(t) == setup.identity /\ setup.diskDelivery /\ t \notin setup.challenges
\* Otherwise the payload asks for resident budget, or goes to disk.
Budgeted(t) == ~Borrows(t) /\ (~setup.identity \/ setup.diskDelivery)

\* ResidentDeliveryBudget.reserve: test and charge under one lock.
Fits(t) == used + setup.size[t] <= setup.residentLimit

Deliver(t) ==
  /\ task[t] = "compiling"
  /\ \/ ~Budgeted(t) /\ UNCHANGED used
        /\ Set(t, IF Borrows(t) THEN "borrowed" ELSE "resident")
     \/ /\ Budgeted(t) /\ Fits(t)
        /\ used' = used + setup.size[t] /\ Set(t, "kept")
     \/ Budgeted(t) /\ ~Fits(t) /\ UNCHANGED used /\ Set(t, "writing")
  /\ UNCHANGED <<setup, main, built, submitted, taken, disk>>

Save(t) ==
  /\ task[t] = "writing"
  /\ \/ SaveDone(setup.size[t], LimitSeenByLane) /\ Set(t, "stored")
     \/ SaveRaises(setup.size[t], LimitSeenByLane) /\ Set(t, "failed")
  /\ UNCHANGED <<setup, main, built, submitted, taken, used>>

-----------------------------------------------------------------------------
Main == \/ BuildSource \/ StartMap \/ Fill \/ TakeResult \/ Refill \/ Return
        \/ Cancel \/ Joined \/ CallInline
Lane(t) == StartTask(t) \/ CompileRaises(t) \/ Deliver(t) \/ Save(t)

Next == Main \/ \E t \in Tasks : Lane(t)

Spec == Init /\ [][Next]_vars

\* Main runs on; a function that was called returns or raises, since it is
\* computation on a thread of its own.
FairSpec == Spec /\ WF_vars(Next)

-----------------------------------------------------------------------------
(* The properties.                                                          *)

\* A job whose tasks are compiled on lanes looks to the constructor like a
\* sequential call with bounded work ahead of it (TaskLanes.map, "Bound
\* in-flight memory and preserve input/report order", and "no detached futures
\* survive failed work"): see LanesContract.
Called == {t \in Tasks : task[t] \notin {"waiting", "queued", "cancelled"}}
Busy == {t \in Tasks : task[t] \in Running}
Outcome == IF main \in {"returned", "raised"} THEN main ELSE "open"

Contract == INSTANCE LanesContract WITH
  count <- Count, width <- setup.width,
  called <- Called, busy <- Busy, status <- Outcome

KeepsContract == Contract!Spec

\* The job goes on with every task delivered or not at all: a call that returns
\* has no task that failed, was cancelled or was never tried; one that raises
\* does so for the first task that failed in the order of the list, whatever
\* failed first in time, and leaves nothing in the pool's queue.
OutcomeInOrder ==
  /\ main = "returned" => \A t \in Tasks : task[t] \in Delivered
  /\ main = "raised" =>
       /\ taken < Count /\ task[taken + 1] = "failed"
       /\ \A t \in 1..taken : task[t] \in Delivered
       /\ \A t \in Tasks : task[t] # "queued"

Kept == {t \in Tasks : task[t] = "kept"}

\* The lanes together never keep more payload resident than the job's budget,
\* and the counter they share is exactly what they keep: no reservation is lost
\* between two lanes and none is charged twice (ResidentDeliveryBudget).
ResidentAccounted ==
  /\ used = MapThenSumSet(LAMBDA t : setup.size[t], Kept)
  /\ used <= setup.residentLimit

\* Under a guard, having written anything means being within the capacity.
WithinCapacity ==
  built > 0 \/ (\E t \in Tasks : task[t] = "stored")
    => Within(disk, setup.capacity)

\* A bank that is built, and a job compiled on the thread that entered the
\* guard, leave the scratch root within its capacity, although serialization
\* may add more than the guard set aside for it (scratch_budget.py).
GuardHoldsInline ==
  main = "bank" \/ (main = "returned" /\ setup.width = 1) => WithinCapacity

\* Neither the memory nor the disk a job was given is overrun where the code
\* guards it.
BudgetsHold == ResidentAccounted /\ GuardHoldsInline

\* What the module's first line says of the guard, "fail-closed capacity guard
\* for disposable tensor payloads" (scratch_budget.py:1), of any job.
GuardFailsClosed == main = "returned" => WithinCapacity

\* The constructor returns or raises: no lane waits on the thread that waits
\* for it, and closing the pool ends (TaskLanes.map, close).
Ends == <>(main \in {"unbuilt", "returned", "raised"})
===============================================================================
