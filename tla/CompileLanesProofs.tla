-------------------------- MODULE CompileLanesProofs --------------------------
(***************************************************************************)
(* Theorems about CompileLanes, for every job of the constant Setups; and  *)
(* about ScratchCleanup, for any directories, files and links.             *)
(***************************************************************************)
EXTENDS CompileLanes, ScratchCleanup, SetSums, TLAPS

\* What is known of the job whichever of Setups it is.
LEMMA SetupFacts ==
  ASSUME setup \in Setups
  PROVE  /\ setup.width \in Nat \ {0}
         /\ Count \in Nat
         /\ \A t \in Tasks : setup.size[t] \in Nat
         /\ \A i \in 1..Len(setup.bank) : setup.bank[i] \in Nat
         /\ Len(setup.bank) \in Nat
         /\ setup.residentLimit \in Nat
         /\ setup.before \in Nat
         /\ setup.capacity \in Nat \cup {None}
<1>1. ValidSetup(setup)
  BY SetupsAssumption
<1>2. setup.size \in Seq(Nat) /\ setup.bank \in Seq(Nat)
  BY <1>1 DEF ValidSetup
<1>3. /\ Len(setup.size) \in Nat /\ \A t \in 1..Len(setup.size) : setup.size[t] \in Nat
      /\ Len(setup.bank) \in Nat /\ \A i \in 1..Len(setup.bank) : setup.bank[i] \in Nat
  BY <1>2
<1>4. /\ setup.width \in Nat \ {0} /\ setup.residentLimit \in Nat
      /\ setup.before \in Nat /\ setup.capacity \in Nat \cup {None}
  BY <1>1 DEF ValidSetup, LaneCounts
<1> QED
  BY <1>3, <1>4 DEF Count, Tasks

\* The window: what is submitted is a prefix, at most width ahead of what is
\* taken, and what a worker has picked up is a prefix of that.
Window ==
  /\ taken <= submitted
  /\ submitted <= taken + setup.width
  /\ \A t \in Tasks : t <= taken => task[t] \in Delivered
  /\ \A t \in Tasks : task[t] = "waiting" <=> t > submitted
  /\ \A t, u \in Tasks :
       t < u /\ task[t] \in {"queued", "cancelled"}
         => task[u] \in {"queued", "cancelled", "waiting"}
  /\ \A t \in Tasks : task[t] = "cancelled" => main \in {"closing", "raised"}

\* What the constructor's thread knows at each place.
Place ==
  /\ main \in {"bank", "unbuilt"} => submitted = 0
  /\ main = "filling" => taken = 0
  /\ main = "taking" => submitted = Count \/ submitted = taken + setup.width
  /\ main = "refilling" => submitted = Count \/ submitted + 1 = taken + setup.width
  /\ main = "inline" => setup.width = 1
  /\ main \in {"bank", "unbuilt", "inline", "closing", "returned", "raised"} =>
       \A t \in Tasks : task[t] # "queued"
  /\ main \in {"raising", "closing", "raised"} =>
       taken < submitted /\ task[taken + 1] = "failed"
  /\ main \in {"returned", "raised"} => \A t \in Tasks : task[t] \notin Running
  /\ main = "returned" => taken = Count

\* As long as nothing failed, what the guard's thread wrote is within capacity.
Guarded ==
  main = "bank" \/ (setup.width = 1 /\ main # "unbuilt"
                      /\ \A t \in Tasks : task[t] # "failed")
    => WithinCapacity

ResidentWithinLimit == used <= setup.residentLimit

IInv == TypeOK /\ Window /\ Place /\ Guarded /\ ResidentWithinLimit

-----------------------------------------------------------------------------
LEMMA InitHolds == Init => IInv
<1> SUFFICES ASSUME Init PROVE IInv
  OBVIOUS
<1> USE SetupFacts DEF Init
<1>1. TypeOK
  BY DEF TypeOK, Places, Statuses
<1>2. Window
  BY DEF Window, Tasks
<1>3. Place
  BY DEF Place
<1>4. Guarded
  BY DEF Guarded, WithinCapacity
<1>5. ResidentWithinLimit
  BY DEF ResidentWithinLimit
<1> QED
  BY <1>1, <1>2, <1>3, <1>4, <1>5 DEF IInv

\* While the bank is built, no task has been submitted.
LEMMA BankFirst ==
  ASSUME IInv, main \in {"bank", "unbuilt"}
  PROVE  submitted = 0 /\ taken = 0 /\ \A t \in Tasks : task[t] = "waiting"
BY SetupFacts DEF IInv, TypeOK, Window, Place, Tasks

\* A running task has been submitted, its result is not taken, and the
\* constructor is not done.
LEMMA RunningFacts ==
  ASSUME IInv, NEW t \in Tasks, task[t] \in Running \cup {"queued"}
  PROVE  /\ taken < t /\ t <= submitted
         /\ main \in {"inline", "filling", "taking", "refilling", "raising", "closing"}
         /\ task[t] = "queued" => main \notin {"inline", "closing"}
<1>1. /\ task[t] \notin Delivered /\ task[t] # "waiting"
  BY DEF Running, Delivered
<1>2. taken < t /\ t <= submitted
  BY <1>1, SetupFacts DEF IInv, TypeOK, Window, Tasks
<1>3. main \notin {"bank", "unbuilt"}
  BY <1>1, BankFirst
<1>4. main \notin {"returned", "raised"}
  BY DEF IInv, Place
<1>5. task[t] = "queued" => main \notin {"inline", "closing"}
  BY DEF IInv, Place
<1> QED
  BY <1>2, <1>3, <1>4, <1>5 DEF IInv, TypeOK, Places

\* A lane moving one task on keeps the window and the places.
LEMMA LaneMoves ==
  ASSUME IInv, NEW t \in Tasks, NEW s \in Running \cup Delivered \cup {"failed"},
         Set(t, s), UNCHANGED <<setup, main, built, submitted, taken>>,
         \/ task[t] \in Running
         \/ /\ task[t] = "queued" /\ s = "compiling"
            /\ \A u \in Tasks : u < t => task[u] # "queued"
  PROVE  /\ task' \in [Tasks -> Statuses]
         /\ Window' /\ Place'
<1>1. task' \in [Tasks -> Statuses]
  BY DEF Set, IInv, TypeOK, Statuses
<1>2. /\ setup' = setup /\ main' = main /\ submitted' = submitted /\ taken' = taken
      /\ Tasks' = Tasks /\ Count' = Count
  BY DEF Tasks, Count
<1>3. \A u \in Tasks : task'[u] = IF u = t THEN s ELSE task[u]
  BY DEF Set, IInv, TypeOK
<1>4. /\ taken < t /\ t <= submitted
      /\ main \in {"inline", "filling", "taking", "refilling", "raising", "closing"}
      /\ task[t] = "queued" => main \notin {"inline", "closing"}
  BY RunningFacts
<1>5. s \notin {"queued", "waiting", "cancelled"}
  BY DEF Running, Delivered
<1>6. task[t] \notin {"waiting", "failed", "cancelled"}
  BY DEF Running
<1>7. Window'
  <2>1. taken <= submitted /\ submitted <= taken + setup.width
    BY DEF IInv, Window
  <2>2. \A u \in Tasks : u <= taken => task'[u] \in Delivered
    BY <1>3, <1>4, SetupFacts DEF IInv, Window, TypeOK, Tasks
  <2>3. \A u \in Tasks : task'[u] = "waiting" <=> u > submitted
    BY <1>3, <1>4, <1>5, <1>6 DEF IInv, Window
  <2>4. \A u \in Tasks : task'[u] = "cancelled" => main \in {"closing", "raised"}
    BY <1>3, <1>5 DEF IInv, Window
  <2>5. \A x \in Tasks : x < t => task[x] \notin {"queued", "cancelled"}
    <3> SUFFICES ASSUME NEW x \in Tasks, x < t, task[x] \in {"queued", "cancelled"}
                 PROVE  FALSE
      OBVIOUS
    <3>1. task[t] \in {"queued", "cancelled", "waiting"}
      BY DEF IInv, Window
    <3>2. task[t] = "queued" /\ \A u \in Tasks : u < t => task[u] # "queued"
      BY <3>1 DEF Running
    <3>3. task[x] = "cancelled"
      BY <3>2
    <3>4. main \in {"closing", "raised"}
      BY <3>3 DEF IInv, Window
    <3> QED
      BY <3>2, <3>4, <1>4
  <2>6. \A x, u \in Tasks : x < u /\ task'[x] \in {"queued", "cancelled"}
           => task'[u] \in {"queued", "cancelled", "waiting"}
    BY <2>5, <1>3, <1>5 DEF IInv, Window
  <2> QED
    BY <1>2, <2>1, <2>2, <2>3, <2>4, <2>6 DEF Window
<1>8. Place'
  <2>1. \A u \in Tasks : task[u] # "queued" => task'[u] # "queued"
    BY <1>3, <1>5
  <2>2. main \in {"raising", "closing", "raised"} => task'[taken + 1] = "failed"
    <3> SUFFICES ASSUME main \in {"raising", "closing", "raised"}
                 PROVE  task'[taken + 1] = "failed"
      OBVIOUS
    <3>1. taken < submitted /\ task[taken + 1] = "failed"
      BY DEF IInv, Place
    <3>2. taken + 1 \in Tasks
      BY <3>1, SetupFacts DEF IInv, TypeOK, Tasks
    <3> QED
      BY <3>1, <3>2, <1>3, <1>6
  <2> QED
    BY <1>2, <1>4, <2>1, <2>2 DEF IInv, Place
<1> QED
  BY <1>1, <1>7, <1>8

\* A lane that writes nothing that comes through leaves the guard's promise.
LEMMA GuardKept ==
  ASSUME IInv, NEW t \in Tasks, NEW s, s # "stored",
         Set(t, s), UNCHANGED <<setup, main, built>>,
         task[t] \in Running \cup {"queued"},
         disk' = disk \/ s = "failed"
  PROVE  Guarded'
<1>1. /\ setup' = setup /\ main' = main /\ built' = built /\ Tasks' = Tasks
  BY DEF Tasks, Count
<1>2. \A u \in Tasks : task'[u] = IF u = t THEN s ELSE task[u]
  BY DEF Set, IInv, TypeOK
<1>3. main # "bank"
  BY RunningFacts
<1>4. CASE s = "failed"
  BY <1>1, <1>2, <1>3, <1>4 DEF Guarded
<1>5. CASE s # "failed"
  <2>1. disk' = disk
    BY <1>5
  <2>2. task[t] # "failed"
    BY DEF Running
  <2>3. (\A u \in Tasks : task'[u] # "failed") => \A u \in Tasks : task[u] # "failed"
    BY <1>2, <2>2
  <2>4. (\E u \in Tasks : task'[u] = "stored") => \E u \in Tasks : task[u] = "stored"
    BY <1>2
  <2>5. WithinCapacity => WithinCapacity'
    BY <1>1, <2>1, <2>4 DEF WithinCapacity, Within
  <2> QED
    BY <1>1, <1>3, <2>3, <2>5 DEF Guarded, IInv
<1> QED
  BY <1>4, <1>5

\* What a save leaves on disk is a number of bytes, within the limit if it
\* comes through.
LEMMA SaveFacts ==
  ASSUME disk \in Nat, NEW size \in Nat, NEW limit,
         SaveDone(size, limit) \/ SaveRaises(size, limit)
  PROVE  /\ disk' \in Nat
         /\ SaveDone(size, limit) => Within(disk', limit)
BY SizesAssumption DEF SaveDone, SaveRaises

LEMMA LaneHolds ==
  ASSUME IInv, NEW t \in Tasks, Lane(t)
  PROVE  IInv'
<1>0. /\ TypeOK /\ setup \in Setups /\ disk \in Nat /\ used \in Nat
      /\ setup.size[t] \in Nat /\ setup.residentLimit \in Nat
  BY SetupFacts DEF IInv, TypeOK
<1>1. CASE StartTask(t)
  <2>1. Set(t, "compiling") /\ UNCHANGED <<setup, main, built, submitted, taken>>
        /\ used' = used /\ disk' = disk /\ task[t] = "queued"
    BY <1>1 DEF StartTask
  <2>2. task' \in [Tasks -> Statuses] /\ Window' /\ Place'
    BY <1>1, <2>1, LaneMoves DEF StartTask, Running
  <2>3. Guarded'
    BY <2>1, GuardKept
  <2>4. TypeOK'
    BY <1>0, <2>1, <2>2 DEF TypeOK, Tasks, Count
  <2> QED
    BY <2>1, <2>2, <2>3, <2>4 DEF IInv, ResidentWithinLimit
<1>2. CASE CompileRaises(t)
  <2>1. Set(t, "failed") /\ UNCHANGED <<setup, main, built, submitted, taken>>
        /\ used' = used /\ disk' = disk /\ task[t] \in Running
    BY <1>2 DEF CompileRaises, Running
  <2>2. task' \in [Tasks -> Statuses] /\ Window' /\ Place'
    BY <2>1, LaneMoves
  <2>3. Guarded'
    BY <2>1, GuardKept
  <2>4. TypeOK'
    BY <1>0, <2>1, <2>2 DEF TypeOK, Tasks, Count
  <2> QED
    BY <2>1, <2>2, <2>3, <2>4 DEF IInv, ResidentWithinLimit
<1>3. CASE Deliver(t)
  <2>1. UNCHANGED <<setup, main, built, submitted, taken>>
        /\ disk' = disk /\ task[t] \in Running
    BY <1>3 DEF Deliver, Running
  <2>2. PICK s \in {"borrowed", "resident", "kept", "writing"} : Set(t, s)
    BY <1>3 DEF Deliver
  <2>3. s \in Running \cup Delivered \cup {"failed"} /\ s # "stored"
    BY DEF Running, Delivered
  <2>4. task' \in [Tasks -> Statuses] /\ Window' /\ Place'
    BY <2>1, <2>2, <2>3, LaneMoves
  <2>5. Guarded'
    BY <2>1, <2>2, <2>3, GuardKept
  <2>6. used' \in Nat /\ used' <= setup.residentLimit
    BY <1>0, <1>3 DEF Deliver, Fits, IInv, ResidentWithinLimit
  <2>7. TypeOK'
    BY <1>0, <2>1, <2>4, <2>6 DEF TypeOK, Tasks, Count
  <2> QED
    BY <2>1, <2>4, <2>5, <2>6, <2>7 DEF IInv, ResidentWithinLimit
<1>4. CASE Save(t)
  <2>1. UNCHANGED <<setup, main, built, submitted, taken>>
        /\ used' = used /\ task[t] \in Running
    BY <1>4 DEF Save, Running
  <2>2. disk' \in Nat
    BY <1>0, <1>4, SaveFacts DEF Save
  <2>3. CASE SaveDone(setup.size[t], LimitSeenByLane) /\ Set(t, "stored")
    <3>1. task' \in [Tasks -> Statuses] /\ Window' /\ Place'
      BY <2>1, <2>3, LaneMoves DEF Delivered
    <3>2. Within(disk', LimitSeenByLane)
      BY <1>0, <2>3, SaveFacts
    <3>3. main # "bank"
      BY <2>1, RunningFacts
    <3>4. Guarded'
      BY <2>1, <3>2, <3>3 DEF Guarded, WithinCapacity, Within, LimitSeenByLane
    <3>5. TypeOK'
      BY <1>0, <2>1, <2>2, <3>1 DEF TypeOK, Tasks, Count
    <3> QED
      BY <2>1, <3>1, <3>4, <3>5 DEF IInv, ResidentWithinLimit
  <2>4. CASE SaveRaises(setup.size[t], LimitSeenByLane) /\ Set(t, "failed")
    <3>1. task' \in [Tasks -> Statuses] /\ Window' /\ Place'
      BY <2>1, <2>4, LaneMoves
    <3>2. Guarded'
      BY <2>1, <2>4, GuardKept
    <3>3. TypeOK'
      BY <1>0, <2>1, <2>2, <3>1 DEF TypeOK, Tasks, Count
    <3> QED
      BY <2>1, <3>1, <3>2, <3>3 DEF IInv, ResidentWithinLimit
  <2> QED
    BY <1>4, <2>3, <2>4 DEF Save
<1> QED
  BY <1>1, <1>2, <1>3, <1>4 DEF Lane

-----------------------------------------------------------------------------
(* The constructor's thread.                                                *)

\* Steps that touch neither disk nor delivered tasks leave the guard's promise.
LEMMA QuietGuard ==
  ASSUME IInv, UNCHANGED <<setup, built, used, disk>>,
         main' = "bank" <=> main = "bank", main' # "unbuilt" => main # "unbuilt",
         \A t \in Tasks : (task'[t] = "stored" <=> task[t] = "stored")
                       /\ (task'[t] = "failed" <=> task[t] = "failed")
  PROVE  Guarded' /\ ResidentWithinLimit'
<1>1. Tasks' = Tasks
  BY DEF Tasks, Count
<1>2. WithinCapacity => WithinCapacity'
  BY <1>1 DEF WithinCapacity, Within
<1>3. Guarded'
  BY <1>1, <1>2 DEF IInv, Guarded
<1> QED
  BY <1>3 DEF IInv, ResidentWithinLimit

\* Handing the next item to the pool keeps the window if there is room in it.
LEMMA SubmitMoves ==
  ASSUME IInv, Submit, submitted < Count, submitted < taken + setup.width,
         main \in {"filling", "refilling"}, main' \in {"filling", "taking"},
         UNCHANGED <<setup, built, taken, used, disk>>
  PROVE  /\ task' \in [Tasks -> Statuses] /\ submitted' \in 0..Count
         /\ Window' /\ Guarded' /\ ResidentWithinLimit'
<1>0. /\ Count \in Nat /\ submitted \in 0..Count /\ taken \in 0..Count
      /\ setup.width \in Nat /\ task \in [Tasks -> Statuses]
  BY SetupFacts DEF IInv, TypeOK
<1>1. /\ submitted' = submitted + 1 /\ submitted + 1 \in Tasks
      /\ task' = [task EXCEPT ![submitted + 1] = "queued"]
  BY <1>0 DEF Submit, Set, Tasks
<1>2. \A t \in Tasks : task'[t] = IF t = submitted + 1 THEN "queued" ELSE task[t]
  BY <1>0, <1>1
<1>3. /\ setup' = setup /\ taken' = taken /\ Tasks' = Tasks /\ Count' = Count
  BY DEF Tasks, Count
<1>4. task[submitted + 1] = "waiting"
  BY <1>0, <1>1 DEF IInv, Window, Tasks
<1>5. Window'
  <2>1. taken <= submitted + 1 /\ submitted + 1 <= taken + setup.width
    BY <1>0 DEF IInv, Window
  <2>2. \A t \in Tasks : t <= taken => task'[t] \in Delivered
    BY <1>0, <1>2 DEF IInv, Window, Tasks
  <2>3. \A t \in Tasks : task'[t] = "waiting" <=> t > submitted + 1
    BY <1>0, <1>2 DEF IInv, Window, Tasks
  <2>4. \A x, u \in Tasks : x < u /\ task'[x] \in {"queued", "cancelled"}
           => task'[u] \in {"queued", "cancelled", "waiting"}
    <3> SUFFICES ASSUME NEW x \in Tasks, NEW u \in Tasks, x < u,
                        task'[x] \in {"queued", "cancelled"}
                 PROVE  task'[u] \in {"queued", "cancelled", "waiting"}
      OBVIOUS
    <3>1. CASE x = submitted + 1
      BY <1>0, <1>1, <2>3, <3>1 DEF Tasks
    <3>2. CASE x # submitted + 1
      BY <1>2, <3>2 DEF IInv, Window
    <3> QED
      BY <3>1, <3>2
  <2>5. \A t \in Tasks : task'[t] # "cancelled"
    BY <1>2 DEF IInv, Window
  <2> QED
    BY <1>1, <1>3, <2>1, <2>2, <2>3, <2>4, <2>5 DEF Window
<1>6. Guarded' /\ ResidentWithinLimit'
  BY <1>2, <1>4, QuietGuard
<1>7. submitted' \in 0..Count
  BY <1>0, <1>1 DEF Tasks
<1>8. task' \in [Tasks -> Statuses]
  BY <1>0, <1>1 DEF Statuses
<1> QED
  BY <1>5, <1>6, <1>7, <1>8

\* A step that leaves the tasks and the window alone keeps the window, unless
\* tasks are cancelled and the pool is no longer closing.
LEMMA WindowKept ==
  ASSUME IInv, UNCHANGED <<setup, task, submitted, taken>>,
         main \in {"closing", "raised"} => main' \in {"closing", "raised"}
  PROVE  Window' /\ Tasks' = Tasks /\ Count' = Count
BY DEF IInv, Window, Tasks, Count

LEMMA BuildHolds ==
  ASSUME IInv, BuildSource
  PROVE  IInv'
<1>0. /\ TypeOK /\ disk \in Nat /\ built \in 0..Len(setup.bank) /\ Len(setup.bank) \in Nat
      /\ built + 1 \in 1..Len(setup.bank) /\ setup.bank[built + 1] \in Nat
  BY SetupFacts DEF IInv, TypeOK, BuildSource
<1>1. UNCHANGED <<setup, task, submitted, taken, used>> /\ main = "bank"
  BY DEF BuildSource
<1>2. disk' \in Nat
  BY <1>0, SaveFacts DEF BuildSource
<1>3. Window' /\ Tasks' = Tasks /\ Count' = Count
  BY <1>1, WindowKept
<1>4. submitted = 0 /\ \A t \in Tasks : task[t] = "waiting"
  BY <1>1, BankFirst
<1>5. CASE main' = "unbuilt" /\ UNCHANGED built
  <2>1. TypeOK'
    BY <1>0, <1>1, <1>2, <1>3, <1>5 DEF TypeOK, Places
  <2>2. Place'
    BY <1>1, <1>3, <1>4, <1>5 DEF Place
  <2>3. Guarded'
    BY <1>5 DEF Guarded
  <2> QED
    BY <1>1, <1>3, <2>1, <2>2, <2>3 DEF IInv, ResidentWithinLimit
<1>6. CASE /\ SaveDone(setup.bank[built + 1], LimitSeenByMain)
           /\ built' = built + 1 /\ UNCHANGED main
  <2>1. TypeOK'
    BY <1>0, <1>1, <1>2, <1>3, <1>6 DEF TypeOK, Places
  <2>2. Place'
    BY <1>1, <1>3, <1>4, <1>6 DEF Place
  <2>3. Within(disk', setup.capacity)
    BY <1>0, <1>6, SaveFacts DEF LimitSeenByMain
  <2>4. Guarded'
    BY <1>1, <2>3 DEF Guarded, WithinCapacity, Within
  <2> QED
    BY <1>1, <1>3, <2>1, <2>2, <2>4 DEF IInv, ResidentWithinLimit
<1> QED
  BY <1>5, <1>6 DEF BuildSource

LEMMA StartMapHolds ==
  ASSUME IInv, StartMap
  PROVE  IInv'
<1>0. UNCHANGED <<setup, built, task, submitted, taken, used, disk>> /\ main = "bank"
      /\ main' = IF setup.width = 1 THEN "inline" ELSE "filling"
  BY DEF StartMap
<1>1. Window' /\ Tasks' = Tasks /\ Count' = Count
  BY <1>0, WindowKept
<1>2. submitted = 0 /\ taken = 0 /\ \A t \in Tasks : task[t] = "waiting"
  BY <1>0, BankFirst
<1>3. TypeOK'
  BY <1>0, <1>1 DEF IInv, TypeOK, Places
<1>4. Place'
  BY <1>0, <1>1, <1>2 DEF Place
<1>5. Guarded'
  BY <1>0, <1>1 DEF IInv, Guarded, WithinCapacity, Within
<1> QED
  BY <1>0, <1>1, <1>3, <1>4, <1>5 DEF IInv, ResidentWithinLimit

LEMMA FillHolds ==
  ASSUME IInv, Fill
  PROVE  IInv'
<1>0. /\ main = "filling" /\ UNCHANGED <<setup, built, taken, used, disk>> /\ taken = 0
      /\ submitted \in 0..Count /\ Count \in Nat /\ setup.width \in Nat
      /\ submitted <= taken + setup.width
      /\ Tasks' = Tasks /\ Count' = Count
  BY SetupFacts DEF Fill, IInv, Place, TypeOK, Window, Tasks, Count
<1>1. CASE submitted < setup.width /\ submitted < Count
  <2>1. Submit /\ main' = main
    BY <1>1 DEF Fill
  <2>2. /\ task' \in [Tasks -> Statuses] /\ submitted' \in 0..Count
        /\ Window' /\ Guarded' /\ ResidentWithinLimit'
    BY <1>0, <1>1, <2>1, SubmitMoves
  <2>3. TypeOK'
    BY <1>0, <2>1, <2>2 DEF IInv, TypeOK
  <2>4. Place'
    BY <1>0, <2>1 DEF Place
  <2> QED
    BY <2>2, <2>3, <2>4 DEF IInv
<1>2. CASE ~(submitted < setup.width /\ submitted < Count)
  <2>1. main' = "taking" /\ UNCHANGED <<task, submitted>>
    BY <1>2 DEF Fill
  <2>2. Window'
    BY <1>0, <2>1, WindowKept
  <2>3. TypeOK'
    BY <1>0, <2>1 DEF IInv, TypeOK, Places
  <2>4. submitted = Count \/ submitted = taken + setup.width
    BY <1>0, <1>2
  <2>5. Place'
    BY <1>0, <2>1, <2>4 DEF Place
  <2>6. Guarded' /\ ResidentWithinLimit'
    BY <1>0, <2>1, QuietGuard
  <2> QED
    BY <2>2, <2>3, <2>5, <2>6 DEF IInv
<1> QED
  BY <1>1, <1>2

LEMMA TakeResultHolds ==
  ASSUME IInv, TakeResult
  PROVE  IInv'
<1>0. /\ main = "taking" /\ taken < submitted
      /\ UNCHANGED <<setup, built, task, submitted, used, disk>>
      /\ submitted \in 0..Count /\ taken \in 0..Count /\ Count \in Nat
      /\ setup.width \in Nat
      /\ Tasks' = Tasks /\ Count' = Count /\ taken + 1 \in Tasks
  BY SetupFacts DEF TakeResult, IInv, TypeOK, Tasks, Count
<1>1. CASE task[taken + 1] \in Delivered /\ taken' = taken + 1 /\ main' = "refilling"
  <2>1. TypeOK'
    BY <1>0, <1>1 DEF IInv, TypeOK, Places, Tasks
  <2>2. \A t \in Tasks : t <= taken + 1 => task[t] \in Delivered
    BY <1>0, <1>1 DEF IInv, Window, Tasks
  <2>3. taken + 1 <= submitted /\ submitted <= taken + 1 + setup.width
    BY <1>0 DEF IInv, Window
  <2>4. \A t \in Tasks : task[t] # "cancelled"
    BY <1>0 DEF IInv, Window
  <2>5. Window'
    BY <1>0, <1>1, <2>2, <2>3, <2>4 DEF IInv, Window
  <2>6. submitted = Count \/ submitted + 1 = taken + 1 + setup.width
    BY <1>0 DEF IInv, Place
  <2>7. Place'
    BY <1>0, <1>1, <2>6 DEF Place
  <2>8. Guarded' /\ ResidentWithinLimit'
    BY <1>0, <1>1, QuietGuard
  <2> QED
    BY <2>1, <2>5, <2>7, <2>8 DEF IInv
<1>2. CASE task[taken + 1] = "failed" /\ main' = "raising" /\ UNCHANGED taken
  <2>1. TypeOK'
    BY <1>0, <1>2 DEF IInv, TypeOK, Places
  <2>2. Window'
    BY <1>0, <1>2, WindowKept
  <2>3. Place'
    BY <1>0, <1>2 DEF Place
  <2>4. Guarded' /\ ResidentWithinLimit'
    BY <1>0, <1>2, QuietGuard
  <2> QED
    BY <2>1, <2>2, <2>3, <2>4 DEF IInv
<1> QED
  BY <1>1, <1>2 DEF TakeResult

LEMMA RefillHolds ==
  ASSUME IInv, Refill
  PROVE  IInv'
<1>0. /\ main = "refilling" /\ main' = "taking"
      /\ UNCHANGED <<setup, built, taken, used, disk>>
      /\ submitted \in 0..Count /\ taken \in 0..Count /\ Count \in Nat
      /\ setup.width \in Nat
      /\ submitted = Count \/ submitted + 1 = taken + setup.width
      /\ Tasks' = Tasks /\ Count' = Count
  BY SetupFacts DEF Refill, IInv, TypeOK, Place, Tasks, Count
<1>1. CASE submitted < Count
  <2>1. Submit /\ submitted < taken + setup.width /\ submitted' = submitted + 1
    BY <1>0, <1>1 DEF Refill, Submit
  <2>2. /\ task' \in [Tasks -> Statuses] /\ submitted' \in 0..Count
        /\ Window' /\ Guarded' /\ ResidentWithinLimit'
    BY <1>0, <1>1, <2>1, SubmitMoves
  <2>3. TypeOK'
    BY <1>0, <2>2 DEF IInv, TypeOK, Places
  <2>4. submitted' = taken + setup.width
    BY <1>0, <1>1, <2>1
  <2>5. Place'
    BY <1>0, <2>4 DEF Place
  <2> QED
    BY <2>2, <2>3, <2>5 DEF IInv
<1>2. CASE ~(submitted < Count)
  <2>1. UNCHANGED <<task, submitted>> /\ submitted = Count
    BY <1>0, <1>2 DEF Refill
  <2>2. TypeOK'
    BY <1>0, <2>1 DEF IInv, TypeOK, Places
  <2>3. Window'
    BY <1>0, <2>1, WindowKept
  <2>4. Place'
    BY <1>0, <2>1 DEF Place
  <2>5. Guarded' /\ ResidentWithinLimit'
    BY <1>0, <2>1, QuietGuard
  <2> QED
    BY <2>2, <2>3, <2>4, <2>5 DEF IInv
<1> QED
  BY <1>1, <1>2

\* Once every result is taken, no task is queued or running.
LEMMA AllTaken ==
  ASSUME IInv, taken = Count
  PROVE  \A t \in Tasks : task[t] \in Delivered
BY SetupFacts DEF IInv, Window, Tasks

LEMMA ReturnHolds ==
  ASSUME IInv, Return
  PROVE  IInv' /\ taken = Count /\ main \in {"taking", "inline"}
<1>0. /\ main \in {"taking", "inline"} /\ main' = "returned"
      /\ UNCHANGED <<setup, built, task, submitted, taken, used, disk>>
      /\ submitted \in 0..Count /\ taken \in 0..Count /\ Count \in Nat
      /\ setup.width \in Nat \ {0}
      /\ Tasks' = Tasks /\ Count' = Count
  BY SetupFacts DEF Return, IInv, TypeOK, Tasks, Count
<1>1. taken = Count
  <2>1. main = "taking" => taken = submitted
    BY DEF Return
  <2>2. main = "taking" => submitted = Count \/ submitted = taken + setup.width
    BY DEF IInv, Place
  <2>3. main = "inline" => taken = Count
    BY DEF Return
  <2> QED
    BY <1>0, <2>1, <2>2, <2>3
<1>2. \A t \in Tasks : task[t] \in Delivered
  BY <1>1, AllTaken
<1>3. TypeOK'
  BY <1>0 DEF IInv, TypeOK, Places
<1>4. Window'
  BY <1>0, WindowKept
<1>5. Place'
  BY <1>0, <1>1, <1>2 DEF Place, Delivered, Running
<1>6. Guarded' /\ ResidentWithinLimit'
  BY <1>0, QuietGuard
<1> QED
  BY <1>0, <1>1, <1>3, <1>4, <1>5, <1>6 DEF IInv

LEMMA CancelHolds ==
  ASSUME IInv, Cancel
  PROVE  IInv'
<1>0. /\ main = "raising" /\ main' = "closing"
      /\ UNCHANGED <<setup, built, submitted, taken, used, disk>>
      /\ submitted \in 0..Count /\ taken \in 0..Count /\ Count \in Nat
      /\ taken < submitted /\ task[taken + 1] = "failed"
      /\ Tasks' = Tasks /\ Count' = Count /\ taken + 1 \in Tasks
  BY SetupFacts DEF Cancel, IInv, TypeOK, Place, Tasks, Count
<1>1. \A t \in Tasks : task'[t] = IF task[t] = "queued" THEN "cancelled" ELSE task[t]
  BY DEF Cancel
<1>2. task' \in [Tasks -> Statuses]
  BY DEF Cancel, IInv, TypeOK, Statuses
<1>3. TypeOK'
  BY <1>0, <1>2 DEF IInv, TypeOK, Places
<1>4. Window'
  <2>1. taken <= submitted /\ submitted <= taken + setup.width
    BY DEF IInv, Window
  <2>2. \A t \in Tasks : t <= taken => task'[t] \in Delivered
    BY <1>1 DEF IInv, Window, Delivered
  <2>3. \A t \in Tasks : task'[t] = "waiting" <=> t > submitted
    BY <1>1 DEF IInv, Window
  <2>4. \A x, u \in Tasks : x < u /\ task'[x] \in {"queued", "cancelled"}
           => task'[u] \in {"queued", "cancelled", "waiting"}
    BY <1>1 DEF IInv, Window
  <2> QED
    BY <1>0, <2>1, <2>2, <2>3, <2>4 DEF Window
<1>5. Place'
  BY <1>0, <1>1 DEF Place
<1>6. Guarded' /\ ResidentWithinLimit'
  BY <1>0, <1>1, QuietGuard
<1> QED
  BY <1>3, <1>4, <1>5, <1>6 DEF IInv

LEMMA JoinedHolds ==
  ASSUME IInv, Joined
  PROVE  IInv'
<1>0. /\ main = "closing" /\ main' = "raised"
      /\ UNCHANGED <<setup, built, task, submitted, taken, used, disk>>
      /\ \A t \in Tasks : task[t] \notin Running
      /\ Tasks' = Tasks /\ Count' = Count
  BY DEF Joined, Tasks, Count
<1>1. TypeOK'
  BY <1>0 DEF IInv, TypeOK, Places
<1>2. Window'
  BY <1>0, WindowKept
<1>3. Place'
  BY <1>0 DEF IInv, Place
<1>4. Guarded' /\ ResidentWithinLimit'
  BY <1>0, QuietGuard
<1> QED
  BY <1>1, <1>2, <1>3, <1>4 DEF IInv

\* With one lane, the item being worked on is the one after the results taken.
LEMMA InlineFacts ==
  ASSUME IInv, main = "inline", taken < Count
  PROVE  /\ taken + 1 \in Tasks /\ submitted \in 0..Count /\ taken \in 0..Count
         /\ Count \in Nat /\ setup.width = 1
         /\ submitted \in {taken, taken + 1}
         /\ task[taken + 1] = "waiting" <=> submitted = taken
         /\ \A t \in Tasks : t <= taken => task[t] \in Delivered
         /\ \A t \in Tasks : t > taken + 1 => task[t] = "waiting"
<1>1. submitted \in 0..Count /\ taken \in 0..Count /\ Count \in Nat /\ setup.width = 1
  BY SetupFacts DEF IInv, TypeOK, Place
<1>2. taken <= submitted /\ submitted <= taken + 1
  BY <1>1 DEF IInv, Window
<1>3. taken + 1 \in Tasks
  BY <1>1 DEF Tasks
<1>4. \A t \in Tasks : t <= taken => task[t] \in Delivered
  BY DEF IInv, Window
<1>5. \A t \in Tasks : task[t] = "waiting" <=> t > submitted
  BY DEF IInv, Window
<1>6. \A t \in Tasks : t \in Nat
  BY <1>1 DEF Tasks
<1> QED
  BY <1>1, <1>2, <1>3, <1>4, <1>5, <1>6

LEMMA CallInlineHolds ==
  ASSUME IInv, CallInline
  PROVE  IInv'
<1>0. /\ main = "inline" /\ taken < Count
      /\ UNCHANGED <<setup, built, used, disk>>
      /\ Tasks' = Tasks /\ Count' = Count
      /\ TypeOK
  BY DEF CallInline, IInv, Tasks, Count
<1>1. /\ taken + 1 \in Tasks /\ submitted \in 0..Count /\ taken \in 0..Count
      /\ Count \in Nat /\ setup.width = 1
      /\ submitted \in {taken, taken + 1}
      /\ task[taken + 1] = "waiting" <=> submitted = taken
      /\ \A t \in Tasks : t <= taken => task[t] \in Delivered
      /\ \A t \in Tasks : t > taken + 1 => task[t] = "waiting"
  BY <1>0, InlineFacts
<1>2. \A t \in Tasks : t \in Nat /\ task[t] \notin {"queued", "cancelled"}
  BY <1>0, <1>1 DEF IInv, Window, Place, Tasks
<1>3. CASE /\ task[taken + 1] = "waiting" /\ Set(taken + 1, "compiling")
           /\ submitted' = submitted + 1 /\ UNCHANGED <<main, taken>>
  <2>1. \A t \in Tasks : task'[t] = IF t = taken + 1 THEN "compiling" ELSE task[t]
    BY <1>0, <1>3 DEF Set, TypeOK
  <2>2. task' \in [Tasks -> Statuses]
    BY <1>0, <1>3 DEF Set, TypeOK, Statuses, Running
  <2>3. submitted' = taken + 1 /\ submitted' \in 0..Count
    BY <1>0, <1>1, <1>3
  <2>4. TypeOK'
    BY <1>0, <1>3, <2>2, <2>3 DEF TypeOK
  <2>5. \A t \in Tasks : task'[t] = "waiting" <=> t > taken + 1
    BY <1>1, <1>2, <2>1 DEF Delivered
  <2>6. \A t \in Tasks : task'[t] \notin {"queued", "cancelled"}
    BY <1>2, <2>1
  <2>7. \A t \in Tasks : t <= taken => task'[t] \in Delivered
    BY <1>1, <1>2, <2>1
  <2>8. taken <= taken + 1 /\ taken + 1 <= taken + setup.width
    BY <1>1
  <2>9. Window'
    BY <1>0, <1>3, <2>3, <2>5, <2>6, <2>7, <2>8 DEF Window
  <2>10. Place'
    BY <1>0, <1>1, <1>3, <2>6 DEF Place
  <2>11. Guarded' /\ ResidentWithinLimit'
    BY <1>0, <1>3, <2>1, QuietGuard
  <2> QED
    BY <2>4, <2>9, <2>10, <2>11 DEF IInv
<1>4. CASE /\ task[taken + 1] \in Delivered /\ taken' = taken + 1
           /\ UNCHANGED <<main, task, submitted>>
  <2>1. submitted = taken + 1
    BY <1>1, <1>4 DEF Delivered
  <2>2. TypeOK'
    BY <1>0, <1>1, <1>4 DEF TypeOK, Tasks
  <2>3. \A t \in Tasks : t <= taken + 1 => task[t] \in Delivered
    BY <1>1, <1>2, <1>4
  <2>4. taken + 1 <= submitted /\ submitted <= taken + 1 + setup.width
    BY <1>1, <2>1
  <2>5. Window'
    BY <1>0, <1>2, <1>4, <2>3, <2>4 DEF IInv, Window
  <2>6. Place'
    BY <1>0, <1>1, <1>2, <1>4 DEF Place
  <2>7. Guarded' /\ ResidentWithinLimit'
    BY <1>0, <1>4, QuietGuard
  <2> QED
    BY <2>2, <2>5, <2>6, <2>7 DEF IInv
<1>5. CASE /\ task[taken + 1] = "failed" /\ main' = "raised"
           /\ UNCHANGED <<task, submitted, taken>>
  <2>1. submitted = taken + 1
    BY <1>1, <1>5
  <2>2. TypeOK'
    BY <1>0, <1>5 DEF TypeOK, Places
  <2>3. Window'
    BY <1>0, <1>5, WindowKept
  <2>4. \A t \in Tasks : task[t] \notin Running
    BY <1>1, <1>2, <1>5 DEF Running, Delivered
  <2>5. Place'
    BY <1>0, <1>1, <1>2, <1>5, <2>1, <2>4 DEF Place
  <2>6. Guarded' /\ ResidentWithinLimit'
    BY <1>0, <1>5, QuietGuard
  <2> QED
    BY <2>2, <2>3, <2>5, <2>6 DEF IInv
<1> QED
  BY <1>3, <1>4, <1>5 DEF CallInline

LEMMA NextHolds == IInv /\ [Next]_vars => IInv'
<1> SUFFICES ASSUME IInv, [Next]_vars PROVE IInv'
  OBVIOUS
<1>1. CASE Main
  BY <1>1, BuildHolds, StartMapHolds, FillHolds, TakeResultHolds, RefillHolds,
     ReturnHolds, CancelHolds, JoinedHolds, CallInlineHolds DEF Main
<1>2. CASE \E t \in Tasks : Lane(t)
  BY <1>2, LaneHolds
<1>3. CASE UNCHANGED vars
  BY <1>3 DEF vars, IInv, TypeOK, Window, Place, Guarded, WithinCapacity, Within,
     ResidentWithinLimit, Tasks, Count
<1> QED
  BY <1>1, <1>2, <1>3 DEF Next

LEMMA Invariance == Spec => []IInv
BY InitHolds, NextHolds, PTL DEF Spec

-----------------------------------------------------------------------------
(* The theorems.                                                            *)

\* The state of a job in construction is well-formed on any number of lanes: no
\* more futures than items, and the byte counters never negative
\* (OnlineJob, TaskLanes.map).
THEOREM TypeCorrect == Spec => []TypeOK
<1>1. IInv => TypeOK
  BY DEF IInv
<1> QED
  BY <1>1, Invariance, PTL

\* A job that is constructed has every task; one that is not fails for the first
\* item that failed in input order, with nothing queued (TaskLanes.map and close).
THEOREM OutcomeInOrderAlways == Spec => []OutcomeInOrder
<1>1. IInv => OutcomeInOrder
  <2> SUFFICES ASSUME IInv PROVE OutcomeInOrder
    OBVIOUS
  <2>1. main = "returned" => \A t \in Tasks : task[t] \in Delivered
    BY AllTaken DEF IInv, Place
  <2>2. taken \in 0..Count /\ submitted \in 0..Count /\ Count \in Nat
    BY SetupFacts DEF IInv, TypeOK
  <2>3. main = "raised" =>
          /\ taken < Count /\ task[taken + 1] = "failed"
          /\ \A t \in Tasks : task[t] # "queued"
    BY <2>2 DEF IInv, Place
  <2>4. \A t \in 1..taken : task[t] \in Delivered
    BY <2>2 DEF IInv, Window, Tasks
  <2> QED
    BY <2>1, <2>3, <2>4 DEF OutcomeInOrder
<1> QED
  BY <1>1, Invariance, PTL

\* However the lanes interleave, they do not keep more than the job's resident
\* budget (ResidentDeliveryBudget.reserve).
THEOREM ResidentWithinLimitAlways == Spec => []ResidentWithinLimit
<1>1. IInv => ResidentWithinLimit
  BY DEF IInv
<1> QED
  BY <1>1, Invariance, PTL

\* On the thread that entered the guard, the scratch root stays within its
\* capacity, however much serialization adds (guarded_tensor_save).
THEOREM GuardHoldsInlineAlways == Spec => []GuardHoldsInline
<1>1. IInv => GuardHoldsInline
  <2> SUFFICES ASSUME IInv, main = "bank" \/ (main = "returned" /\ setup.width = 1)
               PROVE  WithinCapacity
    BY DEF GuardHoldsInline
  <2>1. CASE main = "bank"
    BY <2>1 DEF IInv, Guarded
  <2>2. CASE main = "returned" /\ setup.width = 1
    <3>1. \A t \in Tasks : task[t] # "failed"
      BY <2>2, AllTaken DEF IInv, Place, Delivered
    <3> QED
      BY <2>2, <3>1 DEF IInv, Guarded
  <2> QED
    BY <2>1, <2>2
<1> QED
  BY <1>1, Invariance, PTL

-----------------------------------------------------------------------------
(* The shared counter.                                                      *)

\* The counter is the sum of what is kept.
Accounted == used = SumOf(setup.size, Kept)

\* A step that keeps the same payloads and leaves the counter alone.
LEMMA SameKept ==
  ASSUME Accounted, setup' = setup, used' = used,
         \A t \in Tasks : task'[t] = "kept" <=> task[t] = "kept"
  PROVE  Accounted'
<1>1. Kept' = Kept
  BY DEF Kept, Tasks, Count
<1> QED  BY <1>1 DEF Accounted

\* A task that starts, or leaves the lane without having been kept.
LEMMA SetOther ==
  ASSUME IInv, NEW t \in Tasks, task[t] # "kept", NEW s, s # "kept", Set(t, s)
  PROVE  \A u \in Tasks : task'[u] = "kept" <=> task[u] = "kept"
<1>1. task \in [Tasks -> Statuses] /\ task' = [task EXCEPT ![t] = s]
  BY DEF IInv, TypeOK, Set
<1> QED  BY <1>1

\* A reservation charges what the task it keeps holds, once.
LEMMA DeliverAccounted ==
  ASSUME IInv, Accounted, NEW t \in Tasks, Deliver(t)
  PROVE  Accounted'
<1>1. task[t] = "compiling" /\ setup' = setup
  BY DEF Deliver
<1>2. CASE used' = used /\ \E s \in {"borrowed", "resident", "writing"} : Set(t, s)
  <2>1. \A u \in Tasks : task'[u] = "kept" <=> task[u] = "kept"
    BY <1>1, <1>2, SetOther
  <2> QED  BY <1>1, <1>2, <2>1, SameKept
<1>3. CASE used' = used + setup.size[t] /\ Set(t, "kept")
  <2>1. task \in [Tasks -> Statuses] /\ task' = [task EXCEPT ![t] = "kept"]
    BY <1>3 DEF IInv, TypeOK, Set
  <2>2. t \notin Kept /\ Kept' = Kept \cup {t}
    BY <1>1, <2>1 DEF Kept, Tasks, Count
  <2>3. IsFiniteSet(Kept') /\ Counted(setup.size, Kept')
    <3>1. Kept' \subseteq Tasks
      BY <2>1, <2>2 DEF Kept
    <3>2. IsFiniteSet(Tasks)
      <4>1. Count \in Int
        BY SetupFacts DEF IInv, TypeOK
      <4> QED  BY <4>1, FS_Interval DEF Tasks
    <3>3. \A u \in Tasks : setup.size[u] \in Nat
      BY SetupFacts DEF IInv, TypeOK
    <3> QED  BY <3>1, <3>2, <3>3, FS_Subset DEF Counted
  <2>4. Kept = Kept' \ {t} /\ t \in Kept'
    BY <2>2
  <2>5. /\ SumOf(setup.size, Kept) \in Nat
        /\ SumOf(setup.size, Kept') = setup.size[t] + SumOf(setup.size, Kept)
    BY <2>3, <2>4, SumOfOneMore
  <2>6. setup.size[t] \in Nat
    BY SetupFacts DEF IInv, TypeOK
  <2> QED  BY <1>1, <1>3, <2>5, <2>6 DEF Accounted
<1> QED
  BY <1>2, <1>3 DEF Deliver

LEMMA AccountedStep == IInv /\ Accounted /\ [Next]_vars => Accounted'
<1> SUFFICES ASSUME IInv, Accounted, [Next]_vars PROVE Accounted'
  OBVIOUS
<1>0. task \in [Tasks -> Statuses] /\ Count \in Nat /\ submitted \in 0..Count
  BY SetupFacts DEF IInv, TypeOK
<1>1. ASSUME NEW t \in Tasks, Lane(t) PROVE Accounted'
  <2>1. CASE Deliver(t)
    BY <2>1, DeliverAccounted
  <2>2. CASE StartTask(t) \/ CompileRaises(t) \/ Save(t)
    <3>1. /\ task[t] # "kept" /\ setup' = setup /\ used' = used
          /\ \E s \in {"compiling", "failed", "stored"} : Set(t, s)
      BY <2>2 DEF StartTask, CompileRaises, Save
    <3>2. \A u \in Tasks : task'[u] = "kept" <=> task[u] = "kept"
      BY <3>1, SetOther
    <3> QED  BY <3>1, <3>2, SameKept
  <2> QED  BY <1>1, <2>1, <2>2 DEF Lane
<1>2. ASSUME setup' = setup, used' = used, Submit, submitted < Count PROVE Accounted'
  <2>1. submitted + 1 \in Tasks /\ submitted + 1 > submitted
    BY <1>0, <1>2 DEF Tasks
  <2>2. task[submitted + 1] = "waiting" /\ Set(submitted + 1, "queued")
    BY <1>2, <2>1 DEF IInv, Window, Submit
  <2>3. \A u \in Tasks : task'[u] = "kept" <=> task[u] = "kept"
    BY <2>1, <2>2, SetOther
  <2> QED  BY <1>2, <2>3, SameKept
<1>3. ASSUME setup' = setup, used' = used, task' = task PROVE Accounted'
  BY <1>3, SameKept
<1>4. CASE BuildSource \/ StartMap \/ TakeResult \/ Return \/ Joined \/ UNCHANGED vars
  BY <1>3, <1>4 DEF BuildSource, StartMap, TakeResult, Return, Joined, vars
<1>5. CASE Fill
  BY <1>2, <1>3, <1>5 DEF Fill
<1>6. CASE Refill
  BY <1>2, <1>3, <1>6 DEF Refill
<1>7. CASE Cancel
  <2>1. /\ setup' = setup /\ used' = used
        /\ task' = [t \in Tasks |-> IF task[t] = "queued" THEN "cancelled" ELSE task[t]]
    BY <1>7 DEF Cancel
  <2>2. \A u \in Tasks : task'[u] = "kept" <=> task[u] = "kept"
    BY <2>1
  <2> QED  BY <2>1, <2>2, SameKept
<1>8. CASE CallInline
  <2>1. CASE task[taken + 1] = "waiting" /\ Set(taken + 1, "compiling")
    <3>1. taken + 1 \in Tasks
      <4>1. taken < Count /\ taken \in Nat
        BY <1>8 DEF CallInline, IInv, TypeOK
      <4> QED  BY <1>0, <4>1 DEF Tasks
    <3>2. \A u \in Tasks : task'[u] = "kept" <=> task[u] = "kept"
      BY <2>1, <3>1, SetOther
    <3> QED  BY <1>8, <3>2, SameKept DEF CallInline
  <2>2. CASE task' = task
    BY <1>3, <1>8, <2>2 DEF CallInline
  <2> QED  BY <1>8, <2>1, <2>2 DEF CallInline
<1> QED
  BY <1>1, <1>4, <1>5, <1>6, <1>7, <1>8 DEF Next, Main

\* The lanes and the guard together: the counter the lanes share is exactly
\* what they keep and within the job's budget (ResidentDeliveryBudget.reserve),
\* and a bank, or a job compiled on the guard's own thread, is within the
\* capacity (guarded_tensor_save).
THEOREM BudgetsHoldAlways == Spec => []BudgetsHold
<1>1. Init => Accounted
  <2> SUFFICES ASSUME Init PROVE Accounted
    OBVIOUS
  <2>1. Kept = {} /\ used = 0
    BY DEF Init, Kept
  <2> QED  BY <2>1, SumOfNone DEF Accounted
<1>2. Spec => []Accounted
  <2>1. Spec => []IInv
    BY Invariance
  <2> QED  BY <1>1, <2>1, AccountedStep, PTL DEF Spec
<1>3. Accounted /\ ResidentWithinLimit => ResidentAccounted
  BY DEF Accounted, ResidentWithinLimit, ResidentAccounted, SumOf
<1>4. Accounted /\ ResidentWithinLimit /\ GuardHoldsInline => BudgetsHold
  BY <1>3 DEF BudgetsHold
<1> QED
  BY <1>2, <1>4, ResidentWithinLimitAlways, GuardHoldsInlineAlways, PTL

-----------------------------------------------------------------------------
(* The refinement.                                                          *)

LEMMA ContractInit == Init => Contract!Init
<1> SUFFICES ASSUME Init PROVE Contract!Init
  OBVIOUS
<1>1. Called = {} /\ Busy = {} /\ Outcome = "open"
  BY DEF Init, Called, Busy, Outcome, Running
<1>2. Count \in Nat /\ setup.width \in Nat \ {0} /\ taken = 0
  BY SetupFacts DEF Init
<1> QED
  BY <1>1, <1>2 DEF Contract!Init

\* Moving a task from one state to another moves it in Called and Busy.
LEMMA CalledMoves ==
  ASSUME TypeOK, NEW t \in Tasks, NEW s, Set(t, s), setup' = setup
  PROVE  /\ Called' = IF s \notin {"waiting", "queued", "cancelled"}
                        THEN Called \cup {t} ELSE Called \ {t}
         /\ Busy' = IF s \in Running THEN Busy \cup {t} ELSE Busy \ {t}
<1>1. Tasks' = Tasks
  BY DEF Tasks, Count
<1>2. \A u \in Tasks : task'[u] = IF u = t THEN s ELSE task[u]
  BY DEF Set, TypeOK
<1> QED
  BY <1>1, <1>2 DEF Called, Busy

\* A task is called as the contract has it: in input order, within the bound.
LEMMA CallStep ==
  ASSUME IInv, NEW t \in Tasks, Set(t, "compiling"),
         task[t] \in {"queued", "waiting"},
         Called = 1..(t - 1), t <= taken + setup.width, Outcome = "open",
         setup' = setup, taken' = taken, main' = main
  PROVE  Contract!Call
<1>1. Called' = Called \cup {t} /\ Busy' = Busy \cup {t}
  BY CalledMoves DEF IInv, Running
<1>2. Count' = Count /\ setup'.width = setup.width /\ Outcome' = Outcome
  BY DEF Count, Outcome
<1> QED
  BY <1>1, <1>2 DEF Contract!Call, Contract!call, Tasks

LEMMA ContractStart ==
  ASSUME IInv, NEW t \in Tasks, StartTask(t)
  PROVE  Contract!Call
<1>1. /\ Set(t, "compiling") /\ task[t] = "queued"
      /\ \A u \in Tasks : u < t => task[u] # "queued"
      /\ setup' = setup /\ taken' = taken /\ main' = main
  BY DEF StartTask
<1>2. /\ taken < t /\ t <= submitted
      /\ main \in {"filling", "taking", "refilling", "raising"}
  BY <1>1, RunningFacts
<1>3. /\ Count \in Nat /\ setup.width \in Nat /\ taken \in Nat /\ submitted \in Nat
      /\ \A u \in Tasks : u \in Nat /\ u >= 1
      /\ submitted <= taken + setup.width
  BY SetupFacts DEF IInv, TypeOK, Window, Tasks
<1>4. t <= taken + setup.width
  BY <1>2, <1>3
<1>5. \A u \in Tasks : task[u] # "cancelled"
  BY <1>2 DEF IInv, Window
<1>6. \A u \in Tasks : u < t => u \in Called
  BY <1>1, <1>2, <1>3, <1>5 DEF IInv, Window, Called
<1>7. \A u \in Tasks : u > t => u \notin Called
  BY <1>1, <1>3 DEF IInv, Window, Called
<1>8. Called = 1..(t - 1)
  <2>1. t \notin Called
    BY <1>1 DEF Called
  <2>2. \A u \in Called : u \in Tasks /\ u \in Nat /\ u >= 1 /\ u < t
    BY <1>3, <1>7, <2>1 DEF Called
  <2>3. \A u \in 1..(t - 1) : u \in Tasks /\ u < t
    BY <1>3 DEF Tasks
  <2>4. Called \subseteq 1..(t - 1)
    BY <1>3, <2>2
  <2> QED
    BY <1>6, <2>3, <2>4
<1>9. Outcome = "open"
  BY <1>2 DEF Outcome
<1> QED
  BY <1>1, <1>4, <1>8, <1>9, CallStep

\* A running task that moves on ends its call or is still in it.
LEMMA ContractEnd ==
  ASSUME IInv, NEW t \in Tasks, NEW s \in Running \cup Delivered \cup {"failed"},
         task[t] \in Running, Set(t, s),
         setup' = setup, taken' = taken, main' = main
  PROVE  Contract!End \/ UNCHANGED Contract!vars
<1>1. /\ Called' = Called \cup {t}
      /\ Busy' = IF s \in Running THEN Busy \cup {t} ELSE Busy \ {t}
  BY CalledMoves DEF IInv, Running, Delivered
<1>2. t \in Called /\ t \in Busy
  BY DEF Called, Busy, Running
<1>3. Called' = Called
  BY <1>1, <1>2
<1>4. Count' = Count /\ setup'.width = setup.width /\ Outcome' = Outcome
  BY DEF Count, Outcome
<1>5. Outcome = "open"
  BY RunningFacts DEF Outcome
<1>6. CASE s \in Running
  BY <1>1, <1>2, <1>3, <1>4, <1>6 DEF Contract!vars, Contract!call
<1>7. CASE s \notin Running
  BY <1>1, <1>2, <1>3, <1>4, <1>5, <1>7 DEF Contract!End, Contract!call
<1> QED
  BY <1>6, <1>7

LEMMA ContractLane ==
  ASSUME IInv, NEW t \in Tasks, Lane(t)
  PROVE  [Contract!Next]_Contract!vars
<1>1. CASE StartTask(t)
  BY <1>1, ContractStart DEF Contract!Next
<1>2. CASE CompileRaises(t) \/ Deliver(t) \/ Save(t)
  <2>1. task[t] \in Running /\ setup' = setup /\ taken' = taken /\ main' = main
    BY <1>2 DEF CompileRaises, Deliver, Save, Running
  <2>2. PICK s \in Running \cup Delivered \cup {"failed"} : Set(t, s)
    BY <1>2 DEF CompileRaises, Deliver, Save, Running, Delivered
  <2> QED
    BY <2>1, <2>2, ContractEnd DEF Contract!Next
<1> QED
  BY <1>1, <1>2 DEF Lane

\* Steps of the constructor that leave tasks, results and outcome alone.
LEMMA ContractStutter ==
  ASSUME UNCHANGED <<setup, taken>>, Called' = Called, Busy' = Busy, Outcome' = Outcome
  PROVE  UNCHANGED Contract!vars
BY DEF Contract!vars, Contract!call, Count

LEMMA SameTasks ==
  ASSUME UNCHANGED <<setup, task>>
  PROVE  Called' = Called /\ Busy' = Busy /\ Count' = Count
BY DEF Called, Busy, Tasks, Count

\* Queueing an item and cancelling it are not seen by the caller.
LEMMA SubmitUnseen ==
  ASSUME IInv, Submit, submitted < Count, setup' = setup
  PROVE  Called' = Called /\ Busy' = Busy
<1>1. submitted + 1 \in Tasks
  BY SetupFacts DEF IInv, TypeOK, Tasks
<1>2. task[submitted + 1] = "waiting"
  BY <1>1, SetupFacts DEF IInv, TypeOK, Window
<1>3. Called' = Called \ {submitted + 1} /\ Busy' = Busy \ {submitted + 1}
  BY <1>1, CalledMoves DEF IInv, Submit, Running
<1> QED
  BY <1>2, <1>3 DEF Called, Busy, Running

\* The next result is taken, of an item that has been called and has ended.
LEMMA TakeStep ==
  ASSUME IInv, taken + 1 \in Tasks, task[taken + 1] \in Delivered,
         taken' = taken + 1, UNCHANGED <<setup, task>>,
         Outcome = "open", Outcome' = "open"
  PROVE  Contract!Take
<1>1. taken + 1 \in Called \ Busy
  BY DEF Called, Busy, Running, Delivered
<1> QED
  BY <1>1, SameTasks DEF Contract!Take, Contract!call

\* The exception of the first item without a result is raised.
LEMMA RaiseStep ==
  ASSUME IInv, taken + 1 \in Tasks, task[taken + 1] = "failed",
         UNCHANGED <<setup, task, taken>>,
         \A t \in Tasks : task[t] \notin Running,
         Outcome = "open", Outcome' = "raised"
  PROVE  Contract!Raise
<1>1. taken + 1 \in Called /\ Busy = {}
  BY DEF Called, Busy
<1> QED
  BY <1>1, SameTasks DEF Contract!Raise, Contract!call

LEMMA ContractMain ==
  ASSUME IInv, Main
  PROVE  [Contract!Next]_Contract!vars
<1>1. CASE BuildSource
  <2>1. UNCHANGED <<setup, task, taken>> /\ Outcome' = Outcome
    BY <1>1 DEF BuildSource, Outcome
  <2> QED
    BY <2>1, SameTasks, ContractStutter
<1>2. CASE StartMap
  <2>1. UNCHANGED <<setup, task, taken>> /\ Outcome' = Outcome
    BY <1>2 DEF StartMap, Outcome
  <2> QED
    BY <2>1, SameTasks, ContractStutter
<1>3. CASE Fill \/ Refill
  <2>1. UNCHANGED <<setup, taken>> /\ Outcome' = Outcome
    BY <1>3 DEF Fill, Refill, Outcome
  <2>2. (Submit /\ submitted < Count) \/ UNCHANGED task
    BY <1>3 DEF Fill, Refill
  <2> QED
    BY <2>1, <2>2, SubmitUnseen, SameTasks, ContractStutter
<1>4. CASE TakeResult
  <2>1. UNCHANGED <<setup, task>> /\ Outcome = "open" /\ Outcome' = "open"
        /\ taken + 1 \in Tasks
    BY <1>4, SetupFacts DEF TakeResult, Outcome, IInv, TypeOK, Tasks
  <2>2. CASE task[taken + 1] \in Delivered /\ taken' = taken + 1
    BY <2>1, <2>2, TakeStep DEF Contract!Next
  <2>3. CASE taken' = taken
    BY <2>1, <2>3, SameTasks, ContractStutter
  <2> QED
    BY <1>4, <2>2, <2>3 DEF TakeResult
<1>5. CASE Return
  <2>1. UNCHANGED <<setup, task, taken>> /\ Outcome = "open" /\ Outcome' = "returned"
    BY <1>5 DEF Return, Outcome
  <2>2. taken = Count
    BY <1>5, ReturnHolds
  <2>3. Busy = {}
    BY <2>2, AllTaken DEF Busy, Running, Delivered
  <2> QED
    BY <2>1, <2>2, <2>3, SameTasks DEF Contract!Next, Contract!Return, Contract!call
<1>6. CASE Cancel
  <2>1. UNCHANGED <<setup, taken>> /\ Outcome' = Outcome /\ Tasks' = Tasks
    BY <1>6 DEF Cancel, Outcome, Tasks, Count
  <2>2. \A t \in Tasks : task'[t] = IF task[t] = "queued" THEN "cancelled" ELSE task[t]
    BY <1>6 DEF Cancel
  <2>3. Called' = Called /\ Busy' = Busy
    BY <2>1, <2>2 DEF Called, Busy, Running
  <2> QED
    BY <2>1, <2>3, ContractStutter
<1>7. CASE Joined
  <2>1. UNCHANGED <<setup, task, taken>> /\ Outcome = "open" /\ Outcome' = "raised"
        /\ \A t \in Tasks : task[t] \notin Running
    BY <1>7 DEF Joined, Outcome
  <2>2. taken + 1 \in Tasks /\ task[taken + 1] = "failed"
    BY <1>7, SetupFacts DEF Joined, IInv, TypeOK, Place, Tasks
  <2> QED
    BY <2>1, <2>2, RaiseStep DEF Contract!Next
<1>8. CASE CallInline
  <2>1. /\ taken + 1 \in Tasks /\ submitted \in 0..Count /\ taken \in 0..Count
        /\ Count \in Nat /\ setup.width = 1
        /\ \A t \in Tasks : t <= taken => task[t] \in Delivered
        /\ \A t \in Tasks : t > taken + 1 => task[t] = "waiting"
    BY <1>8, InlineFacts DEF CallInline
  <2>2. setup' = setup /\ Outcome = "open"
    BY <1>8 DEF CallInline, Outcome
  <2>3. CASE /\ task[taken + 1] = "waiting" /\ Set(taken + 1, "compiling")
             /\ UNCHANGED <<main, taken>>
    <3>1. \A t \in Called : t \in Nat /\ t >= 1 /\ t <= taken
      BY <2>1, <2>3 DEF Called, Tasks
    <3>2. \A t \in 1..taken : t \in Tasks /\ t \in Called
      BY <2>1 DEF Called, Tasks, Delivered
    <3>3. taken + 1 - 1 = taken /\ taken + 1 <= taken + setup.width
      BY <2>1
    <3>4. Called = 1..taken
      <4>1. taken \in Nat
        BY <2>1
      <4>2. Called \subseteq 1..taken
        BY <3>1, <4>1
      <4> QED
        BY <3>2, <4>2
    <3>5. Called = 1..(taken + 1 - 1)
      BY <3>3, <3>4
    <3>6. Contract!Call
      BY <2>1, <2>2, <2>3, <3>3, <3>5, CallStep
    <3> QED
      BY <3>6 DEF Contract!Next
  <2>4. CASE task[taken + 1] \in Delivered /\ taken' = taken + 1 /\ UNCHANGED <<main, task>>
    <3>1. Outcome' = "open"
      BY <2>2, <2>4 DEF Outcome
    <3> QED
      BY <2>1, <2>2, <2>4, <3>1, TakeStep DEF Contract!Next
  <2>5. CASE task[taken + 1] = "failed" /\ main' = "raised" /\ UNCHANGED <<task, taken>>
    <3>1. Outcome' = "raised"
      BY <2>5 DEF Outcome
    <3>2. \A t \in Tasks : t \in Nat /\ task[t] \notin Running
      BY <2>1, <2>5 DEF Tasks, Running, Delivered
    <3> QED
      BY <2>1, <2>2, <2>5, <3>1, <3>2, RaiseStep DEF Contract!Next
  <2> QED
    BY <1>8, <2>3, <2>4, <2>5 DEF CallInline
<1> QED
  BY <1>1, <1>2, <1>3, <1>4, <1>5, <1>6, <1>7, <1>8 DEF Main

\* Compiling on lanes keeps the contract of a sequential call with bounded work
\* ahead: for every job, number of lanes and interleaving, items are called and
\* results taken in order, and nothing runs on when the call is over
\* (TaskLanes.map, close).
THEOREM ContractKept == Spec => KeepsContract
<1>1. Init => Contract!Init
  BY ContractInit
<1>2. IInv /\ [Next]_vars => [Contract!Next]_Contract!vars
  <2> SUFFICES ASSUME IInv, [Next]_vars PROVE [Contract!Next]_Contract!vars
    OBVIOUS
  <2>1. CASE Main
    BY <2>1, ContractMain
  <2>2. CASE \E t \in Tasks : Lane(t)
    BY <2>2, ContractLane
  <2>3. CASE UNCHANGED vars
    <3>1. UNCHANGED <<setup, task, taken>> /\ Outcome' = Outcome
      BY <2>3 DEF vars, Outcome
    <3> QED
      BY <3>1, SameTasks, ContractStutter
  <2> QED
    BY <2>1, <2>2, <2>3 DEF Next
<1> QED
  BY <1>1, <1>2, Invariance, PTL DEF Spec, KeepsContract, Contract!Spec

-------------------------------------------------------------------------------
(* The release of scratch                                                  *)

ScratchTypes ==
  /\ tree \in [dirs: SUBSET Directories, files: SUBSET Files, tombs: SUBSET Files]
  /\ log \subseteq Scratches
  /\ call \in [at: {"idle", "next", "rmtree", "EBUSY", "ENOENT", "ENOTEMPTY"},
               target: Directories \cup {"none"}, queue: SUBSET Directories,
               kept: SUBSET Directories, todo: SUBSET (Files \cup Folders),
               inside: Folders \cup {"none"}, inner: SUBSET (Files \cup Folders)]
  /\ pending \subseteq Directories /\ last \subseteq Directories
  /\ phase \in {"run", "finish", "finished", "retains", "raised"}
  /\ phase \notin {"run", "finish"} => call.at = "idle"
  /\ phase \in {"finish", "finished", "retains"} => log = Scratches

(* What is on disk is in a directory that is on disk, and logged.          *)
TreeOK ==
  /\ \A x \in tree.files \cup tree.tombs : Home[x] \in tree.dirs
  /\ \A f \in tree.dirs \cap Folders : Parent[f] \in tree.dirs
  /\ tree.dirs \cap Scratches \subseteq log

(* While a tree is removed, all that is left of it is sealed and none of   *)
(* it is next to a link, what was listed included.                         *)
Removable(x) == x \in sealed /\ Home[x] \notin links /\ Home[x] \in Subtree(call.target)
RemovalOK ==
  call.at \notin {"idle", "next"} =>
    /\ call.target \in call.queue
    /\ call.at = "rmtree" =>
         /\ call.target \in tree.dirs /\ ~Linked(call.target)
         /\ FilesUnder(tree, call.target) \subseteq sealed
         /\ \A x \in call.todo \cap Files : Removable(x)
         /\ \A f \in call.todo \cap Folders : Parent[f] = call.target
         /\ call.inside # "none" =>
              Parent[call.inside] = call.target /\ \A x \in call.inner \cap Files : Removable(x)

(* A directory something was unlinked from, and that is still there, waits *)
(* to be removed, or is in one that does.                                  *)
Waiting == IF call.at = "idle" THEN pending ELSE call.kept \cup call.queue
EnteredWaits ==
  phase \in {"run", "finish"} =>
    \A x \in Created \ tree.files :
      Home[x] \in tree.dirs => \E p \in Waiting : Home[x] \in Subtree(p)

ScratchInv ==
  ScratchTypes /\ TreeOK /\ RemovalOK /\ SealedFirst /\ EnteredWaits /\ FinishedClean

(* A subtree is a directory with its folders; a folder has none.           *)
LEMMA SubtreeIs ==
  /\ \A d : d \in Subtree(d)
  /\ \A d, f : f \in Subtree(d) => f = d \/ (f \in Folders /\ Parent[f] = d)
  /\ \A d, f : f \in Folders /\ Parent[f] = d => f \in Subtree(d) /\ d \in Scratches /\ d # f
BY PathAssumption DEF Subtree

LEMMA ScratchStarts == ScratchInit => ScratchInv
BY PathAssumption DEF ScratchInit, ScratchInv, ScratchTypes, TreeOK, RemovalOK, SealedFirst, EnteredWaits,
   FinishedClean, Created, Idle

LEMMA CloseHolds == ASSUME ScratchInv, NEW x \in Files, Close(x) PROVE ScratchInv'
<1> DEFINE t == [tree EXCEPT !.tombs = @ \ {x}]
<1>1. /\ tree' = t
      /\ links' = links /\ sealed' = sealed /\ log' = log /\ pending' = pending
      /\ call' = call /\ last' = last /\ phase' = phase
  BY DEF Close
<1>2. /\ tree'.dirs = tree.dirs /\ tree'.files = tree.files /\ tree'.tombs = tree.tombs \ {x}
      /\ tree' \in [dirs: SUBSET Directories, files: SUBSET Files, tombs: SUBSET Files]
  BY <1>1 DEF ScratchInv, ScratchTypes
<1>3. ScratchTypes' /\ TreeOK'
  BY <1>1, <1>2 DEF ScratchInv, ScratchTypes, TreeOK
<1>4. Linked(call.target)' <=> Linked(call.target)
  BY <1>1, <1>2 DEF Linked
<1>5. FilesUnder(tree', call'.target) \subseteq FilesUnder(tree, call.target)
  BY <1>1, <1>2 DEF FilesUnder
<1>6. RemovalOK'
  BY <1>1, <1>2, <1>4, <1>5 DEF ScratchInv, RemovalOK, Removable
<1>7. Created' = Created /\ Waiting' = Waiting
  BY <1>1 DEF Created, Waiting
<1>8. SealedFirst' /\ EnteredWaits' /\ FinishedClean'
  BY <1>1, <1>2, <1>7 DEF ScratchInv, SealedFirst, EnteredWaits, FinishedClean
<1> QED  BY <1>3, <1>6, <1>8 DEF ScratchInv

LEMMA CreateHolds == ASSUME ScratchInv, NEW s \in Scratches, Create(s) PROVE ScratchInv'
<1>1. /\ links' = links /\ sealed' = sealed /\ log' = log \cup {s} /\ pending' = pending
      /\ call' = call /\ last' = last /\ phase' = phase
      /\ phase = "run" /\ call.at = "idle"
  BY DEF Create
<1>2. /\ tree'.dirs = tree.dirs \cup Subtree(s) /\ tree'.tombs = tree.tombs
      /\ tree'.files = tree.files \cup {x \in Files : Home[x] \in Subtree(s)}
      /\ tree' \in [dirs: SUBSET Directories, files: SUBSET Files, tombs: SUBSET Files]
  BY DEF Create, ScratchInv, ScratchTypes, Directories, Subtree
<1>3. ScratchTypes'
  BY <1>1, <1>2 DEF ScratchInv, ScratchTypes
<1>4. TreeOK'
  <2>1. \A x \in tree'.files \cup tree'.tombs : Home[x] \in tree'.dirs
    BY <1>2 DEF ScratchInv, TreeOK
  <2>2. \A f \in tree'.dirs \cap Folders : Parent[f] \in tree'.dirs
    BY <1>2, SubtreeIs, PathAssumption DEF ScratchInv, TreeOK
  <2>3. tree'.dirs \cap Scratches \subseteq log'
    BY <1>1, <1>2, SubtreeIs, PathAssumption DEF ScratchInv, TreeOK
  <2> QED  BY <2>1, <2>2, <2>3 DEF TreeOK
<1>5. Created' \ tree'.files \subseteq Created \ tree.files
  BY <1>1, <1>2 DEF Created
<1>6. \A x \in Created \ tree.files : Home[x] \in tree'.dirs /\ x \in Created' \ tree'.files => Home[x] \in tree.dirs
  BY <1>2 DEF Created
<1>7. RemovalOK' /\ SealedFirst' /\ FinishedClean'
  BY <1>1, <1>5 DEF RemovalOK, ScratchInv, SealedFirst, FinishedClean
<1>8. Waiting' = Waiting
  BY <1>1 DEF Waiting
<1>9. EnteredWaits'
  BY <1>1, <1>5, <1>6, <1>8 DEF ScratchInv, EnteredWaits
<1> QED  BY <1>3, <1>4, <1>7, <1>9 DEF ScratchInv

(* A step that leaves the disk and its log alone, and seals no less.       *)
LEMMA DiskKept ==
  ASSUME ScratchInv, tree' = tree, links' = links, log' = log, sealed \subseteq sealed'
  PROVE  TreeOK' /\ SealedFirst' /\ Created' = Created
BY DEF ScratchInv, TreeOK, SealedFirst, Created

LEMMA BeginWaits ==
  ASSUME ScratchInv, NEW d \in Directories, BeginRelease(d), call.at = "idle",
         tree' = tree, links' = links, log' = log, sealed' = sealed,
         phase' = phase, phase \in {"run", "finish"}
  PROVE  TreeOK' /\ SealedFirst' /\ RemovalOK' /\ EnteredWaits' /\ FinishedClean'
         /\ pending' \subseteq Directories
         /\ call' \in [at: {"next"}, target: {"none"}, queue: SUBSET Directories,
               kept: SUBSET Directories, todo: {{}}, inside: {"none"}, inner: {{}}]
<1>1. /\ call' = [Idle EXCEPT !.at = "next", !.queue = pending \cup {d}]
      /\ pending' = (IF known THEN pending \cup {d} ELSE pending)
  BY DEF BeginRelease, Retried
<1>2. /\ call'.at = "next" /\ call'.queue = pending \cup {d} /\ call'.kept = {}
      /\ call' = [at |-> "next", target |-> "none", queue |-> pending \cup {d}, kept |-> {},
                  todo |-> {}, inside |-> "none", inner |-> {}]
  BY <1>1 DEF Idle
<1>3. TreeOK' /\ SealedFirst' /\ Created' = Created
  BY DiskKept
<1>4. RemovalOK'
  BY <1>2 DEF RemovalOK
<1>5. Waiting \subseteq Waiting'
  BY <1>2 DEF Waiting
<1>6. EnteredWaits' /\ FinishedClean'
  BY <1>3, <1>5 DEF ScratchInv, EnteredWaits, FinishedClean
<1> QED  BY <1>1, <1>2, <1>3, <1>4, <1>6 DEF ScratchInv, ScratchTypes

LEMMA ReleaseHolds == ASSUME ScratchInv, NEW d \in Directories, Release(d) PROVE ScratchInv'
<1>1. /\ BeginRelease(d) /\ call.at = "idle" /\ phase = "run" /\ tree' = tree /\ links' = links
      /\ log' = log /\ sealed' = sealed /\ phase' = phase /\ last' = last
  BY DEF Release
<1>2. /\ TreeOK' /\ SealedFirst' /\ RemovalOK' /\ EnteredWaits' /\ FinishedClean'
      /\ pending' \subseteq Directories
      /\ call' \in [at: {"next"}, target: {"none"}, queue: SUBSET Directories,
               kept: SUBSET Directories, todo: {{}}, inside: {"none"}, inner: {{}}]
  BY <1>1, BeginWaits
<1>3. ScratchTypes'
  BY <1>1, <1>2 DEF ScratchInv, ScratchTypes
<1> QED  BY <1>2, <1>3 DEF ScratchInv

LEMMA FinishNextHolds == ASSUME ScratchInv, FinishNext PROVE ScratchInv'
<1>1. PICK d \in last : BeginRelease(d) /\ last' = last \ {d}
  BY DEF FinishNext
<1>2. /\ call.at = "idle" /\ phase = "finish" /\ tree' = tree /\ links' = links
      /\ log' = log /\ sealed' = sealed /\ phase' = phase /\ d \in Directories
  BY DEF FinishNext, ScratchInv, ScratchTypes
<1>3. /\ TreeOK' /\ SealedFirst' /\ RemovalOK' /\ EnteredWaits' /\ FinishedClean'
      /\ pending' \subseteq Directories
      /\ call' \in [at: {"next"}, target: {"none"}, queue: SUBSET Directories,
               kept: SUBSET Directories, todo: {{}}, inside: {"none"}, inner: {{}}]
  BY <1>1, <1>2, BeginWaits
<1>4. ScratchTypes'
  BY <1>1, <1>2, <1>3 DEF ScratchInv, ScratchTypes
<1> QED  BY <1>3, <1>4 DEF ScratchInv

LEMMA FinishHolds == ASSUME ScratchInv, Finish PROVE ScratchInv'
<1>1. /\ tree' = tree /\ links' = links /\ log' = log /\ sealed' = sealed /\ call' = call
      /\ pending' = pending /\ phase = "run" /\ phase' = "finish" /\ log = Scratches /\ last' = log
      /\ call.at = "idle"
  BY DEF Finish
<1>2. TreeOK' /\ SealedFirst' /\ Created' = Created
  BY <1>1, DiskKept
<1>3. ScratchTypes' /\ RemovalOK' /\ FinishedClean'
  BY <1>1 DEF ScratchInv, ScratchTypes, RemovalOK, FinishedClean, Directories
<1>4. Waiting' = Waiting
  BY <1>1 DEF Waiting
<1>5. EnteredWaits'
  BY <1>1, <1>2, <1>4 DEF ScratchInv, EnteredWaits
<1> QED  BY <1>2, <1>3, <1>5 DEF ScratchInv

(* The study ends: whoever is in no logged directory is nowhere.           *)
LEMMA FinishedHolds == ASSUME ScratchInv, Finished PROVE ScratchInv'
<1>1. /\ tree' = tree /\ links' = links /\ log' = log /\ sealed' = sealed /\ call' = call
      /\ pending' = pending /\ last' = last /\ phase = "finish" /\ call.at = "idle"
      /\ phase' = (IF log \cap tree.dirs = {} THEN "finished" ELSE "retains")
  BY DEF Finished
<1>2. TreeOK' /\ SealedFirst' /\ Created' = Created
  BY <1>1, DiskKept
<1>3. ScratchTypes' /\ RemovalOK' /\ EnteredWaits'
  BY <1>1 DEF ScratchInv, ScratchTypes, RemovalOK, EnteredWaits
<1>4. FinishedClean'
  <2>1. log = Scratches
    BY <1>1 DEF ScratchInv, ScratchTypes
  <2>2. log \cap tree.dirs = {} => tree.dirs = {}
    BY <2>1, PathAssumption DEF ScratchInv, ScratchTypes, TreeOK, Directories
  <2>3. tree.dirs = {} => tree.files = {} /\ tree.tombs = {}
    BY DEF ScratchInv, TreeOK
  <2> QED  BY <1>1, <2>2, <2>3 DEF FinishedClean
<1> QED  BY <1>2, <1>3, <1>4 DEF ScratchInv

LEMMA ReturnedHolds == ASSUME ScratchInv, Returned PROVE ScratchInv'
<1>1. /\ tree' = tree /\ links' = links /\ log' = log /\ sealed' = sealed /\ call' = Idle
      /\ pending' = call.kept /\ last' = last /\ phase' = phase
      /\ call.at = "next" /\ call.queue = {}
  BY DEF Returned
<1>2. TreeOK' /\ SealedFirst' /\ Created' = Created
  BY <1>1, DiskKept
<1>3. ScratchTypes' /\ RemovalOK' /\ FinishedClean'
  BY <1>1 DEF ScratchInv, ScratchTypes, RemovalOK, FinishedClean, Idle
<1>4. Waiting' = Waiting
  BY <1>1 DEF Waiting, Idle
<1>5. EnteredWaits'
  BY <1>1, <1>2, <1>4 DEF ScratchInv, EnteredWaits
<1> QED  BY <1>2, <1>3, <1>5 DEF ScratchInv

LEMMA RaisedHolds ==
  ASSUME ScratchInv, Raise, tree' = tree, links' = links, log' = log, sealed' = sealed,
         pending' = pending, last' = last
  PROVE  ScratchInv'
<1>1. phase' = "raised" /\ call' = Idle
  BY DEF Raise
<1>2. TreeOK' /\ SealedFirst' /\ Created' = Created
  BY DiskKept
<1>3. ScratchTypes' /\ RemovalOK' /\ FinishedClean' /\ EnteredWaits'
  BY <1>1 DEF ScratchInv, ScratchTypes, RemovalOK, FinishedClean, EnteredWaits, Idle
<1> QED  BY <1>2, <1>3 DEF ScratchInv

(* A path is done: it is not on disk any more, or it is kept.              *)
LEMMA PathDone ==
  ASSUME ScratchInv, NEW d \in call.queue, call.at # "idle",
         call'.at = "next", call'.queue = call.queue \ {d}, call.kept \subseteq call'.kept,
         d \in call'.kept \/ d \notin tree'.dirs,
         tree'.dirs \subseteq tree.dirs, tree'.files = tree.files, log' = log, phase' = phase, TreeOK'
  PROVE  EnteredWaits'
<1>1. Created' = Created
  BY DEF Created
<1>2. Waiting = call.kept \cup call.queue /\ Waiting' = call'.kept \cup (call.queue \ {d})
  BY DEF Waiting
<1>3. d \notin tree'.dirs => \A f \in Subtree(d) : f \notin tree'.dirs
  BY SubtreeIs DEF TreeOK
<1> QED  BY <1>1, <1>2, <1>3 DEF ScratchInv, EnteredWaits

LEMMA StartHolds == ASSUME ScratchInv, Start PROVE ScratchInv'
<1>1. /\ tree' = tree /\ links' = links /\ log' = log /\ pending' = pending /\ last' = last
      /\ call.at = "next"
  BY DEF Start
<1>2. PICK d \in call.queue :
        \/ d \notin tree.dirs /\ Removed(d) /\ UNCHANGED <<sealed, phase>>
        \/ d \in tree.dirs /\ Linked(d) /\ Raise /\ UNCHANGED sealed
        \/ /\ d \in tree.dirs /\ ~Linked(d)
           /\ call' = [call EXCEPT !.at = "rmtree", !.target = d,
                                   !.todo = Entries(tree, d), !.inside = "none"]
           /\ sealed' = sealed \cup FilesUnder(tree, d)
           /\ UNCHANGED phase
  BY DEF Start
<1>3. CASE d \notin tree.dirs /\ Removed(d) /\ UNCHANGED <<sealed, phase>>
  <2>1. call'.at = "next" /\ call'.queue = call.queue \ {d} /\ call'.kept = call.kept
    BY <1>3 DEF Removed, ScratchInv, ScratchTypes
  <2>2. TreeOK' /\ SealedFirst' /\ Created' = Created
    BY <1>1, <1>3, DiskKept
  <2>3. ScratchTypes' /\ RemovalOK' /\ FinishedClean'
    BY <1>1, <1>3 DEF Removed, ScratchInv, ScratchTypes, RemovalOK, FinishedClean
  <2>4. EnteredWaits'
    BY <1>1, <1>3, <2>1, <2>2, PathDone
  <2> QED  BY <2>2, <2>3, <2>4 DEF ScratchInv
<1>4. CASE d \in tree.dirs /\ Linked(d) /\ Raise /\ UNCHANGED sealed
  BY <1>1, <1>4, RaisedHolds
<1>5. CASE /\ d \in tree.dirs /\ ~Linked(d)
           /\ call' = [call EXCEPT !.at = "rmtree", !.target = d,
                                   !.todo = Entries(tree, d), !.inside = "none"]
           /\ sealed' = sealed \cup FilesUnder(tree, d)
           /\ UNCHANGED phase
  <2>1. /\ call'.at = "rmtree" /\ call'.target = d /\ call'.queue = call.queue
        /\ call'.kept = call.kept /\ call'.todo = Entries(tree, d) /\ call'.inside = "none"
        /\ call'.inner = call.inner
    BY <1>5 DEF ScratchInv, ScratchTypes
  <2>2. TreeOK' /\ SealedFirst' /\ Created' = Created
    BY <1>1, <1>5, DiskKept
  <2>3. Entries(tree, d) \subseteq Files \cup Folders /\ d \in Directories
    BY DEF Entries, ScratchInv, ScratchTypes
  <2>4. ScratchTypes'
    BY <1>1, <1>5, <2>3 DEF ScratchInv, ScratchTypes
  <2>5. \A x \in Entries(tree, d) \cap Files :
          Home[x] = d /\ x \in FilesUnder(tree, d)
    BY SubtreeIs, PathAssumption DEF Entries, FilesUnder
  <2>6. d \notin links
    BY <1>5, SubtreeIs DEF Linked
  <2>7. \A f \in Entries(tree, d) \cap Folders : Parent[f] = d
    BY PathAssumption DEF Entries, ScratchInv, ScratchTypes
  <2>8. ~Linked(d)' /\ FilesUnder(tree', d) \subseteq sealed'
    BY <1>1, <1>5 DEF Linked
  <2>9. RemovalOK'
    BY <1>1, <1>5, <2>1, <2>5, <2>6, <2>7, <2>8, SubtreeIs DEF RemovalOK, Removable
  <2>10. EnteredWaits' /\ FinishedClean'
    BY <1>1, <1>5, <2>1, <2>2 DEF ScratchInv, EnteredWaits, FinishedClean, Waiting
  <2> QED  BY <2>2, <2>4, <2>9, <2>10 DEF ScratchInv
<1> QED  BY <1>2, <1>3, <1>4, <1>5

(* An error leaves the disk as it is and the path in hand.                 *)
LEMMA FailHolds ==
  ASSUME ScratchInv, NEW errno \in {"EBUSY", "ENOENT", "ENOTEMPTY"}, Fail(errno),
         call.at = "rmtree", tree' = tree, links' = links, log' = log, sealed' = sealed,
         pending' = pending, last' = last, phase' = phase
  PROVE  ScratchInv'
<1>1. /\ call'.at = errno /\ call'.target = call.target /\ call'.queue = call.queue
      /\ call'.kept = call.kept
  BY DEF Fail, ScratchInv, ScratchTypes
<1>2. TreeOK' /\ SealedFirst' /\ Created' = Created
  BY DiskKept
<1>3. ScratchTypes'
  BY DEF Fail, ScratchInv, ScratchTypes
<1>4. RemovalOK' /\ EnteredWaits' /\ FinishedClean'
  BY <1>1, <1>2 DEF ScratchInv, ScratchTypes, RemovalOK, EnteredWaits, FinishedClean, Waiting
<1> QED  BY <1>2, <1>3, <1>4 DEF ScratchInv

LEMMA UnlinkHolds == ASSUME ScratchInv, NEW x \in Files, Unlink(x) PROVE ScratchInv'
<1>1. /\ call.at = "rmtree" /\ x \in Listed /\ links' = links /\ log' = log /\ sealed' = sealed
      /\ pending' = pending /\ last' = last /\ phase' = phase
  BY DEF Unlink
<1>2. CASE x \notin tree.files
  BY <1>1, <1>2, FailHolds DEF Unlink
<1>3. CASE x \in tree.files
  <2>1. /\ tree' = [tree EXCEPT !.files = @ \ {x},
                                !.tombs = IF x \in held THEN @ \cup {x} ELSE @]
        /\ call' = Ticked(x)
    BY <1>3 DEF Unlink
  <2>2. /\ tree'.dirs = tree.dirs /\ tree'.files = tree.files \ {x}
        /\ tree.tombs \subseteq tree'.tombs /\ tree'.tombs \subseteq tree.tombs \cup {x}
        /\ tree' \in [dirs: SUBSET Directories, files: SUBSET Files, tombs: SUBSET Files]
    BY <2>1 DEF ScratchInv, ScratchTypes
  <2>3. /\ call'.at = "rmtree" /\ call'.target = call.target /\ call'.queue = call.queue
        /\ call'.kept = call.kept /\ call'.inside = call.inside
        /\ call'.todo \subseteq call.todo /\ call'.inner \subseteq call.inner
    BY <1>1, <2>1 DEF Ticked, ScratchInv, ScratchTypes
  <2>4. ScratchTypes'
    <3>1. call' \in [at: {"idle", "next", "rmtree", "EBUSY", "ENOENT", "ENOTEMPTY"},
               target: Directories \cup {"none"}, queue: SUBSET Directories,
               kept: SUBSET Directories, todo: SUBSET (Files \cup Folders),
               inside: Folders \cup {"none"}, inner: SUBSET (Files \cup Folders)]
      BY <2>1 DEF Ticked, ScratchInv, ScratchTypes
    <3> QED  BY <1>1, <2>2, <2>3, <3>1 DEF ScratchInv, ScratchTypes
  <2>5. Removable(x)
    BY <1>1 DEF Listed, ScratchInv, RemovalOK
  <2>6. TreeOK'
    BY <1>1, <1>3, <2>2 DEF ScratchInv, TreeOK
  <2>7. Created' = Created /\ Waiting' = Waiting
    BY <1>1, <2>3 DEF Created, Waiting
  <2>8. SealedFirst'
    BY <1>1, <2>2, <2>5, <2>7 DEF ScratchInv, SealedFirst, Removable
  <2>9. call.target \in Waiting
    BY <1>1 DEF Waiting, ScratchInv, RemovalOK
  <2>10. EnteredWaits'
    BY <1>1, <2>2, <2>5, <2>7, <2>9 DEF ScratchInv, EnteredWaits, Removable
  <2>11. FinishedClean'
    BY <1>1 DEF ScratchInv, ScratchTypes, FinishedClean
  <2>12. (Linked(call.target)' <=> Linked(call.target))
    BY <1>1, <2>2, <2>3 DEF Linked
  <2>13. FilesUnder(tree', call'.target) \subseteq FilesUnder(tree, call.target)
    BY <1>3, <2>2, <2>3 DEF FilesUnder
  <2>14. RemovalOK'
    BY <1>1, <2>2, <2>3, <2>12, <2>13 DEF ScratchInv, RemovalOK, Removable
  <2> QED  BY <2>4, <2>6, <2>8, <2>10, <2>11, <2>14 DEF ScratchInv
<1> QED  BY <1>2, <1>3

LEMMA EnterHolds == ASSUME ScratchInv, NEW f \in Directories, Enter(f) PROVE ScratchInv'
<1>1. /\ call.at = "rmtree" /\ call.inside = "none" /\ f \in call.todo \cap Folders
      /\ links' = links /\ log' = log /\ sealed' = sealed /\ tree' = tree
      /\ pending' = pending /\ last' = last /\ phase' = phase
      /\ call' = [call EXCEPT !.inside = f, !.inner = Entries(tree, f)]
  BY DEF Enter
<1>2. /\ call'.at = "rmtree" /\ call'.target = call.target /\ call'.queue = call.queue
      /\ call'.kept = call.kept /\ call'.todo = call.todo /\ call'.inside = f
      /\ call'.inner = Entries(tree, f)
  BY <1>1 DEF ScratchInv, ScratchTypes
<1>3. TreeOK' /\ SealedFirst' /\ Created' = Created
  BY <1>1, DiskKept
<1>4. Entries(tree, f) \subseteq Files \cup Folders
  BY DEF Entries, ScratchInv, ScratchTypes
<1>5. ScratchTypes'
  BY <1>1, <1>4 DEF ScratchInv, ScratchTypes
<1>6. /\ Parent[f] = call.target /\ f \in Subtree(call.target) /\ call.target \in tree.dirs
      /\ ~Linked(call.target) /\ FilesUnder(tree, call.target) \subseteq sealed
  BY <1>1, SubtreeIs DEF ScratchInv, RemovalOK
<1>7. ASSUME NEW x \in Entries(tree, f) \cap Files PROVE Removable(x)
  <2>1. Home[x] = f /\ x \in tree.files \cup tree.tombs
    BY <1>7, PathAssumption DEF Entries
  <2>2. f \in tree.dirs
    BY <2>1 DEF ScratchInv, TreeOK
  <2>3. x \in FilesUnder(tree, call.target)
    BY <1>6, <2>1 DEF FilesUnder
  <2>4. f \notin links
    BY <1>6, <2>2 DEF Linked
  <2> QED  BY <1>6, <2>1, <2>3, <2>4 DEF Removable
<1>8. Linked(call.target)' <=> Linked(call.target)
  BY <1>1, <1>2 DEF Linked
<1>9. RemovalOK'
  BY <1>1, <1>2, <1>6, <1>7, <1>8 DEF ScratchInv, RemovalOK, Removable
<1>10. EnteredWaits' /\ FinishedClean'
  BY <1>1, <1>2, <1>3 DEF ScratchInv, EnteredWaits, FinishedClean, Waiting
<1> QED  BY <1>3, <1>5, <1>9, <1>10 DEF ScratchInv

LEMMA RmDirHolds == ASSUME ScratchInv, RmDir PROVE ScratchInv'
<1>1. /\ call.at = "rmtree" /\ Listed = {} /\ links' = links /\ log' = log /\ sealed' = sealed
      /\ pending' = pending /\ last' = last /\ phase' = phase
  BY DEF RmDir
<1>2. CASE Entries(tree, Here) # {}
  BY <1>1, <1>2, FailHolds DEF RmDir
<1>3. CASE Entries(tree, Here) = {}
  <2>1. /\ tree' = [tree EXCEPT !.dirs = @ \ {Here}]
        /\ call' = IF call.inside # "none"
                   THEN [call EXCEPT !.inside = "none", !.todo = @ \ {Here}]
                   ELSE [call EXCEPT !.at = "next", !.queue = @ \ {Here}]
    BY <1>3 DEF RmDir
  <2>2. /\ tree'.dirs = tree.dirs \ {Here} /\ tree'.files = tree.files /\ tree'.tombs = tree.tombs
        /\ tree' \in [dirs: SUBSET Directories, files: SUBSET Files, tombs: SUBSET Files]
    BY <2>1 DEF ScratchInv, ScratchTypes
  <2>3. /\ \A x \in tree.files \cup tree.tombs : Home[x] # Here
        /\ \A f \in tree.dirs \cap Folders : Parent[f] # Here
    BY <1>3 DEF Entries
  <2>4. TreeOK'
    BY <1>1, <2>2, <2>3 DEF ScratchInv, TreeOK
  <2>5. Created' = Created
    BY <1>1 DEF Created
  <2>6. SealedFirst' /\ FinishedClean'
    BY <1>1, <2>2, <2>5 DEF ScratchInv, ScratchTypes, SealedFirst, FinishedClean
  <2>7. ScratchTypes'
    <3>1. call' \in [at: {"idle", "next", "rmtree", "EBUSY", "ENOENT", "ENOTEMPTY"},
               target: Directories \cup {"none"}, queue: SUBSET Directories,
               kept: SUBSET Directories, todo: SUBSET (Files \cup Folders),
               inside: Folders \cup {"none"}, inner: SUBSET (Files \cup Folders)]
      BY <2>1 DEF ScratchInv, ScratchTypes
    <3>2. phase \in {"run", "finish"}
      BY <1>1 DEF ScratchInv, ScratchTypes
    <3> QED  BY <1>1, <2>2, <3>1, <3>2 DEF ScratchInv, ScratchTypes
  <2>8. CASE call.inside # "none"
    <3>1. /\ call'.at = "rmtree" /\ call'.target = call.target /\ call'.queue = call.queue
          /\ call'.kept = call.kept /\ call'.inside = "none" /\ call'.todo \subseteq call.todo
          /\ call'.inner = call.inner
      BY <1>1, <2>1, <2>8 DEF ScratchInv, ScratchTypes
    <3>2. Here = call.inside /\ call.inside \in Folders
      BY <2>8 DEF Here, ScratchInv, ScratchTypes
    <3>3. call.target # Here
      BY <1>1, <2>8, <3>2, SubtreeIs DEF ScratchInv, RemovalOK
    <3>4. ~Linked(call.target)' /\ FilesUnder(tree', call.target) = FilesUnder(tree, call.target)
      BY <1>1, <2>2, <3>1 DEF Linked, FilesUnder, ScratchInv, RemovalOK
    <3>5. RemovalOK'
      BY <1>1, <2>2, <3>1, <3>3, <3>4 DEF ScratchInv, RemovalOK, Removable
    <3>6. EnteredWaits'
      BY <1>1, <2>2, <2>5, <3>1 DEF ScratchInv, EnteredWaits, Waiting
    <3> QED  BY <2>4, <2>6, <2>7, <3>5, <3>6 DEF ScratchInv
  <2>9. CASE call.inside = "none"
    <3>1. call'.at = "next" /\ call'.queue = call.queue \ {Here} /\ call'.kept = call.kept
      BY <2>1, <2>9 DEF ScratchInv, ScratchTypes
    <3>2. Here \in call.queue
      BY <1>1, <2>9 DEF Here, ScratchInv, RemovalOK
    <3>3. RemovalOK'
      BY <3>1 DEF RemovalOK
    <3>4. EnteredWaits'
      BY <1>1, <2>2, <2>4, <3>1, <3>2, PathDone
    <3> QED  BY <2>4, <2>6, <2>7, <3>3, <3>4 DEF ScratchInv
  <2> QED  BY <2>8, <2>9
<1> QED  BY <1>2, <1>3

LEMMA HandleHolds == ASSUME ScratchInv, Handle PROVE ScratchInv'
<1>1. /\ call.at \in {"ENOTEMPTY", "EBUSY", "ENOENT"}
      /\ links' = links /\ log' = log /\ sealed' = sealed /\ tree' = tree
      /\ pending' = pending /\ last' = last
  BY DEF Handle
<1>2. CASE ~Defers(call.at)
  BY <1>1, <1>2, RaisedHolds DEF Handle
<1>3. CASE Defers(call.at)
  <2>1. /\ call' = [call EXCEPT !.at = "next", !.queue = @ \ {call.target},
                                !.kept = @ \cup {call.target}]
        /\ phase' = phase
    BY <1>3 DEF Handle
  <2>2. /\ call'.at = "next" /\ call'.queue = call.queue \ {call.target}
        /\ call'.kept = call.kept \cup {call.target}
    BY <2>1 DEF ScratchInv, ScratchTypes
  <2>3. call.target \in call.queue
    BY <1>1 DEF ScratchInv, RemovalOK
  <2>4. TreeOK' /\ SealedFirst' /\ Created' = Created
    BY <1>1, DiskKept
  <2>5. ScratchTypes' /\ RemovalOK' /\ FinishedClean'
    BY <1>1, <2>1, <2>2, <2>3 DEF ScratchInv, ScratchTypes, RemovalOK, FinishedClean
  <2>6. EnteredWaits'
    BY <1>1, <2>1, <2>2, <2>3, <2>4, PathDone
  <2> QED  BY <2>4, <2>5, <2>6 DEF ScratchInv
<1> QED  BY <1>2, <1>3

(* A directory that stands is one something was unlinked from: a scratch   *)
(* directory has files of its own.                                         *)
LEMMA StandingWaits == ScratchInv => DeferredIsPending
<1> SUFFICES ASSUME ScratchInv, phase \in {"run", "finish"}, call.at = "idle", NEW d \in Standing
             PROVE  \E p \in pending : d \in Subtree(p)
  BY DEF DeferredIsPending
<1>1. /\ d \in tree.dirs /\ Touched(d) /\ FilesUnder(tree, d) \cap tree.files = {}
      /\ d \in Directories
  BY DEF Standing, ScratchInv, ScratchTypes
<1>2. \E x \in Created \ tree.files : Home[x] = d
  <2>1. CASE d \in Scratches
    <3>1. PICK x \in Files : Home[x] = d
      BY <2>1, PathAssumption
    <3>2. d \in log
      BY <1>1, <2>1 DEF ScratchInv, TreeOK
    <3>3. x \in Created
      BY <3>1, <3>2, SubtreeIs DEF Created
    <3>4. x \notin tree.files
      BY <1>1, <3>1, SubtreeIs DEF FilesUnder
    <3> QED  BY <3>1, <3>3, <3>4
  <2>2. CASE d \in Folders
    <3>1. Subtree(d) = {d}
      BY <2>2, PathAssumption DEF Subtree
    <3> QED  BY <1>1, <3>1 DEF Touched
  <2> QED  BY <1>1, <2>1, <2>2 DEF Directories
<1>3. Waiting = pending
  BY DEF Waiting
<1> QED  BY <1>1, <1>2, <1>3 DEF ScratchInv, EnteredWaits

(* Releases are sound whatever is still mapped, whoever lets go when, and  *)
(* for any directories, folders, files and links.                          *)
THEOREM CleanupSoundAlways == ScratchSpec => []CleanupSound
<1>1. ScratchInv /\ [ScratchNext]_scratch => ScratchInv'
  <2> SUFFICES ASSUME ScratchInv, [ScratchNext]_scratch PROVE ScratchInv'
    OBVIOUS
  <2>1. ASSUME NEW s \in Scratches, Create(s) PROVE ScratchInv'
    BY <2>1, CreateHolds
  <2>2. ASSUME NEW d \in Directories, Release(d) \/ Enter(d) PROVE ScratchInv'
    BY <2>2, ReleaseHolds, EnterHolds
  <2>3. ASSUME NEW x \in Files, Close(x) \/ Unlink(x) PROVE ScratchInv'
    BY <2>3, CloseHolds, UnlinkHolds
  <2>4. CASE Start \/ RmDir \/ Handle \/ Returned
    BY <2>4, StartHolds, RmDirHolds, HandleHolds, ReturnedHolds
  <2>5. CASE Finish \/ FinishNext \/ Finished
    BY <2>5, FinishHolds, FinishNextHolds, FinishedHolds
  <2>6. CASE UNCHANGED scratch
    <3>1. /\ links' = links /\ tree' = tree /\ sealed' = sealed /\ log' = log /\ pending' = pending
          /\ call' = call /\ last' = last /\ phase' = phase
      BY <2>6 DEF scratch
    <3>2. TreeOK' /\ SealedFirst' /\ Created' = Created
      BY <3>1, DiskKept
    <3>3. ScratchTypes' /\ FinishedClean'
      BY <3>1 DEF ScratchInv, ScratchTypes, FinishedClean
    <3>4. RemovalOK'
      BY <3>1 DEF ScratchInv, RemovalOK, Removable, Linked
    <3>5. EnteredWaits'
      BY <3>1, <3>2 DEF ScratchInv, EnteredWaits, Waiting
    <3> QED  BY <3>2, <3>3, <3>4, <3>5 DEF ScratchInv
  <2> QED  BY <2>1, <2>2, <2>3, <2>4, <2>5, <2>6 DEF ScratchNext
<1>2. ScratchInv => CleanupSound
  BY StandingWaits DEF ScratchInv, CleanupSound
<1> QED  BY ScratchStarts, <1>1, <1>2, PTL DEF ScratchSpec
===============================================================================
