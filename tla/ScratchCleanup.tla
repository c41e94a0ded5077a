----------------------------- MODULE ScratchCleanup -----------------------------
(***************************************************************************)
(* core/scratch_cleanup.py, and the directories it is given: a study makes *)
(* one scratch directory per source group, with the source files, and in   *)
(* it one delivery folder per job.  A folder is released after its last    *)
(* use, the directory at the end of its group, and everything once more    *)
(* when the study completes.                                               *)
(*                                                                         *)
(* Scratch is an NFS mount and its files are memory-mapped: unlinking a    *)
(* file that is still held renames it to a tombstone (.nfs...) in the same *)
(* directory, which goes when the last holder lets go and cannot be        *)
(* unlinked before.  Holders let go at any moment; shutil.rmtree lists a   *)
(* directory once, takes its entries in any order, depth first, and stops  *)
(* at the first error.                                                     *)
(***************************************************************************)
EXTENDS Integers, FiniteSets

CONSTANTS
  Scratches,   (* the scratch directories, in the order of their paths     *)
  Folders,     (* the delivery folders                                     *)
  Files,
  Home,        (* the directory or folder a file is in                     *)
  Parent,      (* the scratch directory a folder is in                     *)
  Rank,        (* the order of paths: a directory comes before its folders *)
  LinkChoices  (* which directories can have a symbolic link in them       *)

Directories == Scratches \cup Folders
ASSUME PathAssumption ==
  /\ Scratches \cap Folders = {} /\ "none" \notin Directories /\ Files \cap Folders = {}
  /\ Home \in [Files -> Directories] /\ Parent \in [Folders -> Scratches]
  /\ \A s \in Scratches : \E x \in Files : Home[x] = s
  /\ Rank \in [Directories -> Nat] /\ LinkChoices \subseteq SUBSET Directories
  /\ \A d \in Folders : Rank[Parent[d]] < Rank[d]

VARIABLES
  links,     (* the directories with a link; no step changes them          *)
  tree,      (* the directories, files and tombstones there are            *)
  held,      (* the files somebody has mapped                              *)
  sealed,    (* the files whose hashes are in the event log                *)
  log,       (* the directories the log says the study created             *)
  known,     (* the study has the attribute pending_scratch_cleanup        *)
  pending,   (* its value                                                  *)
  call,      (* the cleanup that runs                                      *)
  last,      (* the paths finish_scratch_cleanup has still to release      *)
  phase      (* what the study does                                        *)
scratch == <<links, tree, held, sealed, log, known, pending, call, last, phase>>

-------------------------------------------------------------------------------
(* The file system                                                         *)

Subtree(d) == {d} \cup {f \in Folders : Parent[f] = d}
Entries(D, d) ==
  {x \in D.files \cup D.tombs : Home[x] = d} \cup {f \in D.dirs \cap Folders : Parent[f] = d}
FilesUnder(D, d) == {x \in D.files \cup D.tombs : Home[x] \in Subtree(d)}

(* Tombstones vanish with their holder.                                    *)
Close(x) ==
  /\ x \in held
  /\ held' = held \ {x}
  /\ tree' = [tree EXCEPT !.tombs = @ \ {x}]
  /\ UNCHANGED <<links, sealed, log, known, pending, call, last, phase>>

-------------------------------------------------------------------------------
(* The study                                                               *)

Idle == [at |-> "idle", target |-> "none", queue |-> {}, kept |-> {},
         todo |-> {}, inside |-> "none", inner |-> {}]

ScratchInit ==
  /\ links \in LinkChoices
  /\ tree = [dirs |-> {}, files |-> {}, tombs |-> {}]
  /\ held = {} /\ sealed = {} /\ log = {} /\ known = FALSE /\ pending = {}
  /\ call = Idle /\ last = {} /\ phase = "run"

(* A group makes its directory, its folders and their files; what its jobs *)
(* leave mapped is any of them.                                            *)
Create(s) ==
  /\ phase = "run" /\ call.at = "idle" /\ s \notin log
  /\ log' = log \cup {s}
  /\ tree' = [tree EXCEPT !.dirs = @ \cup Subtree(s),
                          !.files = @ \cup {x \in Files : Home[x] \in Subtree(s)}]
  /\ held' \in {held \cup mapped : mapped \in SUBSET {x \in Files : Home[x] \in Subtree(s)}}
  /\ UNCHANGED <<links, sealed, known, pending, call, last, phase>>

\* Mutant: what was deferred is not tried again.
RetriedOnlyThis(waiting, d) == {d}

(* The paths a release goes through: every pending one.                    *)
Retried(waiting, d) == waiting \cup {d}
IsFirst(d, paths) == d \in paths /\ \A other \in paths : Rank[d] <= Rank[other]

(* release_scratch: an attribute that does not exist yet is not assigned   *)
(* before all are done; the set of one that exists is changed at once.     *)
BeginRelease(d) ==
  /\ call' = [Idle EXCEPT !.at = "next", !.queue = Retried(pending, d)]
  /\ pending' = IF known THEN pending \cup {d} ELSE pending

Release(d) ==
  /\ phase = "run" /\ call.at = "idle" /\ d \in tree.dirs
  /\ BeginRelease(d)
  /\ UNCHANGED <<links, tree, held, sealed, log, known, last, phase>>

-------------------------------------------------------------------------------
(* remove_owned_scratch                                                    *)

Raise == phase' = "raised" /\ call' = Idle

Removed(d) == call' = [call EXCEPT !.at = "next", !.queue = @ \ {d}]

(* The first path is next.  A path that is gone is done; links are refused *)
(* and nothing is touched; otherwise every file is hashed before the first *)
(* is unlinked.                                                            *)
Linked(d) == Subtree(d) \cap tree.dirs \cap links # {}
Start ==
  /\ call.at = "next"
  /\ \E d \in call.queue :
       /\ IsFirst(d, call.queue)
       /\ \/ d \notin tree.dirs /\ Removed(d) /\ UNCHANGED <<sealed, phase>>
          \/ d \in tree.dirs /\ Linked(d) /\ Raise /\ UNCHANGED sealed
          \/ /\ d \in tree.dirs /\ ~Linked(d)
             /\ call' = [call EXCEPT !.at = "rmtree", !.target = d,
                                     !.todo = Entries(tree, d), !.inside = "none"]
             /\ sealed' = sealed \cup FilesUnder(tree, d)
             /\ UNCHANGED phase
  /\ UNCHANGED <<links, tree, held, log, known, pending, last>>

Here == IF call.inside = "none" THEN call.target ELSE call.inside
Listed == IF call.inside = "none" THEN call.todo ELSE call.inner
Ticked(x) == IF call.inside = "none" THEN [call EXCEPT !.todo = @ \ {x}]
             ELSE [call EXCEPT !.inner = @ \ {x}]
Fail(errno) == call' = [call EXCEPT !.at = errno]

(* A held file becomes a tombstone; a tombstone is busy, or gone.          *)
Unlink(x) ==
  /\ call.at = "rmtree" /\ x \in Listed \cap Files
  /\ \/ /\ x \in tree.files
        /\ tree' = [tree EXCEPT !.files = @ \ {x},
                                !.tombs = IF x \in held THEN @ \cup {x} ELSE @]
        /\ call' = Ticked(x)
     \/ x \in tree.tombs \ tree.files /\ Fail("EBUSY") /\ UNCHANGED tree
     \/ x \notin tree.files \cup tree.tombs /\ Fail("ENOENT") /\ UNCHANGED tree
  /\ UNCHANGED <<links, held, sealed, log, known, pending, last, phase>>

Enter(f) ==
  /\ call.at = "rmtree" /\ call.inside = "none" /\ f \in call.todo \cap Folders
  /\ call' = [call EXCEPT !.inside = f, !.inner = Entries(tree, f)]
  /\ UNCHANGED <<links, tree, held, sealed, log, known, pending, last, phase>>

RmDir ==
  /\ call.at = "rmtree" /\ Listed = {}
  /\ IF Entries(tree, Here) # {} THEN Fail("ENOTEMPTY") /\ UNCHANGED tree
     ELSE /\ tree' = [tree EXCEPT !.dirs = @ \ {Here}]
          /\ call' = IF call.inside # "none"
                     THEN [call EXCEPT !.inside = "none", !.todo = @ \ {Here}]
                     ELSE [call EXCEPT !.at = "next", !.queue = @ \ {Here}]
  /\ UNCHANGED <<links, held, sealed, log, known, pending, last, phase>>

(* An error is put off only when nothing but tombstones is left.           *)
Defers(errno) ==
  /\ errno \in {"ENOTEMPTY", "EBUSY"}
  /\ FilesUnder(tree, call.target) # {}
  /\ FilesUnder(tree, call.target) \subseteq tree.tombs

Handle ==
  /\ call.at \in {"ENOTEMPTY", "EBUSY", "ENOENT"}
  /\ IF Defers(call.at)
     THEN /\ call' = [call EXCEPT !.at = "next", !.queue = @ \ {call.target},
                                  !.kept = @ \cup {call.target}]
          /\ UNCHANGED phase
     ELSE Raise
  /\ UNCHANGED <<links, tree, held, sealed, log, known, pending, last>>

Returned ==
  /\ call.at = "next" /\ call.queue = {}
  /\ pending' = call.kept /\ known' = TRUE
  /\ call' = Idle
  /\ UNCHANGED <<links, tree, held, sealed, log, last, phase>>

-------------------------------------------------------------------------------
(* finish_scratch_cleanup: everything the log says was created, in order   *)

Finish ==
  /\ phase = "run" /\ call.at = "idle" /\ log = Scratches
  /\ phase' = "finish" /\ last' = log
  /\ UNCHANGED <<links, tree, held, sealed, log, known, pending, call>>

FinishNext ==
  /\ phase = "finish" /\ call.at = "idle" /\ last # {}
  /\ \E d \in last :
       /\ IsFirst(d, last)
       /\ BeginRelease(d) /\ last' = last \ {d}
  /\ UNCHANGED <<links, tree, held, sealed, log, known, phase>>

Finished ==
  /\ phase = "finish" /\ call.at = "idle" /\ last = {}
  /\ phase' = IF log \cap tree.dirs = {} THEN "finished" ELSE "retains"
  /\ UNCHANGED <<links, tree, held, sealed, log, known, pending, call, last>>

ScratchNext ==
  \/ \E s \in Scratches : Create(s)
  \/ \E d \in Directories : Release(d) \/ Enter(d)
  \/ \E x \in Files : Close(x) \/ Unlink(x)
  \/ Start \/ RmDir \/ Handle \/ Returned
  \/ Finish \/ FinishNext \/ Finished

ScratchSpec == ScratchInit /\ [][ScratchNext]_scratch

-------------------------------------------------------------------------------
(* Properties                                                              *)

Created == {x \in Files : Home[x] \in UNION {Subtree(s) : s \in log}}

(* Nothing is unlinked before its hash is in the log, or next to a link.   *)
SealedFirst ==
  /\ Created \ tree.files \subseteq sealed
  /\ \A x \in Created \ tree.files : Home[x] \notin links

(* A directory that could not be removed is tried again: between releases  *)
(* one that was entered and still exists is pending.                       *)
Touched(d) == \E x \in Created \ tree.files : Home[x] \in Subtree(d)
Standing == {d \in tree.dirs : Touched(d) /\ FilesUnder(tree, d) \cap tree.files = {}
                               /\ FilesUnder(tree, d) # {}}
DeferredIsPending ==
  (phase \in {"run", "finish"} /\ call.at = "idle") =>
    \A d \in Standing : \E p \in pending : d \in Subtree(p)

(* A study that finished left nothing of its own behind.                   *)
FinishedClean ==
  phase = "finished" => tree.dirs = {} /\ tree.files = {} /\ tree.tombs = {}

CleanupSound == SealedFirst /\ DeferredIsPending /\ FinishedClean

(* "tolerating open NFS tombstones" (scratch_cleanup.py:1): a release does *)
(* not fail because somebody holds a file.                                 *)
TombstonesTolerated == links = {} => phase # "raised"
===============================================================================
