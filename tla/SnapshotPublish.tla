-------------------------- MODULE SnapshotPublish --------------------------
(***************************************************************************)
(* tools/prepare_legal_review.py: several invocations of the command in    *)
(* one checkout, each freezing the canonical inputs of its source commit   *)
(* into reviews/legal/inputs/<review_id>/.  One action per observable      *)
(* operation on the file system or on Git, in the code's order; an         *)
(* operation may fail with an OSError, a process may die between any two,  *)
(* and the maintainers commit, delete and tidy up beside it.               *)
(*                                                                         *)
(* A directory is named by the invocation whose mkdir made it, so that the *)
(* path <id> and the directory found there stay distinct: content[q] are   *)
(* the files of the directory q made, dir[i] says which one path i is.     *)
(* The bytes of a blob are abstracted to the commit they come from.        *)
(***************************************************************************)
EXTENDS Naturals, FiniteSets

CONSTANTS Procs,      \* invocations
          Ids,        \* review ids
          Commits,    \* commits HEAD can be at
          Files,      \* CANONICAL_INPUTS, by frozen file name
          None,       \* no such directory
          Earlier,    \* whoever made inputs before these invocations
          Fsynced,    \* its entry in reviews/legal has been fsynced since
          Absent,     \* no such file
          Partial,    \* bytes that are not the ones written
          MaxFaults   \* bound on failures and on acts of the maintainers

ASSUME NoneAssumption    == None \notin Procs
ASSUME InputsAssumption  ==
  /\ {Earlier, Fsynced} \cap (Procs \cup {None}) = {}
  /\ Earlier # Fsynced
ASSUME ContentAssumption == {Absent, Partial} \cap Commits = {}
ASSUME DistinctContent   == Absent # Partial
ASSUME FaultsAssumption  == MaxFaults \in Nat

VARIABLES
  pc,         \* where each invocation is
  rid, src,   \* its --review_id and --source-commit
  frozen,     \* the bytes it read from Git, or Absent
  todo,       \* the frozen files it has not finished writing
  cur, at,    \* the file it has open for writing, and in whose directory
  head,       \* the checkout's HEAD
  inputsDir,  \* reviews/legal/inputs: None, Fsynced, or who made it
  dir,        \* dir[i]: who made the directory now at inputs/<i>, or None
  content,    \* content[q][f]: the bytes of f in the directory q made
  records,    \* ids with a completed record
  history,    \* ids whose snapshot path some fetched commit has held
  synced,     \* synced[q]: files of q's directory whose bytes are durable
  named,      \* named[q]: files of q's directory whose entries are durable
  linked,     \* linked[i]: the durable entry of inputs/<i>, or None
  faults      \* failures and maintainer acts so far

args   == <<rid, src>>
disk   == <<inputsDir, dir, content, synced, named, linked>>
repo   == <<head, records, history>>
work   == <<frozen, todo, cur, at>>
vars   == <<pc, args, work, disk, repo, faults>>

Contents == Commits \cup {Absent, Partial}

(***************************************************************************)
(* Phases.  Mid is everything between the consumption check and the end.   *)
(***************************************************************************)
Writing  == {"write", "flush", "readback", "synctarget", "syncparent"}
Holding  == Writing \cup {"postcheck", "verify", "rollback"}
Mid      == {"head", "status", "read", "inputs", "mkinputs", "syncinputs",
             "recheck", "mkdir", "syncremoved"} \cup Holding
Terminal == {"reported", "failed", "residual", "crashed"}
Phases   == {"check"} \cup Mid \cup Terminal

Goto(p, from, to) ==
  /\ pc[p] = from
  /\ pc' = [pc EXCEPT ![p] = to]

(***************************************************************************)
(* The operation p is about to make fails, with an OSError for most.       *)
(***************************************************************************)
Fault(p, from, to) ==
  /\ faults < MaxFaults
  /\ faults' = faults + 1
  /\ Goto(p, from, to)

Target(p) == dir[rid[p]]

Consumed(p) == Target(p) # None \/ rid[p] \in records

(***************************************************************************)
(* What a reader of the path finds: the bytes of a file, the names listed. *)
(***************************************************************************)
Bytes(i, f) == IF dir[i] = None THEN Absent ELSE content[dir[i]][f]
Listed(i)   == {f \in Files : Bytes(i, f) # Absent}

(***************************************************************************)
(* git status --porcelain --untracked-files=all lists an untracked file;   *)
(* an empty directory is invisible to it.                                  *)
(***************************************************************************)
Dirty == \E i \in Ids \ history : Listed(i) # {}

TypeOK ==
  /\ pc \in [Procs -> Phases]
  /\ rid \in [Procs -> Ids]
  /\ src \in [Procs -> Commits]
  /\ frozen \in [Procs -> Commits \cup {Absent}]
  /\ todo \in [Procs -> SUBSET Files]
  /\ cur \in [Procs -> Files \cup {Absent}]
  /\ at \in [Procs -> Procs \cup {None}]
  /\ head \in Commits
  /\ inputsDir \in Procs \cup {None, Earlier, Fsynced}
  /\ dir \in [Ids -> Procs \cup {None}]
  /\ content \in [Procs -> [Files -> Contents]]
  /\ records \in SUBSET Ids
  /\ history \in SUBSET Ids
  /\ synced \in [Procs -> SUBSET Files]
  /\ named \in [Procs -> SUBSET Files]
  /\ linked \in [Ids -> Procs \cup {None}]
  /\ faults \in Nat

Init ==
  /\ pc = [p \in Procs |-> "check"]
  /\ rid \in [Procs -> Ids]
  /\ src \in [Procs -> Commits]
  /\ frozen = [p \in Procs |-> Absent]
  /\ todo = [p \in Procs |-> Files]
  /\ cur = [p \in Procs |-> Absent]
  /\ at = [p \in Procs |-> None]
  /\ head \in Commits
  /\ inputsDir \in {None, Earlier}
  /\ dir = [i \in Ids |-> None]
  /\ content = [p \in Procs |-> [f \in Files |-> Absent]]
  /\ records = {}
  /\ history = {}
  /\ synced = [p \in Procs |-> {}]
  /\ named = [p \in Procs |-> {}]
  /\ linked = [i \in Ids |-> None]
  /\ faults = 0

-----------------------------------------------------------------------------

\* Seeded fault: only the workspace is consulted, not the fetched history.
CheckConsumedNoHistory(p) ==
  /\ Goto(p, "check", IF Consumed(p) THEN "failed" ELSE "head")
  /\ UNCHANGED <<args, work, disk, repo, faults>>

(***************************************************************************)
(* Before publication.                                                     *)
(***************************************************************************)
CheckConsumed(p) ==
  /\ Goto(p, "check", IF rid[p] \in history \/ Consumed(p) THEN "failed" ELSE "head")
  /\ UNCHANGED <<args, work, disk, repo, faults>>

RequireHead(p) ==
  /\ Goto(p, "head", IF head = src[p] THEN "status" ELSE "failed")
  /\ UNCHANGED <<args, work, disk, repo, faults>>

RequireClean(p) ==
  /\ Goto(p, "status", IF Dirty THEN "failed" ELSE "read")
  /\ UNCHANGED <<args, work, disk, repo, faults>>

\* Seeded fault: the blobs are read from HEAD instead of source_commit.
ReadBlobsAtHead(p) ==
  /\ UNCHANGED <<args, todo, cur, at, disk, repo, faults>>
  /\ Goto(p, "read", "inputs")
  /\ frozen' = [frozen EXCEPT ![p] = head]

(***************************************************************************)
(* Every read is of an object of source_commit, whatever HEAD is by then;  *)
(* a blob that is missing, or not a regular file, ends the run.            *)
(***************************************************************************)
ReadBlobs(p) ==
  /\ UNCHANGED <<args, todo, cur, at, disk, repo>>
  /\ \/ /\ Goto(p, "read", "inputs")
        /\ frozen' = [frozen EXCEPT ![p] = src[p]]
        /\ UNCHANGED faults
     \/ /\ Fault(p, "read", "failed")
        /\ UNCHANGED frozen

EnsureInputs(p) ==
  /\ Goto(p, "inputs", IF inputsDir # None THEN "recheck" ELSE "mkinputs")
  /\ UNCHANGED <<args, work, disk, repo, faults>>

(***************************************************************************)
(* mkdir of a directory that another invocation made since: the error is   *)
(* not caught, and the run ends with exit code 2.                          *)
(***************************************************************************)
MkInputs(p) ==
  /\ UNCHANGED <<args, work, repo, dir, content, synced, named, linked>>
  /\ \/ /\ inputsDir # None
        /\ Goto(p, "mkinputs", "failed")
        /\ UNCHANGED <<inputsDir, faults>>
     \/ /\ inputsDir = None
        /\ Goto(p, "mkinputs", "syncinputs")
        /\ inputsDir' = p
        /\ UNCHANGED faults
     \/ /\ Fault(p, "mkinputs", "failed")
        /\ UNCHANGED inputsDir

\* Seeded fault: the new inputs directory is not made durable.
SyncInputsSkipped(p) ==
  /\ Goto(p, "syncinputs", "recheck")
  /\ UNCHANGED <<args, work, disk, repo, faults>>

(***************************************************************************)
(* Only the invocation that made inputs gets here; the others rely on the  *)
(* fsync of whoever did, which may still be due or never have come.        *)
(***************************************************************************)
SyncInputs(p) ==
  /\ UNCHANGED <<args, work, repo, dir, content, synced, named, linked>>
  /\ \/ /\ Goto(p, "syncinputs", "recheck")
        /\ inputsDir' = Fsynced
        /\ UNCHANGED faults
     \/ /\ Fault(p, "syncinputs", "failed")
        /\ UNCHANGED inputsDir

Recheck(p) ==
  /\ Goto(p, "recheck", IF Consumed(p) THEN "failed" ELSE "mkdir")
  /\ UNCHANGED <<args, work, disk, repo, faults>>

-----------------------------------------------------------------------------

\* Seeded fault: the mkdir sits inside the try whose handler removes the path.
MkdirTargetInTry(p) ==
  /\ UNCHANGED <<args, work, repo, inputsDir, content, synced, named, linked, faults>>
  /\ Goto(p, "mkdir", IF Target(p) = None THEN "write" ELSE "rollback")
  /\ dir' = IF Target(p) = None THEN [dir EXCEPT ![rid[p]] = p] ELSE dir

(***************************************************************************)
(* _write_snapshot.  The mkdir is outside the try: when the path exists    *)
(* the error leaves what is there alone.                                   *)
(***************************************************************************)
MkdirTarget(p) ==
  /\ UNCHANGED <<args, work, repo, inputsDir, content, synced, named, linked>>
  /\ \/ /\ Target(p) = None
        /\ Goto(p, "mkdir", "write")
        /\ dir' = [dir EXCEPT ![rid[p]] = p]
        /\ UNCHANGED faults
     \/ /\ Target(p) # None
        /\ Goto(p, "mkdir", "failed")
        /\ UNCHANGED <<dir, faults>>
     \/ /\ Fault(p, "mkdir", "failed")
        /\ UNCHANGED dir

(***************************************************************************)
(* open("xb") of the next file.  A name that exists, a directory that is   *)
(* gone and an OSError alike lead to the handler.                          *)
(***************************************************************************)
CreateFile(p, f) ==
  /\ f \in todo[p]
  /\ UNCHANGED <<args, frozen, todo, repo, inputsDir, dir, synced, named, linked>>
  /\ \/ /\ Target(p) # None
        /\ f \notin Listed(rid[p])
        /\ Goto(p, "write", "flush")
        /\ content' = [content EXCEPT ![Target(p)][f] = Partial]
        /\ cur' = [cur EXCEPT ![p] = f]
        /\ at' = [at EXCEPT ![p] = Target(p)]
        /\ UNCHANGED faults
     \/ /\ Target(p) = None \/ f \in Listed(rid[p])
        /\ Goto(p, "write", "rollback")
        /\ UNCHANGED <<content, cur, at, faults>>
     \/ /\ Fault(p, "write", "rollback")
        /\ UNCHANGED <<content, cur, at>>

(***************************************************************************)
(* write, flush, fsync on the open handle.  The medium may keep other      *)
(* bytes than those written: it is what the read-back is for.              *)
(***************************************************************************)
WriteFile(p) ==
  /\ UNCHANGED <<args, work, repo, inputsDir, dir, named, linked>>
  /\ \/ /\ Goto(p, "flush", "readback")
        /\ content' = [content EXCEPT ![at[p]][cur[p]] = frozen[p]]
        /\ synced' = [synced EXCEPT ![at[p]] = @ \cup {cur[p]}]
        /\ UNCHANGED faults
     \/ /\ Fault(p, "flush", "readback")
        /\ synced' = [synced EXCEPT ![at[p]] = @ \cup {cur[p]}]
        /\ UNCHANGED content
     \/ /\ Fault(p, "flush", "rollback")
        /\ UNCHANGED <<content, synced>>

ReadBack(p) ==
  /\ pc[p] = "readback"
  /\ UNCHANGED <<args, frozen, cur, at, disk, repo>>
  /\ \/ /\ Bytes(rid[p], cur[p]) = frozen[p]
        /\ todo' = [todo EXCEPT ![p] = @ \ {cur[p]}]
        /\ Goto(p, "readback", IF todo[p] = {cur[p]} THEN "synctarget" ELSE "write")
        /\ UNCHANGED faults
     \/ /\ Bytes(rid[p], cur[p]) # frozen[p]
        /\ Goto(p, "readback", "rollback")
        /\ UNCHANGED <<todo, faults>>
     \/ /\ Fault(p, "readback", "rollback")
        /\ UNCHANGED todo

\* Seeded fault: the fsync of the snapshot directory is left out.
SyncTargetSkipped(p) ==
  /\ Goto(p, "synctarget", "syncparent")
  /\ UNCHANGED <<args, work, repo, disk, faults>>

SyncTarget(p) ==
  /\ UNCHANGED <<args, work, repo, inputsDir, dir, content, synced, linked>>
  /\ \/ /\ Target(p) # None
        /\ Goto(p, "synctarget", "syncparent")
        /\ named' = [named EXCEPT ![Target(p)] = Listed(rid[p])]
        /\ UNCHANGED faults
     \/ /\ Fault(p, "synctarget", "rollback")
        /\ UNCHANGED named

(***************************************************************************)
(* fsync of a directory makes every entry it has at that moment durable,   *)
(* those of other invocations too.                                         *)
(***************************************************************************)
SyncParent(p) ==
  /\ UNCHANGED <<args, work, repo, inputsDir, dir, content, synced, named>>
  /\ \/ /\ Goto(p, "syncparent", "postcheck")
        /\ linked' = dir
        /\ UNCHANGED faults
     \/ /\ Fault(p, "syncparent", "rollback")
        /\ UNCHANGED linked

\* Seeded fault: nobody looks for a record after the snapshot is written.
PostCheckSkipped(p) ==
  /\ Goto(p, "postcheck", "verify")
  /\ UNCHANGED <<args, work, disk, repo, faults>>

\* Seeded fault: the last check repeats Recheck and finds its own directory.
PostCheckOnTarget(p) ==
  /\ Goto(p, "postcheck", IF Consumed(p) THEN "rollback" ELSE "verify")
  /\ UNCHANGED <<args, work, disk, repo, faults>>

PostCheck(p) ==
  /\ Goto(p, "postcheck", IF rid[p] \in records THEN "rollback" ELSE "verify")
  /\ UNCHANGED <<args, work, disk, repo, faults>>

(***************************************************************************)
(* The last reading of every file, and the descriptor.                     *)
(***************************************************************************)
Verify(p) ==
  /\ UNCHANGED <<args, work, disk, repo>>
  /\ \/ /\ Goto(p, "verify",
                IF \A f \in Files : Bytes(rid[p], f) = frozen[p]
                THEN "reported" ELSE "rollback")
        /\ UNCHANGED faults
     \/ Fault(p, "verify", "rollback")

-----------------------------------------------------------------------------
(***************************************************************************)
(* shutil.rmtree of the path, one entry at a time, then fsync of inputs.   *)
(* An error in either ends with a message that something may remain.       *)
(***************************************************************************)
RmFile(p, f) ==
  /\ f \in Listed(rid[p])
  /\ Goto(p, "rollback", "rollback")
  /\ content' = [content EXCEPT ![Target(p)][f] = Absent]
  /\ UNCHANGED <<args, work, repo, inputsDir, dir, synced, named, linked, faults>>

RmTarget(p) ==
  /\ UNCHANGED <<args, work, repo, inputsDir, content, synced, named, linked>>
  /\ \/ /\ Target(p) # None
        /\ Listed(rid[p]) = {}
        /\ Goto(p, "rollback", "syncremoved")
        /\ dir' = [dir EXCEPT ![rid[p]] = None]
        /\ UNCHANGED faults
     \/ /\ Target(p) = None
        /\ Goto(p, "rollback", "residual")
        /\ UNCHANGED <<dir, faults>>
     \/ /\ Fault(p, "rollback", "residual")
        /\ UNCHANGED dir

\* Seeded fault: the rollback does not fsync the directory it removed from.
SyncRemovedSkipped(p) ==
  /\ Goto(p, "syncremoved", "failed")
  /\ UNCHANGED <<args, work, repo, disk, faults>>

SyncRemoved(p) ==
  /\ UNCHANGED <<args, work, repo, inputsDir, dir, content, synced, named>>
  /\ \/ /\ Goto(p, "syncremoved", "failed")
        /\ linked' = dir
        /\ UNCHANGED faults
     \/ /\ Fault(p, "syncremoved", "residual")
        /\ UNCHANGED linked

-----------------------------------------------------------------------------
(***************************************************************************)
(* The environment.  Each act counts against MaxFaults.                    *)
(***************************************************************************)
Disturb ==
  /\ faults < MaxFaults
  /\ faults' = faults + 1

(***************************************************************************)
(* A kill or a KeyboardInterrupt: no handler of the code catches it.       *)
(***************************************************************************)
Crash(p) ==
  /\ Disturb
  /\ pc[p] \in Mid
  /\ pc' = [pc EXCEPT ![p] = "crashed"]
  /\ UNCHANGED <<args, work, disk, repo>>

(***************************************************************************)
(* Someone commits other work, or switches branch.                         *)
(***************************************************************************)
MoveHead(c) ==
  /\ Disturb
  /\ c # head
  /\ head' = c
  /\ UNCHANGED <<pc, args, work, disk, records, history>>

RecordAppears(i, c) ==
  /\ Disturb
  /\ i \notin records
  /\ records' = records \cup {i}
  /\ c # head
  /\ head' = c
  /\ UNCHANGED <<pc, args, work, disk, history>>

(***************************************************************************)
(* "After preparation, inspect and commit the frozen snapshot first."      *)
(***************************************************************************)
CommitSnapshot(i, c) ==
  /\ Disturb
  /\ dir[i] # None
  /\ pc[dir[i]] = "reported"
  /\ history' = history \cup {i}
  /\ c # head
  /\ head' = c
  /\ UNCHANGED <<pc, args, work, disk, records>>

(***************************************************************************)
(* A later commit deletes a committed snapshot; the maintainers do not     *)
(* while an invocation for that id runs.                                   *)
(***************************************************************************)
DeleteCommitted(i, c) ==
  /\ Disturb
  /\ i \in history
  /\ dir[i] # None
  /\ \A p \in Procs : rid[p] = i => pc[p] \notin Mid
  /\ dir' = [dir EXCEPT ![i] = None]
  /\ c # head
  /\ head' = c
  /\ UNCHANGED <<pc, args, work, records, history,
                 inputsDir, content, synced, named, linked>>

(***************************************************************************)
(* What a dead invocation left is removed by hand, and the id retried.     *)
(***************************************************************************)
RemoveResidual(i) ==
  /\ Disturb
  /\ dir[i] # None
  /\ pc[dir[i]] \in {"crashed", "residual"}
  /\ dir' = [dir EXCEPT ![i] = None]
  /\ UNCHANGED <<pc, args, work, repo,
                 inputsDir, content, synced, named, linked>>

-----------------------------------------------------------------------------
Step(p) ==
  \/ CheckConsumed(p)
  \/ RequireHead(p)
  \/ RequireClean(p)
  \/ ReadBlobs(p)
  \/ EnsureInputs(p)
  \/ MkInputs(p)
  \/ SyncInputs(p)
  \/ Recheck(p)
  \/ MkdirTarget(p)
  \/ \E f \in Files : CreateFile(p, f)
  \/ WriteFile(p)
  \/ ReadBack(p)
  \/ SyncTarget(p)
  \/ SyncParent(p)
  \/ PostCheck(p)
  \/ Verify(p)
  \/ \E f \in Files : RmFile(p, f)
  \/ RmTarget(p)
  \/ SyncRemoved(p)

Environment ==
  \/ \E p \in Procs : Crash(p)
  \/ \E c \in Commits : MoveHead(c)
  \/ \E i \in Ids, c \in Commits : RecordAppears(i, c)
  \/ \E i \in Ids, c \in Commits : CommitSnapshot(i, c)
  \/ \E i \in Ids, c \in Commits : DeleteCommitted(i, c)
  \/ \E i \in Ids : RemoveResidual(i)

Next == (\E p \in Procs : Step(p)) \/ Environment

Spec == Init /\ [][Next]_vars

(***************************************************************************)
(* A running process keeps being scheduled.                                *)
(***************************************************************************)
FairSpec == Spec /\ \A p \in Procs : WF_vars(Step(p))

-----------------------------------------------------------------------------
Reported == {p \in Procs : pc[p] = "reported"}

(***************************************************************************)
(* While a reported snapshot is in place it is exactly the canonical       *)
(* inputs of the source commit: no rollback, no other invocation for the   *)
(* same id and no move of HEAD ever touches it.                            *)
(***************************************************************************)
ReportedIntact ==
  \A p \in Reported :
    \/ dir[rid[p]] = p /\ \A f \in Files : content[p][f] = src[p]
    \/ dir[rid[p]] = None /\ rid[p] \in history

(***************************************************************************)
(* "A review_id is permanently consumed": two invocations never both       *)
(* return a descriptor for one id, whatever was retried, committed and     *)
(* deleted between them.                                                   *)
(***************************************************************************)
OneBindingPerId ==
  \A p, q \in Reported : rid[p] = rid[q] => p = q

(***************************************************************************)
(* An invocation that ends with a plain error left nothing behind, on the  *)
(* medium included: only "residual snapshot may remain" may leave files.   *)
(***************************************************************************)
FailureLeavesNothing ==
  \A p \in Procs : pc[p] = "failed" => dir[rid[p]] # p /\ linked[rid[p]] # p

(***************************************************************************)
(* What a power failure can take of a snapshot whose descriptor has been   *)
(* printed.  Everything in inputs is durable: the bytes of every file, the *)
(* names of the files, the entry of the directory.  So is the entry of     *)
(* inputs in reviews/legal, on which all of them rest, if this invocation  *)
(* made inputs; if it found inputs there, nobody fsyncs reviews/legal      *)
(* again, and the entry may be missing, but only when the one that made it *)
(* is still about to, failed or died before, or came before all of these.  *)
(***************************************************************************)
InputsEntry(p) ==
  \/ inputsDir \in {Fsynced, Earlier}
  \/ inputsDir \in Procs \ {p} /\ pc[inputsDir] \in {"syncinputs", "failed", "crashed"}

ReportedDurable ==
  \A p \in Reported :
    dir[rid[p]] = p =>
      /\ linked[rid[p]] = p /\ named[p] = Files /\ synced[p] = Files
      /\ InputsEntry(p)

(***************************************************************************)
(* A completed record that exists before the invocation's last look at it  *)
(* wins: that invocation does not return a descriptor any more.            *)
(***************************************************************************)
RecordWins ==
  \A p \in Procs :
    [](rid[p] \in records /\ pc[p] \notin {"verify"} \cup Terminal
         => [](pc[p] # "reported"))

(***************************************************************************)
(* Invocations that hinder one another (an inputs directory made in the    *)
(* meantime, another's untracked files) never hinder all of them: with no  *)
(* fault and no maintainer act, one that names HEAD as its source reports. *)
(***************************************************************************)
SomeoneReports ==
  (\A p \in Procs : src[p] = head) => <>(Reported # {} \/ faults > 0)

(***************************************************************************)
(* The registry this implements: an id is bound to the commit whose bytes  *)
(* were frozen under it when the descriptor is returned.                   *)
(***************************************************************************)
Binding(i) ==
  IF \E p \in Reported : rid[p] = i
    THEN frozen[CHOOSE p \in Reported : rid[p] = i]
    ELSE Absent

Registry == INSTANCE ReviewRegistry WITH
  Unbound <- Absent,
  binding <- [i \in Ids |-> Binding(i)],
  outcome <- [p \in Procs |-> IF pc[p] = "reported" THEN "won"
                             ELSE IF pc[p] \in Terminal THEN "lost" ELSE "open"],
  wants   <- [p \in Procs |-> [id |-> rid[p], commit |-> src[p]]]

ImplementsRegistry == Registry!RegSpec
=============================================================================
