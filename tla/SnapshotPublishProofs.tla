----------------------- MODULE SnapshotPublishProofs -----------------------
(***************************************************************************)
(* Proofs about SnapshotPublish, for any number of invocations, ids,       *)
(* commits, frozen files and faults.                                       *)
(*                                                                         *)
(* The argument: mkdir of the target is the only way to become the owner   *)
(* of a path, it fails when the path exists, and the owner gives the path  *)
(* up only in its own rollback.  Hence the directory an invocation writes, *)
(* verifies or removes is the one it made.                                 *)
(***************************************************************************)
EXTENDS SnapshotPublish, TLAPS

Early == {"check", "head", "status", "read", "inputs", "mkinputs",
          "syncinputs", "recheck", "mkdir"}

AfterRead == {"inputs", "mkinputs", "syncinputs", "recheck", "mkdir"}
               \cup Writing \cup {"postcheck", "verify", "reported"}

(***************************************************************************)
(* A path is held by the invocation that made the directory there, and an  *)
(* invocation that believes it holds its path does.                        *)
(***************************************************************************)
HoldersOwn == \A p \in Procs : pc[p] \in Holding => dir[rid[p]] = p

DirOwner ==
  \A i \in Ids : dir[i] # None =>
    /\ rid[dir[i]] = i
    /\ pc[dir[i]] \in Holding \cup {"reported", "crashed", "residual"}

(***************************************************************************)
(* A durable entry belongs to an invocation that got past its mkdir and    *)
(* did not end with a plain error.                                         *)
(***************************************************************************)
LinkOwner ==
  \A i \in Ids : linked[i] # None =>
    /\ rid[linked[i]] = i
    /\ pc[linked[i]] \in Holding \cup {"syncremoved", "reported", "crashed", "residual"}

FrozenSource == \A p \in Procs : pc[p] \in AfterRead => frozen[p] = src[p]

(***************************************************************************)
(* How far the snapshot of a writing invocation has come.                  *)
(***************************************************************************)
Progress ==
  \A p \in Procs :
    /\ pc[p] \in Early => todo[p] = Files
    /\ pc[p] \in {"flush", "readback"} => at[p] = p /\ cur[p] \in Files
    /\ pc[p] = "readback" => cur[p] \in synced[p]
    /\ pc[p] \in Writing \cup {"postcheck", "verify", "reported"} =>
         /\ \A f \in Files \ todo[p] : content[p][f] = frozen[p]
         /\ Files \ todo[p] \subseteq synced[p]
    /\ pc[p] = "flush" => cur[p] \in todo[p]
    /\ pc[p] \in {"synctarget", "syncparent", "postcheck", "verify", "reported"} =>
         todo[p] = {}
    /\ pc[p] \in {"syncparent", "postcheck", "verify", "reported"} => named[p] = Files
    /\ pc[p] \in {"postcheck", "verify"} => linked[rid[p]] = p

(***************************************************************************)
(* A reported snapshot is in place, or was committed and deleted while no  *)
(* invocation for its id was past the consumption check.                   *)
(***************************************************************************)
Retired(i) ==
  /\ dir[i] = None
  /\ i \in history
  /\ \A q \in Procs : rid[q] = i => pc[q] \notin Mid

ReportedPlace ==
  \A p \in Reported :
    \/ dir[rid[p]] = p /\ linked[rid[p]] = p
    \/ Retired(rid[p])

IInv ==
  /\ TypeOK
  /\ HoldersOwn
  /\ DirOwner
  /\ LinkOwner
  /\ FrozenSource
  /\ Progress
  /\ ReportedPlace
  /\ OneBindingPerId

-----------------------------------------------------------------------------
(***************************************************************************)
(* Going to a declared phase keeps pc typed.                               *)
(***************************************************************************)
LEMMA GotoType ==
  ASSUME pc \in [Procs -> Phases], NEW p \in Procs, NEW from, NEW to \in Phases,
         Goto(p, from, to)
  PROVE  pc' \in [Procs -> Phases]
BY DEF Goto

(***************************************************************************)
(* Every step keeps every variable in its set.                             *)
(***************************************************************************)
LEMMA TypeStep == IInv /\ [Next]_vars => TypeOK'
<1> SUFFICES ASSUME IInv, [Next]_vars PROVE TypeOK'
  OBVIOUS
<1>b. TypeOK /\ Progress
  BY DEF IInv
<1> USE <1>b, FaultsAssumption DEF TypeOK, Contents, args, work, disk, repo
<1>a. {"check", "head", "status", "read", "inputs", "mkinputs", "syncinputs",
       "recheck", "mkdir", "write", "flush", "readback", "synctarget",
       "syncparent", "postcheck", "verify", "rollback", "syncremoved",
       "reported", "failed", "residual", "crashed"} = Phases
  BY DEF Phases, Mid, Holding, Writing, Terminal

<1>1. ASSUME NEW p \in Procs, CheckConsumed(p)
      PROVE  TypeOK'
  BY <1>1, <1>a, GotoType DEF CheckConsumed
<1>2. ASSUME NEW p \in Procs, RequireHead(p)
      PROVE  TypeOK'
  BY <1>2, <1>a, GotoType DEF RequireHead
<1>3. ASSUME NEW p \in Procs, RequireClean(p)
      PROVE  TypeOK'
  BY <1>3, <1>a, GotoType DEF RequireClean
<1>4. ASSUME NEW p \in Procs, ReadBlobs(p)
      PROVE  TypeOK'
  <2>1. pc' \in [Procs -> Phases]
    BY <1>4, <1>a, GotoType DEF ReadBlobs, Fault
  <2>2. faults' \in Nat
    BY <1>4 DEF ReadBlobs, Fault
  <2>3. frozen' \in [Procs -> Commits \cup {Absent}]
    BY <1>4 DEF ReadBlobs, Target
  <2> QED
    BY <1>4, <2>1, <2>2, <2>3 DEF ReadBlobs
<1>5. ASSUME NEW p \in Procs, EnsureInputs(p)
      PROVE  TypeOK'
  BY <1>5, <1>a, GotoType DEF EnsureInputs
<1>6. ASSUME NEW p \in Procs, MkInputs(p)
      PROVE  TypeOK'
  <2>1. pc' \in [Procs -> Phases]
    BY <1>6, <1>a, GotoType DEF MkInputs, Fault
  <2>2. faults' \in Nat
    BY <1>6 DEF MkInputs, Fault
  <2>3. inputsDir' \in Procs \cup {None, Earlier, Fsynced}
    BY <1>6 DEF MkInputs, Target
  <2> QED
    BY <1>6, <2>1, <2>2, <2>3 DEF MkInputs
<1>7. ASSUME NEW p \in Procs, SyncInputs(p)
      PROVE  TypeOK'
  <2>1. pc' \in [Procs -> Phases]
    BY <1>7, <1>a, GotoType DEF SyncInputs, Fault
  <2>2. faults' \in Nat
    BY <1>7 DEF SyncInputs, Fault
  <2>3. inputsDir' \in Procs \cup {None, Earlier, Fsynced}
    BY <1>7 DEF SyncInputs
  <2> QED
    BY <1>7, <2>1, <2>2, <2>3 DEF SyncInputs
<1>8. ASSUME NEW p \in Procs, Recheck(p)
      PROVE  TypeOK'
  BY <1>8, <1>a, GotoType DEF Recheck
<1>9. ASSUME NEW p \in Procs, MkdirTarget(p)
      PROVE  TypeOK'
  <2>1. pc' \in [Procs -> Phases]
    BY <1>9, <1>a, GotoType DEF MkdirTarget, Fault
  <2>2. faults' \in Nat
    BY <1>9 DEF MkdirTarget, Fault
  <2>3. dir' \in [Ids -> Procs \cup {None}]
    BY <1>9 DEF MkdirTarget, Target
  <2> QED
    BY <1>9, <2>1, <2>2, <2>3 DEF MkdirTarget
<1>10. ASSUME NEW p \in Procs, NEW f \in Files, CreateFile(p, f)
      PROVE  TypeOK'
  <2>1. pc' \in [Procs -> Phases]
    BY <1>10, <1>a, GotoType DEF CreateFile, Fault
  <2>2. faults' \in Nat
    BY <1>10 DEF CreateFile, Fault
  <2>3. content' \in [Procs -> [Files -> Contents]]
    <3>1. \/ content' = content
          \/ \E q \in Procs : content' = [content EXCEPT ![q][f] = Partial]
      BY <1>10 DEF CreateFile, Target
    <3>2. \A q \in Procs : [content[q] EXCEPT ![f] = Partial] \in [Files -> Contents]
      OBVIOUS
    <3> QED
      BY <3>1, <3>2
  <2>4. cur' \in [Procs -> Files \cup {Absent}]
    BY <1>10 DEF CreateFile, Target
  <2>5. at' \in [Procs -> Procs \cup {None}]
    BY <1>10 DEF CreateFile, Target
  <2> QED
    BY <1>10, <2>1, <2>2, <2>3, <2>4, <2>5 DEF CreateFile
<1>11. ASSUME NEW p \in Procs, WriteFile(p)
      PROVE  TypeOK'
  <2>1. pc' \in [Procs -> Phases]
    BY <1>11, <1>a, GotoType DEF WriteFile, Fault
  <2>2. faults' \in Nat
    BY <1>11 DEF WriteFile, Fault
  <2>3. content' \in [Procs -> [Files -> Contents]]
    <3>1. at[p] = p /\ cur[p] \in Files
      BY <1>11 DEF WriteFile, Progress, Goto, Fault
    <3>2. \/ content' = content
          \/ content' = [content EXCEPT ![p][cur[p]] = frozen[p]]
      BY <1>11, <3>1 DEF WriteFile
    <3>3. [content[p] EXCEPT ![cur[p]] = frozen[p]] \in [Files -> Contents]
      BY <3>1
    <3> QED
      BY <3>2, <3>3
  <2>4. synced' \in [Procs -> SUBSET Files]
    BY <1>11 DEF WriteFile, Progress, Goto, Fault
  <2> QED
    BY <1>11, <2>1, <2>2, <2>3, <2>4 DEF WriteFile
<1>12. ASSUME NEW p \in Procs, ReadBack(p)
      PROVE  TypeOK'
  <2>1. pc' \in [Procs -> Phases]
    BY <1>12, <1>a, GotoType DEF ReadBack, Fault
  <2>2. faults' \in Nat
    BY <1>12 DEF ReadBack, Fault
  <2>3. todo' \in [Procs -> SUBSET Files]
    BY <1>12 DEF ReadBack, Target
  <2> QED
    BY <1>12, <2>1, <2>2, <2>3 DEF ReadBack
<1>13. ASSUME NEW p \in Procs, SyncTarget(p)
      PROVE  TypeOK'
  <2>1. pc' \in [Procs -> Phases]
    BY <1>13, <1>a, GotoType DEF SyncTarget, Fault
  <2>2. faults' \in Nat
    BY <1>13 DEF SyncTarget, Fault
  <2>3. named' \in [Procs -> SUBSET Files]
    BY <1>13 DEF SyncTarget, Listed, Target
  <2> QED
    BY <1>13, <2>1, <2>2, <2>3 DEF SyncTarget
<1>14. ASSUME NEW p \in Procs, SyncParent(p)
      PROVE  TypeOK'
  <2>1. pc' \in [Procs -> Phases]
    BY <1>14, <1>a, GotoType DEF SyncParent, Fault
  <2>2. faults' \in Nat
    BY <1>14 DEF SyncParent, Fault
  <2>3. linked' \in [Ids -> Procs \cup {None}]
    BY <1>14 DEF SyncParent, Target
  <2> QED
    BY <1>14, <2>1, <2>2, <2>3 DEF SyncParent
<1>15. ASSUME NEW p \in Procs, PostCheck(p)
      PROVE  TypeOK'
  BY <1>15, <1>a, GotoType DEF PostCheck
<1>16. ASSUME NEW p \in Procs, Verify(p)
      PROVE  TypeOK'
  <2>1. pc' \in [Procs -> Phases]
    BY <1>16, <1>a, GotoType DEF Verify, Fault
  <2>2. faults' \in Nat
    BY <1>16 DEF Verify, Fault
  <2> QED
    BY <1>16, <2>1, <2>2 DEF Verify
<1>17. ASSUME NEW p \in Procs, NEW f \in Files, RmFile(p, f)
      PROVE  TypeOK'
  <2>1. pc' \in [Procs -> Phases]
    BY <1>17, <1>a, GotoType DEF RmFile, Fault
  <2>2. faults' \in Nat
    BY <1>17 DEF RmFile, Fault
  <2>3. content' \in [Procs -> [Files -> Contents]]
    BY <1>17 DEF RmFile, Target, Listed, Bytes
  <2> QED
    BY <1>17, <2>1, <2>2, <2>3 DEF RmFile
<1>18. ASSUME NEW p \in Procs, RmTarget(p)
      PROVE  TypeOK'
  <2>1. pc' \in [Procs -> Phases]
    BY <1>18, <1>a, GotoType DEF RmTarget, Fault
  <2>2. faults' \in Nat
    BY <1>18 DEF RmTarget, Fault
  <2>3. dir' \in [Ids -> Procs \cup {None}]
    BY <1>18 DEF RmTarget, Target
  <2> QED
    BY <1>18, <2>1, <2>2, <2>3 DEF RmTarget
<1>19. ASSUME NEW p \in Procs, SyncRemoved(p)
      PROVE  TypeOK'
  <2>1. pc' \in [Procs -> Phases]
    BY <1>19, <1>a, GotoType DEF SyncRemoved, Fault
  <2>2. faults' \in Nat
    BY <1>19 DEF SyncRemoved, Fault
  <2>3. linked' \in [Ids -> Procs \cup {None}]
    BY <1>19 DEF SyncRemoved, Target
  <2> QED
    BY <1>19, <2>1, <2>2, <2>3 DEF SyncRemoved
<1>20. ASSUME NEW p \in Procs, Crash(p)
      PROVE  TypeOK'
  BY <1>20, <1>a DEF Crash, Disturb
<1>21. ASSUME NEW c \in Commits, MoveHead(c)
      PROVE  TypeOK'
  BY <1>21 DEF MoveHead, Disturb
<1>22. ASSUME NEW i \in Ids, NEW c \in Commits, RecordAppears(i, c)
      PROVE  TypeOK'
  BY <1>22 DEF RecordAppears, Disturb
<1>23. ASSUME NEW i \in Ids, NEW c \in Commits, CommitSnapshot(i, c)
      PROVE  TypeOK'
  BY <1>23 DEF CommitSnapshot, Disturb
<1>24. ASSUME NEW i \in Ids, NEW c \in Commits, DeleteCommitted(i, c)
      PROVE  TypeOK'
  BY <1>24 DEF DeleteCommitted, Disturb
<1>25. ASSUME NEW i \in Ids, RemoveResidual(i)
      PROVE  TypeOK'
  BY <1>25 DEF RemoveResidual, Disturb
<1>26. CASE UNCHANGED vars
  BY <1>26 DEF vars
<1> QED
  BY <1>1, <1>2, <1>3, <1>4, <1>5, <1>6, <1>7, <1>8, <1>9, <1>10, <1>11, <1>12,
     <1>13, <1>14, <1>15, <1>16, <1>17, <1>18, <1>19, <1>20, <1>21, <1>22, <1>23, <1>24, <1>25, <1>26
     DEF Next, Step, Environment

-----------------------------------------------------------------------------
(***************************************************************************)
(* The checks before publication touch no directory: they only move the    *)
(* invocation, among phases in which it owns nothing.                      *)
(***************************************************************************)
EarlyStep(p) ==
  \/ CheckConsumed(p)
  \/ RequireHead(p)
  \/ RequireClean(p)
  \/ ReadBlobs(p)
  \/ EnsureInputs(p)
  \/ MkInputs(p)
  \/ SyncInputs(p)
  \/ Recheck(p)

(***************************************************************************)
(* A step before publication touches no directory and no ownership, so     *)
(* that everything established of those that are writing stands.           *)
(***************************************************************************)
LEMMA EarlyStepInv ==
  ASSUME IInv, TypeOK', NEW p \in Procs, EarlyStep(p)
  PROVE  IInv'
<1> USE DEF IInv
<1>1. UNCHANGED <<rid, src, todo, cur, at, dir, content, synced, named, linked,
                  records, history>>
  BY DEF EarlyStep, CheckConsumed, RequireHead, RequireClean, ReadBlobs,
         EnsureInputs, MkInputs, SyncInputs, Recheck, args, work, disk, repo
<1>2. \E x \in Early \cup {"failed"} :
        /\ pc[p] \in Early
        /\ pc' = [pc EXCEPT ![p] = x]
        /\ x \in AfterRead => frozen'[p] = src[p]
        /\ x \in Mid => pc[p] \in Mid \/ rid[p] \notin history
        /\ \A q \in Procs : q # p => frozen'[q] = frozen[q]
  <2> USE DEF TypeOK, FrozenSource, Goto, Fault, Early, AfterRead, Mid, Holding,
              Writing, work
  <2>1. CASE CheckConsumed(p)
    BY <2>1 DEF CheckConsumed
  <2>2. CASE RequireHead(p)
    BY <2>2 DEF RequireHead
  <2>3. CASE RequireClean(p)
    BY <2>3 DEF RequireClean
  <2>4. CASE ReadBlobs(p)
    BY <2>4 DEF ReadBlobs
  <2>5. CASE EnsureInputs(p)
    BY <2>5 DEF EnsureInputs
  <2>6. CASE MkInputs(p)
    BY <2>6 DEF MkInputs
  <2>7. CASE SyncInputs(p)
    BY <2>7 DEF SyncInputs
  <2>8. CASE Recheck(p)
    BY <2>8 DEF Recheck
  <2> QED
    BY <2>1, <2>2, <2>3, <2>4, <2>5, <2>6, <2>7, <2>8 DEF EarlyStep
<1>3. PICK x \in Early \cup {"failed"} :
        /\ pc[p] \in Early
        /\ pc' = [pc EXCEPT ![p] = x]
        /\ x \in AfterRead => frozen'[p] = src[p]
        /\ x \in Mid => pc[p] \in Mid \/ rid[p] \notin history
        /\ \A q \in Procs : q # p => frozen'[q] = frozen[q]
  BY <1>2
<1> USE <1>1, <1>3, NoneAssumption DEF TypeOK, Early, Holding, Writing
<1>4. HoldersOwn'
  BY DEF HoldersOwn
<1>5. DirOwner'
  BY DEF DirOwner
<1>6. LinkOwner'
  BY DEF LinkOwner
<1>7. FrozenSource'
  BY DEF FrozenSource
<1>8. Progress'
  BY DEF Progress, Early
<1>9. ReportedPlace'
  BY DEF ReportedPlace, Reported, Retired, Mid
<1>10. OneBindingPerId'
  BY DEF OneBindingPerId, Reported
<1> QED
  BY <1>4, <1>5, <1>6, <1>7, <1>8, <1>9, <1>10

(***************************************************************************)
(* An invocation that owns its path moves on: it still owns it, and nobody *)
(* else's ownership is touched.                                            *)
(***************************************************************************)
LEMMA OwnerMoves ==
  ASSUME IInv, NEW p \in Procs, pc[p] \in Holding,
         NEW x \in Holding \cup {"reported", "crashed", "residual"},
         pc' = [pc EXCEPT ![p] = x], UNCHANGED <<rid, dir>>
  PROVE  /\ HoldersOwn'
         /\ DirOwner'
         /\ linked' \in {linked, dir} => LinkOwner'
<1> USE NoneAssumption DEF IInv, TypeOK, Holding, Writing
<1>1. HoldersOwn'
  BY DEF HoldersOwn
<1>2. DirOwner'
  BY DEF DirOwner
<1>3. ASSUME linked' \in {linked, dir} PROVE LinkOwner'
  <2>1. CASE linked' = linked
    BY <2>1 DEF LinkOwner
  <2>2. CASE linked' = dir
    BY <2>2, <1>2 DEF LinkOwner, DirOwner
  <2> QED
    BY <1>3, <2>1, <2>2
<1> QED
  BY <1>1, <1>2, <1>3

(***************************************************************************)
(* While p owns its path nothing for its id has been reported.             *)
(***************************************************************************)
LEMMA OwnerIsAlone ==
  ASSUME IInv, NEW p \in Procs, pc[p] \in Mid, NEW q \in Reported, rid[q] = rid[p]
  PROVE  dir[rid[p]] = q /\ q # p /\ pc[p] \notin Holding
BY DEF IInv, TypeOK, ReportedPlace, Retired, Reported, HoldersOwn, Mid, Holding, Writing

(***************************************************************************)
(* mkdir of the target makes its caller the one owner of the path; where   *)
(* it fails the caller owns nothing and removes nothing.                   *)
(***************************************************************************)
LEMMA MkdirTargetInv ==
  ASSUME IInv, TypeOK', NEW p \in Procs, MkdirTarget(p)
  PROVE  IInv'
<1> USE NoneAssumption DEF IInv, TypeOK, Holding, Writing
<1>1. UNCHANGED <<rid, src, frozen, todo, cur, at, content, synced, named, linked, history>>
  BY DEF MkdirTarget, args, work, repo
<1>2. CASE pc[p] = "mkdir" /\ pc' = [pc EXCEPT ![p] = "failed"] /\ UNCHANGED dir
  <2> USE <1>1, <1>2
  <2>1. HoldersOwn' /\ FrozenSource' /\ OneBindingPerId'
    BY DEF HoldersOwn, FrozenSource, OneBindingPerId, Reported, AfterRead
  <2>2. DirOwner'
    BY DEF DirOwner
  <2>3. LinkOwner'
    BY DEF LinkOwner
  <2>4. Progress'
    BY DEF Progress, Early
  <2>5. ReportedPlace'
    BY DEF ReportedPlace, Retired, Reported, Mid
  <2> QED
    BY <2>1, <2>2, <2>3, <2>4, <2>5
<1>3. CASE /\ pc[p] = "mkdir" /\ pc' = [pc EXCEPT ![p] = "write"]
           /\ dir[rid[p]] = None /\ dir' = [dir EXCEPT ![rid[p]] = p]
  <2> USE <1>1, <1>3
  <2>1. HoldersOwn' /\ FrozenSource' /\ OneBindingPerId'
    BY DEF HoldersOwn, FrozenSource, OneBindingPerId, Reported, AfterRead
  <2>2. DirOwner'
    BY DEF DirOwner
  <2>3. LinkOwner'
    BY DEF LinkOwner
  <2>4. Progress'
    BY DEF Progress, Early
  <2>5. ReportedPlace'
    BY OwnerIsAlone DEF ReportedPlace, Retired, Reported, Mid
  <2> QED
    BY <2>1, <2>2, <2>3, <2>4, <2>5
<1> QED
  BY <1>2, <1>3 DEF MkdirTarget, Goto, Fault, Target

(***************************************************************************)
(* Writing.  Each lemma needs only Progress of its own: ownership follows  *)
(* from OwnerMoves, and what is reported lies elsewhere.                   *)
(***************************************************************************)
LEMMA CreateFileInv ==
  ASSUME IInv, TypeOK', NEW p \in Procs, NEW f \in Files, CreateFile(p, f)
  PROVE  IInv'
<1> USE DEF IInv, TypeOK
<1>1. /\ UNCHANGED <<rid, src, frozen, todo, dir, synced, named, linked, history>>
      /\ pc[p] = "write" /\ Target(p) = p
  BY DEF CreateFile, args, repo, Goto, Fault, HoldersOwn, Holding, Writing, Target
<1>2. PICK x \in {"flush", "rollback"} : pc' = [pc EXCEPT ![p] = x]
  BY DEF CreateFile, Goto, Fault
<1>3. HoldersOwn' /\ DirOwner' /\ LinkOwner'
  BY <1>1, <1>2, OwnerMoves DEF Holding, Writing
<1> USE <1>1, <1>2 DEF Holding, Writing
<1>4. FrozenSource' /\ OneBindingPerId'
  BY DEF FrozenSource, AfterRead, OneBindingPerId, Reported
<1>5. ReportedPlace'
  BY DEF ReportedPlace, Retired, Reported, Mid
<1>6. CASE x = "rollback"
  <2>1. Progress'
    BY <1>6 DEF Progress, Early, CreateFile, Goto, Fault
  <2> QED
    BY <1>3, <1>4, <1>5, <2>1
<1>7. CASE x = "flush"
  <2>1. /\ f \in todo[p]
        /\ content' = [content EXCEPT ![p][f] = Partial]
        /\ cur' = [cur EXCEPT ![p] = f]
        /\ at' = [at EXCEPT ![p] = p]
    BY <1>7 DEF CreateFile, Goto, Fault
  <2>2. Progress'
    BY <1>7, <2>1 DEF Progress, Early
  <2> QED
    BY <1>3, <1>4, <1>5, <2>2
<1> QED
  BY <1>6, <1>7

(***************************************************************************)
(* Writing the open file, which is in the writer's own directory, disturbs *)
(* no other invocation and no reported snapshot.                           *)
(***************************************************************************)
LEMMA WriteFileInv ==
  ASSUME IInv, TypeOK', NEW p \in Procs, WriteFile(p)
  PROVE  IInv'
<1> USE DEF IInv, TypeOK
<1>1. /\ UNCHANGED <<rid, src, frozen, todo, cur, at, dir, named, linked, history>>
      /\ pc[p] = "flush" /\ at[p] = p /\ cur[p] \in todo[p]
  BY DEF WriteFile, args, work, repo, Goto, Fault, Progress
<1>2. PICK x \in {"readback", "rollback"} : pc' = [pc EXCEPT ![p] = x]
  BY DEF WriteFile, Goto, Fault
<1>3. HoldersOwn' /\ DirOwner' /\ LinkOwner'
  BY <1>1, <1>2, OwnerMoves DEF Holding, Writing
<1> USE <1>1, <1>2 DEF Holding, Writing
<1>4. FrozenSource' /\ OneBindingPerId'
  BY DEF FrozenSource, AfterRead, OneBindingPerId, Reported
<1>5. ReportedPlace'
  BY DEF ReportedPlace, Retired, Reported, Mid
<1>6. /\ \/ content' = content
         \/ content' = [content EXCEPT ![p][cur[p]] = frozen[p]]
      /\ \/ synced' = synced /\ x = "rollback"
         \/ synced' = [synced EXCEPT ![p] = @ \cup {cur[p]}]
  BY DEF WriteFile, Goto, Fault
<1>7. Progress'
  BY <1>6 DEF Progress, Early
<1> QED
  BY <1>3, <1>4, <1>5, <1>7

(***************************************************************************)
(* The read-back passes only over the bytes written; a failure starts the  *)
(* rollback of the owner's own directory.                                  *)
(***************************************************************************)
LEMMA ReadBackInv ==
  ASSUME IInv, TypeOK', NEW p \in Procs, ReadBack(p)
  PROVE  IInv'
<1> USE NoneAssumption DEF IInv, TypeOK
<1>1. /\ UNCHANGED <<rid, src, frozen, cur, at, dir, content, synced, named, linked, history>>
      /\ pc[p] = "readback" /\ Target(p) = p
  BY DEF ReadBack, args, disk, repo, HoldersOwn, Holding, Writing, Target
<1>2. PICK x \in {"write", "synctarget", "rollback"} : pc' = [pc EXCEPT ![p] = x]
  BY DEF ReadBack, Goto, Fault
<1>3. HoldersOwn' /\ DirOwner' /\ LinkOwner'
  BY <1>1, <1>2, OwnerMoves DEF Holding, Writing
<1> USE <1>1, <1>2 DEF Holding, Writing
<1>4. FrozenSource' /\ OneBindingPerId'
  BY DEF FrozenSource, AfterRead, OneBindingPerId, Reported
<1>5. ReportedPlace'
  BY DEF ReportedPlace, Retired, Reported, Mid
<1>6. \/ x = "rollback" /\ todo' = todo
      \/ /\ content[p][cur[p]] = frozen[p]
         /\ todo' = [todo EXCEPT ![p] = @ \ {cur[p]}]
         /\ x = "synctarget" => todo[p] = {cur[p]}
  BY DEF ReadBack, Goto, Fault, Bytes, Target
<1>7. Progress'
  BY <1>6 DEF Progress, Early
<1> QED
  BY <1>3, <1>4, <1>5, <1>7

(***************************************************************************)
(* fsync of the directory makes the entries of its finished files durable. *)
(***************************************************************************)
LEMMA SyncTargetInv ==
  ASSUME IInv, TypeOK', NEW p \in Procs, SyncTarget(p)
  PROVE  IInv'
<1> USE NoneAssumption, ContentAssumption DEF IInv, TypeOK
<1>1. /\ UNCHANGED <<rid, src, frozen, todo, cur, at, dir, content, synced, linked, history>>
      /\ pc[p] = "synctarget" /\ Target(p) = p
  BY DEF SyncTarget, args, work, repo, Goto, Fault, HoldersOwn, Holding, Writing, Target
<1>2. PICK x \in {"syncparent", "rollback"} : pc' = [pc EXCEPT ![p] = x]
  BY DEF SyncTarget, Goto, Fault
<1>3. HoldersOwn' /\ DirOwner' /\ LinkOwner'
  BY <1>1, <1>2, OwnerMoves DEF Holding, Writing
<1> USE <1>1, <1>2 DEF Holding, Writing
<1>4. FrozenSource' /\ OneBindingPerId'
  BY DEF FrozenSource, AfterRead, OneBindingPerId, Reported
<1>5. ReportedPlace'
  BY DEF ReportedPlace, Retired, Reported, Mid
<1>6. Listed(rid[p]) = Files
  <2>1. todo[p] = {} /\ frozen[p] = src[p]
    BY DEF Progress, FrozenSource, AfterRead
  <2>2. \A f \in Files : content[p][f] # Absent
    BY <2>1 DEF Progress
  <2> QED
    BY <2>2 DEF Listed, Bytes, Target
<1>7. \/ x = "rollback" /\ named' = named
      \/ named' = [named EXCEPT ![p] = Files]
  BY <1>6 DEF SyncTarget, Goto, Fault
<1>8. Progress'
  BY <1>7 DEF Progress, Early
<1> QED
  BY <1>3, <1>4, <1>5, <1>8

(***************************************************************************)
(* fsync of the parent makes the entry of the owner's directory durable.   *)
(***************************************************************************)
LEMMA SyncParentInv ==
  ASSUME IInv, TypeOK', NEW p \in Procs, SyncParent(p)
  PROVE  IInv'
<1> USE NoneAssumption DEF IInv, TypeOK
<1>1. /\ UNCHANGED <<rid, src, frozen, todo, cur, at, dir, content, synced, named, history>>
      /\ pc[p] = "syncparent"
  BY DEF SyncParent, args, work, repo, Goto, Fault
<1>2. PICK x \in {"postcheck", "rollback"} :
        /\ pc' = [pc EXCEPT ![p] = x]
        /\ (x = "postcheck" /\ linked' = dir) \/ (x = "rollback" /\ linked' = linked)
  <2>1. CASE pc' = [pc EXCEPT ![p] = "postcheck"] /\ linked' = dir
    BY <2>1
  <2>2. CASE pc' = [pc EXCEPT ![p] = "rollback"] /\ linked' = linked
    BY <2>2
  <2> QED
    BY <2>1, <2>2 DEF SyncParent, Goto, Fault
<1>3. HoldersOwn' /\ DirOwner' /\ LinkOwner'
  BY <1>1, <1>2, OwnerMoves DEF Holding, Writing
<1> USE <1>1, <1>2 DEF Holding, Writing
<1>4. FrozenSource' /\ OneBindingPerId'
  BY DEF FrozenSource, AfterRead, OneBindingPerId, Reported
<1>5. ReportedPlace'
  BY DEF ReportedPlace, Retired, Reported, Mid
<1>6. Progress'
  BY DEF Progress, HoldersOwn, Early
<1> QED
  BY <1>3, <1>4, <1>5, <1>6

(***************************************************************************)
(* The last look for a record changes no file; it leads on to the report   *)
(* or to the rollback.                                                     *)
(***************************************************************************)
LEMMA PostCheckInv ==
  ASSUME IInv, TypeOK', NEW p \in Procs, PostCheck(p)
  PROVE  IInv'
<1> USE DEF IInv, TypeOK
<1>1. /\ UNCHANGED <<rid, src, frozen, todo, cur, at, dir, content, synced, named,
                     linked, history>>
      /\ pc[p] = "postcheck"
  BY DEF PostCheck, args, work, disk, repo, Goto
<1>2. PICK x \in {"verify", "rollback"} : pc' = [pc EXCEPT ![p] = x]
  BY DEF PostCheck, Goto
<1>3. HoldersOwn' /\ DirOwner' /\ LinkOwner'
  BY <1>1, <1>2, OwnerMoves DEF Holding, Writing
<1> USE <1>1, <1>2 DEF Holding, Writing
<1>4. FrozenSource' /\ OneBindingPerId'
  BY DEF FrozenSource, AfterRead, OneBindingPerId, Reported
<1>5. ReportedPlace'
  BY DEF ReportedPlace, Retired, Reported, Mid
<1>6. Progress'
  BY DEF Progress, Early
<1> QED
  BY <1>3, <1>4, <1>5, <1>6

(***************************************************************************)
(* The step that returns the descriptor: the path is p's own and nothing   *)
(* was reported for the id before.                                         *)
(***************************************************************************)
LEMMA VerifyInv ==
  ASSUME IInv, TypeOK', NEW p \in Procs, Verify(p)
  PROVE  IInv'
<1> USE DEF IInv, TypeOK
<1>1. /\ UNCHANGED <<rid, src, frozen, todo, cur, at, dir, content, synced, named,
                     linked, history>>
      /\ pc[p] = "verify"
  BY DEF Verify, args, work, disk, repo, Goto, Fault
<1>2. PICK x \in {"reported", "rollback"} : pc' = [pc EXCEPT ![p] = x]
  BY DEF Verify, Goto, Fault
<1>3. HoldersOwn' /\ DirOwner' /\ LinkOwner'
  BY <1>1, <1>2, OwnerMoves DEF Holding, Writing
<1>4. \A q \in Reported : rid[q] # rid[p]
  BY <1>1, OwnerIsAlone DEF Mid, Holding, Writing
<1> USE <1>1, <1>2 DEF Holding, Writing
<1>5. FrozenSource'
  BY DEF FrozenSource, AfterRead
<1>6. OneBindingPerId'
  BY <1>4 DEF OneBindingPerId, Reported
<1>7. ReportedPlace'
  BY DEF ReportedPlace, Retired, Reported, Mid, HoldersOwn, Progress
<1>8. Progress'
  BY DEF Progress, Early
<1> QED
  BY <1>3, <1>5, <1>6, <1>7, <1>8

-----------------------------------------------------------------------------
(***************************************************************************)
(* The rollback removes files of its own directory only.                   *)
(***************************************************************************)
LEMMA RmFileInv ==
  ASSUME IInv, TypeOK', NEW p \in Procs, NEW f \in Files, RmFile(p, f)
  PROVE  IInv'
<1> USE DEF IInv, TypeOK
<1>1. /\ UNCHANGED <<pc, rid, src, frozen, todo, cur, at, dir, synced, named, linked, history>>
      /\ pc[p] = "rollback"
      /\ content' = [content EXCEPT ![p][f] = Absent]
  BY DEF RmFile, args, work, repo, Goto, HoldersOwn, Holding, Target
<1> USE <1>1
<1>2. HoldersOwn' /\ DirOwner' /\ LinkOwner' /\ FrozenSource' /\ OneBindingPerId'
  BY DEF HoldersOwn, DirOwner, LinkOwner, FrozenSource, OneBindingPerId, Reported
<1>3. ReportedPlace'
  BY DEF ReportedPlace, Retired, Reported
<1>4. Progress'
  BY DEF Progress, Writing, Early
<1> QED
  BY <1>2, <1>3, <1>4

(***************************************************************************)
(* The rollback removes the directory at the path only while it is the     *)
(* caller's own, which nobody has reported.                                *)
(***************************************************************************)
LEMMA RmTargetInv ==
  ASSUME IInv, TypeOK', NEW p \in Procs, RmTarget(p)
  PROVE  IInv'
<1> USE NoneAssumption DEF IInv, TypeOK, Holding, Writing
<1>1. /\ UNCHANGED <<rid, src, frozen, todo, cur, at, content, synced, named, linked, history>>
      /\ pc[p] = "rollback" /\ dir[rid[p]] = p
  BY DEF RmTarget, args, work, repo, Goto, Fault, HoldersOwn
<1>2. PICK x \in {"syncremoved", "residual"} : pc' = [pc EXCEPT ![p] = x]
  BY DEF RmTarget, Goto, Fault
<1>3. \/ x = "syncremoved" /\ dir' = [dir EXCEPT ![rid[p]] = None]
      \/ x = "residual" /\ dir' = dir
  BY <1>1, <1>2 DEF RmTarget, Goto, Fault, Target
<1> USE <1>1, <1>2, <1>3
<1>4. HoldersOwn'
  BY DEF HoldersOwn
<1>5. DirOwner'
  BY DEF DirOwner
<1>6. LinkOwner'
  BY DEF LinkOwner
<1>7. FrozenSource' /\ OneBindingPerId'
  BY DEF FrozenSource, AfterRead, OneBindingPerId, Reported
<1>8. ReportedPlace'
  BY OwnerIsAlone DEF ReportedPlace, Retired, Reported, Mid
<1>9. Progress'
  BY DEF Progress, Early
<1> QED
  BY <1>4, <1>5, <1>6, <1>7, <1>8, <1>9

(***************************************************************************)
(* A plain failure is reported only after the fsync that makes the removal *)
(* durable.                                                                *)
(***************************************************************************)
LEMMA SyncRemovedInv ==
  ASSUME IInv, TypeOK', NEW p \in Procs, SyncRemoved(p)
  PROVE  IInv'
<1> USE NoneAssumption DEF IInv, TypeOK, Holding, Writing
<1>1. /\ UNCHANGED <<rid, src, frozen, todo, cur, at, dir, content, synced, named, history>>
      /\ pc[p] = "syncremoved"
  BY DEF SyncRemoved, args, work, repo, Goto, Fault
<1>2. PICK x \in {"failed", "residual"} :
        /\ pc' = [pc EXCEPT ![p] = x]
        /\ (x = "failed" /\ linked' = dir) \/ (x = "residual" /\ linked' = linked)
  <2>1. CASE pc' = [pc EXCEPT ![p] = "failed"] /\ linked' = dir
    BY <2>1
  <2>2. CASE pc' = [pc EXCEPT ![p] = "residual"] /\ linked' = linked
    BY <2>2
  <2> QED
    BY <2>1, <2>2 DEF SyncRemoved, Goto, Fault
<1> USE <1>1, <1>2
<1>3. HoldersOwn'
  BY DEF HoldersOwn
<1>4. DirOwner'
  BY DEF DirOwner
<1>5. LinkOwner'
  <2>1. CASE linked' = dir
    BY <2>1, <1>4 DEF LinkOwner, DirOwner
  <2>2. CASE x = "residual" /\ linked' = linked
    BY <2>2 DEF LinkOwner
  <2> QED
    BY <2>1, <2>2
<1>6. FrozenSource' /\ OneBindingPerId'
  BY DEF FrozenSource, AfterRead, OneBindingPerId, Reported
<1>7. ReportedPlace'
  BY DEF ReportedPlace, Retired, Reported, Mid
<1>8. Progress'
  BY DEF Progress, HoldersOwn, Early
<1> QED
  BY <1>3, <1>4, <1>5, <1>6, <1>7, <1>8

-----------------------------------------------------------------------------
(***************************************************************************)
(* A killed invocation leaves what is on disk as it is, and owns it no     *)
(* more.                                                                   *)
(***************************************************************************)
LEMMA CrashInv ==
  ASSUME IInv, TypeOK', NEW p \in Procs, Crash(p)
  PROVE  IInv'
<1> USE DEF IInv, TypeOK, Crash, args, work, disk, repo, Holding, Writing, Mid
<1>1. HoldersOwn'
  BY DEF HoldersOwn
<1>2. DirOwner'
  BY DEF DirOwner
<1>3. LinkOwner'
  BY DEF LinkOwner
<1>4. FrozenSource' /\ OneBindingPerId'
  BY DEF FrozenSource, AfterRead, OneBindingPerId, Reported
<1>5. ReportedPlace'
  BY DEF ReportedPlace, Retired, Reported
<1>6. Progress'
  BY DEF Progress, Early
<1> QED
  BY <1>1, <1>2, <1>3, <1>4, <1>5, <1>6

(***************************************************************************)
(* Commits and records of maintainers extend what the id is consumed by,   *)
(* and touch no directory.                                                 *)
(***************************************************************************)
LEMMA HistoryGrows ==
  ASSUME IInv, TypeOK', UNCHANGED <<pc, args, work, disk>>, history \subseteq history'
  PROVE  IInv'
<1> USE DEF IInv, TypeOK, args, work, disk
<1>2. HoldersOwn' /\ DirOwner' /\ LinkOwner' /\ FrozenSource' /\ OneBindingPerId'
  BY DEF HoldersOwn, DirOwner, LinkOwner, FrozenSource, OneBindingPerId, Reported
<1>3. Progress'
  BY DEF Progress, Early
<1>4. ReportedPlace'
  BY DEF ReportedPlace, Retired, Reported
<1> QED
  BY <1>2, <1>3, <1>4

(***************************************************************************)
(* A maintainer removes what a dead invocation left, or a directory whose  *)
(* id is in the history already: no live invocation loses its own.         *)
(***************************************************************************)
LEMMA RemovalInv ==
  ASSUME IInv, TypeOK', NEW i \in Ids,
         RemoveResidual(i) \/ \E c \in Commits : DeleteCommitted(i, c)
  PROVE  IInv'
<1> USE NoneAssumption DEF IInv, TypeOK, Holding, Writing
<1>1. /\ UNCHANGED <<pc, rid, src, frozen, todo, cur, at, content, synced, named, linked, history>>
      /\ dir[i] # None
      /\ dir' = [dir EXCEPT ![i] = None]
      /\ \/ pc[dir[i]] \in {"crashed", "residual"}
         \/ i \in history /\ \A p \in Procs : rid[p] = i => pc[p] \notin Mid
  BY DEF RemoveResidual, DeleteCommitted, args, work, repo
<1> USE <1>1
<1>2. HoldersOwn'
  BY DEF HoldersOwn, Mid
<1>3. DirOwner'
  BY DEF DirOwner
<1>4. LinkOwner' /\ FrozenSource' /\ OneBindingPerId'
  BY DEF LinkOwner, FrozenSource, OneBindingPerId, Reported
<1>5. Progress'
  BY DEF Progress, Early
<1>6. ReportedPlace'
  BY DEF ReportedPlace, Retired, Reported
<1> QED
  BY <1>2, <1>3, <1>4, <1>5, <1>6

-----------------------------------------------------------------------------
(***************************************************************************)
(* The initial states satisfy the inductive invariant.                     *)
(***************************************************************************)
LEMMA InitInv == Init => IInv
<1> SUFFICES ASSUME Init PROVE IInv
  OBVIOUS
<1>1. TypeOK
  BY FaultsAssumption DEF Init, TypeOK, Contents, Phases
<1>2. HoldersOwn /\ DirOwner /\ LinkOwner /\ FrozenSource /\ Progress
  BY DEF Init, Early, HoldersOwn, DirOwner, LinkOwner, FrozenSource, Progress, Holding,
         Writing, AfterRead
<1>3. ReportedPlace /\ OneBindingPerId
  BY DEF Init, ReportedPlace, OneBindingPerId, Reported
<1> QED
  BY <1>1, <1>2, <1>3 DEF IInv

(***************************************************************************)
(* A stuttering step preserves it.                                         *)
(***************************************************************************)
LEMMA StutterInv == IInv /\ UNCHANGED vars => IInv'
<1> SUFFICES ASSUME IInv, UNCHANGED vars PROVE IInv'
  OBVIOUS
<1> USE DEF IInv, vars, args, work, disk, repo
<1>1. TypeOK' /\ HoldersOwn' /\ DirOwner' /\ LinkOwner' /\ FrozenSource'
  BY DEF TypeOK, HoldersOwn, DirOwner, LinkOwner, FrozenSource
<1>2. Progress' /\ ReportedPlace' /\ OneBindingPerId'
  BY DEF Progress, ReportedPlace, Retired, OneBindingPerId, Reported
<1> QED
  BY <1>1, <1>2

(***************************************************************************)
(* Every step preserves it: one case per action.                           *)
(***************************************************************************)
LEMMA NextInv == IInv /\ [Next]_vars => IInv'
<1> SUFFICES ASSUME IInv, [Next]_vars PROVE IInv'
  OBVIOUS
<1>1. TypeOK'
  BY TypeStep
<1>2. ASSUME NEW p \in Procs, Step(p) PROVE IInv'
  <2>1. CASE EarlyStep(p)
    BY <1>1, <2>1, EarlyStepInv
  <2>2. CASE MkdirTarget(p)
    BY <1>1, <2>2, MkdirTargetInv
  <2>3. CASE \E f \in Files : CreateFile(p, f)
    BY <1>1, <2>3, CreateFileInv
  <2>4. CASE WriteFile(p)
    BY <1>1, <2>4, WriteFileInv
  <2>5. CASE ReadBack(p)
    BY <1>1, <2>5, ReadBackInv
  <2>6. CASE SyncTarget(p)
    BY <1>1, <2>6, SyncTargetInv
  <2>7. CASE SyncParent(p)
    BY <1>1, <2>7, SyncParentInv
  <2>8. CASE PostCheck(p)
    BY <1>1, <2>8, PostCheckInv
  <2>9. CASE Verify(p)
    BY <1>1, <2>9, VerifyInv
  <2>10. CASE \E f \in Files : RmFile(p, f)
    BY <1>1, <2>10, RmFileInv
  <2>11. CASE RmTarget(p)
    BY <1>1, <2>11, RmTargetInv
  <2>12. CASE SyncRemoved(p)
    BY <1>1, <2>12, SyncRemovedInv
  <2> QED
    BY <1>2, <2>1, <2>2, <2>3, <2>4, <2>5, <2>6, <2>7, <2>8, <2>9, <2>10, <2>11, <2>12
       DEF Step, EarlyStep
<1>3. ASSUME Environment PROVE IInv'
  <2>1. ASSUME NEW p \in Procs, Crash(p) PROVE IInv'
    BY <1>1, <2>1, CrashInv
  <2>2. ASSUME NEW c \in Commits, MoveHead(c) PROVE IInv'
    BY <1>1, <2>2, HistoryGrows DEF MoveHead
  <2>3. ASSUME NEW i \in Ids, NEW c \in Commits,
               RecordAppears(i, c) \/ CommitSnapshot(i, c)
        PROVE  IInv'
    BY <1>1, <2>3, HistoryGrows DEF RecordAppears, CommitSnapshot
  <2>4. ASSUME NEW i \in Ids,
               RemoveResidual(i) \/ \E c \in Commits : DeleteCommitted(i, c)
        PROVE  IInv'
    BY <1>1, <2>4, RemovalInv
  <2> QED
    BY <1>3, <2>1, <2>2, <2>3, <2>4 DEF Environment
<1>4. CASE UNCHANGED vars
  BY <1>4, StutterInv
<1> QED
  BY <1>2, <1>3, <1>4 DEF Next

(***************************************************************************)
(* The inductive invariant holds in every reachable state.                 *)
(***************************************************************************)
THEOREM Invariance == Spec => []IInv
BY InitInv, NextInv, PTL DEF Spec

-----------------------------------------------------------------------------
(***************************************************************************)
(* The directory inputs.  Whoever made it is still before its fsync, or    *)
(* ended there; and an invocation that went on has seen inputs, which the  *)
(* command never removes.                                                  *)
(***************************************************************************)
Owing == {"syncinputs", "failed", "crashed"}

PastInputs == {"syncinputs", "recheck", "mkdir", "syncremoved", "reported", "residual"}
                \cup Holding

InputsMade ==
  /\ inputsDir \in Procs => pc[inputsDir] \in Owing
  /\ \A p \in Procs : pc[p] \in PastInputs => inputsDir # None

(***************************************************************************)
(* An invocation that moves on and leaves inputs alone keeps this, if it   *)
(* owes nothing any more and gets no further than it has seen inputs.      *)
(***************************************************************************)
LEMMA QuietMove ==
  ASSUME TypeOK, InputsMade, NEW p \in Procs, NEW x,
         pc' = [pc EXCEPT ![p] = x], inputsDir' = inputsDir,
         pc[p] \in Owing => x \in Owing,
         x \in PastInputs => pc[p] \in PastInputs \/ inputsDir # None
  PROVE  InputsMade'
BY DEF TypeOK, InputsMade

LEMMA InputsStep ==
  ASSUME TypeOK, InputsMade, [Next]_vars
  PROVE  InputsMade'
<1> USE DEF Goto, Fault, Disturb, args, work, disk, repo
<1> DEFINE Quiet(p) ==
      /\ inputsDir' = inputsDir
      /\ \E x : /\ pc' = [pc EXCEPT ![p] = x]
                /\ pc[p] \in Owing => x \in Owing
                /\ x \in PastInputs => pc[p] \in PastInputs \/ inputsDir # None
<1>1. ASSUME NEW p \in Procs, Quiet(p) PROVE InputsMade'
  BY <1>1, QuietMove
<1>2. ASSUME NEW p \in Procs, MkInputs(p) PROVE InputsMade'
  <2> USE DEF Owing, PastInputs, Holding, Writing
  <2>1. CASE inputsDir' = p /\ pc' = [pc EXCEPT ![p] = "syncinputs"]
    BY <2>1, NoneAssumption DEF TypeOK, InputsMade
  <2>2. CASE Quiet(p)
    BY <1>1, <2>2
  <2> QED
    BY <1>2, <2>1, <2>2 DEF MkInputs
<1>3. ASSUME NEW p \in Procs, SyncInputs(p) PROVE InputsMade'
  <2> USE DEF Owing, PastInputs, Holding, Writing
  <2>1. CASE inputsDir' = Fsynced
    BY <2>1, InputsAssumption DEF InputsMade
  <2>2. CASE Quiet(p)
    BY <1>1, <2>2
  <2> QED
    BY <1>3, <2>1, <2>2 DEF SyncInputs
<1>4. ASSUME NEW p \in Procs, Step(p), ~MkInputs(p), ~SyncInputs(p) PROVE InputsMade'
  <2> USE DEF Owing, PastInputs, Holding, Writing
  <2>1. CASE CheckConsumed(p) \/ RequireHead(p) \/ RequireClean(p) \/ ReadBlobs(p)
    BY <1>1, <2>1 DEF CheckConsumed, RequireHead, RequireClean, ReadBlobs
  <2>2. CASE EnsureInputs(p) \/ Recheck(p) \/ MkdirTarget(p)
    BY <1>1, <2>2 DEF EnsureInputs, Recheck, MkdirTarget
  <2>3. CASE (\E f \in Files : CreateFile(p, f)) \/ WriteFile(p) \/ ReadBack(p)
    BY <1>1, <2>3 DEF CreateFile, WriteFile, ReadBack
  <2>4. CASE SyncTarget(p) \/ SyncParent(p) \/ PostCheck(p) \/ Verify(p)
    BY <1>1, <2>4 DEF SyncTarget, SyncParent, PostCheck, Verify
  <2>5. CASE (\E f \in Files : RmFile(p, f)) \/ RmTarget(p) \/ SyncRemoved(p)
    BY <1>1, <2>5 DEF RmFile, RmTarget, SyncRemoved
  <2> QED
    BY <1>4, <2>1, <2>2, <2>3, <2>4, <2>5 DEF Step
<1>5. ASSUME NEW p \in Procs, Crash(p) PROVE InputsMade'
  <2>1. inputsDir' = inputsDir /\ pc' = [pc EXCEPT ![p] = "crashed"]
    BY <1>5 DEF Crash
  <2>2. "crashed" \in Owing /\ "crashed" \notin PastInputs
    BY DEF Owing, PastInputs, Holding, Writing
  <2> QED
    BY <2>1, <2>2, QuietMove
<1>6. ASSUME UNCHANGED <<pc, inputsDir>> PROVE InputsMade'
  BY <1>6 DEF InputsMade
<1>7. CASE Environment
  BY <1>5, <1>6, <1>7 DEF Environment, MoveHead, RecordAppears, CommitSnapshot,
     DeleteCommitted, RemoveResidual
<1> QED
  BY <1>2, <1>3, <1>4, <1>6, <1>7 DEF Next, vars

-----------------------------------------------------------------------------
(***************************************************************************)
(* What the runs check on small instances, for every instance.             *)
(***************************************************************************)
ReportedInInputs ==
  \A p \in Reported :
    dir[rid[p]] = p => linked[rid[p]] = p /\ named[p] = Files /\ synced[p] = Files

LEMMA IInvImplies ==
  IInv => ReportedIntact /\ FailureLeavesNothing /\ ReportedInInputs
<1> SUFFICES ASSUME IInv PROVE ReportedIntact /\ FailureLeavesNothing /\ ReportedInInputs
  OBVIOUS
<1> USE NoneAssumption DEF IInv, TypeOK
<1>1. \A p \in Reported :
        /\ \A f \in Files : content[p][f] = src[p]
        /\ named[p] = Files /\ synced[p] = Files
  <2> SUFFICES ASSUME NEW p \in Procs, pc[p] = "reported"
               PROVE  /\ \A f \in Files : content[p][f] = src[p]
                      /\ named[p] = Files /\ synced[p] = Files
    BY DEF Reported
  <2>1. todo[p] = {} /\ named[p] = Files /\ frozen[p] = src[p]
    BY DEF Progress, FrozenSource, AfterRead
  <2>2. /\ \A f \in Files \ todo[p] : content[p][f] = frozen[p]
        /\ Files \ todo[p] \subseteq synced[p]
    BY DEF Progress
  <2> QED
    BY <2>1, <2>2
<1>2. ReportedIntact /\ ReportedInInputs
  BY <1>1 DEF ReportedIntact, ReportedInInputs, ReportedPlace, Retired, Reported
<1>3. FailureLeavesNothing
  <2> SUFFICES ASSUME NEW p \in Procs, pc[p] = "failed"
               PROVE  dir[rid[p]] # p /\ linked[rid[p]] # p
    BY DEF FailureLeavesNothing
  <2>1. rid[p] \in Ids /\ p # None
    OBVIOUS
  <2>2. dir[rid[p]] # p
    BY <2>1 DEF DirOwner, Holding, Writing
  <2>3. linked[rid[p]] # p
    BY <2>1 DEF LinkOwner, Holding, Writing
  <2> QED
    BY <2>2, <2>3
<1> QED
  BY <1>2, <1>3

(***************************************************************************)
(* Every variable keeps its type.                                          *)
(***************************************************************************)
THEOREM TypeCorrect == Spec => []TypeOK
<1>1. IInv => TypeOK
  BY DEF IInv
<1> QED
  BY <1>1, Invariance, PTL

(***************************************************************************)
(* A reported snapshot stays the canonical inputs of its source commit.    *)
(***************************************************************************)
THEOREM Intact == Spec => []ReportedIntact
BY Invariance, IInvImplies, PTL

(***************************************************************************)
(* A review id is bound at most once.                                      *)
(***************************************************************************)
THEOREM OneBinding == Spec => []OneBindingPerId
<1>1. IInv => OneBindingPerId
  BY DEF IInv
<1> QED
  BY <1>1, Invariance, PTL

(***************************************************************************)
(* A plain failure leaves no directory of its own, durably.                *)
(***************************************************************************)
THEOREM CleanFailure == Spec => []FailureLeavesNothing
BY Invariance, IInvImplies, PTL

(***************************************************************************)
(* What a returned descriptor rests on is durable from the entry of the    *)
(* snapshot down, and the entry of inputs too, unless the invocation found *)
(* inputs there and whoever made it did not come to its fsync.             *)
(***************************************************************************)
THEOREM Durable == Spec => []ReportedDurable
<1>1. Init => InputsMade
  BY InputsAssumption, NoneAssumption DEF Init, InputsMade, PastInputs, Holding, Writing
<1>2. TypeOK /\ InputsMade /\ [Next]_vars => InputsMade'
  BY InputsStep
<1>3. IInv /\ InputsMade => ReportedDurable
  <2> SUFFICES ASSUME IInv, InputsMade, NEW p \in Reported
               PROVE  InputsEntry(p)
    BY IInvImplies DEF ReportedInInputs, ReportedDurable
  <2>1. p \in Procs /\ pc[p] = "reported"
    BY DEF Reported
  <2>2. inputsDir \in Procs \cup {Earlier, Fsynced}
    BY <2>1 DEF IInv, TypeOK, InputsMade, PastInputs
  <2>3. inputsDir \in Procs => inputsDir # p /\ pc[inputsDir] \in Owing
    BY <2>1 DEF InputsMade, Owing
  <2> QED
    BY <2>2, <2>3 DEF InputsEntry, Owing
<1> QED
  BY <1>1, <1>2, <1>3, TypeCorrect, Invariance, PTL DEF Spec

-----------------------------------------------------------------------------
(***************************************************************************)
(* The registry.  Binding is a CHOOSE; these two facts are all that is     *)
(* used of it.                                                             *)
(***************************************************************************)
BindingFacts ==
  \A i \in Ids :
    /\ \A q \in Reported : rid[q] = i => Binding(i) = frozen[q]
    /\ (\A q \in Reported : rid[q] # i) => Binding(i) = Absent

(***************************************************************************)
(* The binding the registry sees of an id is that of the one invocation    *)
(* that reported it.                                                       *)
(***************************************************************************)
LEMMA BindingOf == IInv => BindingFacts
<1> SUFFICES ASSUME IInv, NEW i \in Ids
             PROVE  /\ \A q \in Reported : rid[q] = i => Binding(i) = frozen[q]
                    /\ (\A q \in Reported : rid[q] # i) => Binding(i) = Absent
  BY DEF BindingFacts
<1>1. ASSUME NEW q \in Reported, rid[q] = i
      PROVE  Binding(i) = frozen[q]
  <2> DEFINE r == CHOOSE p \in Reported : rid[p] = i
  <2>1. r \in Reported /\ rid[r] = i
    BY <1>1
  <2>2. r = q
    BY <1>1, <2>1 DEF IInv, OneBindingPerId
  <2> QED
    BY <1>1, <2>2 DEF Binding
<1>2. ASSUME \A q \in Reported : rid[q] # i
      PROVE  Binding(i) = Absent
  BY <1>2 DEF Binding, Reported
<1> QED
  BY <1>1, <1>2

Outcome(p) == IF pc[p] = "reported" THEN "won"
              ELSE IF pc[p] \in Terminal THEN "lost" ELSE "open"

(***************************************************************************)
(* What a step of an invocation can do to what the registry sees.          *)
(***************************************************************************)
LEMMA StepShape ==
  ASSUME IInv, NEW p \in Procs, Step(p) \/ Crash(p)
  PROVE  /\ UNCHANGED args
         /\ pc[p] \notin Terminal
         /\ \A q \in Procs : q # p => pc'[q] = pc[q] /\ frozen'[q] = frozen[q]
         /\ pc'[p] = "reported" => pc[p] = "verify" /\ frozen'[p] = src[p]
<1> USE DEF IInv, TypeOK, Goto, Fault, Terminal, args, work
<1>1. CASE EarlyStep(p)
  BY <1>1 DEF EarlyStep, CheckConsumed, RequireHead, RequireClean, ReadBlobs,
              EnsureInputs, MkInputs, SyncInputs, Recheck
<1>2. CASE MkdirTarget(p)
  BY <1>2 DEF MkdirTarget
<1>3. CASE \E f \in Files : CreateFile(p, f)
  BY <1>3 DEF CreateFile
<1>4. CASE WriteFile(p) \/ ReadBack(p)
  BY <1>4 DEF WriteFile, ReadBack
<1>5. CASE SyncTarget(p) \/ SyncParent(p) \/ PostCheck(p)
  BY <1>5 DEF SyncTarget, SyncParent, PostCheck
<1>6. CASE Verify(p)
  BY <1>6 DEF Verify, FrozenSource, AfterRead
<1>7. CASE \E f \in Files : RmFile(p, f)
  BY <1>7 DEF RmFile
<1>8. CASE RmTarget(p) \/ SyncRemoved(p)
  BY <1>8 DEF RmTarget, SyncRemoved
<1>9. CASE Crash(p)
  BY <1>9 DEF Crash, Mid, Holding, Writing
<1> QED
  BY <1>1, <1>2, <1>3, <1>4, <1>5, <1>6, <1>7, <1>8, <1>9 DEF Step, EarlyStep

(***************************************************************************)
(* A step that changes no outcome and no reported invocation's bytes is a  *)
(* stutter of the registry.                                                *)
(***************************************************************************)
LEMMA SilentStep ==
  ASSUME BindingFacts, BindingFacts', UNCHANGED args,
         \A p \in Procs : Outcome(p)' = Outcome(p),
         \A p \in Reported : frozen'[p] = frozen[p]
  PROVE  UNCHANGED Registry!regVars
<1>1. Reported' = Reported
  BY DEF Reported, Outcome
<1>2. \A i \in Ids : Binding(i)' = Binding(i)
  BY <1>1 DEF BindingFacts, args
<1> QED
  BY <1>2 DEF Registry!regVars, Outcome, args

(***************************************************************************)
(* Every step of the command is a step of the registry, or a stutter of    *)
(* it.                                                                     *)
(***************************************************************************)
LEMMA RegistryStep ==
  ASSUME IInv, IInv', [Next]_vars
  PROVE  [Registry!RegNext]_(Registry!regVars)
<1>1. BindingFacts /\ BindingFacts'
  BY BindingOf, PTL
<1>2. ASSUME NEW p \in Procs, Step(p) \/ Crash(p)
      PROVE  [Registry!RegNext]_(Registry!regVars)
  <2>1. /\ UNCHANGED args
        /\ pc[p] \notin Terminal
        /\ \A q \in Procs : q # p => pc'[q] = pc[q] /\ frozen'[q] = frozen[q]
        /\ pc'[p] = "reported" => pc[p] = "verify" /\ frozen'[p] = src[p]
    BY <1>2, StepShape
  <2>2. CASE pc'[p] \notin Terminal
    BY <1>1, <2>1, <2>2, SilentStep DEF Outcome, Reported, Terminal
  <2>3. CASE pc'[p] \in Terminal \ {"reported"}
    <3>1. Reported' = Reported
      BY <2>1, <2>3 DEF Reported, Terminal
    <3>2. \A i \in Ids : Binding(i)' = Binding(i)
      BY <1>1, <2>1, <3>1 DEF BindingFacts, Reported, Terminal, args
    <3>3. Registry!Lose(p)
      BY <2>1, <2>3, <3>2 DEF Registry!Lose, Terminal, args
    <3> QED
      BY <3>3 DEF Registry!RegNext
  <2>4. CASE pc'[p] = "reported"
    <3>1. \A q \in Reported : rid[q] # rid[p]
      BY <2>1, <2>4, OwnerIsAlone DEF Mid, Holding, Writing
    <3>2. Reported' = Reported \cup {p}
      BY <2>1, <2>4 DEF Reported, Terminal
    <3>3. Binding(rid[p]) = Absent /\ rid[p] \in Ids
      BY <1>1, <3>1 DEF BindingFacts, IInv, TypeOK
    <3>4. Binding(rid[p])' = src[p]
      BY <1>1, <2>1, <2>4, <3>2, <3>3 DEF BindingFacts, args
    <3>5. \A i \in Ids \ {rid[p]} : Binding(i)' = Binding(i)
      BY <1>1, <2>1, <3>2 DEF BindingFacts, Reported, Terminal, args
    <3>6. Registry!Win(p)
      BY <2>1, <2>4, <3>3, <3>4, <3>5 DEF Registry!Win, Terminal, args
    <3> QED
      BY <3>6 DEF Registry!RegNext
  <2> QED
    BY <2>2, <2>3, <2>4
<1>3. ASSUME UNCHANGED <<pc, args, work>>
      PROVE  UNCHANGED Registry!regVars
  BY <1>1, <1>3, SilentStep DEF Outcome, work
<1> QED
  BY <1>2, <1>3 DEF Next, Environment, MoveHead, RecordAppears, CommitSnapshot,
                    DeleteCommitted, RemoveResidual, vars

(***************************************************************************)
(* The file protocol implements the write-once registry.                   *)
(***************************************************************************)
THEOREM Refinement == Spec => ImplementsRegistry
<1>1. Init => Registry!RegInit
  BY DEF Init, Registry!RegInit, Binding, Reported, Terminal
<1> QED
  BY <1>1, Invariance, RegistryStep, PTL DEF Spec, ImplementsRegistry, Registry!RegSpec

-----------------------------------------------------------------------------
(***************************************************************************)
(* A record that an invocation has not passed yet stops it: the last look  *)
(* for it is the one way to verification, records do not disappear, and    *)
(* an invocation that has ended does not go on.                            *)
(***************************************************************************)
Overtaken(p) ==
  /\ pc[p] # "reported"
  /\ pc[p] \in Terminal \/ (rid[p] \in records /\ pc[p] # "verify")

LEMMA StepToVerify ==
  ASSUME IInv, NEW p \in Procs, Step(p) \/ Crash(p)
  PROVE  /\ pc'[p] = "verify" => rid[p] \notin records
         /\ records' = records
<1> USE DEF IInv, TypeOK, Goto, Fault, Terminal, repo
<1>1. CASE EarlyStep(p)
  BY <1>1 DEF EarlyStep, CheckConsumed, RequireHead, RequireClean, ReadBlobs,
              EnsureInputs, MkInputs, SyncInputs, Recheck
<1>2. CASE MkdirTarget(p)
  BY <1>2 DEF MkdirTarget
<1>3. CASE \E f \in Files : CreateFile(p, f)
  BY <1>3 DEF CreateFile
<1>4. CASE WriteFile(p) \/ ReadBack(p)
  BY <1>4 DEF WriteFile, ReadBack
<1>5. CASE SyncTarget(p) \/ SyncParent(p) \/ PostCheck(p)
  BY <1>5 DEF SyncTarget, SyncParent, PostCheck
<1>6. CASE Verify(p)
  BY <1>6 DEF Verify
<1>7. CASE \E f \in Files : RmFile(p, f)
  BY <1>7 DEF RmFile
<1>8. CASE RmTarget(p) \/ SyncRemoved(p)
  BY <1>8 DEF RmTarget, SyncRemoved
<1>9. CASE Crash(p)
  BY <1>9 DEF Crash
<1> QED
  BY <1>1, <1>2, <1>3, <1>4, <1>5, <1>6, <1>7, <1>8, <1>9 DEF Step, EarlyStep

LEMMA OvertakenStays ==
  ASSUME IInv, [Next]_vars, NEW p \in Procs, Overtaken(p)
  PROVE  Overtaken(p)'
<1>1. ASSUME NEW q \in Procs, Step(q) \/ Crash(q)
      PROVE  Overtaken(p)'
  <2>1. /\ rid' = rid
        /\ pc[q] \notin Terminal
        /\ q # p => pc'[p] = pc[p]
        /\ pc'[q] = "reported" => pc[q] = "verify"
    BY <1>1, StepShape DEF args
  <2>2. (pc'[q] = "verify" => rid[q] \notin records) /\ records' = records
    BY <1>1, StepToVerify
  <2>3. CASE q = p
    BY <2>1, <2>2, <2>3 DEF Overtaken, Terminal
  <2>4. CASE q # p
    BY <2>1, <2>2, <2>4 DEF Overtaken
  <2> QED
    BY <2>3, <2>4
<1>2. ASSUME UNCHANGED <<pc, args>>, records \subseteq records'
      PROVE  Overtaken(p)'
  BY <1>2 DEF Overtaken, args
<1> QED
  BY <1>1, <1>2 DEF Next, Environment, MoveHead, RecordAppears, CommitSnapshot,
                    DeleteCommitted, RemoveResidual, vars, repo

(***************************************************************************)
(* A completed record that exists before an invocation's last look at it   *)
(* wins.                                                                   *)
(***************************************************************************)
THEOREM RecordKept == Spec => RecordWins
<1> SUFFICES ASSUME NEW p \in Procs
             PROVE  Spec => [](rid[p] \in records /\ pc[p] \notin {"verify"} \cup Terminal
                                 => [](pc[p] # "reported"))
  BY DEF RecordWins
<1>1. rid[p] \in records /\ pc[p] \notin {"verify"} \cup Terminal => Overtaken(p)
  BY DEF Overtaken, Terminal
<1>2. Overtaken(p) => pc[p] # "reported"
  BY DEF Overtaken
<1>3. IInv /\ [Next]_vars /\ Overtaken(p) => Overtaken(p)'
  BY OvertakenStays
<1> QED
  BY <1>1, <1>2, <1>3, Invariance, PTL DEF Spec
=============================================================================
