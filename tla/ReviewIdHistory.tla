-------------------------- MODULE ReviewIdHistory --------------------------
(***************************************************************************)
(* How tools/prepare_legal_review.py decides from Git that a review id is  *)
(* still free: the live comparison of origin's refs with the local ones,   *)
(* and `git log --all -- <path>` over what was fetched, with Git's default *)
(* history simplification.                                                 *)
(*                                                                         *)
(* One review id and one of its two paths; ids do not interact here and    *)
(* the code asks the same question of both paths.  Commits are numbered in *)
(* the order they are made.  tree[c] is what commit c holds at the path: 0 *)
(* for nothing, otherwise the source commit the snapshot was taken from.   *)
(***************************************************************************)
EXTENDS Naturals, Sequences, FiniteSets

CONSTANTS Clones,       \* checkouts in which the command is run, tracked in full
          Refs,         \* branches and tags of origin
          Main,         \* the branch that exists from the start
          MaxCommits    \* bound on the commits ever made

ASSUME RefsAssumption    == Main \in Refs
ASSUME CommitsAssumption == MaxCommits \in Nat \ {0}

VARIABLES
  parents,   \* parents[c]: the parents of commit c, first parent first
  tree,      \* tree[c]
  origin,    \* origin[r]: the commit ref r of origin is at, 0 if none
  local,     \* local[k][r]: the same for clone k's copy of r
  head,      \* head[k]: HEAD of clone k
  pc,        \* pc[k]: "idle", or "refsok" inside an invocation
  prepared,  \* prepared[k]: source of the uncommitted snapshot in k, or 0
  seen       \* seen[k]: the tips origin advertised when k compared refs

graph == <<parents, tree>>
vars  == <<graph, origin, local, head, pc, prepared, seen>>

Made       == 1..Len(tree)
Tips(refs) == {refs[r] : r \in Refs} \ {0}

RangeOf(s) == {s[i] : i \in DOMAIN s}

(***************************************************************************)
(* Everything reachable from a set of commits.  Parents precede children.  *)
(***************************************************************************)
Ancestors ==
  LET anc[c \in Made] == {c} \cup UNION {anc[d] : d \in RangeOf(parents[c])}
  IN  anc

Reach(tips) == UNION {Ancestors[c] : c \in tips}

(***************************************************************************)
(* git log -- <path>: a commit is TREESAME to a parent that holds the same *)
(* thing at the path.  A commit TREESAME to some parent is not shown, and  *)
(* only the first such parent is walked; any other commit is shown when it *)
(* changes the path, and all its parents are walked.                       *)
(***************************************************************************)
SameParents(c) == {i \in DOMAIN parents[c] : tree[parents[c][i]] = tree[c]}

Walked(c) ==
  IF SameParents(c) = {}
    THEN RangeOf(parents[c])
    ELSE {parents[c][CHOOSE i \in SameParents(c) : \A j \in SameParents(c) : i <= j]}

Shown(c) ==
  IF parents[c] = <<>> THEN tree[c] # 0 ELSE SameParents(c) = {}

GitLog(tips) ==
  LET walk[c \in Made] == {c} \cup UNION {walk[d] : d \in Walked(c)}
  IN  {c \in UNION {walk[t] : t \in tips} : Shown(c)}

(***************************************************************************)
(* --all is every local ref, and HEAD.                                     *)
(***************************************************************************)
AllTips(k) == Tips(local[k]) \cup {head[k]}

\* Seeded fault: git log without --all.
HistoryOfHeadOnly(k) == GitLog({head[k]}) # {}

HistoryPathExists(k) == GitLog(AllTips(k)) # {}

\* Seeded fault: a ref that was never fetched is not missed.
RefsCompleteIfPresent(k) ==
  \A r \in Refs : origin[r] # 0 /\ local[k][r] # 0 => local[k][r] = origin[r]

(***************************************************************************)
(* Every ref origin exposes is here, at the object origin has it at.       *)
(***************************************************************************)
RefsComplete(k) == \A r \in Refs : origin[r] # 0 => local[k][r] = origin[r]

TypeOK ==
  /\ Len(tree) \in 1..MaxCommits
  /\ tree \in Seq(0..MaxCommits)
  /\ Len(parents) = Len(tree)
  /\ \A c \in Made : RangeOf(parents[c]) \subseteq 1..(c - 1) /\ tree[c] < c
  /\ origin \in [Refs -> {0} \cup Made]
  /\ local \in [Clones -> [Refs -> {0} \cup Made]]
  /\ head \in [Clones -> Made]
  /\ pc \in [Clones -> {"idle", "refsok"}]
  /\ prepared \in [Clones -> {0} \cup Made]
  /\ seen \in [Clones -> SUBSET Made]

Init ==
  /\ parents = << <<>> >>
  /\ tree = <<0>>
  /\ origin = [r \in Refs |-> IF r = Main THEN 1 ELSE 0]
  /\ local = [k \in Clones |-> origin]
  /\ head = [k \in Clones |-> 1]
  /\ pc = [k \in Clones |-> "idle"]
  /\ prepared = [k \in Clones |-> 0]
  /\ seen = [k \in Clones |-> {}]

-----------------------------------------------------------------------------
(***************************************************************************)
(* One invocation of the command.  ls-remote is live; what follows uses    *)
(* what was fetched, while others go on pushing to origin.                 *)
(***************************************************************************)
RequireRefsComplete(k) ==
  /\ pc[k] = "idle"
  /\ RefsComplete(k)
  /\ pc' = [pc EXCEPT ![k] = "refsok"]
  /\ seen' = [seen EXCEPT ![k] = Tips(origin)]
  /\ UNCHANGED <<graph, origin, local, head, prepared>>

(***************************************************************************)
(* Refusal: a path in the history, or a snapshot in the workspace.         *)
(***************************************************************************)
Refuse(k) ==
  /\ pc[k] = "refsok"
  /\ HistoryPathExists(k) \/ prepared[k] # 0
  /\ pc' = [pc EXCEPT ![k] = "idle"]
  /\ seen' = [seen EXCEPT ![k] = {}]
  /\ UNCHANGED <<graph, origin, local, head, prepared>>

\* Seeded fault: the source commit is taken to be the one that will be made.
PublishOfNextCommit(k) ==
  /\ pc[k] = "refsok"
  /\ ~HistoryPathExists(k)
  /\ prepared[k] = 0
  /\ prepared' = [prepared EXCEPT ![k] = Len(tree) + 1]
  /\ pc' = [pc EXCEPT ![k] = "idle"]
  /\ seen' = [seen EXCEPT ![k] = {}]
  /\ UNCHANGED <<graph, origin, local, head>>

Publish(k) ==
  /\ pc[k] = "refsok"
  /\ ~HistoryPathExists(k)
  /\ prepared[k] = 0
  /\ prepared' = [prepared EXCEPT ![k] = head[k]]
  /\ pc' = [pc EXCEPT ![k] = "idle"]
  /\ seen' = [seen EXCEPT ![k] = {}]
  /\ UNCHANGED <<graph, origin, local, head>>

-----------------------------------------------------------------------------
(***************************************************************************)
(* Git around it.  Commit appends a commit to ref r of origin.             *)
(***************************************************************************)
Commit(r, ps, t) ==
  /\ Len(tree) < MaxCommits
  /\ parents' = Append(parents, ps)
  /\ tree' = Append(tree, t)
  /\ origin' = [origin EXCEPT ![r] = Len(tree) + 1]

(***************************************************************************)
(* The maintainer commits the prepared snapshot and pushes it.  The push   *)
(* must be a fast-forward; a snapshot already on the branch conflicts.     *)
(***************************************************************************)
PushSnapshot(k, r) ==
  /\ pc[k] = "idle"
  /\ prepared[k] # 0
  /\ origin[r] # 0
  /\ local[k][r] = origin[r]
  /\ tree[origin[r]] = 0
  /\ Commit(r, <<origin[r]>>, prepared[k])
  /\ local' = [local EXCEPT ![k][r] = Len(tree) + 1]
  /\ head' = [head EXCEPT ![k] = Len(tree) + 1]
  /\ prepared' = [prepared EXCEPT ![k] = 0]
  /\ UNCHANGED <<pc, seen>>

(***************************************************************************)
(* Another clone pushes the snapshot it prepared while the id was free for *)
(* it: nothing reserves an id between preparation and push.                *)
(***************************************************************************)
PushElsewhere(r) ==
  /\ origin[r] # 0
  /\ tree[origin[r]] = 0
  /\ \E c \in Ancestors[origin[r]] : Commit(r, <<origin[r]>>, c)
  /\ UNCHANGED <<local, head, pc, prepared, seen>>

OtherWork(r) ==
  /\ origin[r] # 0
  /\ Commit(r, <<origin[r]>>, tree[origin[r]])
  /\ UNCHANGED <<local, head, pc, prepared, seen>>

DeletePath(r) ==
  /\ origin[r] # 0
  /\ tree[origin[r]] # 0
  /\ Commit(r, <<origin[r]>>, 0)
  /\ UNCHANGED <<local, head, pc, prepared, seen>>

(***************************************************************************)
(* A three-way merge of the path: the side that changed it since the merge *)
(* base wins; when both did, the conflict is resolved to either by hand.   *)
(***************************************************************************)
MergeBases(a, b) ==
  LET common == Ancestors[a] \cap Ancestors[b]
  IN  {c \in common : \A d \in common \ {c} : c \notin Ancestors[d]}

MergeResults(a, b) ==
  LET untouched(c) == \E m \in MergeBases(a, b) : tree[m] = tree[c]
      winners == {tree[c] : c \in {d \in {a, b} : ~untouched(d)}}
  IN  IF winners = {} THEN {tree[a]} ELSE winners

MergeInto(r, s) ==
  /\ origin[r] # 0 /\ origin[s] # 0
  /\ origin[s] \notin Ancestors[origin[r]]
  /\ \E t \in MergeResults(origin[r], origin[s]) :
       Commit(r, <<origin[r], origin[s]>>, t)
  /\ UNCHANGED <<local, head, pc, prepared, seen>>

NewBranch(r, s) ==
  /\ origin[r] = 0 /\ origin[s] # 0
  /\ origin' = [origin EXCEPT ![r] = origin[s]]
  /\ UNCHANGED <<graph, local, head, pc, prepared, seen>>

(***************************************************************************)
(* Only a merged branch is deleted: losing history is out of scope.        *)
(***************************************************************************)
DropMerged(r) ==
  /\ origin[r] # 0
  /\ \E s \in Refs \ {r} : origin[s] # 0 /\ origin[r] \in Ancestors[origin[s]]
  /\ origin' = [origin EXCEPT ![r] = 0]
  /\ UNCHANGED <<graph, local, head, pc, prepared, seen>>

Fetch(k) ==
  /\ pc[k] = "idle"
  /\ local[k] # origin
  /\ local' = [local EXCEPT ![k] = origin]
  /\ UNCHANGED <<graph, origin, head, pc, prepared, seen>>

FetchOneRef(k, r) ==
  /\ pc[k] = "idle"
  /\ local[k][r] # origin[r]
  /\ local' = [local EXCEPT ![k][r] = origin[r]]
  /\ UNCHANGED <<graph, origin, head, pc, prepared, seen>>

Checkout(k, r) ==
  /\ pc[k] = "idle"
  /\ local[k][r] \notin {0, head[k]}
  /\ head' = [head EXCEPT ![k] = local[k][r]]
  /\ UNCHANGED <<graph, origin, local, pc, prepared, seen>>

Next ==
  \/ \E k \in Clones : RequireRefsComplete(k)
  \/ \E k \in Clones : Refuse(k)
  \/ \E k \in Clones : Publish(k)
  \/ \E k \in Clones, r \in Refs : PushSnapshot(k, r)
  \/ \E r \in Refs : PushElsewhere(r)
  \/ \E r \in Refs : OtherWork(r)
  \/ \E r \in Refs : DeletePath(r)
  \/ \E r, s \in Refs : MergeInto(r, s)
  \/ \E r, s \in Refs : NewBranch(r, s)
  \/ \E r \in Refs : DropMerged(r)
  \/ \E k \in Clones : Fetch(k)
  \/ \E k \in Clones, r \in Refs : FetchOneRef(k, r)
  \/ \E k \in Clones, r \in Refs : Checkout(k, r)

Spec == Init /\ [][Next]_vars

-----------------------------------------------------------------------------
Held(cs)   == {c \in cs : tree[c] # 0}
Linear(cs) == \A c \in cs : Len(parents[c]) <= 1

Published(k) == prepared[k] = 0 /\ prepared'[k] # 0

(***************************************************************************)
(* No id is prepared again when a commit that origin exposed as the run    *)
(* began has held its snapshot, deleted since or not, as long as that      *)
(* history has no merge commit.                                            *)
(***************************************************************************)
LinearNeverRebinds ==
  [][\A k \in Clones :
       Published(k) /\ Linear(Reach(seen[k])) => Held(Reach(seen[k])) = {}]_vars

(***************************************************************************)
(* Merges or not, a snapshot that is at the tip of some ref of origin as   *)
(* the run begins consumes the id.                                         *)
(***************************************************************************)
LiveTipRefused ==
  [][\A k \in Clones : Published(k) => Held(seen[k]) = {}]_vars

(***************************************************************************)
(* The history question is answered exactly on merge-free history, and     *)
(* never yes without reason on any: a fresh id is not refused.             *)
(***************************************************************************)
HistoryCheckExact ==
  \A k \in Clones :
    LET past == Reach(AllTips(k))
    IN  /\ HistoryPathExists(k) => Held(past) # {}
        /\ Linear(past) /\ Held(past) # {} => HistoryPathExists(k)

(***************************************************************************)
(* reviews/legal/README.md: an id that "existed in any fetched             *)
(* authoritative history and was later deleted" cannot be rebound.         *)
(***************************************************************************)
NeverRebinds ==
  [][\A k \in Clones :
       Published(k) => Held(Reach(Tips(local[k]))) = {}]_vars
=============================================================================
