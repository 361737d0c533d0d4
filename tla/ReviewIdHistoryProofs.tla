----------------------- MODULE ReviewIdHistoryProofs -----------------------
(***************************************************************************)
(* Proofs about ReviewIdHistory, for every number of clones, refs and      *)
(* commits: what the two questions of the command, whether the refs are    *)
(* complete and whether the path is in the history, say about the commits  *)
(* origin has.                                                             *)
(***************************************************************************)
EXTENDS ReviewIdHistory, WellFoundedInduction, SequenceTheorems, TLAPS

-----------------------------------------------------------------------------
(***************************************************************************)
(* Parents precede children, so that what holds of a commit whenever it    *)
(* holds of all before it holds of all.                                    *)
(***************************************************************************)
LEMMA Below == IsWellFoundedOn({ss \in Nat \X Nat : ss[1] < ss[2]}, Nat)
  BY NatLessThanWellFounded DEF OpToRel

LEMMA Minimum ==
  ASSUME NEW S, S \subseteq Nat, S # {}
  PROVE  \E i \in S : \A j \in S : i <= j
<1> DEFINE R == {ss \in Nat \X Nat : ss[1] < ss[2]}
<1>1. PICK i \in S : \A j \in S : ~(<<j, i>> \in R)
  <2> HIDE DEF R
  <2>1. IsWellFoundedOn(R, Nat)
    BY Below DEF R
  <2> QED BY <2>1, WFMin
<1>2. \A j \in S : ~(j < i)
  <2> SUFFICES ASSUME NEW j \in S, j < i PROVE FALSE
    OBVIOUS
  <2>1. <<j, i>> \in Nat \X Nat /\ <<j, i>>[1] = j /\ <<j, i>>[2] = i
    OBVIOUS
  <2>2. <<j, i>> \in R
    BY <2>1
  <2> QED BY <1>1, <2>2
<1>3. \A j \in S : i \in Nat /\ j \in Nat
  OBVIOUS
<1> QED BY <1>2, <1>3

LEMMA OldestFirst ==
  ASSUME NEW n \in Nat, NEW S, \A c \in 1..n : 1..(c - 1) \subseteq S => c \in S
  PROVE  1..n \subseteq S
<1> SUFFICES ASSUME ~(1..n \subseteq S) PROVE FALSE
  OBVIOUS
<1> DEFINE B == {c \in 1..n : c \notin S}
<1>1. B \subseteq Nat /\ B # {}
  OBVIOUS
<1>2. \E c \in B : \A d \in B : c <= d
  <2> HIDE DEF B
  <2> QED BY <1>1, Minimum
<1>3. PICK c \in B : \A d \in B : c <= d
  BY <1>2
<1>4. ASSUME NEW d \in 1..(c - 1) PROVE d \in S
  <2>1. d \in 1..n /\ ~(c <= d)
    OBVIOUS
  <2> QED BY <1>3, <2>1
<1> QED BY <1>3, <1>4

-----------------------------------------------------------------------------
(***************************************************************************)
(* Walking back: f[c] is all that is reached from c, if to[c] is what is   *)
(* stepped to from c.  Ancestors steps to all parents, git log to some.    *)
(***************************************************************************)
Back(n, to) == \A c \in 1..n : to[c] \subseteq 1..(c - 1)

Walks(n, to, f) == f = [c \in 1..n |-> {c} \cup UNION {f[d] : d \in to[c]}]

LEMMA WalkExists ==
  ASSUME NEW n \in Nat, NEW to, Back(n, to)
  PROVE  \E f : Walks(n, to, f)
<1> DEFINE S == {m \in 1..(n + 1) : \E f : Walks(m - 1, to, f)}
<1>1. ASSUME NEW c \in 1..(n + 1), 1..(c - 1) \subseteq S
      PROVE  c \in S
  <2>1. CASE c = 1
    <3> DEFINE e == [d \in 1..0 |-> {}]
    <3>1. Walks(0, to, e)
      <4>1. 1..0 = {}
        OBVIOUS
      <4>2. e = [d \in 1..0 |-> {d} \cup UNION {e[x] : x \in to[d]}]
        BY <4>1
      <4> QED BY <4>2 DEF Walks
    <3> QED BY <2>1, <3>1
  <2>2. CASE c # 1
    <3> DEFINE m == c - 1
    <3>1. m \in 1..(n + 1) /\ m \in 1..n /\ m - 1 \in Nat
      BY <2>2
    <3>2. m \in 1..(c - 1)
      BY <3>1
    <3>3. PICK f : Walks(m - 1, to, f)
      BY <1>1, <3>2
    <3> DEFINE g == [d \in 1..m |-> IF d = m THEN {d} \cup UNION {f[x] : x \in to[d]} ELSE f[d]]
    <3>4. ASSUME NEW d \in 1..m PROVE g[d] = {d} \cup UNION {g[x] : x \in to[d]}
      <4>1. to[d] \subseteq 1..(d - 1)
        BY <3>1 DEF Back
      <4>2. \A x \in to[d] : x \in 1..(m - 1) /\ x \in 1..m /\ x # m
        BY <3>1, <4>1
      <4>3. \A x \in to[d] : g[x] = f[x]
        BY <4>2
      <4>4. {g[x] : x \in to[d]} = {f[x] : x \in to[d]}
        BY <4>3
      <4>5. CASE d = m
        BY <4>4, <4>5
      <4>6. CASE d # m
        <5>1. d \in 1..(m - 1) /\ g[d] = f[d]
          BY <3>1, <4>6
        <5>2. f[d] = {d} \cup UNION {f[x] : x \in to[d]}
          BY <3>3, <5>1 DEF Walks
        <5> QED BY <4>4, <5>1, <5>2
      <4> QED BY <4>5, <4>6
    <3>5. Walks(m, to, g)
      <4>1. g = [d \in 1..m |-> g[d]]
        OBVIOUS
      <4> HIDE DEF g
      <4>2. g = [d \in 1..m |-> {d} \cup UNION {g[x] : x \in to[d]}]
        BY <3>4, <4>1
      <4> QED BY <4>2 DEF Walks
    <3> QED BY <3>5
  <2> QED BY <2>1, <2>2
<1>2. 1..(n + 1) \subseteq S
  <2>1. n + 1 \in Nat
    OBVIOUS
  <2> HIDE DEF S
  <2> QED BY <1>1, <2>1, OldestFirst
<1>3. n + 1 \in S
  BY <1>2
<1> QED BY <1>3

(* A walk begins where it begins and goes back.                            *)
LEMMA WalkGoesBack ==
  ASSUME NEW n \in Nat, NEW to, Back(n, to), NEW f, Walks(n, to, f)
  PROVE  \A c \in 1..n : c \in f[c] /\ f[c] \subseteq 1..c /\ \A d \in to[c] : f[d] \subseteq f[c]
<1>1. \A c \in 1..n : f[c] = {c} \cup UNION {f[d] : d \in to[c]}
  BY DEF Walks
<1> DEFINE S == {c \in 1..n : f[c] \subseteq 1..c}
<1>2. ASSUME NEW c \in 1..n, 1..(c - 1) \subseteq S
      PROVE  c \in S
  <2>1. \A d \in to[c] : d \in 1..(c - 1) /\ f[d] \subseteq 1..d
    BY <1>2 DEF Back
  <2>2. \A d \in to[c] : f[d] \subseteq 1..c
    BY <2>1
  <2> QED BY <1>1, <2>2
<1>3. 1..n \subseteq S
  <2> HIDE DEF S
  <2> QED BY <1>2, OldestFirst
<1> QED BY <1>1, <1>3

(* It steps on from wherever it comes.                                     *)
LEMMA WalkGoesOn ==
  ASSUME NEW n \in Nat, NEW to, Back(n, to), NEW f, Walks(n, to, f)
  PROVE  \A c \in 1..n : \A d \in f[c] : to[d] \subseteq f[c]
<1>1. \A c \in 1..n : f[c] = {c} \cup UNION {f[d] : d \in to[c]}
  BY DEF Walks
<1>2. \A c \in 1..n : c \in f[c] /\ \A d \in to[c] : f[d] \subseteq f[c]
  BY WalkGoesBack
<1> DEFINE S == {c \in 1..n : \A d \in f[c] : to[d] \subseteq f[c]}
<1>3. ASSUME NEW c \in 1..n, 1..(c - 1) \subseteq S
      PROVE  c \in S
  <2>0. to[c] \subseteq 1..(c - 1)
    BY DEF Back
  <2> SUFFICES ASSUME NEW d \in f[c] PROVE to[d] \subseteq f[c]
    OBVIOUS
  <2>1. CASE d = c
    <3>1. \A x \in to[c] : x \in f[x]
      BY <1>2, <2>0
    <3> QED BY <1>2, <2>1, <3>1
  <2>2. CASE d # c
    <3>1. PICK e \in to[c] : d \in f[e]
      BY <1>1, <2>2
    <3>2. e \in S
      BY <1>3, <2>0
    <3> QED BY <1>2, <3>1, <3>2
  <2> QED BY <2>1, <2>2
<1>4. 1..n \subseteq S
  <2> HIDE DEF S
  <2> QED BY <1>3, OldestFirst
<1> QED BY <1>4

(* Who steps to less reaches less; who steps alike reaches the same.       *)
LEMMA WalkWithin ==
  ASSUME NEW n \in Nat, NEW to, NEW less, Back(n, to), Back(n, less),
         NEW f, Walks(n, to, f), NEW g, Walks(n, less, g),
         \A c \in 1..n : less[c] \subseteq to[c]
  PROVE  \A c \in 1..n : g[c] \subseteq f[c]
<1>1. \A c \in 1..n : /\ f[c] = {c} \cup UNION {f[d] : d \in to[c]}
                      /\ g[c] = {c} \cup UNION {g[d] : d \in less[c]}
  BY DEF Walks
<1> DEFINE S == {c \in 1..n : g[c] \subseteq f[c]}
<1>2. ASSUME NEW c \in 1..n, 1..(c - 1) \subseteq S
      PROVE  c \in S
  <2>1. \A d \in less[c] : d \in to[c] /\ g[d] \subseteq f[d]
    BY <1>2 DEF Back
  <2> QED BY <1>1, <2>1
<1>3. 1..n \subseteq S
  <2> HIDE DEF S
  <2> QED BY <1>2, OldestFirst
<1> QED BY <1>3

LEMMA WalkAlike ==
  ASSUME NEW n \in Nat, NEW to, NEW less, Back(n, to), Back(n, less),
         NEW f, Walks(n, to, f), NEW g, Walks(n, less, g)
  PROVE  \A c \in 1..n : (\A d \in f[c] : less[d] = to[d]) => f[c] \subseteq g[c]
<1>1. \A c \in 1..n : /\ f[c] = {c} \cup UNION {f[d] : d \in to[c]}
                      /\ g[c] = {c} \cup UNION {g[d] : d \in less[c]}
  BY DEF Walks
<1>2. \A c \in 1..n : c \in f[c] /\ \A d \in to[c] : f[d] \subseteq f[c]
  BY WalkGoesBack
<1> DEFINE S == {c \in 1..n : (\A d \in f[c] : less[d] = to[d]) => f[c] \subseteq g[c]}
<1>3. ASSUME NEW c \in 1..n, 1..(c - 1) \subseteq S
      PROVE  c \in S
  <2> SUFFICES ASSUME \A d \in f[c] : less[d] = to[d] PROVE f[c] \subseteq g[c]
    OBVIOUS
  <2>1. less[c] = to[c]
    BY <1>2
  <2>2. ASSUME NEW d \in to[c] PROVE f[d] \subseteq g[d]
    <3>1. d \in S
      BY <1>3 DEF Back
    <3>2. \A x \in f[d] : less[x] = to[x]
      BY <1>2
    <3> QED BY <3>1, <3>2
  <2> QED BY <1>1, <2>1, <2>2
<1>4. 1..n \subseteq S
  <2> HIDE DEF S
  <2> QED BY <1>3, OldestFirst
<1> QED BY <1>4

-----------------------------------------------------------------------------
(***************************************************************************)
(* The commits made so far.                                                *)
(***************************************************************************)
Graph == parents \in Seq(Seq(Nat))

Parents == [c \in Made |-> RangeOf(parents[c])]
Steps   == [c \in Made |-> Walked(c)]
Log     == CHOOSE f : f = [c \in Made |-> {c} \cup UNION {f[d] : d \in Walked(c)}]

LEMMA GraphFacts ==
  ASSUME TypeOK, Graph
  PROVE  /\ Len(tree) \in Nat /\ Made \subseteq Nat
         /\ \A c \in Made : /\ parents[c] \in Seq(Nat) /\ DOMAIN parents[c] = 1..Len(parents[c])
                            /\ Len(parents[c]) \in Nat
                            /\ tree[c] \in Nat /\ tree[c] < c
                            /\ RangeOf(parents[c]) \subseteq 1..(c - 1)
<1>1. Len(tree) \in Nat /\ Len(parents) = Len(tree)
  BY DEF TypeOK
<1>2. ASSUME NEW c \in Made PROVE parents[c] \in Seq(Nat) /\ tree[c] \in Nat
  <2>1. c \in 1..Len(parents) /\ c \in 1..Len(tree)
    BY <1>1 DEF Made
  <2>2. parents[c] \in Seq(Nat)
    BY <2>1 DEF Graph
  <2>3. tree \in Seq(0..MaxCommits)
    BY DEF TypeOK
  <2>4. tree[c] \in 0..MaxCommits
    BY <2>1, <2>3, ElementOfSeq
  <2> QED BY <2>2, <2>4
<1>3. \A c \in Made : RangeOf(parents[c]) \subseteq 1..(c - 1) /\ tree[c] < c
  BY DEF TypeOK
<1>4. \A c \in Made : DOMAIN parents[c] = 1..Len(parents[c]) /\ Len(parents[c]) \in Nat
  BY <1>2
<1>5. Made \subseteq Nat
  BY DEF Made
<1> QED BY <1>1, <1>2, <1>3, <1>4, <1>5

LEMMA StepsAreParents ==
  ASSUME TypeOK, Graph, NEW c \in Made
  PROVE  /\ Walked(c) \subseteq RangeOf(parents[c])
         /\ SameParents(c) # {} => \E d \in Walked(c) : tree[d] = tree[c]
<1>1. DOMAIN parents[c] \subseteq Nat
  BY GraphFacts
<1>2. CASE SameParents(c) = {}
  BY <1>2 DEF Walked
<1>3. CASE SameParents(c) # {}
  <2>1. \E i \in SameParents(c) : \A j \in SameParents(c) : i <= j
    BY <1>1, <1>3, Minimum DEF SameParents
  <2>2. PICK i \in SameParents(c) : Walked(c) = {parents[c][i]}
    BY <1>3, <2>1 DEF Walked
  <2> QED BY <2>2 DEF SameParents, RangeOf
<1> QED BY <1>2, <1>3

LEMMA BothGoBack == ASSUME TypeOK, Graph PROVE Back(Len(tree), Parents) /\ Back(Len(tree), Steps)
  BY GraphFacts, StepsAreParents DEF Back, Parents, Steps, Made

LEMMA AncestorsWalk == ASSUME TypeOK, Graph PROVE Walks(Len(tree), Parents, Ancestors)
<1>1. PICK f : Walks(Len(tree), Parents, f)
  BY GraphFacts, BothGoBack, WalkExists
<1>2. \A g : Walks(Len(tree), Parents, g)
               <=> g = [c \in Made |-> {c} \cup UNION {g[d] : d \in RangeOf(parents[c])}]
  <2> TAKE g
  <2>1. \A c \in Made : Parents[c] = RangeOf(parents[c])
    BY DEF Parents
  <2>2. [c \in Made |-> {c} \cup UNION {g[d] : d \in Parents[c]}]
          = [c \in Made |-> {c} \cup UNION {g[d] : d \in RangeOf(parents[c])}]
    BY <2>1
  <2> QED BY <2>2 DEF Walks, Made
<1>3. Ancestors = [c \in Made |-> {c} \cup UNION {Ancestors[d] : d \in RangeOf(parents[c])}]
  BY <1>1, <1>2 DEF Ancestors
<1> QED BY <1>2, <1>3

LEMMA LogWalks == ASSUME TypeOK, Graph PROVE Walks(Len(tree), Steps, Log)
<1>1. PICK f : Walks(Len(tree), Steps, f)
  BY GraphFacts, BothGoBack, WalkExists
<1>2. \A g : Walks(Len(tree), Steps, g)
               <=> g = [c \in Made |-> {c} \cup UNION {g[d] : d \in Walked(c)}]
  <2> TAKE g
  <2>1. \A c \in Made : Steps[c] = Walked(c)
    BY DEF Steps
  <2>2. [c \in Made |-> {c} \cup UNION {g[d] : d \in Steps[c]}]
          = [c \in Made |-> {c} \cup UNION {g[d] : d \in Walked(c)}]
    BY <2>1
  <2> QED BY <2>2 DEF Walks, Made
<1>3. Log = [c \in Made |-> {c} \cup UNION {Log[d] : d \in Walked(c)}]
  BY <1>1, <1>2 DEF Log
<1> QED BY <1>2, <1>3

LEMMA GitLogIs ==
  ASSUME NEW tips PROVE GitLog(tips) = {c \in UNION {Log[t] : t \in tips} : Shown(c)}
  BY DEF GitLog, Log

(* What is reached from a commit, and what git log walks of it.            *)
LEMMA ReachFacts ==
  ASSUME TypeOK, Graph, NEW c \in Made
  PROVE  /\ c \in Ancestors[c] /\ Ancestors[c] \subseteq 1..c
         /\ \A d \in Ancestors[c] : RangeOf(parents[d]) \subseteq Ancestors[c]
         /\ c \in Log[c] /\ Log[c] \subseteq Ancestors[c]
         /\ \A d \in Log[c] : Walked(d) \subseteq Log[c]
<1>1. Len(tree) \in Nat /\ Back(Len(tree), Parents) /\ Back(Len(tree), Steps)
      /\ Walks(Len(tree), Parents, Ancestors) /\ Walks(Len(tree), Steps, Log) /\ c \in 1..Len(tree)
  BY GraphFacts, BothGoBack, AncestorsWalk, LogWalks DEF Made
<1>2. c \in Ancestors[c] /\ Ancestors[c] \subseteq 1..c
  BY <1>1, WalkGoesBack
<1>3. c \in Log[c] /\ Log[c] \subseteq 1..c
  BY <1>1, WalkGoesBack
<1>4. \A d \in Ancestors[c] : Parents[d] \subseteq Ancestors[c]
  BY <1>1, WalkGoesOn
<1>5. \A d \in Log[c] : Steps[d] \subseteq Log[c]
  BY <1>1, WalkGoesOn
<1>6. \A d \in 1..Len(tree) : Steps[d] \subseteq Parents[d]
  BY StepsAreParents DEF Steps, Parents, Made
<1>7. Log[c] \subseteq Ancestors[c]
  BY <1>1, <1>6, WalkWithin
<1>8. 1..c \subseteq Made
  BY <1>1 DEF Made
<1>9. \A d \in Made : Parents[d] = RangeOf(parents[d]) /\ Steps[d] = Walked(d)
  BY DEF Parents, Steps
<1> QED BY <1>2, <1>3, <1>4, <1>5, <1>7, <1>8, <1>9

(* On a history without merges git log walks everything.                   *)
LEMMA LinearIsWalked ==
  ASSUME TypeOK, Graph, NEW c \in Made, Linear(Ancestors[c])
  PROVE  Ancestors[c] \subseteq Log[c]
<1>1. Len(tree) \in Nat /\ Back(Len(tree), Parents) /\ Back(Len(tree), Steps)
      /\ Walks(Len(tree), Parents, Ancestors) /\ Walks(Len(tree), Steps, Log) /\ c \in 1..Len(tree)
  BY GraphFacts, BothGoBack, AncestorsWalk, LogWalks DEF Made
<1>2. ASSUME NEW d \in Ancestors[c] PROVE Steps[d] = Parents[d]
  <2>1. d \in Made /\ Len(parents[d]) <= 1
    BY ReachFacts, <1>1 DEF Linear, Made
  <2>2. Walked(d) \subseteq RangeOf(parents[d]) /\ (SameParents(d) # {} => Walked(d) # {})
    BY <2>1, StepsAreParents
  <2>3. SameParents(d) = {} => Walked(d) = RangeOf(parents[d])
    BY DEF Walked
  <2>4. \A x, y \in RangeOf(parents[d]) : x = y
    <3>1. \A i, j \in DOMAIN parents[d] : i = j
      BY <2>1, GraphFacts
    <3> QED BY <3>1 DEF RangeOf
  <2>5. Walked(d) = RangeOf(parents[d])
    BY <2>2, <2>3, <2>4
  <2> QED BY <2>1, <2>5 DEF Steps, Parents
<1> QED BY <1>1, <1>2, WalkAlike

-----------------------------------------------------------------------------
(***************************************************************************)
(* What git log shows.  It shows nothing of a history that never held the  *)
(* path.                                                                   *)
(***************************************************************************)
LEMMA ShownIsHeld ==
  ASSUME TypeOK, Graph, NEW tips, tips \subseteq Made, GitLog(tips) # {}
  PROVE  Held(Reach(tips)) # {}
<1>1. PICK t \in tips : \E c \in Log[t] : Shown(c)
  BY GitLogIs
<1> PICK c \in Log[t] : Shown(c)
  BY <1>1
<1>2. t \in Made /\ c \in Ancestors[t] /\ c \in Made /\ RangeOf(parents[c]) \subseteq Ancestors[t]
  <2>1. t \in Made
    OBVIOUS
  <2>2. c \in Ancestors[t] /\ RangeOf(parents[c]) \subseteq Ancestors[t] /\ c \in 1..t
    BY <1>1, <2>1, ReachFacts
  <2> QED BY <2>1, <2>2 DEF Made
<1>3. Ancestors[t] \subseteq Reach(tips)
  BY DEF Reach
<1>4. CASE parents[c] = <<>>
  BY <1>2, <1>3, <1>4 DEF Shown, Held
<1>5. CASE parents[c] # <<>>
  <2>1. 1 \in DOMAIN parents[c]
    BY <1>2, <1>5, GraphFacts
  <2>2. SameParents(c) = {}
    BY <1>1, <1>5 DEF Shown
  <2>3. tree[parents[c][1]] # tree[c]
    BY <2>1, <2>2 DEF SameParents
  <2>4. parents[c][1] \in Reach(tips) /\ c \in Reach(tips)
    BY <1>2, <1>3, <2>1 DEF RangeOf
  <2> QED BY <2>3, <2>4 DEF Held
<1> QED BY <1>4, <1>5

(* Without merges, it shows the first commit that held the path.           *)
LEMMA LinearHeldIsShown ==
  ASSUME TypeOK, Graph, NEW tips, tips \subseteq Made,
         Linear(Reach(tips)), Held(Reach(tips)) # {}
  PROVE  GitLog(tips) # {}
<1> DEFINE H == Held(Reach(tips))
<1>1. \A t \in tips : t \in Made /\ Ancestors[t] \subseteq Reach(tips) /\ Ancestors[t] \subseteq 1..t
  BY ReachFacts DEF Reach
<1>2. H \subseteq Nat
  <2>1. Reach(tips) \subseteq Nat
    BY <1>1 DEF Reach, Made
  <2> QED BY <2>1 DEF Held
<1>3. PICK c \in H : \A d \in H : c <= d
  <2> HIDE DEF H
  <2>1. H # {}
    BY DEF H
  <2> QED BY <1>2, <2>1, Minimum
<1>4. PICK t \in tips : c \in Ancestors[t]
  BY <1>3 DEF Held, Reach
<1>5. c \in Made /\ tree[c] # 0 /\ c \in Log[t]
  <2>1. Linear(Ancestors[t])
    BY <1>1 DEF Linear
  <2>2. c \in Log[t]
    BY <1>1, <1>4, <2>1, LinearIsWalked
  <2>3. c \in Made
    BY <1>1, <1>4 DEF Made
  <2> QED BY <1>3, <2>2, <2>3 DEF Held
<1>6. \A d \in RangeOf(parents[c]) : tree[d] = 0
  <2> SUFFICES ASSUME NEW d \in RangeOf(parents[c]), tree[d] # 0 PROVE FALSE
    OBVIOUS
  <2>1. d \in Ancestors[t]
    BY <1>1, <1>4, ReachFacts
  <2>2. d \in H
    BY <1>1, <2>1 DEF Held
  <2>3. d \in 1..(c - 1)
    BY <1>5, GraphFacts
  <2>4. c <= d /\ c \in Nat
    BY <1>2, <1>3, <2>2
  <2> QED BY <2>3, <2>4
<1>7. SameParents(c) = {}
  BY <1>5, <1>6 DEF SameParents, RangeOf
<1>8. Shown(c)
  BY <1>5, <1>7 DEF Shown
<1> QED BY <1>5, <1>8, GitLogIs

(* A path that is held at a tip is shown, merges or not: walking back      *)
(* through parents that hold the same, git log comes to where it came from. *)
LEMMA TipHeldIsShown ==
  ASSUME TypeOK, Graph, NEW tips, tips \subseteq Made, Held(tips) # {}
  PROVE  GitLog(tips) # {}
<1>1. PICK t \in tips : tree[t] # 0
  BY DEF Held
<1> DEFINE S == {c \in Log[t] : tree[c] = tree[t]}
<1>2. t \in Made /\ Log[t] \subseteq Made /\ Made \subseteq Nat /\ t \in Log[t]
      /\ \A d \in Log[t] : Walked(d) \subseteq Log[t]
  <2>1. t \in Made
    OBVIOUS
  <2>2. t \in Log[t] /\ Log[t] \subseteq 1..t /\ \A d \in Log[t] : Walked(d) \subseteq Log[t]
    BY <2>1, ReachFacts
  <2> QED BY <2>1, <2>2, GraphFacts DEF Made
<1>3. PICK c \in S : \A d \in S : c <= d
  <2>1. S \subseteq Nat /\ S # {}
    BY <1>2
  <2> HIDE DEF S
  <2> QED BY <2>1, Minimum
<1>4. c \in Made /\ tree[c] # 0
  BY <1>1, <1>2, <1>3
<1>5. SameParents(c) = {}
  <2> SUFFICES ASSUME SameParents(c) # {} PROVE FALSE
    OBVIOUS
  <2>1. PICK d \in Walked(c) : tree[d] = tree[c]
    BY <1>4, StepsAreParents
  <2>2. d \in S
    BY <1>2, <1>3, <2>1
  <2>3. d \in 1..(c - 1)
    BY <1>4, <2>1, StepsAreParents, GraphFacts
  <2>4. c <= d /\ c \in Nat
    BY <1>2, <1>3, <2>2
  <2> QED BY <2>3, <2>4
<1>6. Shown(c)
  BY <1>4, <1>5 DEF Shown
<1> QED BY <1>3, <1>6, GitLogIs

LEMMA GitLogGrows ==
  ASSUME NEW tips, NEW more, tips \subseteq more
  PROVE  GitLog(tips) \subseteq GitLog(more)
  BY GitLogIs

-----------------------------------------------------------------------------
(***************************************************************************)
(* The invariant.  A clone cannot fetch between the comparison of the refs *)
(* and the end of the invocation, so that what origin showed is still here *)
(* when git log is asked, whatever others have pushed to origin since.     *)
(***************************************************************************)
GraphOK ==
  /\ Len(tree) \in 1..MaxCommits
  /\ tree \in Seq(0..MaxCommits)
  /\ Len(parents) = Len(tree)
  /\ \A c \in Made : RangeOf(parents[c]) \subseteq 1..(c - 1) /\ tree[c] < c
  /\ Graph

RefsOK ==
  /\ origin \in [Refs -> {0} \cup Made]
  /\ local \in [Clones -> [Refs -> {0} \cup Made]]
  /\ head \in [Clones -> Made]
  /\ pc \in [Clones -> {"idle", "refsok"}]
  /\ prepared \in [Clones -> {0} \cup Made]
  /\ seen \in [Clones -> SUBSET Made]

SeenIsHere == \A k \in Clones : pc[k] = "refsok" => seen[k] \subseteq Tips(local[k])

IInv == GraphOK /\ RefsOK /\ SeenIsHere

LEMMA InvIsTyped == IInv => TypeOK /\ Graph
  BY DEF IInv, GraphOK, RefsOK, TypeOK

LEMMA InitOK == Init => IInv
<1> SUFFICES ASSUME Init PROVE IInv
  OBVIOUS
<1>1. Len(tree) = 1 /\ Len(parents) = 1 /\ tree[1] = 0 /\ parents[1] = <<>>
  BY DEF Init
<1>2. Made = {1}
  BY <1>1 DEF Made
<1>3. MaxCommits \in Nat /\ 1 \in 1..MaxCommits /\ 0 \in 0..MaxCommits
  BY CommitsAssumption
<1>4. tree \in Seq(0..MaxCommits) /\ Graph
  <2>1. tree \in Seq(0..MaxCommits)
    BY <1>3 DEF Init
  <2>2. <<>> \in Seq(Nat)
    OBVIOUS
  <2>3. parents \in Seq(Seq(Nat))
    BY <2>2 DEF Init
  <2> QED BY <2>1, <2>3 DEF Graph
<1>5. RangeOf(parents[1]) = {}
  BY <1>1 DEF RangeOf
<1>6. \A c \in Made : RangeOf(parents[c]) \subseteq 1..(c - 1) /\ tree[c] < c
  BY <1>1, <1>2, <1>5
<1>7. GraphOK
  BY <1>1, <1>3, <1>4, <1>6 DEF GraphOK
<1>8. RefsOK
  <2>1. origin \in [Refs -> {0} \cup Made]
    BY <1>2 DEF Init
  <2>2. local \in [Clones -> [Refs -> {0} \cup Made]]
    BY <2>1 DEF Init
  <2> QED BY <1>2, <2>1, <2>2 DEF Init, RefsOK
<1>9. SeenIsHere
  BY DEF Init, SeenIsHere
<1> QED BY <1>7, <1>8, <1>9 DEF IInv

-----------------------------------------------------------------------------
(***************************************************************************)
(* A commit whose parents are made, and that holds a source made before,   *)
(* extends the history.                                                    *)
(***************************************************************************)
LEMMA TreeIsOlder ==
  ASSUME IInv, NEW c \in Made
  PROVE  tree[c] \in 0..Len(tree)
  BY InvIsTyped, GraphFacts DEF Made

LEMMA CommitKeeps ==
  ASSUME IInv, NEW r \in Refs, NEW ps \in Seq(Made), NEW t \in 0..Len(tree),
         Commit(r, ps, t)
  PROVE  /\ GraphOK'
         /\ Made \subseteq Made' /\ Len(tree) + 1 \in Made'
         /\ origin' \in [Refs -> {0} \cup Made']
<1> DEFINE n == Len(tree)
<1>1. n \in Nat /\ n >= 1 /\ n < MaxCommits /\ MaxCommits \in Nat /\ Len(parents) = n
  BY CommitsAssumption DEF IInv, GraphOK, Commit
<1>2. parents' = Append(parents, ps) /\ tree' = Append(tree, t)
  BY DEF Commit
<1>3. tree \in Seq(0..MaxCommits) /\ t \in 0..MaxCommits /\ parents \in Seq(Seq(Nat))
  BY <1>1 DEF IInv, GraphOK, Graph
<1>4. tree' \in Seq(0..MaxCommits) /\ Len(tree') = n + 1 /\ tree'[n + 1] = t
      /\ \A c \in 1..n : tree'[c] = tree[c]
  BY <1>1, <1>2, <1>3, AppendProperties
<1>5. ps \in Seq(Nat) /\ RangeOf(ps) \subseteq 1..n
  <2>1. Made \subseteq Nat /\ Made = 1..n
    BY <1>1 DEF Made
  <2>2. \A i \in DOMAIN ps : ps[i] \in Made
    OBVIOUS
  <2> QED BY <2>1, <2>2 DEF RangeOf
<1>6. parents' \in Seq(Seq(Nat)) /\ Len(parents') = n + 1 /\ parents'[n + 1] = ps
      /\ \A c \in 1..n : parents'[c] = parents[c]
  <2> DEFINE S == Seq(Nat)
  <2>1. parents \in Seq(S) /\ ps \in S
    BY <1>3, <1>5
  <2> HIDE DEF S
  <2>2. parents' \in Seq(S) /\ Len(parents') = n + 1 /\ parents'[n + 1] = ps
        /\ \A c \in 1..n : parents'[c] = parents[c]
    BY <1>1, <1>2, <2>1, AppendProperties
  <2> QED BY <2>2 DEF S
<1>7. Made = 1..n /\ Made' = 1..(n + 1)
  BY <1>1, <1>4 DEF Made
<1>8. ASSUME NEW c \in 1..(n + 1)
      PROVE  RangeOf(parents'[c]) \subseteq 1..(c - 1) /\ tree'[c] < c
  <2>1. CASE c = n + 1
    <3>1. tree'[c] = t /\ parents'[c] = ps /\ c - 1 = n
      BY <1>1, <1>4, <1>6, <2>1
    <3> QED BY <1>1, <1>5, <2>1, <3>1
  <2>2. CASE c # n + 1
    <3>1. c \in 1..n
      BY <1>1, <2>2
    <3>2. RangeOf(parents[c]) \subseteq 1..(c - 1) /\ tree[c] < c
      BY <1>7, <3>1 DEF IInv, GraphOK
    <3> QED BY <1>4, <1>6, <3>1, <3>2
  <2> QED BY <2>1, <2>2
<1>9. GraphOK'
  <2>1. n + 1 \in 1..MaxCommits
    BY <1>1
  <2>2. (\A c \in Made : RangeOf(parents[c]) \subseteq 1..(c - 1) /\ tree[c] < c)'
    BY <1>7, <1>8 DEF RangeOf
  <2>3. Graph'
    BY <1>6 DEF Graph
  <2> HIDE DEF n
  <2> QED BY <1>4, <1>6, <2>1, <2>2, <2>3 DEF GraphOK
<1>10. Made \subseteq Made' /\ n + 1 \in Made'
  BY <1>1, <1>7
<1>11. origin' \in [Refs -> {0} \cup Made']
  BY <1>10 DEF IInv, RefsOK, Commit
<1> QED BY <1>9, <1>10, <1>11

(* Others' commits leave the clones alone.                                 *)
LEMMA CommitElsewhere ==
  ASSUME IInv, NEW r \in Refs, NEW ps \in Seq(Made), NEW t \in 0..Len(tree),
         Commit(r, ps, t), UNCHANGED <<local, head, pc, prepared, seen>>
  PROVE  IInv'
<1>1. GraphOK' /\ Made \subseteq Made' /\ origin' \in [Refs -> {0} \cup Made']
  BY CommitKeeps
<1>2. RefsOK'
  BY <1>1 DEF IInv, RefsOK
<1>3. SeenIsHere'
  BY DEF IInv, SeenIsHere, Tips
<1> QED BY <1>1, <1>2, <1>3 DEF IInv

LEMMA OriginAt ==
  ASSUME IInv, NEW r \in Refs, origin[r] # 0
  PROVE  origin[r] \in Made /\ <<origin[r]>> \in Seq(Made) /\ Ancestors[origin[r]] \subseteq Made
<1>1. origin[r] \in Made
  BY DEF IInv, RefsOK
<1>2. PICK a : a = origin[r]
  OBVIOUS
<1>3. Ancestors[a] \subseteq 1..a /\ a \in 1..Len(tree) /\ Len(tree) \in Nat
  BY <1>1, <1>2, InvIsTyped, ReachFacts, GraphFacts DEF Made
<1>4. Ancestors[a] \subseteq Made
  BY <1>3 DEF Made
<1> QED BY <1>1, <1>2, <1>4

(* The graph and origin as they were: the clones and the invocations.      *)
LEMMA SameGraph ==
  ASSUME IInv, UNCHANGED graph
  PROVE  GraphOK' /\ Made' = Made
  BY DEF IInv, GraphOK, Graph, Made, graph, RangeOf

LEMMA RequireRefsKeeps ==
  ASSUME IInv, NEW k \in Clones, RequireRefsComplete(k)
  PROVE  IInv'
<1>1. GraphOK' /\ Made' = Made
  BY SameGraph DEF RequireRefsComplete
<1>2. Tips(origin) \subseteq Made
  BY DEF IInv, RefsOK, Tips
<1>3. Tips(origin) \subseteq Tips(local[k])
  <2> SUFFICES ASSUME NEW r \in Refs, origin[r] # 0 PROVE origin[r] \in Tips(local[k])
    BY DEF Tips
  <2>1. local[k][r] = origin[r]
    BY DEF RequireRefsComplete, RefsComplete
  <2> QED BY <2>1 DEF Tips
<1>4. RefsOK'
  BY <1>1, <1>2 DEF IInv, RefsOK, RequireRefsComplete
<1>5. SeenIsHere'
  <2> SUFFICES ASSUME NEW j \in Clones, pc'[j] = "refsok" PROVE seen'[j] \subseteq Tips(local[j])
    BY DEF SeenIsHere, Tips, RequireRefsComplete
  <2>1. CASE j = k
    BY <1>3, <2>1 DEF IInv, RefsOK, RequireRefsComplete
  <2>2. CASE j # k
    BY <2>2 DEF IInv, RefsOK, SeenIsHere, RequireRefsComplete
  <2> QED BY <2>1, <2>2
<1> QED BY <1>1, <1>4, <1>5 DEF IInv

(* The end of an invocation, with a snapshot or without.                   *)
LEMMA AnswerKeeps ==
  ASSUME IInv, NEW k \in Clones, Refuse(k) \/ Publish(k)
  PROVE  IInv'
<1>1. GraphOK' /\ Made' = Made
  BY SameGraph DEF Refuse, Publish
<1>2. RefsOK'
  BY <1>1 DEF IInv, RefsOK, Refuse, Publish
<1>3. SeenIsHere'
  <2> SUFFICES ASSUME NEW j \in Clones, pc'[j] = "refsok" PROVE seen'[j] \subseteq Tips(local[j])
    BY DEF SeenIsHere, Tips, Refuse, Publish
  <2>1. j # k /\ pc[j] = "refsok" /\ seen'[j] = seen[j]
    BY DEF IInv, RefsOK, Refuse, Publish
  <2> QED BY <2>1 DEF IInv, SeenIsHere
<1> QED BY <1>1, <1>2, <1>3 DEF IInv

LEMMA PushSnapshotKeeps ==
  ASSUME IInv, NEW k \in Clones, NEW r \in Refs, PushSnapshot(k, r)
  PROVE  IInv'
<1> DEFINE n == Len(tree) + 1
<1>1. <<origin[r]>> \in Seq(Made)
  BY OriginAt DEF PushSnapshot
<1>2. prepared[k] \in 0..Len(tree)
  BY DEF IInv, RefsOK, GraphOK, Made
<1>3. GraphOK' /\ Made \subseteq Made' /\ n \in Made' /\ origin' \in [Refs -> {0} \cup Made']
  BY <1>1, <1>2, CommitKeeps DEF PushSnapshot
<1>4. RefsOK'
  <2>1. local'= [local EXCEPT ![k] = [local[k] EXCEPT ![r] = n]]
    BY DEF PushSnapshot
  <2>2. local \in [Clones -> [Refs -> {0} \cup Made']]
    BY <1>3 DEF IInv, RefsOK
  <2>3. local' \in [Clones -> [Refs -> {0} \cup Made']]
    <3> HIDE DEF n
    <3> QED BY <1>3, <2>1, <2>2
  <2>4. head' \in [Clones -> Made']
    BY <1>3 DEF IInv, RefsOK, PushSnapshot
  <2>5. pc' \in [Clones -> {"idle", "refsok"}] /\ prepared' \in [Clones -> {0} \cup Made']
        /\ seen' \in [Clones -> SUBSET Made']
    BY <1>3 DEF IInv, RefsOK, PushSnapshot
  <2> QED BY <1>3, <2>3, <2>4, <2>5 DEF RefsOK
<1>5. SeenIsHere'
  <2> SUFFICES ASSUME NEW j \in Clones, pc'[j] = "refsok" PROVE seen'[j] \subseteq Tips(local'[j])
    BY DEF SeenIsHere, Tips
  <2>1. j # k /\ pc[j] = "refsok" /\ local'[j] = local[j] /\ seen'[j] = seen[j]
    BY DEF IInv, RefsOK, PushSnapshot
  <2> QED BY <2>1 DEF IInv, SeenIsHere
<1> QED BY <1>3, <1>4, <1>5 DEF IInv

(* Work of others: commits on a ref, and merges.                           *)
LEMMA PushElsewhereKeeps ==
  ASSUME IInv, NEW r \in Refs, PushElsewhere(r)
  PROVE  IInv'
<1>1. <<origin[r]>> \in Seq(Made) /\ Ancestors[origin[r]] \subseteq Made
  BY OriginAt DEF PushElsewhere
<1>2. PICK c \in Ancestors[origin[r]] : Commit(r, <<origin[r]>>, c)
  BY DEF PushElsewhere
<1>3. c \in 0..Len(tree)
  BY <1>1, <1>2 DEF IInv, GraphOK, Made
<1> QED BY <1>1, <1>2, <1>3, CommitElsewhere DEF PushElsewhere

LEMMA OtherWorkKeeps ==
  ASSUME IInv, NEW r \in Refs, OtherWork(r) \/ DeletePath(r)
  PROVE  IInv'
<1>1. <<origin[r]>> \in Seq(Made) /\ origin[r] \in Made
  BY OriginAt DEF OtherWork, DeletePath
<1>2. tree[origin[r]] \in 0..Len(tree) /\ 0 \in 0..Len(tree)
  BY <1>1, TreeIsOlder
<1>3. CASE OtherWork(r)
  BY <1>1, <1>2, <1>3, CommitElsewhere DEF OtherWork
<1>4. CASE DeletePath(r)
  BY <1>1, <1>2, <1>4, CommitElsewhere DEF DeletePath
<1> QED BY <1>3, <1>4

LEMMA MergeIntoKeeps ==
  ASSUME IInv, NEW r \in Refs, NEW s \in Refs, MergeInto(r, s)
  PROVE  IInv'
<1>1. origin[r] \in Made /\ origin[s] \in Made
  BY OriginAt DEF MergeInto
<1>2. <<origin[r], origin[s]>> \in Seq(Made)
  BY <1>1
<1>3. PICK t \in MergeResults(origin[r], origin[s]) : Commit(r, <<origin[r], origin[s]>>, t)
  BY DEF MergeInto
<1>4. t \in {tree[origin[r]], tree[origin[s]]}
  BY <1>3 DEF MergeResults
<1>5. t \in 0..Len(tree)
  BY <1>1, <1>4, TreeIsOlder
<1> QED BY <1>2, <1>3, <1>5, CommitElsewhere DEF MergeInto

(* Branches, fetches and checkouts.                                        *)
LEMMA BranchKeeps ==
  ASSUME IInv, UNCHANGED <<graph, local, head, pc, prepared, seen>>,
         origin' \in [Refs -> {0} \cup Made]
  PROVE  IInv'
<1>1. GraphOK' /\ Made' = Made
  BY SameGraph
<1>2. RefsOK'
  BY <1>1 DEF IInv, RefsOK
<1>3. SeenIsHere'
  BY DEF IInv, SeenIsHere, Tips
<1> QED BY <1>1, <1>2, <1>3 DEF IInv

LEMMA FetchKeeps ==
  ASSUME IInv, NEW k \in Clones, pc[k] = "idle",
         NEW refs \in [Refs -> {0} \cup Made], local' = [local EXCEPT ![k] = refs],
         UNCHANGED <<graph, origin, head, pc, prepared, seen>>
  PROVE  IInv'
<1>1. GraphOK' /\ Made' = Made
  BY SameGraph
<1>2. RefsOK'
  BY <1>1 DEF IInv, RefsOK
<1>3. SeenIsHere'
  <2> SUFFICES ASSUME NEW j \in Clones, pc[j] = "refsok" PROVE seen[j] \subseteq Tips(local'[j])
    BY DEF SeenIsHere, Tips
  <2>1. j # k /\ local'[j] = local[j]
    BY DEF IInv, RefsOK
  <2> QED BY <2>1 DEF IInv, SeenIsHere
<1> QED BY <1>1, <1>2, <1>3 DEF IInv

LEMMA CheckoutKeeps ==
  ASSUME IInv, NEW k \in Clones, NEW r \in Refs, Checkout(k, r)
  PROVE  IInv'
<1>1. GraphOK' /\ Made' = Made
  BY SameGraph DEF Checkout
<1>2. local[k][r] \in Made
  BY DEF IInv, RefsOK, Checkout
<1>3. RefsOK'
  BY <1>1, <1>2 DEF IInv, RefsOK, Checkout
<1>4. SeenIsHere'
  <2>1. UNCHANGED <<local, pc, seen>>
    BY DEF Checkout
  <2> QED BY <2>1 DEF IInv, SeenIsHere, Tips
<1> QED BY <1>1, <1>3, <1>4 DEF IInv

LEMMA Invariance == Spec => []IInv
<1>1. ASSUME IInv, Next PROVE IInv'
  <2>1. ASSUME NEW k \in Clones, RequireRefsComplete(k) PROVE IInv'
    BY <1>1, <2>1, RequireRefsKeeps
  <2>2. ASSUME NEW k \in Clones, Refuse(k) \/ Publish(k) PROVE IInv'
    BY <1>1, <2>2, AnswerKeeps
  <2>3. ASSUME NEW k \in Clones, NEW r \in Refs, PushSnapshot(k, r) PROVE IInv'
    BY <1>1, <2>3, PushSnapshotKeeps
  <2>4. ASSUME NEW r \in Refs, PushElsewhere(r) PROVE IInv'
    BY <1>1, <2>4, PushElsewhereKeeps
  <2>5. ASSUME NEW r \in Refs, OtherWork(r) \/ DeletePath(r) PROVE IInv'
    BY <1>1, <2>5, OtherWorkKeeps
  <2>6. ASSUME NEW r \in Refs, NEW s \in Refs, MergeInto(r, s) PROVE IInv'
    BY <1>1, <2>6, MergeIntoKeeps
  <2>7. ASSUME NEW r \in Refs, NEW s \in Refs, NewBranch(r, s) PROVE IInv'
    <3>1. origin' \in [Refs -> {0} \cup Made]
      BY <1>1, <2>7 DEF IInv, RefsOK, NewBranch
    <3> QED BY <1>1, <2>7, <3>1, BranchKeeps DEF NewBranch
  <2>8. ASSUME NEW r \in Refs, DropMerged(r) PROVE IInv'
    <3>1. origin' \in [Refs -> {0} \cup Made]
      BY <1>1, <2>8 DEF IInv, RefsOK, DropMerged
    <3> QED BY <1>1, <2>8, <3>1, BranchKeeps DEF DropMerged
  <2>9. ASSUME NEW k \in Clones, Fetch(k) PROVE IInv'
    <3>1. origin \in [Refs -> {0} \cup Made]
      BY <1>1 DEF IInv, RefsOK
    <3> QED BY <1>1, <2>9, <3>1, FetchKeeps DEF Fetch
  <2>10. ASSUME NEW k \in Clones, NEW r \in Refs, FetchOneRef(k, r) PROVE IInv'
    <3> DEFINE refs == [local[k] EXCEPT ![r] = origin[r]]
    <3>1. refs \in [Refs -> {0} \cup Made]
      BY <1>1 DEF IInv, RefsOK
    <3>2. local' = [local EXCEPT ![k] = refs]
      BY <2>10 DEF FetchOneRef
    <3> HIDE DEF refs
    <3> QED BY <1>1, <2>10, <3>1, <3>2, FetchKeeps DEF FetchOneRef
  <2>11. ASSUME NEW k \in Clones, NEW r \in Refs, Checkout(k, r) PROVE IInv'
    BY <1>1, <2>11, CheckoutKeeps
  <2> QED
    BY <1>1, <2>1, <2>2, <2>3, <2>4, <2>5, <2>6, <2>7, <2>8, <2>9, <2>10, <2>11 DEF Next
<1>2. ASSUME IInv, UNCHANGED vars PROVE IInv'
  <2>1. UNCHANGED <<graph, local, head, pc, prepared, seen>> /\ origin' \in [Refs -> {0} \cup Made]
    BY <1>2 DEF vars, IInv, RefsOK
  <2> QED BY <1>2, <2>1, BranchKeeps
<1> QED BY InitOK, <1>1, <1>2, PTL DEF Spec

(***************************************************************************)
(* The theorems.  The state has its type.                                  *)
(***************************************************************************)
THEOREM TypeCorrect == Spec => []TypeOK
  BY Invariance, InvIsTyped, PTL

(***************************************************************************)
(* What path_exists_in_git_history answers: never yes without a commit     *)
(* that held the path, and no only if none did, on a merge-free history.   *)
(***************************************************************************)
LEMMA AnswerIsExact == TypeOK /\ Graph => HistoryCheckExact
<1> SUFFICES ASSUME TypeOK, Graph, NEW k \in Clones
             PROVE  /\ GitLog(AllTips(k)) # {} => Held(Reach(AllTips(k))) # {}
                    /\ Linear(Reach(AllTips(k))) /\ Held(Reach(AllTips(k))) # {}
                         => GitLog(AllTips(k)) # {}
  BY DEF HistoryCheckExact, HistoryPathExists
<1>1. AllTips(k) \subseteq Made
  BY DEF TypeOK, AllTips, Tips
<1> QED BY <1>1, ShownIsHeld, LinearHeldIsShown

THEOREM CheckIsExact == Spec => []HistoryCheckExact
  BY Invariance, InvIsTyped, AnswerIsExact, PTL

-----------------------------------------------------------------------------
(***************************************************************************)
(* A snapshot is prepared only by an invocation that saw no history of it  *)
(* in what origin had shown.                                               *)
(***************************************************************************)
LEMMA PublishedIsPublish ==
  ASSUME IInv, Next, NEW k \in Clones, Published(k)
  PROVE  Publish(k)
<1>1. prepared \in [Clones -> {0} \cup Made] /\ prepared[k] = 0 /\ prepared'[k] # 0
  BY DEF IInv, RefsOK, Published
<1>2. prepared' # prepared
  BY <1>1
<1>3. ASSUME NEW j \in Clones, NEW r \in Refs, PushSnapshot(j, r) PROVE FALSE
  BY <1>1, <1>3 DEF PushSnapshot
<1>4. PICK j \in Clones : Publish(j)
  BY <1>2, <1>3 DEF Next, RequireRefsComplete, Refuse, PushElsewhere, OtherWork, DeletePath,
                    MergeInto, NewBranch, DropMerged, Fetch, FetchOneRef, Checkout
<1> QED BY <1>1, <1>4 DEF Publish

LEMMA PublishSawNothing ==
  ASSUME IInv, NEW k \in Clones, Publish(k)
  PROVE  seen[k] \subseteq Made /\ GitLog(seen[k]) = {}
<1>1. seen[k] \subseteq Made /\ seen[k] \subseteq Tips(local[k])
  BY DEF IInv, RefsOK, SeenIsHere, Publish
<1>2. seen[k] \subseteq AllTips(k)
  BY <1>1 DEF AllTips
<1>3. GitLog(seen[k]) \subseteq GitLog(AllTips(k))
  BY <1>2, GitLogGrows
<1> QED BY <1>1, <1>3 DEF Publish, HistoryPathExists

(***************************************************************************)
(* Without merges, no id is prepared again that any commit reachable from  *)
(* origin's refs, as the invocation compared them, has held: deleted since *)
(* or not, and whatever is pushed to origin meanwhile.                     *)
(***************************************************************************)
THEOREM LinearKept == Spec => LinearNeverRebinds
<1>1. ASSUME IInv, [Next]_vars
      PROVE  [\A k \in Clones :
                Published(k) /\ Linear(Reach(seen[k])) => Held(Reach(seen[k])) = {}]_vars
  <2>1. ASSUME Next, NEW k \in Clones, Published(k), Linear(Reach(seen[k]))
        PROVE  Held(Reach(seen[k])) = {}
    <3>1. Publish(k)
      BY <1>1, <2>1, PublishedIsPublish
    <3> QED BY <1>1, <2>1, <3>1, PublishSawNothing, InvIsTyped, LinearHeldIsShown
  <2> QED BY <1>1, <2>1
<1> QED BY Invariance, <1>1, PTL DEF Spec, LinearNeverRebinds

(***************************************************************************)
(* Merges or not, no id is prepared again that a ref of origin holds at    *)
(* its tip.                                                                *)
(***************************************************************************)
THEOREM LiveTipKept == Spec => LiveTipRefused
<1>1. ASSUME IInv, [Next]_vars
      PROVE  [\A k \in Clones : Published(k) => Held(seen[k]) = {}]_vars
  <2>1. ASSUME Next, NEW k \in Clones, Published(k)
        PROVE  Held(seen[k]) = {}
    <3>1. Publish(k)
      BY <1>1, <2>1, PublishedIsPublish
    <3> QED BY <1>1, <2>1, <3>1, PublishSawNothing, InvIsTyped, TipHeldIsShown
  <2> QED BY <1>1, <2>1
<1> QED BY Invariance, <1>1, PTL DEF Spec, LiveTipRefused
=============================================================================
