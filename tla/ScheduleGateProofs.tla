-------------------------- MODULE ScheduleGateProofs --------------------------
(***************************************************************************)
(* Proofs about ScheduleGate, for every set of paths, contents and edits:  *)
(* what the loops of the renderer compute, what a candidate labelled       *)
(* compatible rests on, that its entries are the active ones, that every   *)
(* refusal has a cause, and that renderer and output check agree on a      *)
(* checkout nobody edits between them.                                     *)
(***************************************************************************)
EXTENDS ScheduleGate, WellFoundedInduction, SequenceTheorems, FiniteSetTheorems, TLAPS

(***************************************************************************)
(* Lists: every place of a list is reached one after another, and          *)
(* FlattenSeq takes each element of each list once.                        *)
(***************************************************************************)
LEMMA Below == IsWellFoundedOn({ss \in Nat \X Nat : ss[1] < ss[2]}, Nat)
  BY NatLessThanWellFounded DEF OpToRel

LEMMA OneAfterAnother ==
  ASSUME NEW n \in Nat, NEW S, \A c \in 1..n : 1..(c - 1) \subseteq S => c \in S
  PROVE  1..n \subseteq S
<1> DEFINE R == {ss \in Nat \X Nat : ss[1] < ss[2]}
           B == {c \in 1..n : c \notin S}
<1> SUFFICES ASSUME B # {} PROVE FALSE
  OBVIOUS
<1>1. PICK c \in B : \A d \in B : ~(<<d, c>> \in R)
  <2>1. IsWellFoundedOn(R, Nat) /\ B \subseteq Nat
    BY Below
  <2> HIDE DEF R, B
  <2> QED BY <2>1, WFMin
<1>2. ASSUME NEW d \in 1..(c - 1) PROVE d \in S
  <2>1. d \in 1..n /\ d < c /\ d \in Nat /\ c \in Nat
    OBVIOUS
  <2>2. <<d, c>> \in Nat \X Nat /\ <<d, c>>[1] = d /\ <<d, c>>[2] = c
    BY <2>1
  <2>3. <<d, c>> \in R
    BY <2>1, <2>2
  <2>4. d \notin B
    BY <1>1, <2>3
  <2> QED BY <2>1, <2>4
<1> QED BY <1>1, <1>2

(* FlattenSeq: where each element of the whole comes from.                 *)
Parts(seqs, m, g, at) ==
  /\ at \in [1..Len(g) -> (1..m) \X Nat]
  /\ \A k \in 1..Len(g) : /\ at[k][2] \in 1..Len(seqs[at[k][1]])
                          /\ g[k] = seqs[at[k][1]][at[k][2]]
  /\ \A k, l \in 1..Len(g) : at[k] = at[l] => k = l
  /\ \A i \in 1..m : \A j \in 1..Len(seqs[i]) : \E k \in 1..Len(g) : at[k] = <<i, j>>

LEMMA AppendParts ==
  ASSUME NEW T, NEW seqs \in Seq(Seq(T)), NEW m \in 1..Len(seqs), m > 1,
         NEW g \in Seq(T), NEW at, Parts(seqs, m - 1, g, at)
  PROVE  /\ g \o seqs[m] \in Seq(T)
         /\ \E new : Parts(seqs, m, g \o seqs[m], new)
<1> DEFINE t == seqs[m]
           h == g \o t
           new == [k \in 1..Len(h) |-> IF k <= Len(g) THEN at[k] ELSE <<m, k - Len(g)>>]
<1>1. t \in Seq(T) /\ Len(t) \in Nat /\ Len(g) \in Nat /\ m \in Nat /\ Len(seqs) \in Nat
  OBVIOUS
<1>2. /\ h \in Seq(T) /\ Len(h) = Len(g) + Len(t)
      /\ \A k \in 1..(Len(g) + Len(t)) : h[k] = IF k <= Len(g) THEN g[k] ELSE t[k - Len(g)]
  <2> HIDE DEF t
  <2> QED BY <1>1, ConcatProperties
<1> HIDE DEF h
<1>3. ASSUME NEW k \in 1..Len(h)
      PROVE  \/ k \in 1..Len(g) /\ new[k] = at[k] /\ h[k] = g[k]
             \/ /\ k - Len(g) \in 1..Len(t) /\ ~(k <= Len(g))
                /\ new[k] = <<m, k - Len(g)>> /\ h[k] = t[k - Len(g)]
  <2>1. new[k] = IF k <= Len(g) THEN at[k] ELSE <<m, k - Len(g)>>
    OBVIOUS
  <2>2. k \in 1..(Len(g) + Len(t)) /\ k \in Nat
    BY <1>1, <1>2
  <2>3. h[k] = IF k <= Len(g) THEN g[k] ELSE t[k - Len(g)]
    BY <1>2, <2>2
  <2> HIDE DEF new, t
  <2>4. CASE k <= Len(g)
    <3>1. k \in 1..Len(g)
      BY <1>1, <2>2, <2>4
    <3> QED BY <2>1, <2>3, <2>4, <3>1
  <2>5. CASE ~(k <= Len(g))
    <3>1. k - Len(g) \in 1..Len(t)
      BY <1>1, <2>2, <2>5
    <3> QED BY <2>1, <2>3, <2>5, <3>1
  <2> QED BY <2>4, <2>5
<1>4. \A k \in 1..Len(g) : /\ at[k] \in (1..(m - 1)) \X Nat /\ at[k] \in (1..m) \X Nat
                           /\ at[k][1] # m
  <2>1. ASSUME NEW k \in 1..Len(g)
        PROVE  at[k] \in (1..m) \X Nat /\ at[k][1] # m /\ at[k] \in (1..(m - 1)) \X Nat
    <3>1. at[k] \in (1..(m - 1)) \X Nat
      BY DEF Parts
    <3>2. at[k][1] \in 1..(m - 1) /\ at[k][2] \in Nat /\ at[k] = <<at[k][1], at[k][2]>>
      BY <3>1
    <3>3. at[k][1] \in 1..m /\ at[k][1] # m
      BY <1>1, <3>2
    <3> QED BY <3>1, <3>2, <3>3
  <2> QED BY <2>1
<1>5. new \in [1..Len(h) -> (1..m) \X Nat]
  <2>1. ASSUME NEW k \in 1..Len(h) PROVE new[k] \in (1..m) \X Nat
    <3> HIDE DEF new, t
    <3>1. m \in 1..m
      BY <1>1
    <3>2. CASE k \in 1..Len(g) /\ new[k] = at[k]
      BY <1>4, <3>2
    <3>3. CASE k - Len(g) \in 1..Len(t) /\ new[k] = <<m, k - Len(g)>>
      <4>1. k - Len(g) \in Nat
        BY <1>1, <3>3
      <4> QED BY <3>1, <3>3, <4>1
    <3> QED BY <1>3, <3>2, <3>3
  <2> QED BY <2>1
<1>6. \A k \in 1..Len(h) : /\ new[k][2] \in 1..Len(seqs[new[k][1]])
                           /\ h[k] = seqs[new[k][1]][new[k][2]]
  <2> SUFFICES ASSUME NEW k \in 1..Len(h)
               PROVE  new[k][2] \in 1..Len(seqs[new[k][1]]) /\ h[k] = seqs[new[k][1]][new[k][2]]
    OBVIOUS
  <2>1. CASE k \in 1..Len(g) /\ new[k] = at[k] /\ h[k] = g[k]
    <3> HIDE DEF new
    <3> QED BY <2>1 DEF Parts
  <2>2. CASE /\ k - Len(g) \in 1..Len(t)
             /\ new[k] = <<m, k - Len(g)>> /\ h[k] = t[k - Len(g)]
    <3> HIDE DEF new
    <3> QED BY <2>2
  <2> QED BY <1>3, <2>1, <2>2
<1>7. \A k, l \in 1..Len(h) : new[k] = new[l] => k = l
  <2> SUFFICES ASSUME NEW k \in 1..Len(h), NEW l \in 1..Len(h), new[k] = new[l]
               PROVE  k = l
    OBVIOUS
  <2>0. k \in Nat /\ l \in Nat
    OBVIOUS
  <2> HIDE DEF new, t
  <2> DEFINE Old(x) == x \in 1..Len(g) /\ new[x] = at[x]
             Add(x) == new[x] = <<m, x - Len(g)>>
  <2>1. (Old(k) \/ Add(k)) /\ (Old(l) \/ Add(l))
    BY <1>3
  <2>2. CASE Old(k) /\ Old(l)
    BY <2>2 DEF Parts
  <2>3. \A x, y : Old(x) /\ Add(y) => new[x] # new[y]
    <3> SUFFICES ASSUME NEW x, NEW y, Old(x), Add(y) PROVE new[x] # new[y]
      OBVIOUS
    <3>1. new[x][1] # m /\ new[y][1] = m
      BY <1>4
    <3> QED BY <3>1
  <2>4. CASE Add(k) /\ Add(l)
    <3>1. k - Len(g) = l - Len(g)
      <4>1. <<m, k - Len(g)>> = <<m, l - Len(g)>>
        BY <2>4
      <4>2. <<m, k - Len(g)>>[2] = k - Len(g) /\ <<m, l - Len(g)>>[2] = l - Len(g)
        OBVIOUS
      <4> QED BY <4>1, <4>2
    <3> QED BY <1>1, <2>0, <3>1
  <2> QED BY <2>1, <2>2, <2>3, <2>4
<1>8. \A i \in 1..m : \A j \in 1..Len(seqs[i]) : \E k \in 1..Len(h) : new[k] = <<i, j>>
  <2> SUFFICES ASSUME NEW i \in 1..m, NEW j \in 1..Len(seqs[i])
               PROVE  \E k \in 1..Len(h) : new[k] = <<i, j>>
    OBVIOUS
  <2>1. CASE i # m
    <3>1. i \in 1..(m - 1)
      BY <1>1, <2>1
    <3>2. PICK k \in 1..Len(g) : at[k] = <<i, j>>
      BY <3>1 DEF Parts
    <3>3. k \in 1..Len(h) /\ k <= Len(g)
      BY <1>1, <1>2
    <3> QED BY <3>2, <3>3
  <2>2. CASE i = m
    <3> DEFINE k == Len(g) + j
    <3>1. j \in Nat /\ j >= 1 /\ j <= Len(t)
      BY <1>1, <2>2
    <3>2. k \in 1..Len(h) /\ ~(k <= Len(g)) /\ k - Len(g) = j
      BY <1>1, <1>2, <3>1
    <3>3. new[k] = <<m, j>>
      BY <3>2
    <3> QED BY <2>2, <3>2, <3>3
  <2> QED BY <2>1, <2>2
<1>9. Parts(seqs, m, h, new)
  <2> HIDE DEF new
  <2> QED BY <1>5, <1>6, <1>7, <1>8 DEF Parts
<1> QED BY <1>2, <1>9 DEF h

Flattens(seqs, n, f) == f = [i \in 1..n |-> IF i = 1 THEN seqs[i] ELSE f[i - 1] \o seqs[i]]

LEMMA FlattenExists ==
  ASSUME NEW n \in Nat, NEW seqs
  PROVE  \E f : Flattens(seqs, n, f)
<1> DEFINE S == {m \in 1..(n + 1) : \E f : Flattens(seqs, m - 1, f)}
<1>1. ASSUME NEW c \in 1..(n + 1), 1..(c - 1) \subseteq S
      PROVE  c \in S
  <2>1. CASE c = 1
    <3> DEFINE e == [d \in 1..0 |-> {}]
    <3>1. Flattens(seqs, 0, e)
      <4>1. 1..0 = {}
        OBVIOUS
      <4>2. e = [i \in 1..0 |-> IF i = 1 THEN seqs[i] ELSE e[i - 1] \o seqs[i]]
        BY <4>1
      <4> QED BY <4>2 DEF Flattens
    <3> QED BY <2>1, <3>1
  <2>2. CASE c # 1
    <3> DEFINE m == c - 1
    <3>1. m \in 1..(n + 1) /\ m \in 1..(c - 1) /\ m - 1 \in Nat /\ m \in Nat
      BY <2>2
    <3>2. PICK f : Flattens(seqs, m - 1, f)
      BY <1>1, <3>1
    <3> DEFINE g == [i \in 1..m |-> IF i = m THEN (IF i = 1 THEN seqs[i] ELSE f[i - 1] \o seqs[i])
                                    ELSE f[i]]
    <3>3. ASSUME NEW i \in 1..m
          PROVE  g[i] = IF i = 1 THEN seqs[i] ELSE g[i - 1] \o seqs[i]
      <4>1. i # 1 => i - 1 \in 1..m /\ i - 1 # m
        BY <3>1
      <4>2. i # 1 => g[i - 1] = f[i - 1]
        BY <4>1
      <4>3. CASE i = m
        BY <4>2, <4>3
      <4>4. CASE i # m
        <5>1. i \in 1..(m - 1)
          BY <3>1, <4>4
        <5>2. f[i] = IF i = 1 THEN seqs[i] ELSE f[i - 1] \o seqs[i]
          BY <3>2, <5>1 DEF Flattens
        <5> QED BY <4>2, <4>4, <5>2
      <4> QED BY <4>3, <4>4
    <3>4. Flattens(seqs, m, g)
      <4>1. g = [i \in 1..m |-> g[i]]
        OBVIOUS
      <4> HIDE DEF g
      <4>2. g = [i \in 1..m |-> IF i = 1 THEN seqs[i] ELSE g[i - 1] \o seqs[i]]
        BY <3>3, <4>1
      <4> QED BY <4>2 DEF Flattens
    <3> QED BY <3>4
  <2> QED BY <2>1, <2>2
<1>2. 1..(n + 1) \subseteq S
  <2>1. n + 1 \in Nat
    OBVIOUS
  <2> HIDE DEF S
  <2> QED BY <1>1, <2>1, OneAfterAnother
<1>3. n + 1 \in S
  BY <1>2
<1> QED BY <1>3

LEMMA FlattenFacts ==
  ASSUME NEW T, NEW seqs \in Seq(Seq(T))
  PROVE  /\ FlattenSeq(seqs) \in Seq(T)
         /\ \E at : Parts(seqs, Len(seqs), FlattenSeq(seqs), at)
<1> DEFINE n == Len(seqs)
<1>0. n \in Nat
  OBVIOUS
<1>1. CASE n = 0
  <2>1. seqs = <<>> /\ FlattenSeq(seqs) = <<>>
    BY <1>1 DEF FlattenSeq
  <2> DEFINE e == [k \in 1..0 |-> <<1, 1>>]
  <2>2. Parts(seqs, 0, <<>>, e)
    <3>1. 1..0 = {} /\ Len(<<>>) = 0
      OBVIOUS
    <3>2. e \in [1..0 -> (1..0) \X Nat]
      BY <3>1
    <3> QED BY <3>1, <3>2 DEF Parts
  <2> HIDE DEF e
  <2>3. Parts(seqs, Len(seqs), FlattenSeq(seqs), e)
    BY <1>1, <2>1, <2>2
  <2>4. FlattenSeq(seqs) \in Seq(T)
    <3>1. <<>> \in Seq(T)
      OBVIOUS
    <3> QED BY <2>1, <3>1, Zenon
  <2> QED BY <2>3, <2>4
<1>2. CASE n # 0
  <2> DEFINE f == CHOOSE f : f = [i \in 1..n |-> IF i = 1 THEN seqs[i] ELSE f[i - 1] \o seqs[i]]
  <2>1. FlattenSeq(seqs) = f[n]
    BY <1>2 DEF FlattenSeq
  <2>2. PICK w : Flattens(seqs, n, w)
    BY <1>0, FlattenExists
  <2>3. f = [i \in 1..n |-> IF i = 1 THEN seqs[i] ELSE f[i - 1] \o seqs[i]]
    BY <2>2 DEF Flattens
  <2> HIDE DEF f
  <2>4. \A i \in 1..n : f[i] = IF i = 1 THEN seqs[i] ELSE f[i - 1] \o seqs[i]
    BY <2>3
  <2> DEFINE S == {m \in 1..n : f[m] \in Seq(T) /\ \E at : Parts(seqs, m, f[m], at)}
  <2>5. ASSUME NEW m \in 1..n, 1..(m - 1) \subseteq S
        PROVE  m \in S
    <3>1. CASE m = 1
      <4> DEFINE g == seqs[1]
                 at == [k \in 1..Len(g) |-> <<1, k>>]
      <4>1. f[1] = g /\ g \in Seq(T) /\ Len(g) \in Nat
        BY <2>4, <3>1
      <4>2. at \in [1..Len(g) -> (1..1) \X Nat]
        BY <4>1
      <4>3. \A k \in 1..Len(g) : at[k][1] = 1 /\ at[k][2] = k /\ at[k] = <<1, k>>
        OBVIOUS
      <4>4. \A i \in 1..1 : i = 1
        OBVIOUS
      <4>5. Parts(seqs, 1, g, at)
        <5> HIDE DEF at
        <5>1. \A k, l \in 1..Len(g) : at[k] = at[l] => k = l
          BY <4>3
        <5>2. \A i \in 1..1 : \A j \in 1..Len(seqs[i]) : \E k \in 1..Len(g) : at[k] = <<i, j>>
          BY <4>3, <4>4
        <5> QED BY <4>2, <4>3, <5>1, <5>2 DEF Parts
      <4> QED BY <3>1, <4>1, <4>5
    <3>2. CASE m # 1
      <4>1. m - 1 \in 1..(m - 1) /\ m > 1
        BY <1>0, <3>2
      <4>2. f[m - 1] \in Seq(T) /\ \E at : Parts(seqs, m - 1, f[m - 1], at)
        BY <2>5, <4>1
      <4>3. PICK at : Parts(seqs, m - 1, f[m - 1], at)
        BY <4>2
      <4>4. f[m] = f[m - 1] \o seqs[m]
        BY <2>4, <3>2
      <4>5. f[m] \in Seq(T) /\ \E new : Parts(seqs, m, f[m], new)
        BY <4>1, <4>2, <4>3, <4>4, AppendParts
      <4> QED BY <4>5
    <3> QED BY <3>1, <3>2
  <2>6. 1..n \subseteq S
    <3> HIDE DEF S, n
    <3> QED BY <1>0, <2>5, OneAfterAnother
  <2>7. n \in S
    BY <1>0, <1>2, <2>6
  <2>8. f[n] \in Seq(T) /\ \E at : Parts(seqs, n, f[n], at)
    BY <2>7
  <2> QED BY <2>1, <2>8
<1> QED BY <1>1, <1>2

(* The elements of s at the places K, in their order.                      *)
Picks(g, s, K, from) ==
  /\ g \in Seq(ToSet(s))
  /\ from \in [1..Len(g) -> K]
  /\ \A k \in 1..Len(g) : g[k] = s[from[k]]
  /\ \A k, l \in 1..Len(g) : from[k] = from[l] => k = l
  /\ \A i \in K : \E k \in 1..Len(g) : from[k] = i

LEMMA KeepingFacts ==
  ASSUME NEW s, IsList(s), NEW K, K \subseteq DOMAIN s
  PROVE  \E from : Picks(FlattenSeq([i \in DOMAIN s |-> IF i \in K THEN <<s[i]>> ELSE <<>>]),
                         s, K, from)
<1> DEFINE seqs == [i \in DOMAIN s |-> IF i \in K THEN <<s[i]>> ELSE <<>>]
           T == ToSet(s)
           g == FlattenSeq(seqs)
<1>1. s \in Seq(T) /\ DOMAIN s = 1..Len(s) /\ Len(s) \in Nat
  BY DEF IsList
<1>2. \A i \in DOMAIN s : s[i] \in T
  BY DEF ToSet
<1>3. \A i \in DOMAIN s : seqs[i] \in Seq(T)
  <2> HIDE DEF T
  <2> QED BY <1>2
<1>4. seqs \in Seq(Seq(T)) /\ Len(seqs) = Len(s)
  <2> HIDE DEF T
  <2>1. seqs \in [1..Len(s) -> Seq(T)]
    BY <1>1, <1>3
  <2> HIDE DEF seqs
  <2> QED BY <1>1, <2>1
<1>5. g \in Seq(T) /\ \E at : Parts(seqs, Len(s), g, at)
  <2> HIDE DEF seqs, T
  <2> QED BY <1>4, FlattenFacts
<1>6. PICK at : Parts(seqs, Len(s), g, at)
  BY <1>5
<1>7. \A i \in DOMAIN s : /\ i \in K => seqs[i] = <<s[i]>> /\ Len(seqs[i]) = 1 /\ seqs[i][1] = s[i]
                          /\ i \notin K => Len(seqs[i]) = 0
  OBVIOUS
<1> HIDE DEF seqs, g, T
<1> DEFINE from == [k \in 1..Len(g) |-> at[k][1]]
<1>8. ASSUME NEW k \in 1..Len(g)
      PROVE  at[k][1] \in K /\ at[k] = <<at[k][1], 1>> /\ g[k] = s[at[k][1]]
  <2>1. at[k] \in (1..Len(s)) \X Nat
    BY <1>6 DEF Parts
  <2>2. PICK i \in 1..Len(s), j \in Nat : at[k] = <<i, j>>
    BY <2>1
  <2>3. at[k][1] = i /\ at[k][2] = j /\ j \in 1..Len(seqs[i]) /\ g[k] = seqs[i][j]
    BY <1>6, <2>2 DEF Parts
  <2>4. i \in K
    BY <1>1, <1>7, <2>3
  <2>5. j = 1
    BY <1>1, <1>7, <2>3, <2>4
  <2> QED BY <1>1, <1>7, <2>2, <2>3, <2>4, <2>5
<1>9. from \in [1..Len(g) -> K] /\ \A k \in 1..Len(g) : g[k] = s[from[k]]
  BY <1>8
<1>10. \A k, l \in 1..Len(g) : from[k] = from[l] => k = l
  <2> SUFFICES ASSUME NEW k \in 1..Len(g), NEW l \in 1..Len(g), at[k][1] = at[l][1] PROVE k = l
    OBVIOUS
  <2>1. at[k] = at[l]
    BY <1>8
  <2> QED BY <1>6, <2>1 DEF Parts
<1>11. ASSUME NEW i \in K PROVE \E k \in 1..Len(g) : from[k] = i
  <2>1. i \in 1..Len(s) /\ 1 \in 1..Len(seqs[i])
    BY <1>1, <1>7
  <2>2. PICK k \in 1..Len(g) : at[k] = <<i, 1>>
    BY <1>6, <2>1 DEF Parts
  <2> QED BY <2>2
<1>12. Picks(g, s, K, from)
  <2> HIDE DEF from
  <2> QED BY <1>5, <1>9, <1>10, <1>11 DEF Picks, T
<1> QED BY <1>12 DEF g, seqs

-----------------------------------------------------------------------------
(* The outcome of a State: of the last overlay that names it, or the last  *)
(* of the four lists.                                                      *)
LEMMA Greatest ==
  ASSUME NEW n \in Nat, NEW S, S \subseteq 1..n, S # {}
  PROVE  \E i \in S : \A j \in S : j <= i
<1> DEFINE Has(c) == \E i \in S : i <= c
           Top(c) == \E i \in S : i <= c /\ \A j \in S : j <= c => j <= i
           B == {c \in 1..n : Has(c) => Top(c)}
<1>1. ASSUME NEW c \in 1..n, 1..(c - 1) \subseteq B PROVE c \in B
  <2> SUFFICES ASSUME Has(c) PROVE Top(c)
    OBVIOUS
  <2>1. CASE c \in S
    BY <2>1
  <2>2. CASE c \notin S
    <3>1. PICK i \in S : i <= c
      OBVIOUS
    <3>2. i \in 1..n /\ i # c /\ i \in 1..(c - 1) /\ c - 1 \in 1..(c - 1)
      BY <2>2, <3>1
    <3>3. c - 1 \in B /\ Has(c - 1)
      BY <1>1, <3>2
    <3>4. PICK k \in S : k <= c - 1 /\ \A j \in S : j <= c - 1 => j <= k
      BY <3>3
    <3>5. \A j \in S : j <= c => j <= c - 1
      BY <2>2
    <3> QED BY <3>4, <3>5
  <2> QED BY <2>1, <2>2
<1>2. 1..n \subseteq B
  <2> HIDE DEF B
  <2> QED BY <1>1, OneAfterAnother
<1>3. PICK s \in S : TRUE
  OBVIOUS
<1>4. n \in 1..n /\ Has(n)
  BY <1>3
<1>5. Top(n)
  BY <1>2, <1>4
<1> QED BY <1>5

LEMMA LastListed ==
  ASSUME NEW fs, NEW s
  PROVE  BaseOutcome(fs, s) = IF s \in fs["states"]["N"] THEN "N"
                              ELSE IF s \in fs["states"]["U"] THEN "U"
                              ELSE IF s \in fs["states"]["S"] THEN "S"
                              ELSE IF s \in fs["states"]["R"] THEN "R" ELSE Absent
<1> DEFINE listed == {i \in DOMAIN OutcomeOrder : s \in fs["states"][OutcomeOrder[i]]}
           m == CHOOSE i \in listed : \A j \in listed : j <= i
<1>1. DOMAIN OutcomeOrder = 1..4 /\ OutcomeOrder[1] = "R" /\ OutcomeOrder[2] = "S"
      /\ OutcomeOrder[3] = "U" /\ OutcomeOrder[4] = "N"
  BY DEF OutcomeOrder
<1>2. \A i : i \in listed <=> \/ i = 1 /\ s \in fs["states"]["R"]
                              \/ i = 2 /\ s \in fs["states"]["S"]
                              \/ i = 3 /\ s \in fs["states"]["U"]
                              \/ i = 4 /\ s \in fs["states"]["N"]
  BY <1>1
<1>3. BaseOutcome(fs, s) = IF listed = {} THEN Absent ELSE OutcomeOrder[m]
  BY DEF BaseOutcome
<1>4. ASSUME listed # {} PROVE m \in listed /\ \A j \in listed : j <= m
  <2>1. listed \subseteq 1..4
    BY <1>1
  <2>2. \E i \in listed : \A j \in listed : j <= i
    <3> HIDE DEF listed
    <3> QED BY <1>4, <2>1, Greatest
  <2> HIDE DEF listed
  <2> QED BY <2>2
<1> HIDE DEF listed, m
<1>5. CASE s \in fs["states"]["N"]
  <2>1. m = 4
    BY <1>2, <1>4, <1>5
  <2> QED BY <1>1, <1>2, <1>3, <1>5, <2>1
<1>6. CASE s \notin fs["states"]["N"] /\ s \in fs["states"]["U"]
  <2>1. m = 3
    BY <1>2, <1>4, <1>6
  <2> QED BY <1>1, <1>2, <1>3, <1>6, <2>1
<1>7. CASE s \notin fs["states"]["N"] /\ s \notin fs["states"]["U"] /\ s \in fs["states"]["S"]
  <2>1. m = 2
    BY <1>2, <1>4, <1>7
  <2> QED BY <1>1, <1>2, <1>3, <1>7, <2>1
<1>8. CASE s \notin fs["states"]["N"] /\ s \notin fs["states"]["U"] /\ s \notin fs["states"]["S"]
  <2>1. s \in fs["states"]["R"] => m = 1
    BY <1>2, <1>4, <1>8
  <2>2. s \notin fs["states"]["R"] => listed = {}
    BY <1>2, <1>8
  <2> QED BY <1>1, <1>2, <1>3, <1>8, <2>1, <2>2
<1> QED BY <1>5, <1>6, <1>7, <1>8

Base(fs) == [s \in States |-> BaseOutcome(fs, s)]

Layers(fs, n, f) ==
  f = [i \in 0..n |-> IF i = 0 THEN Base(fs) ELSE Layered(fs, Overlays[i], f[i - 1])]

LEMMA LayersExist == ASSUME NEW fs, NEW n \in Nat PROVE \E f : Layers(fs, n, f)
<1> DEFINE S == {m \in 1..(n + 1) : \E f : Layers(fs, m - 1, f)}
<1>1. ASSUME NEW c \in 1..(n + 1), 1..(c - 1) \subseteq S PROVE c \in S
  <2> DEFINE m == c - 1
  <2>0. m \in Nat
    OBVIOUS
  <2>1. CASE c = 1
    <3> DEFINE e == [i \in 0..0 |-> Base(fs)]
    <3>1. Layers(fs, 0, e)
      <4>1. \A i \in 0..0 : i = 0
        OBVIOUS
      <4>2. e = [i \in 0..0 |-> IF i = 0 THEN Base(fs) ELSE Layered(fs, Overlays[i], e[i - 1])]
        BY <4>1
      <4> QED BY <4>2 DEF Layers
    <3> QED BY <2>1, <3>1
  <2>2. CASE c # 1
    <3>1. m \in 1..(n + 1) /\ m \in 1..(c - 1) /\ m - 1 \in Nat
      BY <2>2
    <3>2. PICK f : Layers(fs, m - 1, f)
      BY <1>1, <3>1
    <3> DEFINE g == [i \in 0..m |-> IF i = m THEN Layered(fs, Overlays[i], f[i - 1]) ELSE f[i]]
    <3>3. ASSUME NEW i \in 0..m
          PROVE  g[i] = IF i = 0 THEN Base(fs) ELSE Layered(fs, Overlays[i], g[i - 1])
      <4>1. i # 0 => i - 1 \in 0..m /\ i - 1 # m
        BY <2>0
      <4>2. i # 0 => g[i - 1] = f[i - 1]
        BY <4>1
      <4>3. CASE i = m
        <5>1. i # 0
          BY <3>1, <4>3
        <5> QED BY <4>2, <4>3, <5>1
      <4>4. CASE i # m
        <5>1. i \in 0..(m - 1)
          BY <2>0, <4>4
        <5>2. f[i] = IF i = 0 THEN Base(fs) ELSE Layered(fs, Overlays[i], f[i - 1])
          BY <3>2, <5>1 DEF Layers
        <5> QED BY <4>2, <4>4, <5>2
      <4> QED BY <4>3, <4>4
    <3>4. Layers(fs, m, g)
      <4>1. g = [i \in 0..m |-> g[i]]
        OBVIOUS
      <4> HIDE DEF g
      <4>2. g = [i \in 0..m |-> IF i = 0 THEN Base(fs) ELSE Layered(fs, Overlays[i], g[i - 1])]
        BY <3>3, <4>1
      <4> QED BY <4>2 DEF Layers
    <3> QED BY <3>4
  <2> QED BY <2>1, <2>2
<1>2. 1..(n + 1) \subseteq S
  <2>1. n + 1 \in Nat
    OBVIOUS
  <2> HIDE DEF S
  <2> QED BY <1>1, <2>1, OneAfterAnother
<1>3. n + 1 \in S
  BY <1>2
<1> QED BY <1>3

Named(fs, i, s) == Exists(fs, Overlays[i]) /\ s \in DOMAIN fs[Overlays[i]]

(* The outcomes after m overlays.                                          *)
AfterOverlays(fs, m, outcomes) ==
  /\ outcomes = [s \in States |-> outcomes[s]]
  /\ \A s \in States :
       /\ (\A i \in 1..m : ~Named(fs, i, s)) => outcomes[s] = BaseOutcome(fs, s)
       /\ \A i \in 1..m : Named(fs, i, s) /\ (\A j \in 1..m : Named(fs, j, s) => j <= i)
                            => outcomes[s] = fs[Overlays[i]][s]

LEMMA LayerAdds ==
  ASSUME NEW fs, NEW m \in Nat, m # 0, NEW before, AfterOverlays(fs, m - 1, before)
  PROVE  AfterOverlays(fs, m, Layered(fs, Overlays[m], before))
<1> DEFINE o == Overlays[m]
           new == Layered(fs, o, before)
<1>1. m \in 1..m /\ \A i \in 1..m : i # m => i \in 1..(m - 1)
  OBVIOUS
<1>2. new = [s \in States |-> new[s]]
        /\ \A s \in States : new[s] = IF Named(fs, m, s) THEN fs[o][s] ELSE before[s]
  <2>1. CASE Exists(fs, o)
    <3>1. new = [s \in States |-> IF s \in DOMAIN fs[o] THEN fs[o][s] ELSE before[s]]
      BY <2>1 DEF Layered
    <3> HIDE DEF new
    <3> QED BY <2>1, <3>1 DEF Named
  <2>2. CASE ~Exists(fs, o)
    <3>1. new = before
      BY <2>2 DEF Layered
    <3> HIDE DEF new
    <3> QED BY <2>2, <3>1 DEF Named, AfterOverlays
  <2> QED BY <2>1, <2>2
<1> HIDE DEF new
<1>3. ASSUME NEW s \in States, \A i \in 1..m : ~Named(fs, i, s)
      PROVE  new[s] = BaseOutcome(fs, s)
  <2>1. \A i \in 1..(m - 1) : i \in 1..m
    OBVIOUS
  <2>2. new[s] = before[s]
    BY <1>1, <1>2, <1>3
  <2> QED BY <1>3, <2>1, <2>2 DEF AfterOverlays
<1>4. ASSUME NEW s \in States, NEW i \in 1..m, Named(fs, i, s),
             \A j \in 1..m : Named(fs, j, s) => j <= i
      PROVE  new[s] = fs[Overlays[i]][s]
  <2>1. CASE i = m
    BY <1>2, <1>4, <2>1
  <2>2. CASE i # m
    <3>1. ~Named(fs, m, s) /\ i \in 1..(m - 1)
      BY <1>1, <1>4, <2>2
    <3>2. \A j \in 1..(m - 1) : j \in 1..m
      OBVIOUS
    <3>3. before[s] = fs[Overlays[i]][s]
      BY <1>4, <3>1, <3>2 DEF AfterOverlays
    <3> QED BY <1>2, <3>1, <3>3
  <2> QED BY <2>1, <2>2
<1> QED BY <1>2, <1>3, <1>4 DEF AfterOverlays, new

LEMMA OutcomesAre ==
  ASSUME NEW fs
  PROVE  StateOutcomes(fs) = [s \in States |-> ActiveOutcome(fs, s)]
<1> DEFINE n == Len(Overlays)
<1>1. n \in Nat /\ DOMAIN Overlays = 1..n
  BY PathsAssumption DEF IsList
<1> DEFINE f == CHOOSE f : f = [i \in 0..n |-> IF i = 0 THEN [s \in States |-> BaseOutcome(fs, s)]
                                              ELSE Layered(fs, Overlays[i], f[i - 1])]
<1>2. StateOutcomes(fs) = f[n]
  BY DEF StateOutcomes
<1>3. PICK w : Layers(fs, n, w)
  BY <1>1, LayersExist
<1>4. f = [i \in 0..n |-> IF i = 0 THEN [s \in States |-> BaseOutcome(fs, s)]
                          ELSE Layered(fs, Overlays[i], f[i - 1])]
  BY <1>3 DEF Layers, Base
<1> HIDE DEF f
<1>5. /\ f[0] = Base(fs)
      /\ \A i \in 1..n : f[i] = Layered(fs, Overlays[i], f[i - 1])
  <2>1. 0 \in 0..n /\ \A i \in 1..n : i \in 0..n /\ i # 0
    BY <1>1
  <2> QED BY <1>4, <2>1 DEF Base
<1> DEFINE S == {m \in 1..n : AfterOverlays(fs, m, f[m])}
<1>6. AfterOverlays(fs, 0, f[0])
  <2>1. \A i \in 1..0 : FALSE
    OBVIOUS
  <2> QED BY <1>5, <2>1 DEF AfterOverlays, Base
<1>7. ASSUME NEW m \in 1..n, 1..(m - 1) \subseteq S PROVE m \in S
  <2>1. m \in Nat /\ m # 0
    OBVIOUS
  <2>2. AfterOverlays(fs, m - 1, f[m - 1])
    <3>1. CASE m = 1
      BY <1>6, <3>1
    <3>2. CASE m # 1
      <4>1. m - 1 \in 1..(m - 1)
        BY <2>1, <3>2
      <4> QED BY <1>7, <4>1
    <3> QED BY <3>1, <3>2
  <2> QED BY <1>5, <2>1, <2>2, LayerAdds
<1>8. AfterOverlays(fs, n, f[n])
  <2>1. 1..n \subseteq S
    <3> HIDE DEF S, n
    <3> QED BY <1>1, <1>7, OneAfterAnother
  <2>2. CASE n = 0
    BY <1>6, <2>2
  <2>3. CASE n # 0
    <3>1. n \in 1..n
      BY <1>1, <2>3
    <3> QED BY <2>1, <3>1
  <2> QED BY <2>2, <2>3
<1>9. ASSUME NEW s \in States PROVE f[n][s] = ActiveOutcome(fs, s)
  <2> DEFINE naming == {i \in DOMAIN Overlays : Exists(fs, Overlays[i]) /\ s \in DOMAIN fs[Overlays[i]]}
             k == CHOOSE i \in naming : \A j \in naming : j <= i
  <2>1. naming = {i \in 1..n : Named(fs, i, s)}
    BY <1>1 DEF Named
  <2>2. CASE naming = {}
    <3>1. f[n][s] = BaseOutcome(fs, s)
      BY <1>8, <2>1, <2>2 DEF AfterOverlays
    <3>2. ActiveOutcome(fs, s) = IF s \in fs["states"]["N"] THEN "N"
                              ELSE IF s \in fs["states"]["U"] THEN "U"
                              ELSE IF s \in fs["states"]["S"] THEN "S"
                              ELSE IF s \in fs["states"]["R"] THEN "R" ELSE Absent
      BY <2>2 DEF ActiveOutcome
    <3> QED BY <3>1, <3>2, LastListed
  <2>3. CASE naming # {}
    <3>1. ActiveOutcome(fs, s) = fs[Overlays[k]][s]
      BY <2>3 DEF ActiveOutcome
    <3>2. k \in naming /\ \A j \in naming : j <= k
      <4>1. naming \subseteq 1..n
        BY <2>1
      <4> HIDE DEF naming
      <4>2. \E i \in naming : \A j \in naming : j <= i
        BY <1>1, <2>3, <4>1, Greatest
      <4> QED BY <4>2
    <3> HIDE DEF k, naming
    <3>3. k \in 1..n /\ Named(fs, k, s) /\ \A j \in 1..n : Named(fs, j, s) => j <= k
      BY <2>1, <3>2
    <3> QED BY <1>8, <3>1, <3>3 DEF AfterOverlays
  <2> QED BY <2>2, <2>3
<1> QED BY <1>2, <1>8, <1>9 DEF AfterOverlays

-----------------------------------------------------------------------------
FilesWellFormed ==
  files = [p \in Paths |-> files[p]] /\ \A p \in Paths : WellFormed(p, files[p])

(* What each collector finds.                                              *)
ROf(outcomes) ==
  {i \in DOMAIN files["r"].entries : OutcomeIs(outcomes, files["r"].entries[i].iso, "R")}

LEMMA ListsThere ==
  ASSUME FilesWellFormed
  PROVE  /\ Exists(files, "r") => IsList(files["r"].entries)
         /\ \A p \in {"org", "armed"} : Exists(files, p) => IsList(files[p].organizations)
         /\ Exists(files, "projects") => IsList(files["projects"].projects)
         /\ \A p \in ToSet(SFreezes) :
              Exists(files, p) /\ "records" \in DOMAIN files[p] => IsList(files[p].records)
<1>1. {"r", "org", "armed", "projects"} \cup ToSet(SFreezes) \subseteq Paths
  BY DEF Paths, ClausePaths, FixedClauses
<1> QED BY <1>1 DEF FilesWellFormed, WellFormed, Exists

LEMMA CollectsR ==
  ASSUME FilesWellFormed, Exists(files, "r"), NEW outcomes
  PROVE  \E from : Picks(CollectStateRRecords(outcomes, files), files["r"].entries,
                         ROf(outcomes), from)
<1> DEFINE s == files["r"].entries
           K == ROf(outcomes)
<1>1. IsList(s)
  BY ListsThere
<1>2. CollectStateRRecords(outcomes, files)
        = FlattenSeq([i \in DOMAIN s |-> IF i \in K THEN <<s[i]>> ELSE <<>>])
  <2>1. CollectStateRRecords(outcomes, files)
          = FlattenSeq([i \in DOMAIN s |-> IF OutcomeIs(outcomes, s[i].iso, "R") THEN <<s[i]>> ELSE <<>>])
    BY DEF CollectStateRRecords, Keeping
  <2>2. \A i \in DOMAIN s : i \in K <=> OutcomeIs(outcomes, s[i].iso, "R")
    BY DEF ROf
  <2> HIDE DEF s, K
  <2>3. [i \in DOMAIN s |-> IF OutcomeIs(outcomes, s[i].iso, "R") THEN <<s[i]>> ELSE <<>>]
          = [i \in DOMAIN s |-> IF i \in K THEN <<s[i]>> ELSE <<>>]
    BY <2>2
  <2> QED BY <2>1, <2>3
<1>3. K \subseteq DOMAIN s
  BY DEF ROf
<1> HIDE DEF s, K
<1>4. \E from : Picks(FlattenSeq([i \in DOMAIN s |-> IF i \in K THEN <<s[i]>> ELSE <<>>]), s, K, from)
  BY <1>1, <1>3, KeepingFacts
<1>5. \E from : Picks(CollectStateRRecords(outcomes, files), s, K, from)
  BY <1>2, <1>4
<1> QED BY <1>5 DEF s, K

LEMMA CollectsProjects ==
  ASSUME FilesWellFormed, Exists(files, "projects")
  PROVE  \E from : Picks(CollectProjects(files), files["projects"].projects, ReadyProjects, from)
<1> DEFINE s == files["projects"].projects
           K == ReadyProjects
<1>1. IsList(s)
  BY ListsThere
<1>2. CollectProjects(files)
        = FlattenSeq([i \in DOMAIN s |-> IF i \in K THEN <<s[i]>> ELSE <<>>])
  <2>1. CollectProjects(files) = FlattenSeq([i \in DOMAIN s |-> IF IsReady(s[i]) THEN <<s[i]>> ELSE <<>>])
    BY DEF CollectProjects, Keeping
  <2>2. \A i \in DOMAIN s : i \in K <=> IsReady(s[i])
    BY DEF ReadyProjects
  <2> HIDE DEF s, K
  <2>3. [i \in DOMAIN s |-> IF IsReady(s[i]) THEN <<s[i]>> ELSE <<>>]
          = [i \in DOMAIN s |-> IF i \in K THEN <<s[i]>> ELSE <<>>]
    BY <2>2
  <2> QED BY <2>1, <2>3
<1>3. K \subseteq DOMAIN s
  BY DEF ReadyProjects
<1> HIDE DEF s, K
<1>4. \E from : Picks(FlattenSeq([i \in DOMAIN s |-> IF i \in K THEN <<s[i]>> ELSE <<>>]), s, K, from)
  BY <1>1, <1>3, KeepingFacts
<1>5. \E from : Picks(CollectProjects(files), s, K, from)
  BY <1>2, <1>4
<1> QED BY <1>5 DEF s, K

Ready(p) == IF Exists(files, p) THEN Keeping(files[p].organizations, IsDirect) ELSE <<>>

LEMMA CollectsOrganizationsOf ==
  ASSUME FilesWellFormed, NEW p \in {"org", "armed"}
  PROVE  \E from : /\ Ready(p) \in Seq(ToSet(Ready(p)))
                   /\ from \in [1..Len(Ready(p)) -> DirectOrganizations(p)]
                   /\ \A k \in 1..Len(Ready(p)) : Ready(p)[k] = files[p].organizations[from[k]]
                   /\ \A k, l \in 1..Len(Ready(p)) : from[k] = from[l] => k = l
                   /\ \A i \in DirectOrganizations(p) : \E k \in 1..Len(Ready(p)) : from[k] = i
<1> DEFINE s == files[p].organizations
           K == DirectOrganizations(p)
<1>1. CASE ~Exists(files, p)
  <2>1. Ready(p) = <<>> /\ K = {}
    BY <1>1 DEF Ready, DirectOrganizations
  <2>2. 1..0 = {} /\ Len(<<>>) = 0
    OBVIOUS
  <2> DEFINE e == [k \in 1..0 |-> 1]
  <2>3. e \in [1..0 -> {}]
    BY <2>2
  <2>4. <<>> \in Seq(ToSet(<<>>))
    OBVIOUS
  <2> HIDE DEF e, K
  <2>5. Len(Ready(p)) = 0 /\ 1..Len(Ready(p)) = {} /\ Ready(p) \in Seq(ToSet(Ready(p)))
    BY <2>1, <2>2, <2>4
  <2>6. e \in [1..Len(Ready(p)) -> K]
    BY <2>1, <2>3, <2>5
  <2>7. \A i \in K : \E k \in 1..Len(Ready(p)) : e[k] = i
    BY <2>1
  <2> QED BY <2>5, <2>6, <2>7, Zenon DEF K
<1>2. CASE Exists(files, p)
  <2>1. IsList(s)
    BY <1>2, ListsThere
  <2>2. Ready(p) = FlattenSeq([i \in DOMAIN s |-> IF i \in K THEN <<s[i]>> ELSE <<>>])
    <3>1. Ready(p) = FlattenSeq([i \in DOMAIN s |-> IF IsDirect(s[i]) THEN <<s[i]>> ELSE <<>>])
      BY <1>2 DEF Ready, Keeping
    <3>2. \A i \in DOMAIN s : i \in K <=> IsDirect(s[i])
      BY <1>2 DEF DirectOrganizations
    <3> HIDE DEF s, K
    <3>3. [i \in DOMAIN s |-> IF IsDirect(s[i]) THEN <<s[i]>> ELSE <<>>]
            = [i \in DOMAIN s |-> IF i \in K THEN <<s[i]>> ELSE <<>>]
      BY <3>2
    <3> QED BY <3>1, <3>3
  <2>3. K \subseteq DOMAIN s
    BY <1>2 DEF DirectOrganizations
  <2> HIDE DEF s, K
  <2>4. \E from : Picks(FlattenSeq([i \in DOMAIN s |-> IF i \in K THEN <<s[i]>> ELSE <<>>]), s, K, from)
    BY <2>1, <2>3, KeepingFacts
  <2>5. PICK from : Picks(Ready(p), s, K, from)
    BY <2>2, <2>4
  <2>6. Ready(p) \in Seq(ToSet(Ready(p)))
    <3>1. Ready(p) \in Seq(ToSet(s))
      BY <2>5 DEF Picks
    <3>2. Ready(p) = [k \in 1..Len(Ready(p)) |-> Ready(p)[k]] /\ Len(Ready(p)) \in Nat
      BY <3>1
    <3> QED BY <3>2 DEF ToSet
  <2> QED BY <2>5, <2>6 DEF Picks, s, K
<1> QED BY <1>1, <1>2

(* The two files of organizations, one after the other.                    *)
FromBoth(g, from) ==
  /\ DOMAIN g = 1..Len(g) /\ Len(g) \in Nat
  /\ \A k \in 1..Len(g) :
       /\ from[k][1] \in {"org", "armed"} /\ from[k][2] \in DirectOrganizations(from[k][1])
       /\ from[k] = <<from[k][1], from[k][2]>>
       /\ g[k] = files[from[k][1]].organizations[from[k][2]]
  /\ \A k, l \in 1..Len(g) : from[k] = from[l] => k = l
  /\ \A p \in {"org", "armed"} : \A i \in DirectOrganizations(p) :
       \E k \in 1..Len(g) : from[k] = <<p, i>>

LEMMA CollectsOrganizations ==
  ASSUME FilesWellFormed
  PROVE  \E from : FromBoth(CollectOrganizations(files), from)
<1> DEFINE a == Ready("org")
           b == Ready("armed")
           g == a \o b
<1>1. PICK fa : /\ a \in Seq(ToSet(a))
                /\ fa \in [1..Len(a) -> DirectOrganizations("org")]
                /\ \A k \in 1..Len(a) : a[k] = files["org"].organizations[fa[k]]
                /\ \A k, l \in 1..Len(a) : fa[k] = fa[l] => k = l
                /\ \A i \in DirectOrganizations("org") : \E k \in 1..Len(a) : fa[k] = i
  BY CollectsOrganizationsOf
<1>2. PICK fb : /\ b \in Seq(ToSet(b))
                /\ fb \in [1..Len(b) -> DirectOrganizations("armed")]
                /\ \A k \in 1..Len(b) : b[k] = files["armed"].organizations[fb[k]]
                /\ \A k, l \in 1..Len(b) : fb[k] = fb[l] => k = l
                /\ \A i \in DirectOrganizations("armed") : \E k \in 1..Len(b) : fb[k] = i
  BY CollectsOrganizationsOf
<1>3. CollectOrganizations(files) = g
  BY DEF CollectOrganizations, Ready
<1>4. Len(a) \in Nat /\ Len(b) \in Nat
  <2> HIDE DEF a, b
  <2> QED BY <1>1, <1>2
<1>5. /\ DOMAIN g = 1..Len(g) /\ Len(g) = Len(a) + Len(b)
      /\ \A k \in 1..(Len(a) + Len(b)) : g[k] = IF k <= Len(a) THEN a[k] ELSE b[k - Len(a)]
  <2> HIDE DEF a, b
  <2> DEFINE T == ToSet(a) \cup ToSet(b)
  <2>1. a \in Seq(T) /\ b \in Seq(T)
    BY <1>1, <1>2
  <2> HIDE DEF T
  <2>2. g \in Seq(T) /\ Len(g) = Len(a) + Len(b)
        /\ \A k \in 1..(Len(a) + Len(b)) : g[k] = IF k <= Len(a) THEN a[k] ELSE b[k - Len(a)]
    BY <2>1, ConcatProperties
  <2> HIDE DEF g
  <2> QED BY <2>2
<1> HIDE DEF a, b, g
<1> DEFINE from == [k \in 1..Len(g) |-> IF k <= Len(a) THEN <<"org", fa[k]>>
                                        ELSE <<"armed", fb[k - Len(a)]>>]
<1>6. ASSUME NEW k \in 1..Len(g)
      PROVE  \/ k \in 1..Len(a) /\ from[k] = <<"org", fa[k]>> /\ g[k] = a[k]
             \/ /\ k - Len(a) \in 1..Len(b)
                /\ from[k] = <<"armed", fb[k - Len(a)]>> /\ g[k] = b[k - Len(a)]
  <2>1. from[k] = IF k <= Len(a) THEN <<"org", fa[k]>> ELSE <<"armed", fb[k - Len(a)]>>
    OBVIOUS
  <2>2. k \in 1..(Len(a) + Len(b)) /\ k \in Nat
    BY <1>4, <1>5
  <2>3. g[k] = IF k <= Len(a) THEN a[k] ELSE b[k - Len(a)]
    BY <1>5, <2>2
  <2> HIDE DEF from
  <2>4. CASE k <= Len(a)
    <3>1. k \in 1..Len(a)
      BY <1>4, <2>2, <2>4
    <3> QED BY <2>1, <2>3, <2>4, <3>1
  <2>5. CASE ~(k <= Len(a))
    <3>1. k - Len(a) \in 1..Len(b)
      BY <1>4, <2>2, <2>5
    <3> QED BY <2>1, <2>3, <2>5, <3>1
  <2> QED BY <2>4, <2>5
<1>7. ASSUME NEW k \in 1..Len(g)
      PROVE  /\ from[k][1] \in {"org", "armed"} /\ from[k][2] \in DirectOrganizations(from[k][1])
             /\ from[k] = <<from[k][1], from[k][2]>>
             /\ g[k] = files[from[k][1]].organizations[from[k][2]]
  <2> HIDE DEF from
  <2>1. CASE k \in 1..Len(a) /\ from[k] = <<"org", fa[k]>> /\ g[k] = a[k]
    BY <1>1, <2>1
  <2>2. CASE /\ k - Len(a) \in 1..Len(b)
             /\ from[k] = <<"armed", fb[k - Len(a)]>> /\ g[k] = b[k - Len(a)]
    BY <1>2, <2>2
  <2> QED BY <1>6, <2>1, <2>2
<1>8. ASSUME NEW k \in 1..Len(g), NEW l \in 1..Len(g), from[k] = from[l] PROVE k = l
  <2> HIDE DEF from
  <2> DEFINE A(x) == x \in 1..Len(a) /\ from[x] = <<"org", fa[x]>>
             B(x) == x - Len(a) \in 1..Len(b) /\ from[x] = <<"armed", fb[x - Len(a)]>>
  <2>0. k \in Nat /\ l \in Nat
    OBVIOUS
  <2>1. (A(k) \/ B(k)) /\ (A(l) \/ B(l))
    BY <1>6
  <2>2. \A x, y : A(x) /\ B(y) => from[x] # from[y]
    <3> SUFFICES ASSUME NEW x, NEW y, A(x), B(y) PROVE from[x] # from[y]
      OBVIOUS
    <3>1. from[x][1] = "org" /\ from[y][1] = "armed"
      OBVIOUS
    <3> QED BY <3>1
  <2>3. CASE A(k) /\ A(l)
    <3>1. <<"org", fa[k]>> = <<"org", fa[l]>>
      BY <1>8, <2>3
    <3>2. <<"org", fa[k]>>[2] = fa[k] /\ <<"org", fa[l]>>[2] = fa[l]
      OBVIOUS
    <3>3. fa[k] = fa[l]
      BY <3>1, <3>2
    <3> QED BY <1>1, <2>3, <3>3
  <2>4. CASE B(k) /\ B(l)
    <3> DEFINE u == fb[k - Len(a)]
               v == fb[l - Len(a)]
    <3>0. <<"armed", u>> = <<"armed", v>>
      BY <1>8, <2>4
    <3>a. <<"armed", u>>[2] = u /\ <<"armed", v>>[2] = v
      OBVIOUS
    <3>1. fb[k - Len(a)] = fb[l - Len(a)]
      BY <3>0, <3>a
    <3>2. k - Len(a) = l - Len(a)
      BY <1>2, <2>4, <3>1
    <3> QED BY <1>4, <2>0, <3>2
  <2> QED BY <1>8, <2>1, <2>2, <2>3, <2>4
<1>9. ASSUME NEW p \in {"org", "armed"}, NEW i \in DirectOrganizations(p)
      PROVE  \E k \in 1..Len(g) : from[k] = <<p, i>>
  <2>1. CASE p = "org"
    <3>1. PICK k \in 1..Len(a) : fa[k] = i
      BY <1>1, <2>1
    <3>2. k \in 1..Len(g) /\ k <= Len(a)
      BY <1>4, <1>5
    <3> QED BY <2>1, <3>1, <3>2
  <2>2. CASE p = "armed"
    <3>1. PICK j \in 1..Len(b) : fb[j] = i
      BY <1>2, <2>2
    <3> DEFINE k == Len(a) + j
    <3>2. k \in 1..Len(g) /\ ~(k <= Len(a)) /\ k - Len(a) = j
      BY <1>4, <1>5
    <3> HIDE DEF k
    <3>3. from[k] = <<"armed", i>>
      BY <3>1, <3>2
    <3> QED BY <2>2, <3>2, <3>3
  <2> QED BY <2>1, <2>2
<1>10. FromBoth(g, from)
  <2>1. Len(g) \in Nat
    BY <1>4, <1>5
  <2> HIDE DEF from
  <2> QED BY <1>5, <1>7, <1>8, <1>9, <2>1 DEF FromBoth
<1> QED BY <1>3, <1>10

(* The S freezes: which records, not in which order.                       *)
Selected(outcomes) == {rec \in FrozenSRecords(files) : SRecordSelected(rec, outcomes, files)}

LEMMA CollectsS ==
  ASSUME FilesWellFormed, NEW outcomes
  PROVE  /\ DOMAIN CollectStateSRecords(outcomes, files) = 1..Len(CollectStateSRecords(outcomes, files))
         /\ ToSet(CollectStateSRecords(outcomes, files)) = Selected(outcomes)
<1> DEFINE Test(rec) == SRecordSelected(rec, outcomes, files)
           records(p) == IF Exists(files, p) THEN Keeping(ExtractRecords(files[p]), Test) ELSE <<>>
           seqs == [i \in DOMAIN SFreezes |-> records(SFreezes[i])]
           T == Selected(outcomes)
           g == CollectStateSRecords(outcomes, files)
<1>1. g = FlattenSeq(seqs)
  BY DEF CollectStateSRecords
<1>2. SFreezes \in Seq(ToSet(SFreezes)) /\ DOMAIN SFreezes = 1..Len(SFreezes) /\ Len(SFreezes) \in Nat
  BY PathsAssumption DEF IsList
<1>3. ASSUME NEW p \in ToSet(SFreezes), Exists(files, p)
      PROVE  IsList(ExtractRecords(files[p]))
  <2>1. CASE "records" \in DOMAIN files[p]
    BY <1>3, <2>1, ListsThere DEF ExtractRecords
  <2>2. CASE "records" \notin DOMAIN files[p] /\ "state" \in DOMAIN files[p]
    <3>1. ExtractRecords(files[p]) = <<files[p]>>
      BY <2>2 DEF ExtractRecords
    <3>2. ToSet(<<files[p]>>) = {files[p]}
      BY DEF ToSet
    <3>3. <<files[p]>> \in Seq({files[p]})
      OBVIOUS
    <3> QED BY <3>1, <3>2, <3>3 DEF IsList
  <2>3. CASE "records" \notin DOMAIN files[p] /\ "state" \notin DOMAIN files[p]
    <3>1. ExtractRecords(files[p]) = <<>>
      BY <2>3 DEF ExtractRecords
    <3> QED BY <3>1 DEF IsList
  <2> QED BY <2>1, <2>2, <2>3
<1>4. ASSUME NEW p \in ToSet(SFreezes)
      PROVE  /\ records(p) \in Seq(T)
             /\ Exists(files, p) =>
                  \A rec \in ToSet(ExtractRecords(files[p])) :
                    Test(rec) => \E k \in 1..Len(records(p)) : records(p)[k] = rec
  <2>1. CASE ~Exists(files, p)
    <3>1. records(p) = <<>>
      BY <2>1
    <3>2. <<>> \in Seq(T)
      OBVIOUS
    <3> HIDE DEF records
    <3> QED BY <2>1, <3>1, <3>2
  <2>2. CASE Exists(files, p)
    <3> DEFINE s == ExtractRecords(files[p])
               K == {i \in DOMAIN s : Test(s[i])}
    <3>1. records(p) = FlattenSeq([i \in DOMAIN s |-> IF i \in K THEN <<s[i]>> ELSE <<>>])
      <4>1. records(p) = FlattenSeq([i \in DOMAIN s |-> IF Test(s[i]) THEN <<s[i]>> ELSE <<>>])
        BY <2>2 DEF Keeping
      <4>2. [i \in DOMAIN s |-> IF Test(s[i]) THEN <<s[i]>> ELSE <<>>]
              = [i \in DOMAIN s |-> IF i \in K THEN <<s[i]>> ELSE <<>>]
        OBVIOUS
      <4> QED BY <4>1, <4>2
    <3>2. \E from : Picks(records(p), s, K, from)
      <4>1. IsList(s) /\ K \subseteq DOMAIN s
        BY <1>3, <2>2
      <4> HIDE DEF records, s, K
      <4> QED BY <3>1, <4>1, KeepingFacts
    <3>3. PICK from : Picks(records(p), s, K, from)
      BY <3>2
    <3>4. ToSet(s) \subseteq FrozenSRecords(files)
      BY <2>2 DEF FrozenSRecords
    <3>5. \A i \in K : s[i] \in T
      BY <3>4 DEF Selected, ToSet
    <3> HIDE DEF records, T
    <3>6. records(p) \in Seq(T)
      <4>1. records(p) \in Seq(ToSet(s))
        BY <3>3 DEF Picks
      <4>2. \A k \in 1..Len(records(p)) : records(p)[k] \in T
        <5> HIDE DEF K, s
        <5> QED BY <3>3, <3>5 DEF Picks
      <4>3. records(p) = [k \in 1..Len(records(p)) |-> records(p)[k]] /\ Len(records(p)) \in Nat
        BY <4>1
      <4> QED BY <4>2, <4>3
    <3>7. ASSUME NEW rec \in ToSet(s), Test(rec)
          PROVE  \E k \in 1..Len(records(p)) : records(p)[k] = rec
      <4>1. PICK i \in DOMAIN s : s[i] = rec
        BY DEF ToSet
      <4>2. i \in K
        BY <3>7, <4>1
      <4> HIDE DEF K, s
      <4> QED BY <3>3, <4>1, <4>2 DEF Picks
    <3> QED BY <3>6, <3>7
  <2> QED BY <2>1, <2>2
<1> HIDE DEF T
<1>5. seqs \in Seq(Seq(T)) /\ Len(seqs) = Len(SFreezes)
  <2>1. \A i \in 1..Len(SFreezes) : seqs[i] \in Seq(T)
    BY <1>2, <1>4 DEF ToSet
  <2>2. seqs = [i \in 1..Len(SFreezes) |-> seqs[i]]
    BY <1>2
  <2> HIDE DEF seqs
  <2> QED BY <1>2, <2>1, <2>2
<1>6. g \in Seq(T) /\ \E at : Parts(seqs, Len(seqs), g, at)
  <2> HIDE DEF seqs, g
  <2> QED BY <1>1, <1>5, FlattenFacts
<1>7. PICK at : Parts(seqs, Len(seqs), g, at)
  BY <1>6
<1>8. ASSUME NEW rec \in T PROVE rec \in ToSet(g)
  <2>1. rec \in FrozenSRecords(files) /\ Test(rec)
    BY DEF T, Selected
  <2>2. PICK p \in ToSet(SFreezes) : Exists(files, p) /\ rec \in ToSet(ExtractRecords(files[p]))
    BY <2>1 DEF FrozenSRecords
  <2>3. PICK k \in 1..Len(records(p)) : records(p)[k] = rec
    BY <1>4, <2>1, <2>2
  <2>4. PICK i \in 1..Len(SFreezes) : SFreezes[i] = p
    BY <1>2 DEF ToSet
  <2>5. seqs[i] = records(p)
    BY <1>2, <2>4
  <2> HIDE DEF seqs, g, records
  <2>6. i \in 1..Len(seqs) /\ k \in 1..Len(seqs[i])
    BY <1>5, <2>5
  <2>7. PICK x \in 1..Len(g) : at[x] = <<i, k>>
    BY <1>7, <2>6 DEF Parts
  <2>8. g[x] = rec
    BY <1>7, <2>3, <2>5, <2>7 DEF Parts
  <2>9. x \in DOMAIN g
    BY <1>6, <2>7
  <2> QED BY <2>8, <2>9 DEF ToSet
<1> HIDE DEF g
<1>9. DOMAIN g = 1..Len(g) /\ \A x \in DOMAIN g : g[x] \in T
  BY <1>6
<1>10. ToSet(g) = T
  BY <1>8, <1>9 DEF ToSet
<1> QED BY <1>9, <1>10 DEF g, T

-----------------------------------------------------------------------------
(***************************************************************************)
(* How far a run has come. A candidate outlives the steps that made it.    *)
(***************************************************************************)
Bootstrapped == pc \notin {"idle", "done"} \/ out # Absent
Declared     == pc \notin {"idle", "done", "declarations"} \/ out # Absent
Reviewed     == pc \notin {"idle", "done", "declarations", "review"} \/ out # Absent
Rendered     == pc = "check" \/ out # Absent

IncompatibleSources ==
  {p \in ScheduleClauseSourcePaths(files) : files[p].license # Target}

Fields == {"launch", "code", "declared", "incompatible", "complete", "outcomes",
           "r", "s", "orgs", "projects"}
IsReading(x) == x = [f \in Fields |-> x[f]]

RecordForm(e) == e.yaml \in Yaml /\ e.sources = [p \in DOMAIN e.sources |-> e.sources[p]]

Shape ==
  /\ IsReading(run)
  /\ pc \in {"idle", "declarations", "review", "outcomes", "r", "s", "organizations",
             "projects", "write", "check", "done"}
  /\ pc \notin {"check", "done"} => out = Absent
  /\ \A x \in evidence : RecordForm(x[2])

(***************************************************************************)
(* In a checkout nobody edited, what the run read is still there.          *)
(***************************************************************************)
CodeIsThere ==
  /\ run.code = files["impl"]
  /\ Exists(files, "impl") /\ Exists(files, "wrapper")

ReviewStands ==
  /\ Exists(files, "states") /\ Exists(files, "requirements")
  /\ ValidateTargetLicenseArtifact(pointer.artifact)
  /\ run.complete = (pointer.status = "complete")
  /\ \/ pointer.status = "pending"
     \/ /\ pointer.status = "complete" /\ LoadContentAddressedEvidence(files)
        /\ run.incompatible = {}

CandidateSays ==
  /\ out.ready = (run.incompatible = {} /\ run.complete)
  /\ out.artifact = frozen

StillThere ==
  quiet =>
    /\ Bootstrapped => CodeIsThere
    /\ Declared => run.incompatible = IncompatibleSources
    /\ Reviewed => ReviewStands
    /\ Rendered => CandidateSays
    /\ verdict # "red"

Consistent == Shape /\ StillThere

-----------------------------------------------------------------------------
(***************************************************************************)
(* What has been read is a record; what each step sets in it.              *)
(***************************************************************************)
Sets(x, y, f, v) == IsReading(y) /\ y[f] = v /\ \A g \in Fields \ {f} : y[g] = x[g]

LEMMA Setting ==
  ASSUME NEW x, IsReading(x), NEW v
  PROVE  \A f \in Fields : Sets(x, [x EXCEPT ![f] = v], f, v)
<1> SUFFICES ASSUME NEW f \in Fields PROVE Sets(x, [x EXCEPT ![f] = v], f, v)
  OBVIOUS
<1> DEFINE y == [x EXCEPT ![f] = v]
<1>1. x = [g \in Fields |-> x[g]] /\ DOMAIN x = Fields
  BY DEF IsReading
<1>2. y = [g \in Fields |-> IF g = f THEN v ELSE x[g]] /\ DOMAIN y = Fields
  BY <1>1
<1>3. y[f] = v /\ \A g \in Fields \ {f} : y[g] = x[g]
  BY <1>2
<1>4. IsReading(y)
  BY <1>2 DEF IsReading
<1> QED BY <1>3, <1>4 DEF Sets

LEMMA SetField ==
  ASSUME NEW x, IsReading(x), NEW v
  PROVE  /\ Sets(x, [x EXCEPT !.launch = v], "launch", v)
         /\ Sets(x, [x EXCEPT !.code = v], "code", v)
         /\ Sets(x, [x EXCEPT !.declared = v], "declared", v)
         /\ Sets(x, [x EXCEPT !.incompatible = v], "incompatible", v)
         /\ Sets(x, [x EXCEPT !.complete = v], "complete", v)
         /\ Sets(x, [x EXCEPT !.outcomes = v], "outcomes", v)
         /\ Sets(x, [x EXCEPT !.r = v], "r", v)
         /\ Sets(x, [x EXCEPT !.s = v], "s", v)
         /\ Sets(x, [x EXCEPT !.orgs = v], "orgs", v)
         /\ Sets(x, [x EXCEPT !.projects = v], "projects", v)
<1>1. \A f \in Fields : Sets(x, [x EXCEPT ![f] = v], f, v)
  BY Setting
<1>2. {"launch", "code", "declared", "incompatible", "complete", "outcomes", "r", "s", "orgs",
       "projects"} \subseteq Fields
  BY DEF Fields
<1> QED BY <1>1, <1>2

(* The fields that later steps and the output rest on.                     *)
LEMMA SetDeclarations ==
  ASSUME NEW x, IsReading(x), NEW v, NEW w
  PROVE  LET z == [x EXCEPT !.declared = v, !.incompatible = w]
         IN  /\ IsReading(z) /\ z.incompatible = w
             /\ z.code = x.code /\ z.launch = x.launch
<1> DEFINE y == [x EXCEPT !.declared = v]
           z == [y EXCEPT !.incompatible = w]
<1>1. Sets(x, y, "declared", v)
  BY SetField
<1>2. z = [x EXCEPT !.declared = v, !.incompatible = w]
  OBVIOUS
<1> HIDE DEF y
<1>3. IsReading(y)
  BY <1>1 DEF Sets
<1>4. Sets(y, z, "incompatible", w)
  BY <1>3, SetField
<1>5. z.incompatible = w /\ z.code = x.code /\ z.launch = x.launch /\ IsReading(z)
  BY <1>1, <1>4 DEF Sets, Fields
<1> QED BY <1>2, <1>5

LEMMA SetLaunch ==
  ASSUME NEW v, NEW w
  PROVE  LET z == [Start EXCEPT !.launch = v, !.code = w]
         IN  IsReading(z) /\ z.launch = v /\ z.code = w
<1> DEFINE y == [Start EXCEPT !.launch = v]
           z == [y EXCEPT !.code = w]
<1>0. IsReading(Start)
  BY DEF IsReading, Fields, Start
<1>1. Sets(Start, y, "launch", v)
  BY <1>0, SetField
<1>2. z = [Start EXCEPT !.launch = v, !.code = w]
  OBVIOUS
<1> HIDE DEF y
<1>3. IsReading(y)
  BY <1>1 DEF Sets
<1>4. Sets(y, z, "code", w)
  BY <1>3, SetField
<1>5. z.code = w /\ z.launch = v /\ IsReading(z)
  BY <1>1, <1>4 DEF Sets, Fields
<1> QED BY <1>2, <1>5

(* The steps that fill in an entry disturb nothing the review rests on.    *)
Kept(x, y) ==
  /\ IsReading(y) /\ y.launch = x.launch /\ y.code = x.code
  /\ y.incompatible = x.incompatible /\ y.complete = x.complete

LEMMA SetEntries ==
  ASSUME NEW x, IsReading(x), NEW v
  PROVE  /\ Kept(x, [x EXCEPT !.outcomes = v])
         /\ Kept(x, [x EXCEPT !.r = v])
         /\ Kept(x, [x EXCEPT !.s = v])
         /\ Kept(x, [x EXCEPT !.orgs = v])
         /\ Kept(x, [x EXCEPT !.projects = v])
<1>1. \A f \in {"outcomes", "r", "s", "orgs", "projects"} : \A y : Sets(x, y, f, v) => Kept(x, y)
  BY DEF Sets, Kept, Fields
<1> QED BY <1>1, SetField

LEMMA SetComplete ==
  ASSUME NEW x, IsReading(x), NEW v
  PROVE  LET y == [x EXCEPT !.complete = v]
         IN  /\ IsReading(y) /\ y.complete = v
             /\ y.launch = x.launch /\ y.code = x.code /\ y.incompatible = x.incompatible
<1>1. \A y : Sets(x, y, "complete", v) =>
        /\ IsReading(y) /\ y.complete = v
        /\ y.launch = x.launch /\ y.code = x.code /\ y.incompatible = x.incompatible
  BY DEF Sets, Fields
<1> QED BY <1>1, SetField

-----------------------------------------------------------------------------
(***************************************************************************)
(* The steps of the renderer and the check.                                *)
(***************************************************************************)
LEMMA BoundEvidence ==
  ASSUME UNCHANGED checkout
  PROVE  /\ UNCHANGED <<files, frozen, working, pointer, evidence>>
         /\ IncompatibleSources' = IncompatibleSources
         /\ LoadContentAddressedEvidence(files)' = LoadContentAddressedEvidence(files)
         /\ ValidateTargetLicenseArtifact(pointer.artifact)'
              = ValidateTargetLicenseArtifact(pointer.artifact)
  BY DEF checkout, IncompatibleSources, ScheduleClauseSourcePaths, Exists,
         LoadContentAddressedEvidence, EvidenceAccepted, ValidateTargetLicenseArtifact,
         AssertExactSourceBindings, ExpectedSourceBindings, CompatibilityInputPaths,
         BootstrapControlPaths, ScheduleRendererControlPaths

LEMMA RefuseKeeps ==
  ASSUME Consistent, Refuse, pc \notin {"check", "done"}
  PROVE  Consistent'
<1>1. out' = Absent /\ pc' = "done" /\ verdict' = "refused" /\ run' = run /\ evidence' = evidence
  BY DEF Consistent, Shape, Refuse, checkout
<1>2. Shape'
  BY <1>1 DEF Consistent, Shape
<1>3. StillThere'
  BY <1>1 DEF StillThere, Bootstrapped, Declared, Reviewed, Rendered
<1> QED BY <1>2, <1>3 DEF Consistent

LEMMA BootstrapKeeps == ASSUME Consistent, Bootstrap PROVE Consistent'
<1>1. PICK launch \in Launches :
        /\ run' = [Start EXCEPT !.launch = launch, !.code = files["impl"]]
        /\ IF BootstrapRefuses(launch, files)
           THEN pc' = "done" /\ verdict' = "refused"
           ELSE pc' = "declarations" /\ verdict' = "none"
  BY DEF Bootstrap
<1>2. out' = Absent /\ UNCHANGED checkout
  BY DEF Bootstrap
<1>3. IsReading(run') /\ run'.code = files["impl"]
  BY <1>1, SetLaunch
<1>4. Shape'
  <2>1. IsReading(run)'
    BY <1>3 DEF IsReading
  <2> QED
    BY <1>1, <1>2, <2>1 DEF Consistent, Shape, checkout
<1>5. CASE pc' = "done" /\ verdict' = "refused"
  <2>1. StillThere'
    BY <1>2, <1>5 DEF StillThere, Bootstrapped, Declared, Reviewed, Rendered
  <2> QED BY <1>4, <2>1 DEF Consistent
<1>6. CASE pc' = "declarations" /\ verdict' = "none" /\ ~BootstrapRefuses(launch, files)
  <2>1. Exists(files, "impl") /\ Exists(files, "wrapper")
    BY <1>6 DEF BootstrapRefuses, Exists
  <2>2. CodeIsThere'
    BY <1>2, <1>3, <2>1 DEF CodeIsThere, checkout, Exists
  <2>3. StillThere'
    BY <1>2, <1>6, <2>2 DEF StillThere, Declared, Reviewed, Rendered
  <2> QED BY <1>4, <2>3 DEF Consistent
<1> QED BY <1>1, <1>5, <1>6

(* A step that goes on, with the run's reading y.                          *)
LEMMA Onward ==
  ASSUME Consistent, NEW next, NEW y, Proceed(next, y), IsReading(y), y.code = run.code,
         pc \in {"declarations", "review", "outcomes", "r", "s", "organizations", "projects"},
         next \in {"review", "outcomes", "r", "s", "organizations", "projects", "write"}
  PROVE  /\ Shape' /\ pc' = next /\ run' = y /\ out' = Absent /\ ~Rendered'
         /\ quiet' = quiet /\ UNCHANGED <<files, frozen, working, pointer, evidence>>
         /\ quiet => CodeIsThere' /\ verdict' # "red"
<1>1. out = Absent /\ IsReading(run)
  BY DEF Consistent, Shape
<1>2. UNCHANGED checkout /\ UNCHANGED <<out, verdict, quiet>> /\ pc' = next /\ run' = y
  BY DEF Proceed
<1>3. IsReading(run)'
  BY <1>2 DEF IsReading
<1>4. Shape' /\ ~Rendered'
  BY <1>1, <1>2, <1>3 DEF Consistent, Shape, Rendered, checkout
<1>5. quiet => CodeIsThere /\ verdict # "red"
  BY DEF Consistent, StillThere, Bootstrapped
<1>6. quiet => CodeIsThere' /\ verdict' # "red"
  BY <1>2, <1>5 DEF CodeIsThere, Exists, checkout
<1> QED BY <1>1, <1>2, <1>4, <1>6 DEF checkout

LEMMA DeclarationsKept == ASSUME Consistent, ReadDeclarations PROVE Consistent'
<1> DEFINE sources == ScheduleClauseSourcePaths(files)
           declared == {files[p].license : p \in sources}
           found == {p \in sources : files[p].license # Target}
           y == [run EXCEPT !.declared = declared, !.incompatible = found]
<1>1. pc = "declarations" /\ (Refuse \/ Proceed("review", y))
  BY DEF ReadDeclarations
<1>2. CASE Refuse
  BY <1>1, <1>2, RefuseKeeps
<1>3. CASE Proceed("review", y)
  <2>1. IsReading(y) /\ y.incompatible = found /\ y.code = run.code
    <3>1. IsReading(run)
      BY DEF Consistent, Shape
    <3>2. \A v, w : LET z == [run EXCEPT !.declared = v, !.incompatible = w]
                    IN  /\ IsReading(z) /\ z.incompatible = w
                        /\ z.code = run.code /\ z.launch = run.launch
      BY <3>1, SetDeclarations
    <3> HIDE DEF declared, found
    <3> QED BY <3>2
  <2> HIDE DEF y
  <2>2. /\ Shape' /\ pc' = "review" /\ run' = y /\ out' = Absent /\ ~Rendered'
        /\ quiet' = quiet /\ UNCHANGED <<files, frozen, working, pointer, evidence>>
        /\ quiet => CodeIsThere' /\ verdict' # "red"
    BY <1>1, <1>3, <2>1, Onward
  <2>3. run'.incompatible = IncompatibleSources'
    BY <2>1, <2>2 DEF IncompatibleSources, ScheduleClauseSourcePaths, Exists
  <2>4. StillThere'
    BY <2>2, <2>3 DEF StillThere, Reviewed
  <2> QED BY <2>2, <2>4 DEF Consistent
<1> QED BY <1>1, <1>2, <1>3

LEMMA ReviewKept == ASSUME Consistent, ReviewCompatibility PROVE Consistent'
<1> DEFINE y == [run EXCEPT !.complete = pointer.status = "complete"]
<1>1. pc = "review"
  BY DEF ReviewCompatibility
<1>2. CASE Refuse
  BY <1>1, <1>2, RefuseKeeps
<1>3. CASE /\ Proceed("outcomes", y)
           /\ Exists(files, "states") /\ Exists(files, "requirements")
           /\ ValidateCompatibilityReview(run.launch, files)
           /\ ~(pointer.status = "complete" /\ run.incompatible # {})
  <2>1. IsReading(y) /\ y.complete = (pointer.status = "complete")
        /\ y.code = run.code /\ y.incompatible = run.incompatible
    <3>1. IsReading(run)
      BY DEF Consistent, Shape
    <3> QED BY <3>1, SetComplete
  <2> HIDE DEF y
  <2>2. /\ Shape' /\ pc' = "outcomes" /\ run' = y /\ out' = Absent /\ ~Rendered'
        /\ quiet' = quiet /\ UNCHANGED <<files, frozen, working, pointer, evidence>>
        /\ quiet => CodeIsThere' /\ verdict' # "red"
    BY <1>1, <1>3, <2>1, Onward
  <2>3. UNCHANGED checkout
    BY <2>2 DEF checkout
  <2>4. quiet => run.incompatible = IncompatibleSources
    BY <1>1 DEF Consistent, StillThere, Declared
  <2>5. quiet => run'.incompatible = IncompatibleSources'
    BY <2>1, <2>2, <2>3, <2>4, BoundEvidence
  <2>6. /\ ValidateTargetLicenseArtifact(pointer.artifact)
        /\ \/ pointer.status = "pending"
           \/ pointer.status = "complete" /\ LoadContentAddressedEvidence(files)
    BY <1>3 DEF ValidateCompatibilityReview
  <2>7. /\ Exists(files, "states")' /\ Exists(files, "requirements")'
        /\ run'.complete = (pointer'.status = "complete")
    BY <1>3, <2>1, <2>2 DEF Exists
  <2>8. ReviewStands'
    BY <1>3, <2>1, <2>2, <2>3, <2>6, <2>7, BoundEvidence DEF ReviewStands
  <2>9. StillThere'
    BY <2>2, <2>5, <2>8 DEF StillThere
  <2> QED BY <2>2, <2>9 DEF Consistent
<1> QED BY <1>2, <1>3 DEF ReviewCompatibility

(* The five steps that fill in an entry.                                   *)
LEMMA EntryKept ==
  ASSUME Consistent, NEW next, NEW y, Proceed(next, y), Kept(run, y),
         pc \in {"outcomes", "r", "s", "organizations", "projects"},
         next \in {"r", "s", "organizations", "projects", "write"}
  PROVE  Consistent'
<1>1. IsReading(y) /\ y.complete = run.complete
      /\ y.code = run.code /\ y.incompatible = run.incompatible
  BY DEF Kept
<1>2. /\ Shape' /\ pc' = next /\ run' = y /\ out' = Absent /\ ~Rendered'
      /\ quiet' = quiet /\ UNCHANGED <<files, frozen, working, pointer, evidence>>
      /\ quiet => CodeIsThere' /\ verdict' # "red"
  BY <1>1, Onward
<1>3. UNCHANGED checkout
  BY <1>2 DEF checkout
<1>4. quiet => run.incompatible = IncompatibleSources /\ ReviewStands
  BY DEF Consistent, StillThere, Declared, Reviewed
<1>5. quiet => run'.incompatible = IncompatibleSources'
  BY <1>1, <1>2, <1>3, <1>4, BoundEvidence
<1>6. quiet => ReviewStands'
  BY <1>1, <1>2, <1>3, <1>4, BoundEvidence DEF ReviewStands, Exists
<1>7. StillThere'
  BY <1>2, <1>5, <1>6 DEF StillThere
<1> QED BY <1>2, <1>7 DEF Consistent

LEMMA EntriesKept ==
  ASSUME Consistent,
         ReadOutcomes \/ ReadStateR \/ ReadStateS \/ ReadOrganizations \/ ReadProjects
  PROVE  Consistent'
<1> DEFINE o == [run EXCEPT !.outcomes = StateOutcomes(files)]
           r == [run EXCEPT !.r = CollectStateRRecords(run.outcomes, files)]
           s == [run EXCEPT !.s = CollectStateSRecords(run.outcomes, files)]
           g == [run EXCEPT !.orgs = CollectOrganizations(files)]
           p == [run EXCEPT !.projects = CollectProjects(files)]
<1>0. IsReading(run)
  BY DEF Consistent, Shape
<1>1. Kept(run, o) /\ Kept(run, r) /\ Kept(run, s) /\ Kept(run, g) /\ Kept(run, p)
  BY <1>0, SetEntries
<1>2. \/ Refuse /\ pc \notin {"check", "done"}
      \/ pc = "outcomes" /\ Proceed("r", o)
      \/ pc = "r" /\ Proceed("s", r)
      \/ pc = "s" /\ Proceed("organizations", s)
      \/ pc = "organizations" /\ Proceed("projects", g)
      \/ pc = "projects" /\ Proceed("write", p)
  BY DEF ReadOutcomes, ReadStateR, ReadStateS, ReadOrganizations, ReadProjects
<1> HIDE DEF o, r, s, g, p
<1> QED BY <1>1, <1>2, RefuseKeeps, EntryKept

LEMMA WriteKept == ASSUME Consistent, WriteCandidate PROVE Consistent'
<1>1. pc = "write"
  BY DEF WriteCandidate
<1>2. CASE Refuse
  BY <1>1, <1>2, RefuseKeeps
<1>3. CASE /\ out' = Render(run) /\ pc' = "check" /\ verdict' = "written"
           /\ UNCHANGED <<checkout, run, quiet, edits, reviews>>
  <2>1. UNCHANGED <<files, frozen, working, pointer, evidence>> /\ UNCHANGED checkout
        /\ UNCHANGED <<run, quiet>>
    BY <1>3 DEF checkout
  <2>2. quiet => /\ CodeIsThere /\ run.incompatible = IncompatibleSources /\ ReviewStands
    BY <1>1 DEF Consistent, StillThere, Bootstrapped, Declared, Reviewed
  <2>3. quiet => CodeIsThere' /\ run'.incompatible = IncompatibleSources'
    BY <2>1, <2>2, BoundEvidence DEF CodeIsThere, Exists
  <2>4. quiet => ReviewStands'
    BY <2>1, <2>2, BoundEvidence DEF ReviewStands, Exists
  <2>5. out'.ready = (run.incompatible = {} /\ run.complete) /\ out'.artifact = frozen
    BY <1>3 DEF Render
  <2>6. CandidateSays'
    BY <2>1, <2>5 DEF CandidateSays
  <2>7. StillThere'
    BY <1>3, <2>1, <2>3, <2>4, <2>6 DEF StillThere
  <2>8. Shape'
    <3>1. IsReading(run)'
      BY <2>1 DEF Consistent, Shape, IsReading
    <3> QED BY <1>3, <2>1, <3>1 DEF Consistent, Shape
  <2> QED BY <2>7, <2>8 DEF Consistent
<1> QED BY <1>2, <1>3 DEF WriteCandidate

LEMMA CheckKept == ASSUME Consistent, CheckOutput PROVE Consistent'
<1>1. pc = "check" /\ pc' = "done" /\ UNCHANGED <<run, out, quiet>> /\ UNCHANGED checkout
      /\ verdict' = IF ValidateRenderedState THEN "green" ELSE "red"
  BY DEF CheckOutput
<1>2. quiet => /\ CodeIsThere /\ run.incompatible = IncompatibleSources
               /\ ReviewStands /\ CandidateSays
  BY <1>1 DEF Consistent, StillThere, Bootstrapped, Declared, Reviewed, Rendered
<1>3. quiet => ValidateRenderedState
  <2> SUFFICES ASSUME quiet PROVE ValidateRenderedState
    OBVIOUS
  <2>1. out.artifact = pointer.artifact
    BY <1>2 DEF CandidateSays, ReviewStands, ValidateTargetLicenseArtifact
  <2>2. CASE pointer.status = "pending"
    <3>1. ~run.complete
      BY <1>2, <2>2 DEF ReviewStands
    <3>2. ~out.ready
      BY <1>2, <3>1 DEF CandidateSays
    <3> QED BY <2>1, <2>2, <3>2 DEF ValidateRenderedState
  <2>3. CASE pointer.status = "complete"
    <3>1. run.complete /\ run.incompatible = {}
      BY <1>2, <2>3 DEF ReviewStands
    <3>2. out.ready
      BY <1>2, <3>1 DEF CandidateSays
    <3> QED BY <2>1, <2>3, <3>2 DEF ValidateRenderedState
  <2> QED BY <1>2, <2>2, <2>3 DEF ReviewStands
<1>4. UNCHANGED <<files, frozen, working, pointer, evidence>>
  BY <1>1 DEF checkout
<1>5. quiet => CodeIsThere' /\ run'.incompatible = IncompatibleSources'
  BY <1>1, <1>2, <1>4, BoundEvidence DEF CodeIsThere, Exists
<1>6. quiet => ReviewStands'
  BY <1>1, <1>2, <1>4, BoundEvidence DEF ReviewStands, Exists
<1>7. quiet => CandidateSays'
  BY <1>1, <1>2, <1>4 DEF CandidateSays
<1>8. StillThere'
  BY <1>1, <1>3, <1>5, <1>6, <1>7 DEF StillThere
<1>9. Shape'
  <2>1. IsReading(run)'
    BY <1>1 DEF Consistent, Shape, IsReading
  <2> QED BY <1>1, <1>4, <2>1 DEF Consistent, Shape
<1> QED BY <1>8, <1>9 DEF Consistent

LEMMA NewRunKeeps == ASSUME Consistent, NewRun PROVE Consistent'
<1>1. /\ pc' = "idle" /\ run' = Start /\ out' = Absent /\ verdict' = "none"
      /\ evidence' = evidence
  BY DEF NewRun, checkout
<1>2. IsReading(run)'
  BY <1>1 DEF IsReading, Fields, Start
<1>3. Shape'
  BY <1>1, <1>2 DEF Consistent, Shape
<1>4. StillThere'
  BY <1>1 DEF StillThere, Bootstrapped, Declared, Reviewed, Rendered
<1> QED BY <1>3, <1>4 DEF Consistent

(***************************************************************************)
(* Maintainers end the quiet, and write evidence of the form they may.     *)
(***************************************************************************)
LEMMA MaintainerKeeps == ASSUME Consistent, Maintainer PROVE Consistent'
<1>1. ~quiet' /\ UNCHANGED <<pc, run, out>>
  BY Zenon DEF Maintainer, EditFile, EditLicense, RecordReview, EditPointer, RewriteEvidence, Edited
<1>2. \A x \in evidence' : RecordForm(x[2])
  <2>0. \A x \in evidence : RecordForm(x[2])
    BY DEF Consistent, Shape
  <2> DEFINE e(y) == [yaml |-> y, sources |-> ExpectedSourceBindings(files), artifact |-> frozen]
  <2>1. \A y \in Yaml : RecordForm(e(y))
    BY DEF RecordForm, ExpectedSourceBindings
  <2>2. CASE evidence' = evidence
    BY <2>0, <2>2
  <2>3. CASE RecordReview
    <3>1. PICK y \in Yaml : evidence' = evidence \cup {<<e(y), e(y)>>}
      BY <2>3 DEF RecordReview
    <3> QED BY <2>0, <2>1, <3>1
  <2>4. CASE RewriteEvidence
    <3>1. PICK x \in evidence : evidence' = (evidence \ {x}) \cup {<<x[1], e(x[2].yaml)>>}
      BY <2>4 DEF RewriteEvidence
    <3>2. x[2].yaml \in Yaml
      BY <2>0 DEF RecordForm
    <3> QED BY <2>0, <2>1, <3>1, <3>2
  <2> QED BY <2>2, <2>3, <2>4 DEF Maintainer, EditFile, EditLicense, EditPointer
<1>3. IsReading(run)'
  BY <1>1 DEF Consistent, Shape, IsReading
<1>4. Shape'
  BY <1>1, <1>2, <1>3 DEF Consistent, Shape
<1>5. StillThere'
  BY <1>1 DEF StillThere
<1> QED BY <1>4, <1>5 DEF Consistent

LEMMA Idle == ASSUME Consistent, UNCHANGED vars PROVE Consistent'
<1>1. UNCHANGED <<files, frozen, working, pointer, evidence, pc, run, out, verdict, quiet>>
      /\ UNCHANGED checkout
  BY DEF vars, checkout
<1>2. IsReading(run)' = IsReading(run)
  BY <1>1 DEF IsReading
<1>3. Shape'
  BY <1>1, <1>2 DEF Consistent, Shape
<1>4. CodeIsThere' = CodeIsThere /\ CandidateSays' = CandidateSays
  BY <1>1 DEF CodeIsThere, CandidateSays, Exists
<1>5. ReviewStands' = ReviewStands
  BY <1>1, BoundEvidence DEF ReviewStands, Exists
<1>6. StillThere'
  BY <1>1, <1>4, <1>5, BoundEvidence
     DEF Consistent, StillThere, Bootstrapped, Declared, Reviewed, Rendered
<1> QED BY <1>3, <1>6 DEF Consistent

(* Invariance: in every reachable state, whatever the renderer has read of *)
(* a checkout that nobody edited meanwhile is still what is there.         *)
THEOREM Invariance == Spec => []Consistent
<1>1. Init => Consistent
  <2> SUFFICES ASSUME Init PROVE Consistent
    OBVIOUS
  <2>1. IsReading(run)
    BY DEF Init, IsReading, Fields, Start
  <2>2. Shape
    BY <2>1 DEF Init, Shape
  <2>3. StillThere
    BY DEF Init, StillThere, Bootstrapped, Declared, Reviewed, Rendered
  <2> QED BY <2>2, <2>3 DEF Consistent
<1>2. Consistent /\ [Next]_vars => Consistent'
  BY BootstrapKeeps, DeclarationsKept, ReviewKept, EntriesKept, WriteKept, CheckKept,
     NewRunKeeps, MaintainerKeeps, Idle DEF Next, Renderer
<1> QED BY <1>1, <1>2, PTL DEF Spec

-----------------------------------------------------------------------------
(***************************************************************************)
(* What accepted evidence says.                                            *)
(***************************************************************************)
LEMMA AcceptedSaysCompatible ==
  ASSUME NEW y, DOMAIN y \subseteq Nat, ValidateEvidenceYamlNode(y),
         LoadYaml(y, "conclusion") = "compatible"
  PROVE  /\ \A i \in DOMAIN y : y[i].key = "conclusion" => y[i].text = "compatible"
         /\ \A i, j \in DOMAIN y : y[i].key = y[j].key => y[i].text = y[j].text
<1>1. \A i, j \in DOMAIN y : y[i].key = y[j].key => i = j
  BY Zenon DEF ValidateEvidenceYamlNode
<1>2. ASSUME NEW i \in DOMAIN y, y[i].key = "conclusion"
      PROVE  y[i].text = "compatible"
  <2>1. EntriesOf(y, "conclusion") = {i}
    BY <1>1, <1>2 DEF EntriesOf
  <2>2. (CHOOSE k \in {i} : \A j \in {i} : j <= k) = i
    BY <1>2
  <2> QED BY <2>1, <2>2 DEF LoadYaml
<1> QED BY <1>1, <1>2

LEMMA BoundPaths ==
  ASSUME CodeIsThere, ReviewStands
  PROVE  CompatibilityInputPaths(files) = {p \in Paths : Exists(files, p)}
  BY DEF CodeIsThere, ReviewStands, CompatibilityInputPaths, ScheduleClauseSourcePaths,
         BootstrapControlPaths, ScheduleRendererControlPaths, Paths

LEMMA CompatibleIsReviewed == ASSUME Consistent PROVE ReviewedContentOnly
<1> SUFFICES ASSUME pc \in {"check", "done"}, quiet, out # Absent, out.ready
             PROVE  ReviewedContentOnly
  BY DEF ReviewedContentOnly
<1>1. /\ CodeIsThere /\ run.incompatible = IncompatibleSources /\ ReviewStands
      /\ CandidateSays
  BY DEF Consistent, StillThere, Bootstrapped, Declared, Reviewed, Rendered
<1>2. run.incompatible = {} /\ run.complete
  BY <1>1 DEF CandidateSays
<1>3. pointer.status = "complete"
  BY <1>1, <1>2 DEF ReviewStands
<1>4. LoadContentAddressedEvidence(files) /\ ValidateTargetLicenseArtifact(pointer.artifact)
  BY <1>1, <1>3 DEF ReviewStands
<1>5. PICK x \in evidence : x[1] = pointer.id /\ x[2] = pointer.id /\ EvidenceAccepted(x[2], files)
  BY <1>4 DEF LoadContentAddressedEvidence
<1> DEFINE e == x[1]
<1>6. /\ ValidateEvidenceYamlNode(e.yaml) /\ LoadYaml(e.yaml, "conclusion") = "compatible"
      /\ e.artifact = pointer.artifact /\ e.sources = ExpectedSourceBindings(files)
  BY <1>5 DEF EvidenceAccepted, AssertExactSourceBindings
<1>7. DOMAIN e.yaml \subseteq Nat
  <2>1. e.yaml \in Yaml
    BY <1>5 DEF Consistent, Shape, RecordForm
  <2> QED BY <2>1, YamlAssumption DEF IsList
<1>8. /\ \A i \in DOMAIN e.yaml : e.yaml[i].key = "conclusion" => e.yaml[i].text = "compatible"
      /\ \A i, j \in DOMAIN e.yaml : e.yaml[i].key = e.yaml[j].key => e.yaml[i].text = e.yaml[j].text
  BY <1>6, <1>7, AcceptedSaysCompatible
<1>9. /\ DOMAIN e.sources = {p \in Paths : Exists(files, p)}
      /\ \A p \in DOMAIN e.sources : e.sources[p] = files[p]
  BY <1>1, <1>6, BoundPaths DEF ExpectedSourceBindings
<1>10. e.sources["impl"] = run.code
  BY <1>1, <1>9 DEF CodeIsThere, Paths
<1>11. e.artifact = frozen /\ e.artifact = working
  BY <1>4, <1>6 DEF ValidateTargetLicenseArtifact
<1>12. \A p \in ClausePaths \cap DOMAIN e.sources : e.sources[p].license = Target
  BY <1>1, <1>2, <1>9 DEF IncompatibleSources, ScheduleClauseSourcePaths
<1> QED
  BY <1>5, <1>8, <1>9, <1>10, <1>11, <1>12 DEF ReviewedContentOnly

(* CompatibleMeansReviewed: for any files, edits between any two reads,    *)
(* and reviews, a candidate rendered from a checkout nobody edited         *)
(* meanwhile is labelled compatible only where recorded evidence says so   *)
(* and binds exactly the content, the code and the License that are there. *)
THEOREM CompatibleMeansReviewed == Spec => []ReviewedContentOnly
<1> QED BY Invariance, CompatibleIsReviewed, PTL

(* CheckAgrees: the output check rejects no candidate of a checkout that   *)
(* has not changed since the renderer was started.                         *)
THEOREM CheckAgrees == Spec => []CheckRejectsOnlyChanges
<1>1. Consistent => CheckRejectsOnlyChanges
  BY DEF Consistent, StillThere, CheckRejectsOnlyChanges
<1> QED BY <1>1, Invariance, PTL

-----------------------------------------------------------------------------
(***************************************************************************)
(* The entries a run has gathered are those of a checkout that nobody      *)
(* edited.                                                                 *)
(***************************************************************************)
Past(steps) == pc \in steps \cup {"check"} \/ out # Absent

OutcomesThere == Exists(files, "states") /\ run.outcomes = StateOutcomes(files)
RThere        == Exists(files, "r") /\ run.r = CollectStateRRecords(StateOutcomes(files), files)
SThere        == /\ run.s = CollectStateSRecords(StateOutcomes(files), files)
                 /\ \A i \in DOMAIN run.s : FirstIdentity(run.s[i]) # Absent
OrganizationsThere == run.orgs = CollectOrganizations(files)
ProjectsThere == Exists(files, "projects") /\ run.projects = CollectProjects(files)

Unrepeated ==
  /\ ValidateUnique([i \in DOMAIN run.r |-> run.r[i].iso])
  /\ ValidateUnique([i \in DOMAIN run.orgs |-> run.orgs[i].id])
  /\ ValidateUnique([i \in DOMAIN run.projects |-> run.projects[i].id])
  /\ Len(run.r) = Cardinality({s \in States : run.outcomes[s] = "R"})

CandidateLists ==
  out.r = run.r /\ out.s = run.s /\ out.orgs = run.orgs /\ out.projects = run.projects

EntriesThere ==
  quiet =>
    /\ Past({"r", "s", "organizations", "projects", "write"}) => OutcomesThere
    /\ Past({"s", "organizations", "projects", "write"}) => RThere
    /\ Past({"organizations", "projects", "write"}) => SThere
    /\ Past({"projects", "write"}) => OrganizationsThere
    /\ Past({"write"}) => ProjectsThere
    /\ Past({}) => Unrepeated /\ CandidateLists

Gathered == FilesWellFormed /\ EntriesThere

LEMMA FilesKept == ASSUME FilesWellFormed, [Next]_vars PROVE FilesWellFormed'
<1>1. CASE files' = files
  BY <1>1 DEF FilesWellFormed
<1>2. CASE EditFile
  <2>0. PICK p \in Paths : \E c \in Menu[p] : files' = [files EXCEPT ![p] = c]
    BY <1>2 DEF EditFile
  <2>1. PICK c \in Menu[p] : files' = [files EXCEPT ![p] = c]
    BY <2>0
  <2>2. files = [q \in Paths |-> files[q]] /\ \A q \in Paths : WellFormed(q, files[q])
    BY DEF FilesWellFormed
  <2>3. files' = [q \in Paths |-> IF q = p THEN c ELSE files[q]]
    BY <2>1, <2>2
  <2>4. WellFormed(p, c)
    BY ContentsAssumption
  <2>5. \A q \in Paths : files'[q] = IF q = p THEN c ELSE files[q]
    BY <2>3
  <2>6. \A q \in Paths : WellFormed(q, files'[q])
    BY <2>2, <2>4, <2>5
  <2>7. files' = [q \in Paths |-> files'[q]]
    BY <2>3, <2>5
  <2> QED BY <2>6, <2>7 DEF FilesWellFormed
<1>3. [Next]_vars => files' = files \/ EditFile
  BY DEF Next, Renderer, Maintainer, Bootstrap, ReadDeclarations, ReviewCompatibility, ReadOutcomes,
         ReadStateR, ReadStateS, ReadOrganizations, ReadProjects, WriteCandidate, CheckOutput,
         NewRun, EditLicense, RecordReview, EditPointer, RewriteEvidence, Refuse, Proceed, vars,
         checkout
<1> QED BY <1>1, <1>2, <1>3

LEMMA GivingUpGathers ==
  ASSUME Consistent, Refuse, pc \notin {"check", "done"}
  PROVE  EntriesThere'
BY DEF Consistent, Shape, Refuse, EntriesThere, Past

LEMMA BeforeEntries ==
  ASSUME pc' \in {"idle", "declarations", "review", "outcomes", "done"}, out' = Absent
  PROVE  EntriesThere'
BY DEF EntriesThere, Past

(* What a step that sets field f leaves as it was.                         *)
LEMMA GoingOn ==
  ASSUME Consistent, NEW next, NEW y, Proceed(next, y), pc \notin {"check", "done"}
  PROVE  /\ pc' = next /\ run' = y /\ out' = Absent /\ out = Absent
         /\ files' = files /\ quiet' = quiet
BY DEF Consistent, Shape, Proceed, checkout

LEMMA OutcomesGathered == ASSUME Consistent, ReadOutcomes PROVE EntriesThere'
<1>1. pc = "outcomes"
  BY DEF ReadOutcomes
<1>2. CASE Refuse
  BY <1>1, <1>2, GivingUpGathers
<1>3. CASE ~Refuse
  <2> DEFINE y == [run EXCEPT !.outcomes = StateOutcomes(files)]
  <2>1. Exists(files, "states") /\ Proceed("r", y)
    BY <1>3 DEF ReadOutcomes
  <2>2. Sets(run, y, "outcomes", StateOutcomes(files))
    BY SetField DEF Consistent, Shape
  <2> HIDE DEF y
  <2>3. pc' = "r" /\ run' = y /\ out' = Absent /\ files' = files
    BY <1>1, <2>1, GoingOn
  <2>4. OutcomesThere'
    BY <2>1, <2>2, <2>3 DEF OutcomesThere, Sets, Exists
  <2> QED BY <2>3, <2>4 DEF EntriesThere, Past
<1> QED BY <1>2, <1>3

LEMMA RGathered == ASSUME Consistent, EntriesThere, ReadStateR PROVE EntriesThere'
<1>1. pc = "r"
  BY DEF ReadStateR
<1>2. CASE Refuse
  BY <1>1, <1>2, GivingUpGathers
<1>3. CASE ~Refuse
  <2> DEFINE v == CollectStateRRecords(run.outcomes, files)
             y == [run EXCEPT !.r = v]
  <2>1. Exists(files, "r") /\ Proceed("s", y)
    BY <1>3 DEF ReadStateR
  <2>2. Sets(run, y, "r", v)
    BY SetField DEF Consistent, Shape
  <2> HIDE DEF y
  <2>3. pc' = "s" /\ run' = y /\ out' = Absent /\ files' = files /\ quiet' = quiet
    BY <1>1, <2>1, GoingOn
  <2>4. quiet => OutcomesThere
    BY <1>1 DEF EntriesThere, Past
  <2>5. y.r = v /\ y.outcomes = run.outcomes
    BY <2>2 DEF Sets, Fields
  <2>6. quiet => OutcomesThere' /\ RThere'
    BY <2>1, <2>3, <2>4, <2>5 DEF OutcomesThere, RThere, Exists
  <2> QED BY <2>3, <2>6 DEF EntriesThere, Past
<1> QED BY <1>2, <1>3

LEMMA SGathered == ASSUME Consistent, EntriesThere, ReadStateS PROVE EntriesThere'
<1>1. pc = "s"
  BY DEF ReadStateS
<1>2. CASE Refuse
  BY <1>1, <1>2, GivingUpGathers
<1>3. CASE ~Refuse
  <2> DEFINE v == CollectStateSRecords(run.outcomes, files)
             y == [run EXCEPT !.s = v]
  <2>1. (\A i \in DOMAIN v : FirstIdentity(v[i]) # Absent) /\ Proceed("organizations", y)
    BY <1>3 DEF ReadStateS
  <2>2. Sets(run, y, "s", v)
    BY SetField DEF Consistent, Shape
  <2> HIDE DEF y
  <2>3. pc' = "organizations" /\ run' = y /\ out' = Absent /\ files' = files /\ quiet' = quiet
    BY <1>1, <2>1, GoingOn
  <2>4. quiet => OutcomesThere /\ RThere
    BY <1>1 DEF EntriesThere, Past
  <2>5. y.s = v /\ y.outcomes = run.outcomes /\ y.r = run.r
    BY <2>2 DEF Sets, Fields
  <2>6. quiet => OutcomesThere' /\ RThere' /\ SThere'
    <3> HIDE DEF v
    <3>1. quiet => v = CollectStateSRecords(StateOutcomes(files), files)
      BY <2>4 DEF OutcomesThere, v
    <3> QED BY <2>1, <2>3, <2>4, <2>5, <3>1 DEF OutcomesThere, RThere, SThere, Exists
  <2> QED BY <2>3, <2>6 DEF EntriesThere, Past
<1> QED BY <1>2, <1>3

LEMMA OrganizationsGathered ==
  ASSUME Consistent, EntriesThere, ReadOrganizations PROVE EntriesThere'
<1>1. pc = "organizations"
  BY DEF ReadOrganizations
<1>2. CASE Refuse
  BY <1>1, <1>2, GivingUpGathers
<1>3. CASE ~Refuse
  <2> DEFINE v == CollectOrganizations(files)
             y == [run EXCEPT !.orgs = v]
  <2>1. Proceed("projects", y)
    BY <1>3 DEF ReadOrganizations
  <2>2. Sets(run, y, "orgs", v)
    BY SetField DEF Consistent, Shape
  <2> HIDE DEF y
  <2>3. pc' = "projects" /\ run' = y /\ out' = Absent /\ files' = files /\ quiet' = quiet
    BY <1>1, <2>1, GoingOn
  <2>4. quiet => OutcomesThere /\ RThere /\ SThere
    BY <1>1 DEF EntriesThere, Past
  <2>5. y.orgs = v /\ y.outcomes = run.outcomes /\ y.r = run.r /\ y.s = run.s
    BY <2>2 DEF Sets, Fields
  <2>6. quiet => OutcomesThere' /\ RThere' /\ SThere' /\ OrganizationsThere'
    BY <2>3, <2>4, <2>5 DEF OutcomesThere, RThere, SThere, OrganizationsThere, Exists
  <2> QED BY <2>3, <2>6 DEF EntriesThere, Past
<1> QED BY <1>2, <1>3

LEMMA ProjectsGathered == ASSUME Consistent, EntriesThere, ReadProjects PROVE EntriesThere'
<1>1. pc = "projects"
  BY DEF ReadProjects
<1>2. CASE Refuse
  BY <1>1, <1>2, GivingUpGathers
<1>3. CASE ~Refuse
  <2> DEFINE v == CollectProjects(files)
             y == [run EXCEPT !.projects = v]
  <2>1. Exists(files, "projects") /\ Proceed("write", y)
    BY <1>3 DEF ReadProjects
  <2>2. Sets(run, y, "projects", v)
    BY SetField DEF Consistent, Shape
  <2> HIDE DEF y
  <2>3. pc' = "write" /\ run' = y /\ out' = Absent /\ files' = files /\ quiet' = quiet
    BY <1>1, <2>1, GoingOn
  <2>4. quiet => OutcomesThere /\ RThere /\ SThere /\ OrganizationsThere
    BY <1>1 DEF EntriesThere, Past
  <2>5. y.projects = v /\ y.outcomes = run.outcomes /\ y.r = run.r /\ y.s = run.s
        /\ y.orgs = run.orgs
    BY <2>2 DEF Sets, Fields
  <2>6. quiet => OutcomesThere' /\ RThere' /\ SThere' /\ OrganizationsThere' /\ ProjectsThere'
    BY <2>1, <2>3, <2>4, <2>5
       DEF OutcomesThere, RThere, SThere, OrganizationsThere, ProjectsThere, Exists
  <2> QED BY <2>3, <2>6 DEF EntriesThere, Past
<1> QED BY <1>2, <1>3

AllThere == OutcomesThere /\ RThere /\ SThere /\ OrganizationsThere /\ ProjectsThere

LEMMA SameThere ==
  ASSUME UNCHANGED <<files, run>>
  PROVE  AllThere' = AllThere /\ Unrepeated' = Unrepeated
BY DEF AllThere, OutcomesThere, RThere, SThere, OrganizationsThere, ProjectsThere, Exists,
       Unrepeated

LEMMA CandidateGathered ==
  ASSUME Consistent, EntriesThere, WriteCandidate PROVE EntriesThere'
<1>1. pc = "write"
  BY DEF WriteCandidate
<1>2. CASE Refuse
  BY <1>1, <1>2, GivingUpGathers
<1>3. CASE ~Refuse
  <2>1. /\ Unrepeated /\ out' = Render(run) /\ pc' = "check"
        /\ UNCHANGED <<files, run, quiet>>
    BY <1>3 DEF WriteCandidate, Unrepeated, checkout
  <2>2. quiet => AllThere
    BY <1>1 DEF EntriesThere, Past, AllThere
  <2>3. quiet => AllThere' /\ Unrepeated'
    BY <2>1, <2>2, SameThere
  <2>4. CandidateLists'
    BY <2>1 DEF CandidateLists, Render
  <2> QED BY <2>1, <2>3, <2>4 DEF EntriesThere, AllThere
<1> QED BY <1>2, <1>3

LEMMA NothingNew ==
  ASSUME EntriesThere, UNCHANGED <<files, run, out, quiet>>,
         pc' = pc \/ (pc = "check" /\ pc' = "done")
  PROVE  EntriesThere'
<1>1. /\ OutcomesThere' = OutcomesThere /\ RThere' = RThere /\ SThere' = SThere
      /\ OrganizationsThere' = OrganizationsThere /\ ProjectsThere' = ProjectsThere
      /\ Unrepeated' = Unrepeated /\ CandidateLists' = CandidateLists
  BY DEF OutcomesThere, RThere, SThere, OrganizationsThere, ProjectsThere, Exists,
         Unrepeated, CandidateLists
<1> QED BY <1>1 DEF EntriesThere, Past

LEMMA Gathers == ASSUME Consistent, EntriesThere, [Next]_vars PROVE EntriesThere'
<1>1. CASE Bootstrap
  <2>1. pc' \in {"declarations", "done"} /\ out' = Absent
    BY <1>1 DEF Bootstrap
  <2> QED BY <2>1, BeforeEntries
<1>2. CASE ReadDeclarations
  <2>1. pc = "declarations" /\ (Refuse \/ (pc' = "review" /\ out' = out))
    BY <1>2 DEF ReadDeclarations, Proceed
  <2>2. out = Absent
    BY <2>1 DEF Consistent, Shape
  <2> QED BY <2>1, <2>2, GivingUpGathers, BeforeEntries
<1>3. CASE ReviewCompatibility
  <2>1. pc = "review" /\ (Refuse \/ (pc' = "outcomes" /\ out' = out))
    BY <1>3 DEF ReviewCompatibility, Proceed
  <2>2. out = Absent
    BY <2>1 DEF Consistent, Shape
  <2> QED BY <2>1, <2>2, GivingUpGathers, BeforeEntries
<1>4. CASE CheckOutput
  <2>1. UNCHANGED <<files, run, out, quiet>> /\ pc = "check" /\ pc' = "done"
    BY <1>4 DEF CheckOutput, checkout
  <2> QED BY <2>1, NothingNew
<1>5. CASE NewRun
  <2>1. pc' = "idle" /\ out' = Absent
    BY <1>5 DEF NewRun
  <2> QED BY <2>1, BeforeEntries
<1>6. CASE Maintainer
  <2>1. ~quiet'
    BY <1>6, Zenon DEF Maintainer, EditFile, EditLicense, RecordReview, EditPointer, RewriteEvidence, Edited
  <2> QED BY <2>1 DEF EntriesThere
<1>7. CASE UNCHANGED vars
  <2>1. UNCHANGED <<files, run, out, quiet, pc>>
    BY <1>7 DEF vars, checkout
  <2> QED BY <2>1, NothingNew
<1> QED
  BY <1>1, <1>2, <1>3, <1>4, <1>5, <1>6, <1>7, OutcomesGathered, RGathered, SGathered,
     OrganizationsGathered, ProjectsGathered, CandidateGathered DEF Next, Renderer

LEMMA GatheredAlways == Spec => []Gathered
<1>1. Init => Gathered
  <2>1. Init => FilesWellFormed
    BY ContentsAssumption DEF Init, FilesWellFormed
  <2>2. Init => EntriesThere
    BY DEF Init, EntriesThere, Past
  <2> QED BY <2>1, <2>2 DEF Gathered
<1>2. Consistent /\ Gathered /\ [Next]_vars => Gathered'
  BY FilesKept, Gathers DEF Gathered
<1> QED BY <1>1, <1>2, Invariance, PTL DEF Spec

-----------------------------------------------------------------------------
(***************************************************************************)
(* What the lists of a candidate hold.                                     *)
(***************************************************************************)
LEMMA OutcomeMeans ==
  ASSUME NEW s, NEW x
  PROVE  OutcomeIs(StateOutcomes(files), s, x) <=> s \in ActiveStates(files, x)
<1>1. StateOutcomes(files) = [t \in States |-> ActiveOutcome(files, t)]
  BY OutcomesAre
<1>2. DOMAIN StateOutcomes(files) = States
      /\ \A t \in States : StateOutcomes(files)[t] = ActiveOutcome(files, t)
  BY <1>1
<1> QED BY <1>2 DEF OutcomeIs, ActiveStates

LEMMA ActiveAreFinite == ASSUME NEW x PROVE IsFiniteSet(ActiveStates(files, x))
<1>1. ActiveStates(files, x) \in SUBSET States
  BY DEF ActiveStates
<1> QED BY <1>1, StatesAssumption, FS_Subset

(* Distinct members of a finite set are all of it when they are as many.   *)
LEMMA AsMany ==
  ASSUME NEW n \in Nat, NEW A, IsFiniteSet(A), NEW f \in [1..n -> A],
         \A k, l \in 1..n : f[k] = f[l] => k = l
  PROVE  n = Cardinality(A) <=> \A a \in A : \E k \in 1..n : f[k] = a
<1>1. f \in Injection(1..n, A)
  BY DEF Injection, IsInjective
<1>2. Cardinality(1..n) = Cardinality(A) <=> f \in Surjection(1..n, A)
  BY <1>1, FS_Injection
<1>3. Cardinality(1..n) = n
  BY FS_Interval
<1>4. f \in Surjection(1..n, A) <=> \A a \in A : \E k \in 1..n : f[k] = a
  BY DEF Surjection
<1> QED BY <1>2, <1>3, <1>4

(* Where the entries of States lie.                                        *)
LEMMA RLists ==
  ASSUME FilesWellFormed, OutcomesThere, RThere
  PROVE  \E from :
           /\ run.r \in Seq(ToSet(files["r"].entries))
           /\ \A k \in 1..Len(run.r) :
                /\ from[k] \in DOMAIN files["r"].entries
                /\ run.r[k] = files["r"].entries[from[k]]
                /\ run.r[k].iso \in ActiveStates(files, "R")
           /\ \A k, l \in 1..Len(run.r) : from[k] = from[l] => k = l
           /\ \A i \in DOMAIN files["r"].entries :
                files["r"].entries[i].iso \in ActiveStates(files, "R") =>
                  \E k \in 1..Len(run.r) : from[k] = i
<1> DEFINE o == StateOutcomes(files)
           E == files["r"].entries
<1>1. run.r = CollectStateRRecords(o, files) /\ Exists(files, "r")
  BY DEF RThere
<1>2. \E from : Picks(CollectStateRRecords(o, files), E, ROf(o), from)
  BY <1>1, CollectsR
<1>3. PICK from : Picks(run.r, E, ROf(o), from)
  BY <1>1, <1>2
<1>4. \A i : i \in ROf(o) <=> i \in DOMAIN E /\ E[i].iso \in ActiveStates(files, "R")
  BY OutcomeMeans DEF ROf
<1> HIDE DEF o, E
<1>5. /\ run.r \in Seq(ToSet(E))
      /\ \A k \in 1..Len(run.r) : from[k] \in ROf(o) /\ run.r[k] = E[from[k]]
      /\ \A k, l \in 1..Len(run.r) : from[k] = from[l] => k = l
      /\ \A i \in ROf(o) : \E k \in 1..Len(run.r) : from[k] = i
  BY <1>3 DEF Picks
<1>6. \A k \in 1..Len(run.r) : /\ from[k] \in DOMAIN E /\ run.r[k] = E[from[k]]
                               /\ run.r[k].iso \in ActiveStates(files, "R")
  BY <1>4, <1>5
<1>7. \A i \in DOMAIN E : E[i].iso \in ActiveStates(files, "R") =>
         \E k \in 1..Len(run.r) : from[k] = i
  BY <1>4, <1>5
<1> QED BY <1>5, <1>6, <1>7 DEF E

LEMMA REveryStateOnce ==
  ASSUME FilesWellFormed, OutcomesThere, RThere, Unrepeated
  PROVE  \A s \in States : Cardinality({i \in DOMAIN run.r : run.r[i].iso = s})
                            = IF s \in ActiveStates(files, "R") THEN 1 ELSE 0
<1> DEFINE n == Len(run.r)
           A == ActiveStates(files, "R")
           f == [k \in 1..n |-> run.r[k].iso]
<1>1. DOMAIN run.r = 1..n /\ n \in Nat /\ \A k \in 1..n : run.r[k].iso \in A
  BY RLists
<1>2. A \subseteq States /\ Absent \notin A
  BY AbsentAssumption DEF ActiveStates
<1>3. ASSUME NEW k \in 1..n, NEW l \in 1..n, f[k] = f[l] PROVE k = l
  <2> DEFINE keys == [i \in DOMAIN run.r |-> run.r[i].iso]
  <2>1. ValidateUnique(keys)
    BY DEF Unrepeated
  <2>2. DOMAIN keys = 1..n /\ keys[k] = f[k] /\ keys[l] = f[l] /\ f[k] \in A
    BY <1>1
  <2> HIDE DEF keys, f
  <2> QED BY <1>2, <1>3, <2>1, <2>2 DEF ValidateUnique
<1>4. n = Cardinality(A)
  <2>1. {s \in States : run.outcomes[s] = "R"} = A
    <3>1. run.outcomes = [s \in States |-> ActiveOutcome(files, s)]
      BY OutcomesAre DEF OutcomesThere
    <3> QED BY <3>1 DEF ActiveStates
  <2> QED BY <2>1 DEF Unrepeated
<1>5. f \in [1..n -> A] /\ \A k \in 1..n : f[k] = run.r[k].iso
  BY <1>1
<1>6. IsFiniteSet(A)
  BY ActiveAreFinite
<1> HIDE DEF f, A, n
<1>7. \A a \in A : \E k \in 1..n : f[k] = a
  BY <1>1, <1>3, <1>4, <1>5, <1>6, AsMany
<1> SUFFICES ASSUME NEW s \in States
             PROVE  Cardinality({i \in DOMAIN run.r : run.r[i].iso = s}) = IF s \in A THEN 1 ELSE 0
  BY DEF A
<1>8. CASE s \in A
  <2>1. PICK k \in 1..n : f[k] = s
    BY <1>7, <1>8
  <2>2. {i \in DOMAIN run.r : run.r[i].iso = s} = {k}
    BY <1>1, <1>3, <1>5, <2>1
  <2> QED BY <1>8, <2>2, FS_Singleton
<1>9. CASE s \notin A
  <2>1. {i \in DOMAIN run.r : run.r[i].iso = s} = {}
    BY <1>1, <1>9
  <2> QED BY <1>9, <2>1, FS_EmptySet
<1> QED BY <1>8, <1>9

LEMMA SEverySelected ==
  ASSUME FilesWellFormed, SThere
  PROVE  ToSet(run.s) = {rec \in FrozenSRecords(files) :
                           /\ rec.state \in ActiveStates(files, "S") \ StatusBlockedStates(files)
                           /\ IsDirect(rec)}
<1>1. ToSet(run.s) = Selected(StateOutcomes(files))
  BY CollectsS DEF SThere
<1>2. \A rec : SRecordSelected(rec, StateOutcomes(files), files) <=>
        /\ rec.state \in ActiveStates(files, "S") \ StatusBlockedStates(files)
        /\ IsDirect(rec)
  BY OutcomeMeans DEF SRecordSelected
<1> QED BY <1>1, <1>2 DEF Selected

LEMMA OrganizationsEvery ==
  ASSUME FilesWellFormed, OrganizationsThere
  PROVE  ToSet(run.orgs) = UNION {{files[p].organizations[i] : i \in DirectOrganizations(p)} :
                                    p \in {"org", "armed"}}
<1> DEFINE U == UNION {{files[p].organizations[i] : i \in DirectOrganizations(p)} :
                         p \in {"org", "armed"}}
           g == run.orgs
<1>1. PICK from : FromBoth(g, from)
  BY CollectsOrganizations DEF OrganizationsThere
<1> HIDE DEF g
<1>2. ASSUME NEW k \in 1..Len(g) PROVE g[k] \in U
  BY <1>1 DEF FromBoth
<1>3. ASSUME NEW p \in {"org", "armed"}, NEW i \in DirectOrganizations(p)
      PROVE  \E k \in 1..Len(g) : g[k] = files[p].organizations[i]
  <2>1. PICK k \in 1..Len(g) : from[k] = <<p, i>>
    BY <1>1, <1>3 DEF FromBoth
  <2>2. g[k] = files[from[k][1]].organizations[from[k][2]]
    BY <1>1 DEF FromBoth
  <2>3. from[k][1] = p /\ from[k][2] = i
    BY <2>1
  <2> QED BY <2>2, <2>3
<1>4. DOMAIN g = 1..Len(g)
  BY <1>1 DEF FromBoth
<1>5. ToSet(g) \subseteq U
  BY <1>2, <1>4 DEF ToSet
<1>6. U \subseteq ToSet(g)
  BY <1>3, <1>4 DEF ToSet
<1> QED BY <1>5, <1>6 DEF g

LEMMA ProjectsEvery ==
  ASSUME FilesWellFormed, ProjectsThere
  PROVE  ToSet(run.projects) = {files["projects"].projects[i] : i \in ReadyProjects}
<1> DEFINE g == run.projects
           s == files["projects"].projects
<1>1. PICK from : Picks(g, s, ReadyProjects, from)
  BY CollectsProjects DEF ProjectsThere
<1> HIDE DEF g, s
<1>2. DOMAIN g = 1..Len(g) /\ \A k \in 1..Len(g) : from[k] \in ReadyProjects /\ g[k] = s[from[k]]
  BY <1>1 DEF Picks
<1>3. \A i \in ReadyProjects : \E k \in 1..Len(g) : from[k] = i
  BY <1>1 DEF Picks
<1>4. ToSet(g) = {s[i] : i \in ReadyProjects}
  BY <1>2, <1>3 DEF ToSet
<1> QED BY <1>4 DEF g, s

LEMMA UniqueIsNamedOnce ==
  ASSUME NEW g, ValidateUnique([i \in DOMAIN g |-> g[i].id])
  PROVE  NamedOnce(g)
BY DEF ValidateUnique, NamedOnce

LEMMA EntriesAreThere == ASSUME Gathered PROVE EveryActiveEntryOnce
<1> SUFFICES ASSUME pc \in {"check", "done"}, quiet, out # Absent
             PROVE  EveryActiveEntryOnce
  BY DEF EveryActiveEntryOnce
<1>1. /\ OutcomesThere /\ RThere /\ SThere /\ OrganizationsThere /\ ProjectsThere
      /\ Unrepeated /\ CandidateLists /\ FilesWellFormed
  BY DEF Gathered, EntriesThere, Past
<1>2. out.r = run.r /\ out.s = run.s /\ out.orgs = run.orgs /\ out.projects = run.projects
  BY <1>1 DEF CandidateLists
<1>3. NamedOnce(run.orgs) /\ NamedOnce(run.projects)
  BY <1>1, UniqueIsNamedOnce DEF Unrepeated
<1>4. \A i \in DOMAIN run.s : FirstIdentity(run.s[i]) # Absent
  BY <1>1 DEF SThere
<1> QED
  BY <1>1, <1>2, <1>3, <1>4, REveryStateOnce, SEverySelected, OrganizationsEvery, ProjectsEvery
     DEF EveryActiveEntryOnce

(* EntriesComplete: for any lists, overlays and edits, a candidate of a    *)
(* checkout nobody edited names exactly the active entries, each once.     *)
THEOREM EntriesComplete == Spec => []EveryActiveEntryOnce
<1> QED BY GatheredAlways, EntriesAreThere, PTL

-----------------------------------------------------------------------------
(***************************************************************************)
(* A plainly written record passes every test of a record.                 *)
(***************************************************************************)
LEMMA AllDistinct ==
  ASSUME NEW n \in Nat, NEW f, DOMAIN f = 1..n, f = [k \in 1..n |-> f[k]],
         Cardinality({f[k] : k \in 1..n}) = n
  PROVE  \A k, l \in 1..n : f[k] = f[l] => k = l
<1> DEFINE T == {f[k] : k \in 1..n}
<1>1. f \in Surjection(1..n, T)
  BY DEF Surjection
<1>2. IsFiniteSet(1..n) /\ Cardinality(1..n) = n
  BY FS_Interval
<1>3. f \in Injection(1..n, T)
  BY <1>1, <1>2, FS_Surjection
<1> QED BY <1>3 DEF Injection, IsInjective

LEMMA WrittenOnce ==
  ASSUME NEW y, DOMAIN y \subseteq Nat, \A i, j \in DOMAIN y : y[i].key = y[j].key => i = j,
         NEW i \in DOMAIN y
  PROVE  /\ LoadYaml(y, y[i].key) = y[i].text
         /\ y[i].key = "reviewed_at" => ReviewedAtLexicalValue(y) = y[i].text
<1>1. EntriesOf(y, y[i].key) = {i}
  BY DEF EntriesOf
<1>2. /\ (CHOOSE k \in {i} : \A j \in {i} : j <= k) = i
      /\ (CHOOSE k \in {i} : \A j \in {i} : k <= j) = i
  OBVIOUS
<1> QED BY <1>1, <1>2 DEF LoadYaml, ReviewedAtLexicalValue

LEMMA PlainIsAccepted ==
  ASSUME NEW y \in Yaml, PlainlyCompatible(y)
  PROVE  /\ ValidateEvidenceYamlNode(y)
         /\ ValidateReviewedAt(ReviewedAtLexicalValue(y))
         /\ LoadYaml(y, "reviewer") \notin {Absent, "blank"}
         /\ ValidateReviewedAt(LoadYaml(y, "reviewed_at"))
         /\ LoadYaml(y, "conclusion") = "compatible"
<1> DEFINE n == Len(y)
<1>1. DOMAIN y = 1..n /\ n \in Nat /\ y = [i \in 1..n |-> y[i]] /\ DOMAIN y \subseteq Nat
  BY YamlAssumption DEF IsList
<1> HIDE DEF n
<1>2. \A i, j \in DOMAIN y : y[i].key = y[j].key => i = j
  <2> DEFINE f == [k \in 1..n |-> y[k].key]
  <2>1. Cardinality({f[k] : k \in 1..n}) = n
    <3>1. {f[k] : k \in 1..n} = {y[i].key : i \in DOMAIN y}
      BY <1>1
    <3> QED BY <3>1 DEF PlainlyCompatible, n
  <2>2. DOMAIN f = 1..n /\ f = [k \in 1..n |-> f[k]] /\ \A k \in 1..n : f[k] = y[k].key
    OBVIOUS
  <2> HIDE DEF f
  <2>3. \A k, l \in 1..n : f[k] = f[l] => k = l
    BY <1>1, <2>1, <2>2, AllDistinct
  <2> QED BY <1>1, <2>2, <2>3
<1>3. /\ \A i \in DOMAIN y : y[i].keyNode # y[i].node
      /\ \A i, j \in DOMAIN y : /\ y[i].keyNode = y[j].keyNode => i = j
                                /\ y[i].node = y[j].node => i = j
                                /\ y[i].keyNode # y[j].node
  <2> DEFINE f == [k \in 1..(2 * n) |-> IF k <= n THEN y[k].keyNode ELSE y[k - n].node]
  <2>0. 2 * n \in Nat /\ \A i \in 1..n : i \in 1..(2 * n) /\ i <= n
                      /\ n + i \in 1..(2 * n) /\ ~(n + i <= n) /\ (n + i) - n = i
    BY <1>1
  <2>1. \A i \in 1..n : f[i] = y[i].keyNode /\ f[n + i] = y[i].node
    BY <2>0
  <2>2. \A k \in 1..(2 * n) : \E i \in 1..n : f[k] \in {y[i].node, y[i].keyNode}
    <3> SUFFICES ASSUME NEW k \in 1..(2 * n)
                 PROVE  \E i \in 1..n : f[k] \in {y[i].node, y[i].keyNode}
      OBVIOUS
    <3>1. CASE k <= n
      <4>1. k \in 1..n
        BY <1>1, <3>1
      <4> QED BY <2>1, <4>1
    <3>2. CASE ~(k <= n)
      <4>1. k - n \in 1..n
        BY <1>1, <3>2
      <4>2. f[k] = y[k - n].node
        BY <3>2
      <4> QED BY <4>1, <4>2
    <3> QED BY <3>1, <3>2
  <2>3. DOMAIN f = 1..(2 * n) /\ f = [k \in 1..(2 * n) |-> f[k]]
    OBVIOUS
  <2> HIDE DEF f
  <2>4. {f[k] : k \in 1..(2 * n)} = UNION {{y[i].node, y[i].keyNode} : i \in DOMAIN y}
    <3>1. ASSUME NEW i \in 1..n
          PROVE  y[i].node \in {f[k] : k \in 1..(2 * n)} /\ y[i].keyNode \in {f[k] : k \in 1..(2 * n)}
      BY <2>0, <2>1
    <3>2. \A z : z \in UNION {{y[i].node, y[i].keyNode} : i \in DOMAIN y}
                   <=> \E i \in 1..n : z \in {y[i].node, y[i].keyNode}
      BY <1>1
    <3>3. \A k \in 1..(2 * n) : f[k] \in UNION {{y[i].node, y[i].keyNode} : i \in DOMAIN y}
      BY <2>2, <3>2
    <3> DEFINE T == {f[k] : k \in 1..(2 * n)}
    <3>4. ASSUME NEW z \in UNION {{y[i].node, y[i].keyNode} : i \in DOMAIN y} PROVE z \in T
      <4>1. PICK i \in 1..n : z \in {y[i].node, y[i].keyNode}
        BY <3>2
      <4>2. y[i].node \in T /\ y[i].keyNode \in T
        BY <3>1
      <4> HIDE DEF T
      <4> QED BY <4>1, <4>2
    <3> QED BY <3>3, <3>4
  <2>5. Cardinality({f[k] : k \in 1..(2 * n)}) = 2 * n
    BY <2>4 DEF PlainlyCompatible, n
  <2>6. \A k, l \in 1..(2 * n) : f[k] = f[l] => k = l
    BY <2>0, <2>3, <2>5, AllDistinct
  <2>7. ASSUME NEW i \in 1..n, NEW j \in 1..n
        PROVE  /\ y[i].keyNode = y[j].keyNode => i = j
               /\ y[i].node = y[j].node => i = j
               /\ y[i].keyNode # y[j].node
    <3>1. y[i].keyNode = y[j].keyNode => i = j
      BY <2>0, <2>1, <2>6
    <3>2. y[i].node = y[j].node => n + i = n + j
      BY <2>0, <2>1, <2>6
    <3>3. y[i].keyNode = y[j].node => i = n + j
      BY <2>0, <2>1, <2>6
    <3> QED BY <1>1, <3>1, <3>2, <3>3
  <2> QED BY <1>1, <2>7
<1>4. ValidateEvidenceYamlNode(y)
  <2> DEFINE nodes == {<<i, "key">> : i \in DOMAIN y} \cup {<<i, "value">> : i \in DOMAIN y}
             id(m) == IF m[2] = "key" THEN y[m[1]].keyNode ELSE y[m[1]].node
  <2>1. ASSUME NEW m \in nodes
        PROVE  \/ m[1] \in DOMAIN y /\ m = <<m[1], "key">> /\ id(m) = y[m[1]].keyNode
               \/ m[1] \in DOMAIN y /\ m = <<m[1], "value">> /\ id(m) = y[m[1]].node
    <3>1. CASE \E i \in DOMAIN y : m = <<i, "key">>
      BY <3>1
    <3>2. CASE \E i \in DOMAIN y : m = <<i, "value">>
      BY <3>2
    <3> QED BY <3>1, <3>2
  <2> HIDE DEF nodes, id
  <2>2. \A m, k \in nodes : id(m) = id(k) => k = m
    <3> SUFFICES ASSUME NEW m \in nodes, NEW k \in nodes, id(m) = id(k) PROVE k = m
      OBVIOUS
    <3>1. \/ m[1] \in DOMAIN y /\ m = <<m[1], "key">> /\ id(m) = y[m[1]].keyNode
          \/ m[1] \in DOMAIN y /\ m = <<m[1], "value">> /\ id(m) = y[m[1]].node
      BY <2>1
    <3>2. \/ k[1] \in DOMAIN y /\ k = <<k[1], "key">> /\ id(k) = y[k[1]].keyNode
          \/ k[1] \in DOMAIN y /\ k = <<k[1], "value">> /\ id(k) = y[k[1]].node
      BY <2>1
    <3> QED BY <1>3, <3>1, <3>2
  <2>3. \A i \in DOMAIN y : y[i].key # "<<" /\ y[i].keyTag = "str" /\ y[i].tag \in AllowedScalarTags
    BY YamlAssumption DEF PlainlyCompatible
  <2> QED BY <1>2, <2>2, <2>3 DEF ValidateEvidenceYamlNode, nodes, id
<1>5. LoadYaml(y, "reviewer") = "named"
  <2>1. PICK i \in DOMAIN y : y[i].key = "reviewer" /\ y[i].text = "named"
    BY DEF PlainlyCompatible, Says
  <2> QED BY <1>1, <1>2, <2>1, WrittenOnce
<1>6. LoadYaml(y, "conclusion") = "compatible"
  <2>1. PICK i \in DOMAIN y : y[i].key = "conclusion" /\ y[i].text = "compatible"
    BY DEF PlainlyCompatible, Says
  <2> QED BY <1>1, <1>2, <2>1, WrittenOnce
<1>7. /\ ValidateReviewedAt(LoadYaml(y, "reviewed_at"))
      /\ ValidateReviewedAt(ReviewedAtLexicalValue(y))
  <2>1. PICK i \in DOMAIN y : y[i].key = "reviewed_at"
                              /\ y[i].text \in {"date", "timestamp-with-zone"}
    BY DEF PlainlyCompatible, Says
  <2>2. LoadYaml(y, y[i].key) = y[i].text /\ ReviewedAtLexicalValue(y) = y[i].text
    BY <1>1, <1>2, <2>1, WrittenOnce
  <2> QED BY <2>1, <2>2 DEF ValidateReviewedAt
<1> QED BY <1>4, <1>5, <1>6, <1>7, AbsentAssumption

(***************************************************************************)
(* Each way of giving up has its cause in what lies in the checkout.       *)
(***************************************************************************)
Cause == LaunchDefect \/ ReviewDefect \/ ClauseDefect

PointerForm ==
  /\ pointer = [f \in {"status", "id", "artifact"} |-> pointer[f]]
  /\ pointer.status \in {"pending", "complete"}
  /\ pointer.status = "pending" => pointer.id = Absent

LaunchForm == pc # "idle" => run.launch \in Launches

RefusedOnlyAtEnd == pc # "done" => verdict # "refused"

Explained ==
  /\ PointerForm /\ LaunchForm /\ RefusedOnlyAtEnd
  /\ verdict = "refused" /\ quiet => Cause

LEMMA DeclarationsCause ==
  ASSUME \/ ScheduleClauseSourcePaths(files) = {}
         \/ Absent \in {files[p].license : p \in ScheduleClauseSourcePaths(files)}
  PROVE  Cause
<1> DEFINE sources == {p \in ClausePaths : Exists(files, p)}
<1>1. ScheduleClauseSourcePaths(files) = sources
  BY DEF ScheduleClauseSourcePaths
<1>2. CASE sources = {}
  <2>1. {"r", "projects"} \cap sources # {"r", "projects"}
    BY <1>2
  <2> QED BY <2>1 DEF Cause, ClauseDefect
<1>3. CASE Absent \in {files[p].license : p \in sources}
  <2>1. \E p \in sources : files[p].license = Absent
    BY <1>3
  <2> QED BY <2>1 DEF Cause, ClauseDefect
<1> QED BY <1>1, <1>2, <1>3

LEMMA EvidenceCause ==
  ASSUME Shape, pointer.status = "complete", ~LoadContentAddressedEvidence(files),
         ValidateTargetLicenseArtifact(pointer.artifact),
         CompatibilityInputPaths(files) = {p \in Paths : Exists(files, p)}
  PROVE  ReviewDefect
<1> SUFFICES ASSUME ~ReviewDefect PROVE FALSE
  OBVIOUS
<1> DEFINE e == pointer.id
<1>1. /\ pointer.artifact = frozen /\ working = frozen /\ e # Absent /\ <<e, e>> \in evidence
      /\ DOMAIN e.sources = {p \in Paths : Exists(files, p)}
      /\ \A p \in DOMAIN e.sources : e.sources[p] = files[p]
      /\ e.artifact = frozen /\ PlainlyCompatible(e.yaml)
  BY DEF ReviewDefect
<1>2. <<e, e>>[2] = e /\ <<e, e>>[1] = e
  OBVIOUS
<1>3. RecordForm(e)
  BY <1>1, <1>2 DEF Shape
<1>4. e.sources = ExpectedSourceBindings(files)
  <2>1. e.sources = [p \in DOMAIN e.sources |-> e.sources[p]]
    BY <1>3 DEF RecordForm
  <2>2. ExpectedSourceBindings(files) = [p \in {q \in Paths : Exists(files, q)} |-> files[p]]
    BY DEF ExpectedSourceBindings
  <2> QED BY <1>1, <2>1, <2>2
<1>5. EvidenceAccepted(e, files)
  <2>1. e.yaml \in Yaml
    BY <1>3 DEF RecordForm
  <2>2. /\ ValidateEvidenceYamlNode(e.yaml)
        /\ ValidateReviewedAt(ReviewedAtLexicalValue(e.yaml))
        /\ LoadYaml(e.yaml, "reviewer") \notin {Absent, "blank"}
        /\ ValidateReviewedAt(LoadYaml(e.yaml, "reviewed_at"))
        /\ LoadYaml(e.yaml, "conclusion") = "compatible"
    BY <1>1, <2>1, PlainIsAccepted
  <2>3. e.artifact = pointer.artifact /\ ValidateTargetLicenseArtifact(e.artifact)
    BY <1>1 DEF ValidateTargetLicenseArtifact
  <2> QED BY <1>4, <2>2, <2>3 DEF EvidenceAccepted, AssertExactSourceBindings
<1>6. e \in {x[2] : x \in {z \in evidence : z[1] = pointer.id}}
  BY <1>1, <1>2
<1> QED BY <1>1, <1>5, <1>6 DEF LoadContentAddressedEvidence

LEMMA ReviewCause ==
  ASSUME Consistent, Explained, pc = "review", quiet,
         \/ ~Exists(files, "states") \/ ~Exists(files, "requirements")
         \/ ~ValidateCompatibilityReview(run.launch, files)
         \/ pointer.status = "complete" /\ run.incompatible # {}
  PROVE  Cause
<1>1. /\ CodeIsThere /\ run.incompatible = IncompatibleSources
      /\ run.launch \in Launches
  BY DEF Consistent, StillThere, Bootstrapped, Declared, Explained, LaunchForm
<1>2. (RepositoryLocalModule(run.launch) => run.launch.shadowed) /\ run.launch.parser # Absent
  BY <1>1, LaunchesAssumption
<1>3. CASE ~Exists(files, "states")
  BY <1>3 DEF Cause, LaunchDefect
<1>4. CASE ~Exists(files, "requirements")
  BY <1>2, <1>4 DEF Cause, LaunchDefect, Exists
<1>5. CASE pointer.status = "complete" /\ run.incompatible # {}
  <2>1. \E p \in ClausePaths : Exists(files, p) /\ files[p].license # Target
    BY <1>1, <1>5 DEF IncompatibleSources, ScheduleClauseSourcePaths
  <2>2. pointer.status = "complete"
          /\ \E p \in {q \in ClausePaths : Exists(files, q)} : files[p].license # Target
    BY <1>5, <2>1
  <2> QED BY <2>2 DEF Cause, ClauseDefect
<1>6. CASE /\ Exists(files, "states") /\ Exists(files, "requirements")
           /\ ~ValidateCompatibilityReview(run.launch, files)
  <2>1. CASE ~ValidateRendererEnvironment(run.launch, files)
    BY <1>2, <2>1 DEF ValidateRendererEnvironment, Cause, LaunchDefect
  <2>2. CASE ~ValidateTargetLicenseArtifact(pointer.artifact)
    BY <2>2 DEF ValidateTargetLicenseArtifact, Cause, ReviewDefect
  <2>3. CASE /\ ValidateRendererEnvironment(run.launch, files)
             /\ ValidateTargetLicenseArtifact(pointer.artifact)
    <3>1. pointer.status = "complete" /\ ~LoadContentAddressedEvidence(files)
      BY <1>6, <2>3 DEF ValidateCompatibilityReview, Explained, PointerForm
    <3>2. CompatibilityInputPaths(files) = {p \in Paths : Exists(files, p)}
      BY <1>1, <1>6 DEF CodeIsThere, CompatibilityInputPaths, ScheduleClauseSourcePaths,
           BootstrapControlPaths, ScheduleRendererControlPaths, Paths
    <3>3. ReviewDefect
      BY <2>3, <3>1, <3>2, EvidenceCause DEF Consistent
    <3> QED BY <3>3 DEF Cause
  <2> QED BY <2>1, <2>2, <2>3
<1> QED BY <1>3, <1>4, <1>5, <1>6

LEMMA OutcomesCause ==
  ASSUME ~Exists(files, "states") \/ MalformedOverlay(files)
  PROVE  Cause
<1>1. CASE ~Exists(files, "states")
  BY <1>1 DEF Cause, LaunchDefect
<1>2. CASE MalformedOverlay(files)
  <2>1. \E o \in ToSet(Overlays) : Exists(files, o) /\ Absent \in {files[o][s] : s \in DOMAIN files[o]}
    BY <1>2 DEF MalformedOverlay
  <2> QED BY <2>1 DEF Cause, ClauseDefect
<1> QED BY <1>1, <1>2

FrozenAs(s) == {i \in DOMAIN files["r"].entries : files["r"].entries[i].iso = s}

LEMMA RDefect ==
  ASSUME NEW s \in ActiveStates(files, "R"),
         Cardinality(FrozenAs(s)) # 1 \/ \E i \in FrozenAs(s) : ~files["r"].entries[i].class
  PROVE  Cause
<1>1. \E t \in ActiveStates(files, "R") :
        LET frozenAs == {i \in DOMAIN files["r"].entries : files["r"].entries[i].iso = t}
        IN  Cardinality(frozenAs) # 1 \/ \E i \in frozenAs : ~files["r"].entries[i].class
  BY Zenon DEF FrozenAs
<1> QED BY <1>1 DEF Cause, ClauseDefect

LEMMA MissingClause ==
  ASSUME ~Exists(files, "r") \/ ~Exists(files, "projects")
  PROVE  Cause
<1>1. {"r", "projects"} \cap {p \in ClausePaths : Exists(files, p)} # {"r", "projects"}
  OBVIOUS
<1> QED BY <1>1 DEF Cause, ClauseDefect

LEMMA RCause ==
  ASSUME OutcomesThere,
         \/ ~Exists(files, "r")
         \/ \E i \in DOMAIN files["r"].entries :
              /\ OutcomeIs(run.outcomes, files["r"].entries[i].iso, "R")
              /\ ~files["r"].entries[i].class
  PROVE  Cause
<1>1. CASE ~Exists(files, "r")
  BY <1>1, MissingClause
<1>2. CASE Exists(files, "r")
  <2>1. PICK i \in DOMAIN files["r"].entries :
          /\ OutcomeIs(run.outcomes, files["r"].entries[i].iso, "R")
          /\ ~files["r"].entries[i].class
    BY <1>2
  <2>2. files["r"].entries[i].iso \in ActiveStates(files, "R")
    BY <2>1, OutcomeMeans DEF OutcomesThere
  <2>3. i \in FrozenAs(files["r"].entries[i].iso)
    BY DEF FrozenAs
  <2> QED BY <2>1, <2>2, <2>3, RDefect
<1> QED BY <1>1, <1>2

LEMMA SCause ==
  ASSUME FilesWellFormed, OutcomesThere,
         NEW i \in DOMAIN CollectStateSRecords(run.outcomes, files),
         FirstIdentity(CollectStateSRecords(run.outcomes, files)[i]) = Absent
  PROVE  Cause
<1> DEFINE rec == CollectStateSRecords(run.outcomes, files)[i]
<1>1. rec \in ToSet(CollectStateSRecords(run.outcomes, files))
  BY DEF ToSet
<1>2. rec \in Selected(StateOutcomes(files))
  BY <1>1, CollectsS DEF OutcomesThere
<1>3. FirstIdentity(rec) = Absent
  OBVIOUS
<1> HIDE DEF rec
<1>4. /\ rec \in FrozenSRecords(files) /\ IsDirect(rec)
      /\ rec.state \in ActiveStates(files, "S") \ StatusBlockedStates(files)
  BY <1>2, OutcomeMeans DEF Selected, SRecordSelected
<1>5. {rec.identity, rec.party, rec.project} = {Absent}
  BY <1>3 DEF FirstIdentity
<1>6. \E x \in FrozenSRecords(files) :
        /\ x.state \in ActiveStates(files, "S") \ StatusBlockedStates(files)
        /\ IsDirect(x) /\ {x.identity, x.party, x.project} = {Absent}
  BY <1>4, <1>5
<1> QED BY <1>6 DEF Cause, ClauseDefect

LEMMA OrganizationsCause ==
  ASSUME FilesWellFormed, NEW k \in DOMAIN CollectOrganizations(files),
         ~CollectOrganizations(files)[k].identified
  PROVE  Cause
<1> DEFINE g == CollectOrganizations(files)
<1>1. PICK from : FromBoth(g, from)
  BY CollectsOrganizations
<1>2. k \in DOMAIN g /\ ~g[k].identified
  OBVIOUS
<1> HIDE DEF g
<1>3. /\ from[k][1] \in {"org", "armed"} /\ from[k][2] \in DirectOrganizations(from[k][1])
      /\ g[k] = files[from[k][1]].organizations[from[k][2]]
  BY <1>1, <1>2 DEF FromBoth
<1>4. \E p \in {"org", "armed"} :
        \E i \in DirectOrganizations(p) : ~files[p].organizations[i].identified
  BY <1>2, <1>3
<1> QED BY <1>4 DEF Cause, ClauseDefect

LEMMA ProjectDefect ==
  ASSUME NEW i \in ReadyProjects,
         \/ ~files["projects"].projects[i].identified
         \/ /\ files["projects"].projects[i].id # Absent
            /\ \E j \in ReadyProjects \ {i} :
                 files["projects"].projects[j].id = files["projects"].projects[i].id
  PROVE  Cause
<1>1. \E n \in ReadyProjects :
        LET rec == files["projects"].projects[n] IN
        \/ ~rec.identified
        \/ rec.id # Absent
           /\ \E j \in ReadyProjects \ {n} : files["projects"].projects[j].id = rec.id
  BY Zenon
<1> QED BY <1>1 DEF Cause, ClauseDefect

LEMMA ProjectsCause ==
  ASSUME FilesWellFormed,
         \/ ~Exists(files, "projects")
         \/ \E i \in DOMAIN CollectProjects(files) : ~CollectProjects(files)[i].identified
  PROVE  Cause
<1> DEFINE g == CollectProjects(files)
           s == files["projects"].projects
<1>1. CASE ~Exists(files, "projects")
  BY <1>1, MissingClause
<1>2. CASE Exists(files, "projects")
  <2>1. PICK from : Picks(g, s, ReadyProjects, from)
    BY <1>2, CollectsProjects
  <2>2. PICK k \in DOMAIN g : ~g[k].identified
    BY <1>2
  <2> HIDE DEF g, s
  <2>3. from[k] \in ReadyProjects /\ g[k] = s[from[k]]
    BY <2>1, <2>2 DEF Picks
  <2> QED BY <2>2, <2>3, ProjectDefect DEF s
<1> QED BY <1>1, <1>2

LEMMA RRepeated ==
  ASSUME FilesWellFormed, OutcomesThere, RThere,
         ~ValidateUnique([i \in DOMAIN run.r |-> run.r[i].iso])
  PROVE  Cause
<1> DEFINE E == files["r"].entries
<1>1. PICK from : /\ run.r \in Seq(ToSet(E))
                  /\ \A k \in 1..Len(run.r) : /\ from[k] \in DOMAIN E
                                               /\ run.r[k] = E[from[k]]
                                               /\ run.r[k].iso \in ActiveStates(files, "R")
                  /\ \A k, l \in 1..Len(run.r) : from[k] = from[l] => k = l
  BY RLists
<1>2. DOMAIN run.r = 1..Len(run.r)
  BY <1>1
<1>3. PICK k \in DOMAIN run.r, l \in DOMAIN run.r : run.r[k].iso = run.r[l].iso /\ k # l
  BY DEF ValidateUnique
<1> DEFINE s == run.r[k].iso
<1>4. from[k] \in FrozenAs(s) /\ from[l] \in FrozenAs(s) /\ from[k] # from[l]
  BY <1>1, <1>2, <1>3 DEF FrozenAs
<1>5. IsFiniteSet(FrozenAs(s))
  <2>1. IsList(E)
    BY ListsThere DEF RThere
  <2>2. DOMAIN E = 1..Len(E) /\ Len(E) \in Nat
    BY <2>1 DEF IsList
  <2>3. FrozenAs(s) \in SUBSET (1..Len(E))
    BY <2>2 DEF FrozenAs
  <2>4. IsFiniteSet(1..Len(E))
    BY <2>2, FS_Interval
  <2> QED BY <2>3, <2>4, FS_Subset
<1>6. Cardinality(FrozenAs(s)) # 1
  <2> HIDE DEF s
  <2> QED BY <1>4, <1>5, FS_Singleton
<1>7. s \in ActiveStates(files, "R")
  BY <1>1, <1>2
<1> HIDE DEF s
<1> QED BY <1>6, <1>7, RDefect

LEMMA RMissing ==
  ASSUME FilesWellFormed, OutcomesThere, RThere,
         ValidateUnique([i \in DOMAIN run.r |-> run.r[i].iso]),
         Len(run.r) # Cardinality({s \in States : run.outcomes[s] = "R"})
  PROVE  Cause
<1> DEFINE E == files["r"].entries
           n == Len(run.r)
           A == ActiveStates(files, "R")
           f == [k \in 1..n |-> run.r[k].iso]
<1>1. PICK from : /\ run.r \in Seq(ToSet(E))
                  /\ \A k \in 1..n : run.r[k] = E[from[k]] /\ run.r[k].iso \in A
                  /\ \A i \in DOMAIN E : E[i].iso \in A => \E k \in 1..n : from[k] = i
  BY RLists
<1>2. DOMAIN run.r = 1..n /\ n \in Nat
  BY <1>1
<1>3. A \subseteq States /\ Absent \notin A
  BY AbsentAssumption DEF ActiveStates
<1>4. \A k, l \in 1..n : f[k] = f[l] => k = l
  <2> DEFINE keys == [i \in DOMAIN run.r |-> run.r[i].iso]
  <2>1. ValidateUnique(keys)
    OBVIOUS
  <2>2. DOMAIN keys = 1..n /\ \A k \in 1..n : keys[k] = f[k] /\ f[k] \in A
    BY <1>1, <1>2
  <2> HIDE DEF keys, f
  <2> QED BY <1>3, <2>1, <2>2 DEF ValidateUnique
<1>5. n # Cardinality(A)
  <2>1. {s \in States : run.outcomes[s] = "R"} = A
    <3>1. run.outcomes = [s \in States |-> ActiveOutcome(files, s)]
      BY OutcomesAre DEF OutcomesThere
    <3> QED BY <3>1 DEF ActiveStates
  <2> QED BY <2>1
<1>6. f \in [1..n -> A] /\ \A k \in 1..n : f[k] = run.r[k].iso
  BY <1>1
<1>7. IsFiniteSet(A)
  BY ActiveAreFinite
<1> HIDE DEF f, A, n
<1>8. PICK s \in A : \A k \in 1..n : f[k] # s
  BY <1>2, <1>4, <1>5, <1>6, <1>7, AsMany
<1>9. FrozenAs(s) = {}
  <2>1. ASSUME NEW i \in DOMAIN E, E[i].iso = s PROVE FALSE
    <3>1. PICK k \in 1..n : from[k] = i
      BY <1>1, <2>1
    <3> QED BY <1>1, <1>6, <1>8, <2>1, <3>1
  <2> QED BY <2>1 DEF FrozenAs
<1>10. Cardinality(FrozenAs(s)) # 1
  BY <1>9, FS_EmptySet
<1> QED BY <1>10, RDefect DEF A

LEMMA OrganizationsRepeated ==
  ASSUME FilesWellFormed, OrganizationsThere,
         ~ValidateUnique([i \in DOMAIN run.orgs |-> run.orgs[i].id])
  PROVE  Cause
<1> DEFINE g == run.orgs
<1>1. PICK from : FromBoth(g, from)
  BY CollectsOrganizations DEF OrganizationsThere
<1>2. PICK k \in DOMAIN g, l \in DOMAIN g : g[k].id = g[l].id /\ g[k].id # Absent /\ k # l
  BY DEF ValidateUnique
<1> HIDE DEF g
<1>3. \A x \in {k, l} : /\ from[x][1] \in {"org", "armed"}
                       /\ from[x][2] \in DirectOrganizations(from[x][1])
                       /\ g[x] = files[from[x][1]].organizations[from[x][2]]
  BY <1>1, <1>2 DEF FromBoth
<1>4. from[k] # from[l]
  BY <1>1, <1>2 DEF FromBoth
<1>5. \A x \in {k, l} : from[x] = <<from[x][1], from[x][2]>>
  BY <1>1, <1>2 DEF FromBoth
<1>6. \E p, q \in {"org", "armed"} :
        \E i \in DirectOrganizations(p), j \in DirectOrganizations(q) :
          /\ <<p, i>> # <<q, j>>
          /\ files[p].organizations[i].id = files[q].organizations[j].id
          /\ files[p].organizations[i].id # Absent
  <2> DEFINE p == from[k][1]
             i == from[k][2]
             q == from[l][1]
             j == from[l][2]
  <2>1. p \in {"org", "armed"} /\ q \in {"org", "armed"}
        /\ i \in DirectOrganizations(p) /\ j \in DirectOrganizations(q)
    BY <1>3
  <2>2. <<p, i>> # <<q, j>>
    BY <1>4, <1>5
  <2>3. g[k] = files[p].organizations[i] /\ g[l] = files[q].organizations[j]
    BY <1>3
  <2> HIDE DEF p, q, i, j
  <2> QED BY <1>2, <2>1, <2>2, <2>3
<1>7. OrganizationTwice
  BY <1>6 DEF OrganizationTwice
<1> QED BY <1>7 DEF Cause, ClauseDefect

LEMMA ProjectsRepeated ==
  ASSUME FilesWellFormed, ProjectsThere,
         ~ValidateUnique([i \in DOMAIN run.projects |-> run.projects[i].id])
  PROVE  Cause
<1> DEFINE g == run.projects
           s == files["projects"].projects
<1>1. PICK from : Picks(g, s, ReadyProjects, from)
  BY CollectsProjects DEF ProjectsThere
<1>2. PICK k \in DOMAIN g, l \in DOMAIN g : g[k].id = g[l].id /\ g[k].id # Absent /\ k # l
  BY DEF ValidateUnique
<1> HIDE DEF g, s
<1>3. /\ from[k] \in ReadyProjects /\ g[k] = s[from[k]]
      /\ from[l] \in ReadyProjects /\ g[l] = s[from[l]]
      /\ from[k] # from[l]
  BY <1>1, <1>2 DEF Picks
<1> QED BY <1>2, <1>3, ProjectDefect DEF s

LEMMA WriteCause ==
  ASSUME FilesWellFormed, OutcomesThere, RThere, OrganizationsThere, ProjectsThere, ~Unrepeated
  PROVE  Cause
BY RRepeated, RMissing, OrganizationsRepeated, ProjectsRepeated DEF Unrepeated

(***************************************************************************)
(* Every refusal has its cause when it happens, and keeps it while nobody  *)
(* touches the checkout.                                                   *)
(***************************************************************************)
LEMMA SameCause == ASSUME UNCHANGED <<checkout, run>> PROVE Cause' = Cause
BY DEF checkout, Cause, LaunchDefect, ReviewDefect, ClauseDefect, OrganizationTwice,
       DirectOrganizations, ReadyProjects, Exists

LEMMA Untouched ==
  ASSUME PointerForm, UNCHANGED checkout PROVE PointerForm'
BY DEF PointerForm, checkout

LEMMA GivingUpIsExplained ==
  ASSUME Explained, Refuse, pc # "idle", quiet => Cause PROVE Explained'
<1>1. UNCHANGED checkout /\ UNCHANGED <<run, quiet>> /\ pc' = "done"
  BY DEF Refuse
<1>2. Cause' = Cause
  BY <1>1, SameCause
<1> QED BY <1>1, <1>2, Untouched DEF Explained, LaunchForm, RefusedOnlyAtEnd

LEMMA GoingOnIsExplained ==
  ASSUME Explained, NEW next, NEW y, Proceed(next, y), pc \notin {"idle", "done"},
         y.launch = run.launch
  PROVE  Explained'
<1>1. UNCHANGED checkout /\ run' = y /\ verdict' = verdict
  BY DEF Proceed
<1>2. verdict # "refused"
  BY DEF Explained, RefusedOnlyAtEnd
<1> QED BY <1>1, <1>2, Untouched DEF Explained, LaunchForm, RefusedOnlyAtEnd

LEMMA BootstrapExplained == ASSUME Explained, Bootstrap PROVE Explained'
<1>1. PICK launch \in Launches :
        /\ run' = [Start EXCEPT !.launch = launch, !.code = files["impl"]]
        /\ IF BootstrapRefuses(launch, files)
           THEN pc' = "done" /\ verdict' = "refused"
           ELSE pc' = "declarations" /\ verdict' = "none"
  BY DEF Bootstrap
<1>2. run'.launch = launch
  BY <1>1, SetLaunch
<1>3. UNCHANGED checkout /\ files' = files
  BY DEF Bootstrap, checkout
<1>4. BootstrapRefuses(launch, files) => Cause'
  <2> SUFFICES ASSUME BootstrapRefuses(launch, files) PROVE Cause'
    OBVIOUS
  <2>1. BootstrapRefuses(run'.launch, files')
    BY <1>2, <1>3
  <2>2. LaunchDefect'
    BY <2>1 DEF LaunchDefect
  <2> QED BY <2>2 DEF Cause
<1> QED BY <1>1, <1>2, <1>3, <1>4, Untouched DEF Explained, LaunchForm, RefusedOnlyAtEnd

LEMMA StepsExplained ==
  ASSUME Consistent, Gathered, Explained,
         \/ ReadDeclarations \/ ReviewCompatibility \/ ReadOutcomes \/ ReadStateR
         \/ ReadStateS \/ ReadOrganizations \/ ReadProjects
  PROVE  Explained'
<1>0. IsReading(run) /\ FilesWellFormed
  BY DEF Consistent, Shape, Gathered
<1>1. CASE ReadDeclarations
  <2> DEFINE sources == ScheduleClauseSourcePaths(files)
             declared == {files[p].license : p \in sources}
             found == {p \in sources : files[p].license # Target}
             y == [run EXCEPT !.declared = declared, !.incompatible = found]
  <2>1. pc = "declarations"
        /\ \/ Refuse /\ (sources = {} \/ Absent \in declared)
           \/ Proceed("review", y)
    BY <1>1 DEF ReadDeclarations
  <2>2. y.launch = run.launch
    <3>1. \A v, w : LET z == [run EXCEPT !.declared = v, !.incompatible = w]
                    IN  /\ IsReading(z) /\ z.incompatible = w
                        /\ z.code = run.code /\ z.launch = run.launch
      BY <1>0, SetDeclarations
    <3> HIDE DEF declared, found
    <3> QED BY <3>1
  <2>3. sources = {} \/ Absent \in declared => Cause
    BY DeclarationsCause
  <2> HIDE DEF sources, declared, y
  <2> QED BY <2>1, <2>2, <2>3, GivingUpIsExplained, GoingOnIsExplained
<1>2. CASE ReviewCompatibility
  <2> DEFINE y == [run EXCEPT !.complete = pointer.status = "complete"]
             bad == \/ ~Exists(files, "states") \/ ~Exists(files, "requirements")
                    \/ ~ValidateCompatibilityReview(run.launch, files)
                    \/ pointer.status = "complete" /\ run.incompatible # {}
  <2>1. pc = "review" /\ ((Refuse /\ bad) \/ Proceed("outcomes", y))
    BY <1>2 DEF ReviewCompatibility
  <2>2. y.launch = run.launch
    BY <1>0, SetComplete
  <2>3. quiet /\ bad => Cause
    BY <2>1, ReviewCause
  <2> HIDE DEF y, bad
  <2> QED BY <2>1, <2>2, <2>3, GivingUpIsExplained, GoingOnIsExplained
<1>3. CASE ReadOutcomes
  <2> DEFINE y == [run EXCEPT !.outcomes = StateOutcomes(files)]
  <2>1. pc = "outcomes"
        /\ ((Refuse /\ (~Exists(files, "states") \/ MalformedOverlay(files))) \/ Proceed("r", y))
    BY <1>3 DEF ReadOutcomes
  <2>2. y.launch = run.launch
    BY <1>0, SetEntries DEF Kept
  <2> HIDE DEF y
  <2> QED BY <2>1, <2>2, OutcomesCause, GivingUpIsExplained, GoingOnIsExplained
<1>4. CASE ReadStateR
  <2> DEFINE y == [run EXCEPT !.r = CollectStateRRecords(run.outcomes, files)]
             bad == \/ ~Exists(files, "r")
                    \/ \E i \in DOMAIN files["r"].entries :
                         /\ OutcomeIs(run.outcomes, files["r"].entries[i].iso, "R")
                         /\ ~files["r"].entries[i].class
  <2>1. pc = "r" /\ ((Refuse /\ bad) \/ Proceed("s", y))
    BY <1>4 DEF ReadStateR
  <2>2. y.launch = run.launch
    BY <1>0, SetEntries DEF Kept
  <2>3. quiet => OutcomesThere
    BY <2>1 DEF Gathered, EntriesThere, Past
  <2>4. quiet /\ bad => Cause
    BY <2>3, RCause
  <2> HIDE DEF y, bad
  <2> QED BY <2>1, <2>2, <2>4, GivingUpIsExplained, GoingOnIsExplained
<1>5. CASE ReadStateS
  <2> DEFINE found == CollectStateSRecords(run.outcomes, files)
             y == [run EXCEPT !.s = found]
             bad == \E i \in DOMAIN found : FirstIdentity(found[i]) = Absent
  <2>1. pc = "s" /\ ((Refuse /\ bad) \/ Proceed("organizations", y))
    BY <1>5 DEF ReadStateS
  <2>2. y.launch = run.launch
    BY <1>0, SetEntries DEF Kept
  <2>3. quiet => OutcomesThere
    BY <2>1 DEF Gathered, EntriesThere, Past
  <2>4. quiet /\ bad => Cause
    BY <1>0, <2>3, SCause
  <2> HIDE DEF y, bad
  <2> QED BY <2>1, <2>2, <2>4, GivingUpIsExplained, GoingOnIsExplained
<1>6. CASE ReadOrganizations
  <2> DEFINE found == CollectOrganizations(files)
             y == [run EXCEPT !.orgs = found]
             bad == \E i \in DOMAIN found : ~found[i].identified
  <2>1. pc = "organizations" /\ ((Refuse /\ bad) \/ Proceed("projects", y))
    BY <1>6 DEF ReadOrganizations
  <2>2. y.launch = run.launch
    BY <1>0, SetEntries DEF Kept
  <2>3. bad => Cause
    BY <1>0, OrganizationsCause
  <2> HIDE DEF y, bad
  <2> QED BY <2>1, <2>2, <2>3, GivingUpIsExplained, GoingOnIsExplained
<1>7. CASE ReadProjects
  <2> DEFINE found == CollectProjects(files)
             y == [run EXCEPT !.projects = found]
             bad == ~Exists(files, "projects") \/ \E i \in DOMAIN found : ~found[i].identified
  <2>1. pc = "projects" /\ ((Refuse /\ bad) \/ Proceed("write", y))
    BY <1>7 DEF ReadProjects
  <2>2. y.launch = run.launch
    BY <1>0, SetEntries DEF Kept
  <2>3. bad => Cause
    BY <1>0, ProjectsCause
  <2> HIDE DEF y, bad
  <2> QED BY <2>1, <2>2, <2>3, GivingUpIsExplained, GoingOnIsExplained
<1> QED BY <1>1, <1>2, <1>3, <1>4, <1>5, <1>6, <1>7

LEMMA WriteExplained == ASSUME Gathered, Explained, WriteCandidate PROVE Explained'
<1>1. pc = "write"
  BY DEF WriteCandidate
<1>2. CASE Refuse /\ ~Unrepeated
  <2>1. quiet => /\ FilesWellFormed /\ OutcomesThere /\ RThere
                 /\ OrganizationsThere /\ ProjectsThere
    BY <1>1 DEF Gathered, EntriesThere, Past
  <2> QED BY <1>1, <1>2, <2>1, WriteCause, GivingUpIsExplained
<1>3. CASE pc' = "check" /\ verdict' = "written" /\ UNCHANGED <<checkout, run, quiet>>
  <2>1. UNCHANGED checkout /\ run' = run
    BY <1>3
  <2> QED BY <1>1, <1>3, <2>1, Untouched DEF Explained, LaunchForm, RefusedOnlyAtEnd
<1> QED BY <1>2, <1>3 DEF WriteCandidate, Unrepeated

LEMMA MaintainerExplains == ASSUME Explained, Maintainer PROVE Explained'
<1>1. ~quiet' /\ UNCHANGED <<pc, run, verdict>>
  BY Zenon DEF Maintainer, EditFile, EditLicense, RecordReview, EditPointer, RewriteEvidence, Edited
<1> DEFINE P == {"status", "id", "artifact"}
<1>2. \A s, i, a : LET x == [status |-> s, id |-> i, artifact |-> a]
                  IN  x = [f \in P |-> x[f]] /\ x.status = s /\ x.id = i
  OBVIOUS
<1>3. pointer = [f \in P |-> pointer[f]] /\ pointer.status \in {"pending", "complete"}
      /\ (pointer.status = "pending" => pointer.id = Absent)
  BY DEF Explained, PointerForm
<1>4. LET x == [pointer EXCEPT !.artifact = frozen]
      IN  x = [f \in P |-> x[f]] /\ x.status = pointer.status /\ x.id = pointer.id
  BY <1>3
<1>5. PointerForm'
  <2>1. CASE pointer' = pointer
    BY <1>3, <2>1 DEF PointerForm
  <2>2. CASE \E i : pointer' = [status |-> "complete", id |-> i, artifact |-> frozen]
    BY <1>2, <2>2 DEF PointerForm
  <2>3. CASE pointer' = [status |-> "pending", id |-> Absent, artifact |-> frozen]
    BY <1>2, <2>3 DEF PointerForm
  <2>4. CASE pointer' = [pointer EXCEPT !.artifact = frozen]
    BY <1>3, <1>4, <2>4 DEF PointerForm
  <2> QED
    BY <2>1, <2>2, <2>3, <2>4, Zenon
       DEF Maintainer, EditFile, EditLicense, RecordReview, EditPointer, RewriteEvidence
<1> QED BY <1>1, <1>5 DEF Explained, LaunchForm, RefusedOnlyAtEnd

LEMMA Explains ==
  ASSUME Consistent, Gathered, Explained, [Next]_vars PROVE Explained'
<1>1. CASE CheckOutput
  <2>1. /\ UNCHANGED checkout /\ run' = run /\ pc = "check"
        /\ verdict' \in {"green", "red"}
    BY <1>1 DEF CheckOutput
  <2> QED BY <2>1, Untouched DEF Explained, LaunchForm, RefusedOnlyAtEnd
<1>2. CASE NewRun
  <2>1. UNCHANGED checkout /\ pc' = "idle" /\ verdict' = "none"
    BY <1>2 DEF NewRun
  <2> QED BY <2>1, Untouched DEF Explained, LaunchForm, RefusedOnlyAtEnd
<1>3. CASE UNCHANGED vars
  <2>1. UNCHANGED checkout /\ UNCHANGED <<run, pc, verdict, quiet>>
    BY <1>3 DEF vars
  <2>2. Cause' = Cause
    BY <2>1, SameCause
  <2> QED BY <2>1, <2>2, Untouched DEF Explained, LaunchForm, RefusedOnlyAtEnd
<1> QED
  BY <1>1, <1>2, <1>3, BootstrapExplained, StepsExplained, WriteExplained, MaintainerExplains
     DEF Next, Renderer

(* RefusalExplained: for any contents, launches and edits, a renderer that *)
(* gives up in a checkout nobody edited meanwhile does so for a defect a   *)
(* maintainer could find there.                                            *)
THEOREM RefusalExplained == Spec => []RefusalHasCause
<1>1. Init => Explained
  BY DEF Init, Explained, PointerForm, LaunchForm, RefusedOnlyAtEnd
<1>2. Consistent /\ Gathered /\ Explained /\ [Next]_vars => Explained'
  BY Explains
<1>3. Explained => RefusalHasCause
  BY DEF Explained, Cause, RefusalHasCause
<1> QED BY <1>1, <1>2, <1>3, Invariance, GatheredAlways, PTL DEF Spec

=============================================================================
