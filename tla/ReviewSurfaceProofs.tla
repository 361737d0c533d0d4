------------------------- MODULE ReviewSurfaceProofs -------------------------
(***************************************************************************)
(* Proofs about ReviewSurface, for every number of issues, pushes, edits   *)
(* and faults: the historical body of an issue is kept; in the second part,*)
(* after a job that exits with 0 another one would change nothing; in the  *)
(* third, what people wrote survives a PATCH.                              *)
(***************************************************************************)
EXTENDS ReviewSurface, WellFoundedInduction, SequenceTheorems, FiniteSetTheorems, TLAPS

-----------------------------------------------------------------------------
(***************************************************************************)
(* The first and the last of a set of places are in it.                    *)
(***************************************************************************)
LEMMA Below == IsWellFoundedOn({ss \in Nat \X Nat : ss[1] < ss[2]}, Nat)
  BY NatLessThanWellFounded DEF OpToRel

LEMMA Minimum ==
  ASSUME NEW S, S \subseteq Nat, S # {}
  PROVE  \E i \in S : \A j \in S : i <= j
<1> DEFINE R == {ss \in Nat \X Nat : ss[1] < ss[2]}
<1>1. PICK i \in S : \A j \in S : ~(<<j, i>> \in R)
  <2> HIDE DEF R
  <2>1. IsWellFoundedOn(R, Nat)
    BY Below DEF R
  <2> QED BY <2>1, WFMin
<1>2. \A j \in S : ~(j < i)
  <2> SUFFICES ASSUME NEW j \in S, j < i PROVE FALSE
    OBVIOUS
  <2>1. <<j, i>> \in Nat \X Nat /\ <<j, i>>[1] = j /\ <<j, i>>[2] = i
    OBVIOUS
  <2>2. <<j, i>> \in R
    BY <2>1
  <2> QED BY <1>1, <2>2
<1>3. \A j \in S : i \in Nat /\ j \in Nat
  OBVIOUS
<1> QED BY <1>2, <1>3

LEMMA FirstIsThere ==
  ASSUME NEW S, S \subseteq Nat, S # {}
  PROVE  First(S) \in S
  BY Minimum DEF First

LEMMA LastIsThere ==
  ASSUME NEW S, NEW n \in Nat, S \subseteq 1..n, S # {}
  PROVE  Last(S) \in S
<1> DEFINE M == {n - i : i \in S}
<1>1. \A i \in S : i \in Nat /\ n - i \in Nat
  OBVIOUS
<1>2. M \subseteq Nat /\ M # {}
  BY <1>1
<1>3. \E m \in M : \A k \in M : m <= k
  <2> HIDE DEF M
  <2> QED BY <1>2, Minimum
<1>4. PICK i \in S : \A j \in S : n - i <= n - j
  BY <1>3
<1>5. \A j \in S : j <= i
  BY <1>1, <1>4
<1> QED BY <1>5 DEF Last

-----------------------------------------------------------------------------
(***************************************************************************)
(* A sound body holds what people wrote once, at p; whatever opens or      *)
(* delimits metadata stands before it, whatever closes after it.           *)
(***************************************************************************)
Opening == {"start", "end", "open"}

Sound(b, p) ==
  /\ b \in Seq(Tokens) /\ p \in 1..Len(b) /\ b[p].is = "old"
  /\ \A i \in 1..Len(b) : /\ b[i].is = "old" => i = p
                          /\ b[i].is \in Opening => i < p
                          /\ b[i].is = "close" => p < i

Good(b) == \E p \in Nat : Sound(b, p)

LEMMA GoodHasOneHistory ==
  ASSUME NEW b, Good(b) PROVE Cardinality(Places(b, "old")) = 1
<1>1. PICK p \in Nat : Sound(b, p)
  BY DEF Good
<1>2. Places(b, "old") = {p}
  BY <1>1 DEF Sound, Places
<1> QED BY <1>2, FS_Singleton

(* Text that may stand before the history, text that may stand after it.   *)
Leads(s)   == s \in Seq(Tokens) /\ \A i \in 1..Len(s) : s[i].is \notin {"old", "close"}
Follows(s) == s \in Seq(Tokens) /\ \A i \in 1..Len(s) : s[i].is \notin {"old"} \cup Opening

LEMMA LeadsConcat ==
  ASSUME NEW s, NEW t, Leads(s), Leads(t)
  PROVE  Leads(s \o t)
  BY ConcatProperties DEF Leads

LEMMA Surrounded ==
  ASSUME NEW s, NEW b, NEW t, NEW p, Leads(s), Sound(b, p), Follows(t)
  PROVE  Sound(s \o b \o t, Len(s) + p)
<1> DEFINE u == s \o b
           c == u \o t
           n == Len(s) + p
<1>1. s \in Seq(Tokens) /\ b \in Seq(Tokens) /\ t \in Seq(Tokens) /\ p \in 1..Len(b)
      /\ Len(s) \in Nat /\ Len(b) \in Nat /\ Len(t) \in Nat
  BY DEF Leads, Sound, Follows
<1>2. /\ u \in Seq(Tokens) /\ Len(u) = Len(s) + Len(b)
      /\ \A i \in 1..(Len(s) + Len(b)) : u[i] = IF i <= Len(s) THEN s[i] ELSE b[i - Len(s)]
  BY <1>1, ConcatProperties
<1>a. u \in Seq(Tokens) /\ t \in Seq(Tokens)
  BY <1>1, <1>2
<1> HIDE DEF u
<1>3. /\ c \in Seq(Tokens) /\ Len(c) = Len(u) + Len(t)
      /\ \A i \in 1..(Len(u) + Len(t)) : c[i] = IF i <= Len(u) THEN u[i] ELSE t[i - Len(u)]
  BY <1>a, ConcatProperties
<1> HIDE DEF c
<1>4. /\ \A i \in 1..Len(s) : c[i] = s[i]
      /\ \A i \in 1..Len(b) : c[Len(s) + i] = b[i]
      /\ \A i \in 1..Len(t) : c[Len(s) + Len(b) + i] = t[i]
      /\ Len(c) = Len(s) + Len(b) + Len(t)
  <2>1. ASSUME NEW i \in 1..Len(s) PROVE c[i] = s[i]
    BY <1>1, <1>2, <1>3
  <2>2. ASSUME NEW i \in 1..Len(b) PROVE c[Len(s) + i] = b[i]
    BY <1>1, <1>2, <1>3
  <2>3. ASSUME NEW i \in 1..Len(t) PROVE c[Len(s) + Len(b) + i] = t[i]
    <3> DEFINE j == Len(s) + Len(b) + i
    <3>1. j \in 1..(Len(u) + Len(t)) /\ ~(j <= Len(u)) /\ j - Len(u) = i
      BY <1>1, <1>2
    <3> QED BY <1>3, <3>1
  <2> QED BY <1>2, <1>3, <2>1, <2>2, <2>3
<1>5. n \in 1..Len(c) /\ c[n].is = "old"
  BY <1>1, <1>4 DEF Sound
<1>6. ASSUME NEW i \in 1..Len(c)
      PROVE  /\ c[i].is = "old" => i = n
             /\ c[i].is \in Opening => i < n
             /\ c[i].is = "close" => n < i
  <2>1. CASE i <= Len(s)
    <3>1. c[i].is \notin {"old", "close"} /\ i < n
      BY <1>1, <1>4, <2>1 DEF Leads
    <3> QED BY <3>1
  <2>2. CASE Len(s) < i /\ i <= Len(s) + Len(b)
    <3> DEFINE j == i - Len(s)
    <3>1. j \in 1..Len(b) /\ c[i] = b[j] /\ i = Len(s) + j
      BY <1>1, <1>4, <2>2
    <3>2. /\ b[j].is = "old" => j = p
          /\ b[j].is \in Opening => j < p
          /\ b[j].is = "close" => p < j
      BY <3>1 DEF Sound
    <3> QED BY <1>1, <3>1, <3>2
  <2>3. CASE Len(s) + Len(b) < i
    <3> DEFINE j == i - (Len(s) + Len(b))
    <3>1. j \in 1..Len(t) /\ c[i] = t[j] /\ n < i
      BY <1>1, <1>4, <2>3
    <3>2. c[i].is \notin {"old"} \cup Opening
      BY <3>1 DEF Follows
    <3> QED BY <3>1, <3>2
  <2> QED BY <1>1, <2>1, <2>2, <2>3
<1>7. Sound(c, n)
  BY <1>3, <1>5, <1>6 DEF Sound
<1> QED BY <1>7 DEF c, u

(* Cutting a sound body on either side of the history.                     *)
LEMMA Cut ==
  ASSUME NEW b, NEW p, Sound(b, p), NEW m \in 1..p, NEW n \in p..Len(b)
  PROVE  Sound(SubSeq(b, m, n), p - m + 1)
<1> DEFINE c == SubSeq(b, m, n)
           q == p - m + 1
<1>1. b \in Seq(Tokens) /\ p \in 1..Len(b) /\ Len(b) \in Nat /\ m \in Int /\ n \in Int
      /\ m <= n
  BY DEF Sound
<1>2. \A i \in m..n : b[i] \in Tokens
  BY <1>1
<1>3. /\ c \in Seq(Tokens) /\ Len(c) = n - m + 1
      /\ \A i \in 1..(n - m + 1) : c[i] = b[m + i - 1]
  BY <1>1, <1>2, SubSeqProperties
<1> HIDE DEF c
<1>4. q \in 1..Len(c) /\ c[q] = b[p]
  <2>1. q \in 1..(n - m + 1) /\ m + q - 1 = p
    BY <1>1
  <2> QED BY <1>3, <2>1
<1>5. ASSUME NEW i \in 1..Len(c)
      PROVE  /\ c[i].is = "old" => i = q
             /\ c[i].is \in Opening => i < q
             /\ c[i].is = "close" => q < i
  <2> DEFINE j == m + i - 1
  <2>1. j \in 1..Len(b) /\ c[i] = b[j] /\ i = j - m + 1
    BY <1>1, <1>3
  <2>2. /\ b[j].is = "old" => j = p
        /\ b[j].is \in Opening => j < p
        /\ b[j].is = "close" => p < j
    BY <2>1 DEF Sound
  <2> QED BY <1>1, <2>1, <2>2
<1> QED BY <1>3, <1>4, <1>5 DEF Sound, c

LEMMA Before ==
  ASSUME NEW b, NEW p, Sound(b, p), NEW n \in 0..(p - 1)
  PROVE  Leads(SubSeq(b, 1, n))
<1> DEFINE c == SubSeq(b, 1, n)
<1>1. b \in Seq(Tokens) /\ p \in 1..Len(b) /\ Len(b) \in Nat /\ n \in Int /\ 1 \in Int
  BY DEF Sound
<1>2. \A i \in 1..n : b[i] \in Tokens
  BY <1>1
<1>3. /\ c \in Seq(Tokens) /\ Len(c) = IF 1 <= n THEN n - 1 + 1 ELSE 0
      /\ \A i \in 1..(n - 1 + 1) : c[i] = b[1 + i - 1]
  BY <1>1, <1>2, SubSeqProperties
<1> HIDE DEF c
<1>4. ASSUME NEW i \in 1..Len(c) PROVE c[i].is \notin {"old", "close"}
  <2>1. i \in 1..Len(b) /\ i < p /\ c[i] = b[i]
    BY <1>1, <1>3
  <2> QED BY <1>1, <2>1 DEF Sound
<1> QED BY <1>3, <1>4 DEF Leads, c

LEMMA After ==
  ASSUME NEW b, NEW p, Sound(b, p), NEW m \in (p + 1)..(Len(b) + 1)
  PROVE  Follows(SubSeq(b, m, Len(b)))
<1> DEFINE n == Len(b)
           c == SubSeq(b, m, n)
<1>1. b \in Seq(Tokens) /\ p \in 1..Len(b) /\ n \in Nat /\ n \in Int /\ m \in Int
  BY DEF Sound
<1>2. \A i \in m..n : b[i] \in Tokens
  BY <1>1
<1>3. /\ c \in Seq(Tokens) /\ Len(c) = IF m <= n THEN n - m + 1 ELSE 0
      /\ \A i \in 1..(n - m + 1) : c[i] = b[m + i - 1]
  BY <1>1, <1>2, SubSeqProperties
<1> HIDE DEF c
<1>4. ASSUME NEW i \in 1..Len(c) PROVE c[i].is \notin {"old"} \cup Opening
  <2> DEFINE j == m + i - 1
  <2>1. j \in 1..Len(b) /\ p < j /\ c[i] = b[j]
    BY <1>1, <1>3
  <2>2. /\ b[j].is = "old" => j = p
        /\ b[j].is \in Opening => j < p
    BY <2>1 DEF Sound
  <2> QED BY <1>1, <2>1, <2>2
<1> QED BY <1>3, <1>4 DEF Follows, c

LEMMA Nothing == Leads(<<>>) /\ Follows(<<>>)
<1>1. <<>> \in Seq(Tokens) /\ Len(<<>>) = 0
  BY EmptySeq
<1> QED BY <1>1 DEF Leads, Follows

LEMMA Prefixed ==
  ASSUME NEW s, NEW b, NEW p, Leads(s), Sound(b, p)
  PROVE  Sound(s \o b, Len(s) + p)
<1>1. s \o b \in Seq(Tokens)
  BY ConcatProperties DEF Leads, Sound
<1>2. s \o b \o <<>> = s \o b
  BY <1>1, ConcatEmptySeq
<1>3. Sound(s \o b \o <<>>, Len(s) + p)
  BY Surrounded, Nothing
<1> QED BY <1>2, <1>3

LEMMA Trailed ==
  ASSUME NEW b, NEW t, NEW p, Sound(b, p), Follows(t)
  PROVE  Sound(b \o t, p)
<1>1. b \in Seq(Tokens) /\ p \in Nat
  BY DEF Sound
<1>2. <<>> \o b = b
  BY <1>1, ConcatEmptySeq
<1>3. Len(<<>>) + p = p
  BY <1>1
<1>4. Sound(<<>> \o b \o t, Len(<<>>) + p)
  BY Surrounded, Nothing
<1> QED BY <1>2, <1>3, <1>4

-----------------------------------------------------------------------------
(***************************************************************************)
(* What the tool makes of a sound body.                                    *)
(***************************************************************************)
LEMMA TokenIs ==
  ASSUME NEW k \in Kinds
  PROVE  T(k) \in Tokens /\ T(k).is = k
  BY SizesAssumption DEF T, Tokens, Pushes

LEMMA MetadataLead ==
  ASSUME NEW v \in Pushes PROVE Leads(RenderMetadata(v))
<1> DEFINE m == [is |-> "meta", v |-> v]
<1>1. T("start") \in Tokens /\ T("start").is = "start" /\ T("end") \in Tokens /\ T("end").is = "end"
  BY TokenIs DEF Kinds, Delimiter
<1>2. m \in Tokens /\ m.is = "meta"
  BY DEF Tokens, Kinds
<1> HIDE DEF m
<1>3. Leads(<<T("start"), m, T("end")>>)
  BY <1>1, <1>2 DEF Leads
<1> QED BY <1>3 DEF RenderMetadata, m

LEMMA RenderedIsGood ==
  ASSUME NEW v \in Pushes, NEW h, Good(h) PROVE Good(RenderBody(v, h))
<1>1. PICK p \in Nat : Sound(h, p)
  BY DEF Good
<1>2. /\ T("marker") \in Tokens /\ T("marker").is = "marker"
      /\ T("box") \in Tokens /\ T("box").is = "box"
      /\ T("open") \in Tokens /\ T("open").is = "open"
      /\ T("close") \in Tokens /\ T("close").is = "close"
  BY TokenIs DEF Kinds, Delimiter
<1> DEFINE head == <<T("marker")>> \o RenderMetadata(v) \o <<T("box"), T("open")>>
           tail == <<T("close")>>
<1>3. Leads(<<T("marker")>>) /\ Leads(<<T("box"), T("open")>>)
  BY <1>2 DEF Leads
<1>4. Leads(head)
  BY <1>3, MetadataLead, LeadsConcat
<1>5. Follows(tail)
  BY <1>2 DEF Follows, Opening
<1>6. RenderBody(v, h) = head \o h \o tail
  BY DEF RenderBody
<1> HIDE DEF head, tail
<1>7. Sound(RenderBody(v, h), Len(head) + p)
  BY <1>1, <1>4, <1>5, <1>6, Surrounded
<1>8. Len(head) + p \in Nat
  BY <1>1, <1>4 DEF Leads
<1> QED BY <1>7, <1>8 DEF Good

LEMMA PlacesAre ==
  ASSUME NEW b \in Seq(Tokens), NEW k
  PROVE  /\ Places(b, k) \subseteq 1..Len(b) /\ Places(b, k) \subseteq Nat
         /\ \A i \in Places(b, k) : b[i].is = k
  BY DEF Places

LEMMA HistoryIsGood ==
  ASSUME NEW b, Good(b), HistoryIsThere(b) PROVE Good(History(b))
<1>1. PICK p \in Nat : Sound(b, p)
  BY DEF Good
<1>2. b \in Seq(Tokens) /\ Len(b) \in Nat /\ p \in 1..Len(b)
  BY <1>1 DEF Sound
<1> DEFINE f == First(Places(b, "open"))
           l == Last(Places(b, "close"))
<1>3. f \in Places(b, "open") /\ l \in Places(b, "close")
  BY <1>2, PlacesAre, FirstIsThere, LastIsThere DEF HistoryIsThere, Has
<1> HIDE DEF f, l
<1>4. f \in 1..Len(b) /\ l \in 1..Len(b) /\ b[f].is = "open" /\ b[l].is = "close"
  BY <1>2, <1>3, PlacesAre
<1>5. f < p /\ p < l
  BY <1>1, <1>4 DEF Sound, Opening
<1>6. f + 1 \in 1..p /\ l - 1 \in p..Len(b) /\ p - (f + 1) + 1 \in Nat
  BY <1>2, <1>4, <1>5
<1>7. Sound(SubSeq(b, f + 1, l - 1), p - (f + 1) + 1)
  BY <1>1, <1>6, Cut
<1> QED BY <1>6, <1>7 DEF Good, History, f, l

LEMMA ReplacedIsGood ==
  ASSUME NEW v \in Pushes, NEW b, Good(b), Delimited(b),
         EndsAfter(b, First(Places(b, "start"))) # {}
  PROVE  Good(ReplaceMetadata(v, b))
<1>1. PICK p \in Nat : Sound(b, p)
  BY DEF Good
<1>2. b \in Seq(Tokens) /\ Len(b) \in Nat /\ p \in 1..Len(b)
  BY <1>1 DEF Sound
<1> DEFINE s == First(Places(b, "start"))
           e == First(EndsAfter(b, s))
           left == SubSeq(b, 1, s - 1) \o RenderMetadata(v)
           right == SubSeq(b, e + 1, Len(b))
<1>3. s \in Places(b, "start")
  BY <1>2, PlacesAre, FirstIsThere DEF Delimited, Has
<1>4. e \in Places(b, "end") /\ e > s
  <2>1. EndsAfter(b, s) \subseteq Nat /\ EndsAfter(b, s) # {}
    BY <1>2, PlacesAre DEF EndsAfter
  <2>2. e \in EndsAfter(b, s)
    <3> HIDE DEF s
    <3> QED BY <2>1, FirstIsThere
  <2> QED BY <2>2 DEF EndsAfter
<1>5. ReplaceMetadata(v, b) = left \o right
  BY DEF ReplaceMetadata
<1> HIDE DEF s, e
<1>6. s \in 1..Len(b) /\ e \in 1..Len(b) /\ b[s].is = "start" /\ b[e].is = "end"
  BY <1>2, <1>3, <1>4, PlacesAre
<1>7. s < p /\ e < p
  BY <1>1, <1>6 DEF Sound, Opening
<1>8. s - 1 \in 0..(p - 1) /\ e + 1 \in 1..p /\ Len(b) \in p..Len(b)
      /\ p - (e + 1) + 1 \in Nat
  BY <1>2, <1>6, <1>7
<1>9. Leads(left)
  BY <1>1, <1>8, Before, MetadataLead, LeadsConcat
<1>10. Sound(right, p - (e + 1) + 1)
  BY <1>1, <1>8, Cut
<1> HIDE DEF left, right
<1>11. Sound(left \o right, Len(left) + (p - (e + 1) + 1))
  BY <1>9, <1>10, Prefixed
<1>12. Len(left) + (p - (e + 1) + 1) \in Nat
  BY <1>8, <1>9 DEF Leads
<1> QED BY <1>5, <1>11, <1>12 DEF Good

LEMMA SynchronizedIsGood ==
  ASSUME NEW v \in Pushes, NEW b, Good(b), Synchronizable(b)
  PROVE  Good(Synchronized(v, b))
<1>1. CASE ~Has(b, "marker")
  BY <1>1, RenderedIsGood DEF Synchronized
<1>2. CASE Has(b, "marker") /\ ~Delimited(b)
  <2>1. Good(History(b))
    BY <1>2, HistoryIsGood DEF Synchronizable
  <2> QED BY <1>2, <2>1, RenderedIsGood DEF Synchronized
<1>3. CASE Has(b, "marker") /\ Delimited(b)
  BY <1>3, ReplacedIsGood DEF Synchronized, Synchronizable
<1> QED BY <1>1, <1>2, <1>3

-----------------------------------------------------------------------------
(***************************************************************************)
(* What people make of it.                                                 *)
(***************************************************************************)
LEMMA TickedIsGood ==
  ASSUME NEW b, Good(b), NEW k \in Places(b, "box")
  PROVE  Good([b EXCEPT ![k] = T("checked")])
<1>1. PICK p \in Nat : Sound(b, p)
  BY DEF Good
<1> DEFINE c == [b EXCEPT ![k] = T("checked")]
<1>2. b \in Seq(Tokens) /\ k \in 1..Len(b) /\ b[k].is = "box"
  BY <1>1, PlacesAre DEF Sound
<1>3. T("checked") \in Tokens /\ T("checked").is = "checked"
  BY TokenIs DEF Kinds
<1>4. c \in Seq(Tokens) /\ Len(c) = Len(b)
      /\ \A i \in 1..Len(b) : c[i] = IF i = k THEN T("checked") ELSE b[i]
  BY <1>2, <1>3
<1> HIDE DEF c
<1>5. k # p /\ p \in 1..Len(c) /\ c[p].is = "old"
  BY <1>1, <1>2, <1>4 DEF Sound
<1>6. Sound(c, p)
  BY <1>1, <1>3, <1>4, <1>5 DEF Sound, Opening
<1> QED BY <1>6 DEF Good, c

LEMMA NotedIsGood ==
  ASSUME NEW b, Good(b), NEW k \in DOMAIN b
  PROVE  Good(SubSeq(b, 1, k) \o <<T("note")>> \o SubSeq(b, k + 1, Len(b)))
<1>1. PICK p \in Nat : Sound(b, p)
  BY DEF Good
<1>2. b \in Seq(Tokens) /\ Len(b) \in Nat /\ p \in 1..Len(b) /\ k \in 1..Len(b)
  BY <1>1 DEF Sound
<1> DEFINE left == SubSeq(b, 1, k)
           note == <<T("note")>>
           right == SubSeq(b, k + 1, Len(b))
<1>3. Leads(note) /\ Follows(note)
  <2>1. T("note") \in Tokens /\ T("note").is = "note"
    BY TokenIs DEF Kinds
  <2> QED BY <2>1 DEF Leads, Follows, Opening
<1>4. CASE k < p
  <2>1. k \in 0..(p - 1) /\ k + 1 \in 1..p /\ Len(b) \in p..Len(b) /\ p - (k + 1) + 1 \in Nat
    BY <1>2, <1>4
  <2>2. Leads(left \o note)
    BY <1>1, <1>3, <2>1, Before, LeadsConcat
  <2>3. Sound(right, p - (k + 1) + 1)
    BY <1>1, <2>1, Cut
  <2> HIDE DEF left, note, right
  <2>4. Sound((left \o note) \o right, Len(left \o note) + (p - (k + 1) + 1))
    BY <2>2, <2>3, Prefixed
  <2>5. Len(left \o note) + (p - (k + 1) + 1) \in Nat
    BY <2>1, <2>2 DEF Leads
  <2> QED BY <2>4, <2>5 DEF Good, left, note, right
<1>5. CASE p <= k
  <2>1. 1 \in 1..p /\ k \in p..Len(b) /\ k + 1 \in (p + 1)..(Len(b) + 1) /\ p - 1 + 1 = p
    BY <1>2, <1>5
  <2>2. Sound(left, p - 1 + 1)
    BY <1>1, <2>1, Cut
  <2>3. Follows(right)
    BY <1>1, <2>1, After
  <2> HIDE DEF left, note, right
  <2>4. Sound(left \o note, p)
    BY <1>3, <2>1, <2>2, Trailed
  <2>5. Sound((left \o note) \o right, p)
    BY <2>3, <2>4, Trailed
  <2> QED BY <2>5 DEF Good, left, note, right
<1> QED BY <1>2, <1>4, <1>5

LEMMA UndelimitedIsGood ==
  ASSUME NEW b, Good(b), NEW k \in DOMAIN b, b[k].is \in Delimiter
  PROVE  Good(SubSeq(b, 1, k - 1) \o SubSeq(b, k + 1, Len(b)))
<1>1. PICK p \in Nat : Sound(b, p)
  BY DEF Good
<1>2. b \in Seq(Tokens) /\ Len(b) \in Nat /\ p \in 1..Len(b) /\ k \in 1..Len(b)
  BY <1>1 DEF Sound
<1>3. k # p
  BY <1>1 DEF Sound, Delimiter
<1> DEFINE left == SubSeq(b, 1, k - 1)
           right == SubSeq(b, k + 1, Len(b))
<1>4. CASE k < p
  <2>1. k - 1 \in 0..(p - 1) /\ k + 1 \in 1..p /\ Len(b) \in p..Len(b) /\ p - (k + 1) + 1 \in Nat
    BY <1>2, <1>4
  <2>2. Leads(left)
    BY <1>1, <2>1, Before
  <2>3. Sound(right, p - (k + 1) + 1)
    BY <1>1, <2>1, Cut
  <2> HIDE DEF left, right
  <2>4. Sound(left \o right, Len(left) + (p - (k + 1) + 1))
    BY <2>2, <2>3, Prefixed
  <2>5. Len(left) + (p - (k + 1) + 1) \in Nat
    BY <2>1, <2>2 DEF Leads
  <2> QED BY <2>4, <2>5 DEF Good, left, right
<1>5. CASE p < k
  <2>1. 1 \in 1..p /\ k - 1 \in p..Len(b) /\ k + 1 \in (p + 1)..(Len(b) + 1) /\ p - 1 + 1 = p
    BY <1>2, <1>5
  <2>2. Sound(left, p - 1 + 1)
    BY <1>1, <2>1, Cut
  <2>3. Follows(right)
    BY <1>1, <2>1, After
  <2> HIDE DEF left, right
  <2>4. Sound(left \o right, p)
    BY <2>1, <2>2, <2>3, Trailed
  <2> QED BY <2>4 DEF Good, left, right
<1> QED BY <1>2, <1>3, <1>4, <1>5

-----------------------------------------------------------------------------
(***************************************************************************)
(* The invariant: every issue is sound, and so is what a PATCH is made of, *)
(* which may be older than the issue it will overwrite.                    *)
(***************************************************************************)
Histories == \A i \in Issues : Good(issue[i].body)

ReadIsSound ==
  pc = "patch" => at \in Issues /\ Good(read.body) /\ Synchronizable(read.body)

Inv == TypeOK /\ Histories /\ ReadIsSound

LEMMA VersionIsAPush ==
  ASSUME TypeOK, pc # "idle", NEW d PROVE Version(job, d) \in Pushes
<1>1. job \in 1..Len(pushes) /\ Len(pushes) <= MaxPushes /\ Len(pushes) \in Nat
  BY DEF TypeOK
<1> DEFINE changes == {k \in 1..job : pushes[k] = d}
<1>2. changes = {} \/ Last(changes) \in changes
  <2>1. changes \subseteq 1..job /\ job \in Nat
    BY <1>1
  <2> HIDE DEF changes
  <2> QED BY <2>1, LastIsThere
<1>3. \A k \in changes : k \in Pushes
  BY <1>1, SizesAssumption DEF Pushes
<1>4. 0 \in Pushes
  BY SizesAssumption DEF Pushes
<1> HIDE DEF changes
<1>5. (IF changes = {} THEN 0 ELSE Last(changes)) \in Pushes
  BY <1>2, <1>3, <1>4
<1> QED BY <1>5 DEF Version, changes

LEMMA DesiredIsGood ==
  ASSUME NEW v \in Pushes, NEW it \in Surfaces, Good(it.body), Synchronizable(it.body)
  PROVE  Desired(v, it) \in Surfaces /\ Good(Desired(v, it).body)
<1>1. Good(Synchronized(v, it.body))
  BY SynchronizedIsGood
<1>2. Synchronized(v, it.body) \in Seq(Tokens)
  BY <1>1 DEF Good, Sound
<1>3. it.labels \cup {"review"} \in SUBSET Labels
  BY DEF Surfaces, Labels
<1> QED BY <1>1, <1>2, <1>3 DEF Desired, Surfaces

(* Who writes an issue writes a sound one.                                 *)
LEMMA WritesSoundly ==
  ASSUME TypeOK, Histories, NEW i, NEW it \in Surfaces, Good(it.body),
         issue' = [issue EXCEPT ![i] = it]
  PROVE  issue' \in [Issues -> Surfaces] /\ Histories'
  BY DEF TypeOK, Histories

LEMMA PatchWrites ==
  ASSUME Inv, pc = "patch",
         issue' = [issue EXCEPT ![at] = Desired(Version(job, at), read)]
  PROVE  issue' \in [Issues -> Surfaces] /\ Histories'
<1>1. read \in Surfaces /\ Good(read.body) /\ Synchronizable(read.body)
  BY DEF Inv, TypeOK, ReadIsSound
<1>2. Version(job, at) \in Pushes
  BY VersionIsAPush DEF Inv
<1>3. PICK it : it = Desired(Version(job, at), read)
  OBVIOUS
<1>4. it \in Surfaces /\ Good(it.body)
  BY <1>1, <1>2, <1>3, DesiredIsGood
<1> QED BY <1>3, <1>4, WritesSoundly DEF Inv

LEMMA Unwritten ==
  ASSUME Inv, UNCHANGED issue PROVE issue' \in [Issues -> Surfaces] /\ Histories'
  BY DEF Inv, TypeOK, Histories

-----------------------------------------------------------------------------
(***************************************************************************)
(* The workflow and the job.                                               *)
(***************************************************************************)
LEMMA PushKeeps == ASSUME Inv, NEW d \in Issues, Push(d) PROVE Inv'
<1>1. pushes \in Seq(Issues) /\ Len(pushes) < MaxPushes /\ Len(pushes) \in Nat
  BY DEF Inv, TypeOK, Push
<1>2. pushes' \in Seq(Issues) /\ Len(pushes') = Len(pushes) + 1
  BY <1>1 DEF Push
<1>3. UNCHANGED <<pending, last, disordered, job, pc, at, read, failed, issue, edits, faults,
                  damaged, touched, settled>>
  BY DEF Push, worker
<1>4. /\ Len(pushes') <= MaxPushes /\ 1..Len(pushes) \subseteq 1..Len(pushes')
      /\ 0..Len(pushes) \subseteq 0..Len(pushes') /\ Len(pushes') \in 1..Len(pushes')
  BY <1>1, <1>2, SizesAssumption
<1>5. validating' \subseteq 1..Len(pushes')
  BY <1>4 DEF Push, Inv, TypeOK
<1>6. TypeOK'
  BY <1>2, <1>3, <1>4, <1>5 DEF Inv, TypeOK
<1>7. Histories' /\ ReadIsSound'
  BY <1>3 DEF Inv, Histories, ReadIsSound
<1> QED BY <1>6, <1>7 DEF Inv

LEMMA QueueKeeps ==
  ASSUME Inv, Dispatch \/ \E n \in Pushes : Validated(n) \/ ValidationFails(n)
  PROVE  Inv'
<1>1. UNCHANGED <<pushes, job, pc, at, read, failed, issue, edits, damaged, touched, settled>>
      /\ disordered' \in BOOLEAN
  BY Zenon DEF Dispatch, Validated, ValidationFails, worker, Inv, TypeOK
<1>2. Len(pushes) \in Nat /\ validating \subseteq 1..Len(pushes) /\ last \in 0..Len(pushes)
      /\ pending \in (1..Len(pushes)) \cup {None} /\ faults \in 0..MaxFaults
  BY DEF Inv, TypeOK
<1>3. /\ validating' \subseteq 1..Len(pushes) /\ last' \in 0..Len(pushes)
      /\ pending' \in (1..Len(pushes)) \cup {None} /\ faults' \in 0..MaxFaults
  <2>1. CASE Dispatch
    BY <1>2, <2>1 DEF Dispatch
  <2>2. ASSUME NEW n \in Pushes, Validated(n)
        PROVE  /\ validating' \subseteq 1..Len(pushes) /\ last' \in 0..Len(pushes)
               /\ pending' \in (1..Len(pushes)) \cup {None} /\ faults' \in 0..MaxFaults
    BY <1>2, <2>2 DEF Validated
  <2>3. ASSUME NEW n \in Pushes, ValidationFails(n)
        PROVE  /\ validating' \subseteq 1..Len(pushes) /\ last' \in 0..Len(pushes)
               /\ pending' \in (1..Len(pushes)) \cup {None} /\ faults' \in 0..MaxFaults
    BY <1>2, <2>3, SizesAssumption DEF ValidationFails
  <2> QED BY <2>1, <2>2, <2>3
<1>4. TypeOK'
  BY <1>1, <1>3 DEF Inv, TypeOK
<1>5. Histories' /\ ReadIsSound'
  BY <1>1 DEF Inv, Histories, ReadIsSound
<1> QED BY <1>4, <1>5 DEF Inv

LEMMA StartKeeps == ASSUME Inv, StartJob PROVE Inv'
<1>1. /\ job' = pending /\ pending # None /\ pc' = "labels" /\ at' = 1 /\ read' = None
      /\ failed' = FALSE /\ pending' = None /\ settled' = None /\ touched' = {}
      /\ UNCHANGED <<pushes, validating, last, disordered, issue, edits, faults, damaged>>
  BY DEF StartJob
<1>2. 1 \in 1..(NumIssues + 1)
  BY SizesAssumption
<1>3. TypeOK'
  BY <1>1, <1>2 DEF Inv, TypeOK
<1>4. Histories' /\ ReadIsSound'
  BY <1>1 DEF Inv, Histories, ReadIsSound
<1> QED BY <1>3, <1>4 DEF Inv

(* The job in the middle of its work: it goes on, or ends.                 *)
LEMMA GoesOn ==
  ASSUME Inv, at \in Issues, pc # "idle", NEW f \in BOOLEAN, NextIssue(f),
         issue' \in [Issues -> Surfaces], Histories',
         faults' \in 0..MaxFaults, touched' \subseteq Issues,
         UNCHANGED <<pushes, queue, edits, damaged, settled>>
  PROVE  Inv'
<1>1. /\ at' = at + 1 /\ pc' = "fetch" /\ read' = None /\ failed' = f /\ job' = job
      /\ UNCHANGED <<pushes, validating, pending, last, disordered, edits, damaged, settled>>
  BY DEF NextIssue, queue
<1>2. at' \in 1..(NumIssues + 1)
  BY <1>1, SizesAssumption DEF Issues
<1>3. TypeOK'
  BY <1>1, <1>2 DEF Inv, TypeOK
<1> QED BY <1>1, <1>3 DEF Inv, ReadIsSound

LEMMA Ends ==
  ASSUME Inv, EndJob, UNCHANGED <<pushes, queue, issue, edits, damaged, touched>>,
         faults' \in 0..MaxFaults, settled' \in (1..Len(pushes)) \cup {None}
  PROVE  Inv'
<1>1. /\ job' = None /\ pc' = "idle" /\ at' = 1 /\ read' = None /\ failed' = FALSE
      /\ UNCHANGED <<pushes, validating, pending, last, disordered, issue, edits, damaged, touched>>
  BY DEF EndJob, queue
<1>2. at' \in 1..(NumIssues + 1)
  BY <1>1, SizesAssumption
<1>3. TypeOK'
  BY <1>1, <1>2 DEF Inv, TypeOK
<1> QED BY <1>1, <1>3 DEF Inv, ReadIsSound, Histories

LEMMA LabelsKeep == ASSUME Inv, EnsureLabels PROVE Inv'
<1>1. /\ pc = "labels" /\ pc' = "fetch"
      /\ UNCHANGED <<pushes, validating, pending, last, disordered, job, at, read, failed, issue,
                     edits, faults, damaged, touched, settled>>
  BY DEF EnsureLabels, queue
<1>2. TypeOK'
  BY <1>1 DEF Inv, TypeOK
<1> QED BY <1>1, <1>2 DEF Inv, ReadIsSound, Histories

LEMMA FetchKeeps == ASSUME Inv, FetchIssue PROVE Inv'
<1> DEFINE it == issue[at]
           v  == Version(job, at)
<1>1. /\ pc = "fetch" /\ at \in Issues /\ touched' = touched \ {at}
      /\ UNCHANGED <<pushes, queue, issue, edits, faults, damaged, settled>>
  BY DEF FetchIssue
<1>2. /\ failed \in BOOLEAN /\ faults' \in 0..MaxFaults /\ touched' \subseteq Issues
      /\ it \in Surfaces /\ Good(it.body)
  BY <1>1 DEF Inv, TypeOK, Histories
<1>3. \/ NextIssue(TRUE) \/ NextIssue(failed)
      \/ Synchronizable(it.body) /\ read' = it /\ pc' = "patch" /\ UNCHANGED <<job, at, failed>>
  <2>1. CASE ~Synchronizable(it.body)
    BY <2>1 DEF FetchIssue
  <2>2. CASE Synchronizable(it.body) /\ Desired(v, it) = it
    BY <2>2 DEF FetchIssue
  <2>3. CASE Synchronizable(it.body) /\ Desired(v, it) # it
    BY <2>3 DEF FetchIssue
  <2> QED BY <2>1, <2>2, <2>3
<1>4. issue' \in [Issues -> Surfaces] /\ Histories'
  BY <1>1, Unwritten
<1>5. CASE NextIssue(TRUE) \/ NextIssue(failed)
  BY <1>1, <1>2, <1>4, <1>5, GoesOn
<1>6. CASE Synchronizable(it.body) /\ read' = it /\ pc' = "patch" /\ UNCHANGED <<job, at, failed>>
  <2>1. UNCHANGED <<pushes, validating, pending, last, disordered, job, at, failed, issue, edits,
                    faults, damaged, settled>>
    BY <1>1, <1>6 DEF queue
  <2>2. read' \in Surfaces /\ read' # None
    BY <1>2, <1>6, NoneAssumption
  <2> HIDE DEF it
  <2>3. TypeOK'
    BY <1>1, <1>2, <1>6, <2>1, <2>2 DEF Inv, TypeOK
  <2>4. ReadIsSound'
    BY <1>1, <1>2, <1>6, <2>1 DEF ReadIsSound
  <2> QED BY <1>4, <2>3, <2>4 DEF Inv
<1> QED BY <1>3, <1>5, <1>6

LEMMA PatchKeeps == ASSUME Inv, PatchIssue PROVE Inv'
<1>1. /\ pc = "patch" /\ issue' = [issue EXCEPT ![at] = Desired(Version(job, at), read)]
      /\ NextIssue(failed)
      /\ UNCHANGED <<pushes, queue, edits, damaged, settled>> /\ UNCHANGED <<faults, touched>>
  BY DEF PatchIssue
<1>2. /\ at \in Issues /\ failed \in BOOLEAN /\ faults' \in 0..MaxFaults
      /\ touched' \subseteq Issues
  BY <1>1 DEF Inv, TypeOK, ReadIsSound
<1>3. issue' \in [Issues -> Surfaces] /\ Histories'
  BY <1>1, PatchWrites
<1> QED BY <1>1, <1>2, <1>3, GoesOn

LEMMA FailureKeeps == ASSUME Inv, RequestFails PROVE Inv'
<1>1. /\ pc \in {"fetch", "patch"} /\ at \in Issues /\ faults < MaxFaults /\ faults' = faults + 1
      /\ NextIssue(TRUE)
      /\ UNCHANGED <<pushes, queue, edits, damaged, settled>> /\ UNCHANGED touched
      /\ \/ UNCHANGED issue
         \/ /\ pc = "patch"
            /\ issue' = [issue EXCEPT ![at] = Desired(Version(job, at), read)]
  BY DEF RequestFails
<1>2. faults' \in 0..MaxFaults /\ touched' \subseteq Issues
  BY <1>1, SizesAssumption DEF Inv, TypeOK
<1>3. issue' \in [Issues -> Surfaces] /\ Histories'
  BY <1>1, PatchWrites, Unwritten
<1> QED BY <1>1, <1>2, <1>3, GoesOn

LEMMA EndKeeps == ASSUME Inv, Abort \/ Finish PROVE Inv'
<1>1. EndJob /\ UNCHANGED <<pushes, queue, issue, edits, damaged, touched>>
  BY DEF Abort, Finish
<1>2. faults' \in 0..MaxFaults
  BY SizesAssumption DEF Abort, Finish, Inv, TypeOK
<1>3. settled' \in (1..Len(pushes)) \cup {None}
  BY DEF Abort, Finish, Inv, TypeOK
<1> QED BY <1>1, <1>2, <1>3, Ends

-----------------------------------------------------------------------------
(***************************************************************************)
(* Reviewers and maintainers.                                              *)
(***************************************************************************)
LEMMA EditKeeps ==
  ASSUME Inv, NEW i \in Issues, NEW it \in Surfaces, Good(it.body), Edit(i, it),
         damaged' \subseteq Issues
  PROVE  Inv'
<1>1. /\ edits' = edits + 1 /\ edits < MaxEdits /\ issue' = [issue EXCEPT ![i] = it]
      /\ touched' = touched \cup {i}
      /\ UNCHANGED <<pushes, validating, pending, last, disordered, job, pc, at, read, failed,
                     faults, settled>>
  BY DEF Edit, queue, worker
<1>2. issue' \in [Issues -> Surfaces] /\ Histories'
  BY <1>1, WritesSoundly DEF Inv
<1>3. edits' \in 0..MaxEdits /\ touched' \subseteq Issues
  BY <1>1, SizesAssumption DEF Inv, TypeOK
<1>4. TypeOK'
  BY <1>1, <1>2, <1>3 DEF Inv, TypeOK
<1>5. ReadIsSound'
  BY <1>1 DEF Inv, ReadIsSound
<1> QED BY <1>2, <1>4, <1>5 DEF Inv

LEMMA OtherBody ==
  ASSUME NEW r \in Surfaces, NEW b, Good(b)
  PROVE  [r EXCEPT !.body = b] \in Surfaces /\ Good([r EXCEPT !.body = b].body)
<1>1. b \in Seq(Tokens)
  BY DEF Good, Sound
<1>2. [r EXCEPT !.body = b] = [titled |-> r.titled, body |-> b, labels |-> r.labels]
  BY DEF Surfaces
<1> QED BY <1>1, <1>2 DEF Surfaces

LEMMA OtherHeader ==
  ASSUME NEW r \in Surfaces, Good(r.body), NEW l
  PROVE  /\ [r EXCEPT !.titled = FALSE] \in Surfaces /\ Good([r EXCEPT !.titled = FALSE].body)
         /\ [r EXCEPT !.labels = @ \ {l}] \in Surfaces
         /\ Good([r EXCEPT !.labels = @ \ {l}].body)
<1>1. r.titled \in BOOLEAN /\ r.body \in Seq(Tokens) /\ r.labels \subseteq Labels
  BY DEF Surfaces
<1>a. r = [titled |-> r.titled, body |-> r.body, labels |-> r.labels]
  BY DEF Surfaces
<1>b. \A x : [r EXCEPT !.titled = x] = [titled |-> x, body |-> r.body, labels |-> r.labels]
  BY <1>a
<1>2. [r EXCEPT !.titled = FALSE] = [titled |-> FALSE, body |-> r.body, labels |-> r.labels]
  BY <1>b
<1>3. [r EXCEPT !.labels = @ \ {l}]
        = [titled |-> r.titled, body |-> r.body, labels |-> r.labels \ {l}]
  BY <1>a
<1> QED BY <1>1, <1>2, <1>3 DEF Surfaces

LEMMA PersonKeeps ==
  ASSUME Inv, NEW i \in Issues,
         CheckBox(i) \/ AddNote(i) \/ EditHeader(i) \/ RemoveDelimiter(i)
  PROVE  Inv'
<1> DEFINE r == issue[i]
           b == r.body
<1>1. r \in Surfaces /\ Good(b) /\ damaged \subseteq Issues
  BY DEF Inv, TypeOK, Histories
<1>2. CASE CheckBox(i)
  <2>1. PICK k \in Places(b, "box") : Edit(i, [r EXCEPT !.body[k] = T("checked")])
    BY <1>2 DEF CheckBox
  <2> DEFINE c == [b EXCEPT ![k] = T("checked")]
  <2>2. [r EXCEPT !.body[k] = T("checked")] = [r EXCEPT !.body = c]
    BY <1>1 DEF Surfaces
  <2>3. Good(c)
    BY <1>1, TickedIsGood
  <2>4. damaged' \subseteq Issues
    BY <1>1, <1>2 DEF CheckBox
  <2> HIDE DEF c, r
  <2> QED BY <1>1, <2>1, <2>2, <2>3, <2>4, OtherBody, EditKeeps
<1>3. CASE AddNote(i)
  <2>1. PICK k \in DOMAIN b : Edit(i, [r EXCEPT !.body =
               SubSeq(b, 1, k) \o << T("note") >> \o SubSeq(b, k + 1, Len(b))])
    BY <1>3 DEF AddNote
  <2> DEFINE c == SubSeq(b, 1, k) \o << T("note") >> \o SubSeq(b, k + 1, Len(b))
  <2>2. Good(c)
    BY <1>1, NotedIsGood
  <2>3. damaged' \subseteq Issues
    BY <1>1, <1>3 DEF AddNote
  <2>4. Edit(i, [r EXCEPT !.body = c])
    BY <2>1
  <2> HIDE DEF c, r
  <2> QED BY <1>1, <2>2, <2>3, <2>4, OtherBody, EditKeeps
<1>4. CASE EditHeader(i)
  <2>1. damaged' \subseteq Issues
    BY <1>1, <1>4 DEF EditHeader
  <2>2. PICK l, it : Edit(i, it) /\ it \in {[r EXCEPT !.titled = FALSE], [r EXCEPT !.labels = @ \ {l}]}
    BY <1>4 DEF EditHeader
  <2> HIDE DEF r
  <2>3. it \in Surfaces /\ Good(it.body)
    BY <1>1, <2>2, OtherHeader
  <2> QED BY <2>1, <2>2, <2>3, EditKeeps
<1>5. CASE RemoveDelimiter(i)
  <2>1. PICK k \in DOMAIN b : b[k].is \in Delimiter /\ Edit(i, [r EXCEPT !.body =
               SubSeq(b, 1, k - 1) \o SubSeq(b, k + 1, Len(b))])
    BY <1>5 DEF RemoveDelimiter
  <2> DEFINE c == SubSeq(b, 1, k - 1) \o SubSeq(b, k + 1, Len(b))
  <2>2. Good(c)
    BY <1>1, <2>1, UndelimitedIsGood
  <2>3. damaged' \subseteq Issues
    BY <1>1, <1>5 DEF RemoveDelimiter
  <2>4. Edit(i, [r EXCEPT !.body = c])
    BY <2>1
  <2> HIDE DEF c, r
  <2> QED BY <1>1, <2>2, <2>3, <2>4, OtherBody, EditKeeps
<1> QED BY <1>2, <1>3, <1>4, <1>5

LEMMA Idle == ASSUME Inv, UNCHANGED vars PROVE Inv'
<1>1. UNCHANGED <<pushes, validating, pending, last, disordered, job, pc, at, read, failed, issue,
                  edits, faults, damaged, touched, settled>>
  BY DEF vars, queue, worker
<1> QED BY <1>1 DEF Inv, TypeOK, Histories, ReadIsSound

(* Before the first run the history is the body, or stands between the     *)
(* delimiters of the first version.                                        *)
LEMMA FirstBodies == Good(Unmigrated) /\ Good(LegacyBody)
<1>1. /\ T("marker") \in Tokens /\ T("marker").is = "marker"
      /\ T("old") \in Tokens /\ T("old").is = "old"
      /\ T("open") \in Tokens /\ T("open").is = "open"
      /\ T("close") \in Tokens /\ T("close").is = "close"
  BY TokenIs DEF Kinds, Delimiter
<1>2. Sound(Unmigrated, 1)
  BY <1>1 DEF Sound, Unmigrated, Opening
<1>3. Sound(LegacyBody, 3)
  BY <1>1 DEF Sound, LegacyBody, Opening
<1> QED BY <1>2, <1>3 DEF Good

LEMMA Begins == ASSUME Init PROVE Inv
<1>1. \A i \in Issues : issue[i] \in [titled : {FALSE}, body : {Unmigrated, LegacyBody},
                                       labels : {{"other"}}]
  BY DEF Init
<1>2. \A i \in Issues : issue[i].body \in {Unmigrated, LegacyBody}
  BY <1>1
<1>3. Histories
  BY <1>2, FirstBodies DEF Histories
<1>4. Unmigrated \in Seq(Tokens) /\ LegacyBody \in Seq(Tokens)
  BY FirstBodies DEF Good, Sound
<1>5. issue \in [Issues -> Surfaces]
  BY <1>4 DEF Init, Surfaces, Labels
<1>6. pushes \in Seq(Issues) /\ Len(pushes) = 0
  BY EmptySeq DEF Init
<1>7. TypeOK
  <2>1. Len(pushes) <= MaxPushes /\ last \in 0..Len(pushes) /\ disordered \in BOOLEAN
    <3>1. last = 0 /\ disordered = FALSE
      BY DEF Init
    <3>2. MaxPushes \in Nat
      BY SizesAssumption
    <3>3. 0 <= MaxPushes /\ 0 \in 0..0
      BY <3>2
    <3>4. Len(pushes) <= MaxPushes /\ last \in 0..Len(pushes)
      BY <1>6, <3>1, <3>3
    <3> QED BY <3>1, <3>4
  <2>2. validating \subseteq 1..Len(pushes) /\ damaged \subseteq Issues /\ touched \subseteq Issues
    BY DEF Init
  <2>3. at \in 1..(NumIssues + 1) /\ edits \in 0..MaxEdits /\ faults \in 0..MaxFaults
    BY SizesAssumption DEF Init
  <2>4. pending = None /\ job = None /\ pc = "idle" /\ read = None /\ failed = FALSE
        /\ settled = None
    BY DEF Init
  <2> QED BY <1>5, <1>6, <2>1, <2>2, <2>3, <2>4 DEF TypeOK
<1>8. ReadIsSound
  BY DEF Init, ReadIsSound
<1> QED BY <1>3, <1>7, <1>8 DEF Inv

(* Invariance: every issue, and every body a PATCH is made of, holds the   *)
(* history once, with all that opens before it and all that closes after.  *)
THEOREM Invariance == Spec => []Inv
<1>1. Inv /\ [Next]_vars => Inv'
  <2> SUFFICES ASSUME Inv, [Next]_vars PROVE Inv'
    OBVIOUS
  <2>1. \A i \in Edited : i \in Issues
    BY EditedAssumption DEF Issues
  <2> QED
    BY <2>1, PushKeeps, QueueKeeps, StartKeeps, LabelsKeep, FetchKeeps, PatchKeeps, FailureKeeps,
       EndKeeps, PersonKeeps, Idle DEF Next, JobStep
<1> QED BY <1>1, Begins, PTL DEF Spec

(* TypeCorrect: every variable of the synchronizer keeps its type.         *)
THEOREM TypeCorrect == Spec => []TypeOK
<1>1. Inv => TypeOK
  BY DEF Inv
<1> QED BY <1>1, Invariance, PTL

(* HistorySurvives: for any number of issues, pushes, edits and failures,  *)
(* the body an issue had before the first run is in it exactly once.       *)
THEOREM HistorySurvives == Spec => []HistoryKept
<1>1. Inv => HistoryKept
  BY GoodHasOneHistory DEF Inv, Histories, HistoryKept
<1> QED BY <1>1, Invariance, PTL

-----------------------------------------------------------------------------
(***************************************************************************)
(* Part two.  To synchronize a body twice is to synchronize it once only   *)
(* because a marker stands nowhere but at the very beginning: elsewhere    *)
(* the replacement of the metadata could take it away, and the next run    *)
(* would wrap the body again.                                              *)
(***************************************************************************)
MarkedFirst(b) == \A i \in 1..Len(b) : b[i].is = "marker" => i = 1
Lacks(b, k)    == \A i \in 1..Len(b) : b[i].is # k

-----------------------------------------------------------------------------
(***************************************************************************)
(* Parts and concatenations of bodies.                                     *)
(***************************************************************************)
LEMMA Concat ==
  ASSUME NEW s \in Seq(Tokens), NEW t \in Seq(Tokens)
  PROVE  /\ s \o t \in Seq(Tokens) /\ Len(s \o t) = Len(s) + Len(t)
         /\ Len(s) \in Nat /\ Len(t) \in Nat
         /\ \A i \in 1..Len(s) : (s \o t)[i] = s[i]
         /\ \A i \in 1..Len(t) : (s \o t)[Len(s) + i] = t[i]
<1> DEFINE c == s \o t
<1>1. /\ c \in Seq(Tokens) /\ Len(c) = Len(s) + Len(t)
      /\ \A i \in 1..(Len(s) + Len(t)) : c[i] = IF i <= Len(s) THEN s[i] ELSE t[i - Len(s)]
  BY ConcatProperties
<1>2. Len(s) \in Nat /\ Len(t) \in Nat
  OBVIOUS
<1> HIDE DEF c
<1>3. ASSUME NEW i \in 1..Len(s) PROVE c[i] = s[i]
  BY <1>1, <1>2
<1>4. ASSUME NEW i \in 1..Len(t) PROVE c[Len(s) + i] = t[i]
  <2>1. Len(s) + i \in 1..(Len(s) + Len(t)) /\ ~(Len(s) + i <= Len(s)) /\ Len(s) + i - Len(s) = i
    BY <1>2
  <2> QED BY <1>1, <2>1
<1> QED BY <1>1, <1>2, <1>3, <1>4 DEF c

LEMMA ConcatCases ==
  ASSUME NEW s \in Seq(Tokens), NEW t \in Seq(Tokens), NEW i \in 1..Len(s \o t)
  PROVE  \/ i \in 1..Len(s) /\ (s \o t)[i] = s[i]
         \/ \E j \in 1..Len(t) : i = Len(s) + j /\ (s \o t)[i] = t[j]
<1> DEFINE c == s \o t
<1>1. /\ Len(c) = Len(s) + Len(t) /\ Len(s) \in Nat /\ Len(t) \in Nat
      /\ \A k \in 1..Len(s) : c[k] = s[k]
      /\ \A k \in 1..Len(t) : c[Len(s) + k] = t[k]
  BY Concat
<1>2. i \in 1..Len(c)
  OBVIOUS
<1> HIDE DEF c
<1>3. CASE i <= Len(s)
  BY <1>1, <1>2, <1>3 DEF c
<1>4. CASE Len(s) < i
  <2>1. i - Len(s) \in 1..Len(t) /\ i = Len(s) + (i - Len(s))
    BY <1>1, <1>2, <1>4
  <2>2. c[i] = t[i - Len(s)]
    BY <1>1, <2>1
  <2> QED BY <2>1, <2>2 DEF c
<1> QED BY <1>1, <1>2, <1>3, <1>4

LEMMA LacksConcat ==
  ASSUME NEW s \in Seq(Tokens), NEW t \in Seq(Tokens), NEW k, Lacks(s, k), Lacks(t, k)
  PROVE  Lacks(s \o t, k)
  BY ConcatCases DEF Lacks

LEMMA MarkedConcat ==
  ASSUME NEW s \in Seq(Tokens), NEW t \in Seq(Tokens), MarkedFirst(s), Lacks(t, "marker")
  PROVE  MarkedFirst(s \o t)
  BY ConcatCases DEF Lacks, MarkedFirst

LEMMA Part ==
  ASSUME NEW b \in Seq(Tokens), NEW m \in 1..(Len(b) + 1), NEW n \in 0..Len(b)
  PROVE  /\ SubSeq(b, m, n) \in Seq(Tokens)
         /\ Len(SubSeq(b, m, n)) = IF m <= n THEN n - m + 1 ELSE 0
         /\ \A i \in 1..Len(SubSeq(b, m, n)) :
              SubSeq(b, m, n)[i] = b[m + i - 1] /\ m + i - 1 \in 1..Len(b)
<1> DEFINE c == SubSeq(b, m, n)
<1>1. Len(b) \in Nat /\ m \in Int /\ n \in Int
  OBVIOUS
<1>2. \A i \in m..n : b[i] \in Tokens
  BY <1>1
<1>3. /\ c \in Seq(Tokens) /\ Len(c) = IF m <= n THEN n - m + 1 ELSE 0
      /\ \A i \in 1..(n - m + 1) : c[i] = b[m + i - 1]
  BY <1>1, <1>2, SubSeqProperties
<1> HIDE DEF c
<1>4. ASSUME NEW i \in 1..Len(c) PROVE c[i] = b[m + i - 1] /\ m + i - 1 \in 1..Len(b)
  BY <1>1, <1>3
<1> QED BY <1>3, <1>4 DEF c

LEMMA PartMarked ==
  ASSUME NEW b \in Seq(Tokens), MarkedFirst(b), NEW m \in 1..(Len(b) + 1), NEW n \in 0..Len(b)
  PROVE  /\ MarkedFirst(SubSeq(b, m, n))
         /\ m > 1 => Lacks(SubSeq(b, m, n), "marker")
<1> DEFINE c == SubSeq(b, m, n)
<1>1. \A i \in 1..Len(c) : c[i] = b[m + i - 1] /\ m + i - 1 \in 1..Len(b)
  BY Part
<1>2. c \in Seq(Tokens) /\ Len(c) \in Nat
  BY Part
<1> HIDE DEF c
<1>3. ASSUME NEW i \in 1..Len(c), c[i].is = "marker" PROVE i = 1 /\ m = 1
  <2>1. m + i - 1 \in 1..Len(b) /\ b[m + i - 1].is = "marker"
    BY <1>1, <1>3
  <2>2. m + i - 1 = 1
    BY <2>1 DEF MarkedFirst
  <2>3. m \in Nat /\ m >= 1 /\ i >= 1 /\ i \in Nat
    BY <1>2
  <2> QED BY <2>2, <2>3
<1>4. MarkedFirst(c) /\ (m > 1 => Lacks(c, "marker"))
  <2>1. m \in Nat
    OBVIOUS
  <2> QED BY <1>3, <2>1 DEF MarkedFirst, Lacks
<1> QED BY <1>4 DEF c

(***************************************************************************)
(* The first of a set of places.                                           *)
(***************************************************************************)
LEMMA FirstIsLeast ==
  ASSUME NEW S, S \subseteq Nat, S # {}
  PROVE  First(S) \in S /\ \A j \in S : First(S) <= j
  BY Minimum DEF First

LEMMA LeastIsFirst ==
  ASSUME NEW S, S \subseteq Nat, NEW i \in S, \A j \in S : i <= j
  PROVE  First(S) = i
<1>1. First(S) \in S /\ \A j \in S : First(S) <= j
  BY FirstIsLeast
<1>2. First(S) <= i /\ i <= First(S) /\ i \in Nat /\ First(S) \in Nat
  BY <1>1
<1> QED BY <1>2

-----------------------------------------------------------------------------
(***************************************************************************)
(* Metadata that were just rendered, with no start before them, are        *)
(* replaced by themselves.                                                 *)
(***************************************************************************)
LEMMA MetadataIs ==
  ASSUME NEW v \in Pushes
  PROVE  /\ RenderMetadata(v) \in Seq(Tokens) /\ Len(RenderMetadata(v)) = 3
         /\ RenderMetadata(v)[1].is = "start" /\ RenderMetadata(v)[2].is = "meta"
         /\ RenderMetadata(v)[3].is = "end"
         /\ Lacks(RenderMetadata(v), "marker")
<1> DEFINE m == [is |-> "meta", v |-> v]
<1>1. T("start") \in Tokens /\ T("start").is = "start" /\ T("end") \in Tokens /\ T("end").is = "end"
  BY TokenIs DEF Kinds, Delimiter
<1>2. m \in Tokens /\ m.is = "meta"
  BY DEF Tokens, Kinds
<1> DEFINE s == <<T("start"), m, T("end")>>
<1> HIDE DEF m
<1>3. /\ s \in Seq(Tokens) /\ Len(s) = 3
      /\ s[1] = T("start") /\ s[2] = m /\ s[3] = T("end")
  BY <1>1, <1>2
<1>4. s = RenderMetadata(v)
  BY DEF RenderMetadata, m
<1> HIDE DEF s
<1>5. Lacks(s, "marker")
  <2>1. ASSUME NEW i \in 1..Len(s) PROVE i = 1 \/ i = 2 \/ i = 3
    BY <1>3
  <2> QED BY <1>1, <1>2, <1>3, <2>1 DEF Lacks
<1> QED BY <1>1, <1>2, <1>3, <1>4, <1>5

LEMMA ReplacedByItself ==
  ASSUME NEW v \in Pushes, NEW P \in Seq(Tokens), NEW R \in Seq(Tokens), Lacks(P, "start")
  PROVE  LET c == P \o RenderMetadata(v) \o R
         IN  c \in Seq(Tokens) /\ Delimited(c) /\ ReplaceMetadata(v, c) = c
<1> DEFINE M == RenderMetadata(v)
           u == P \o M
           c == u \o R
           n == Len(P)
<1>1. /\ M \in Seq(Tokens) /\ Len(M) = 3 /\ M[1].is = "start" /\ M[2].is = "meta"
      /\ M[3].is = "end"
  BY MetadataIs
<1> HIDE DEF M
<1>a. /\ u \in Seq(Tokens) /\ Len(u) = Len(P) + Len(M) /\ Len(P) \in Nat
      /\ \A i \in 1..Len(P) : u[i] = P[i]
      /\ \A i \in 1..Len(M) : u[Len(P) + i] = M[i]
  BY <1>1, Concat
<1>2. /\ u \in Seq(Tokens) /\ Len(u) = n + 3 /\ n \in Nat
      /\ \A i \in 1..n : u[i] = P[i]
      /\ \A i \in 1..3 : u[n + i] = M[i]
  <2> HIDE DEF u
  <2> QED BY <1>1, <1>a
<1> HIDE DEF u
<1>b. /\ c \in Seq(Tokens) /\ Len(c) = Len(u) + Len(R) /\ Len(R) \in Nat
      /\ \A i \in 1..Len(u) : c[i] = u[i]
      /\ \A i \in 1..Len(R) : c[Len(u) + i] = R[i]
  BY <1>2, Concat
<1>3. /\ c \in Seq(Tokens) /\ Len(c) = n + 3 + Len(R) /\ Len(R) \in Nat
      /\ \A i \in 1..(n + 3) : c[i] = u[i]
      /\ \A i \in 1..Len(R) : c[n + 3 + i] = R[i]
  <2> HIDE DEF c
  <2> QED BY <1>2, <1>b
<1> HIDE DEF c
<1>4. \A i \in 1..n : c[i] = P[i]
  BY <1>2, <1>3
<1>5. c[n + 1].is = "start" /\ c[n + 2].is = "meta" /\ c[n + 3].is = "end"
  <2>1. 1 \in 1..3 /\ 2 \in 1..3 /\ 3 \in 1..3
    OBVIOUS
  <2>2. u[n + 1] = M[1] /\ u[n + 2] = M[2] /\ u[n + 3] = M[3]
    BY <1>2, <2>1
  <2>3. c[n + 1] = u[n + 1] /\ c[n + 2] = u[n + 2] /\ c[n + 3] = u[n + 3]
    BY <1>2, <1>3
  <2> QED BY <1>1, <2>2, <2>3
<1>6. Places(c, "start") \subseteq Nat /\ Places(c, "end") \subseteq Nat
      /\ n + 1 \in Places(c, "start") /\ n + 3 \in Places(c, "end")
  BY <1>2, <1>3, <1>5, PlacesAre DEF Places
<1>7. First(Places(c, "start")) = n + 1
  <2>1. ASSUME NEW j \in Places(c, "start") PROVE n + 1 <= j
    <3>1. j \in 1..Len(c) /\ c[j].is = "start"
      BY <1>3 DEF Places
    <3>2. ~(j \in 1..n)
      BY <1>4, <3>1 DEF Lacks
    <3> QED BY <1>2, <3>1, <3>2
  <2> QED BY <1>6, <2>1, LeastIsFirst
<1>8. First(EndsAfter(c, n + 1)) = n + 3
  <2>1. ASSUME NEW j \in EndsAfter(c, n + 1) PROVE n + 3 <= j
    <3>1. j \in 1..Len(c) /\ c[j].is = "end" /\ j > n + 1
      BY <1>3 DEF EndsAfter, Places
    <3>2. j # n + 2
      BY <1>5, <3>1
    <3> QED BY <1>2, <3>1, <3>2
  <2>2. EndsAfter(c, n + 1) \subseteq Nat /\ n + 3 \in EndsAfter(c, n + 1)
    BY <1>2, <1>6 DEF EndsAfter
  <2> QED BY <2>1, <2>2, LeastIsFirst
<1> DEFINE p == SubSeq(c, 1, n)
           r == SubSeq(c, n + 4, Len(c))
<1>9. p = P
  <2>1. 1 \in 1..(Len(c) + 1) /\ n \in 0..Len(c)
    BY <1>2, <1>3
  <2>2. /\ p \in Seq(Tokens) /\ Len(p) = IF 1 <= n THEN n - 1 + 1 ELSE 0
        /\ \A i \in 1..Len(p) : p[i] = c[1 + i - 1]
    BY <1>3, <2>1, Part
  <2> HIDE DEF p
  <2>3. Len(p) = Len(P) /\ \A i \in 1..Len(p) : p[i] = P[i]
    BY <1>2, <1>4, <2>2
  <2> QED BY <2>2, <2>3, SeqEqual
<1>10. r = R
  <2>1. n + 4 \in 1..(Len(c) + 1) /\ Len(c) \in 0..Len(c)
    BY <1>2, <1>3
  <2>2. /\ r \in Seq(Tokens)
        /\ Len(r) = IF n + 4 <= Len(c) THEN Len(c) - (n + 4) + 1 ELSE 0
        /\ \A i \in 1..Len(r) : r[i] = c[n + 4 + i - 1]
    BY <1>3, <2>1, Part
  <2> HIDE DEF r
  <2>3. Len(r) = Len(R)
    BY <1>2, <1>3, <2>2
  <2>4. ASSUME NEW i \in 1..Len(r) PROVE r[i] = R[i]
    <3>1. n + 4 + i - 1 = n + 3 + i /\ i \in 1..Len(R)
      BY <1>2, <2>3
    <3> QED BY <1>3, <2>2, <3>1
  <2> QED BY <2>2, <2>3, <2>4, SeqEqual
<1>11. ReplaceMetadata(v, c) = (p \o M) \o r
  <2>1. n + 1 - 1 = n /\ n + 3 + 1 = n + 4
    BY <1>2
  <2>2. PICK s, e : s = First(Places(c, "start")) /\ e = First(EndsAfter(c, s))
    OBVIOUS
  <2>3. ReplaceMetadata(v, c) = SubSeq(c, 1, s - 1) \o M \o SubSeq(c, e + 1, Len(c))
    BY <2>2 DEF ReplaceMetadata, M
  <2>4. s - 1 = n /\ e + 1 = n + 4
    BY <1>7, <1>8, <2>1, <2>2
  <2> QED BY <2>3, <2>4
<1>12. ReplaceMetadata(v, c) = c
  BY <1>9, <1>10, <1>11 DEF c, u
<1>13. Delimited(c)
  BY <1>6 DEF Delimited, Has
<1> QED BY <1>3, <1>12, <1>13 DEF c, u, M

-----------------------------------------------------------------------------
(***************************************************************************)
(* A synchronized body is left as it is by another synchronization.        *)
(***************************************************************************)
Regrouped(p, b, h, z) == ((p \o b) \o h) \o z = p \o ((b \o h) \o z)

LEMMA Regroup ==
  ASSUME NEW p \in Seq(Tokens), NEW b \in Seq(Tokens), NEW h \in Seq(Tokens),
         NEW z \in Seq(Tokens)
  PROVE  Regrouped(p, b, h, z)
<1>1. PICK g : g = b \o h
  OBVIOUS
<1>2. g \in Seq(Tokens)
  BY <1>1, Concat
<1>3. (p \o b) \o h = p \o g
  <2>1. (p \o b) \o h = p \o (b \o h)
    BY ConcatAssociative
  <2> QED BY <1>1, <2>1
<1>4. (p \o g) \o z = p \o (g \o z)
  BY <1>2, ConcatAssociative
<1> QED BY <1>1, <1>3, <1>4 DEF Regrouped

Finished(v, c) == c \in Seq(Tokens) /\ MarkedFirst(c) /\ Synchronized(v, c) = c

LEMMA RenderedFinished ==
  ASSUME NEW v \in Pushes, NEW h \in Seq(Tokens), Lacks(h, "marker")
  PROVE  Finished(v, RenderBody(v, h))
<1> DEFINE a == <<T("marker")>>
           M == RenderMetadata(v)
           b == <<T("box"), T("open")>>
           z == <<T("close")>>
           R == b \o h \o z
           c == a \o M \o R
<1>1. /\ T("marker") \in Tokens /\ T("marker").is = "marker"
      /\ T("box") \in Tokens /\ T("box").is = "box"
      /\ T("open") \in Tokens /\ T("open").is = "open"
      /\ T("close") \in Tokens /\ T("close").is = "close"
  BY TokenIs DEF Kinds, Delimiter
<1>2. /\ a \in Seq(Tokens) /\ Len(a) = 1 /\ a[1].is = "marker"
      /\ b \in Seq(Tokens) /\ z \in Seq(Tokens)
  BY <1>1
<1>3. Lacks(a, "start") /\ MarkedFirst(a) /\ Lacks(b, "marker") /\ Lacks(z, "marker")
  BY <1>1 DEF Lacks, MarkedFirst
<1>4. M \in Seq(Tokens) /\ Lacks(M, "marker")
  BY MetadataIs
<1>5. RenderBody(v, h) = (((a \o M) \o b) \o h) \o z
  BY DEF RenderBody
<1> HIDE DEF a, M, b, z
<1>6. b \o h \in Seq(Tokens) /\ R \in Seq(Tokens) /\ a \o M \in Seq(Tokens)
      /\ (a \o M) \o b \in Seq(Tokens)
  <2>1. b \o h \in Seq(Tokens) /\ a \o M \in Seq(Tokens)
    BY <1>2, <1>4, Concat
  <2> QED BY <1>2, <2>1, Concat
<1>7. RenderBody(v, h) = c
  <2>1. PICK p : p = a \o M
    OBVIOUS
  <2>2. p \in Seq(Tokens)
    BY <1>6, <2>1
  <2>3. b \in Seq(Tokens) /\ h \in Seq(Tokens) /\ z \in Seq(Tokens)
    BY <1>2
  <2>4. Regrouped(p, b, h, z)
    BY <2>2, <2>3, Regroup
  <2>5. ((p \o b) \o h) \o z = p \o ((b \o h) \o z)
    BY <2>4 DEF Regrouped
  <2> QED BY <1>5, <2>1, <2>5
<1>8. Lacks(R, "marker")
  <2>1. Lacks(b \o h, "marker")
    BY <1>2, <1>3, LacksConcat
  <2> QED BY <1>2, <1>3, <1>6, <2>1, LacksConcat
<1> HIDE DEF R
<1>9. MarkedFirst(c)
  <2>1. MarkedFirst(a \o M)
    BY <1>2, <1>3, <1>4, MarkedConcat
  <2> QED BY <1>6, <1>8, <2>1, MarkedConcat
<1>10. c \in Seq(Tokens) /\ Delimited(c) /\ ReplaceMetadata(v, c) = c
  BY <1>2, <1>3, <1>6, ReplacedByItself DEF M
<1>11. Has(c, "marker")
  <2>0. /\ Len(a \o M) = Len(a) + Len(M) /\ Len(M) \in Nat
        /\ \A i \in 1..Len(a) : (a \o M)[i] = a[i]
    BY <1>2, <1>4, Concat
  <2>1. Len(a \o M) = Len(a) + Len(M) /\ (a \o M)[1] = a[1] /\ Len(M) \in Nat
    BY <1>2, <2>0
  <2>2. 1 \in 1..Len(a \o M)
    BY <1>2, <2>1
  <2>3. c[1] = a[1] /\ 1 \in 1..Len(c)
    <3>1. /\ \A i \in 1..Len(a \o M) : c[i] = (a \o M)[i]
          /\ Len(c) = Len(a \o M) + Len(R) /\ Len(R) \in Nat /\ Len(a \o M) \in Nat
      BY <1>6, Concat
    <3> HIDE DEF c
    <3> QED BY <2>1, <2>2, <3>1
  <2> HIDE DEF c
  <2> QED BY <1>2, <1>10, <2>3 DEF Has, Places
<1>12. Synchronized(v, c) = c
  BY <1>10, <1>11 DEF Synchronized
<1> QED BY <1>7, <1>9, <1>10, <1>12 DEF Finished

LEMMA ReplacedFinished ==
  ASSUME NEW v \in Pushes, NEW b \in Seq(Tokens), MarkedFirst(b), Has(b, "marker"), Delimited(b),
         EndsAfter(b, First(Places(b, "start"))) # {}
  PROVE  Finished(v, ReplaceMetadata(v, b))
<1> DEFINE s == First(Places(b, "start"))
           e == First(EndsAfter(b, s))
           M == RenderMetadata(v)
           P == SubSeq(b, 1, s - 1)
           R == SubSeq(b, e + 1, Len(b))
           c == P \o M \o R
<1>1. s \in Places(b, "start") /\ \A j \in Places(b, "start") : s <= j
  BY PlacesAre, FirstIsLeast DEF Delimited, Has
<1>2. e \in Places(b, "end") /\ e > s
  <2>1. EndsAfter(b, s) \subseteq Nat /\ EndsAfter(b, s) # {}
    BY PlacesAre DEF EndsAfter
  <2>2. e \in EndsAfter(b, s)
    <3> HIDE DEF s
    <3> QED BY <2>1, FirstIsThere
  <2> QED BY <2>2 DEF EndsAfter
<1>3. ReplaceMetadata(v, b) = c
  BY DEF ReplaceMetadata
<1> HIDE DEF s, e
<1>4. s \in 1..Len(b) /\ e \in 1..Len(b) /\ b[s].is = "start" /\ Len(b) \in Nat
  BY <1>1, <1>2, PlacesAre
<1>5. b[1].is = "marker" /\ 1 \in 1..Len(b)
  <2>1. PICK i \in Places(b, "marker") : TRUE
    BY DEF Has
  <2>2. i \in 1..Len(b) /\ b[i].is = "marker"
    BY <2>1, PlacesAre
  <2>3. i = 1
    BY <2>2 DEF MarkedFirst
  <2> QED BY <2>2, <2>3
<1>6. s # 1
  BY <1>4, <1>5
<1>7. 1 \in 1..(Len(b) + 1) /\ s - 1 \in 1..Len(b) /\ s - 1 \in 0..Len(b)
      /\ e + 1 \in 1..(Len(b) + 1) /\ e + 1 > 1 /\ Len(b) \in 0..Len(b)
  BY <1>4, <1>6
<1>8. /\ P \in Seq(Tokens) /\ Len(P) = s - 1
      /\ \A i \in 1..Len(P) : P[i] = b[1 + i - 1]
  <2>1. /\ P \in Seq(Tokens) /\ Len(P) = IF 1 <= s - 1 THEN s - 1 - 1 + 1 ELSE 0
        /\ \A i \in 1..Len(P) : P[i] = b[1 + i - 1]
    BY <1>7, Part
  <2> HIDE DEF P
  <2> QED BY <1>4, <1>7, <2>1
<1>9. R \in Seq(Tokens) /\ Lacks(R, "marker") /\ MarkedFirst(P)
  BY <1>7, Part, PartMarked
<1>10. M \in Seq(Tokens) /\ Lacks(M, "marker")
  BY MetadataIs
<1> HIDE DEF P, R
<1>11. Lacks(P, "start")
  <2> SUFFICES ASSUME NEW i \in 1..Len(P), P[i].is = "start" PROVE FALSE
    BY DEF Lacks
  <2>1. i \in 1..Len(b) /\ b[i] = P[i] /\ i < s
    BY <1>4, <1>8
  <2>2. i \in Places(b, "start")
    BY <2>1 DEF Places
  <2> QED BY <1>1, <1>4, <2>1, <2>2
<1>12. c \in Seq(Tokens) /\ Delimited(c) /\ ReplaceMetadata(v, c) = c
  BY <1>8, <1>9, <1>11, ReplacedByItself
<1> HIDE DEF M
<1>13. P \o M \in Seq(Tokens) /\ MarkedFirst(P \o M)
  BY <1>8, <1>9, <1>10, Concat, MarkedConcat
<1>14. MarkedFirst(c)
  BY <1>9, <1>13, MarkedConcat
<1>15. Has(c, "marker")
  <2>1. 1 \in 1..Len(P) /\ P[1].is = "marker"
    BY <1>4, <1>5, <1>7, <1>8
  <2>2. /\ \A i \in 1..Len(P) : (P \o M)[i] = P[i]
        /\ Len(P \o M) = Len(P) + Len(M) /\ Len(M) \in Nat /\ Len(P) \in Nat
    BY <1>8, <1>10, Concat
  <2>3. 1 \in 1..Len(P \o M) /\ (P \o M)[1] = P[1]
    BY <2>1, <2>2
  <2>4. /\ \A i \in 1..Len(P \o M) : c[i] = (P \o M)[i]
        /\ Len(c) = Len(P \o M) + Len(R) /\ Len(R) \in Nat /\ Len(P \o M) \in Nat
    BY <1>9, <1>13, Concat
  <2> HIDE DEF c
  <2>5. 1 \in 1..Len(c) /\ c[1].is = "marker"
    BY <2>1, <2>3, <2>4
  <2> QED BY <1>12, <2>5 DEF Has, Places
<1>16. Synchronized(v, c) = c
  BY <1>12, <1>15 DEF Synchronized
<1> QED BY <1>3, <1>12, <1>14, <1>16 DEF Finished

LEMMA UnmarkedLacks ==
  ASSUME NEW b \in Seq(Tokens), ~Has(b, "marker") PROVE Lacks(b, "marker")
  BY DEF Has, Places, Lacks

LEMMA HistoryLacks ==
  ASSUME NEW b \in Seq(Tokens), MarkedFirst(b), HistoryIsThere(b)
  PROVE  History(b) \in Seq(Tokens) /\ Lacks(History(b), "marker")
<1> DEFINE f == First(Places(b, "open"))
           l == Last(Places(b, "close"))
<1>1. f \in Places(b, "open") /\ l \in Places(b, "close")
  BY PlacesAre, FirstIsThere, LastIsThere DEF HistoryIsThere, Has
<1> HIDE DEF f, l
<1>2. f \in 1..Len(b) /\ l \in 1..Len(b) /\ Len(b) \in Nat
  BY <1>1, PlacesAre
<1>3. f + 1 \in 1..(Len(b) + 1) /\ f + 1 > 1 /\ l - 1 \in 0..Len(b)
  BY <1>2
<1> QED BY <1>3, Part, PartMarked DEF History, f, l

LEMMA SynchronizedFinished ==
  ASSUME NEW v \in Pushes, NEW b \in Seq(Tokens), MarkedFirst(b), Synchronizable(b)
  PROVE  Finished(v, Synchronized(v, b))
<1>1. CASE ~Has(b, "marker")
  BY <1>1, UnmarkedLacks, RenderedFinished DEF Synchronized
<1>2. CASE Has(b, "marker") /\ ~Delimited(b)
  <2>1. HistoryIsThere(b)
    BY <1>2 DEF Synchronizable
  <2> QED BY <1>2, <2>1, HistoryLacks, RenderedFinished DEF Synchronized
<1>3. CASE Has(b, "marker") /\ Delimited(b)
  BY <1>3, ReplacedFinished DEF Synchronized, Synchronizable
<1> QED BY <1>1, <1>2, <1>3

LEMMA DesiredFinished ==
  ASSUME NEW v \in Pushes, NEW it \in Surfaces, MarkedFirst(it.body), Synchronizable(it.body)
  PROVE  /\ MarkedFirst(Desired(v, it).body)
         /\ Desired(v, Desired(v, it)) = Desired(v, it)
<1> DEFINE b == Synchronized(v, it.body)
           ls == it.labels \cup {"review"}
<1>1. it.body \in Seq(Tokens)
  BY DEF Surfaces
<1>2. Finished(v, b)
  BY <1>1, SynchronizedFinished
<1>3. ls \cup {"review"} = ls
  OBVIOUS
<1>4. Desired(v, it) = [titled |-> TRUE, body |-> b, labels |-> ls]
  BY DEF Desired
<1> HIDE DEF b, ls
<1>5. Synchronized(v, b) = b /\ MarkedFirst(b)
  BY <1>2 DEF Finished
<1>6. Desired(v, it).body = b /\ Desired(v, it).labels = ls
  BY <1>4
<1>7. Desired(v, Desired(v, it)) = [titled |-> TRUE, body |-> b, labels |-> ls]
  BY <1>3, <1>5, <1>6 DEF Desired
<1> QED BY <1>4, <1>5, <1>6, <1>7

-----------------------------------------------------------------------------
(***************************************************************************)
(* People put no marker anywhere, and nothing before it.                   *)
(***************************************************************************)
LEMMA TickedMarked ==
  ASSUME NEW b \in Seq(Tokens), MarkedFirst(b), NEW k
  PROVE  MarkedFirst([b EXCEPT ![k] = T("checked")])
<1>1. T("checked").is = "checked"
  BY TokenIs DEF Kinds
<1> QED BY <1>1 DEF MarkedFirst

LEMMA NotedMarked ==
  ASSUME NEW b \in Seq(Tokens), MarkedFirst(b), NEW k \in DOMAIN b
  PROVE  MarkedFirst(SubSeq(b, 1, k) \o <<T("note")>> \o SubSeq(b, k + 1, Len(b)))
<1> DEFINE left == SubSeq(b, 1, k)
           note == <<T("note")>>
           right == SubSeq(b, k + 1, Len(b))
<1>1. T("note") \in Tokens /\ T("note").is = "note"
  BY TokenIs DEF Kinds
<1>2. note \in Seq(Tokens) /\ Lacks(note, "marker")
  BY <1>1 DEF Lacks
<1>3. 1 \in 1..(Len(b) + 1) /\ k \in 0..Len(b) /\ k + 1 \in 1..(Len(b) + 1) /\ k + 1 > 1
      /\ Len(b) \in 0..Len(b)
  OBVIOUS
<1>4. left \in Seq(Tokens) /\ MarkedFirst(left) /\ right \in Seq(Tokens) /\ Lacks(right, "marker")
  BY <1>3, Part, PartMarked
<1> HIDE DEF left, note, right
<1>5. left \o note \in Seq(Tokens) /\ MarkedFirst(left \o note)
  BY <1>2, <1>4, Concat, MarkedConcat
<1>6. MarkedFirst((left \o note) \o right)
  BY <1>4, <1>5, MarkedConcat
<1> QED BY <1>6 DEF left, note, right

LEMMA UndelimitedMarked ==
  ASSUME NEW b \in Seq(Tokens), MarkedFirst(b), NEW k \in DOMAIN b
  PROVE  MarkedFirst(SubSeq(b, 1, k - 1) \o SubSeq(b, k + 1, Len(b)))
<1>1. 1 \in 1..(Len(b) + 1) /\ k - 1 \in 0..Len(b) /\ k + 1 \in 1..(Len(b) + 1) /\ k + 1 > 1
      /\ Len(b) \in 0..Len(b)
  OBVIOUS
<1> QED BY <1>1, Part, PartMarked, MarkedConcat

LEMMA FirstMarked == MarkedFirst(Unmigrated) /\ MarkedFirst(LegacyBody)
<1>1. /\ T("marker").is = "marker" /\ T("old").is = "old"
      /\ T("open").is = "open" /\ T("close").is = "close"
  BY TokenIs DEF Kinds, Delimiter
<1>2. MarkedFirst(Unmigrated)
  BY <1>1 DEF MarkedFirst, Unmigrated
<1>3. MarkedFirst(LegacyBody)
  BY <1>1 DEF MarkedFirst, LegacyBody
<1> QED BY <1>2, <1>3

-----------------------------------------------------------------------------
(***************************************************************************)
(* The invariant: the issues a job has passed without a failure are as it  *)
(* would leave them, those edited since excepted, and so they are when it  *)
(* answers.                                                                *)
(***************************************************************************)
Fresh(n, i) == Desired(Version(n, i), issue[i]) = issue[i]

AllMarked  == \A i \in Issues : MarkedFirst(issue[i].body)
ReadMarked == pc = "patch" => MarkedFirst(read.body)
Starting   == pc = "labels" => at = 1
Unanswered == pc # "idle" => settled = None

Passed ==
  pc \in {"fetch", "patch"} /\ ~failed =>
    \A i \in Issues : i < at /\ i \notin touched => Fresh(job, i)

Answered == settled # None => \A i \in Issues \ touched : Fresh(settled, i)

Settling ==
  AllMarked /\ ReadMarked /\ Starting /\ Unanswered /\ Passed /\ Answered

LEMMA VersionStays ==
  ASSUME pushes \in Seq(Issues), NEW d \in Issues, pushes' = Append(pushes, d),
         NEW n \in 1..Len(pushes), NEW i
  PROVE  Version(n, i)' = Version(n, i)
<1>1. \A k \in 1..n : pushes'[k] = pushes[k]
  OBVIOUS
<1>2. {k \in 1..n : pushes'[k] = i} = {k \in 1..n : pushes[k] = i}
  BY <1>1
<1> QED BY <1>2 DEF Version

LEMMA VersionSame ==
  ASSUME UNCHANGED pushes, NEW n, NEW i PROVE Version(n, i)' = Version(n, i)
  BY DEF Version

LEMMA FreshStays ==
  ASSUME NEW n, NEW i, Version(n, i)' = Version(n, i), issue'[i] = issue[i], Fresh(n, i)
  PROVE  Fresh(n, i)'
  BY DEF Fresh

(* What has passed stays so where it is not edited.                        *)
LEMMA JobStays ==
  ASSUME Inv, Passed, pc \in {"fetch", "patch"}, ~failed, job' = job,
         NEW i \in Issues, i < at, i \notin touched, issue'[i] = issue[i],
         \A n \in 1..Len(pushes) : Version(n, i)' = Version(n, i)
  PROVE  Fresh(job, i)'
<1>1. PICK n : n = job
  OBVIOUS
<1>2. n \in 1..Len(pushes)
  BY <1>1 DEF Inv, TypeOK
<1>3. Fresh(job, i)
  BY DEF Passed
<1>4. Fresh(n, i)
  BY <1>1, <1>3
<1>5. Fresh(n, i)'
  BY <1>2, <1>4, FreshStays
<1>6. job' = n
  BY <1>1
<1> QED BY <1>5, <1>6 DEF Fresh, Version

LEMMA AnswerStays ==
  ASSUME Inv, Answered, settled # None, settled' = settled,
         NEW i \in Issues, i \notin touched, issue'[i] = issue[i],
         \A n \in 1..Len(pushes) : Version(n, i)' = Version(n, i)
  PROVE  Fresh(settled, i)'
<1>1. PICK n : n = settled
  OBVIOUS
<1>2. n \in 1..Len(pushes)
  BY <1>1 DEF Inv, TypeOK
<1>3. Fresh(settled, i)
  BY DEF Answered
<1>4. Fresh(n, i)
  BY <1>1, <1>3
<1>5. Fresh(n, i)'
  BY <1>2, <1>4, FreshStays
<1>6. settled' = n
  BY <1>1
<1> QED BY <1>5, <1>6 DEF Fresh, Version

(* Steps that leave job and issues alone.                                  *)
LEMMA Stays ==
  ASSUME Inv, Settling,
         UNCHANGED <<job, pc, at, read, failed, issue, touched, settled>>,
         \A n \in 1..Len(pushes) : \A i \in Issues : Version(n, i)' = Version(n, i)
  PROVE  Settling'
<1>1. AllMarked' /\ ReadMarked' /\ Starting' /\ Unanswered'
  BY DEF Settling, AllMarked, ReadMarked, Starting, Unanswered
<1>2. Passed'
  <2> SUFFICES ASSUME pc' \in {"fetch", "patch"}, ~failed',
                      NEW i \in Issues, i < at', i \notin touched'
               PROVE  Fresh(job, i)'
    BY DEF Passed
  <2>1. pc \in {"fetch", "patch"} /\ ~failed /\ i < at /\ i \notin touched /\ issue'[i] = issue[i]
    OBVIOUS
  <2> QED BY <2>1, JobStays DEF Settling
<1>3. Answered'
  <2> SUFFICES ASSUME settled' # None, NEW i \in Issues \ touched' PROVE Fresh(settled, i)'
    BY DEF Answered
  <2> QED BY AnswerStays DEF Settling
<1> QED BY <1>1, <1>2, <1>3 DEF Settling

-----------------------------------------------------------------------------
(***************************************************************************)
(* The workflow.                                                           *)
(***************************************************************************)
LEMMA PushSettles == ASSUME Inv, Settling, NEW d \in Issues, Push(d) PROVE Settling'
<1>1. UNCHANGED <<job, pc, at, read, failed, issue, touched, settled>>
      /\ pushes' = Append(pushes, d) /\ pushes \in Seq(Issues)
  BY DEF Push, worker, Inv, TypeOK
<1>2. \A n \in 1..Len(pushes) : \A i \in Issues : Version(n, i)' = Version(n, i)
  BY <1>1, VersionStays
<1> QED BY <1>1, <1>2, Stays

LEMMA QueueSettles ==
  ASSUME Inv, Settling,
         Dispatch \/ (\E n \in Pushes : Validated(n) \/ ValidationFails(n)) \/ UNCHANGED vars
  PROVE  Settling'
<1>1. UNCHANGED pushes /\ UNCHANGED <<job, pc, at, read, failed, issue, touched, settled>>
  BY Zenon DEF Dispatch, Validated, ValidationFails, worker, vars
<1>2. \A n \in 1..Len(pushes) : \A i \in Issues : Version(n, i)' = Version(n, i)
  BY <1>1, VersionSame
<1> QED BY <1>1, <1>2, Stays

LEMMA StartSettles == ASSUME Inv, Settling, StartJob PROVE Settling'
<1>1. /\ pc' = "labels" /\ at' = 1 /\ settled' = None /\ UNCHANGED issue
  BY DEF StartJob
<1>2. AllMarked'
  BY <1>1 DEF Settling, AllMarked
<1> QED BY <1>1, <1>2 DEF Settling, ReadMarked, Starting, Unanswered, Passed, Answered

LEMMA LabelsSettle == ASSUME Inv, Settling, EnsureLabels PROVE Settling'
<1>1. pc = "labels" /\ pc' = "fetch" /\ UNCHANGED <<at, issue, settled>>
  BY DEF EnsureLabels
<1>2. at' = 1 /\ settled' = None
  BY <1>1 DEF Settling, Starting, Unanswered
<1>3. AllMarked'
  BY <1>1 DEF Settling, AllMarked
<1>4. Passed'
  BY <1>2 DEF Passed, Issues
<1> QED BY <1>1, <1>2, <1>3, <1>4 DEF Settling, ReadMarked, Starting, Unanswered, Answered

(***************************************************************************)
(* The issue the job is at: left as it is, to be patched, or failed.       *)
(***************************************************************************)
(* What passes: the issues before this one, and this one if it is fresh.   *)
LEMMA OnePasses ==
  ASSUME Inv, Settling, pc \in {"fetch", "patch"}, NEW a \in Issues, at = a, ~failed,
         UNCHANGED <<pushes, job>>, at' = at + 1, Fresh(job, a)',
         \A i \in Issues \ {a} : issue'[i] = issue[i] /\ (i \notin touched' => i \notin touched)
  PROVE  Passed'
<1> SUFFICES ASSUME NEW i \in Issues, i < at', i \notin touched' PROVE Fresh(job, i)'
  BY DEF Passed
<1>0. \A n \in 1..Len(pushes) : Version(n, i)' = Version(n, i)
  BY VersionSame
<1>1. CASE i = a
  BY <1>1
<1>2. CASE i # a
  <2>1. i < at /\ i \notin touched /\ issue'[i] = issue[i]
    BY <1>2 DEF Issues
  <2> QED BY <1>0, <2>1, JobStays DEF Settling
<1> QED BY <1>1, <1>2

LEMMA FailurePasses ==
  ASSUME NextIssue(TRUE), AllMarked', Unanswered, pc # "idle", UNCHANGED settled
  PROVE  Settling'
<1>1. pc' = "fetch" /\ failed' = TRUE /\ settled' = None
  BY DEF NextIssue, Unanswered
<1> QED BY <1>1 DEF Settling, ReadMarked, Starting, Unanswered, Passed, Answered

LEMMA FetchSettles == ASSUME Inv, Settling, FetchIssue PROVE Settling'
<1> DEFINE it == issue[at]
           v  == Version(job, at)
<1>1. /\ pc = "fetch" /\ at \in Issues /\ touched' = touched \ {at}
      /\ UNCHANGED <<pushes, issue, settled>>
  BY DEF FetchIssue
<1>2. AllMarked' /\ settled' = None /\ Unanswered
  BY <1>1 DEF Settling, AllMarked, Unanswered
<1>3. CASE ~Synchronizable(it.body)
  <2>1. NextIssue(TRUE)
    BY <1>3 DEF FetchIssue
  <2> QED BY <1>1, <1>2, <2>1, FailurePasses
<1>4. CASE Synchronizable(it.body) /\ Desired(v, it) = it
  <2>1. NextIssue(failed)
    BY <1>4 DEF FetchIssue
  <2>2. at' = at + 1 /\ pc' = "fetch" /\ failed' = failed /\ job' = job
    BY <2>1 DEF NextIssue
  <2>3. Passed'
    <3>1. CASE failed
      BY <2>2, <3>1 DEF Passed
    <3>2. CASE ~failed
      <4>1. PICK n : n = at
        OBVIOUS
      <4>2. PICK m : m = job
        OBVIOUS
      <4>3. Desired(Version(m, n), issue[n]) = issue[n]
        BY <1>4, <4>1, <4>2
      <4>4. Desired(Version(m, n)', issue'[n]) = issue'[n]
        BY <1>1, <4>3, VersionSame
      <4>5. Fresh(m, n)'
        BY <4>4 DEF Fresh
      <4>6. Fresh(job, n)'
        BY <2>2, <4>2, <4>5 DEF Fresh, Version
      <4>7. \A i \in Issues \ {n} : issue'[i] = issue[i] /\ (i \notin touched' => i \notin touched)
        BY <1>1, <4>1
      <4> QED BY <1>1, <2>2, <3>2, <4>1, <4>6, <4>7, OnePasses
    <3> QED BY <3>1, <3>2
  <2> QED BY <1>2, <2>2, <2>3 DEF Settling, ReadMarked, Starting, Unanswered, Answered
<1>5. CASE Synchronizable(it.body) /\ Desired(v, it) # it
  <2>1. read' = it /\ pc' = "patch" /\ UNCHANGED <<job, at, failed>>
    BY <1>5 DEF FetchIssue
  <2>2. MarkedFirst(read'.body)
    BY <1>1, <2>1 DEF Settling, AllMarked
  <2>3. Passed'
    <3> SUFFICES ASSUME ~failed', NEW i \in Issues, i < at', i \notin touched'
                 PROVE  Fresh(job, i)'
      BY DEF Passed
    <3>1. \A n \in 1..Len(pushes) : Version(n, i)' = Version(n, i)
      BY <1>1, VersionSame
    <3>2. i < at /\ ~failed /\ issue'[i] = issue[i] /\ i \notin touched
      BY <1>1, <2>1 DEF Issues
    <3> QED BY <1>1, <2>1, <3>1, <3>2, JobStays DEF Settling
  <2> QED BY <1>2, <2>1, <2>2, <2>3 DEF Settling, ReadMarked, Starting, Unanswered, Answered
<1> QED BY <1>3, <1>4, <1>5

(* What a PATCH writes is marked, and fresh.                               *)
LEMMA PatchIsFresh ==
  ASSUME Inv, Settling, pc = "patch", NEW a, at = a,
         issue' = [issue EXCEPT ![at] = Desired(Version(job, at), read)]
  PROVE  /\ a \in Issues /\ AllMarked'
         /\ UNCHANGED <<pushes, job>> => Fresh(job, a)'
         /\ \A i \in Issues \ {a} : issue'[i] = issue[i]
<1>1. a \in Issues /\ read \in Surfaces /\ Synchronizable(read.body) /\ MarkedFirst(read.body)
      /\ issue \in [Issues -> Surfaces]
  BY DEF Inv, TypeOK, ReadIsSound, Settling, ReadMarked
<1>2. PICK w : w = Version(job, a)
  OBVIOUS
<1>3. w \in Pushes
  BY <1>2, VersionIsAPush DEF Inv
<1>4. PICK it : it = Desired(w, read)
  OBVIOUS
<1>5. MarkedFirst(it.body) /\ Desired(w, it) = it
  BY <1>1, <1>3, <1>4, DesiredFinished
<1>6. issue'[a] = it /\ \A i \in Issues \ {a} : issue'[i] = issue[i]
  BY <1>1, <1>2, <1>4
<1>7. AllMarked'
  BY <1>5, <1>6 DEF Settling, AllMarked
<1>8. ASSUME UNCHANGED <<pushes, job>> PROVE Fresh(job, a)'
  <2>1. Version(job, a)' = w
    BY <1>2, <1>8 DEF Version
  <2> QED BY <1>5, <1>6, <2>1 DEF Fresh
<1> QED BY <1>1, <1>6, <1>7, <1>8

LEMMA PatchSettles == ASSUME Inv, Settling, PatchIssue PROVE Settling'
<1>1. /\ pc = "patch" /\ issue' = [issue EXCEPT ![at] = Desired(Version(job, at), read)]
      /\ at' = at + 1 /\ pc' = "fetch" /\ failed' = failed /\ job' = job
      /\ UNCHANGED <<pushes, touched, settled>>
  BY DEF PatchIssue, NextIssue
<1>2. PICK a : a = at
  OBVIOUS
<1>3. /\ a \in Issues /\ AllMarked' /\ Fresh(job, a)'
      /\ \A i \in Issues \ {a} : issue'[i] = issue[i]
  BY <1>1, <1>2, PatchIsFresh
<1>4. Passed'
  <2>1. CASE failed
    BY <1>1, <2>1 DEF Passed
  <2>2. CASE ~failed
    BY <1>1, <1>2, <1>3, <2>2, OnePasses
  <2> QED BY <2>1, <2>2
<1>5. settled' = None
  BY <1>1 DEF Settling, Unanswered
<1> QED BY <1>1, <1>3, <1>4, <1>5 DEF Settling, ReadMarked, Starting, Unanswered, Answered

LEMMA FailureSettles == ASSUME Inv, Settling, RequestFails PROVE Settling'
<1>1. /\ pc \in {"fetch", "patch"} /\ NextIssue(TRUE) /\ UNCHANGED settled
      /\ \/ UNCHANGED issue
         \/ /\ pc = "patch"
            /\ issue' = [issue EXCEPT ![at] = Desired(Version(job, at), read)]
  BY DEF RequestFails
<1>2. AllMarked'
  <2>1. CASE UNCHANGED issue
    BY <2>1 DEF Settling, AllMarked
  <2>2. CASE /\ pc = "patch"
             /\ issue' = [issue EXCEPT ![at] = Desired(Version(job, at), read)]
    <3>1. PICK a : a = at
      OBVIOUS
    <3> QED BY <2>2, <3>1, PatchIsFresh
  <2> QED BY <1>1, <2>1, <2>2
<1> QED BY <1>1, <1>2, FailurePasses DEF Settling

LEMMA EndSettles == ASSUME Inv, Settling, Abort \/ Finish PROVE Settling'
<1>1. pc # "idle" /\ pc' = "idle" /\ UNCHANGED <<pushes, issue, touched>>
  BY DEF Abort, Finish, EndJob
<1>2. AllMarked'
  BY <1>1 DEF Settling, AllMarked
<1>3. Answered'
  <2>1. CASE Abort
    <3>1. settled' = None
      BY <1>1, <2>1 DEF Abort, Settling, Unanswered
    <3> QED BY <3>1 DEF Answered
  <2>2. CASE Finish
    <3> SUFFICES ASSUME settled' # None, NEW i \in Issues \ touched' PROVE Fresh(settled, i)'
      BY DEF Answered
    <3>1. pc = "fetch" /\ ~failed /\ settled' = job /\ at \notin Issues
      BY <2>2 DEF Finish
    <3>2. i < at
      <4>1. at \in 1..(NumIssues + 1) /\ NumIssues \in Nat
        BY SizesAssumption DEF Inv, TypeOK
      <4>2. at = NumIssues + 1 /\ i \in 1..NumIssues
        BY <3>1, <4>1 DEF Issues
      <4> QED BY <4>1, <4>2
    <3>3. PICK n : n = job
      OBVIOUS
    <3>4. Fresh(job, i)
      BY <1>1, <3>1, <3>2 DEF Settling, Passed
    <3>5. Fresh(n, i)
      BY <3>3, <3>4
    <3>6. Fresh(n, i)'
      BY <1>1, <3>5, VersionSame, FreshStays
    <3>7. settled' = n
      BY <3>1, <3>3
    <3> QED BY <3>6, <3>7 DEF Fresh, Version
  <2> QED BY <2>1, <2>2
<1> QED BY <1>1, <1>2, <1>3 DEF Settling, ReadMarked, Starting, Unanswered, Passed

-----------------------------------------------------------------------------
(***************************************************************************)
(* Reviewers and maintainers.                                              *)
(***************************************************************************)
LEMMA EditSettles ==
  ASSUME Inv, Settling, NEW a \in Issues, NEW it, MarkedFirst(it.body), Edit(a, it)
  PROVE  Settling'
<1>1. /\ issue' = [issue EXCEPT ![a] = it] /\ touched' = touched \cup {a}
      /\ UNCHANGED pushes /\ UNCHANGED <<job, pc, at, read, failed, settled>>
  BY DEF Edit, worker
<1>2. issue \in [Issues -> Surfaces]
  BY DEF Inv, TypeOK
<1>3. AllMarked'
  BY <1>1, <1>2 DEF Settling, AllMarked
<1>4. \A i \in Issues : i \notin touched' => i \notin touched /\ issue'[i] = issue[i]
  BY <1>1, <1>2
<1>5. \A n, i : Version(n, i)' = Version(n, i)
  BY <1>1, VersionSame
<1>6. Passed'
  <2> SUFFICES ASSUME pc' \in {"fetch", "patch"}, ~failed',
                      NEW i \in Issues, i < at', i \notin touched'
               PROVE  Fresh(job, i)'
    BY DEF Passed
  <2>1. pc \in {"fetch", "patch"} /\ ~failed /\ i < at /\ job' = job
    BY <1>1
  <2> QED BY <1>4, <1>5, <2>1, JobStays DEF Settling
<1>7. Answered'
  <2> SUFFICES ASSUME settled' # None, NEW i \in Issues \ touched' PROVE Fresh(settled, i)'
    BY DEF Answered
  <2> QED BY <1>1, <1>4, <1>5, AnswerStays DEF Settling
<1> QED BY <1>1, <1>3, <1>6, <1>7 DEF Settling, ReadMarked, Starting, Unanswered

LEMMA PersonSettles ==
  ASSUME Inv, Settling, NEW i \in Issues,
         CheckBox(i) \/ AddNote(i) \/ EditHeader(i) \/ RemoveDelimiter(i)
  PROVE  Settling'
<1> DEFINE r == issue[i]
           b == r.body
<1>1. r \in Surfaces /\ b \in Seq(Tokens) /\ MarkedFirst(b)
  BY DEF Inv, TypeOK, Settling, AllMarked, Surfaces
<1>a. r = [titled |-> r.titled, body |-> r.body, labels |-> r.labels]
  BY <1>1 DEF Surfaces
<1>b. \A c : [r EXCEPT !.body = c].body = c
  BY <1>a
<1>2. CASE CheckBox(i)
  <2>1. PICK k \in Places(b, "box") : Edit(i, [r EXCEPT !.body[k] = T("checked")])
    BY <1>2 DEF CheckBox
  <2> DEFINE c == [b EXCEPT ![k] = T("checked")]
  <2>2. [r EXCEPT !.body[k] = T("checked")] = [r EXCEPT !.body = c]
    BY <1>1 DEF Surfaces
  <2>3. MarkedFirst(c)
    BY <1>1, TickedMarked
  <2>4. [r EXCEPT !.body = c].body = c
    BY <1>b
  <2> HIDE DEF c, r
  <2> QED BY <2>1, <2>2, <2>3, <2>4, EditSettles
<1>3. CASE AddNote(i)
  <2>1. PICK k \in DOMAIN b : Edit(i, [r EXCEPT !.body =
               SubSeq(b, 1, k) \o << T("note") >> \o SubSeq(b, k + 1, Len(b))])
    BY <1>3 DEF AddNote
  <2> DEFINE c == SubSeq(b, 1, k) \o << T("note") >> \o SubSeq(b, k + 1, Len(b))
  <2>2. MarkedFirst(c)
    BY <1>1, NotedMarked
  <2>3. Edit(i, [r EXCEPT !.body = c])
    BY <2>1
  <2> HIDE DEF c
  <2>4. [r EXCEPT !.body = c].body = c
    BY <1>b
  <2> HIDE DEF r
  <2> QED BY <2>2, <2>3, <2>4, EditSettles
<1>4. CASE EditHeader(i)
  <2>1. PICK l, it : Edit(i, it) /\ it \in {[r EXCEPT !.titled = FALSE], [r EXCEPT !.labels = @ \ {l}]}
    BY <1>4 DEF EditHeader
  <2>2. [r EXCEPT !.titled = FALSE].body = b /\ [r EXCEPT !.labels = @ \ {l}].body = b
    <3> HIDE DEF r
    <3> QED BY <1>a
  <2>3. MarkedFirst(it.body)
    BY <1>1, <2>1, <2>2
  <2> HIDE DEF r
  <2> QED BY <2>1, <2>3, EditSettles
<1>5. CASE RemoveDelimiter(i)
  <2>1. PICK k \in DOMAIN b : Edit(i, [r EXCEPT !.body =
               SubSeq(b, 1, k - 1) \o SubSeq(b, k + 1, Len(b))])
    BY <1>5 DEF RemoveDelimiter
  <2> DEFINE c == SubSeq(b, 1, k - 1) \o SubSeq(b, k + 1, Len(b))
  <2>2. MarkedFirst(c)
    BY <1>1, UndelimitedMarked
  <2>3. Edit(i, [r EXCEPT !.body = c])
    BY <2>1
  <2> HIDE DEF c
  <2>4. [r EXCEPT !.body = c].body = c
    BY <1>b
  <2> HIDE DEF r
  <2> QED BY <2>2, <2>3, <2>4, EditSettles
<1> QED BY <1>2, <1>3, <1>4, <1>5

LEMMA SettlingFirst == ASSUME Init PROVE Settling
<1>1. \A i \in Issues : issue[i] \in [titled : {FALSE}, body : {Unmigrated, LegacyBody},
                                       labels : {{"other"}}]
  BY DEF Init
<1>2. \A i \in Issues : issue[i].body \in {Unmigrated, LegacyBody}
  BY <1>1
<1>3. AllMarked
  BY <1>2, FirstMarked DEF AllMarked
<1> QED BY <1>3
        DEF Init, Settling, ReadMarked, Starting, Unanswered, Passed, Answered

(* RunsSettle: for any number of issues, pushes, edits and failures, after *)
(* a run that exits with 0 another one on the same commit would leave      *)
(* every issue that was not edited meanwhile as it is.                     *)
THEOREM RunsSettle == Spec => []CleanRunSettles
<1>1. Inv /\ Settling /\ [Next]_vars => Settling'
  <2> SUFFICES ASSUME Inv, Settling, [Next]_vars PROVE Settling'
    OBVIOUS
  <2>1. \A i \in Edited : i \in Issues
    BY EditedAssumption DEF Issues
  <2> QED
    BY <2>1, PushSettles, QueueSettles, StartSettles, LabelsSettle, FetchSettles, PatchSettles,
       FailureSettles, EndSettles, PersonSettles DEF Next, JobStep
<1>2. Settling => CleanRunSettles
  BY DEF Settling, Answered, Fresh, CleanRunSettles
<1> QED BY <1>1, <1>2, SettlingFirst, Invariance, PTL DEF Spec

-----------------------------------------------------------------------------
(***************************************************************************)
(* Part three.  What people wrote in a body, from left to right.           *)
(***************************************************************************)
LEMMA StepByStep ==
  ASSUME NEW n \in Nat, NEW S, 0 \in S, \A k \in 1..n : k - 1 \in S => k \in S
  PROVE  0..n \subseteq S
<1> DEFINE M == {k \in 0..n : k \notin S}
<1> SUFFICES ASSUME M # {} PROVE FALSE
  OBVIOUS
<1>1. PICK k \in M : \A j \in M : k <= j
  <2>1. M \subseteq Nat
    OBVIOUS
  <2> HIDE DEF M
  <2> QED BY <2>1, Minimum
<1>2. k \in 1..n /\ k - 1 \in 0..n /\ ~(k <= k - 1)
  OBVIOUS
<1>3. k - 1 \in S
  BY <1>1, <1>2
<1> QED BY <1>2, <1>3

Gathering(b, n, f) ==
  f = [k \in 0..n |-> IF k = 0 THEN <<>>
                      ELSE IF b[k].is \in ByPeople THEN Append(f[k - 1], b[k])
                      ELSE f[k - 1]]

LEMMA GatheringExists ==
  ASSUME NEW b, NEW n \in Nat
  PROVE  \E f : Gathering(b, n, f)
<1> DEFINE S == {m \in 0..n : \E f : Gathering(b, m, f)}
           e == [k \in 0..0 |-> <<>>]
<1>1. Gathering(b, 0, e)
  <2>1. \A k \in 0..0 : k = 0
    OBVIOUS
  <2>2. e = [k \in 0..0 |-> IF k = 0 THEN <<>>
                            ELSE IF b[k].is \in ByPeople THEN Append(e[k - 1], b[k])
                            ELSE e[k - 1]]
    BY <2>1
  <2> QED BY <2>2 DEF Gathering
<1>2. 0 \in S
  <2>1. 0 \in 0..n
    OBVIOUS
  <2> HIDE DEF e
  <2> QED BY <1>1, <2>1
<1>3. ASSUME NEW m \in 1..n, m - 1 \in S PROVE m \in S
  <2>1. PICK f : Gathering(b, m - 1, f)
    BY <1>3
  <2> DEFINE next == IF b[m].is \in ByPeople THEN Append(f[m - 1], b[m]) ELSE f[m - 1]
             g == [k \in 0..m |-> IF k = m THEN next ELSE f[k]]
  <2>2. ASSUME NEW k \in 0..m
        PROVE  g[k] = IF k = 0 THEN <<>>
                      ELSE IF b[k].is \in ByPeople THEN Append(g[k - 1], b[k])
                      ELSE g[k - 1]
    <3>1. k # 0 => k - 1 \in 0..m /\ k - 1 # m
      OBVIOUS
    <3>2. k # 0 => g[k - 1] = f[k - 1]
      BY <3>1
    <3>3. CASE k = m
      <4>1. g[k] = next /\ k # 0
        BY <3>3
      <4> HIDE DEF g
      <4> QED BY <3>2, <3>3, <4>1
    <3>4. CASE k # m
      <4>1. k \in 0..(m - 1) /\ g[k] = f[k]
        BY <3>4
      <4>2. f[k] = IF k = 0 THEN <<>>
                   ELSE IF b[k].is \in ByPeople THEN Append(f[k - 1], b[k])
                   ELSE f[k - 1]
        BY <2>1, <4>1 DEF Gathering
      <4> HIDE DEF g
      <4> QED BY <3>2, <4>1, <4>2
    <3> QED BY <3>3, <3>4
  <2>3. g = [k \in 0..m |-> g[k]]
    OBVIOUS
  <2> HIDE DEF g
  <2>4. g = [k \in 0..m |-> IF k = 0 THEN <<>>
                            ELSE IF b[k].is \in ByPeople THEN Append(g[k - 1], b[k])
                            ELSE g[k - 1]]
    BY <2>2, <2>3
  <2>5. Gathering(b, m, g)
    BY <2>4 DEF Gathering
  <2> QED BY <2>5
<1> HIDE DEF S
<1>4. 0..n \subseteq S
  BY <1>2, <1>3, StepByStep
<1>5. n \in S
  BY <1>4
<1> QED BY <1>5 DEF S

(* The beginnings of what was written, and the whole.                      *)
Gathered(b, f) ==
  /\ f[0] = <<>>
  /\ \A k \in 1..Len(b) : f[k] = IF b[k].is \in ByPeople THEN f[k - 1] \o <<b[k]>>
                                 ELSE f[k - 1]
  /\ \A k \in 0..Len(b) : f[k] \in Seq(Tokens)
  /\ f[Len(b)] = Written(b)

LEMMA WrittenIsGathered ==
  ASSUME NEW b \in Seq(Tokens)
  PROVE  \E f : Gathered(b, f)
<1> DEFINE n == Len(b)
           f == CHOOSE f : f = [k \in 0..n |->
                  IF k = 0 THEN <<>>
                  ELSE IF b[k].is \in ByPeople THEN Append(f[k - 1], b[k])
                  ELSE f[k - 1]]
<1>1. n \in Nat
  OBVIOUS
<1>2. Written(b) = f[n]
  BY DEF Written
<1>3. PICK w : Gathering(b, n, w)
  BY <1>1, GatheringExists
<1>4. f = [k \in 0..n |-> IF k = 0 THEN <<>>
                          ELSE IF b[k].is \in ByPeople THEN Append(f[k - 1], b[k])
                          ELSE f[k - 1]]
  BY <1>3 DEF Gathering
<1> HIDE DEF f, n
<1>5. f[0] = <<>>
  <2>1. 0 \in 0..n
    BY <1>1
  <2> QED BY <1>4, <2>1
<1>6. ASSUME NEW k \in 1..n
      PROVE  f[k] = IF b[k].is \in ByPeople THEN Append(f[k - 1], b[k]) ELSE f[k - 1]
  <2>1. k \in 0..n /\ k # 0
    BY <1>1
  <2> QED BY <1>4, <2>1
<1> DEFINE S == {k \in 0..n : f[k] \in Seq(Tokens)}
<1>7. 0 \in S
  <2>1. 0 \in 0..n /\ <<>> \in Seq(Tokens)
    BY <1>1
  <2> QED BY <1>5, <2>1
<1>8. ASSUME NEW k \in 1..n, k - 1 \in S PROVE k \in S
  <2>1. f[k - 1] \in Seq(Tokens) /\ b[k] \in Tokens /\ k \in 0..n
    BY <1>1, <1>8 DEF n
  <2>2. Append(f[k - 1], b[k]) \in Seq(Tokens)
    BY <2>1, AppendProperties
  <2>3. f[k] \in Seq(Tokens)
    BY <1>6, <2>1, <2>2
  <2> QED BY <2>1, <2>3
<1>9. 0..n \subseteq S
  <2> HIDE DEF S
  <2> QED BY <1>1, <1>7, <1>8, StepByStep
<1>10. ASSUME NEW k \in 1..n
       PROVE  f[k] = IF b[k].is \in ByPeople THEN f[k - 1] \o <<b[k]>> ELSE f[k - 1]
  <2>1. k - 1 \in 0..n /\ b[k] \in Tokens
    BY <1>1 DEF n
  <2>2. f[k - 1] \in Seq(Tokens)
    BY <1>9, <2>1
  <2>3. Append(f[k - 1], b[k]) = f[k - 1] \o <<b[k]>>
    BY <2>1, <2>2, AppendIsConcat
  <2> QED BY <1>6, <2>3
<1>11. Gathered(b, f)
  BY <1>2, <1>5, <1>9, <1>10 DEF Gathered, n
<1> QED BY <1>11

LEMMA WrittenIsTyped == ASSUME NEW b \in Seq(Tokens) PROVE Written(b) \in Seq(Tokens)
<1>1. Len(b) \in 0..Len(b)
  OBVIOUS
<1> QED BY <1>1, WrittenIsGathered DEF Gathered

LEMMA NothingWritten ==
  ASSUME NEW b \in Seq(Tokens), \A i \in 1..Len(b) : b[i].is \notin ByPeople
  PROVE  Written(b) = <<>>
<1>1. PICK f : Gathered(b, f)
  BY WrittenIsGathered
<1> DEFINE S == {k \in 0..Len(b) : f[k] = <<>>}
<1>2. Len(b) \in Nat /\ 0 \in S
  BY <1>1 DEF Gathered
<1>3. ASSUME NEW k \in 1..Len(b), k - 1 \in S PROVE k \in S
  <2>1. k \in 0..Len(b) /\ f[k - 1] = <<>>
    BY <1>2, <1>3
  <2> QED BY <1>1, <2>1 DEF Gathered
<1> HIDE DEF S
<1>4. 0..Len(b) \subseteq S
  BY <1>2, <1>3, StepByStep
<1>5. Len(b) \in S
  BY <1>2, <1>4
<1> QED BY <1>1, <1>5 DEF S, Gathered

LEMMA WrittenConcat ==
  ASSUME NEW s \in Seq(Tokens), NEW t \in Seq(Tokens)
  PROVE  Written(s \o t) = Written(s) \o Written(t)
<1> DEFINE c == s \o t
           m == Len(s)
           n == Len(t)
<1>1. /\ c \in Seq(Tokens) /\ Len(c) = m + n /\ m \in Nat /\ n \in Nat
      /\ \A i \in 1..m : c[i] = s[i]
      /\ \A i \in 1..n : c[m + i] = t[i]
  BY Concat
<1>2. PICK f : Gathered(s, f)
  BY WrittenIsGathered
<1>3. PICK g : Gathered(t, g)
  BY WrittenIsGathered
<1> HIDE DEF c
<1>4. PICK h : Gathered(c, h)
  BY <1>1, WrittenIsGathered
<1>a. /\ f[0] = <<>> /\ f[m] = Written(s) /\ f[m] \in Seq(Tokens)
      /\ \A k \in 1..m : f[k] = IF s[k].is \in ByPeople THEN f[k - 1] \o <<s[k]>> ELSE f[k - 1]
  BY <1>1, <1>2 DEF Gathered
<1>b. /\ g[0] = <<>> /\ g[n] = Written(t) /\ \A k \in 0..n : g[k] \in Seq(Tokens)
      /\ \A k \in 1..n : g[k] = IF t[k].is \in ByPeople THEN g[k - 1] \o <<t[k]>> ELSE g[k - 1]
  BY <1>1, <1>3 DEF Gathered
<1>c. /\ h[0] = <<>> /\ h[m + n] = Written(c)
      /\ \A k \in 1..(m + n) : h[k] = IF c[k].is \in ByPeople THEN h[k - 1] \o <<c[k]>> ELSE h[k - 1]
  BY <1>1, <1>4 DEF Gathered
<1>d. \A k \in 1..n : t[k] \in Tokens
  OBVIOUS
<1> HIDE DEF m, n
<1>5. h[m] = f[m]
  <2> DEFINE S == {k \in 0..m : h[k] = f[k]}
  <2>1. 0 \in S
    BY <1>1, <1>a, <1>c
  <2>2. ASSUME NEW k \in 1..m, k - 1 \in S PROVE k \in S
    <3>1. k \in 0..m /\ k \in 1..(m + n) /\ c[k] = s[k] /\ h[k - 1] = f[k - 1]
      BY <1>1, <2>2
    <3> QED BY <1>a, <1>c, <3>1
  <2> HIDE DEF S
  <2>3. 0..m \subseteq S
    BY <1>1, <2>1, <2>2, StepByStep
  <2>4. m \in S
    BY <1>1, <2>3
  <2> QED BY <2>4 DEF S
<1>6. h[m + n] = f[m] \o g[n]
  <2> DEFINE S == {k \in 0..n : h[m + k] = f[m] \o g[k]}
  <2>1. 0 \in S
    <3>1. f[m] \o <<>> = f[m]
      BY <1>a, ConcatEmptySeq
    <3>2. m + 0 = m /\ 0 \in 0..n
      BY <1>1
    <3> QED BY <1>5, <1>b, <3>1, <3>2
  <2>2. ASSUME NEW k \in 1..n, k - 1 \in S PROVE k \in S
    <3>1. /\ k \in 0..n /\ k - 1 \in 0..n /\ m + k \in 1..(m + n) /\ (m + k) - 1 = m + (k - 1)
          /\ c[m + k] = t[k]
      BY <1>1
    <3>2. h[m + (k - 1)] = f[m] \o g[k - 1]
      BY <2>2
    <3>3. h[m + k] = IF t[k].is \in ByPeople THEN (f[m] \o g[k - 1]) \o <<t[k]>>
                     ELSE f[m] \o g[k - 1]
      BY <1>c, <3>1, <3>2
    <3>4. g[k - 1] \in Seq(Tokens) /\ <<t[k]>> \in Seq(Tokens)
      BY <1>b, <1>d, <3>1
    <3>5. (f[m] \o g[k - 1]) \o <<t[k]>> = f[m] \o (g[k - 1] \o <<t[k]>>)
      <4> DEFINE x == f[m]
                 y == g[k - 1]
                 z == <<t[k]>>
      <4>1. x \in Seq(Tokens) /\ y \in Seq(Tokens) /\ z \in Seq(Tokens)
        BY <1>a, <3>4
      <4> HIDE DEF x, y, z
      <4>2. (x \o y) \o z = x \o (y \o z)
        BY <4>1, ConcatAssociative
      <4> QED BY <4>2 DEF x, y, z
    <3>6. h[m + k] = f[m] \o g[k]
      BY <1>b, <3>3, <3>5
    <3> QED BY <3>1, <3>6
  <2> HIDE DEF S
  <2>3. 0..n \subseteq S
    BY <1>1, <2>1, <2>2, StepByStep
  <2>4. n \in S
    BY <1>1, <2>3
  <2> QED BY <2>4 DEF S
<1> QED BY <1>6, <1>a, <1>b, <1>c DEF c

-----------------------------------------------------------------------------
(***************************************************************************)
(* A body whose metadata block nobody touched: what opens one is followed  *)
(* by the generated text and the end, and so by nothing people wrote.      *)
(***************************************************************************)
Whole(b) ==
  \A i \in 1..Len(b) : b[i].is = "start" =>
    i + 2 \in 1..Len(b) /\ b[i + 1].is = "meta" /\ b[i + 2].is = "end"

LEMMA LacksWhole == ASSUME NEW b, Lacks(b, "start") PROVE Whole(b)
  BY DEF Lacks, Whole

LEMMA WholeConcat ==
  ASSUME NEW s \in Seq(Tokens), NEW t \in Seq(Tokens), Whole(s), Whole(t)
  PROVE  Whole(s \o t)
<1> DEFINE c == s \o t
           m == Len(s)
           n == Len(t)
<1>1. /\ c \in Seq(Tokens) /\ Len(c) = m + n /\ m \in Nat /\ n \in Nat
      /\ \A i \in 1..m : c[i] = s[i]
      /\ \A i \in 1..n : c[m + i] = t[i]
  BY Concat
<1>2. ASSUME NEW i \in 1..Len(c), c[i].is = "start"
      PROVE  i + 2 \in 1..Len(c) /\ c[i + 1].is = "meta" /\ c[i + 2].is = "end"
  <2>1. CASE i \in 1..m /\ c[i] = s[i]
    <3>1. i + 2 \in 1..m /\ i + 1 \in 1..m /\ s[i + 1].is = "meta" /\ s[i + 2].is = "end"
      BY <1>1, <1>2, <2>1 DEF Whole
    <3> HIDE DEF c, m, n
    <3> QED BY <1>1, <3>1
  <2>2. ASSUME NEW j \in 1..n, i = m + j, c[i] = t[j]
        PROVE  i + 2 \in 1..Len(c) /\ c[i + 1].is = "meta" /\ c[i + 2].is = "end"
    <3>1. j + 2 \in 1..n /\ j + 1 \in 1..n /\ t[j + 1].is = "meta" /\ t[j + 2].is = "end"
      BY <1>1, <1>2, <2>2 DEF Whole
    <3> HIDE DEF c, m, n
    <3>2. c[m + (j + 1)] = t[j + 1] /\ c[m + (j + 2)] = t[j + 2]
      BY <1>1, <3>1
    <3>3. m + (j + 1) = i + 1 /\ m + (j + 2) = i + 2 /\ i + 2 \in 1..Len(c)
      BY <1>1, <2>2, <3>1
    <3> QED BY <3>1, <3>2, <3>3
  <2> QED BY <2>1, <2>2, ConcatCases
<1> QED BY <1>2 DEF Whole

LEMMA MetadataWhole ==
  ASSUME NEW v \in Pushes
  PROVE  Whole(RenderMetadata(v)) /\ Written(RenderMetadata(v)) = <<>>
<1> DEFINE m == RenderMetadata(v)
<1>1. /\ m \in Seq(Tokens) /\ Len(m) = 3
      /\ m[1].is = "start" /\ m[2].is = "meta" /\ m[3].is = "end"
  BY MetadataIs
<1> HIDE DEF m
<1>2. \A i \in 1..Len(m) : i = 1 \/ i = 2 \/ i = 3
  BY <1>1
<1>3. Whole(m)
  BY <1>1, <1>2 DEF Whole
<1>4. \A i \in 1..Len(m) : m[i].is \notin ByPeople
  BY <1>1, <1>2 DEF ByPeople
<1> QED BY <1>1, <1>3, <1>4, NothingWritten DEF m

LEMMA RestWhole ==
  ASSUME NEW b \in Seq(Tokens), Whole(b), NEW m \in 1..(Len(b) + 1)
  PROVE  SubSeq(b, m, Len(b)) \in Seq(Tokens) /\ Whole(SubSeq(b, m, Len(b)))
<1> DEFINE n == Len(b)
           c == SubSeq(b, m, n)
<1>1. n \in 0..n /\ n \in Nat /\ m \in Nat
  OBVIOUS
<1>2. /\ c \in Seq(Tokens) /\ Len(c) = IF m <= n THEN n - m + 1 ELSE 0
      /\ \A i \in 1..Len(c) : c[i] = b[m + i - 1] /\ m + i - 1 \in 1..n
  BY <1>1, Part
<1> HIDE DEF c
<1>3. ASSUME NEW i \in 1..Len(c), c[i].is = "start"
      PROVE  i + 2 \in 1..Len(c) /\ c[i + 1].is = "meta" /\ c[i + 2].is = "end"
  <2> DEFINE j == m + i - 1
  <2>1. j \in 1..n /\ b[j].is = "start"
    BY <1>2, <1>3
  <2>2. j + 2 \in 1..n /\ b[j + 1].is = "meta" /\ b[j + 2].is = "end"
    BY <2>1 DEF Whole
  <2>3. i + 1 \in 1..Len(c) /\ i + 2 \in 1..Len(c)
    BY <1>1, <1>2, <2>2
  <2>4. m + (i + 1) - 1 = j + 1 /\ m + (i + 2) - 1 = j + 2
    BY <1>1
  <2> HIDE DEF j
  <2> QED BY <1>2, <2>2, <2>3, <2>4
<1> QED BY <1>2, <1>3 DEF Whole, c

(* Up to a place that is not inside a block.                               *)
LEMMA StartWhole ==
  ASSUME NEW b \in Seq(Tokens), Whole(b), NEW n \in 0..Len(b),
         n = Len(b) \/ (n \in 1..Len(b) /\ b[n].is = "end") \/ Lacks(SubSeq(b, 1, n), "start")
  PROVE  SubSeq(b, 1, n) \in Seq(Tokens) /\ Whole(SubSeq(b, 1, n))
<1> DEFINE c == SubSeq(b, 1, n)
<1>1. 1 \in 1..(Len(b) + 1) /\ Len(b) \in Nat /\ n \in Nat
  OBVIOUS
<1>2. /\ c \in Seq(Tokens) /\ Len(c) = IF 1 <= n THEN n - 1 + 1 ELSE 0
      /\ \A i \in 1..Len(c) : c[i] = b[1 + i - 1] /\ 1 + i - 1 \in 1..Len(b)
  BY <1>1, Part
<1>3. CASE Lacks(c, "start")
  BY <1>2, <1>3, LacksWhole
<1>4. CASE n = Len(b) \/ (n \in 1..Len(b) /\ b[n].is = "end")
  <2> HIDE DEF c
  <2>1. Len(c) = n /\ \A i \in 1..n : c[i] = b[i] /\ i \in 1..Len(b)
    BY <1>1, <1>2
  <2>2. ASSUME NEW i \in 1..Len(c), c[i].is = "start"
        PROVE  i + 2 \in 1..Len(c) /\ c[i + 1].is = "meta" /\ c[i + 2].is = "end"
    <3>1. i \in 1..Len(b) /\ b[i].is = "start" /\ i <= n
      BY <1>1, <2>1, <2>2
    <3>2. i + 2 \in 1..Len(b) /\ b[i + 1].is = "meta" /\ b[i + 2].is = "end"
      BY <3>1 DEF Whole
    <3>3. CASE n = Len(b)
      BY <1>1, <2>1, <3>1, <3>2, <3>3
    <3>4. CASE n \in 1..Len(b) /\ b[n].is = "end"
      <4>1. i # n /\ i + 1 # n
        BY <3>1, <3>2, <3>4
      <4>2. i + 2 \in 1..n /\ i + 1 \in 1..n
        BY <1>1, <3>1, <4>1
      <4> QED BY <2>1, <3>2, <4>2
    <3> QED BY <1>4, <3>3, <3>4
  <2> QED BY <1>2, <2>2 DEF Whole, c
<1> QED BY <1>3, <1>4 DEF c

(***************************************************************************)
(* What the tool makes of such a body, and what it leaves of it.           *)
(***************************************************************************)
LEMMA Three ==
  ASSUME NEW s \in Seq(Tokens), NEW t \in Seq(Tokens), NEW u \in Seq(Tokens)
  PROVE  /\ s \o t \o u \in Seq(Tokens)
         /\ Written(s \o t \o u) = Written(s) \o Written(t) \o Written(u)
         /\ Whole(s) /\ Whole(t) /\ Whole(u) => Whole(s \o t \o u)
<1> DEFINE c == s \o t
<1>1. c \in Seq(Tokens) /\ Written(c) = Written(s) \o Written(t)
      /\ (Whole(s) /\ Whole(t) => Whole(c))
  BY Concat, WrittenConcat, WholeConcat
<1> HIDE DEF c
<1>2. c \o u \in Seq(Tokens) /\ Written(c \o u) = Written(c) \o Written(u)
      /\ (Whole(c) /\ Whole(u) => Whole(c \o u))
  BY <1>1, Concat, WrittenConcat, WholeConcat
<1> QED BY <1>1, <1>2 DEF c

LEMMA RenderedKeeps ==
  ASSUME NEW v \in Pushes, NEW h \in Seq(Tokens)
  PROVE  /\ Written(RenderBody(v, h)) = Written(h)
         /\ Whole(h) => Whole(RenderBody(v, h))
<1> DEFINE marker == <<T("marker")>>
           box == <<T("box"), T("open")>>
           close == <<T("close")>>
           meta == RenderMetadata(v)
           head == marker \o meta \o box
<1>1. /\ T("marker") \in Tokens /\ T("marker").is = "marker"
      /\ T("box") \in Tokens /\ T("box").is = "box"
      /\ T("open") \in Tokens /\ T("open").is = "open"
      /\ T("close") \in Tokens /\ T("close").is = "close"
  BY TokenIs DEF Kinds, Delimiter
<1>2. /\ marker \in Seq(Tokens) /\ box \in Seq(Tokens) /\ close \in Seq(Tokens)
      /\ Lacks(marker, "start") /\ Lacks(box, "start") /\ Lacks(close, "start")
  BY <1>1 DEF Lacks
<1>3. /\ \A i \in 1..Len(marker) : marker[i].is \notin ByPeople
      /\ \A i \in 1..Len(box) : box[i].is \notin ByPeople
      /\ \A i \in 1..Len(close) : close[i].is \notin ByPeople
  BY <1>1 DEF ByPeople
<1>4. meta \in Seq(Tokens) /\ Whole(meta) /\ Written(meta) = <<>>
  BY MetadataIs, MetadataWhole
<1>5. RenderBody(v, h) = head \o h \o close
  BY DEF RenderBody
<1> HIDE DEF marker, box, close, meta
<1>6. /\ Whole(marker) /\ Whole(box) /\ Whole(close)
      /\ Written(marker) = <<>> /\ Written(box) = <<>> /\ Written(close) = <<>>
  BY <1>2, <1>3, LacksWhole, NothingWritten
<1>7. /\ head \in Seq(Tokens) /\ Whole(head) /\ Written(head) = <<>> \o <<>> \o <<>>
  <2>1. /\ head \in Seq(Tokens) /\ Whole(head)
        /\ Written(head) = Written(marker) \o Written(meta) \o Written(box)
    <3>1. marker \in Seq(Tokens) /\ meta \in Seq(Tokens) /\ box \in Seq(Tokens)
      BY <1>2, <1>4
    <3>2. Whole(marker) /\ Whole(meta) /\ Whole(box)
      BY <1>4, <1>6
    <3> QED BY ONLY <3>1, <3>2, Three
  <2> HIDE DEF head
  <2> QED BY <1>4, <1>6, <2>1
<1>8. Written(head) = <<>>
  <2>1. <<>> \in Seq(Tokens)
    OBVIOUS
  <2>2. <<>> \o <<>> = <<>>
    BY <2>1, ConcatEmptySeq
  <2> HIDE DEF head
  <2> QED BY <1>7, <2>2
<1> HIDE DEF head
<1>9. /\ Written(head \o h \o close) = Written(head) \o Written(h) \o Written(close)
      /\ Whole(h) => Whole(head \o h \o close)
  BY <1>2, <1>6, <1>7, Three
<1>10. Written(h) \in Seq(Tokens)
  BY WrittenIsTyped
<1>11. <<>> \o Written(h) = Written(h) /\ Written(h) \o <<>> = Written(h)
  BY <1>10, ConcatEmptySeq
<1> QED BY <1>5, <1>6, <1>8, <1>9, <1>11

LEMMA PlacesOf ==
  ASSUME NEW b \in Seq(Tokens), NEW k
  PROVE  Places(b, k) = {i \in 1..Len(b) : b[i].is = k}
  BY DEF Places

LEMMA BlockIs ==
  ASSUME NEW b \in Seq(Tokens), Whole(b), Has(b, "start")
  PROVE  LET s == First(Places(b, "start"))
         IN  /\ s \in 1..Len(b) /\ s + 2 \in 1..Len(b)
             /\ b[s].is = "start" /\ b[s + 1].is = "meta" /\ b[s + 2].is = "end"
             /\ First(EndsAfter(b, s)) = s + 2
             /\ Lacks(SubSeq(b, 1, s - 1), "start")
<1> DEFINE s == First(Places(b, "start"))
<1>1. Places(b, "start") = {i \in 1..Len(b) : b[i].is = "start"} /\ Len(b) \in Nat
      /\ Places(b, "end") = {i \in 1..Len(b) : b[i].is = "end"}
  BY PlacesOf
<1>2. s \in Places(b, "start") /\ \A j \in Places(b, "start") : s <= j
  <2>1. Places(b, "start") \subseteq Nat /\ Places(b, "start") # {}
    BY <1>1 DEF Has
  <2> QED BY <2>1, FirstIsLeast
<1> HIDE DEF s
<1>3. s \in 1..Len(b) /\ b[s].is = "start"
  BY <1>1, <1>2
<1>4. s + 2 \in 1..Len(b) /\ b[s + 1].is = "meta" /\ b[s + 2].is = "end"
  BY <1>3 DEF Whole
<1>5. First(EndsAfter(b, s)) = s + 2
  <2> DEFINE S == EndsAfter(b, s)
             e == s + 2
  <2>1. S = {i \in 1..Len(b) : b[i].is = "end" /\ i > s}
    BY <1>1 DEF EndsAfter
  <2>2. S \subseteq Nat /\ e \in S
    BY <1>1, <1>3, <1>4, <2>1
  <2>3. ASSUME NEW j \in S PROVE e <= j
    <3>1. j \in 1..Len(b) /\ b[j].is = "end" /\ j > s
      BY <2>1
    <3>2. j # s + 1
      BY <1>4, <3>1
    <3> QED BY <1>1, <1>3, <3>1, <3>2
  <2> HIDE DEF S, e
  <2>4. First(S) = e
    BY <2>2, <2>3, LeastIsFirst
  <2> QED BY <2>4 DEF S, e
<1>6. Lacks(SubSeq(b, 1, s - 1), "start")
  <2> DEFINE c == SubSeq(b, 1, s - 1)
  <2>1. 1 \in 1..(Len(b) + 1) /\ s - 1 \in 0..Len(b) /\ s \in Nat
    BY <1>1, <1>3
  <2>2. /\ c \in Seq(Tokens) /\ Len(c) = IF 1 <= s - 1 THEN (s - 1) - 1 + 1 ELSE 0
        /\ \A i \in 1..Len(c) : c[i] = b[1 + i - 1] /\ 1 + i - 1 \in 1..Len(b)
    BY <2>1, Part
  <2> HIDE DEF c
  <2>3. ASSUME NEW i \in 1..Len(c), c[i].is = "start" PROVE FALSE
    <3>1. i \in 1..Len(b) /\ c[i] = b[i] /\ i < s
      BY <2>1, <2>2
    <3>2. i \in Places(b, "start")
      BY <1>1, <2>3, <3>1
    <3> QED BY <1>2, <2>1, <3>1, <3>2
  <2> QED BY <2>3 DEF Lacks, c
<1> QED BY <1>3, <1>4, <1>5, <1>6 DEF s

LEMMA ReplacedKeeps ==
  ASSUME NEW v \in Pushes, NEW b \in Seq(Tokens), Whole(b), Has(b, "start")
  PROVE  /\ Written(ReplaceMetadata(v, b)) = Written(b)
         /\ Whole(ReplaceMetadata(v, b))
<1> DEFINE s == First(Places(b, "start"))
           e == s + 2
           P == SubSeq(b, 1, s - 1)
           M == SubSeq(b, s, e)
           R == SubSeq(b, e + 1, Len(b))
           N == RenderMetadata(v)
<1>1. /\ s \in 1..Len(b) /\ e \in 1..Len(b)
      /\ b[s].is = "start" /\ b[s + 1].is = "meta" /\ b[e].is = "end"
      /\ First(EndsAfter(b, s)) = e /\ Lacks(P, "start")
  BY BlockIs
<1>2. ReplaceMetadata(v, b) = P \o N \o R
  BY <1>1 DEF ReplaceMetadata
<1> HIDE DEF s
<1>3. Len(b) \in Nat /\ s \in Nat /\ s - 1 \in 0..Len(b) /\ e + 1 \in 1..(Len(b) + 1)
      /\ 1 \in 1..(Len(b) + 1) /\ s \in 1..(Len(b) + 1) /\ e \in 0..Len(b)
  BY <1>1
<1>4. P \in Seq(Tokens) /\ Whole(P)
  BY <1>1, <1>3, StartWhole
<1>5. R \in Seq(Tokens) /\ Whole(R)
  BY <1>3, RestWhole
<1>6. N \in Seq(Tokens) /\ Whole(N) /\ Written(N) = <<>>
  BY MetadataIs, MetadataWhole
<1>7. M \in Seq(Tokens) /\ Written(M) = <<>>
  <2>1. /\ M \in Seq(Tokens) /\ Len(M) = IF s <= e THEN e - s + 1 ELSE 0
        /\ \A i \in 1..Len(M) : M[i] = b[s + i - 1] /\ s + i - 1 \in 1..Len(b)
    BY <1>3, Part
  <2> HIDE DEF M
  <2>2. ASSUME NEW i \in 1..Len(M) PROVE M[i].is \notin ByPeople
    <3>1. M[i] = b[s + i - 1] /\ (s + i - 1 = s \/ s + i - 1 = s + 1 \/ s + i - 1 = e)
      BY <1>3, <2>1
    <3> QED BY <1>1, <3>1 DEF ByPeople
  <2> QED BY <2>1, <2>2, NothingWritten
<1>8. b = P \o M \o R
  <2>1. P \o SubSeq(b, (s - 1) + 1, e) = SubSeq(b, 1, e)
    <3>1. s - 1 \in (1 - 1)..Len(b) /\ e \in (s - 1)..Len(b)
      BY <1>1, <1>3
    <3> QED BY <1>3, <3>1, ConcatAdjacentSubSeq
  <2>2. SubSeq(b, 1, e) \o R = SubSeq(b, 1, Len(b))
    <3>1. e \in (1 - 1)..Len(b) /\ Len(b) \in e..Len(b)
      BY <1>1, <1>3
    <3> QED BY <1>3, <3>1, ConcatAdjacentSubSeq
  <2>3. SubSeq(b, 1, Len(b)) = b
    BY SubSeqFull
  <2>4. (s - 1) + 1 = s
    BY <1>3
  <2> QED BY <2>1, <2>2, <2>3, <2>4
<1> HIDE DEF P, M, R, N
<1>9. Written(P \o M \o R) = Written(P \o N \o R) /\ Whole(P \o N \o R)
  <2>1. Written(P \o M \o R) = Written(P) \o Written(M) \o Written(R)
    BY <1>4, <1>5, <1>7, Three
  <2>2. /\ Written(P \o N \o R) = Written(P) \o Written(N) \o Written(R)
        /\ Whole(P \o N \o R)
    BY <1>4, <1>5, <1>6, Three
  <2> QED BY <1>6, <1>7, <2>1, <2>2
<1> QED BY <1>2, <1>8, <1>9

LEMMA HistoryWithoutStart ==
  ASSUME NEW b \in Seq(Tokens), Lacks(b, "start"), HistoryIsThere(b)
  PROVE  History(b) \in Seq(Tokens) /\ Lacks(History(b), "start")
<1> DEFINE f == First(Places(b, "open"))
           l == Last(Places(b, "close"))
<1>1. f \in Places(b, "open") /\ l \in Places(b, "close")
  BY PlacesAre, FirstIsThere, LastIsThere DEF HistoryIsThere, Has
<1> HIDE DEF f, l
<1>2. f \in 1..Len(b) /\ l \in 1..Len(b) /\ Len(b) \in Nat
  BY <1>1, PlacesAre
<1>3. f + 1 \in 1..(Len(b) + 1) /\ l - 1 \in 0..Len(b)
  BY <1>2
<1>4. Lacks(SubSeq(b, f + 1, l - 1), "start")
  BY <1>3, Part DEF Lacks
<1> QED BY <1>3, <1>4, Part DEF History, f, l

(* What the tool makes of a whole body is whole; what people wrote in it   *)
(* stands but where an old surface is taken apart for its history.         *)
LEMMA SynchronizedKeeps ==
  ASSUME NEW v \in Pushes, NEW b \in Seq(Tokens), Whole(b), Synchronizable(b)
  PROVE  /\ Whole(Synchronized(v, b))
         /\ (Has(b, "marker") => Delimited(b)) => Written(Synchronized(v, b)) = Written(b)
<1>1. CASE ~Has(b, "marker")
  BY <1>1, RenderedKeeps DEF Synchronized
<1>2. CASE Has(b, "marker") /\ Delimited(b)
  BY <1>2, ReplacedKeeps DEF Synchronized, Delimited
<1>3. CASE Has(b, "marker") /\ ~Delimited(b)
  <2>1. Synchronized(v, b) = RenderBody(v, History(b))
    BY <1>3 DEF Synchronized
  <2>2. Lacks(b, "start")
    <3>1. ~Has(b, "start")
      <4> SUFFICES ASSUME Has(b, "start") PROVE FALSE
        OBVIOUS
      <4> DEFINE e == First(Places(b, "start")) + 2
      <4>1. e \in 1..Len(b) /\ b[e].is = "end"
        BY BlockIs
      <4> HIDE DEF e
      <4>2. e \in Places(b, "end")
        BY <4>1, PlacesOf
      <4> QED BY <1>3, <4>2 DEF Delimited, Has
    <3> QED BY <3>1, PlacesOf DEF Has, Lacks
  <2>3. History(b) \in Seq(Tokens) /\ Lacks(History(b), "start")
    <3>1. HistoryIsThere(b)
      BY <1>3 DEF Synchronizable
    <3> QED BY <2>2, <3>1, HistoryWithoutStart
  <2> QED BY <1>3, <2>1, <2>3, LacksWhole, RenderedKeeps
<1> QED BY <1>1, <1>2, <1>3

(***************************************************************************)
(* People tick boxes and write below a block, or at the end.               *)
(***************************************************************************)
LEMMA TickedWhole ==
  ASSUME NEW b \in Seq(Tokens), Whole(b), NEW k \in Places(b, "box")
  PROVE  Whole([b EXCEPT ![k] = T("checked")])
<1> DEFINE c == [b EXCEPT ![k] = T("checked")]
<1>1. k \in 1..Len(b) /\ b[k].is = "box" /\ Len(b) \in Nat
  BY PlacesAre
<1>2. T("checked") \in Tokens /\ T("checked").is = "checked"
  BY TokenIs DEF Kinds
<1>3. Len(c) = Len(b) /\ \A i \in 1..Len(b) : c[i] = IF i = k THEN T("checked") ELSE b[i]
  BY <1>1, <1>2
<1> HIDE DEF c
<1>4. ASSUME NEW i \in 1..Len(c), c[i].is = "start"
      PROVE  i + 2 \in 1..Len(c) /\ c[i + 1].is = "meta" /\ c[i + 2].is = "end"
  <2>1. i \in 1..Len(b) /\ b[i].is = "start"
    BY <1>2, <1>3, <1>4
  <2>2. i + 2 \in 1..Len(b) /\ b[i + 1].is = "meta" /\ b[i + 2].is = "end"
    BY <2>1 DEF Whole
  <2>3. i + 1 \in 1..Len(b) /\ i + 1 # k /\ i + 2 # k
    BY <1>1, <2>1, <2>2
  <2> QED BY <1>3, <2>2, <2>3
<1> QED BY <1>4 DEF Whole, c

LEMMA NotedWhole ==
  ASSUME NEW b \in Seq(Tokens), Whole(b), NEW k \in DOMAIN b,
         b[k].is = "end" \/ k = Len(b)
  PROVE  Whole(SubSeq(b, 1, k) \o <<T("note")>> \o SubSeq(b, k + 1, Len(b)))
<1> DEFINE left == SubSeq(b, 1, k)
           note == <<T("note")>>
           right == SubSeq(b, k + 1, Len(b))
<1>1. T("note") \in Tokens /\ T("note").is = "note"
  BY TokenIs DEF Kinds
<1>2. note \in Seq(Tokens) /\ Lacks(note, "start")
  BY <1>1 DEF Lacks
<1>3. k \in 0..Len(b) /\ k \in 1..Len(b) /\ k + 1 \in 1..(Len(b) + 1)
  OBVIOUS
<1>4. left \in Seq(Tokens) /\ Whole(left)
  BY <1>3, StartWhole
<1>5. right \in Seq(Tokens) /\ Whole(right)
  BY <1>3, RestWhole
<1> HIDE DEF left, note, right
<1>6. Whole(note)
  BY <1>2, LacksWhole
<1>7. Whole(left \o note \o right)
  BY ONLY <1>2, <1>4, <1>5, <1>6, Three
<1> QED BY <1>7 DEF left, note, right

-----------------------------------------------------------------------------
(***************************************************************************)
(* The invariant: the block of an issue nobody damaged is whole, in what a *)
(* PATCH is made of too; and that is the issue as it is unless somebody    *)
(* edited it since the GET.                                                *)
(***************************************************************************)
Blocks ==
  /\ \A i \in Issues \ damaged : Whole(issue[i].body)
  /\ pc = "patch" => /\ at \notin damaged => Whole(read.body)
                     /\ at \notin touched => read = issue[at]

LEMMA BlocksFirst == ASSUME Init PROVE Blocks
<1>1. \A i \in Issues : issue[i] \in [titled : {FALSE}, body : {Unmigrated, LegacyBody},
                                       labels : {{"other"}}]
  BY DEF Init
<1>2. \A i \in Issues : issue[i].body \in {Unmigrated, LegacyBody}
  BY <1>1
<1>3. /\ T("marker").is = "marker" /\ T("old").is = "old"
      /\ T("open").is = "open" /\ T("close").is = "close"
  BY TokenIs DEF Kinds, Delimiter
<1>4. Whole(Unmigrated) /\ Whole(LegacyBody)
  BY <1>3 DEF Whole, Unmigrated, LegacyBody
<1>5. pc = "idle"
  BY DEF Init
<1> QED BY <1>2, <1>4, <1>5 DEF Blocks

LEMMA BlocksStay ==
  ASSUME Blocks, UNCHANGED <<issue, damaged>>,
         pc' # "patch" \/ UNCHANGED <<pc, at, read, touched>>
  PROVE  Blocks'
  BY DEF Blocks

LEMMA FetchBlocks == ASSUME Inv, Blocks, FetchIssue PROVE Blocks'
<1> DEFINE it == issue[at]
           v  == Version(job, at)
<1>1. pc = "fetch" /\ at \in Issues /\ UNCHANGED <<issue, damaged>>
  BY DEF FetchIssue
<1>2. \/ NextIssue(TRUE) \/ NextIssue(failed)
      \/ read' = it /\ pc' = "patch" /\ UNCHANGED <<job, at, failed>>
  <2>1. CASE ~Synchronizable(it.body)
    BY <2>1 DEF FetchIssue
  <2>2. CASE Synchronizable(it.body) /\ Desired(v, it) = it
    BY <2>2 DEF FetchIssue
  <2>3. CASE Synchronizable(it.body) /\ Desired(v, it) # it
    BY <2>3 DEF FetchIssue
  <2> QED BY <2>1, <2>2, <2>3
<1>3. CASE NextIssue(TRUE) \/ NextIssue(failed)
  BY <1>1, <1>3, BlocksStay DEF NextIssue
<1>4. CASE read' = it /\ pc' = "patch" /\ UNCHANGED <<job, at, failed>>
  BY <1>1, <1>4 DEF Blocks
<1> QED BY <1>2, <1>3, <1>4

Patches == pc = "patch" /\ issue' = [issue EXCEPT ![at] = Desired(Version(job, at), read)]

LEMMA PatchBlocks ==
  ASSUME Inv, Blocks, Patches, pc' # "patch", UNCHANGED damaged
  PROVE  Blocks'
<1> DEFINE b == read.body
           v == Version(job, at)
<1>1. /\ read \in Surfaces /\ Synchronizable(b) /\ at \in Issues /\ v \in Pushes
      /\ issue \in [Issues -> Surfaces]
  BY VersionIsAPush DEF Inv, TypeOK, ReadIsSound, Patches
<1>2. b \in Seq(Tokens)
  BY <1>1 DEF Surfaces
<1>3. issue'[at].body = Synchronized(v, b)
  BY <1>1 DEF Patches, Desired
<1> HIDE DEF b, v
<1>4. ASSUME NEW i \in Issues \ damaged PROVE Whole(issue'[i].body)
  <2>1. CASE i = at
    <3>1. Whole(b)
      BY <2>1, <1>4 DEF Blocks, Patches, b
    <3> QED BY <1>1, <1>2, <1>3, <2>1, <3>1, SynchronizedKeeps
  <2>2. CASE i # at
    <3>1. issue'[i] = issue[i]
      BY <1>1, <2>2 DEF Patches
    <3> QED BY <3>1 DEF Blocks
  <2> QED BY <2>1, <2>2
<1> QED BY <1>4 DEF Blocks

LEMMA FailureBlocks == ASSUME Inv, Blocks, PatchIssue \/ RequestFails PROVE Blocks'
<1>1. pc' = "fetch" /\ UNCHANGED damaged /\ (Patches \/ UNCHANGED issue)
  BY DEF PatchIssue, RequestFails, NextIssue, Patches
<1> QED BY <1>1, PatchBlocks, BlocksStay

LEMMA EditBlocks ==
  ASSUME Inv, Blocks, NEW i \in Issues, NEW it, Edit(i, it), damaged \subseteq damaged',
         i \notin damaged' => Whole(it.body)
  PROVE  Blocks'
<1>1. /\ issue' = [issue EXCEPT ![i] = it] /\ touched' = touched \cup {i}
      /\ UNCHANGED <<pc, at, read>> /\ issue \in [Issues -> Surfaces]
  BY DEF Edit, worker, Inv, TypeOK
<1>2. \A j \in Issues : issue'[j] = IF j = i THEN it ELSE issue[j]
  BY <1>1
<1>3. \A j \in Issues \ damaged' : Whole(issue'[j].body)
  BY <1>2 DEF Blocks
<1>4. pc = "patch" => at \in Issues
  BY DEF Inv, ReadIsSound
<1>5. pc' = "patch" => /\ at' \notin damaged' => Whole(read'.body)
                       /\ at' \notin touched' => read' = issue'[at']
  BY <1>1, <1>2, <1>4 DEF Blocks
<1> QED BY <1>3, <1>5 DEF Blocks

LEMMA PersonBlocks ==
  ASSUME Inv, Blocks, NEW i \in Issues,
         CheckBox(i) \/ AddNote(i) \/ EditHeader(i) \/ RemoveDelimiter(i)
  PROVE  Blocks'
<1> DEFINE r == issue[i]
           b == r.body
<1>1. r \in Surfaces /\ b \in Seq(Tokens) /\ (i \notin damaged => Whole(b))
  BY DEF Inv, TypeOK, Blocks, Surfaces
<1>2. \A c : [r EXCEPT !.body = c].body = c
  BY <1>1 DEF Surfaces
<1>3. CASE CheckBox(i)
  <2>1. PICK k \in Places(b, "box") : Edit(i, [r EXCEPT !.body[k] = T("checked")])
    BY <1>3 DEF CheckBox
  <2> DEFINE c == [b EXCEPT ![k] = T("checked")]
  <2>2. [r EXCEPT !.body[k] = T("checked")] = [r EXCEPT !.body = c]
    BY <1>1 DEF Surfaces
  <2>3. UNCHANGED damaged /\ (i \notin damaged => Whole(c))
    BY <1>1, <1>3, TickedWhole DEF CheckBox
  <2> HIDE DEF c, r
  <2> QED BY <1>2, <2>1, <2>2, <2>3, EditBlocks
<1>4. CASE AddNote(i)
  <2>1. PICK k \in DOMAIN b : /\ b[k].is = "end" \/ k = Len(b)
                              /\ Edit(i, [r EXCEPT !.body =
                                   SubSeq(b, 1, k) \o << T("note") >>
                                     \o SubSeq(b, k + 1, Len(b))])
    BY <1>4 DEF AddNote
  <2> DEFINE c == SubSeq(b, 1, k) \o << T("note") >> \o SubSeq(b, k + 1, Len(b))
  <2>2. UNCHANGED damaged /\ (i \notin damaged => Whole(c))
    BY <1>1, <1>4, <2>1, NotedWhole DEF AddNote
  <2>3. Edit(i, [r EXCEPT !.body = c])
    BY <2>1
  <2> HIDE DEF c, r
  <2> QED BY <1>2, <2>2, <2>3, EditBlocks
<1>5. CASE EditHeader(i)
  <2>1. UNCHANGED damaged
    BY <1>5 DEF EditHeader
  <2>2. PICK l, it : Edit(i, it) /\ it \in {[r EXCEPT !.titled = FALSE], [r EXCEPT !.labels = @ \ {l}]}
    BY <1>5 DEF EditHeader
  <2>3. it.body = b
    BY <1>1, <2>2 DEF Surfaces
  <2> QED BY <1>1, <2>1, <2>2, <2>3, EditBlocks
<1>6. CASE RemoveDelimiter(i)
  <2>1. PICK it : Edit(i, it)
    BY <1>6 DEF RemoveDelimiter
  <2>2. damaged' = damaged \cup {i}
    BY <1>6 DEF RemoveDelimiter
  <2> QED BY <2>1, <2>2, EditBlocks
<1> QED BY <1>3, <1>4, <1>5, <1>6

LEMMA Blocked == ASSUME Inv, Blocks, [Next]_vars PROVE Blocks'
<1>1. \A i \in Edited : i \in Issues
  BY EditedAssumption DEF Issues
<1>2. ASSUME NEW d \in Issues, Push(d) PROVE Blocks'
  BY <1>2, BlocksStay DEF Push, worker
<1>3. CASE Dispatch
  BY <1>3, BlocksStay DEF Dispatch, worker
<1>4. ASSUME NEW n \in Pushes, Validated(n) \/ ValidationFails(n) PROVE Blocks'
  BY <1>4, BlocksStay DEF Validated, ValidationFails, worker
<1>5. CASE StartJob
  BY <1>5, BlocksStay DEF StartJob
<1>6. CASE EnsureLabels
  BY <1>6, BlocksStay DEF EnsureLabels
<1>7. CASE Abort \/ Finish
  BY <1>7, BlocksStay DEF Abort, Finish, EndJob
<1>8. CASE UNCHANGED vars
  BY <1>8, BlocksStay DEF vars, worker
<1> QED BY <1>1, <1>2, <1>3, <1>4, <1>5, <1>6, <1>7, <1>8, FetchBlocks, FailureBlocks, PersonBlocks
        DEF Next, JobStep

(* What a PATCH keeps, of an issue that is as it was when it was fetched.  *)
LEMMA PatchLeaves ==
  ASSUME Inv, Blocks, Patches, NEW i \in Issues \ (touched \cup damaged),
         issue'[i] # issue[i], Has(issue[i].body, "marker") => Delimited(issue[i].body)
  PROVE  /\ Written(issue'[i].body) = Written(issue[i].body)
         /\ issue[i].labels \subseteq issue'[i].labels
<1> DEFINE b == read.body
           v == Version(job, at)
<1>1. /\ read \in Surfaces /\ Synchronizable(b) /\ at \in Issues /\ v \in Pushes
      /\ issue \in [Issues -> Surfaces]
  BY VersionIsAPush DEF Inv, TypeOK, ReadIsSound, Patches
<1>2. i = at
  BY <1>1 DEF Patches
<1>3. read = issue[i] /\ Whole(b) /\ b \in Seq(Tokens)
  BY <1>1, <1>2 DEF Blocks, Patches, Surfaces
<1>4. issue'[i].body = Synchronized(v, b) /\ issue'[i].labels = read.labels \cup {"review"}
  BY <1>1, <1>2 DEF Patches, Desired
<1> HIDE DEF v
<1>5. Written(Synchronized(v, b)) = Written(b)
  BY <1>1, <1>3, SynchronizedKeeps
<1> QED BY <1>3, <1>4, <1>5

Survives ==
  \A i \in Issues \ (touched \cup damaged) :
    (issue'[i] # issue[i] /\ touched' = touched
       /\ (Has(issue[i].body, "marker") => Delimited(issue[i].body)))
    => /\ Written(issue'[i].body) = Written(issue[i].body)
       /\ issue[i].labels \subseteq issue'[i].labels

LEMMA PersonTouches ==
  ASSUME Inv, NEW j \in Issues,
         CheckBox(j) \/ AddNote(j) \/ EditHeader(j) \/ RemoveDelimiter(j)
  PROVE  Survives
<1>1. PICK it : Edit(j, it)
  BY DEF CheckBox, AddNote, EditHeader, RemoveDelimiter
<1>2. \A i \in Issues : i # j => issue'[i] = issue[i]
  BY <1>1 DEF Edit, Inv, TypeOK
<1>3. j \in touched'
  BY <1>1 DEF Edit
<1> QED BY <1>2, <1>3 DEF Survives

LEMMA StepSurvives == ASSUME Inv, Blocks, [Next]_vars PROVE Survives
<1>1. \A i \in Edited : i \in Issues
  BY EditedAssumption DEF Issues
<1>2. CASE UNCHANGED issue
  BY <1>2 DEF Survives
<1>3. CASE Patches
  BY <1>3, PatchLeaves DEF Survives
<1>4. ASSUME NEW j \in Edited,
             CheckBox(j) \/ AddNote(j) \/ EditHeader(j) \/ RemoveDelimiter(j)
      PROVE  Survives
  BY <1>1, <1>4, PersonTouches
<1>5. ASSUME \/ \E d \in Issues : Push(d)
             \/ \E n \in Pushes : Validated(n) \/ ValidationFails(n)
             \/ Dispatch \/ StartJob \/ EnsureLabels \/ FetchIssue \/ Abort \/ Finish
             \/ UNCHANGED vars
      PROVE  UNCHANGED issue
  BY <1>5 DEF Push, Validated, ValidationFails, Dispatch, StartJob, EnsureLabels, FetchIssue,
              Abort, Finish, vars
<1>6. ASSUME PatchIssue \/ RequestFails PROVE Patches \/ UNCHANGED issue
  BY <1>6 DEF PatchIssue, RequestFails, Patches
<1> QED BY <1>2, <1>3, <1>4, <1>5, <1>6 DEF Next, JobStep

(* EditsSurvived: for any number of issues, pushes, edits and failures,    *)
(* what people wrote in an issue nobody damaged, and its labels, stand     *)
(* after a PATCH made of the issue as it was.                              *)
THEOREM EditsSurvived == Spec => EditsSurvive
<1>1. Inv /\ Blocks /\ [Next]_vars => Blocks'
  BY Blocked
<1>2. Inv /\ Blocks /\ [Next]_vars => [Survives]_vars
  BY StepSurvives
<1>3. Spec => [][Survives]_vars
  BY <1>1, <1>2, BlocksFirst, Invariance, PTL DEF Spec
<1> QED BY <1>3 DEF EditsSurvive, Survives

=============================================================================
