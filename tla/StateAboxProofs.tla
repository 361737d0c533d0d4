--------------------------- MODULE StateAboxProofs ---------------------------
(***************************************************************************)
(* Proofs about StateAbox, for every number of States, of edits and of     *)
(* runs cut short.                                                         *)
(***************************************************************************)
EXTENDS StateAbox, FiniteSetTheorems, TLAPS

Contents == Records \cup {None, Torn}

Items == [file : States, content : Records] \cup [file : {0}, content : Manifests]

Befores ==
  [record : [States -> Contents], manifest : Manifests \cup {None}, full : BOOLEAN,
   synthetic : SUBSET States, disturbed : BOOLEAN]

Typed ==
  /\ dossier \in [States -> Projections]
  /\ record \in [States -> Contents]
  /\ manifest \in Manifests \cup {None, Torn}
  /\ pc \in {"idle", "write", "fill"}
  /\ writes \in Seq(Items)
  /\ pc = "idle" => writes = <<>>
  /\ pc = "fill" => writes # <<>>
  /\ before \in Befores \cup {None}
  /\ pc # "idle" => before \in Befores
  /\ exit \in {0, 2}
  /\ synthetic \subseteq States
  /\ disturbed \in BOOLEAN /\ settled \in BOOLEAN
  /\ edits \in 0..MaxEdits /\ crashes \in 0..MaxCrashes

(***************************************************************************)
(* A file is torn by a run that is writing it or was killed.               *)
(***************************************************************************)
TornByCrash ==
  crashes = 0 =>
    /\ \A d \in States : record[d] = Torn => pc = "fill" /\ Head(writes).file = d
    /\ manifest = Torn => pc = "fill" /\ Head(writes).file = 0
    /\ pc = "idle" => before = None

(***************************************************************************)
(* A run writes each file once, the manifest last.                         *)
(***************************************************************************)
Pending(f) == \E i \in 1..Len(writes) : writes[i].file = f

Ordered ==
  \A i, j \in 1..Len(writes) :
    i < j => writes[i].file # 0 /\ writes[i].file # writes[j].file

(***************************************************************************)
(* The records R and the manifest M are what the run leaves if it ends.    *)
(***************************************************************************)
Leads(R, M) ==
  /\ \A i \in 1..Len(writes) :
       writes[i].content = IF writes[i].file = 0 THEN M ELSE R[writes[i].file]
  /\ \A d \in States : ~Pending(d) => record[d] = R[d]
  /\ ~Pending(0) => manifest = M

(***************************************************************************)
(* Records rec and manifest man agree on what was generated.               *)
(***************************************************************************)
Agree(rec, man) ==
  \/ man = None
  \/ /\ man \in Manifests
     /\ \A d \in States : man.hash[d] # None => rec[d] \in Records /\ Owned(rec[d]) = man.hash[d]

(***************************************************************************)
(* A due date that v1 invented can still be told from the manifest.        *)
(***************************************************************************)
Recognised(r, h) ==
  r \in Records /\ r.class = "manual" /\ ~r.reason /\ r.due = h.rev + 1

Traced(rec, man, syn) ==
  \A d \in syn :
    \/ man = Torn
    \/ /\ man \in Manifests
       /\ man.legacy
       /\ man.hash[d] # None
       /\ rec[d] = Torn \/ Recognised(rec[d], man.hash[d])

(***************************************************************************)
(* Records and manifest are what the dossiers say, so that a full run      *)
(* finds nothing to do.                                                    *)
(***************************************************************************)
Current(rec, man) ==
  /\ man \in Manifests /\ ~man.legacy
  /\ \A d \in States :
       /\ rec[d] \in Records
       /\ Owned(rec[d]) = dossier[d] /\ man.hash[d] = dossier[d]
       /\ rec[d].due = None => rec[d].class = "manual"
       /\ rec[d].due # None => ~(rec[d].due < dossier[d].rev)

(***************************************************************************)
(* What the run is about to write of a State is what it found, merged.     *)
(***************************************************************************)
HashBefore(d) == IF before.manifest = None THEN None ELSE before.manifest.hash[d]

Faithful(R) ==
  \A d \in States : Pending(d) =>
    /\ before.record[d] \in Records /\ HashBefore(d) # None =>
         Owned(before.record[d]) = HashBefore(d)
    /\ before.record[d] # None =>
         Keeps(R[d], before.record[d], HashBefore(d),
               before.manifest # None /\ before.manifest.legacy)

Goal(R, M) ==
  /\ ~disturbed => Agree(R, M)
  /\ before.full => Current(R, M)
  /\ \A d \in synthetic : Pending(d) => R[d].due = None
  /\ Traced(R, M, {d \in synthetic : ~Pending(d)})
  /\ Faithful(R)

InProgress ==
  pc # "idle" =>
    \E R \in [States -> Contents], M \in Manifests : Leads(R, M) /\ Goal(R, M)

AtRest ==
  /\ pc = "idle" /\ ~disturbed => Agree(record, manifest)
  /\ Traced(record, manifest, synthetic)
  /\ before # None => /\ before.disturbed \/ Agree(before.record, before.manifest)
                      /\ Traced(before.record, before.manifest, before.synthetic)
  /\ settled => Current(record, manifest) /\ writes = <<>>

Generated == Typed /\ TornByCrash /\ Ordered /\ InProgress /\ AtRest

-----------------------------------------------------------------------------
(***************************************************************************)
(* Sequences of writes.                                                    *)
(***************************************************************************)

(* An increasing list of a set of States has each of them once.            *)
LEMMA InOrderCovers ==
  ASSUME NEW S \in SUBSET States, NEW f \in InOrder(S)
  PROVE  /\ f \in Seq(S) /\ Len(f) = Cardinality(S) /\ DOMAIN f = 1..Len(f)
         /\ \A i, j \in 1..Len(f) : i < j => f[i] # f[j]
         /\ \A d \in S : \E i \in 1..Len(f) : f[i] = d
<1> DEFINE n == Cardinality(S)
           T == {f[i] : i \in 1..n}
<1>1. IsFiniteSet(S) /\ n \in Nat
  <2>1. NumStates \in Nat
    BY SizesAssumption
  <2>2. IsFiniteSet(1..NumStates)
    BY <2>1, FS_Interval
  <2> QED BY <2>2, FS_Subset, FS_CardinalityType DEF States
<1>2. f \in [1..n -> S] /\ \A i, j \in 1..n : i < j => f[i] < f[j]
  BY DEF InOrder
<1>3. \A i, j \in 1..n : i < j => f[i] # f[j]
  <2> SUFFICES ASSUME NEW i \in 1..n, NEW j \in 1..n, i < j PROVE f[i] # f[j]
    OBVIOUS
  <2>1. f[i] \in S /\ f[j] \in S /\ f[i] < f[j]
    BY <1>2
  <2>2. NumStates \in Nat
    BY SizesAssumption
  <2>3. \A d \in S : d \in Nat
    BY <2>2 DEF States
  <2> QED BY <2>1, <2>3
<1>4. T = S
  <2>1. T \subseteq S
    BY <1>2
  <2>2. f \in Injection(1..n, T)
    <3>1. f \in [1..n -> T]
      BY <1>2
    <3>2. \A i, j \in 1..n : f[i] = f[j] => i = j
      BY <1>1, <1>3
    <3> QED BY <3>1, <3>2 DEF Injection, IsInjective
  <2>3. IsFiniteSet(T)
    <3> HIDE DEF T
    <3> QED BY <1>1, <2>1, FS_Subset
  <2>4. IsFiniteSet(1..n) /\ Cardinality(1..n) = n
    <3> HIDE DEF n
    <3> QED BY <1>1, FS_Interval
  <2>5. f \in Surjection(1..n, T)
    BY <1>2 DEF Surjection
  <2>6. Cardinality(T) = n
    <3> HIDE DEF T
    <3> QED BY <2>2, <2>4, <2>5, FS_Surjection
  <2> HIDE DEF T
  <2> QED BY <1>1, <2>1, <2>6, FS_Subset
<1>5. f \in Seq(S) /\ Len(f) = n /\ DOMAIN f = 1..n
  BY <1>1, <1>2
<1> QED BY <1>3, <1>4, <1>5

-----------------------------------------------------------------------------
(***************************************************************************)
(* merge, and what a run that starts sets out to leave.                    *)
(***************************************************************************)
LEMMA HashTypes ==
  ASSUME Typed, manifest # Torn, NEW d \in States
  PROVE  Hash(d) \in Projections \cup {None}
BY DEF Typed, Hash, Manifests

LEMMA MergedTypes ==
  ASSUME Typed, manifest # Torn, NEW d \in States, record[d] # Torn
  PROVE  /\ Merged(d) \in Records
         /\ Owned(Merged(d)) = dossier[d]
<1>1. dossier[d] \in Projections /\ record[d] \in Records \cup {None}
  BY DEF Typed, Contents
<1>2. dossier[d] = [name |-> dossier[d].name, rev |-> dossier[d].rev]
      /\ dossier[d].name \in Names /\ dossier[d].rev \in Dates
  BY <1>1 DEF Projections
<1>3. CASE record[d] = None
  BY <1>2, <1>3 DEF Merged, Records, Owned
<1>4. CASE record[d] \in Records
  <2>1. record[d] # None
    BY <1>4, MarksAssumption
  <2>2. record[d].name \in Names /\ record[d].aliases \in SUBSET Names
        /\ record[d].class \in {"manual", "hot"} /\ record[d].reason \in BOOLEAN
        /\ record[d].due \in 0..(MaxDate + 1) \cup {None}
    BY <1>4 DEF Records
  <2>3. (IF CleanupV1 /\ LooksSynthetic(d) THEN None ELSE record[d].due)
          \in 0..(MaxDate + 1) \cup {None}
    BY <2>2
  <2>4. record[d].aliases \cup (IF LegacyName(d) THEN {record[d].name} ELSE {}) \in SUBSET Names
    BY <2>2
  <2> QED BY <1>2, <2>1, <2>2, <2>3, <2>4 DEF Merged, Records, Owned
<1> QED BY <1>1, <1>3, <1>4

LEMMA SelectionTypes ==
  ASSUME NEW sel \in Selections
  PROVE  /\ sel.states \in SUBSET States /\ sel.partial \in BOOLEAN
         /\ ~sel.partial => sel.states = States
<1>1. CASE sel = [states |-> States, partial |-> FALSE]
  BY <1>1
<1>2. CASE \E d \in States : sel = [states |-> {d}, partial |-> TRUE]
  BY <1>2
<1> QED BY <1>1, <1>2 DEF Selections

LEMMA ManifestTypes ==
  ASSUME Typed, NEW sel \in Selections, Readable(sel)
  PROVE  /\ NextManifest(sel.states, sel.partial) \in Manifests
         /\ \A d \in sel.states : NextManifest(sel.states, sel.partial).hash[d] = dossier[d]
<1>1. manifest # Torn /\ sel.states \subseteq States /\ sel.partial \in BOOLEAN
  <2>1. sel.states \subseteq States /\ sel.partial \in BOOLEAN
    BY SelectionTypes
  <2> QED BY <2>1 DEF Readable
<1>2. \A d \in sel.states : Owned(Merged(d)) = dossier[d]
  BY <1>1, MergedTypes DEF Readable
<1>3. \A d \in States : dossier[d] \in Projections
  BY DEF Typed
<1>4. \A d \in States : Hash(d) \in Projections \cup {None}
  BY <1>1, HashTypes
<1>5. KeepLegacy(sel.partial) \in BOOLEAN
  BY <1>1 DEF KeepLegacy, CleanupV1, Manifests
<1> QED BY <1>1, <1>2, <1>3, <1>4, <1>5 DEF NextManifest, Manifests

LEMMA ListOfWrites ==
  ASSUME Typed, NEW sel \in Selections, Readable(sel),
         NEW M, M = NextManifest(sel.states, sel.partial),
         NEW list \in Writes(sel.states, sel.partial)
  PROVE  \E f \in InOrder(Changed(sel.states)) :
           /\ list \in Seq(Items)
           /\ Len(f) <= Len(list)
           /\ \A i \in 1..Len(f) : list[i] = [file |-> f[i], content |-> Merged(f[i])]
           /\ \/ Len(list) = Len(f) /\ M = manifest
              \/ Len(list) = Len(f) + 1 /\ M # manifest
                 /\ list[Len(f) + 1] = [file |-> 0, content |-> M]
<1> DEFINE S == Changed(sel.states)
<1>1. PICK f \in InOrder(S) :
        list = [i \in DOMAIN f |-> [file |-> f[i], content |-> Merged(f[i])]] \o ManifestWrites(M)
  BY DEF Writes
<1> DEFINE records == [i \in DOMAIN f |-> [file |-> f[i], content |-> Merged(f[i])]]
<1>2. S \in SUBSET States /\ S \subseteq sel.states
  BY DEF Changed, Selections
<1>3. f \in Seq(S) /\ DOMAIN f = 1..Len(f)
  BY <1>2, InOrderCovers
<1>4. \A d \in S : Merged(d) \in Records
  BY <1>2, MergedTypes DEF Readable
<1>5. records \in Seq(Items) /\ Len(records) = Len(f)
      /\ \A i \in 1..Len(f) : records[i] = [file |-> f[i], content |-> Merged(f[i])]
  <2>1. \A i \in 1..Len(f) : f[i] \in S
    BY <1>3
  <2>2. \A i \in 1..Len(f) : [file |-> f[i], content |-> Merged(f[i])] \in Items
    BY <1>2, <1>4, <2>1 DEF Items
  <2>3. Len(f) \in Nat
    BY <1>3
  <2> QED BY <1>3, <2>2, <2>3
<1>6. M \in Manifests
  BY ManifestTypes
<1>7. CASE M = manifest
  <2>1. list = records \o <<>>
    BY <1>1, <1>7 DEF ManifestWrites
  <2>2. list = records
    <3> HIDE DEF records
    <3> QED BY <1>5, <2>1
  <2> HIDE DEF records
  <2> QED BY <1>3, <1>5, <1>7, <2>2
<1>8. CASE M # manifest
  <2>1. PICK last : last = [file |-> 0, content |-> M]
    OBVIOUS
  <2>2. last \in Items
    BY <1>6, <2>1 DEF Items
  <2>3. list = records \o <<last>>
    BY <1>1, <1>8, <2>1 DEF ManifestWrites
  <2> HIDE DEF records
  <2>4. /\ list \in Seq(Items) /\ Len(list) = Len(f) + 1
        /\ \A i \in 1..Len(f) : list[i] = records[i]
        /\ list[Len(f) + 1] = last
    BY <1>3, <1>5, <2>2, <2>3
  <2>5. \A i \in 1..Len(f) : list[i] = [file |-> f[i], content |-> Merged(f[i])]
    BY <1>5, <2>4
  <2>6. Len(f) <= Len(list)
    BY <1>3, <2>4
  <2>7. list[Len(f) + 1] = [file |-> 0, content |-> M]
    BY <2>4, <2>1
  <2> QED BY <1>8, <2>4, <2>5, <2>6, <2>7, Zenon
<1> QED BY <1>7, <1>8

(***************************************************************************)
(* What StartRun sets out to leave, and how its list of writes leads there. *)
(***************************************************************************)
Intended(sel, R, M) ==
  /\ R = [d \in States |-> IF d \in sel.states THEN Merged(d) ELSE record[d]]
  /\ M = NextManifest(sel.states, sel.partial)

LEMMA IntendedTypes ==
  ASSUME Typed, NEW sel \in Selections, Readable(sel), NEW R, NEW M, Intended(sel, R, M)
  PROVE  R \in [States -> Contents] /\ M \in Manifests
<1>1. M \in Manifests
  BY ManifestTypes DEF Intended
<1>2. \A d \in sel.states : Merged(d) \in Records
  BY MergedTypes, SelectionTypes DEF Readable
<1>3. \A d \in States : record[d] \in Contents
  BY DEF Typed
<1> QED BY <1>1, <1>2, <1>3 DEF Intended, Contents

LEMMA StartLeads ==
  ASSUME Typed, NEW sel \in Selections, StartRun(sel), NEW R, NEW M, Intended(sel, R, M)
  PROVE  /\ writes' \in Seq(Items)
         /\ Ordered'
         /\ Leads(R, M)'
         /\ \A d \in States : Pending(d)' <=> d \in Changed(sel.states)
         /\ writes' = <<>> <=> Changed(sel.states) = {} /\ M = manifest
<1>1. Readable(sel) /\ writes' \in Writes(sel.states, sel.partial) /\ UNCHANGED files
  BY DEF StartRun, Accepted
<1>2. Changed(sel.states) \in SUBSET States /\ Changed(sel.states) \subseteq sel.states
  BY SelectionTypes DEF Changed
<1>3. PICK f \in InOrder(Changed(sel.states)) :
        /\ writes' \in Seq(Items)
        /\ Len(f) <= Len(writes')
        /\ \A i \in 1..Len(f) : writes'[i] = [file |-> f[i], content |-> Merged(f[i])]
        /\ \/ Len(writes') = Len(f) /\ M = manifest
           \/ Len(writes') = Len(f) + 1 /\ M # manifest
              /\ writes'[Len(f) + 1] = [file |-> 0, content |-> M]
  BY <1>1, ListOfWrites DEF Intended
<1>4. /\ f \in Seq(Changed(sel.states))
      /\ \A i, j \in 1..Len(f) : i < j => f[i] # f[j]
      /\ \A d \in Changed(sel.states) : \E i \in 1..Len(f) : f[i] = d
  BY <1>2, InOrderCovers
<1>5. \A i \in 1..Len(f) : f[i] \in Changed(sel.states) /\ f[i] # 0
  <2>1. 0 \notin States
    BY DEF States
  <2>2. \A i \in 1..Len(f) : f[i] \in Changed(sel.states)
    BY <1>4
  <2> QED BY <1>2, <2>1, <2>2
<1>6. Len(f) \in Nat /\ Len(writes') \in Nat
  BY <1>3, <1>4
<1>7. \A i \in 1..Len(writes') :
        \/ i \in 1..Len(f) /\ writes'[i].file = f[i] /\ writes'[i].content = Merged(f[i])
        \/ i = Len(f) + 1 /\ M # manifest /\ writes'[i].file = 0 /\ writes'[i].content = M
  <2> SUFFICES ASSUME NEW i \in 1..Len(writes')
               PROVE  \/ /\ i \in 1..Len(f)
                         /\ writes'[i].file = f[i] /\ writes'[i].content = Merged(f[i])
                      \/ /\ i = Len(f) + 1 /\ M # manifest
                         /\ writes'[i].file = 0 /\ writes'[i].content = M
    BY Zenon
  <2>1. i \in 1..Len(f) \/ (i = Len(f) + 1 /\ Len(writes') # Len(f))
    BY <1>3, <1>6
  <2>2. CASE i \in 1..Len(f)
    <3>1. writes'[i] = [file |-> f[i], content |-> Merged(f[i])]
      BY <1>3, <2>2
    <3> QED BY <2>2, <3>1
  <2>3. CASE i = Len(f) + 1 /\ Len(writes') # Len(f)
    <3>1. writes'[i] = [file |-> 0, content |-> M] /\ M # manifest
      BY <1>3, <2>3
    <3> QED BY <2>3, <3>1
  <2> QED BY <2>1, <2>2, <2>3
<1>8. \A i \in 1..Len(f) : R[f[i]] = Merged(f[i])
  BY <1>2, <1>5 DEF Intended
<1>9. Ordered'
  <2> SUFFICES ASSUME NEW i \in 1..Len(writes'), NEW j \in 1..Len(writes'), i < j
               PROVE  writes'[i].file # 0 /\ writes'[i].file # writes'[j].file
    BY DEF Ordered
  <2>1. i \in 1..Len(f) /\ writes'[i].file = f[i]
    BY <1>3, <1>6, <1>7
  <2>2. CASE j \in 1..Len(f) /\ writes'[j].file = f[j]
    BY <1>4, <1>5, <2>1, <2>2
  <2>3. CASE writes'[j].file = 0
    BY <1>5, <2>1, <2>3
  <2> QED BY <1>7, <2>2, <2>3
<1>10. \A d \in States : Pending(d)' <=> d \in Changed(sel.states)
  <2> SUFFICES ASSUME NEW d \in States
               PROVE  Pending(d)' <=> d \in Changed(sel.states)
    OBVIOUS
  <2>1. d # 0
    BY DEF States
  <2>2. ASSUME Pending(d)' PROVE d \in Changed(sel.states)
    <3>1. PICK i \in 1..Len(writes') : writes'[i].file = d
      BY <2>2 DEF Pending
    <3> QED BY <1>5, <1>7, <2>1, <3>1
  <2>3. ASSUME d \in Changed(sel.states) PROVE Pending(d)'
    <3>1. PICK i \in 1..Len(f) : f[i] = d
      BY <1>4, <2>3
    <3>2. i \in 1..Len(writes')
      BY <1>3, <1>6
    <3>3. writes'[i] = [file |-> f[i], content |-> Merged(f[i])]
      BY <1>3
    <3>4. writes'[i].file = d
      BY <3>1, <3>3
    <3> QED BY <3>2, <3>4 DEF Pending
  <2> QED BY <2>2, <2>3
<1>11. ~Pending(0)' => M = manifest
  <2> SUFFICES ASSUME M # manifest PROVE Pending(0)'
    OBVIOUS
  <2>1. Len(f) + 1 \in 1..Len(writes') /\ writes'[Len(f) + 1].file = 0
    BY <1>3, <1>6
  <2> QED BY <2>1 DEF Pending
<1>12. Leads(R, M)'
  <2>1. ASSUME NEW i \in 1..Len(writes')
        PROVE  writes'[i].content = IF writes'[i].file = 0 THEN M ELSE R[writes'[i].file]
    BY <1>5, <1>7, <1>8
  <2>2. ASSUME NEW d \in States, ~Pending(d)' PROVE record'[d] = R[d]
    <3>1. d \notin Changed(sel.states)
      BY <1>10, <2>2
    <3>2. R[d] = record[d]
      BY <3>1 DEF Changed, Intended
    <3> QED BY <1>1, <3>2 DEF files
  <2>3. ~Pending(0)' => manifest' = M
    BY <1>1, <1>11 DEF files
  <2> QED BY <2>1, <2>2, <2>3 DEF Leads
<1>13. writes' = <<>> <=> Changed(sel.states) = {} /\ M = manifest
  <2>1. writes' = <<>> <=> Len(writes') = 0
    BY <1>3
  <2>2. Len(f) = 0 <=> Changed(sel.states) = {}
    BY <1>4, <1>5, <1>6
  <2> QED BY <1>3, <1>6, <2>1, <2>2
<1> QED BY <1>3, <1>9, <1>10, <1>12, <1>13

-----------------------------------------------------------------------------
(***************************************************************************)
(* What holds of the run that starts.                                      *)
(***************************************************************************)

(* Where records and manifest are current there is nothing to do.          *)
LEMMA NothingToDo ==
  ASSUME Typed, Current(record, manifest)
  PROVE  /\ \A d \in States : Merged(d) = record[d] /\ ~Conflict(d)
         /\ \A sel \in Selections : NextManifest(sel.states, sel.partial) = manifest
<1>1. manifest # None /\ manifest # Torn /\ manifest \in Manifests /\ ~CleanupV1
  BY MarksAssumption DEF Current, CleanupV1
<1>2. ASSUME NEW d \in States
      PROVE  Merged(d) = record[d] /\ ~Conflict(d)
  <2>1. /\ record[d] \in Records /\ record[d] # None
        /\ Owned(record[d]) = dossier[d] /\ Hash(d) = dossier[d]
        /\ dossier[d] \in Projections
        /\ record[d].due = None => record[d].class = "manual"
        /\ record[d].due # None => ~(record[d].due < dossier[d].rev)
    BY <1>1, MarksAssumption DEF Current, Hash, Typed
  <2>2. record[d].name = dossier[d].name /\ record[d].rev = dossier[d].rev
    BY <2>1 DEF Owned
  <2>3. Hash(d) # None
    BY <2>1, MarksAssumption
  <2>4. ~LegacyName(d)
    BY <2>3 DEF LegacyName
  <2>5. Merged(d) = [name |-> record[d].name, rev |-> record[d].rev,
                     aliases |-> record[d].aliases, class |-> record[d].class,
                     due |-> record[d].due, reason |-> record[d].reason]
    BY <1>1, <2>1, <2>2, <2>4 DEF Merged
  <2>6. Merged(d) = record[d]
    BY <2>1, <2>5 DEF Records
  <2>7. ~OwnedConflict(d)
    BY <2>1, <2>3 DEF OwnedConflict
  <2> QED BY <2>1, <2>6, <2>7 DEF Conflict
<1>3. ASSUME NEW sel \in Selections
      PROVE  NextManifest(sel.states, sel.partial) = manifest
  <2>1. sel.states \subseteq States
    BY SelectionTypes
  <2>2. manifest = [legacy |-> manifest.legacy, hash |-> manifest.hash]
        /\ manifest.hash \in [States -> Projections \cup {None}]
        /\ manifest.legacy = FALSE
    BY <1>1 DEF Manifests, Current
  <2>3. \A d \in States : Owned(Merged(d)) = manifest.hash[d] /\ Hash(d) = manifest.hash[d]
    BY <1>1, <1>2 DEF Current, Hash
  <2>4. NextManifest(sel.states, sel.partial).hash = manifest.hash
    BY <2>2, <2>3 DEF NextManifest
  <2>5. NextManifest(sel.states, sel.partial)
          = [legacy |-> FALSE, hash |-> NextManifest(sel.states, sel.partial).hash]
    BY <1>1 DEF NextManifest, KeepLegacy
  <2> QED BY <2>2, <2>4, <2>5
<1> QED BY <1>2, <1>3

(* A date v1 invented goes when its State is selected.                     *)
LEMMA Cleaned ==
  ASSUME Typed, Traced(record, manifest, synthetic),
         NEW sel \in Selections, Accepted(sel),
         NEW d \in synthetic, d \in sel.states
  PROVE  /\ record[d] \in Records /\ Merged(d).due = None
         /\ d \in Changed(sel.states)
<1>1. manifest # Torn /\ record[d] # Torn /\ ~Conflict(d) /\ d \in States
  BY DEF Accepted, Readable, Typed
<1>2. /\ manifest \in Manifests /\ manifest.legacy /\ manifest.hash[d] # None
      /\ Recognised(record[d], manifest.hash[d])
  BY <1>1 DEF Traced
<1>3. record[d] \in Records /\ record[d] # None /\ manifest # None
  BY <1>2, MarksAssumption DEF Recognised
<1>4. Hash(d) = manifest.hash[d] /\ CleanupV1
  BY <1>2, <1>3 DEF Hash, CleanupV1
<1>5. Owned(record[d]) = Hash(d)
  BY <1>1, <1>2, <1>3, <1>4 DEF Conflict, OwnedConflict
<1>6. record[d].rev = manifest.hash[d].rev
  BY <1>4, <1>5 DEF Owned
<1>7. LooksSynthetic(d)
  BY <1>2, <1>6 DEF LooksSynthetic, SyntheticDue, Recognised
<1>8. Merged(d).due = None
  BY <1>3, <1>4, <1>7 DEF Merged
<1>9. record[d].due # None
  <2>1. record[d].rev \in Nat /\ record[d].due = record[d].rev + 1
    BY <1>2, <1>3, <1>6, SizesAssumption DEF Recognised, Records, Dates
  <2> QED BY <2>1, MarksAssumption
<1> QED BY <1>3, <1>8, <1>9 DEF Changed

LEMMA StartGoal ==
  ASSUME Generated, NEW sel \in Selections, StartRun(sel), NEW R, NEW M, Intended(sel, R, M)
  PROVE  Goal(R, M)'
<1>1. Typed /\ pc = "idle" /\ Accepted(sel) /\ Readable(sel) /\ manifest # Torn
  BY DEF Generated, StartRun, Accepted, Readable
<1>2. /\ before' = [record |-> record, manifest |-> manifest, full |-> ~sel.partial,
                    synthetic |-> synthetic, disturbed |-> disturbed]
      /\ dossier' = dossier /\ synthetic' = synthetic /\ disturbed' = disturbed
  BY DEF StartRun, ghosts
<1>3. /\ Traced(record, manifest, synthetic)
      /\ ~disturbed => Agree(record, manifest)
  BY <1>1 DEF Generated, AtRest
<1>4. \A d \in States : Pending(d)' <=> d \in Changed(sel.states)
  BY <1>1, StartLeads
<1>5. /\ sel.states \subseteq States /\ sel.partial \in BOOLEAN
      /\ ~sel.partial => sel.states = States
  BY SelectionTypes
<1>6. \A d \in sel.states : /\ R[d] = Merged(d) /\ Merged(d) \in Records
                            /\ Owned(Merged(d)) = dossier[d] /\ M.hash[d] = dossier[d]
  BY <1>1, <1>5, MergedTypes, ManifestTypes DEF Intended, Readable
<1>7. \A d \in States \ sel.states : R[d] = record[d] /\ M.hash[d] = Hash(d)
  BY <1>5 DEF Intended, NextManifest
<1>8. M.legacy = (CleanupV1 /\ sel.partial) /\ M \in Manifests
  BY <1>1, ManifestTypes DEF Intended, NextManifest, KeepLegacy
<1>9. ASSUME ~disturbed PROVE Agree(R, M)
  <2>1. ASSUME NEW d \in States, M.hash[d] # None
        PROVE  R[d] \in Records /\ Owned(R[d]) = M.hash[d]
    <3>1. CASE d \in sel.states
      BY <1>6, <3>1
    <3>2. CASE d \notin sel.states
      <4>1. Hash(d) # None /\ R[d] = record[d] /\ M.hash[d] = Hash(d)
        BY <1>7, <2>1, <3>2
      <4>2. manifest # None /\ Hash(d) = manifest.hash[d]
        BY <4>1 DEF Hash
      <4> QED BY <1>3, <1>9, <4>1, <4>2 DEF Agree
    <3> QED BY <3>1, <3>2
  <2> QED BY <1>8, <2>1 DEF Agree
<1>10. ASSUME ~sel.partial PROVE Current(R, M)'
  <2>1. ~M.legacy
    BY <1>8, <1>10
  <2>2. ASSUME NEW d \in States
        PROVE  /\ R[d] \in Records
               /\ Owned(R[d]) = dossier[d] /\ M.hash[d] = dossier[d]
               /\ R[d].due = None => R[d].class = "manual"
               /\ R[d].due # None => ~(R[d].due < dossier[d].rev)
    <3>1. R[d] = Merged(d) /\ Merged(d) \in Records /\ d \in sel.states
      BY <1>5, <1>6, <1>10
    <3>2. ~Conflict(d)
      BY <1>1, <3>1 DEF Accepted
    <3>3. CASE record[d] = None
      <4>1. Merged(d).due = None /\ Merged(d).class = "manual"
        BY <3>3 DEF Merged
      <4> QED BY <1>5, <1>6, <1>10, <3>1, <4>1
    <3>4. CASE record[d] # None
      <4>1. /\ Merged(d).due = None => Merged(d).class = "manual"
            /\ Merged(d).due # None => ~(Merged(d).due < dossier[d].rev)
        BY <3>2, <3>4 DEF Conflict
      <4> QED BY <1>5, <1>6, <1>10, <3>1, <4>1
    <3> QED BY <3>3, <3>4
  <2> QED BY <1>2, <1>8, <2>1, <2>2 DEF Current
<1>11. ASSUME NEW d \in synthetic, Pending(d)' PROVE R[d].due = None
  <2>1. d \in States /\ d \in sel.states
    BY <1>1, <1>4, <1>11 DEF Typed, Changed
  <2> QED BY <1>1, <1>3, <1>6, <2>1, Cleaned
<1>12. ASSUME NEW d \in synthetic, ~Pending(d)'
       PROVE  /\ M.legacy /\ M.hash[d] # None
              /\ R[d] = Torn \/ Recognised(R[d], M.hash[d])
  <2>1. d \in States /\ d \notin sel.states
    BY <1>1, <1>3, <1>4, <1>12, Cleaned DEF Typed
  <2>2. sel.partial
    BY <1>5, <2>1
  <2>3. /\ manifest \in Manifests /\ manifest.legacy /\ manifest.hash[d] # None
        /\ record[d] = Torn \/ Recognised(record[d], manifest.hash[d])
    BY <1>1, <1>3 DEF Traced
  <2>4. Hash(d) = manifest.hash[d] /\ CleanupV1
    BY <2>3, MarksAssumption DEF Hash, CleanupV1
  <2> QED BY <1>7, <1>8, <2>1, <2>2, <2>3, <2>4
<1>13. Faithful(R)'
  <2> SUFFICES ASSUME NEW d \in States, Pending(d)'
               PROVE  /\ record[d] \in Records /\ Hash(d) # None => Owned(record[d]) = Hash(d)
                      /\ record[d] # None => Keeps(R[d], record[d], Hash(d), CleanupV1)
    BY <1>2 DEF Faithful, HashBefore, Hash, CleanupV1
  <2>1. d \in sel.states /\ ~Conflict(d) /\ R[d] = Merged(d) /\ record[d] # Torn
    BY <1>1, <1>4, <1>6 DEF Changed, Accepted, Readable
  <2>2. record[d] \in Records /\ Hash(d) # None => Owned(record[d]) = Hash(d)
    BY <2>1, MarksAssumption DEF Conflict, OwnedConflict
  <2>3. ASSUME record[d] # None PROVE Keeps(Merged(d), record[d], Hash(d), CleanupV1)
    <3>1. record[d] \in Records
      BY <1>1, <2>1, <2>3 DEF Typed, Contents
    <3>2. Merged(d) = [name |-> dossier[d].name, rev |-> dossier[d].rev,
             aliases |-> record[d].aliases \cup (IF LegacyName(d) THEN {record[d].name} ELSE {}),
             class |-> record[d].class,
             due |-> IF CleanupV1 /\ LooksSynthetic(d) THEN None ELSE record[d].due,
             reason |-> record[d].reason]
      BY <2>3 DEF Merged
    <3>3. Hash(d) = None => record[d].name \in Merged(d).aliases \cup {Merged(d).name}
      BY <3>2 DEF LegacyName
    <3>4. \/ Merged(d).due = record[d].due
          \/ CleanupV1 /\ record[d].class = "manual" /\ ~record[d].reason
             /\ record[d].due = record[d].rev + 1
      BY <3>2 DEF LooksSynthetic, SyntheticDue
    <3> QED BY <3>2, <3>3, <3>4 DEF Keeps
  <2> QED BY <2>1, <2>2, <2>3
<1> QED BY <1>2, <1>8, <1>9, <1>10, <1>11, <1>12, <1>13 DEF Goal, Traced, Agree

-----------------------------------------------------------------------------
(***************************************************************************)
(* One lemma per step of a run.                                            *)
(***************************************************************************)
LEMMA StartRunKeeps ==
  ASSUME Generated, NEW sel \in Selections, StartRun(sel)
  PROVE  Generated'
<1>1. PICK R, M : Intended(sel, R, M)
  BY DEF Intended
<1>2. Typed /\ TornByCrash /\ AtRest /\ pc = "idle" /\ Readable(sel) /\ manifest # Torn
  BY DEF Generated, StartRun, Accepted, Readable
<1>3. /\ pc' = "write"
      /\ before' = [record |-> record, manifest |-> manifest, full |-> ~sel.partial,
                    synthetic |-> synthetic, disturbed |-> disturbed]
      /\ UNCHANGED <<dossier, record, manifest, exit, edits, crashes, synthetic,
                     disturbed, settled>>
  BY DEF StartRun, files, ghosts
<1>4. R \in [States -> Contents] /\ M \in Manifests
  BY <1>1, <1>2, IntendedTypes
<1>5. /\ writes' \in Seq(Items) /\ Ordered' /\ Leads(R, M)'
      /\ writes' = <<>> <=> Changed(sel.states) = {} /\ M = manifest
  BY <1>1, <1>2, StartLeads
<1>6. Typed'
  <2>1. before' \in Befores
    BY <1>2, <1>3, SelectionTypes DEF Befores, Typed
  <2> QED BY <1>2, <1>3, <1>5, <2>1 DEF Typed
<1>7. TornByCrash'
  BY <1>2, <1>3 DEF TornByCrash
<1>8. InProgress'
  BY <1>1, <1>4, <1>5, StartGoal DEF InProgress
<1>9. AtRest'
  <2>1. Traced(record, manifest, synthetic)' /\ pc' # "idle"
    BY <1>2, <1>3 DEF AtRest, Traced
  <2>2. /\ before'.disturbed \/ Agree(before'.record, before'.manifest)
        /\ Traced(before'.record, before'.manifest, before'.synthetic)
    BY <1>2, <1>3 DEF AtRest, Typed
  <2>3. ASSUME settled' PROVE Current(record, manifest)' /\ writes' = <<>>
    <3>1. Current(record, manifest)
      BY <1>2, <1>3, <2>3 DEF AtRest
    <3>2. Changed(sel.states) = {} /\ M = manifest
      BY <1>1, <1>2, <3>1, NothingToDo, SelectionTypes DEF Changed, Intended
    <3> QED BY <1>3, <1>5, <3>1, <3>2 DEF Current
  <2> QED BY <2>1, <2>2, <2>3 DEF AtRest
<1> QED BY <1>5, <1>6, <1>7, <1>8, <1>9 DEF Generated

LEMMA RefuseRunKeeps ==
  ASSUME Generated, NEW sel \in Selections, RefuseRun(sel)
  PROVE  Generated'
<1>1. /\ pc = "idle" /\ exit' = 2
      /\ UNCHANGED <<dossier, record, manifest, writes, pc, before, edits, crashes,
                     synthetic, disturbed, settled>>
  BY DEF RefuseRun, files, ghosts
<1> QED
  BY <1>1 DEF Generated, Typed, TornByCrash, Ordered, InProgress, AtRest, Traced, Current, Pending

LEMMA TruncateKeeps ==
  ASSUME Generated, Truncate
  PROVE  Generated'
<1>1. /\ pc = "write" /\ writes # <<>> /\ pc' = "fill"
      /\ Put(Head(writes).file, Torn)
      /\ UNCHANGED <<dossier, writes, before, exit, edits, crashes, synthetic, disturbed, settled>>
  BY DEF Truncate, ghosts
<1>2. Typed /\ TornByCrash /\ Ordered /\ AtRest /\ ~settled
  BY <1>1 DEF Generated, AtRest, Typed
<1> DEFINE w == Head(writes)
<1>3. writes \in Seq(Items) /\ Len(writes) \in Nat /\ Len(writes) # 0 /\ w = writes[1] /\ w \in Items
  BY <1>1, <1>2 DEF Typed
<1>4. w.file \in States \cup {0} /\ Pending(w.file)
  <2>1. 1 \in 1..Len(writes)
    BY <1>3
  <2> QED BY <1>3, <2>1 DEF Items, Pending
<1>5. /\ record' = IF w.file = 0 THEN record ELSE [record EXCEPT ![w.file] = Torn]
      /\ manifest' = IF w.file = 0 THEN Torn ELSE manifest
  BY <1>1 DEF Put
<1>6. Typed'
  BY <1>1, <1>2, <1>4, <1>5 DEF Typed, Contents
<1>7. TornByCrash'
  BY <1>1, <1>2, <1>4, <1>5 DEF TornByCrash, Typed
<1>8. Ordered'
  BY <1>1, <1>2 DEF Ordered
<1>9. InProgress'
  <2>1. PICK R \in [States -> Contents], M \in Manifests : Leads(R, M) /\ Goal(R, M)
    BY <1>1 DEF Generated, InProgress
  <2>2. \A f : Pending(f)' <=> Pending(f)
    BY <1>1 DEF Pending
  <2>3. Leads(R, M)'
    BY <1>1, <1>4, <1>5, <2>1, <2>2 DEF Leads
  <2>4. Goal(R, M)'
    BY <1>1, <2>1, <2>2 DEF Goal, Current, Traced, Faithful, HashBefore
  <2> QED BY <2>3, <2>4 DEF InProgress
<1>10. AtRest'
  <2>1. Traced(record, manifest, synthetic)'
    <3>1. \A d \in States : record'[d] = Torn \/ record'[d] = record[d]
      BY <1>2, <1>4, <1>5 DEF Typed
    <3> QED BY <1>1, <1>2, <1>5, <3>1 DEF Traced, AtRest, Typed
  <2> QED BY <1>1, <1>2, <2>1 DEF AtRest
<1> QED BY <1>6, <1>7, <1>8, <1>9, <1>10 DEF Generated

LEMMA FillKeeps ==
  ASSUME Generated, Fill
  PROVE  Generated'
<1>0. PICK w : w = Head(writes)
  OBVIOUS
<1>1. /\ pc = "fill" /\ pc' = "write" /\ writes # <<>> /\ writes' = Tail(writes)
      /\ IF w.file = 0 THEN manifest' = w.content /\ UNCHANGED record
                       ELSE record' = [record EXCEPT ![w.file] = w.content] /\ UNCHANGED manifest
      /\ synthetic' = IF w.file # 0 /\ w.content.due = None
                        THEN synthetic \ {w.file} ELSE synthetic
      /\ UNCHANGED <<dossier, before, exit, edits, crashes, disturbed, settled>>
  BY <1>0 DEF Fill, Put, Generated, Typed
<1>2. Typed /\ TornByCrash /\ Ordered /\ AtRest /\ ~settled
  BY <1>1 DEF Generated, AtRest, Typed
<1>3. /\ writes \in Seq(Items) /\ Len(writes) \in Nat /\ Len(writes) # 0
      /\ w = writes[1] /\ w \in Items
      /\ writes' \in Seq(Items) /\ Len(writes') = Len(writes) - 1
      /\ \A i \in 1..Len(writes') : writes'[i] = writes[i + 1]
  BY <1>0, <1>1, <1>2 DEF Typed
<1>4. /\ w.file \in States \cup {0}
      /\ w.file = 0 => w.content \in Manifests
      /\ w.file # 0 => w.content \in Records
  BY <1>3 DEF Items, States
<1>5. /\ record' = IF w.file = 0 THEN record ELSE [record EXCEPT ![w.file] = w.content]
      /\ manifest' = IF w.file = 0 THEN w.content ELSE manifest
  BY <1>1
<1>6. Typed'
  BY <1>1, <1>2, <1>3, <1>4, <1>5 DEF Typed, Contents
<1>7. TornByCrash'
  <2> SUFFICES ASSUME crashes = 0
               PROVE  (\A d \in States : record'[d] # Torn) /\ manifest' # Torn
    BY <1>1 DEF TornByCrash
  <2>1. ASSUME NEW d \in States PROVE record'[d] # Torn
    <3>1. CASE d = w.file
      BY <1>2, <1>4, <1>5, <3>1, MarksAssumption DEF Typed, States
    <3>2. CASE d # w.file
      <4>1. record'[d] = record[d]
        BY <1>2, <1>4, <1>5, <3>2 DEF Typed
      <4> QED BY <1>0, <1>2, <3>2, <4>1 DEF TornByCrash
    <3> QED BY <3>1, <3>2
  <2>2. manifest' # Torn
    BY <1>0, <1>2, <1>4, <1>5, MarksAssumption DEF TornByCrash
  <2> QED BY <2>1, <2>2
<1>8. Ordered'
  <2> SUFFICES ASSUME NEW i \in 1..Len(writes'), NEW j \in 1..Len(writes'), i < j
               PROVE  writes'[i].file # 0 /\ writes'[i].file # writes'[j].file
    BY DEF Ordered
  <2>1. i + 1 \in 1..Len(writes) /\ j + 1 \in 1..Len(writes) /\ i + 1 < j + 1
    BY <1>3
  <2> QED BY <1>2, <1>3, <2>1 DEF Ordered
<1>9. /\ \A f : f # w.file => (Pending(f)' <=> Pending(f))
      /\ ~Pending(w.file)'
      /\ w.file = 0 => \A f : ~Pending(f)'
  <2>1. \A i \in 1..Len(writes') :
          i + 1 \in 1..Len(writes) /\ 1 \in 1..Len(writes) /\ 1 < i + 1
    BY <1>3
  <2>2. \A i \in 1..Len(writes') : writes'[i].file # w.file /\ w.file # 0
    BY <1>2, <1>3, <2>1 DEF Ordered
  <2>3. ASSUME NEW f, f # w.file, Pending(f) PROVE Pending(f)'
    <3>1. PICK i \in 1..Len(writes) : writes[i].file = f
      BY <2>3 DEF Pending
    <3>2. i # 1
      BY <1>3, <2>3, <3>1
    <3>3. i - 1 \in 1..Len(writes') /\ (i - 1) + 1 = i
      BY <1>3, <3>2
    <3>4. writes'[i - 1] = writes[i]
      BY <1>3, <3>3
    <3> QED BY <3>1, <3>3, <3>4 DEF Pending
  <2>4. ASSUME NEW f, Pending(f)' PROVE Pending(f)
    <3>1. PICK i \in 1..Len(writes') : writes'[i].file = f
      BY <2>4 DEF Pending
    <3> QED BY <1>3, <2>1, <3>1 DEF Pending
  <2>5. ~Pending(w.file)'
    BY <2>2 DEF Pending
  <2>6. w.file = 0 => \A f : ~Pending(f)'
    BY <2>2 DEF Pending
  <2> QED BY <2>3, <2>4, <2>5, <2>6
<1>10. PICK R \in [States -> Contents], M \in Manifests : Leads(R, M) /\ Goal(R, M)
  BY <1>1 DEF Generated, InProgress
<1>11. w.content = (IF w.file = 0 THEN M ELSE R[w.file]) /\ Pending(w.file)
  <2>1. 1 \in 1..Len(writes)
    BY <1>3
  <2> QED BY <1>3, <1>10, <2>1 DEF Leads, Pending
<1>12. /\ synthetic' \subseteq synthetic
       /\ w.file \notin synthetic'
  <2>1. 0 \notin synthetic
    BY <1>2 DEF Typed, States
  <2>2. w.file \in synthetic => R[w.file].due = None
    BY <1>10, <1>11 DEF Goal
  <2> QED BY <1>1, <1>11, <2>1, <2>2
<1>13. Leads(R, M)'
  <2>1. ASSUME NEW i \in 1..Len(writes')
        PROVE  writes'[i].content = IF writes'[i].file = 0 THEN M ELSE R[writes'[i].file]
    <3>1. i + 1 \in 1..Len(writes) /\ writes'[i] = writes[i + 1]
      BY <1>3
    <3> QED BY <1>10, <3>1 DEF Leads
  <2>2. ASSUME NEW d \in States, ~Pending(d)' PROVE record'[d] = R[d]
    <3>1. CASE d = w.file
      BY <1>2, <1>5, <1>11, <3>1 DEF Typed, States
    <3>2. CASE d # w.file
      BY <1>2, <1>4, <1>5, <1>9, <1>10, <2>2, <3>2 DEF Leads, Typed
    <3> QED BY <3>1, <3>2
  <2>3. ASSUME ~Pending(0)' PROVE manifest' = M
    BY <1>5, <1>9, <1>10, <1>11, <2>3 DEF Leads
  <2> QED BY <2>1, <2>2, <2>3 DEF Leads
<1>14. Goal(R, M)'
  <2>1. ASSUME NEW d \in synthetic', Pending(d)' PROVE R[d].due = None
    BY <1>9, <1>10, <1>12, <2>1 DEF Goal
  <2>2. Traced(R, M, {d \in synthetic : ~Pending(d)})'
    <3>1. \A d \in synthetic' : ~Pending(d)' => d \in synthetic /\ ~Pending(d)
      BY <1>9, <1>12
    <3> QED BY <1>10, <3>1 DEF Goal, Traced
  <2>3. Faithful(R)'
    BY <1>1, <1>9, <1>10 DEF Goal, Faithful, HashBefore
  <2> QED BY <1>1, <1>10, <2>1, <2>2, <2>3 DEF Goal, Current
<1>15. InProgress'
  BY <1>13, <1>14 DEF InProgress
<1>16. AtRest'
  <2>1. Traced(record, manifest, synthetic)'
    <3> SUFFICES ASSUME NEW d \in synthetic'
                 PROVE  \/ manifest' = Torn
                        \/ /\ manifest' \in Manifests
                           /\ manifest'.legacy
                           /\ manifest'.hash[d] # None
                           /\ record'[d] = Torn \/ Recognised(record'[d], manifest'.hash[d])
      BY DEF Traced
    <3>1. d \in synthetic /\ d \in States /\ d # w.file
      BY <1>2, <1>12 DEF Typed
    <3>2. record'[d] = record[d]
      BY <1>2, <1>4, <1>5, <3>1 DEF Typed
    <3>3. CASE w.file # 0
      BY <1>2, <1>5, <3>1, <3>2, <3>3 DEF AtRest, Traced
    <3>4. CASE w.file = 0
      <4>1. ~Pending(d)' /\ ~Pending(d)
        BY <1>9, <3>1, <3>4
      <4>2. R[d] = record[d] /\ manifest' = M
        BY <1>5, <1>10, <1>11, <3>1, <3>4, <4>1 DEF Leads
      <4>3. \/ M = Torn
            \/ /\ M \in Manifests /\ M.legacy /\ M.hash[d] # None
               /\ R[d] = Torn \/ Recognised(R[d], M.hash[d])
        BY <1>10, <3>1, <4>1 DEF Goal, Traced
      <4> QED BY <3>2, <4>2, <4>3
    <3> QED BY <3>3, <3>4
  <2> QED BY <1>1, <1>2, <2>1 DEF AtRest
<1> QED BY <1>6, <1>7, <1>8, <1>15, <1>16 DEF Generated

LEMMA EndRunKeeps ==
  ASSUME Generated, EndRun
  PROVE  Generated'
<1>1. /\ pc = "write" /\ writes = <<>> /\ pc' = "idle" /\ before' = None /\ exit' = Scan
      /\ settled' = (settled \/ before.full)
      /\ UNCHANGED <<dossier, record, manifest, writes, edits, crashes, synthetic, disturbed>>
  BY DEF EndRun, files
<1>2. Typed /\ TornByCrash /\ AtRest
  BY DEF Generated
<1>3. PICK R \in [States -> Contents], M \in Manifests : Leads(R, M) /\ Goal(R, M)
  BY <1>1 DEF Generated, InProgress
<1>4. record = R /\ manifest = M
  <2>1. \A f : ~Pending(f)
    BY <1>1 DEF Pending
  <2>2. \A d \in States : record[d] = R[d]
    BY <1>3, <2>1 DEF Leads
  <2>3. record \in [States -> Contents]
    BY <1>2 DEF Typed
  <2> QED BY <1>3, <2>1, <2>2, <2>3 DEF Leads
<1>5. Typed'
  <2>1. before.full \in BOOLEAN /\ Scan \in {0, 2}
    BY <1>1, <1>2 DEF Typed, Befores, Scan
  <2> QED BY <1>1, <1>2, <2>1 DEF Typed
<1>6. TornByCrash'
  BY <1>1, <1>2 DEF TornByCrash
<1>7. Ordered' /\ InProgress'
  BY <1>1 DEF Ordered, InProgress
<1>8. AtRest'
  <2>1. ~disturbed => Agree(record, manifest)
    BY <1>3, <1>4 DEF Goal
  <2>2. settled' => Current(record, manifest)
    BY <1>1, <1>2, <1>3, <1>4 DEF Goal, AtRest
  <2>3. Traced(record, manifest, synthetic)
    BY <1>2 DEF AtRest
  <2> QED BY <1>1, <2>1, <2>2, <2>3 DEF AtRest, Current, Traced
<1> QED BY <1>5, <1>6, <1>7, <1>8 DEF Generated

LEMMA CrashKeeps ==
  ASSUME Generated, Crash
  PROVE  Generated'
<1>1. /\ pc # "idle" /\ crashes < MaxCrashes /\ crashes' = crashes + 1
      /\ pc' = "idle" /\ writes' = <<>> /\ disturbed' = TRUE /\ settled' = FALSE
      /\ UNCHANGED <<dossier, record, manifest, before, exit, edits, synthetic>>
  BY DEF Crash, files
<1>2. Typed /\ AtRest
  BY DEF Generated
<1>3. crashes \in Nat /\ MaxCrashes \in Nat /\ crashes + 1 \in 0..MaxCrashes /\ crashes + 1 # 0
  BY <1>1, <1>2, SizesAssumption DEF Typed
<1>4. Typed'
  <2>1. writes' \in Seq(Items)
    BY <1>1
  <2> QED BY <1>1, <1>2, <1>3, <2>1 DEF Typed
<1>5. TornByCrash' /\ Ordered' /\ InProgress'
  BY <1>1, <1>3 DEF TornByCrash, Ordered, InProgress
<1>6. AtRest'
  BY <1>1, <1>2 DEF AtRest, Traced
<1> QED BY <1>4, <1>5, <1>6 DEF Generated

-----------------------------------------------------------------------------
(***************************************************************************)
(* People edit the tree.                                                   *)
(***************************************************************************)
LEMMA EditTypes ==
  ASSUME Typed, Edit
  PROVE  /\ pc = "idle" /\ pc' = "idle" /\ writes = <<>> /\ writes' = <<>>
         /\ edits' \in 0..MaxEdits /\ before' = None /\ settled' = FALSE
         /\ exit' = exit /\ crashes' = crashes
<1>1. /\ pc = "idle" /\ edits < MaxEdits /\ edits' = edits + 1 /\ before' = None
      /\ settled' = FALSE /\ UNCHANGED <<writes, pc, exit, crashes>>
  BY DEF Edit
<1>2. edits \in 0..MaxEdits /\ MaxEdits \in Nat /\ writes = <<>>
  BY <1>1, SizesAssumption DEF Typed
<1>3. edits + 1 \in 0..MaxEdits
  BY <1>1, <1>2
<1> QED BY <1>1, <1>2, <1>3

LEMMA UpdateDossierKeeps ==
  ASSUME Generated, NEW d \in States, NEW p \in Projections, UpdateDossier(d, p)
  PROVE  Generated'
<1>1. /\ Edit /\ dossier' = [dossier EXCEPT ![d] = p]
      /\ UNCHANGED <<record, manifest, synthetic, disturbed>>
  BY DEF UpdateDossier, files
<1>2. Typed /\ TornByCrash /\ AtRest
  BY DEF Generated
<1>3. /\ pc = "idle" /\ pc' = "idle" /\ writes' = <<>> /\ edits' \in 0..MaxEdits
      /\ before' = None /\ settled' = FALSE /\ exit' = exit /\ crashes' = crashes
  BY <1>1, <1>2, EditTypes
<1>4. Typed'
  BY <1>1, <1>2, <1>3 DEF Typed
<1>5. TornByCrash' /\ Ordered' /\ InProgress'
  BY <1>1, <1>2, <1>3 DEF TornByCrash, Ordered, InProgress
<1>6. AtRest'
  BY <1>1, <1>2, <1>3 DEF AtRest, Traced
<1> QED BY <1>4, <1>5, <1>6 DEF Generated

LEMMA CurateKeeps ==
  ASSUME Generated, NEW d \in States, NEW class \in {"manual", "hot"},
         NEW due \in 0..(MaxDate + 1) \cup {None}, NEW reason \in BOOLEAN,
         Curate(d, class, due, reason)
  PROVE  Generated'
<1>1. /\ Edit /\ record[d] \notin {None, Torn}
      /\ record' = [record EXCEPT ![d] = WithCurated(record[d], class, due, reason)]
      /\ synthetic' = synthetic \ {d}
      /\ UNCHANGED <<dossier, manifest, disturbed>>
  BY DEF Curate
<1>2. Typed /\ TornByCrash /\ AtRest
  BY DEF Generated
<1>3. /\ pc = "idle" /\ pc' = "idle" /\ writes' = <<>> /\ edits' \in 0..MaxEdits
      /\ before' = None /\ settled' = FALSE /\ exit' = exit /\ crashes' = crashes
  BY <1>1, <1>2, EditTypes
<1>4. /\ record[d] \in Records /\ record'[d] \in Records
      /\ Owned(record'[d]) = Owned(record[d])
      /\ \A e \in States : e # d => record'[e] = record[e]
      /\ record' \in [States -> Contents]
  <2>1. record[d] \in Records /\ record \in [States -> Contents]
    BY <1>1, <1>2 DEF Typed, Contents
  <2>2. /\ WithCurated(record[d], class, due, reason) \in Records
        /\ Owned(WithCurated(record[d], class, due, reason)) = Owned(record[d])
    BY <2>1 DEF WithCurated, Records, Owned
  <2> QED BY <1>1, <2>1, <2>2 DEF Contents
<1>5. Typed'
  BY <1>1, <1>2, <1>3, <1>4 DEF Typed
<1>6. TornByCrash' /\ Ordered' /\ InProgress'
  <2>1. \A e \in States : record'[e] = Torn => record[e] = Torn
    BY <1>4, MarksAssumption
  <2> QED BY <1>1, <1>2, <1>3, <2>1 DEF TornByCrash, Ordered, InProgress
<1>7. AtRest'
  <2>1. ~disturbed => Agree(record', manifest)
    BY <1>2, <1>3, <1>4 DEF AtRest, Agree
  <2>2. Traced(record', manifest, synthetic')
    BY <1>1, <1>2, <1>4 DEF AtRest, Traced, Typed
  <2> QED BY <1>1, <1>3, <2>1, <2>2 DEF AtRest
<1> QED BY <1>5, <1>6, <1>7 DEF Generated

LEMMA EditOwnedKeeps ==
  ASSUME Generated, NEW d \in States, NEW p \in Projections, EditOwned(d, p)
  PROVE  Generated'
<1>1. /\ Edit /\ record[d] \notin {None, Torn}
      /\ record' = [record EXCEPT ![d] = WithOwned(record[d], p)]
      /\ disturbed' = TRUE
      /\ UNCHANGED <<dossier, manifest, synthetic>>
  BY DEF EditOwned
<1>2. Typed /\ TornByCrash /\ AtRest
  BY DEF Generated
<1>3. /\ pc = "idle" /\ pc' = "idle" /\ writes' = <<>> /\ edits' \in 0..MaxEdits
      /\ before' = None /\ settled' = FALSE /\ exit' = exit /\ crashes' = crashes
  BY <1>1, <1>2, EditTypes
<1>4. /\ record[d] \in Records /\ record'[d] \in Records
      /\ record'[d].class = record[d].class /\ record'[d].due = record[d].due
      /\ record'[d].reason = record[d].reason
      /\ \A e \in States : e # d => record'[e] = record[e]
      /\ record' \in [States -> Contents]
  <2>1. record[d] \in Records /\ record \in [States -> Contents]
    BY <1>1, <1>2 DEF Typed, Contents
  <2>2. WithOwned(record[d], p) \in Records
    BY <2>1 DEF WithOwned, Records, Projections
  <2> QED BY <1>1, <2>1, <2>2 DEF Contents, WithOwned
<1>5. Typed'
  BY <1>1, <1>2, <1>3, <1>4 DEF Typed
<1>6. TornByCrash' /\ Ordered' /\ InProgress'
  <2>1. \A e \in States : record'[e] = Torn => record[e] = Torn
    BY <1>4, MarksAssumption
  <2> QED BY <1>1, <1>2, <1>3, <2>1 DEF TornByCrash, Ordered, InProgress
<1>7. AtRest'
  <2>1. Traced(record', manifest, synthetic)
    BY <1>1, <1>2, <1>4 DEF AtRest, Traced, Typed, Recognised
  <2> QED BY <1>1, <1>3, <2>1 DEF AtRest
<1> QED BY <1>5, <1>6, <1>7 DEF Generated

LEMMA RestoreKeeps ==
  ASSUME Generated, Restore
  PROVE  Generated'
<1>1. /\ pc = "idle" /\ before # None
      /\ record' = before.record /\ manifest' = before.manifest
      /\ synthetic' = before.synthetic /\ disturbed' = before.disturbed
      /\ before' = None /\ settled' = FALSE
      /\ UNCHANGED <<dossier, writes, pc, exit, edits, crashes>>
  BY DEF Restore
<1>2. Typed /\ TornByCrash /\ AtRest
  BY DEF Generated
<1>3. before \in Befores /\ writes = <<>> /\ crashes # 0
  BY <1>1, <1>2 DEF Typed, TornByCrash
<1>4. Typed'
  BY <1>1, <1>2, <1>3 DEF Typed, Befores
<1>5. TornByCrash' /\ Ordered' /\ InProgress'
  BY <1>1, <1>3 DEF TornByCrash, Ordered, InProgress
<1>6. AtRest'
  BY <1>1, <1>2, <1>3 DEF AtRest, Befores
<1> QED BY <1>4, <1>5, <1>6 DEF Generated

-----------------------------------------------------------------------------
(***************************************************************************)
(* The tree as the generator may first find it.                            *)
(***************************************************************************)
LEMMA GeneratedInit == Init => Generated
<1> SUFFICES ASSUME Init PROVE Generated
  OBVIOUS
<1>1. PICK v1 \in SUBSET States, hand \in SUBSET States, n \in Names :
        /\ record = [d \in States |->
             IF d \in v1 THEN GeneratedByV1(dossier[d])
             ELSE IF d \in hand THEN WrittenByHand(n, dossier[d]) ELSE None]
        /\ manifest = IF v1 = {} THEN None ELSE
             [legacy |-> TRUE,
              hash |-> [d \in States |-> IF d \in v1 THEN dossier[d] ELSE None]]
        /\ synthetic = v1
  BY DEF Init
<1>2. /\ writes = <<>> /\ pc = "idle" /\ before = None /\ exit = 0 /\ edits = 0 /\ crashes = 0
      /\ disturbed = FALSE /\ settled = FALSE
      /\ dossier \in [States -> {p \in Projections : p.rev = 0}]
  BY DEF Init
<1>3. MaxDate \in Nat /\ MaxEdits \in Nat /\ MaxCrashes \in Nat
  BY SizesAssumption
<1>4. \A d \in States : /\ dossier[d] \in Projections /\ dossier[d].rev = 0
                        /\ dossier[d].name \in Names /\ dossier[d].rev \in Dates
                        /\ dossier[d] = [name |-> dossier[d].name, rev |-> dossier[d].rev]
  BY <1>2, <1>3 DEF Projections, Dates
<1>5. ASSUME NEW d \in States
      PROVE  /\ GeneratedByV1(dossier[d]) \in Records
             /\ Owned(GeneratedByV1(dossier[d])) = dossier[d]
             /\ Recognised(GeneratedByV1(dossier[d]), dossier[d])
             /\ WrittenByHand(n, dossier[d]) \in Records
  <2>1. 0 + 1 \in 0..(MaxDate + 1) /\ MaxDate \in 0..(MaxDate + 1) /\ 0 \in Dates
    BY <1>3 DEF Dates
  <2>2. GeneratedByV1(dossier[d]) \in Records
    BY <1>4, <2>1 DEF GeneratedByV1, Records
  <2>3. WrittenByHand(n, dossier[d]) \in Records
    BY <1>4, <2>1 DEF WrittenByHand, Records
  <2>4. Owned(GeneratedByV1(dossier[d])) = dossier[d]
    BY <1>4 DEF GeneratedByV1, Owned
  <2> QED BY <2>2, <2>3, <2>4 DEF GeneratedByV1, Recognised
<1>6. \A d \in States : record[d] \in Records \cup {None}
  BY <1>1, <1>5
<1>7. manifest \in Manifests \cup {None}
  BY <1>1, <1>4 DEF Manifests
<1>8. Typed
  <2>1. record \in [States -> Contents]
    BY <1>1, <1>6 DEF Contents
  <2>2. dossier \in [States -> Projections] /\ synthetic \subseteq States
    BY <1>1, <1>2
  <2>3. edits \in 0..MaxEdits /\ crashes \in 0..MaxCrashes
    BY <1>2, <1>3
  <2>4. writes \in Seq(Items)
    BY <1>2
  <2> QED BY <1>2, <1>7, <2>1, <2>2, <2>3, <2>4 DEF Typed
<1>9. TornByCrash /\ Ordered /\ InProgress
  BY <1>2, <1>6, <1>7, MarksAssumption DEF TornByCrash, Ordered, InProgress
<1>10. \A d \in v1 : /\ manifest \in Manifests /\ manifest.legacy
                     /\ manifest.hash[d] = dossier[d] /\ manifest.hash[d] # None
                     /\ record[d] = GeneratedByV1(dossier[d])
  <2> SUFFICES ASSUME NEW d \in v1
               PROVE  /\ manifest \in Manifests /\ manifest.legacy
                      /\ manifest.hash[d] = dossier[d] /\ manifest.hash[d] # None
                      /\ record[d] = GeneratedByV1(dossier[d])
    OBVIOUS
  <2>1. manifest = [legacy |-> TRUE,
                    hash |-> [x \in States |-> IF x \in v1 THEN dossier[x] ELSE None]]
    BY <1>1
  <2>2. manifest.hash[d] = dossier[d] /\ manifest.legacy
    BY <2>1
  <2>3. manifest # None => manifest \in Manifests
    BY <1>7
  <2>4. manifest \in Manifests
    BY <1>4, <2>1 DEF Manifests
  <2> QED BY <1>1, <1>4, <2>2, <2>4, MarksAssumption
<1>11. \A d \in States : manifest # None /\ manifest.hash[d] # None => d \in v1
  BY <1>1
<1>12. AtRest
  <2>1. Traced(record, manifest, synthetic)
    BY <1>1, <1>5, <1>10 DEF Traced
  <2>2. Agree(record, manifest)
    BY <1>5, <1>7, <1>10, <1>11 DEF Agree
  <2> QED BY <1>2, <2>1, <2>2 DEF AtRest
<1> QED BY <1>8, <1>9, <1>12 DEF Generated

LEMMA GeneratedStep == Generated /\ [Next]_vars => Generated'
<1> SUFFICES ASSUME Generated, [Next]_vars PROVE Generated'
  OBVIOUS
<1>1. CASE Run
  BY <1>1, StartRunKeeps, RefuseRunKeeps, TruncateKeeps, FillKeeps, EndRunKeeps DEF Run
<1>2. CASE Crash
  BY <1>2, CrashKeeps
<1>3. CASE EditTree
  BY <1>3, UpdateDossierKeeps, EditOwnedKeeps, CurateKeeps, RestoreKeeps DEF EditTree
<1>4. CASE UNCHANGED vars
  <2>1. UNCHANGED <<dossier, record, manifest, writes, pc, before, exit, edits, crashes,
                    synthetic, disturbed, settled>>
    BY <1>4 DEF vars, files, ghosts
  <2> QED
    BY <2>1 DEF Generated, Typed, TornByCrash, Ordered, InProgress, Leads, Goal, Faithful,
                HashBefore, AtRest, Traced, Current, Pending
<1> QED BY <1>1, <1>2, <1>3, <1>4 DEF Next

-----------------------------------------------------------------------------
(***************************************************************************)
(* The inductive invariant: at every moment of a run there are records and *)
(* a manifest that what is left to write leads to, and that are as good as *)
(* those it found.                                                         *)
(***************************************************************************)
THEOREM Invariance == Spec => []Generated
<1>1. Init => Generated
  BY GeneratedInit
<1>2. Generated /\ [Next]_vars => Generated'
  BY GeneratedStep
<1> QED BY <1>1, <1>2, PTL DEF Spec

(***************************************************************************)
(* Every file and every step of the generator has its type, and a torn     *)
(* file at rest is one that a run was stopped at (StateAbox!TypeOK).       *)
(***************************************************************************)
THEOREM TypeCorrect == Spec => []TypeOK
<1>1. Generated => TypeOK
  <2> SUFFICES ASSUME Generated PROVE TypeOK
    OBVIOUS
  <2>1. Typed /\ TornByCrash
    BY DEF Generated
  <2>2. ASSUME NEW i \in 1..Len(writes) PROVE writes[i].file \in 0..NumStates
    <3>1. writes[i] \in Items
      BY <2>1 DEF Typed
    <3>2. writes[i].file \in States \cup {0} /\ NumStates \in Nat
      BY <3>1, SizesAssumption DEF Items
    <3> QED BY <3>2 DEF States
  <2>3. crashes \in Nat
    BY <2>1, SizesAssumption DEF Typed
  <2>4. pc = "idle" /\ (manifest = Torn \/ \E d \in States : record[d] = Torn) => crashes > 0
    BY <2>1, <2>3 DEF TornByCrash
  <2>5. record \in [States -> Records \cup {None, Torn}]
    BY <2>1 DEF Typed, Contents
  <2> QED BY <2>1, <2>2, <2>4, <2>5 DEF TypeOK, Typed
<1> QED BY <1>1, Invariance, PTL

(***************************************************************************)
(* Only a run over the whole corpus promotes the manifest to v2, and then  *)
(* no due date that v1 invented is left (load_manifest, merge, migrate).   *)
(***************************************************************************)
THEOREM PromotionIsClean == Spec => []NoSyntheticUnderV2
<1>1. Generated => NoSyntheticUnderV2
  BY DEF Generated, AtRest, Traced, NoSyntheticUnderV2
<1> QED BY <1>1, Invariance, PTL

(***************************************************************************)
(* The conflicts the generator reports are of somebody else's making.      *)
(***************************************************************************)
THEOREM ConflictsAreProvoked == Spec => []NoConflictUnprovoked
<1>1. Generated => NoConflictUnprovoked
  <2> SUFFICES ASSUME Generated, pc = "idle", ~disturbed, manifest # None,
                      NEW d \in States, manifest.hash[d] # None
               PROVE  record[d] # None /\ Owned(record[d]) = manifest.hash[d]
    BY DEF NoConflictUnprovoked
  <2>1. record[d] \in Records /\ Owned(record[d]) = manifest.hash[d]
    BY DEF Generated, AtRest, Agree
  <2> QED BY <2>1, MarksAssumption
<1> QED BY <1>1, Invariance, PTL

(***************************************************************************)
(* After a full run a check finds nothing to write and no conflict.        *)
(***************************************************************************)
THEOREM FullRunSettles == Spec => []Idempotent
<1>1. Generated => Idempotent
  <2> SUFFICES ASSUME Generated, settled
               PROVE  /\ \A d \in States : ~Conflict(d)
                      /\ Changed(States) = {} /\ NextManifest(States, FALSE) = manifest
    BY DEF Idempotent
  <2>1. Typed /\ Current(record, manifest)
    BY DEF Generated, AtRest
  <2>2. [states |-> States, partial |-> FALSE] \in Selections
    BY DEF Selections
  <2> QED BY <2>1, <2>2, NothingToDo DEF Changed
<1> QED BY <1>1, Invariance, PTL

(***************************************************************************)
(* A file is written once, with what was merged when the run began.        *)
(***************************************************************************)
LEMMA FirstIsPending ==
  ASSUME Typed, writes # <<>>
  PROVE  Pending(Head(writes).file) /\ Head(writes) = writes[1] /\ 1 \in 1..Len(writes)
<1>1. writes \in Seq(Items)
  BY DEF Typed
<1>2. Head(writes) = writes[1] /\ 1 \in 1..Len(writes)
  BY <1>1
<1> QED BY <1>2 DEF Pending

(***************************************************************************)
(* What is curated in a record survives a run (merge).                     *)
(***************************************************************************)
THEOREM CurationSurvives == Spec => CuratedKept
<1>1. Generated /\ [Next]_vars =>
        \A d \in States :
          /\ pc = "fill" /\ pc' = "write"
          /\ Head(writes).file = d
          /\ before.record[d] # None
          => Keeps(record'[d], before.record[d],
                   IF before.manifest = None THEN None ELSE before.manifest.hash[d],
                   before.manifest # None /\ before.manifest.legacy)
  <2> SUFFICES ASSUME Generated, [Next]_vars, NEW d \in States,
                      pc = "fill", pc' = "write", Head(writes).file = d, before.record[d] # None
               PROVE  Keeps(record'[d], before.record[d], HashBefore(d),
                            before.manifest # None /\ before.manifest.legacy)
    BY DEF HashBefore
  <2>1. Fill
    BY DEF Next, Run, RefuseRun, StartRun, Truncate, EndRun, Crash, EditTree, UpdateDossier,
           EditOwned, Curate, Edit, Restore, vars
  <2>2. Typed /\ writes # <<>>
    BY DEF Generated, Typed
  <2>3. PICK R \in [States -> Contents], M \in Manifests : Leads(R, M) /\ Goal(R, M)
    BY DEF Generated, InProgress
  <2>4. d # 0 /\ Pending(d) /\ Head(writes).content = R[d]
    BY <2>2, <2>3, FirstIsPending DEF Leads, States
  <2>5. record'[d] = R[d]
    BY <2>1, <2>2, <2>4 DEF Fill, Put, Typed
  <2> QED BY <2>3, <2>4, <2>5 DEF Goal, Faithful
<1> QED BY <1>1, Invariance, PTL DEF Spec, CuratedKept

(***************************************************************************)
(* A record whose generated fields were edited by hand is not written to   *)
(* (merge raises, and migrate writes nothing on a conflict).               *)
(***************************************************************************)
THEOREM HandEditsStay == Spec => HandEditNotOverwritten
<1>1. Generated /\ [Next]_vars =>
        \A d \in States :
          /\ pc # "idle"
          /\ before.manifest # None /\ before.manifest.hash[d] # None
          /\ before.record[d] \notin {None, Torn}
          /\ Owned(before.record[d]) # before.manifest.hash[d]
          => record'[d] = record[d]
  <2> SUFFICES ASSUME Generated, [Next]_vars, NEW d \in States, pc # "idle",
                      before.manifest # None, before.manifest.hash[d] # None,
                      before.record[d] \notin {None, Torn},
                      Owned(before.record[d]) # before.manifest.hash[d]
               PROVE  record'[d] = record[d]
    OBVIOUS
  <2>1. Typed /\ before \in Befores /\ before.record[d] \in Records
    BY DEF Generated, Typed, Befores, Contents
  <2>2. PICK R \in [States -> Contents], M \in Manifests : Leads(R, M) /\ Goal(R, M)
    BY DEF Generated, InProgress
  <2>3. ~Pending(d)
    BY <2>1, <2>2 DEF Goal, Faithful, HashBefore
  <2>4. writes # <<>> => Head(writes).file # d
    BY <2>1, <2>3, FirstIsPending
  <2>5. CASE Truncate \/ Fill
    <3>1. writes # <<>>
      BY <2>1, <2>5 DEF Truncate, Fill, Typed
    <3> QED BY <2>1, <2>4, <2>5, <3>1 DEF Truncate, Fill, Put, Typed
  <2>6. CASE UNCHANGED record
    BY <2>6
  <2> QED
    BY <2>5, <2>6 DEF Next, Run, RefuseRun, StartRun, EndRun, Crash, EditTree, UpdateDossier,
                      EditOwned, Curate, Edit, Restore, vars, files
<1> QED BY <1>1, Invariance, PTL DEF Spec, HandEditNotOverwritten
=============================================================================
