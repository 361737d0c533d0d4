----------------------------- MODULE StateAbox -----------------------------
(***************************************************************************)
(* tools/migrate_state_abox.py: State dossiers are projected into JSON-LD  *)
(* records whose other fields are curated by hand, under a manifest of     *)
(* hashes of what was generated.  A run reads everything, and then writes  *)
(* file after file, the manifest last; it may stop between two writes, or  *)
(* between truncating a file and writing it.                               *)
(*                                                                         *)
(* The fields the generator owns are two: the name, which a record written *)
(* by hand may have otherwise, and the review date, which stands for those *)
(* that it may not.  The hash of them is their value.  The 90 days that v1 *)
(* added to the review date are one day here.                              *)
(***************************************************************************)
EXTENDS Naturals, Sequences, FiniteSets

CONSTANTS
  NumStates,   \* States, in the order of their dossiers
  Names,
  MaxDate,     \* bound on dates
  None,
  Torn,        \* a file truncated and not written
  MaxEdits,    \* bound on edits by hand
  MaxCrashes   \* bound on runs cut short

ASSUME SizesAssumption ==
  {NumStates, MaxDate, MaxEdits, MaxCrashes} \subseteq Nat

States      == 1..NumStates
Dates       == 0..MaxDate
Projections == [name : Names, rev : Dates]
Records     == [name : Names, rev : Dates, aliases : SUBSET Names,
                class : {"manual", "hot"}, due : 0..(MaxDate + 1) \cup {None},
                reason : BOOLEAN]
Manifests   == [legacy : BOOLEAN, hash : [States -> Projections \cup {None}]]

ASSUME MarksAssumption ==
  /\ Torn # None
  /\ None \notin Projections /\ None \notin Records /\ None \notin Manifests
  /\ None \notin Nat
  /\ Torn \notin Records /\ Torn \notin Manifests

VARIABLES
  dossier,     \* dossier[d]: what the dossier says of the owned fields
  record,      \* record[d]: the JSON-LD record, None or Torn
  manifest,    \* a manifest, None or Torn
  writes,      \* writes of the run in progress: files and new contents
  pc,          \* "idle", "write" (next file) or "fill" (it is truncated)
  before,      \* what a run found when it began; None once it has ended
  exit,        \* exit code of the last run that ended
  edits, crashes,
  synthetic,   \* records whose due date v1 invented and nobody confirmed
  disturbed,   \* an owned field was edited, or a run was cut short
  settled      \* a full run has ended and nothing was edited since

files  == <<record, manifest>>
ghosts == <<synthetic, disturbed, settled>>
vars   == <<dossier, files, writes, pc, before, exit, edits, crashes, ghosts>>

Owned(r) == [name |-> r.name, rev |-> r.rev]

-----------------------------------------------------------------------------
(***************************************************************************)
(* merge.                                                                  *)
(***************************************************************************)
Hash(d)   == IF manifest = None THEN None ELSE manifest.hash[d]
CleanupV1 == manifest # None /\ manifest.legacy

(* Seeded fault for NoSyntheticUnderV2: recognised by the dossier's date.   *)
SyntheticDueOfDossier(d) == dossier[d].rev + 1

(***************************************************************************)
(* The date v1 added is recognised by the review date the record holds.    *)
(***************************************************************************)
SyntheticDue(d) == record[d].rev + 1

(* Seeded fault for CuratedKept: the class and the reason are not looked at *)
LooksSyntheticByDate(d) == record[d].due = SyntheticDue(d)

LooksSynthetic(d) ==
  /\ record[d].class = "manual"
  /\ ~record[d].reason
  /\ record[d].due = SyntheticDue(d)

LegacyName(d) == Hash(d) = None /\ record[d].name # dossier[d].name

Merged(d) ==
  IF record[d] = None
    THEN [name |-> dossier[d].name, rev |-> dossier[d].rev, aliases |-> {},
          class |-> "manual", due |-> None, reason |-> FALSE]
    ELSE [name    |-> dossier[d].name,
          rev     |-> dossier[d].rev,
          aliases |-> record[d].aliases \cup (IF LegacyName(d) THEN {record[d].name} ELSE {}),
          class   |-> record[d].class,
          due     |-> IF CleanupV1 /\ LooksSynthetic(d) THEN None ELSE record[d].due,
          reason  |-> record[d].reason]

(* Seeded fault for HandEditNotOverwritten: an edited name passes.          *)
OwnedConflictOfDate(d) ==
  IF Hash(d) # None THEN record[d].rev # Hash(d).rev
                    ELSE record[d].rev # dossier[d].rev

OwnedConflict(d) ==
  IF Hash(d) # None THEN Owned(record[d]) # Hash(d)
                    ELSE record[d].rev # dossier[d].rev

(***************************************************************************)
(* A conflict, of the owned fields or of the review clock, is collected;   *)
(* one conflict among the selected States and the run writes nothing.      *)
(***************************************************************************)
Conflict(d) ==
  /\ record[d] # None
  /\ \/ OwnedConflict(d)
     \/ Merged(d).due = None /\ Merged(d).class # "manual"
     \/ Merged(d).due # None /\ Merged(d).due < dossier[d].rev

(***************************************************************************)
(* Only a run over all States promotes a v1 manifest.                      *)
(***************************************************************************)
KeepLegacy(partial) == CleanupV1 /\ partial

(* Seeded fault for NoConflictUnprovoked: only full runs update the hashes. *)
NextManifestOfFullRuns(selected, partial) ==
  [legacy |-> KeepLegacy(partial),
   hash   |-> [d \in States |-> IF partial THEN Hash(d) ELSE Owned(Merged(d))]]

(* Seeded fault for Idempotent: the hash of the record that was there.      *)
NextManifestOfOldRecords(selected, partial) ==
  [legacy |-> KeepLegacy(partial),
   hash   |-> [d \in States |->
                 IF d \notin selected THEN Hash(d)
                 ELSE IF record[d] = None THEN Owned(Merged(d))
                 ELSE Owned(record[d])]]

NextManifest(selected, partial) ==
  [legacy |-> KeepLegacy(partial),
   hash   |-> [d \in States |->
                 IF d \in selected THEN Owned(Merged(d)) ELSE Hash(d)]]

(***************************************************************************)
(* What a run writes: records that change, in the order of the dossiers,   *)
(* and the manifest after them.                                            *)
(***************************************************************************)
Changed(selected) == {d \in selected : record[d] # Merged(d)}

InOrder(S) ==
  {f \in [1..Cardinality(S) -> S] :
     \A i, j \in 1..Cardinality(S) : i < j => f[i] < f[j]}

ManifestWrites(next) ==
  IF next = manifest THEN <<>> ELSE << [file |-> 0, content |-> next] >>

Writes(selected, partial) ==
  {[i \in DOMAIN f |-> [file |-> f[i], content |-> Merged(f[i])]]
     \o ManifestWrites(NextManifest(selected, partial)) : f \in InOrder(Changed(selected))}

(***************************************************************************)
(* migrate, with or without --iso3.  A torn file it reads is no JSON.      *)
(***************************************************************************)
Selections == {[states |-> States, partial |-> FALSE]} \cup
              {[states |-> {d}, partial |-> TRUE] : d \in States}

Readable(sel) == manifest # Torn /\ \A d \in sel.states : record[d] # Torn

Accepted(sel) == Readable(sel) /\ \A d \in sel.states : ~Conflict(d)

RefuseRun(sel) ==
  /\ pc = "idle"
  /\ ~Accepted(sel)
  /\ exit' = 2
  /\ UNCHANGED <<dossier, files, writes, pc, before, edits, crashes, ghosts>>

StartRun(sel) ==
  /\ pc = "idle"
  /\ Accepted(sel)
  /\ writes' \in Writes(sel.states, sel.partial)
  /\ pc' = "write"
  /\ before' = [record |-> record, manifest |-> manifest, full |-> ~sel.partial,
                synthetic |-> synthetic, disturbed |-> disturbed]
  /\ UNCHANGED <<dossier, files, exit, edits, crashes, ghosts>>

Put(file, content) ==
  IF file = 0 THEN manifest' = content /\ UNCHANGED record
              ELSE record' = [record EXCEPT ![file] = content] /\ UNCHANGED manifest

Truncate ==
  /\ pc = "write"
  /\ writes # <<>>
  /\ Put(Head(writes).file, Torn)
  /\ pc' = "fill"
  /\ UNCHANGED <<dossier, writes, before, exit, edits, crashes, ghosts>>

Fill ==
  /\ pc = "fill"
  /\ Put(Head(writes).file, Head(writes).content)
  /\ synthetic' = IF Head(writes).file # 0 /\ Head(writes).content.due = None
                    THEN synthetic \ {Head(writes).file} ELSE synthetic
  /\ writes' = Tail(writes)
  /\ pc' = "write"
  /\ UNCHANGED <<dossier, before, exit, edits, crashes, disturbed, settled>>

(***************************************************************************)
(* At its end a run reads the records of all States again, and a torn one  *)
(* makes it fail although it has written everything.                       *)
(***************************************************************************)
Scan == IF \E d \in States : record[d] = Torn THEN 2 ELSE 0

(* Seeded fault for TypeOK: the run ends with one write left.               *)
EndRunEarly ==
  /\ pc = "write"
  /\ Len(writes) <= 1
  /\ pc' = "idle"
  /\ before' = None
  /\ exit' = Scan
  /\ settled' = (settled \/ before.full)
  /\ UNCHANGED <<dossier, files, writes, edits, crashes, synthetic, disturbed>>

EndRun ==
  /\ pc = "write"
  /\ writes = <<>>
  /\ pc' = "idle"
  /\ before' = None
  /\ exit' = Scan
  /\ settled' = (settled \/ before.full)
  /\ UNCHANGED <<dossier, files, writes, edits, crashes, synthetic, disturbed>>

Crash ==
  /\ pc # "idle"
  /\ crashes < MaxCrashes
  /\ crashes' = crashes + 1
  /\ pc' = "idle"
  /\ writes' = <<>>
  /\ disturbed' = TRUE
  /\ settled' = FALSE
  /\ UNCHANGED <<dossier, files, before, exit, edits, synthetic>>

-----------------------------------------------------------------------------
(***************************************************************************)
(* People edit the tree while no run is in progress.                       *)
(***************************************************************************)
Edit ==
  /\ pc = "idle"
  /\ edits < MaxEdits
  /\ edits' = edits + 1
  /\ before' = None
  /\ settled' = FALSE
  /\ UNCHANGED <<writes, pc, exit, crashes>>

UpdateDossier(d, p) ==
  /\ Edit
  /\ p # dossier[d] /\ p.rev >= dossier[d].rev
  /\ dossier' = [dossier EXCEPT ![d] = p]
  /\ UNCHANGED <<files, synthetic, disturbed>>

WithCurated(r, class, due, reason) ==
  [name |-> r.name, rev |-> r.rev, aliases |-> r.aliases,
   class |-> class, due |-> due, reason |-> reason]

Curate(d, class, due, reason) ==
  /\ Edit
  /\ record[d] \notin {None, Torn}
  /\ record' = [record EXCEPT ![d] = WithCurated(@, class, due, reason)]
  /\ record' # record
  /\ synthetic' = synthetic \ {d}
  /\ UNCHANGED <<dossier, manifest, disturbed>>

WithOwned(r, p) ==
  [name |-> p.name, rev |-> p.rev, aliases |-> r.aliases,
   class |-> r.class, due |-> r.due, reason |-> r.reason]

EditOwned(d, p) ==
  /\ Edit
  /\ record[d] \notin {None, Torn}
  /\ Owned(record[d]) # p
  /\ record' = [record EXCEPT ![d] = WithOwned(@, p)]
  /\ disturbed' = TRUE
  /\ UNCHANGED <<dossier, manifest, synthetic>>

(***************************************************************************)
(* git restores the files of a run that was cut short.                     *)
(***************************************************************************)
Restore ==
  /\ pc = "idle"
  /\ before # None
  /\ record' = before.record
  /\ manifest' = before.manifest
  /\ synthetic' = before.synthetic
  /\ disturbed' = before.disturbed
  /\ before' = None
  /\ settled' = FALSE
  /\ UNCHANGED <<dossier, writes, pc, exit, edits, crashes>>

-----------------------------------------------------------------------------
(***************************************************************************)
(* The tree may hold records v1 generated, under its manifest, records     *)
(* written by hand before there was a generator, and States without any.   *)
(***************************************************************************)
GeneratedByV1(p) ==
  [name |-> p.name, rev |-> p.rev, aliases |-> {}, class |-> "manual",
   due |-> p.rev + 1, reason |-> FALSE]

WrittenByHand(n, p) ==
  [name |-> n, rev |-> p.rev, aliases |-> {}, class |-> "hot",
   due |-> MaxDate, reason |-> TRUE]

Init ==
  /\ dossier \in [States -> {p \in Projections : p.rev = 0}]
  /\ \E v1 \in SUBSET States : \E hand \in SUBSET (States \ v1), n \in Names :
       /\ record = [d \in States |->
            IF d \in v1 THEN GeneratedByV1(dossier[d])
            ELSE IF d \in hand THEN WrittenByHand(n, dossier[d]) ELSE None]
       /\ manifest = IF v1 = {} THEN None ELSE
            [legacy |-> TRUE,
             hash |-> [d \in States |-> IF d \in v1 THEN dossier[d] ELSE None]]
       /\ synthetic = v1
  /\ writes = <<>>
  /\ pc = "idle"
  /\ before = None
  /\ exit = 0
  /\ edits = 0 /\ crashes = 0
  /\ disturbed = FALSE /\ settled = FALSE

Run ==
  \/ \E sel \in Selections : RefuseRun(sel) \/ StartRun(sel)
  \/ Truncate
  \/ Fill
  \/ EndRun

EditTree ==
  \/ \E d \in States, p \in Projections : UpdateDossier(d, p) \/ EditOwned(d, p)
  \/ \E d \in States, class \in {"manual", "hot"},
        due \in 0..(MaxDate + 1) \cup {None}, reason \in BOOLEAN :
       Curate(d, class, due, reason)
  \/ Restore

Next == Run \/ Crash \/ EditTree

Spec == Init /\ [][Next]_vars

-----------------------------------------------------------------------------
(***************************************************************************)
(* Properties.                                                             *)
(***************************************************************************)

(***************************************************************************)
(* Types; a torn file is one a run truncated, and was stopped at.          *)
(***************************************************************************)
TypeOK ==
  /\ dossier \in [States -> Projections]
  /\ record \in [States -> Records \cup {None, Torn}]
  /\ manifest \in Manifests \cup {None, Torn}
  /\ pc \in {"idle", "write", "fill"}
  /\ \A i \in 1..Len(writes) : writes[i].file \in 0..NumStates
  /\ pc = "idle" => writes = <<>>
  /\ pc = "fill" => writes # <<>>
  /\ exit \in {0, 2}
  /\ synthetic \subseteq States
  /\ disturbed \in BOOLEAN /\ settled \in BOOLEAN
  /\ edits \in 0..MaxEdits /\ crashes \in 0..MaxCrashes
  /\ pc = "idle" /\ (manifest = Torn \/ \E d \in States : record[d] = Torn) =>
       crashes > 0

(***************************************************************************)
(* "Only a full-corpus pass is allowed to promote to v2": once the         *)
(* manifest says v2 no record holds a due date that v1 invented, whatever  *)
(* partial runs, crashes and moved review dates came before.               *)
(***************************************************************************)
NoSyntheticUnderV2 ==
  manifest \notin {None, Torn} /\ ~manifest.legacy => synthetic = {}

(***************************************************************************)
(* Unless an owned field was edited by hand or a run was cut short, the    *)
(* record of every State in the manifest has the hash the manifest gives:  *)
(* the conflict it detects is never of the generator's own making.         *)
(***************************************************************************)
NoConflictUnprovoked ==
  pc = "idle" /\ ~disturbed /\ manifest # None =>
    \A d \in States : manifest.hash[d] # None =>
      record[d] # None /\ Owned(record[d]) = manifest.hash[d]

(***************************************************************************)
(* "checked-in records are current and idempotent": after a full run,      *)
(* --check finds neither a conflict nor anything to write.                 *)
(***************************************************************************)
Idempotent ==
  pc = "idle" /\ settled =>
    /\ \A d \in States : ~Conflict(d)
    /\ Changed(States) = {} /\ NextManifest(States, FALSE) = manifest

(***************************************************************************)
(* A run keeps what is curated: class, reason, aliases and due date, but   *)
(* for the dates v1 invented, and a name written by hand stays as alias.   *)
(***************************************************************************)
Keeps(new, old, h, legacy) ==
  /\ new.class = old.class /\ new.reason = old.reason
  /\ old.aliases \subseteq new.aliases
  /\ h = None => old.name \in new.aliases \cup {new.name}
  /\ \/ new.due = old.due
     \/ legacy /\ old.class = "manual" /\ ~old.reason /\ old.due = old.rev + 1

CuratedKept ==
  [][\A d \in States :
       /\ pc = "fill" /\ pc' = "write"
       /\ Head(writes).file = d
       /\ before.record[d] # None
       => Keeps(record'[d], before.record[d],
                IF before.manifest = None THEN None ELSE before.manifest.hash[d],
                before.manifest # None /\ before.manifest.legacy)]_vars

(***************************************************************************)
(* "refuses to overwrite it": while a record differs from the hash of the  *)
(* manifest, no run changes that record.                                   *)
(***************************************************************************)
HandEditNotOverwritten ==
  [][\A d \in States :
       /\ pc # "idle"
       /\ before.manifest # None /\ before.manifest.hash[d] # None
       /\ before.record[d] \notin {None, Torn}
       /\ Owned(before.record[d]) # before.manifest.hash[d]
       => record'[d] = record[d]]_vars
=============================================================================
