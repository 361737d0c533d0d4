--------------------------- MODULE BundleResolver ---------------------------
(***************************************************************************)
(* tools/ecl_resolve.py: a project resolves its publisher policy to an     *)
(* exact bundle and writes ecl.lock, reading channel, manifest, component  *)
(* files, review record and frozen inputs one after the other, while the   *)
(* maintainers publish bundles, move channels, complete reviews and edit   *)
(* files of the same tree.                                                 *)
(*                                                                         *)
(* A file's SHA-256 is abstracted to the file's content: two files have    *)
(* the same hash exactly when they have the same bytes.  A component of a  *)
(* bundle is what the manifest says of it: a ref, a path and a hash, each  *)
(* of which may be right or wrong without the others.  The conditions a    *)
(* record must meet beside its bindings (jurisdictions, attack surfaces,   *)
(* reviewer counts, findings) are one flag, complete; the three mechanism  *)
(* files frozen for a review are one content.                              *)
(***************************************************************************)
EXTENDS Naturals, FiniteSets

CONSTANTS
  Names,              \* names of bundle manifests
  Fallback,           \* the name CANONICAL_EMPTY_BUNDLES registers
  Unregistered,       \* a name of the same family that it does not
  Refs,               \* refs of License and Schedule versions
  Paths,              \* paths of their files
  Hashes,             \* contents of such files
  Content,            \* Content[f]: what the file at f was published with
  Major,              \* Major[ref]: its MAJOR, or None if it states none
  ReservedLicense,    \* the License of the registered fallback
  ReservedSchedule,   \* the Schedule of the registered fallback
  Candidates,         \* License contents that are put to a review
  Reviews,            \* review ids
  Specs,              \* contents of the canonical mechanism files
  Shapes,             \* what a maintainer may put in a manifest
  Rewrites,           \* what a component file may be changed to: path, content
  Policies,           \* ecl.toml, with or without --allow-draft
  None,
  Torn,               \* a lock file truncated and not written
  MaxPublished,       \* bound on bundles published
  MaxEdits            \* bound on edits of files meant to be immutable

ASSUME NamesAssumption ==
  /\ {Fallback, Unregistered} \subseteq Names
  /\ None \notin Names

Component == [ref : Refs, path : Paths, sha256 : Hashes]
Reserved  == {ReservedLicense, ReservedSchedule}

ASSUME ComponentAssumption ==
  /\ Reserved \subseteq Component
  /\ Major \in [Refs -> Nat \cup {None}]
  /\ Content \in [Paths -> Hashes]
  /\ Candidates \subseteq Hashes
  /\ Rewrites \subseteq Paths \X Hashes
ASSUME ShapesAssumption ==
  /\ None \notin Reviews
  /\ Shapes \subseteq [claims : Names, operative : BOOLEAN, lic : Component,
                       sched : Component, review : Reviews \cup {None}]
ASSUME PoliciesAssumption ==
  Policies \subseteq [mode : {"pinned", "follow-stable", "latest-stable"},
                      bundle : Names, major : Nat \cup {None},
                      allowDraft : BOOLEAN]
ASSUME BoundsAssumption == MaxPublished \in Nat /\ MaxEdits \in Nat

VARIABLES
  channel,     \* the followed channel: [operative, bundle]
  manifest,    \* manifest[n]: the published manifest file, or None
  file,        \* file[f]: content of the License or Schedule file at f
  canonical,   \* content of the mutable mechanism files
  inputs,      \* inputs[r]: the frozen mechanism files, or None
  record,      \* record[r]: the review record file, or None
  edits,
  policy,      \* the project's policy
  pc,          \* where the project's resolution is
  wanted,      \* the bundle name the resolution was led to, or None
  target,      \* the manifest it has read, or None
  loaded,      \* the record it has read, or None
  lock,        \* ecl.lock: None, Torn, or what was resolved
  written,     \* every lock written under the present policy
  attested,    \* every record content that was ever on disk
  frozenEver   \* every pair of review id and frozen content ever on disk

repoVars    == <<channel, manifest, file, canonical, inputs, record, edits>>
projectVars == <<policy, pc, wanted, target, loaded, lock, written>>
historyVars == <<attested, frozenEver>>
vars        == <<repoVars, projectVars, historyVars>>

Record   == [review : Reviews, complete : BOOLEAN, lic : Hashes, inputs : Specs]
Manifest == [claims : Names, operative : BOOLEAN, lic : Component,
             sched : Component, review : Reviews \cup {None},
             rec : Record \cup {None}]
Pinned   == [ref : Refs, sha256 : Hashes]
Lock     == [bundle : Names, operative : BOOLEAN, lic : Pinned,
             sched : Pinned, rec : Record \cup {None}]

Init ==
  /\ channel = [operative |-> FALSE, bundle |-> None]
  /\ manifest = [n \in Names |-> None]
  /\ file = Content
  /\ canonical \in Specs
  /\ inputs = [r \in Reviews |-> None]
  /\ record = [r \in Reviews |-> None]
  /\ edits = 0
  /\ policy \in Policies
  /\ pc = "idle" /\ wanted = None /\ target = None /\ loaded = None
  /\ lock = None
  /\ written = {}
  /\ attested = {}
  /\ frozenEver = {}

-----------------------------------------------------------------------------
(***************************************************************************)
(* The resolution.  Any check that fails ends it with exit code 2, and the *)
(* lock file has not been touched.                                         *)
(***************************************************************************)
Goto(step, n, m, r) == pc' = step /\ wanted' = n /\ target' = m /\ loaded' = r
Refuse == Goto("idle", None, None, None)
Check(ok, next) == IF ok THEN Goto(next, wanted, target, loaded) ELSE Refuse

(***************************************************************************)
(* resolve_follow, first half; a pinned policy names its bundle itself.    *)
(***************************************************************************)
ReadChannel ==
  /\ pc = "idle"
  /\ policy.mode # "pinned"
  /\ channel.operative \/ policy.allowDraft
  /\ channel.bundle # None
  /\ Goto("manifest", channel.bundle, None, None)
  /\ UNCHANGED <<repoVars, historyVars, policy, lock, written>>

(* Seeded fault for PinnedNeverMoves: the pin only decides while there is  *)
(* no channel.                                                             *)
ReadPinThroughChannel ==
  /\ pc = "idle"
  /\ policy.mode = "pinned"
  /\ Goto("manifest", IF channel.bundle = None THEN policy.bundle ELSE channel.bundle,
          None, None)
  /\ UNCHANGED <<repoVars, historyVars, policy, lock, written>>

ReadPin ==
  /\ pc = "idle"
  /\ policy.mode = "pinned"
  /\ Goto("manifest", policy.bundle, None, None)
  /\ UNCHANGED <<repoVars, historyVars, policy, lock, written>>

(* Seeded fault for MajorHonoured: the constraint taken as a lower bound.  *)
MajorAtLeast(m) ==
  \/ policy.mode = "pinned"
  \/ /\ Major[m.lic.ref] # None
     /\ policy.major = None \/ policy.major <= Major[m.lic.ref]

(***************************************************************************)
(* major_from_constraint: only "N.x" constrains; "latest", which is also   *)
(* the default, does not, whatever the mode.  A ref that states no MAJOR   *)
(* is refused all the same, unless the policy is pinned.                   *)
(***************************************************************************)
MajorAllowed(m) ==
  \/ policy.mode = "pinned"
  \/ /\ Major[m.lic.ref] # None
     /\ policy.major = None \/ policy.major = Major[m.lic.ref]

(* Two components that share anything.                                     *)
Alike(c, r) == c.ref = r.ref \/ c.path = r.path \/ c.sha256 = r.sha256

(* Seeded fault for FallbackIndivisible: only a component borrowed whole   *)
(* is noticed.                                                             *)
UsesReservedWhole(c) == c \in Reserved

(***************************************************************************)
(* _uses_reserved_fallback_identity: any one of ref, path and hash of any  *)
(* reserved component, whichever slot it was reserved for.                 *)
(***************************************************************************)
UsesReserved(c) == \E r \in Reserved : Alike(c, r)

IsFallback(m) ==
  ~m.operative /\ m.lic = ReservedLicense /\ m.sched = ReservedSchedule

(* Seeded fault for FallbackIndivisible: each slot is compared with the    *)
(* component reserved for that slot alone.                                 *)
IdentityBySlot(m) ==
  IF m.claims = Fallback
    THEN IsFallback(m)
    ELSE /\ m.claims # Unregistered
         /\ ~Alike(m.lic, ReservedLicense)
         /\ ~Alike(m.sched, ReservedSchedule)

(***************************************************************************)
(* validate_bundle_identity: the registered fallback is exactly itself, a  *)
(* name of its family that is not registered is refused, and any other     *)
(* bundle uses nothing of its components in either slot.                   *)
(***************************************************************************)
IdentityValid(m) ==
  IF m.claims = Fallback
    THEN IsFallback(m)
    ELSE /\ m.claims # Unregistered
         /\ ~UsesReserved(m.lic)
         /\ ~UsesReserved(m.sched)

(* Seeded fault for NoDraftUnasked: the channel's flag stands for the       *)
(* bundle's.                                                               *)
ManifestTrusted(m) ==
  /\ m # None
  /\ m.claims = wanted
  /\ MajorAllowed(m)
  /\ IdentityValid(m)

(***************************************************************************)
(* The manifest is read once; what is checked before the next file is read *)
(* depends on nothing else.                                                *)
(***************************************************************************)
ManifestAccepted(m) ==
  /\ m # None
  /\ m.claims = wanted
  /\ m.operative \/ policy.allowDraft
  /\ MajorAllowed(m)
  /\ IdentityValid(m)

ReadManifest ==
  /\ pc = "manifest"
  /\ IF ManifestAccepted(manifest[wanted])
       THEN Goto("license", wanted, manifest[wanted], None) ELSE Refuse
  /\ UNCHANGED <<repoVars, historyVars, policy, lock, written>>

(***************************************************************************)
(* validate_file_reference: the bytes at the path have the hash.           *)
(***************************************************************************)
FileMatches(c) == file[c.path] = c.sha256

HashLicense ==
  /\ pc = "license"
  /\ Check(FileMatches(target.lic), "schedule")
  /\ UNCHANGED <<repoVars, historyVars, policy, lock, written>>

HashSchedule ==
  /\ pc = "schedule"
  /\ Check(FileMatches(target.sched), IF target.operative THEN "hash" ELSE "write")
  /\ UNCHANGED <<repoVars, historyVars, policy, lock, written>>

(***************************************************************************)
(* The record file is read twice: once for its hash, once for its content. *)
(***************************************************************************)
HashMatches(m) ==
  /\ m.review # None
  /\ record[m.review] # None
  /\ record[m.review] = m.rec

HashRecord ==
  /\ pc = "hash"
  /\ Check(HashMatches(target), "record")
  /\ UNCHANGED <<repoVars, historyVars, policy, lock, written>>

(* Seeded fault for OperativeLockReviewed: the License hash is not compared *)
RecordComplete(rec, m) == rec # None /\ rec.complete

(***************************************************************************)
(* validate_legal_review: a completed record that binds the License bytes. *)
(***************************************************************************)
RecordApproves(rec, m) == rec # None /\ rec.complete /\ rec.lic = m.lic.sha256

LoadRecord ==
  /\ pc = "record"
  /\ IF RecordApproves(record[target.review], target)
       THEN Goto("inputs", wanted, target, record[target.review]) ELSE Refuse
  /\ UNCHANGED <<repoVars, historyVars, policy, lock, written>>

(* Seeded fault for HistoricalValidity: compared with the canonical files.  *)
InputsMatchCanonical(rec) == canonical = rec.inputs

(***************************************************************************)
(* The mechanism files are compared as frozen for the review, never as     *)
(* they are now.                                                           *)
(***************************************************************************)
InputsMatch(rec) ==
  inputs[rec.review] # None /\ inputs[rec.review] = rec.inputs

HashInputs ==
  /\ pc = "inputs"
  /\ Check(InputsMatch(loaded), "write")
  /\ UNCHANGED <<repoVars, historyVars, policy, lock, written>>

(***************************************************************************)
(* write_text truncates the lock file, then writes it.                     *)
(***************************************************************************)
TruncateLock ==
  /\ pc = "write"
  /\ Goto("writing", wanted, target, loaded)
  /\ lock' = Torn
  /\ UNCHANGED <<repoVars, historyVars, policy, written>>

Pin(c) == [ref |-> c.ref, sha256 |-> c.sha256]

RenderLock(m) == [bundle |-> m.claims, operative |-> m.operative, lic |-> Pin(m.lic),
                  sched |-> Pin(m.sched), rec |-> m.rec]

WriteLock ==
  /\ pc = "writing"
  /\ Refuse
  /\ lock' = RenderLock(target)
  /\ written' = written \cup {RenderLock(target)}
  /\ UNCHANGED <<repoVars, historyVars, policy>>

Kill ==
  /\ pc # "idle"
  /\ Refuse
  /\ UNCHANGED <<repoVars, historyVars, policy, lock, written>>

EditPolicy(p) ==
  /\ pc = "idle"
  /\ policy # p
  /\ policy' = p
  /\ written' = {}
  /\ UNCHANGED <<repoVars, historyVars, pc, wanted, target, loaded, lock>>

-----------------------------------------------------------------------------
(***************************************************************************)
(* The maintainers.                                                        *)
(***************************************************************************)
EditCanonical(s) ==
  /\ canonical # s
  /\ canonical' = s
  /\ UNCHANGED <<channel, manifest, file, inputs, record, edits,
                 projectVars, historyVars>>

(***************************************************************************)
(* What prepare_legal_review.py does to this tree; see SnapshotPublish.    *)
(***************************************************************************)
FreezeInputs(r) ==
  /\ inputs[r] = None /\ record[r] = None
  /\ inputs' = [inputs EXCEPT ![r] = canonical]
  /\ frozenEver' = frozenEver \cup {<<r, canonical>>}
  /\ UNCHANGED <<channel, manifest, file, canonical, record, edits,
                 projectVars, attested>>

(***************************************************************************)
(* A record is started from the bindings of the frozen inputs ...          *)
(***************************************************************************)
WriteRecord(r, l, c) ==
  /\ inputs[r] # None
  /\ record[r] = None
  /\ record' = [record EXCEPT ![r] =
       [review |-> r, complete |-> c, lic |-> l, inputs |-> inputs[r]]]
  /\ attested' = attested \cup {record'[r]}
  /\ UNCHANGED <<channel, manifest, file, canonical, inputs, edits,
                 projectVars, frozenEver>>

(***************************************************************************)
(* ... and a manifest is published once, with the hash the record then has *)
(***************************************************************************)
PublishBundle(n, s) ==
  /\ manifest[n] = None
  /\ Cardinality({k \in Names : manifest[k] # None}) < MaxPublished
  /\ s.review # None => record[s.review] # None
  /\ manifest' = [manifest EXCEPT ![n] =
       [claims |-> s.claims, operative |-> s.operative, lic |-> s.lic,
        sched |-> s.sched, review |-> s.review,
        rec |-> IF s.review = None THEN None ELSE record[s.review]]]
  /\ UNCHANGED <<channel, file, canonical, inputs, record, edits,
                 projectVars, historyVars>>

MoveChannel(n, op) ==
  /\ manifest[n] # None
  /\ channel # [operative |-> op, bundle |-> n]
  /\ channel' = [operative |-> op, bundle |-> n]
  /\ UNCHANGED <<manifest, file, canonical, inputs, record, edits,
                 projectVars, historyVars>>

(***************************************************************************)
(* Edits of files that no longer change once a bundle relies on them.      *)
(***************************************************************************)
EditComponent(f, h) ==
  /\ edits < MaxEdits
  /\ <<f, h>> \in Rewrites
  /\ file[f] # h
  /\ file' = [file EXCEPT ![f] = h]
  /\ edits' = edits + 1
  /\ UNCHANGED <<channel, manifest, canonical, inputs, record, projectVars,
                 historyVars>>

EditFrozen(r, s) ==
  /\ edits < MaxEdits
  /\ inputs[r] \notin {None, s}
  /\ inputs' = [inputs EXCEPT ![r] = s]
  /\ frozenEver' = frozenEver \cup {<<r, s>>}
  /\ edits' = edits + 1
  /\ UNCHANGED <<channel, manifest, file, canonical, record, projectVars,
                 attested>>

EditRecord(r) ==
  /\ edits < MaxEdits
  /\ record[r] # None
  /\ record' = [record EXCEPT ![r].complete = ~record[r].complete]
  /\ attested' = attested \cup {record'[r]}
  /\ edits' = edits + 1
  /\ UNCHANGED <<channel, manifest, file, canonical, inputs, projectVars,
                 frozenEver>>

Resolve ==
  \/ ReadChannel
  \/ ReadPin
  \/ ReadManifest
  \/ HashLicense
  \/ HashSchedule
  \/ HashRecord
  \/ LoadRecord
  \/ HashInputs
  \/ TruncateLock
  \/ WriteLock
  \/ Kill

Maintain ==
  \/ \E s \in Specs : EditCanonical(s)
  \/ \E r \in Reviews : FreezeInputs(r)
  \/ \E r \in Reviews, l \in Candidates, c \in BOOLEAN : WriteRecord(r, l, c)
  \/ \E n \in Names, s \in Shapes : PublishBundle(n, s)
  \/ \E n \in Names, op \in BOOLEAN : MoveChannel(n, op)
  \/ \E f \in Paths, h \in Hashes : EditComponent(f, h)
  \/ \E r \in Reviews, s \in Specs : EditFrozen(r, s)
  \/ \E r \in Reviews : EditRecord(r)

Next == Resolve \/ Maintain \/ \E p \in Policies : EditPolicy(p)

Spec == Init /\ [][Next]_vars

-----------------------------------------------------------------------------
(***************************************************************************)
(* Properties.                                                             *)
(***************************************************************************)

(***************************************************************************)
(* The state of the tree, of the resolution and of the lock file.          *)
(***************************************************************************)
TypeOK ==
  /\ channel \in [operative : BOOLEAN, bundle : Names \cup {None}]
  /\ manifest \in [Names -> Manifest \cup {None}]
  /\ file \in [Paths -> Hashes]
  /\ canonical \in Specs
  /\ inputs \in [Reviews -> Specs \cup {None}]
  /\ record \in [Reviews -> Record \cup {None}]
  /\ edits \in 0..MaxEdits
  /\ policy \in Policies
  /\ pc \in {"idle", "manifest", "license", "schedule", "hash", "record",
             "inputs", "write", "writing"}
  /\ wanted \in Names \cup {None}
  /\ target \in Manifest \cup {None}
  /\ loaded \in Record \cup {None}
  /\ lock \in Lock \cup {None, Torn}
  /\ written \subseteq Lock
  /\ attested \subseteq Record
  /\ frozenEver \subseteq Reviews \X Specs
  /\ pc \notin {"idle", "manifest"} =>
       target # None /\ target = manifest[wanted] /\ target.claims = wanted

(***************************************************************************)
(* The release gate, seen from the lock file: a lock that says operative   *)
(* names the hash of a record that was on disk, and a complete record of   *)
(* that review, binding that License and mechanism files that really were  *)
(* frozen under its id, was on disk too.  They are the same record unless  *)
(* it was edited between the read for the hash and the read for the        *)
(* content.                                                                *)
(***************************************************************************)
OperativeLockReviewed ==
  \A k \in written : k.operative =>
    /\ k.rec \in attested
    /\ \E rec \in attested :
         /\ rec.review = k.rec.review
         /\ rec.complete
         /\ rec.lic = k.lic.sha256
         /\ <<rec.review, rec.inputs>> \in frozenEver

(***************************************************************************)
(* A pinned policy is not retroactive: however channels move and whatever  *)
(* is published, it resolves to one lock, that of the bundle it names.     *)
(***************************************************************************)
PinnedNeverMoves ==
  policy.mode = "pinned" =>
    \A k, l \in written : k.bundle = policy.bundle /\ k = l

(***************************************************************************)
(* A policy that says "N.x" never gets a License of another MAJOR, though  *)
(* the channel it follows moves to one.                                    *)
(***************************************************************************)
MajorHonoured ==
  policy.mode # "pinned" /\ policy.major # None =>
    \A k \in written : Major[k.lic.ref] = policy.major

(***************************************************************************)
(* Without --allow-draft every lock is of an operative bundle, also when   *)
(* an operative channel is moved to a draft.                               *)
(***************************************************************************)
NoDraftUnasked ==
  ~policy.allowDraft => \A k \in written : k.operative

(***************************************************************************)
(* "A single indivisible namespace": a lock that has the name, a ref or    *)
(* the bytes of a reserved component, in either slot, or that was made     *)
(* from a file at a reserved path, is the lock of the registered fallback, *)
(* whatever has been written to those files in the meantime.               *)
(***************************************************************************)
Borrows(k) ==
  LET m == manifest[k.bundle]
  IN  \/ k.bundle \in {Fallback, Unregistered}
      \/ \E c \in {k.lic, k.sched}, r \in Reserved : c.ref = r.ref \/ c.sha256 = r.sha256
      \/ \E c \in {m.lic, m.sched}, r \in Reserved : c.path = r.path

FallbackIndivisible ==
  \A k \in written : Borrows(k) =>
    /\ k.bundle = Fallback
    /\ ~k.operative
    /\ k.lic = Pin(ReservedLicense)
    /\ k.sched = Pin(ReservedSchedule)

(***************************************************************************)
(* A bundle that validates keeps validating as the project evolves: no     *)
(* edit of the canonical mechanism files, no other review, bundle, channel *)
(* move or policy changes the verdict, only an edit of what it binds.      *)
(***************************************************************************)
Validates(m) ==
  /\ IdentityValid(m)
  /\ FileMatches(m.lic) /\ FileMatches(m.sched)
  /\ m.operative => /\ HashMatches(m)
                    /\ RecordApproves(record[m.review], m)
                    /\ InputsMatch(record[m.review])

HistoricalValidity ==
  [][\A n \in Names :
       manifest[n] # None /\ Validates(manifest[n]) /\ edits' = edits
         => Validates(manifest[n])']_vars

(***************************************************************************)
(* spec/VERSIONING.md, 11: tooling never crosses a legal MAJOR boundary    *)
(* without explicit confirmation.  The confirmation would be an edit of    *)
(* the policy, and an edit of the policy empties written.                  *)
(***************************************************************************)
NoSilentMajorCrossing ==
  \A k, l \in written : k.operative /\ l.operative => Major[k.lic.ref] = Major[l.lic.ref]
=============================================================================
