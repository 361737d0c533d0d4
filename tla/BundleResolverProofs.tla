------------------------ MODULE BundleResolverProofs ------------------------
(***************************************************************************)
(* Proofs about BundleResolver, for every set of names, components,        *)
(* reviews, shapes of manifest and policies, and however many edits.       *)
(***************************************************************************)
EXTENDS BundleResolver, TLAPS

Reading == {"license", "schedule", "hash", "record", "inputs", "write", "writing"}

(***************************************************************************)
(* What the resolution knows at each of its steps: the manifest it works   *)
(* on has passed, and, for an operative bundle, the record it hashed, the  *)
(* record it loaded and the inputs it compared have all been on disk.      *)
(***************************************************************************)
Chosen ==
  /\ pc # "idle" /\ policy.mode = "pinned" => wanted = policy.bundle
  /\ pc = "manifest" => wanted \in Names
  /\ pc \in Reading => ManifestAccepted(target)
  /\ pc \in {"hash", "record", "inputs"} => target.operative

Hashed ==
  pc \in {"record", "inputs", "write", "writing"} /\ target.operative =>
    /\ target.review \in Reviews
    /\ target.rec \in attested
    /\ target.rec.review = target.review

Approved ==
  pc \in {"inputs", "write", "writing"} /\ target.operative =>
    /\ loaded \in attested
    /\ loaded.review = target.review
    /\ loaded.complete
    /\ loaded.lic = target.lic.sha256

Compared ==
  pc \in {"write", "writing"} /\ target.operative =>
    <<loaded.review, loaded.inputs>> \in frozenEver

(***************************************************************************)
(* What is on disk has been on disk, under its own review id.              *)
(***************************************************************************)
RecordsKept ==
  \A r \in Reviews : record[r] # None => record[r] \in attested /\ record[r].review = r

InputsKept == \A r \in Reviews : inputs[r] # None => <<r, inputs[r]>> \in frozenEver

(***************************************************************************)
(* Every lock of the present policy renders a manifest that is still there *)
(* and that the policy admits.                                             *)
(***************************************************************************)
Justified(k) ==
  /\ k \in Lock
  /\ manifest[k.bundle] # None
  /\ k = RenderLock(manifest[k.bundle])
  /\ k.operative \/ policy.allowDraft
  /\ MajorAllowed(manifest[k.bundle])
  /\ IdentityValid(manifest[k.bundle])
  /\ policy.mode = "pinned" => k.bundle = policy.bundle

LocksJustified == \A k \in written : Justified(k)

IInv ==
  /\ TypeOK
  /\ Chosen
  /\ Hashed
  /\ Approved
  /\ Compared
  /\ RecordsKept
  /\ InputsKept
  /\ LocksJustified
  /\ OperativeLockReviewed

(***************************************************************************)
(* Every step keeps the types.                                             *)
(***************************************************************************)
LEMMA TypeStep ==
  ASSUME IInv, [Next]_vars
  PROVE  TypeOK'
<1> USE DEF IInv
<1>1. CASE ReadChannel
  BY <1>1 DEF TypeOK, Goto, ReadChannel, repoVars, historyVars
<1>2. CASE ReadPin
  BY PoliciesAssumption, <1>2 DEF TypeOK, Goto, ReadPin, repoVars,
     historyVars
<1>3. CASE ReadManifest
  BY <1>3 DEF TypeOK, Goto, Refuse, ReadManifest, repoVars, historyVars,
     Chosen, Reading, ManifestAccepted, Record, Manifest, Lock
<1>4. CASE HashLicense
  BY <1>4 DEF TypeOK, Goto, Check, Refuse, HashLicense, repoVars,
     historyVars
<1>5. CASE HashSchedule
  BY <1>5 DEF TypeOK, Goto, Check, Refuse, HashSchedule, repoVars,
     historyVars
<1>6. CASE HashRecord
  BY <1>6 DEF TypeOK, Goto, Check, Refuse, HashRecord, repoVars, historyVars
<1>7. CASE LoadRecord
  BY <1>7 DEF TypeOK, Goto, Refuse, LoadRecord, repoVars, historyVars,
     Chosen, Hashed, RecordApproves
<1>8. CASE HashInputs
  BY <1>8 DEF TypeOK, Goto, Check, Refuse, HashInputs, repoVars, historyVars
<1>9. CASE TruncateLock
  BY <1>9 DEF TypeOK, Goto, TruncateLock, repoVars, historyVars
<1>10. CASE WriteLock
  <2>1. target \in Manifest
    BY <1>10 DEF TypeOK, WriteLock
  <2>2. RenderLock(target) \in Lock
    BY <2>1 DEF RenderLock, Pin, Lock, Manifest, Component, Pinned
  <2>3. QED
    BY <2>2, <1>10 DEF TypeOK, Goto, Refuse, WriteLock, repoVars, historyVars
<1>11. CASE Kill
  BY <1>11 DEF TypeOK, Goto, Refuse, Kill, repoVars, historyVars
<1>12. ASSUME NEW s \in Specs, EditCanonical(s)
      PROVE  TypeOK'
  BY <1>12 DEF TypeOK, EditCanonical, projectVars, historyVars
<1>13. ASSUME NEW r \in Reviews, FreezeInputs(r)
      PROVE  TypeOK'
  BY <1>13 DEF TypeOK, FreezeInputs, projectVars
<1>14. ASSUME NEW r \in Reviews, NEW l \in Candidates, NEW c \in BOOLEAN, WriteRecord(r, l, c)
      PROVE  TypeOK'
  BY ComponentAssumption, <1>14 DEF TypeOK, WriteRecord, projectVars, Record
<1>15. ASSUME NEW n \in Names, NEW s \in Shapes, PublishBundle(n, s)
      PROVE  TypeOK'
  BY ShapesAssumption, <1>15 DEF TypeOK, PublishBundle, projectVars,
     historyVars, Manifest, Record
<1>16. ASSUME NEW n \in Names, NEW op \in BOOLEAN, MoveChannel(n, op)
      PROVE  TypeOK'
  BY <1>16 DEF TypeOK, MoveChannel, projectVars, historyVars
<1>17. ASSUME NEW f \in Paths, NEW h \in Hashes, EditComponent(f, h)
      PROVE  TypeOK'
  BY BoundsAssumption, <1>17 DEF TypeOK, EditComponent, projectVars,
     historyVars
<1>18. ASSUME NEW r \in Reviews, NEW s \in Specs, EditFrozen(r, s)
      PROVE  TypeOK'
  BY BoundsAssumption, <1>18 DEF TypeOK, EditFrozen, projectVars
<1>19. ASSUME NEW r \in Reviews, EditRecord(r)
      PROVE  TypeOK'
  <2>1. record[r] \in Record
    BY <1>19 DEF TypeOK, EditRecord
  <2>2. record'[r] = [record[r] EXCEPT !.complete = ~record[r].complete]
    BY <1>19 DEF TypeOK, EditRecord
  <2>3. record'[r] \in Record
    BY <2>1, <2>2 DEF Record
  <2>4. \A q \in Reviews \ {r} : record'[q] = record[q]
    BY <1>19 DEF TypeOK, EditRecord
  <2>5. record' \in [Reviews -> Record \cup {None}]
    BY <2>3, <2>4, <1>19 DEF TypeOK, EditRecord
  <2>6. attested' \subseteq Record
    BY <2>3, <1>19 DEF TypeOK, EditRecord
  <2>7. edits' \in 0..MaxEdits
    BY BoundsAssumption, <1>19 DEF TypeOK, EditRecord
  <2>8. QED
    BY <2>5, <2>6, <2>7, <1>19 DEF TypeOK, EditRecord, projectVars, Manifest
<1>20. ASSUME NEW p \in Policies, EditPolicy(p)
      PROVE  TypeOK'
  BY <1>20 DEF TypeOK, EditPolicy, repoVars, historyVars
<1>21. CASE UNCHANGED vars
  BY <1>21 DEF TypeOK, vars, repoVars, projectVars, historyVars
<1>22. QED
  BY <1>1, <1>2, <1>3, <1>4, <1>5, <1>6, <1>7, <1>8, <1>9, <1>10, <1>11,
     <1>12, <1>13, <1>14, <1>15, <1>16, <1>17, <1>18, <1>19, <1>20, <1>21
     DEF Next, Resolve, Maintain

(***************************************************************************)
(* The manifest stays the one that passed.                                 *)
(***************************************************************************)
LEMMA ChosenStep ==
  ASSUME IInv, [Next]_vars
  PROVE  Chosen'
<1> USE DEF IInv
<1>1. CASE ReadChannel
  BY <1>1 DEF TypeOK, Chosen, Reading, ManifestAccepted, MajorAllowed,
     IdentityValid, Goto, ReadChannel, repoVars, historyVars
<1>2. CASE ReadPin
  BY PoliciesAssumption, <1>2 DEF TypeOK, Chosen, Reading, ManifestAccepted,
     MajorAllowed, IdentityValid, Goto, ReadPin, repoVars, historyVars
<1>3. CASE ReadManifest
  BY <1>3 DEF TypeOK, Chosen, Reading, ManifestAccepted, MajorAllowed,
     IdentityValid, Goto, Refuse, ReadManifest, repoVars, historyVars
<1>4. CASE HashLicense
  BY <1>4 DEF TypeOK, Chosen, Reading, ManifestAccepted, MajorAllowed,
     IdentityValid, Goto, Check, Refuse, HashLicense, repoVars, historyVars
<1>5. CASE HashSchedule
  BY <1>5 DEF TypeOK, Chosen, Reading, ManifestAccepted, MajorAllowed,
     IdentityValid, Goto, Check, Refuse, HashSchedule, repoVars, historyVars
<1>6. CASE HashRecord
  BY <1>6 DEF TypeOK, Chosen, Reading, ManifestAccepted, MajorAllowed,
     IdentityValid, Goto, Check, Refuse, HashRecord, repoVars, historyVars
<1>7. CASE LoadRecord
  BY <1>7 DEF TypeOK, Chosen, Reading, ManifestAccepted, MajorAllowed,
     IdentityValid, Goto, Refuse, LoadRecord, repoVars, historyVars
<1>8. CASE HashInputs
  BY <1>8 DEF TypeOK, Chosen, Reading, ManifestAccepted, MajorAllowed,
     IdentityValid, Goto, Check, Refuse, HashInputs, repoVars, historyVars
<1>9. CASE TruncateLock
  BY <1>9 DEF TypeOK, Chosen, Reading, ManifestAccepted, MajorAllowed,
     IdentityValid, Goto, TruncateLock, repoVars, historyVars
<1>10. CASE WriteLock
  BY <1>10 DEF TypeOK, Chosen, Reading, ManifestAccepted, MajorAllowed,
     IdentityValid, Goto, Refuse, WriteLock, repoVars, historyVars
<1>11. CASE Kill
  BY <1>11 DEF TypeOK, Chosen, Reading, ManifestAccepted, MajorAllowed,
     IdentityValid, Goto, Refuse, Kill, repoVars, historyVars
<1>12. ASSUME NEW s \in Specs, EditCanonical(s)
      PROVE  Chosen'
  BY <1>12 DEF TypeOK, Chosen, Reading, ManifestAccepted, MajorAllowed,
     IdentityValid, EditCanonical, projectVars, historyVars
<1>13. ASSUME NEW r \in Reviews, FreezeInputs(r)
      PROVE  Chosen'
  BY <1>13 DEF TypeOK, Chosen, Reading, ManifestAccepted, MajorAllowed,
     IdentityValid, FreezeInputs, projectVars
<1>14. ASSUME NEW r \in Reviews, NEW l \in Candidates, NEW c \in BOOLEAN, WriteRecord(r, l, c)
      PROVE  Chosen'
  BY <1>14 DEF TypeOK, Chosen, Reading, ManifestAccepted, MajorAllowed,
     IdentityValid, WriteRecord, projectVars
<1>15. ASSUME NEW n \in Names, NEW s \in Shapes, PublishBundle(n, s)
      PROVE  Chosen'
  BY <1>15 DEF TypeOK, Chosen, Reading, ManifestAccepted, MajorAllowed,
     IdentityValid, PublishBundle, projectVars, historyVars
<1>16. ASSUME NEW n \in Names, NEW op \in BOOLEAN, MoveChannel(n, op)
      PROVE  Chosen'
  BY <1>16 DEF TypeOK, Chosen, Reading, ManifestAccepted, MajorAllowed,
     IdentityValid, MoveChannel, projectVars, historyVars
<1>17. ASSUME NEW f \in Paths, NEW h \in Hashes, EditComponent(f, h)
      PROVE  Chosen'
  BY <1>17 DEF TypeOK, Chosen, Reading, ManifestAccepted, MajorAllowed,
     IdentityValid, EditComponent, projectVars, historyVars
<1>18. ASSUME NEW r \in Reviews, NEW s \in Specs, EditFrozen(r, s)
      PROVE  Chosen'
  BY <1>18 DEF TypeOK, Chosen, Reading, ManifestAccepted, MajorAllowed,
     IdentityValid, EditFrozen, projectVars
<1>19. ASSUME NEW r \in Reviews, EditRecord(r)
      PROVE  Chosen'
  BY <1>19 DEF TypeOK, Chosen, Reading, ManifestAccepted, MajorAllowed,
     IdentityValid, EditRecord, projectVars
<1>20. ASSUME NEW p \in Policies, EditPolicy(p)
      PROVE  Chosen'
  BY <1>20 DEF TypeOK, Chosen, Reading, ManifestAccepted, MajorAllowed,
     IdentityValid, EditPolicy, repoVars, historyVars
<1>21. CASE UNCHANGED vars
  BY <1>21 DEF TypeOK, Chosen, Reading, ManifestAccepted, MajorAllowed,
     IdentityValid, vars, repoVars, projectVars, historyVars
<1>22. QED
  BY <1>1, <1>2, <1>3, <1>4, <1>5, <1>6, <1>7, <1>8, <1>9, <1>10, <1>11,
     <1>12, <1>13, <1>14, <1>15, <1>16, <1>17, <1>18, <1>19, <1>20, <1>21
     DEF Next, Resolve, Maintain

(***************************************************************************)
(* The record hashed was on disk.                                          *)
(***************************************************************************)
LEMMA HashedStep ==
  ASSUME IInv, [Next]_vars
  PROVE  Hashed'
<1> USE DEF IInv
<1>1. CASE ReadChannel
  BY <1>1 DEF TypeOK, Hashed, Goto, ReadChannel, repoVars, historyVars
<1>2. CASE ReadPin
  BY <1>2 DEF TypeOK, Hashed, Goto, ReadPin, repoVars, historyVars
<1>3. CASE ReadManifest
  BY <1>3 DEF TypeOK, Hashed, Goto, Refuse, ReadManifest, repoVars,
     historyVars
<1>4. CASE HashLicense
  BY <1>4 DEF TypeOK, Hashed, Goto, Check, Refuse, HashLicense, repoVars,
     historyVars
<1>5. CASE HashSchedule
  BY <1>5 DEF TypeOK, Hashed, Goto, Check, Refuse, HashSchedule, repoVars,
     historyVars
<1>6. CASE HashRecord
  BY ShapesAssumption, <1>6 DEF TypeOK, Hashed, Goto, Check, Refuse,
     HashRecord, repoVars, historyVars, RecordsKept, HashMatches, Chosen,
     Reading, ManifestAccepted, Manifest
<1>7. CASE LoadRecord
  BY <1>7 DEF TypeOK, Hashed, Goto, Refuse, LoadRecord, repoVars,
     historyVars
<1>8. CASE HashInputs
  BY <1>8 DEF TypeOK, Hashed, Goto, Check, Refuse, HashInputs, repoVars,
     historyVars
<1>9. CASE TruncateLock
  BY <1>9 DEF TypeOK, Hashed, Goto, TruncateLock, repoVars, historyVars
<1>10. CASE WriteLock
  BY <1>10 DEF TypeOK, Hashed, Goto, Refuse, WriteLock, repoVars,
     historyVars
<1>11. CASE Kill
  BY <1>11 DEF TypeOK, Hashed, Goto, Refuse, Kill, repoVars, historyVars
<1>12. ASSUME NEW s \in Specs, EditCanonical(s)
      PROVE  Hashed'
  BY <1>12 DEF TypeOK, Hashed, EditCanonical, projectVars, historyVars
<1>13. ASSUME NEW r \in Reviews, FreezeInputs(r)
      PROVE  Hashed'
  BY <1>13 DEF TypeOK, Hashed, FreezeInputs, projectVars
<1>14. ASSUME NEW r \in Reviews, NEW l \in Candidates, NEW c \in BOOLEAN, WriteRecord(r, l, c)
      PROVE  Hashed'
  BY <1>14 DEF TypeOK, Hashed, WriteRecord, projectVars
<1>15. ASSUME NEW n \in Names, NEW s \in Shapes, PublishBundle(n, s)
      PROVE  Hashed'
  BY <1>15 DEF TypeOK, Hashed, PublishBundle, projectVars, historyVars
<1>16. ASSUME NEW n \in Names, NEW op \in BOOLEAN, MoveChannel(n, op)
      PROVE  Hashed'
  BY <1>16 DEF TypeOK, Hashed, MoveChannel, projectVars, historyVars
<1>17. ASSUME NEW f \in Paths, NEW h \in Hashes, EditComponent(f, h)
      PROVE  Hashed'
  BY <1>17 DEF TypeOK, Hashed, EditComponent, projectVars, historyVars
<1>18. ASSUME NEW r \in Reviews, NEW s \in Specs, EditFrozen(r, s)
      PROVE  Hashed'
  BY <1>18 DEF TypeOK, Hashed, EditFrozen, projectVars
<1>19. ASSUME NEW r \in Reviews, EditRecord(r)
      PROVE  Hashed'
  BY <1>19 DEF TypeOK, Hashed, EditRecord, projectVars
<1>20. ASSUME NEW p \in Policies, EditPolicy(p)
      PROVE  Hashed'
  BY <1>20 DEF TypeOK, Hashed, EditPolicy, repoVars, historyVars
<1>21. CASE UNCHANGED vars
  BY <1>21 DEF TypeOK, Hashed, vars, repoVars, projectVars, historyVars
<1>22. QED
  BY <1>1, <1>2, <1>3, <1>4, <1>5, <1>6, <1>7, <1>8, <1>9, <1>10, <1>11,
     <1>12, <1>13, <1>14, <1>15, <1>16, <1>17, <1>18, <1>19, <1>20, <1>21
     DEF Next, Resolve, Maintain

(***************************************************************************)
(* The record loaded was on disk, complete, and bound the License.         *)
(***************************************************************************)
LEMMA ApprovedStep ==
  ASSUME IInv, [Next]_vars
  PROVE  Approved'
<1> USE DEF IInv
<1>1. CASE ReadChannel
  BY <1>1 DEF TypeOK, Approved, Goto, ReadChannel, repoVars, historyVars
<1>2. CASE ReadPin
  BY <1>2 DEF TypeOK, Approved, Goto, ReadPin, repoVars, historyVars
<1>3. CASE ReadManifest
  BY <1>3 DEF TypeOK, Approved, Goto, Refuse, ReadManifest, repoVars,
     historyVars
<1>4. CASE HashLicense
  BY <1>4 DEF TypeOK, Approved, Goto, Check, Refuse, HashLicense, repoVars,
     historyVars
<1>5. CASE HashSchedule
  BY <1>5 DEF TypeOK, Approved, Goto, Check, Refuse, HashSchedule, repoVars,
     historyVars
<1>6. CASE HashRecord
  BY <1>6 DEF TypeOK, Approved, Goto, Check, Refuse, HashRecord, repoVars,
     historyVars
<1>7. CASE LoadRecord
  BY <1>7 DEF TypeOK, Approved, Goto, Refuse, LoadRecord, repoVars,
     historyVars, Hashed, RecordsKept, RecordApproves
<1>8. CASE HashInputs
  BY <1>8 DEF TypeOK, Approved, Goto, Check, Refuse, HashInputs, repoVars,
     historyVars
<1>9. CASE TruncateLock
  BY <1>9 DEF TypeOK, Approved, Goto, TruncateLock, repoVars, historyVars
<1>10. CASE WriteLock
  BY <1>10 DEF TypeOK, Approved, Goto, Refuse, WriteLock, repoVars,
     historyVars
<1>11. CASE Kill
  BY <1>11 DEF TypeOK, Approved, Goto, Refuse, Kill, repoVars, historyVars
<1>12. ASSUME NEW s \in Specs, EditCanonical(s)
      PROVE  Approved'
  BY <1>12 DEF TypeOK, Approved, EditCanonical, projectVars, historyVars
<1>13. ASSUME NEW r \in Reviews, FreezeInputs(r)
      PROVE  Approved'
  BY <1>13 DEF TypeOK, Approved, FreezeInputs, projectVars
<1>14. ASSUME NEW r \in Reviews, NEW l \in Candidates, NEW c \in BOOLEAN, WriteRecord(r, l, c)
      PROVE  Approved'
  BY <1>14 DEF TypeOK, Approved, WriteRecord, projectVars
<1>15. ASSUME NEW n \in Names, NEW s \in Shapes, PublishBundle(n, s)
      PROVE  Approved'
  BY <1>15 DEF TypeOK, Approved, PublishBundle, projectVars, historyVars
<1>16. ASSUME NEW n \in Names, NEW op \in BOOLEAN, MoveChannel(n, op)
      PROVE  Approved'
  BY <1>16 DEF TypeOK, Approved, MoveChannel, projectVars, historyVars
<1>17. ASSUME NEW f \in Paths, NEW h \in Hashes, EditComponent(f, h)
      PROVE  Approved'
  BY <1>17 DEF TypeOK, Approved, EditComponent, projectVars, historyVars
<1>18. ASSUME NEW r \in Reviews, NEW s \in Specs, EditFrozen(r, s)
      PROVE  Approved'
  BY <1>18 DEF TypeOK, Approved, EditFrozen, projectVars
<1>19. ASSUME NEW r \in Reviews, EditRecord(r)
      PROVE  Approved'
  BY <1>19 DEF TypeOK, Approved, EditRecord, projectVars
<1>20. ASSUME NEW p \in Policies, EditPolicy(p)
      PROVE  Approved'
  BY <1>20 DEF TypeOK, Approved, EditPolicy, repoVars, historyVars
<1>21. CASE UNCHANGED vars
  BY <1>21 DEF TypeOK, Approved, vars, repoVars, projectVars, historyVars
<1>22. QED
  BY <1>1, <1>2, <1>3, <1>4, <1>5, <1>6, <1>7, <1>8, <1>9, <1>10, <1>11,
     <1>12, <1>13, <1>14, <1>15, <1>16, <1>17, <1>18, <1>19, <1>20, <1>21
     DEF Next, Resolve, Maintain

(***************************************************************************)
(* The inputs compared were frozen under the record's review id.           *)
(***************************************************************************)
LEMMA ComparedStep ==
  ASSUME IInv, [Next]_vars
  PROVE  Compared'
<1> USE DEF IInv
<1>1. CASE ReadChannel
  BY <1>1 DEF TypeOK, Compared, Goto, ReadChannel, repoVars, historyVars
<1>2. CASE ReadPin
  BY <1>2 DEF TypeOK, Compared, Goto, ReadPin, repoVars, historyVars
<1>3. CASE ReadManifest
  BY <1>3 DEF TypeOK, Compared, Goto, Refuse, ReadManifest, repoVars,
     historyVars
<1>4. CASE HashLicense
  BY <1>4 DEF TypeOK, Compared, Goto, Check, Refuse, HashLicense, repoVars,
     historyVars
<1>5. CASE HashSchedule
  BY <1>5 DEF TypeOK, Compared, Goto, Check, Refuse, HashSchedule, repoVars,
     historyVars
<1>6. CASE HashRecord
  BY <1>6 DEF TypeOK, Compared, Goto, Check, Refuse, HashRecord, repoVars,
     historyVars
<1>7. CASE LoadRecord
  BY <1>7 DEF TypeOK, Compared, Goto, Refuse, LoadRecord, repoVars,
     historyVars
<1>8. CASE HashInputs
  BY <1>8 DEF TypeOK, Compared, Goto, Check, Refuse, HashInputs, repoVars,
     historyVars, Approved, Hashed, InputsKept, InputsMatch
<1>9. CASE TruncateLock
  BY <1>9 DEF TypeOK, Compared, Goto, TruncateLock, repoVars, historyVars
<1>10. CASE WriteLock
  BY <1>10 DEF TypeOK, Compared, Goto, Refuse, WriteLock, repoVars,
     historyVars
<1>11. CASE Kill
  BY <1>11 DEF TypeOK, Compared, Goto, Refuse, Kill, repoVars, historyVars
<1>12. ASSUME NEW s \in Specs, EditCanonical(s)
      PROVE  Compared'
  BY <1>12 DEF TypeOK, Compared, EditCanonical, projectVars, historyVars
<1>13. ASSUME NEW r \in Reviews, FreezeInputs(r)
      PROVE  Compared'
  BY <1>13 DEF TypeOK, Compared, FreezeInputs, projectVars
<1>14. ASSUME NEW r \in Reviews, NEW l \in Candidates, NEW c \in BOOLEAN, WriteRecord(r, l, c)
      PROVE  Compared'
  BY <1>14 DEF TypeOK, Compared, WriteRecord, projectVars
<1>15. ASSUME NEW n \in Names, NEW s \in Shapes, PublishBundle(n, s)
      PROVE  Compared'
  BY <1>15 DEF TypeOK, Compared, PublishBundle, projectVars, historyVars
<1>16. ASSUME NEW n \in Names, NEW op \in BOOLEAN, MoveChannel(n, op)
      PROVE  Compared'
  BY <1>16 DEF TypeOK, Compared, MoveChannel, projectVars, historyVars
<1>17. ASSUME NEW f \in Paths, NEW h \in Hashes, EditComponent(f, h)
      PROVE  Compared'
  BY <1>17 DEF TypeOK, Compared, EditComponent, projectVars, historyVars
<1>18. ASSUME NEW r \in Reviews, NEW s \in Specs, EditFrozen(r, s)
      PROVE  Compared'
  BY <1>18 DEF TypeOK, Compared, EditFrozen, projectVars
<1>19. ASSUME NEW r \in Reviews, EditRecord(r)
      PROVE  Compared'
  BY <1>19 DEF TypeOK, Compared, EditRecord, projectVars
<1>20. ASSUME NEW p \in Policies, EditPolicy(p)
      PROVE  Compared'
  BY <1>20 DEF TypeOK, Compared, EditPolicy, repoVars, historyVars
<1>21. CASE UNCHANGED vars
  BY <1>21 DEF TypeOK, Compared, vars, repoVars, projectVars, historyVars
<1>22. QED
  BY <1>1, <1>2, <1>3, <1>4, <1>5, <1>6, <1>7, <1>8, <1>9, <1>10, <1>11,
     <1>12, <1>13, <1>14, <1>15, <1>16, <1>17, <1>18, <1>19, <1>20, <1>21
     DEF Next, Resolve, Maintain

(***************************************************************************)
(* What is on disk has been on disk.                                       *)
(***************************************************************************)
LEMMA RecordsStep ==
  ASSUME IInv, [Next]_vars
  PROVE  (RecordsKept /\ InputsKept)'
<1> USE DEF IInv
<1>1. CASE ReadChannel
  BY <1>1 DEF TypeOK, RecordsKept, InputsKept, ReadChannel, repoVars,
     historyVars
<1>2. CASE ReadPin
  BY <1>2 DEF TypeOK, RecordsKept, InputsKept, ReadPin, repoVars,
     historyVars
<1>3. CASE ReadManifest
  BY <1>3 DEF TypeOK, RecordsKept, InputsKept, ReadManifest, repoVars,
     historyVars
<1>4. CASE HashLicense
  BY <1>4 DEF TypeOK, RecordsKept, InputsKept, HashLicense, repoVars,
     historyVars
<1>5. CASE HashSchedule
  BY <1>5 DEF TypeOK, RecordsKept, InputsKept, HashSchedule, repoVars,
     historyVars
<1>6. CASE HashRecord
  BY <1>6 DEF TypeOK, RecordsKept, InputsKept, HashRecord, repoVars,
     historyVars
<1>7. CASE LoadRecord
  BY <1>7 DEF TypeOK, RecordsKept, InputsKept, LoadRecord, repoVars,
     historyVars
<1>8. CASE HashInputs
  BY <1>8 DEF TypeOK, RecordsKept, InputsKept, HashInputs, repoVars,
     historyVars
<1>9. CASE TruncateLock
  BY <1>9 DEF TypeOK, RecordsKept, InputsKept, TruncateLock, repoVars,
     historyVars
<1>10. CASE WriteLock
  BY <1>10 DEF TypeOK, RecordsKept, InputsKept, WriteLock, repoVars,
     historyVars
<1>11. CASE Kill
  BY <1>11 DEF TypeOK, RecordsKept, InputsKept, Kill, repoVars, historyVars
<1>12. ASSUME NEW s \in Specs, EditCanonical(s)
      PROVE  (RecordsKept /\ InputsKept)'
  BY <1>12 DEF TypeOK, RecordsKept, InputsKept, EditCanonical, projectVars,
     historyVars
<1>13. ASSUME NEW r \in Reviews, FreezeInputs(r)
      PROVE  (RecordsKept /\ InputsKept)'
  BY <1>13 DEF TypeOK, RecordsKept, InputsKept, FreezeInputs, projectVars
<1>14. ASSUME NEW r \in Reviews, NEW l \in Candidates, NEW c \in BOOLEAN, WriteRecord(r, l, c)
      PROVE  (RecordsKept /\ InputsKept)'
  BY <1>14 DEF TypeOK, RecordsKept, InputsKept, WriteRecord, projectVars
<1>15. ASSUME NEW n \in Names, NEW s \in Shapes, PublishBundle(n, s)
      PROVE  (RecordsKept /\ InputsKept)'
  BY <1>15 DEF TypeOK, RecordsKept, InputsKept, PublishBundle, projectVars,
     historyVars
<1>16. ASSUME NEW n \in Names, NEW op \in BOOLEAN, MoveChannel(n, op)
      PROVE  (RecordsKept /\ InputsKept)'
  BY <1>16 DEF TypeOK, RecordsKept, InputsKept, MoveChannel, projectVars,
     historyVars
<1>17. ASSUME NEW f \in Paths, NEW h \in Hashes, EditComponent(f, h)
      PROVE  (RecordsKept /\ InputsKept)'
  BY <1>17 DEF TypeOK, RecordsKept, InputsKept, EditComponent, projectVars,
     historyVars
<1>18. ASSUME NEW r \in Reviews, NEW s \in Specs, EditFrozen(r, s)
      PROVE  (RecordsKept /\ InputsKept)'
  BY <1>18 DEF TypeOK, RecordsKept, InputsKept, EditFrozen, projectVars
<1>19. ASSUME NEW r \in Reviews, EditRecord(r)
      PROVE  (RecordsKept /\ InputsKept)'
  BY <1>19 DEF TypeOK, RecordsKept, InputsKept, EditRecord, projectVars,
     Record
<1>20. ASSUME NEW p \in Policies, EditPolicy(p)
      PROVE  (RecordsKept /\ InputsKept)'
  BY <1>20 DEF TypeOK, RecordsKept, InputsKept, EditPolicy, repoVars,
     historyVars
<1>21. CASE UNCHANGED vars
  BY <1>21 DEF TypeOK, RecordsKept, InputsKept, vars, repoVars, projectVars,
     historyVars
<1>22. QED
  BY <1>1, <1>2, <1>3, <1>4, <1>5, <1>6, <1>7, <1>8, <1>9, <1>10, <1>11,
     <1>12, <1>13, <1>14, <1>15, <1>16, <1>17, <1>18, <1>19, <1>20, <1>21
     DEF Next, Resolve, Maintain

(***************************************************************************)
(* Every lock stays justified.                                             *)
(***************************************************************************)
LEMMA LocksStep ==
  ASSUME IInv, [Next]_vars
  PROVE  LocksJustified'
<1> USE DEF IInv
<1>1. CASE ReadChannel
  BY <1>1 DEF TypeOK, LocksJustified, Justified, MajorAllowed,
     IdentityValid, RenderLock, Lock, Goto, ReadChannel, repoVars,
     historyVars
<1>2. CASE ReadPin
  BY <1>2 DEF TypeOK, LocksJustified, Justified, MajorAllowed,
     IdentityValid, RenderLock, Lock, Goto, ReadPin, repoVars, historyVars
<1>3. CASE ReadManifest
  BY <1>3 DEF TypeOK, LocksJustified, Justified, MajorAllowed,
     IdentityValid, RenderLock, Lock, Goto, Refuse, ReadManifest, repoVars,
     historyVars
<1>4. CASE HashLicense
  BY <1>4 DEF TypeOK, LocksJustified, Justified, MajorAllowed,
     IdentityValid, RenderLock, Lock, Goto, Check, Refuse, HashLicense,
     repoVars, historyVars
<1>5. CASE HashSchedule
  BY <1>5 DEF TypeOK, LocksJustified, Justified, MajorAllowed,
     IdentityValid, RenderLock, Lock, Goto, Check, Refuse, HashSchedule,
     repoVars, historyVars
<1>6. CASE HashRecord
  BY <1>6 DEF TypeOK, LocksJustified, Justified, MajorAllowed,
     IdentityValid, RenderLock, Lock, Goto, Check, Refuse, HashRecord,
     repoVars, historyVars
<1>7. CASE LoadRecord
  BY <1>7 DEF TypeOK, LocksJustified, Justified, MajorAllowed,
     IdentityValid, RenderLock, Lock, Goto, Refuse, LoadRecord, repoVars,
     historyVars
<1>8. CASE HashInputs
  BY <1>8 DEF TypeOK, LocksJustified, Justified, MajorAllowed,
     IdentityValid, RenderLock, Lock, Goto, Check, Refuse, HashInputs,
     repoVars, historyVars
<1>9. CASE TruncateLock
  BY <1>9 DEF TypeOK, LocksJustified, Justified, MajorAllowed,
     IdentityValid, RenderLock, Lock, Goto, TruncateLock, repoVars,
     historyVars
<1>10. CASE WriteLock
  <2> DEFINE k == RenderLock(target)
  <2>1. /\ target = manifest[wanted]
        /\ target # None
        /\ target \in Manifest
        /\ target.claims = wanted
        /\ ManifestAccepted(target)
    BY <1>10 DEF WriteLock, TypeOK, Chosen, Reading
  <2>2. k \in Lock /\ k.bundle = wanted /\ k.operative = target.operative
    BY <2>1 DEF RenderLock, Pin, Lock, Manifest, Component, Pinned
  <2>3. policy.mode = "pinned" => k.bundle = policy.bundle
    BY <1>10, <2>2 DEF WriteLock, Chosen
  <2>4. Justified(k)
    BY <2>1, <2>2, <2>3 DEF Justified, ManifestAccepted
  <2>5. /\ written' = written \cup {k}
        /\ manifest' = manifest
        /\ policy' = policy
    BY <1>10 DEF WriteLock, repoVars
  <2>6. \A l \in written \cup {k} : Justified(l)
    BY <2>4 DEF LocksJustified
  <2>7. ASSUME NEW l \in written'
        PROVE  Justified(l)'
    <3>1. Justified(l)
      BY <2>5, <2>6
    <3>2. QED
      BY <2>5, <3>1 DEF Justified, RenderLock, MajorAllowed
  <2>8. QED
    BY <2>7 DEF LocksJustified
<1>11. CASE Kill
  BY <1>11 DEF TypeOK, LocksJustified, Justified, MajorAllowed,
     IdentityValid, RenderLock, Lock, Goto, Refuse, Kill, repoVars,
     historyVars
<1>12. ASSUME NEW s \in Specs, EditCanonical(s)
      PROVE  LocksJustified'
  BY <1>12 DEF TypeOK, LocksJustified, Justified, MajorAllowed,
     IdentityValid, RenderLock, Lock, EditCanonical, projectVars,
     historyVars
<1>13. ASSUME NEW r \in Reviews, FreezeInputs(r)
      PROVE  LocksJustified'
  BY <1>13 DEF TypeOK, LocksJustified, Justified, MajorAllowed,
     IdentityValid, RenderLock, Lock, FreezeInputs, projectVars
<1>14. ASSUME NEW r \in Reviews, NEW l \in Candidates, NEW c \in BOOLEAN, WriteRecord(r, l, c)
      PROVE  LocksJustified'
  BY <1>14 DEF TypeOK, LocksJustified, Justified, MajorAllowed,
     IdentityValid, RenderLock, Lock, WriteRecord, projectVars
<1>15. ASSUME NEW n \in Names, NEW s \in Shapes, PublishBundle(n, s)
      PROVE  LocksJustified'
  BY <1>15 DEF TypeOK, LocksJustified, Justified, MajorAllowed,
     IdentityValid, RenderLock, Lock, PublishBundle, projectVars,
     historyVars
<1>16. ASSUME NEW n \in Names, NEW op \in BOOLEAN, MoveChannel(n, op)
      PROVE  LocksJustified'
  BY <1>16 DEF TypeOK, LocksJustified, Justified, MajorAllowed,
     IdentityValid, RenderLock, Lock, MoveChannel, projectVars, historyVars
<1>17. ASSUME NEW f \in Paths, NEW h \in Hashes, EditComponent(f, h)
      PROVE  LocksJustified'
  BY <1>17 DEF TypeOK, LocksJustified, Justified, MajorAllowed,
     IdentityValid, RenderLock, Lock, EditComponent, projectVars,
     historyVars
<1>18. ASSUME NEW r \in Reviews, NEW s \in Specs, EditFrozen(r, s)
      PROVE  LocksJustified'
  BY <1>18 DEF TypeOK, LocksJustified, Justified, MajorAllowed,
     IdentityValid, RenderLock, Lock, EditFrozen, projectVars
<1>19. ASSUME NEW r \in Reviews, EditRecord(r)
      PROVE  LocksJustified'
  BY <1>19 DEF TypeOK, LocksJustified, Justified, MajorAllowed,
     IdentityValid, RenderLock, Lock, EditRecord, projectVars
<1>20. ASSUME NEW p \in Policies, EditPolicy(p)
      PROVE  LocksJustified'
  BY <1>20 DEF TypeOK, LocksJustified, Justified, MajorAllowed,
     IdentityValid, RenderLock, Lock, EditPolicy, repoVars, historyVars
<1>21. CASE UNCHANGED vars
  BY <1>21 DEF TypeOK, LocksJustified, Justified, MajorAllowed,
     IdentityValid, RenderLock, Lock, vars, repoVars, projectVars,
     historyVars
<1>22. QED
  BY <1>1, <1>2, <1>3, <1>4, <1>5, <1>6, <1>7, <1>8, <1>9, <1>10, <1>11,
     <1>12, <1>13, <1>14, <1>15, <1>16, <1>17, <1>18, <1>19, <1>20, <1>21
     DEF Next, Resolve, Maintain

(***************************************************************************)
(* Every operative lock stays reviewed.                                    *)
(***************************************************************************)
LEMMA ReviewedStep ==
  ASSUME IInv, [Next]_vars
  PROVE  OperativeLockReviewed'
<1> USE DEF IInv
<1>1. CASE ReadChannel
  BY <1>1 DEF TypeOK, OperativeLockReviewed, Goto, ReadChannel, repoVars,
     historyVars
<1>2. CASE ReadPin
  BY <1>2 DEF TypeOK, OperativeLockReviewed, Goto, ReadPin, repoVars,
     historyVars
<1>3. CASE ReadManifest
  BY <1>3 DEF TypeOK, OperativeLockReviewed, Goto, Refuse, ReadManifest,
     repoVars, historyVars
<1>4. CASE HashLicense
  BY <1>4 DEF TypeOK, OperativeLockReviewed, Goto, Check, Refuse,
     HashLicense, repoVars, historyVars
<1>5. CASE HashSchedule
  BY <1>5 DEF TypeOK, OperativeLockReviewed, Goto, Check, Refuse,
     HashSchedule, repoVars, historyVars
<1>6. CASE HashRecord
  BY <1>6 DEF TypeOK, OperativeLockReviewed, Goto, Check, Refuse,
     HashRecord, repoVars, historyVars
<1>7. CASE LoadRecord
  BY <1>7 DEF TypeOK, OperativeLockReviewed, Goto, Refuse, LoadRecord,
     repoVars, historyVars
<1>8. CASE HashInputs
  BY <1>8 DEF TypeOK, OperativeLockReviewed, Goto, Check, Refuse,
     HashInputs, repoVars, historyVars
<1>9. CASE TruncateLock
  BY <1>9 DEF TypeOK, OperativeLockReviewed, Goto, TruncateLock, repoVars,
     historyVars
<1>10. CASE WriteLock
  <2>1. ASSUME target.operative
        PROVE  /\ target.rec \in attested
               /\ loaded \in attested
               /\ loaded.review = target.rec.review
               /\ loaded.complete
               /\ loaded.lic = target.lic.sha256
               /\ <<loaded.review, loaded.inputs>> \in frozenEver
    BY <1>10, <2>1 DEF WriteLock, Hashed, Approved, Compared
  <2> DEFINE k == RenderLock(target)
  <2>2. /\ k.operative = target.operative
        /\ k.lic.sha256 = target.lic.sha256
        /\ k.rec = target.rec
    BY DEF RenderLock, Pin
  <2>3. /\ attested' = attested
        /\ frozenEver' = frozenEver
        /\ written' = written \cup {k}
    BY <1>10 DEF WriteLock, historyVars
  <2> HIDE DEF k
  <2>4. QED
    BY <2>1, <2>2, <2>3 DEF OperativeLockReviewed
<1>11. CASE Kill
  BY <1>11 DEF TypeOK, OperativeLockReviewed, Goto, Refuse, Kill, repoVars,
     historyVars
<1>12. ASSUME NEW s \in Specs, EditCanonical(s)
      PROVE  OperativeLockReviewed'
  BY <1>12 DEF TypeOK, OperativeLockReviewed, EditCanonical, projectVars,
     historyVars
<1>13. ASSUME NEW r \in Reviews, FreezeInputs(r)
      PROVE  OperativeLockReviewed'
  BY <1>13 DEF TypeOK, OperativeLockReviewed, FreezeInputs, projectVars
<1>14. ASSUME NEW r \in Reviews, NEW l \in Candidates, NEW c \in BOOLEAN, WriteRecord(r, l, c)
      PROVE  OperativeLockReviewed'
  BY <1>14 DEF TypeOK, OperativeLockReviewed, WriteRecord, projectVars
<1>15. ASSUME NEW n \in Names, NEW s \in Shapes, PublishBundle(n, s)
      PROVE  OperativeLockReviewed'
  BY <1>15 DEF TypeOK, OperativeLockReviewed, PublishBundle, projectVars,
     historyVars
<1>16. ASSUME NEW n \in Names, NEW op \in BOOLEAN, MoveChannel(n, op)
      PROVE  OperativeLockReviewed'
  BY <1>16 DEF TypeOK, OperativeLockReviewed, MoveChannel, projectVars,
     historyVars
<1>17. ASSUME NEW f \in Paths, NEW h \in Hashes, EditComponent(f, h)
      PROVE  OperativeLockReviewed'
  BY <1>17 DEF TypeOK, OperativeLockReviewed, EditComponent, projectVars,
     historyVars
<1>18. ASSUME NEW r \in Reviews, NEW s \in Specs, EditFrozen(r, s)
      PROVE  OperativeLockReviewed'
  BY <1>18 DEF TypeOK, OperativeLockReviewed, EditFrozen, projectVars
<1>19. ASSUME NEW r \in Reviews, EditRecord(r)
      PROVE  OperativeLockReviewed'
  BY <1>19 DEF TypeOK, OperativeLockReviewed, EditRecord, projectVars
<1>20. ASSUME NEW p \in Policies, EditPolicy(p)
      PROVE  OperativeLockReviewed'
  BY <1>20 DEF TypeOK, OperativeLockReviewed, EditPolicy, repoVars,
     historyVars
<1>21. CASE UNCHANGED vars
  BY <1>21 DEF TypeOK, OperativeLockReviewed, vars, repoVars, projectVars,
     historyVars
<1>22. QED
  BY <1>1, <1>2, <1>3, <1>4, <1>5, <1>6, <1>7, <1>8, <1>9, <1>10, <1>11,
     <1>12, <1>13, <1>14, <1>15, <1>16, <1>17, <1>18, <1>19, <1>20, <1>21
     DEF Next, Resolve, Maintain

(***************************************************************************)
(* The strengthened invariant holds of every behaviour.                    *)
(***************************************************************************)
THEOREM Invariance == Spec => []IInv
<1>1. Init => IInv
  <2>1. Init => TypeOK
    BY BoundsAssumption, ComponentAssumption DEF Init, TypeOK
  <2>2. Init => Chosen /\ Hashed /\ Approved /\ Compared
    BY DEF Init, Chosen, Hashed, Approved, Compared, Reading
  <2>3. Init => RecordsKept /\ InputsKept
    BY DEF Init, RecordsKept, InputsKept
  <2>4. Init => LocksJustified /\ OperativeLockReviewed
    BY DEF Init, LocksJustified, OperativeLockReviewed
  <2>5. QED
    BY <2>1, <2>2, <2>3, <2>4 DEF IInv
<1>2. IInv /\ [Next]_vars => IInv'
  BY TypeStep, ChosenStep, HashedStep, ApprovedStep, ComparedStep, RecordsStep,
     LocksStep, ReviewedStep DEF IInv
<1>3. QED
  BY <1>1, <1>2, PTL DEF Spec

(***************************************************************************)
(* Type correctness, and that the resolution only ever works on a manifest *)
(* published under the name it was led to (load_json of bundle_ref).       *)
(***************************************************************************)
THEOREM TypeCorrect == Spec => []TypeOK
  BY Invariance, PTL DEF IInv

(***************************************************************************)
(* The release gate of validate_legal_review, for every tree and every     *)
(* edit of it, also between two reads of one resolution.                   *)
(***************************************************************************)
THEOREM GateHolds == Spec => []OperativeLockReviewed
  BY Invariance, PTL DEF IInv

(***************************************************************************)
(* A pinned policy resolves to one lock (resolve_pinned).                  *)
(***************************************************************************)
THEOREM PinHolds == Spec => []PinnedNeverMoves
<1>1. IInv => PinnedNeverMoves
  BY DEF IInv, LocksJustified, Justified, PinnedNeverMoves
<1>2. QED
  BY <1>1, Invariance, PTL

(***************************************************************************)
(* "N.x" is honoured however the channel moves (major_from_constraint and  *)
(* the check after it).                                                    *)
(***************************************************************************)
THEOREM MajorHolds == Spec => []MajorHonoured
<1>1. IInv => MajorHonoured
  BY DEF IInv, LocksJustified, Justified, MajorAllowed, RenderLock, Pin,
         MajorHonoured
<1>2. QED
  BY <1>1, Invariance, PTL

(***************************************************************************)
(* No draft without --allow-draft.                                         *)
(***************************************************************************)
THEOREM DraftGuardHolds == Spec => []NoDraftUnasked
<1>1. IInv => NoDraftUnasked
  BY DEF IInv, LocksJustified, Justified, NoDraftUnasked
<1>2. QED
  BY <1>1, Invariance, PTL

(***************************************************************************)
(* The fallback's components are one unit (validate_bundle_identity).      *)
(***************************************************************************)
THEOREM FallbackHolds == Spec => []FallbackIndivisible
<1>1. IInv => FallbackIndivisible
  <2> SUFFICES ASSUME IInv, NEW k \in written, Borrows(k)
               PROVE  /\ k.bundle = Fallback
                      /\ ~k.operative
                      /\ k.lic = Pin(ReservedLicense)
                      /\ k.sched = Pin(ReservedSchedule)
    BY DEF FallbackIndivisible
  <2> DEFINE m == manifest[k.bundle]
  <2>1. /\ k.bundle = m.claims
        /\ k.operative = m.operative
        /\ k.lic = Pin(m.lic)
        /\ k.sched = Pin(m.sched)
        /\ IdentityValid(m)
    BY DEF IInv, LocksJustified, Justified, RenderLock
  <2>2. m.claims # Fallback => ~Borrows(k)
    <3>1. SUFFICES ASSUME m.claims # Fallback
                   PROVE  ~Borrows(k)
      OBVIOUS
    <3>2. /\ k.bundle \notin {Fallback, Unregistered}
          /\ \A c \in {m.lic, m.sched}, r \in Reserved :
               c.ref # r.ref /\ c.path # r.path /\ c.sha256 # r.sha256
      BY <2>1, <3>1 DEF IdentityValid, UsesReserved, Alike
    <3>3. /\ k.lic.ref = m.lic.ref /\ k.lic.sha256 = m.lic.sha256
          /\ k.sched.ref = m.sched.ref /\ k.sched.sha256 = m.sched.sha256
      BY <2>1 DEF Pin
    <3>4. QED
      BY <3>2, <3>3 DEF Borrows
  <2>3. m.claims = Fallback => IsFallback(m)
    BY <2>1 DEF IdentityValid
  <2>4. QED
    BY <2>1, <2>2, <2>3 DEF IsFallback
<1>2. QED
  BY <1>1, Invariance, PTL

(***************************************************************************)
(* Historical bundles keep validating (validate_legal_review, "This        *)
(* preserves the validity of historical Bundles when the project evolves   *)
(* after release"): a step that spends no edit changes no verdict.         *)
(***************************************************************************)
THEOREM HistoryHolds == Spec => HistoricalValidity
<1> DEFINE Keeps == \A n \in Names :
             manifest[n] # None /\ Validates(manifest[n]) /\ edits' = edits
               => Validates(manifest[n])'
<1>1. ASSUME IInv, [Next]_vars
      PROVE  [Keeps]_vars
  <2> SUFFICES ASSUME NEW b \in Names, manifest[b] # None,
                      Validates(manifest[b]), edits' = edits
               PROVE  Validates(manifest[b])'
    OBVIOUS
  <2> DEFINE m == manifest[b]
  <2>1. m \in Manifest
    BY <1>1 DEF IInv, TypeOK
  <2>2. m.operative => m.review \in Reviews /\ record[m.review].review = m.review
    BY <1>1, <2>1 DEF Validates, HashMatches, Manifest, IInv, RecordsKept
  <2>3. ASSUME UNCHANGED <<file, inputs, record>>, manifest'[b] = m
        PROVE  Validates(m)'
    BY <2>3 DEF Validates, FileMatches, HashMatches, RecordApproves, InputsMatch,
       IdentityValid
  <2>4. ASSUME UNCHANGED repoVars
        PROVE  Validates(m)'
    BY <2>3, <2>4 DEF repoVars
  <2>5. CASE Resolve
    BY <2>4, <2>5 DEF Resolve, ReadChannel, ReadPin, ReadManifest, HashLicense,
       HashSchedule, HashRecord, LoadRecord, HashInputs, TruncateLock,
       WriteLock, Kill
  <2>6. ASSUME NEW s \in Specs, EditCanonical(s)
        PROVE  Validates(m)'
    BY <2>3, <2>6 DEF EditCanonical
  <2>7. ASSUME NEW r \in Reviews, FreezeInputs(r)
        PROVE  Validates(m)'
    <3>1. m.operative => m.review # r
      BY <2>2, <2>7 DEF FreezeInputs, Validates, HashMatches
    <3>2. m.operative => inputs'[m.review] = inputs[m.review]
      BY <1>1, <2>2, <2>7, <3>1 DEF FreezeInputs, IInv, TypeOK
    <3>3. QED
      BY <2>2, <2>7, <3>2 DEF FreezeInputs, Validates, FileMatches, HashMatches,
         RecordApproves, InputsMatch, IdentityValid
  <2>8. ASSUME NEW r \in Reviews, NEW l \in Candidates, NEW c \in BOOLEAN,
               WriteRecord(r, l, c)
        PROVE  Validates(m)'
    <3>1. m.operative => m.review # r
      BY <2>2, <2>8 DEF WriteRecord, Validates, HashMatches
    <3>2. m.operative => record'[m.review] = record[m.review]
      BY <1>1, <2>2, <2>8, <3>1 DEF WriteRecord, IInv, TypeOK
    <3>3. QED
      BY <2>2, <2>8, <3>2 DEF WriteRecord, Validates, FileMatches, HashMatches,
         RecordApproves, InputsMatch, IdentityValid
  <2>9. ASSUME NEW n \in Names, NEW s \in Shapes, PublishBundle(n, s)
        PROVE  Validates(m)'
    <3>1. manifest'[b] = m
      BY <1>1, <2>9 DEF PublishBundle, IInv, TypeOK
    <3>2. QED
      BY <2>3, <2>9, <3>1 DEF PublishBundle
  <2>10. ASSUME NEW n \in Names, NEW op \in BOOLEAN, MoveChannel(n, op)
         PROVE  Validates(m)'
    BY <2>3, <2>10 DEF MoveChannel
  <2>11. ASSUME NEW f \in Paths, NEW h \in Hashes, EditComponent(f, h)
         PROVE  FALSE
    BY <1>1, <2>11, BoundsAssumption DEF EditComponent, IInv, TypeOK
  <2>12. ASSUME NEW r \in Reviews, NEW s \in Specs, EditFrozen(r, s)
         PROVE  FALSE
    BY <1>1, <2>12, BoundsAssumption DEF EditFrozen, IInv, TypeOK
  <2>13. ASSUME NEW r \in Reviews, EditRecord(r)
         PROVE  FALSE
    <3>1. edits' = edits + 1
      BY <2>13 DEF EditRecord
    <3>2. edits \in Nat
      BY <1>1, BoundsAssumption DEF IInv, TypeOK
    <3>3. QED
      BY <3>1, <3>2
  <2>14. ASSUME NEW p \in Policies, EditPolicy(p)
         PROVE  Validates(m)'
    BY <2>4, <2>14 DEF EditPolicy
  <2>15. CASE UNCHANGED vars
    BY <2>4, <2>15 DEF vars
  <2>16. QED
    BY <1>1, <2>5, <2>6, <2>7, <2>8, <2>9, <2>10, <2>11, <2>12, <2>13, <2>14,
       <2>15 DEF Next, Maintain
<1>2. QED
  BY <1>1, Invariance, PTL DEF Spec, HistoricalValidity

=============================================================================
