---------------------------- MODULE ScheduleGate ----------------------------
(***************************************************************************)
(* The Schedule candidate renderer: tools/render_schedule.py (bootstrap),  *)
(* tools/render_schedule_impl.py (the renderer it executes) and            *)
(* tools/check_schedule_compatibility_output.py (the check CI runs on the  *)
(* rendered text).                                                         *)
(*                                                                         *)
(* A candidate may be labelled compatible with the target License only     *)
(* when a content-addressed evidence record binds every byte the renderer  *)
(* consumes.  The renderer reads the checkout file by file, some files     *)
(* twice, and maintainers may edit it while it runs.                       *)
(*                                                                         *)
(* SHA-256 and Git blob ids are external and taken to be injective, so     *)
(* that the digest of a file is represented by its content.                *)
(***************************************************************************)
EXTENDS Naturals, Sequences, FiniteSets, SequencesExt

CONSTANTS
  States,        \* ISO3 codes
  Target,        \* TARGET_LICENSE
  Absent,        \* no file, no value
  SFreezes,      \* paths of schedule-state-s-freezes/*.yml, in lexical order
  Overlays,      \* paths of state-outcome-overrides*.yml, in lexical order
  Checkouts,     \* contents the checkout may begin with
  Menu,          \* Menu[p]: contents an edit may give to path p
  LicenseBytes,  \* contents of the License files
  Yaml,          \* top-level YAML mappings of an evidence record
  Launches,      \* ways the bootstrap is started
  MaxEdits,      \* bound on edits of the checkout
  MaxReviews     \* bound on evidence records written

ASSUME BoundsAssumption == MaxEdits \in Nat /\ MaxReviews \in Nat

FixedClauses == {"r", "org", "armed", "projects"}
ClausePaths  == FixedClauses \cup ToSet(SFreezes)
Paths == ClausePaths \cup ToSet(Overlays)
           \cup {"states", "status", "requirements", "impl", "wrapper"}

(***************************************************************************)
(* Codes are finitely many, what is repeated in a file is a list, and      *)
(* Absent is neither a code nor a reviewer's name.                         *)
(***************************************************************************)
ASSUME StatesAssumption == IsFiniteSet(States)

ASSUME AbsentAssumption == Absent \notin States \cup {"named"}

IsList(s) == s \in Seq(ToSet(s))

ASSUME PathsAssumption == IsList(SFreezes) /\ IsList(Overlays)

WellFormed(p, c) ==
  c # Absent =>
    /\ p = "r" => IsList(c.entries)
    /\ p \in {"org", "armed"} => IsList(c.organizations)
    /\ p = "projects" => IsList(c.projects)
    /\ p \in ToSet(SFreezes) => ("records" \in DOMAIN c => IsList(c.records))

ASSUME ContentsAssumption ==
  /\ \A fs \in Checkouts :
       fs = [p \in Paths |-> fs[p]] /\ \A p \in Paths : WellFormed(p, fs[p])
  /\ \A p \in Paths : \A c \in Menu[p] : WellFormed(p, c)

ReferenceStatuses == {"ready-by-cross-entity-reference",
                      "ready-narrowed-subset-via-direct-project",
                      "ready-by-state-scope-reference",
                      "ready-by-project-reference"}
ReadyStatuses == {"ready"} \cup ReferenceStatuses   \* startswith("ready")

VARIABLES
  files,     \* files[p]: content of path p, or Absent
  frozen, working,  \* bytes of the target License artifact and of LICENSE
  pointer,   \* registry/schedule-license-compatibility.yml
  evidence,  \* reviews/schedule-compatibility: <<id, bytes>> pairs
  pc,        \* next step of the renderer, "idle", "check" or "done"
  run,       \* what the renderer has read so far
  out,       \* the rendered candidate, or Absent
  verdict,   \* "none", "refused", "written", "green" or "red"
  quiet,     \* the checkout has not changed since the renderer was started
  edits, reviews

checkout == <<files, frozen, working, pointer, evidence>>
vars == <<checkout, pc, run, out, verdict, quiet, edits, reviews>>

Exists(fs, p) == fs[p] # Absent

(* A loop over s that goes on to the next element unless Test holds of it. *)
Keeping(s, Test(_)) ==
  FlattenSeq([i \in DOMAIN s |-> IF Test(s[i]) THEN <<s[i]>> ELSE <<>>])

-----------------------------------------------------------------------------
(***************************************************************************)
(* Bootstrap.  An import root is kept when its lexically collapsed path    *)
(* lies below an interpreter root; a ".." above the root is refused.       *)
(***************************************************************************)
Refused == <<"refused">>

NormaliseAbsolutePath(entry) ==
  LET Step(acc, part) ==
        IF acc = Refused \/ part \in {"", "."} THEN acc
        ELSE IF part # ".." THEN Append(acc, part)
        ELSE IF acc = <<>> THEN Refused ELSE Front(acc)
  IN  IF entry = <<>> \/ Head(entry) # "/" THEN Refused
      ELSE FoldLeft(Step, <<>>, Tail(entry))

IsWithin(path, prefix) == path # Refused /\ IsPrefix(prefix, path)

SanitisedPath(launch) ==
  SelectSeq(launch.path, LAMBDA entry :
    \E t \in launch.trusted : IsWithin(NormaliseAbsolutePath(entry), t))

FindRepositoryRoot(launch) == launch.sentinels

(* -I, -S for the executable mode, no alias of the bootstrap, and the      *)
(* implementation whose blob id the bootstrap carries.                     *)
BootstrapRefuses(launch, fs) ==
  \/ ~launch.isolated
  \/ launch.main /\ ~launch.noSite
  \/ launch.alias # "none"
  \/ ~FindRepositoryRoot(launch)
  \/ ~Exists(fs, "impl")
  \/ fs["impl"] # fs["wrapper"]

RepositoryLocalModule(launch) ==
  \E i \in 1..Len(SanitisedPath(launch)) :
     IsWithin(NormaliseAbsolutePath(SanitisedPath(launch)[i]), launch.root)

(* A launch that would import a module of the checkout is marked as such;  *)
(* some parser is imported whatever the requirements say.                  *)
ASSUME LaunchesAssumption ==
  \A launch \in Launches :
    (RepositoryLocalModule(launch) => launch.shadowed) /\ launch.parser # Absent

(* The requirements pin and the parser actually imported.                  *)
ValidateRendererEnvironment(launch, fs) ==
  /\ ~RepositoryLocalModule(launch)
  /\ fs["requirements"] = launch.parser

-----------------------------------------------------------------------------
(***************************************************************************)
(* The set of inputs that a review binds.                                  *)
(***************************************************************************)
ScheduleClauseSourcePaths(fs) == {p \in ClausePaths : Exists(fs, p)}

(* Seeded fault for ReviewedContentOnly: overlays are not bound.           *)
ControlPathsNoOverlays(fs) ==
  {"states", "requirements", "impl"}
    \cup {p \in {"status"} : Exists(fs, p)}

ScheduleRendererControlPaths(fs) ==
  {"states", "requirements", "impl"}
    \cup {p \in ToSet(Overlays) \cup {"status"} : Exists(fs, p)}

BootstrapControlPaths(fs) == ScheduleRendererControlPaths(fs) \cup {"wrapper"}

CompatibilityInputPaths(fs) ==
  ScheduleClauseSourcePaths(fs) \cup BootstrapControlPaths(fs)

ExpectedSourceBindings(fs) == [p \in CompatibilityInputPaths(fs) |-> fs[p]]

(***************************************************************************)
(* Evidence.  Its YAML is a sequence of entries, each with the identity,   *)
(* the tag and the text of its key and of its value; loading it keeps the  *)
(* last entry of a key.                                                    *)
(***************************************************************************)
EntriesOf(y, key) == {i \in DOMAIN y : y[i].key = key}

LoadYaml(y, key) ==
  IF EntriesOf(y, key) = {} THEN Absent
  ELSE y[CHOOSE i \in EntriesOf(y, key) : \A j \in EntriesOf(y, key) : j <= i].text

AllowedScalarTags == {"str", "int", "bool", "null", "timestamp"}

(* A mapping is a list of entries; "custom" stands for every other tag.    *)
ASSUME YamlAssumption ==
  \A y \in Yaml : IsList(y) /\ \A i \in DOMAIN y : y[i].tag \in AllowedScalarTags \cup {"custom"}

ValidateEvidenceYamlNode(y) ==
  LET nodes == {<<i, "key">> : i \in DOMAIN y} \cup {<<i, "value">> : i \in DOMAIN y}
      id(n) == IF n[2] = "key" THEN y[n[1]].keyNode ELSE y[n[1]].node
  IN  /\ \A m, n \in nodes : id(m) = id(n) => m = n        \* no alias
      /\ \A i \in DOMAIN y : /\ y[i].key # "<<"
                             /\ y[i].keyTag = "str"
                             /\ y[i].tag \in AllowedScalarTags
      /\ \A i, j \in DOMAIN y : y[i].key = y[j].key => i = j

ReviewedAtLexicalValue(y) ==
  IF EntriesOf(y, "reviewed_at") = {} THEN Absent
  ELSE y[CHOOSE i \in EntriesOf(y, "reviewed_at") :
           \A j \in EntriesOf(y, "reviewed_at") : i <= j].text

(* A date, or a timestamp with a zone and no leap second.                  *)
ValidateReviewedAt(text) == text \in {"date", "timestamp-with-zone"}

ValidateTargetLicenseArtifact(artifact) ==
  /\ artifact = frozen
  /\ working = frozen

AssertExactSourceBindings(sources, fs) == sources = ExpectedSourceBindings(fs)

(* Seeded fault for RefusalHasCause: only dates are accepted.              *)
AcceptsDatesOnly(e, fs) ==
  /\ ReviewedAtLexicalValue(e.yaml) = "date"
  /\ ValidateEvidenceYamlNode(e.yaml)
  /\ LoadYaml(e.yaml, "conclusion") = "compatible"
  /\ AssertExactSourceBindings(e.sources, fs)

EvidenceAccepted(e, fs) ==
  /\ ValidateEvidenceYamlNode(e.yaml)
  /\ ValidateReviewedAt(ReviewedAtLexicalValue(e.yaml))
  /\ e.artifact = pointer.artifact
  /\ ValidateTargetLicenseArtifact(e.artifact)
  /\ LoadYaml(e.yaml, "reviewer") \notin {Absent, "blank"}
  /\ ValidateReviewedAt(LoadYaml(e.yaml, "reviewed_at"))
  /\ LoadYaml(e.yaml, "conclusion") = "compatible"
  /\ AssertExactSourceBindings(e.sources, fs)

(* The record lies at the path its own digest names.                       *)
LoadContentAddressedEvidence(fs) ==
  /\ pointer.id # Absent
  /\ \E bytes \in {x[2] : x \in {z \in evidence : z[1] = pointer.id}} :
       bytes = pointer.id /\ EvidenceAccepted(bytes, fs)

ValidateCompatibilityReview(launch, fs) ==
  /\ ValidateRendererEnvironment(launch, fs)
  /\ ValidateTargetLicenseArtifact(pointer.artifact)
  /\ \/ pointer.status = "pending" /\ pointer.id = Absent
     \/ pointer.status = "complete" /\ LoadContentAddressedEvidence(fs)

-----------------------------------------------------------------------------
(***************************************************************************)
(* The entries of the Schedule, each computed from the content it reads.   *)
(***************************************************************************)
OutcomeOrder == <<"R", "S", "U", "N">>

BaseOutcome(fs, s) ==
  LET listed == {i \in DOMAIN OutcomeOrder : s \in fs["states"][OutcomeOrder[i]]}
  IN  IF listed = {} THEN Absent
      ELSE OutcomeOrder[CHOOSE i \in listed : \A j \in listed : j <= i]

(* Seeded fault for EveryActiveEntryOnce: the first overlay wins.          *)
FirstOverlayWins(fs) ==
  LET Apply(acc, o) ==
        IF Exists(fs, o) THEN [s \in States |-> IF s \in DOMAIN fs[o] /\ acc[s] = BaseOutcome(fs, s)
                                                THEN fs[o][s] ELSE acc[s]] ELSE acc
  IN  FoldLeft(Apply, [s \in States |-> BaseOutcome(fs, s)], Overlays)

Layered(fs, o, outcomes) ==
  IF Exists(fs, o)
    THEN [s \in States |-> IF s \in DOMAIN fs[o] THEN fs[o][s] ELSE outcomes[s]]
    ELSE outcomes

StateOutcomes(fs) ==
  LET after[n \in 0..Len(Overlays)] ==
        IF n = 0 THEN [s \in States |-> BaseOutcome(fs, s)]
        ELSE Layered(fs, Overlays[n], after[n - 1])
  IN  after[Len(Overlays)]

OutcomeIs(outcomes, s, o) == s \in DOMAIN outcomes /\ outcomes[s] = o

MalformedOverlay(fs) ==
  \E o \in ToSet(Overlays) : Exists(fs, o) /\ \E s \in DOMAIN fs[o] : fs[o][s] = Absent

StatusBlockedStates(fs) == IF Exists(fs, "status") THEN fs["status"] ELSE {}

FirstIdentity(rec) ==
  IF rec.identity # Absent THEN rec.identity
  ELSE IF rec.party # Absent THEN rec.party ELSE rec.project

(* A list of records, or a document that is one record.                    *)
ExtractRecords(content) ==
  IF "records" \in DOMAIN content THEN content.records
  ELSE IF "state" \in DOMAIN content THEN <<content>> ELSE <<>>

IsReady(rec)  == rec.status \in ReadyStatuses
IsDirect(rec) == IsReady(rec) /\ rec.status \notin ReferenceStatuses

SRecordSelected(rec, outcomes, fs) ==
  /\ OutcomeIs(outcomes, rec.state, "S")
  /\ rec.state \notin StatusBlockedStates(fs)
  /\ IsDirect(rec)

CollectStateSRecords(outcomes, fs) ==
  LET records(p) == IF Exists(fs, p)
                    THEN Keeping(ExtractRecords(fs[p]),
                           LAMBDA rec : SRecordSelected(rec, outcomes, fs))
                    ELSE <<>>
  IN  FlattenSeq([i \in DOMAIN SFreezes |-> records(SFreezes[i])])

CollectStateRRecords(outcomes, fs) ==
  Keeping(fs["r"].entries, LAMBDA rec : OutcomeIs(outcomes, rec.iso, "R"))

CollectOrganizations(fs) ==
  LET ready(p) == IF Exists(fs, p) THEN Keeping(fs[p].organizations, IsDirect) ELSE <<>>
  IN  ready("org") \o ready("armed")

CollectProjects(fs) == Keeping(fs["projects"].projects, IsReady)

ValidateUnique(keys) ==
  \A i, j \in DOMAIN keys : keys[i] = keys[j] /\ keys[i] # Absent => i = j

(* The registry's status is repeated by the text: its target, the bytes of *)
(* the artifact, and which of the two compatibility texts it carries.      *)
Render(r) ==
  [ready    |-> r.incompatible = {} /\ r.complete,
   declared |-> r.declared,
   artifact |-> frozen,
   r        |-> r.r,
   s        |-> r.s,
   orgs     |-> r.orgs,
   projects |-> r.projects]

-----------------------------------------------------------------------------
Start == [launch |-> Absent, code |-> Absent, declared |-> {}, incompatible |-> {},
          complete |-> FALSE, outcomes |-> Absent, r |-> <<>>, s |-> <<>>,
          orgs |-> <<>>, projects |-> <<>>]

Init ==
  /\ files \in Checkouts
  /\ frozen \in LicenseBytes
  /\ working = frozen
  /\ pointer = [status |-> "pending", id |-> Absent, artifact |-> frozen]
  /\ evidence = {}
  /\ pc = "idle"
  /\ run = Start
  /\ out = Absent
  /\ verdict = "none"
  /\ quiet = TRUE
  /\ edits = 0
  /\ reviews = 0

Refuse ==
  /\ pc' = "done"
  /\ verdict' = "refused"
  /\ UNCHANGED <<checkout, run, out, quiet, edits, reviews>>

Proceed(next, r) ==
  /\ pc' = next
  /\ run' = r
  /\ UNCHANGED <<checkout, out, verdict, quiet, edits, reviews>>

(* The module level of render_schedule.py, up to the exec of the renderer. *)
Bootstrap ==
  /\ pc = "idle"
  /\ \E launch \in Launches :
       /\ run' = [Start EXCEPT !.launch = launch, !.code = files["impl"]]
       /\ IF BootstrapRefuses(launch, files)
          THEN pc' = "done" /\ verdict' = "refused"
          ELSE pc' = "declarations" /\ verdict' = "none"
  /\ out' = Absent
  /\ quiet' = TRUE
  /\ UNCHANGED <<checkout, edits, reviews>>

(* compatibility_status, its loop over the clause sources.                 *)
ReadDeclarations ==
  /\ pc = "declarations"
  /\ LET sources  == ScheduleClauseSourcePaths(files)
         declared == {files[p].license : p \in sources}
     IN  IF sources = {} \/ Absent \in declared THEN Refuse
         ELSE Proceed("review",
                [run EXCEPT !.declared = declared,
                            !.incompatible = {p \in sources : files[p].license # Target}])

(* Seeded fault for CheckRejectsOnlyChanges: a complete review is not set  *)
(* against the declarations of the sources.                                *)
ReviewWithoutDeclarations ==
  /\ pc = "review"
  /\ IF ~ValidateCompatibilityReview(run.launch, files) THEN Refuse
     ELSE Proceed("outcomes", [run EXCEPT !.complete = pointer.status = "complete"])

(* compatibility_status, the review of the exact inputs.                   *)
ReviewCompatibility ==
  /\ pc = "review"
  /\ IF \/ ~Exists(files, "states") \/ ~Exists(files, "requirements")
        \/ ~ValidateCompatibilityReview(run.launch, files)
        \/ pointer.status = "complete" /\ run.incompatible # {}
     THEN Refuse
     ELSE Proceed("outcomes", [run EXCEPT !.complete = pointer.status = "complete"])

ReadOutcomes ==
  /\ pc = "outcomes"
  /\ IF ~Exists(files, "states") \/ MalformedOverlay(files) THEN Refuse
     ELSE Proceed("r", [run EXCEPT !.outcomes = StateOutcomes(files)])

ReadStateR ==
  /\ pc = "r"
  /\ IF \/ ~Exists(files, "r")
        \/ \E i \in DOMAIN files["r"].entries :
             /\ OutcomeIs(run.outcomes, files["r"].entries[i].iso, "R")
             /\ ~files["r"].entries[i].class
     THEN Refuse
     ELSE Proceed("s", [run EXCEPT !.r = CollectStateRRecords(run.outcomes, files)])

ReadStateS ==
  /\ pc = "s"
  /\ LET found == CollectStateSRecords(run.outcomes, files)
     IN  IF \E i \in DOMAIN found : FirstIdentity(found[i]) = Absent THEN Refuse
         ELSE Proceed("organizations", [run EXCEPT !.s = found])

ReadOrganizations ==
  /\ pc = "organizations"
  /\ LET found == CollectOrganizations(files)
     IN  IF \E i \in DOMAIN found : ~found[i].identified THEN Refuse
         ELSE Proceed("projects", [run EXCEPT !.orgs = found])

ReadProjects ==
  /\ pc = "projects"
  /\ IF \/ ~Exists(files, "projects")
        \/ LET found == CollectProjects(files)
           IN  \E i \in DOMAIN found : ~found[i].identified
     THEN Refuse
     ELSE Proceed("write", [run EXCEPT !.projects = CollectProjects(files)])

(* The rest of render, and the output of main.                             *)
WriteCandidate ==
  /\ pc = "write"
  /\ IF /\ ValidateUnique([i \in DOMAIN run.r |-> run.r[i].iso])
        /\ ValidateUnique([i \in DOMAIN run.orgs |-> run.orgs[i].id])
        /\ ValidateUnique([i \in DOMAIN run.projects |-> run.projects[i].id])
        /\ Len(run.r) = Cardinality({s \in States : run.outcomes[s] = "R"})
     THEN /\ out' = Render(run)
          /\ pc' = "check"
          /\ verdict' = "written"
          /\ UNCHANGED <<checkout, run, quiet, edits, reviews>>
     ELSE Refuse

ValidateRenderedState ==
  /\ out.artifact = pointer.artifact
  /\ CASE pointer.status = "pending"  -> ~out.ready
       [] pointer.status = "complete" -> out.ready

CheckOutput ==
  /\ pc = "check"
  /\ pc' = "done"
  /\ verdict' = IF ValidateRenderedState THEN "green" ELSE "red"
  /\ UNCHANGED <<checkout, run, out, quiet, edits, reviews>>

NewRun ==
  /\ pc = "done"
  /\ pc' = "idle"
  /\ run' = Start
  /\ out' = Absent
  /\ verdict' = "none"
  /\ quiet' = TRUE
  /\ UNCHANGED <<checkout, edits, reviews>>

-----------------------------------------------------------------------------
(***************************************************************************)
(* Maintainers.                                                            *)
(***************************************************************************)
Edited ==
  /\ edits < MaxEdits
  /\ edits' = edits + 1
  /\ quiet' = FALSE
  /\ UNCHANGED <<pc, run, out, verdict, reviews>>

EditFile ==
  /\ Edited
  /\ \E p \in Paths : \E c \in Menu[p] \ {files[p]} : files' = [files EXCEPT ![p] = c]
  /\ UNCHANGED <<frozen, working, pointer, evidence>>

EditLicense ==
  /\ Edited
  /\ \E b \in LicenseBytes :
       \/ frozen' = b /\ working' = working
       \/ working' = b /\ frozen' = frozen
  /\ UNCHANGED <<files, pointer, evidence>>

(* A reviewer records what the checkout holds and points the registry to it. *)
RecordReview ==
  /\ reviews < MaxReviews
  /\ \E y \in Yaml :
       LET e == [yaml |-> y, sources |-> ExpectedSourceBindings(files), artifact |-> frozen]
       IN  /\ evidence' = evidence \cup {<<e, e>>}
           /\ pointer' = [status |-> "complete", id |-> e, artifact |-> frozen]
  /\ reviews' = reviews + 1
  /\ quiet' = FALSE
  /\ UNCHANGED <<files, frozen, working, pc, run, out, verdict, edits>>

(* The registry is set back, or its artifact line renewed, by hand.        *)
EditPointer ==
  /\ Edited
  /\ \/ pointer' = [status |-> "pending", id |-> Absent, artifact |-> frozen]
     \/ pointer' = [pointer EXCEPT !.artifact = frozen]
     \/ \E x \in evidence : pointer' = [status |-> "complete", id |-> x[1], artifact |-> frozen]
  /\ UNCHANGED <<files, frozen, working, evidence>>

(* A recorded file is rewritten in place: its bindings are brought up to   *)
(* date under its old name.                                                *)
RewriteEvidence ==
  /\ Edited
  /\ \E x \in evidence :
       evidence' = (evidence \ {x})
         \cup {<<x[1], [yaml |-> x[2].yaml, sources |-> ExpectedSourceBindings(files),
                        artifact |-> frozen]>>}
  /\ UNCHANGED <<files, frozen, working, pointer>>

Renderer == \/ Bootstrap \/ ReadDeclarations \/ ReviewCompatibility \/ ReadOutcomes
            \/ ReadStateR \/ ReadStateS \/ ReadOrganizations \/ ReadProjects
            \/ WriteCandidate \/ CheckOutput \/ NewRun

Maintainer == EditFile \/ EditLicense \/ RecordReview \/ EditPointer \/ RewriteEvidence

Next == Renderer \/ Maintainer

Spec == Init /\ [][Next]_vars

-----------------------------------------------------------------------------
(***************************************************************************)
(* What the candidate should hold, said without the renderer's loops.      *)
(***************************************************************************)
ActiveOutcome(fs, s) ==
  LET naming == {i \in DOMAIN Overlays : Exists(fs, Overlays[i]) /\ s \in DOMAIN fs[Overlays[i]]}
  IN  IF naming # {} THEN fs[Overlays[CHOOSE i \in naming : \A j \in naming : j <= i]][s]
      ELSE IF s \in fs["states"]["N"] THEN "N"
      ELSE IF s \in fs["states"]["U"] THEN "U"
      ELSE IF s \in fs["states"]["S"] THEN "S"
      ELSE IF s \in fs["states"]["R"] THEN "R" ELSE Absent

ActiveStates(fs, o) == {s \in States : ActiveOutcome(fs, s) = o}

FrozenSRecords(fs) ==
  UNION {ToSet(ExtractRecords(fs[p])) : p \in {q \in ToSet(SFreezes) : Exists(fs, q)}}

(* ReviewedContentOnly: a candidate rendered from a checkout nobody edited *)
(* meanwhile is labelled compatible only on the word of a reviewer: some   *)
(* recorded evidence reads "compatible" however its YAML is read, and      *)
(* binds exactly the inputs, the code that ran, and the License, frozen    *)
(* and working, that are there.                                            *)
ReviewedContentOnly ==
  pc \in {"check", "done"} /\ quiet /\ out # Absent /\ out.ready =>
    \E x \in evidence :
      LET e == x[1] IN
      /\ \A i \in DOMAIN e.yaml :
           e.yaml[i].key = "conclusion" => e.yaml[i].text = "compatible"
      /\ \A i, j \in DOMAIN e.yaml :
           e.yaml[i].key = e.yaml[j].key => e.yaml[i].text = e.yaml[j].text
      /\ DOMAIN e.sources = {p \in Paths : Exists(files, p)}
      /\ \A p \in DOMAIN e.sources : e.sources[p] = files[p]
      /\ e.sources["impl"] = run.code
      /\ e.artifact = frozen /\ e.artifact = working
      /\ \A p \in ClausePaths \cap DOMAIN e.sources : e.sources[p].license = Target

DirectOrganizations(p) ==
  IF Exists(files, p)
    THEN {i \in DOMAIN files[p].organizations : IsDirect(files[p].organizations[i])} ELSE {}

ReadyProjects ==
  {i \in DOMAIN files["projects"].projects : IsReady(files["projects"].projects[i])}

NamedOnce(recs) ==
  \A i, j \in DOMAIN recs : recs[i].id = recs[j].id /\ recs[i].id # Absent => i = j

(* EveryActiveEntryOnce: a candidate of an unedited checkout, labelled     *)
(* compatible or not, names every State of outcome R exactly once, every   *)
(* directly ready frozen record of an unblocked State of outcome S, and    *)
(* no State of another outcome; every directly ready organization and      *)
(* every ready project, and none of them twice that has an id.             *)
EveryActiveEntryOnce ==
  pc \in {"check", "done"} /\ quiet /\ out # Absent =>
    /\ \A s \in States :
         Cardinality({i \in DOMAIN out.r : out.r[i].iso = s})
           = IF s \in ActiveStates(files, "R") THEN 1 ELSE 0
    /\ ToSet(out.s) =
         {rec \in FrozenSRecords(files) :
            /\ rec.state \in ActiveStates(files, "S") \ StatusBlockedStates(files)
            /\ IsDirect(rec)}
    /\ \A i \in DOMAIN out.s : FirstIdentity(out.s[i]) # Absent
    /\ ToSet(out.orgs) = UNION {{files[p].organizations[i] : i \in DirectOrganizations(p)} :
                                  p \in {"org", "armed"}}
    /\ ToSet(out.projects) = {files["projects"].projects[i] : i \in ReadyProjects}
    /\ NamedOnce(out.orgs) /\ NamedOnce(out.projects)

(* What a maintainer could find wrong with the frozen clauses.             *)
OrganizationTwice ==
  \E p, q \in {"org", "armed"} :
    \E i \in DirectOrganizations(p), j \in DirectOrganizations(q) :
      /\ <<p, i>> # <<q, j>>
      /\ files[p].organizations[i].id = files[q].organizations[j].id
      /\ files[p].organizations[i].id # Absent

ClauseDefect ==
  LET sources == {p \in ClausePaths : Exists(files, p)} IN
  \/ {"r", "projects"} \cap sources # {"r", "projects"}
  \/ \E p \in sources : files[p].license = Absent
  \/ pointer.status = "complete" /\ \E p \in sources : files[p].license # Target
  \/ \E o \in ToSet(Overlays) : Exists(files, o) /\ Absent \in {files[o][s] : s \in DOMAIN files[o]}
  \/ \E s \in ActiveStates(files, "R") :
       LET frozenAs == {i \in DOMAIN files["r"].entries : files["r"].entries[i].iso = s}
       IN  Cardinality(frozenAs) # 1 \/ \E i \in frozenAs : ~files["r"].entries[i].class
  \/ \E rec \in FrozenSRecords(files) :
       /\ rec.state \in ActiveStates(files, "S") \ StatusBlockedStates(files)
       /\ IsDirect(rec) /\ {rec.identity, rec.party, rec.project} = {Absent}
  \/ \E p \in {"org", "armed"} :
       \E i \in DirectOrganizations(p) : ~files[p].organizations[i].identified
  \/ OrganizationTwice
  \/ \E i \in ReadyProjects :
       LET rec == files["projects"].projects[i] IN
       \/ ~rec.identified
       \/ rec.id # Absent
          /\ \E j \in ReadyProjects \ {i} : files["projects"].projects[j].id = rec.id

(* A record in which each key is written once, plainly, and says what a    *)
(* review has to say.                                                      *)
Says(y, key, texts) == \E i \in DOMAIN y : y[i].key = key /\ y[i].text \in texts

PlainlyCompatible(y) ==
  /\ \A i \in DOMAIN y : y[i].keyTag = "str" /\ y[i].key # "<<" /\ y[i].tag # "custom"
  /\ Cardinality({y[i].key : i \in DOMAIN y}) = Len(y)
  /\ Cardinality(UNION {{y[i].node, y[i].keyNode} : i \in DOMAIN y}) = 2 * Len(y)
  /\ Says(y, "reviewer", {"named"})
  /\ Says(y, "conclusion", {"compatible"})
  /\ Says(y, "reviewed_at", {"date", "timestamp-with-zone"})

ReviewDefect ==
  \/ pointer.artifact # frozen \/ working # frozen
  \/ pointer.status = "complete" /\ pointer.id = Absent
  \/ /\ pointer.status = "complete"
     /\ LET e == pointer.id IN
        \/ <<e, e>> \notin evidence
        \/ DOMAIN e.sources # {p \in Paths : Exists(files, p)}
        \/ \E p \in DOMAIN e.sources : e.sources[p] # files[p]
        \/ e.artifact # frozen
        \/ ~PlainlyCompatible(e.yaml)

LaunchDefect ==
  \/ BootstrapRefuses(run.launch, files)
  \/ run.launch.shadowed
  \/ files["requirements"] # run.launch.parser
  \/ ~Exists(files, "states")

(* RefusalHasCause: a renderer that gives up in a checkout nobody edited   *)
(* meanwhile does so for a defect of the launch, of the review or of the   *)
(* frozen clauses; an honest review of a sound checkout is accepted.       *)
RefusalHasCause ==
  verdict = "refused" /\ quiet /\ run.launch # Absent =>
    LaunchDefect \/ ReviewDefect \/ ClauseDefect

(* CheckRejectsOnlyChanges: the renderer and the check, two programs that  *)
(* read the registry apart from each other, agree on what a candidate must *)
(* say: the check rejects one only if the checkout changed since the       *)
(* renderer was started.                                                   *)
CheckRejectsOnlyChanges == verdict = "red" => ~quiet

=============================================================================
