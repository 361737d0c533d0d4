# Exergic Commons License: a verification project

The repository publishes a license together with the machinery that keeps its
releases honest: a command that freezes what a legal review looks at, a
resolver that turns a project's policy into an exact lock, a daily sweep that
raises due reviews, a generator that keeps curated records in step with
dossiers, a renderer that releases a Schedule candidate only on a review of
exactly its bytes, and a large family of gates that ask whether a name in a
curated text could have been overlooked. The modules here model all of these.
`PROJECT.json` lists for every definition the source lines it models, for every
property the seeded fault it catches, and the hazards we know of, each at its line.

## 1. Inventory

| part | state it keeps | operations | what makes it hard |
|---|---|---|---|
| legal-review preparation, `tools/prepare_legal_review.py` | `reviews/legal/inputs/<id>/` | one command: check, read blobs, publish, verify, roll back | several invocations in one checkout, kills, I/O errors, durability, maintainers who commit beside it |
| the same, consumption of ids | Git history at `origin` and in the clone | compare refs live, `git log --all -- <path>` | partial fetches, merges, deleted branches, history simplification |
| bundle resolver, `tools/ecl_resolve.py` | `ecl.lock` of a project | pinned, follow-stable, latest-stable, `--allow-draft` | it reads six files one by one from a tree that maintainers change; channels move, canonical files evolve |
| living-review sweep, `tools/update_ticket_sweep.py` and its workflow | GitHub issues, found again by fingerprint | build signals, search, create | lost answers, failing requests, overlapping runs, closed issues, moved dates |
| State ABox generator, `tools/migrate_state_abox.py` | `knowledge/entities/STATE-*.json` and a manifest of hashes | full run, `--iso3` run, v1 cleanup | several files written without a transaction, curated and generated fields in one record |
| State public-review synchronizer, `tools/migrate_state_review_issues.py` and its workflow | bodies and labels of GitHub issues | fetch, rewrite, patch | a read-modify-write of text that people edit, queued and stale jobs |
| Schedule renderer and release gate, `tools/render_schedule*.py`, `check_schedule_compatibility_output.py` | a rendered candidate | bootstrap, declarations, compatibility review, outcomes, freezes, render, check of the output | it reads the checkout file by file, some files twice, while people edit, and content-addressed evidence must cover exactly what was read |
| Schedule reference audit, `tools/audit_schedule_reference_coverage.py`, and its disposition manifests | manifests pinned to document blobs | resolve each mention, apply the reviewed dispositions | a pin, a prefix and a registry that move independently |
| Schedule identity gates, ten of `tools/check_schedule_*.py` | none | predicates of one checkout | names in free text: alternatives, lists, capacity clauses, acronyms; a bound name may hide an unbound one beside it |
| entity registry and identity resolution, `tools/entity_identity_resolution.py` and two gates | entity files, supersession manifests | resolve a name, canonicalize an id | chains, scoping by State, aliases that shadow |
| State-dossier discovery and identity, `tools/audit_state_dossier_entities.py`, `check_state_dossier_softwrap_coverage.py`, `..._identity_sets.py`, `..._h1_state_binding.py` | none | find the names a dossier mentions | wrapped lines, abbreviations, ids that are also names |
| State-dossier dispositions, `tools/review_state_dossier_candidates.py`, `check_state_dossier_ratchet_integrity.py` | versioned dispositions, a ratchet | overlay, stale and missing rows, threshold over a tree | dispositions, registry and dossiers change one at a time |
| CommonMark fences, Exergic calculator, knowledge graph | none | pure functions | edge cases of an algorithm |
| ontology, schemas, data, texts | files | none of their own | |

How they interact. Every tool works on one Git tree. The preparation freezes
mechanism files under a review id; a record written by people binds the frozen
files and a License; a bundle manifest binds License, Schedule and record; the
resolver checks that chain and writes a lock. Dossiers are the input of the ABox
generator, of the public-review synchronizer and of discovery; the generator's
records carry the `reviewDue` dates the sweep reads; the sweep's issues lead
people to edit dossiers and records. One registry of entities serves the
Schedule gates and the dossier gates, so that registering an entity for one
changes what the other resolves. Apart from the files and GitHub there is no
shared state, and no tool takes a lock: concurrency is between processes,
between workflow runs, and between a tool and people.

## 2. Modules

| module | models | state | actions |
|---|---|---|---|
| `SnapshotPublish` | publication of a snapshot | per invocation: phase, id, source commit, bytes read, files to write, open file; on disk: which directory is at a path, its files, which bytes, entries and links are durable; HEAD, records, history | one per file-system or Git operation of `prepare_review_inputs` and `_write_snapshot`, in the code's order, each with its failure; kill; acts of maintainers |
| `ReviewRegistry` | what a preparation promises: a write-once slot per id | binding, outcome | `Win`, `Lose` |
| `ReviewIdHistory` | whether an id is still free | the commit graph, what each commit holds at the path, refs of `origin` and of clones | the ref comparison, refusal, publication; push, merge, delete, branch, fetch, checkout |
| `BundleResolver` | one project's resolver beside the maintainers | channel, manifests, component files, records, frozen inputs; policy, step, manifest and record in hand, lock | one per file read or written; publication, channel moves, edits |
| `UpdateSweep` | sweeps against GitHub | dates, issues, list and flags of each run | start, search, post, failing request, abort, finish; days, edits, closing, deletion |
| `ReviewSurface` | the public-review synchronizer | pushes, validating and waiting jobs; the job's commit, phase, issue and what it fetched; title, body and labels of each issue | the workflow's queue, start, labels, fetch, patch, failing request, abort, finish; boxes, notes, labels, removed delimiters |
| `StateAbox` | the generator | dossiers, records, manifest, pending writes | start or refuse a run, truncate a file, fill it, end, kill; edits, curation, `git restore` |
| `ScheduleGate` | renderer and output check beside the maintainers | the files of the checkout, what the run has read so far, candidate, verdict | one per file the renderer reads, in its order, each with its refusals; the check of the rendered text; edits, License edits, a review, its pointer, evidence rewritten in place |
| `IdentityText` | the grammar of names in free text | none | none: operators over token sequences |
| `IdentityResolution` | registry, supersessions, name index, the registry gates | none | none |
| `ScheduleReferences` | the reference audit, its manifests, three gates over its report | none | none |
| `ActorExpressions` | the five gates that take an actor value apart | none | none |
| `ScheduleGuards` | the other gates, and `Green`, a run in which all pass | none | none |
| `ScheduleAudit` | the Schedule side over time | the checkout, who read what when pinning | registering, superseding, editing a document, reviewing one value, reviewing the overlays, a push |
| `DossierDiscovery` | the names dossiers mention | none | none |
| `DossierReview` | dispositions, ratchet, dossier identity, `DossiersGreen` | none | none |
| `CurationAudit` | both sides over one registry | the above and the dossiers | the above; editing a dossier, disposing, withdrawing, raising and refreshing the ratchet |

`MC*` modules give the constants of the runs. `SnapshotPublishProofs`,
`ReviewIdHistoryProofs`, `BundleResolverProofs`, `UpdateSweepProofs`,
`StateAboxProofs`, `ReviewSurfaceProofs`, `ScheduleGateProofs` and
`CurationProofs` hold the theorems.

Abstractions, and why they are sound for the properties:

- A directory is named by the invocation whose `mkdir` made it. Path and
  directory are distinct in the code too: a handler removes what is at the path.
- A blob's bytes are the commit they come from; a SHA-256 and a Git blob id are
  the content, that is, taken to be injective. `Partial` stands for all bytes
  that are not the intended ones.
- The checks of `prepare_review_inputs` that read only Git objects (names,
  tree entries, full clone, grafts) end the run before anything is written; they
  appear as the failure of `ReadBlobs`, which ends it at the same place with the
  same effect. The one about refs has a module of its own.
- `fsync` of a directory makes the entries it then has durable; a power failure
  is not an action: `ReportedDurable` states what would survive one. Of the one
  entry of `inputs` in `reviews/legal`, `inputsDir` says whether it has been
  fsynced and otherwise who made the directory. Git, which removes a directory it
  has emptied, is taken to leave `inputs` in place.
- In `ReviewIdHistory` one id and one of its two paths are enough: the code
  asks the same question of each separately. `Walked` and `Shown` are Git's
  default simplification for one path, compared with the behaviour of git itself
  on the graph of the counterexample.
- In `BundleResolver` the fields of a record that must merely be complete are
  one flag, the three frozen mechanism files one content, path syntax is left out.
  A component is a ref, a path and a hash that a manifest combines as it likes; the
  file at a path has a content of its own, which edits change.
- In `StateAbox` the owned fields are a name (which a hand-written record may
  have otherwise) and a date (which it may not); 90 days are one.
- In `ReviewSurface` a body is a sequence of tokens (marker, delimiters, generated
  block, box, note, old text), and the generated block is the number of the push
  that last changed its dossier. `find` and `rfind` are the first and the last
  place of a token. Title and label names are one flag and two labels.
- GitHub finds every issue that exists and no other.
- In the identity modules a text is a sequence of tokens: words, fixed phrases of
  the code's grammar, marks. What a regular expression tells apart in a token is
  its classes, given by the constants; a match is an interval of positions. The
  resulting gates for actor values and for rows were compared with the Python
  itself on 3,492 values generated from the grammar, with no difference. Fences,
  tables, URLs and markup are left out: `lines` of a dossier are its words.
- The gates of a workflow change nothing, so that a run of all of them is one
  step, `Push`, which any checkout may take and which ends the history. What a
  green run establishes is therefore an action property of that step.
- In `ScheduleAudit` and `CurationAudit` the acts are those of people and the
  repository only holds their results: they are external. A review follows what
  the gates print: a pin is written with the document in hand. `Identities` and
  `Mentioned` say which complete names stand in a text, which no gate knows; the
  properties compare the gates with that truth.

## 3. Runs

| run | question | instance | distinct states |
|---|---|---|---|
| `snapshot` | is a returned descriptor intact, unique and durable, a failure clean; does a record win, do invocations get through, is the registry implemented? | 2 invocations, 2 ids, 2 commits, 1 file, 2 faults or maintainer acts, fair | 399 thousand |
| `id_history` | is the history question right, and what does it protect? | 1 clone, 2 refs, 5 commits | 1.3 million |
| `id_history_merge` | does the README's promise hold with merges? (no) | 4 commits | violation |
| `resolver` | does an operative lock rest on a review, do bundles stay valid, is nothing of the fallback borrowed, are pin, MAJOR and draft guard honoured? | one bundle of 14 kinds with 2 edits, or two bundles on a moving channel, policies of every mode | 419 thousand |
| `resolver_major` | does latest-stable ask before a MAJOR? (no) | 2 bundles | violation |
| `sweep` | no duplicates, honest exit codes, nothing due is forgotten? | 2 records, 2 days, 2 faults, 2 edits, fair | 340 thousand |
| `sweep_overlap` | still no duplicates when two runs overlap? (no) | 2 sweeps | violation |
| `review_surface` | does what people write survive, does a clean run settle, do the issues converge? | 2 issues, one of them edited, 2 pushes, 2 edits, 1 fault, fair | 770 thousand |
| `state_abox` | hashes, curation and promotion to v2 | 2 States, 2 names, 2 edits, 1 kill | 2.0 million |
| `schedule_gate` | is a compatible candidate the reviewed one, complete, and refused only for a cause? | 3 States, 2 edits, 1 review, edits between any two reads | 1.19 million |
| `curation` | do reviews fit the bytes, do names resolve uniquely, is any name dropped? | 3 acts from 26 beginnings: 23 Schedule checkouts, one per shape of actor value, and 3 sets of dossiers | 45 thousand |
| `schedule_single` | is a one-word component accounted for? (no) | 2 acts | violation |

Why the bounds are enough. A conflict over an id needs two invocations; two
faults allow a failure and a removal of the residue in one behaviour, and two ids
let one invocation make the tree dirty for another. (What a third invocation or a
second file could add is covered by the proofs, which hold for any number.) Five
commits are a branch that adds and deletes, a main line and a merge with one
commit to spare; the counterexample needs four. In the resolver the edits fall
between any two reads, and the two that are allowed undo one another; component
files change only as `Rewrites` says, which gives an ordinary file the bytes of the
fallback's License, a reserved path ordinary bytes, and a Schedule any other bytes.
With the kinds of `BorrowingShapes` every way to borrow occurs: a whole component in
either slot, its file under another ref, a ref, the bytes or a path alone. Two records
and two days give overlapping look-aheads, a list in which one request fails and
another does not, and a date moved back and forth. Two States are what tells a
full run of the generator from a partial one. In the synchronizer two pushes can
enter the queue in the wrong order, one issue can be damaged while the other must
still be served, and two edits are a damage and a repair-by-wrapping, or one edit
before and one during a job. In `schedule_gate` two edits change a file after its
first reading and change it back before its second, and a review can be rewritten
in place after it was recorded; three States are one per outcome class. In
`curation` three acts are an edit, a review and a registration in any order, which
is what it takes for a pin, a binding and a registry entry to disagree; the
beginnings hold the shapes of values (alternatives, lists, capacity tails and
parentheses, acronyms, embedded titles), since acts do not compose new text. Every
bound is a constant named in the module (`MaxFaults`, `MaxCommits`,
`MaxPublished`, `MaxPushes`, `MaxEdits`, `MaxDay`, `MaxDate`, `MaxCrashes`,
`MaxReviews`, `MaxActs`, `Ceiling`) and appears only in the guards of the
environment or of failures, never in those of the program, with two exceptions:
`MaxCommits` also stops the push of a prepared snapshot, and `resolver` has the
state constraint `Bounded` of `MCBundleResolver`: under the policy that validates
most, one bundle of any kind in a tree whose files are edited; under the others
several bundles of the channel in a tree left as it is. A tree that is edited while
a channel moves is left to the proofs, which have no such bound.

Deadlock is not checked where the system really stops: all invocations have
ended, no commit may be made any more, the push has been judged.

Symmetry is used for names in `state_abox` only; the instance is symmetric in
them and checks safety alone.

### Properties worth reading first

- `OneBindingPerId`, `ReportedIntact`: the losing invocation's `mkdir` fails
  outside the `try`, so that its handler never removes the winner's directory.
- `ReportedDurable`: which fsyncs a descriptor rests on, and the one case in which
  it is printed without one of them (below, section 5).
- `FailureLeavesNothing`: a plain error leaves no directory, on the medium
  either; only the error that says so may leave one.
- `SomeoneReports`: the `inputs` directory one invocation makes can fail another,
  and its files make the tree dirty for a third; they never all fail.
- `HistoryCheckExact`, `LinearNeverRebinds`, `LiveTipRefused`: exactly how far
  `git log --all -- <path>` goes.
- `OperativeLockReviewed`: the record is read twice, so that the record whose hash
  the lock names and the one that was checked may differ; both were on disk.
- `FallbackIndivisible`: nothing of the fallback's components, not a ref, a path or
  the bytes alone, gets into a lock through another bundle, in either slot.
- `HistoricalValidity`: nothing but an edit of what it binds changes the
  verdict on a published bundle.
- `HistoryKept`: whichever delimiters an editor destroys, the historical body stays;
  `CleanRunSettles`: exit code 0 means that a second run changes nothing, on
  damaged and re-wrapped surfaces too.
- `Converges`: one unreadable issue does not keep the others from the newest
  dossier; jobs that enter the concurrency group out of order do, which the
  property names as its exception.
- `NoSyntheticUnderV2`, `NoConflictUnprovoked`: the manifest and the records stay
  together over partial runs, kills and restores.
- `ReviewedContentOnly`: though files are read at different moments, and some
  twice, what a compatible candidate is made of is what one completed review
  bound, byte for byte.
- `ReviewMatchesContent`: however edits, reviews and overlays interleave, a green
  run rests only on reviews by somebody who had the present bytes in hand.
- `NothingUnaccounted`, `DossierNamesSettled`: no complete name of an actor value
  or of a dossier is dropped by every gate at once. No single gate ensures it; each
  sees a piece of the grammar.
- `DebtIsMonotone`: registering one actor makes no neighbour's debt disappear.
- `NamesResolveUniquely`: what the collision and shadow gates establish is what
  `resolve_normalized` needs, in every State.

### Fairness

`SnapshotPublish!FairSpec`: a running process keeps being scheduled
(`WF_vars(Step(p))`); faults and maintainers are not fair. `UpdateSweep!FairSpec`:
the workflow's cron starts a run every day and a run in progress goes on
(`WF_vars(SweepStep(s))`, which includes starting), and days pass
(`WF_vars(NextDay)`). Failures, aborts and edits are bounded, not fair; that is
the assumption behind `DueReviewIsRaised`: a service that fails forever raises
nothing. `ReviewSurface!FairSpec`: GitHub ends each validation and starts the
waiting job (`WF_vars(Validated(n))`, `WF_vars(StartJob)`), and a job goes on
(`WF_vars(JobStep)`); failures and edits are not fair. The other modules state no
liveness: nothing in them waits.

### Disagreements with the documentation

1. `reviews/legal/README.md:48` promises that an id that existed in any fetched
   history cannot be rebound. The history question loses an add and a delete on
   a branch that was merged into one without the path and dropped
   (`id_history_merge`).
2. `spec/VERSIONING.md:193` requires confirmation before a MAJOR boundary is
   crossed. `latest-stable` with the default constraint crosses it
   (`resolver_major`).
3. The sweep calls its signals deduplicated. Two overlapping runs of the
   workflow, which has no concurrency group, create two issues
   (`sweep_overlap`); one run after another never does (`sweep`).
4. `check_schedule_actor_expression_completeness.py` promises to fail closed on
   components other parsers drop (`:2`, `:8-9`). Its pattern for a component of
   one word (`:46`) closes a character class too early and matches none, so that
   "HRW and Globex" with HRW bound passes every gate (`schedule_single`). Names of
   two words and more are accounted for (`curation`).

## 4. Proofs

For every value of the constants that satisfies the modules' assumptions:

- `SnapshotPublishProofs`: `TypeOK`, `ReportedIntact`, `OneBindingPerId`,
  `FailureLeavesNothing`, `ReportedDurable`, `RecordWins`, and the refinement of
  `ReviewRegistry`. None of them is inductive. The invariant adds, phase by
  phase, whose directory is at the path (an invocation that is writing owns
  it, and a path with a live owner is nobody else's), what the finished files
  hold, that the open file is in the owner's own directory, and what has been
  synced so far. For the entry of `inputs` it adds that its maker, until its fsync is
  done, is at that fsync, has failed or has died, and that whoever is past it found
  `inputs` there. `Durable` therefore has the exception `InputsEntry` spells out, and
  no other. One lemma per action carries it; actions before publication
  share one, since they touch no directory. The refinement follows step by
  step: `Verify` maps to `Win`, ends in failure to `Lose`, everything else
  stutters; that the slot is free when an invocation wins is `OneBindingPerId`
  of the state before. `RecordWins` speaks of all later states from some state on; from
  the state in which the record is there ahead of an invocation, "it has not verified,
  and the record is there, or it has failed" is kept by every step.
- `ReviewIdHistoryProofs`: `TypeOK`, `HistoryCheckExact`, `LinearNeverRebinds` and
  `LiveTipRefused`, for any number of clones, refs and commits. Reachability and the
  walk of `git log` are recursive over a graph that only grows backwards, parents being
  older than children. A few lemmas about walking back (`WalkGoesBack`, `WalkGoesOn`,
  `WalkWithin`, `WalkAlike`), by least counterexample on the numbers of commits, take
  the place of an induction: the walk stays within the ancestors, equals them where
  nothing is a merge, and always shows a path that stands at a tip, since a parent that
  holds the same leads back to where it came from. What is shown was held; without
  merges, the oldest commit that held it is shown. The invariant adds to the types that
  while a clone is between the comparison and the history question, whatever origin
  showed it then is reachable from its own refs, which is what the comparison is for.
- `BundleResolverProofs`: `TypeOK`, `OperativeLockReviewed`, `PinnedNeverMoves`,
  `MajorHonoured`, `NoDraftUnasked`, `FallbackIndivisible`, `HistoricalValidity`.
  The invariant says what each step of the resolution has established of the
  manifest in hand (published and never changed, all its components compared with
  the reserved ones, accepted under the present
  policy; from the record's hash on, that the record named was once on disk;
  then that the record loaded approves; then that its inputs were frozen) and the
  same of every lock written. Manifests are written once and the history
  variables only grow, which is what makes facts about earlier reads stable.
- `UpdateSweepProofs`: `TypeOK` and, for any overlap of runs, `CleanExitMeansRaised`.
  Its invariant says that the dates a run builds its list from are those it read,
  that an entry before the run's position has an issue unless the run is flagged
  as failed, and that the issues it relies on are open, closed or deleted ones
  that were once there. `OneIssuePerDueDate` is proved where runs follow one another
  (any two members of `Sweeps` are equal); from two on it is false, as
  `sweep_overlap` shows. Its invariant: what is about to be posted has no issue
  yet, and every fingerprint has at most one.
- `StateAboxProofs`: `TypeOK`, `NoSyntheticUnderV2`, `NoConflictUnprovoked`,
  `Idempotent`, `CuratedKept` and `HandEditNotOverwritten`, for any number of States,
  edits and kills. At rest the invariant is what the properties say plus a trace of
  every due date version 1 invented. During a run nothing of the kind holds of the
  files, which change one by one; the invariant says instead that there are records
  and a manifest that agree with one another and that the pending writes lead to,
  each file once and the manifest last. A kill may leave any part of them unwritten,
  and the properties name it as their exception.
- `ReviewSurfaceProofs`: `TypeOK` and `HistoryKept`, for any number of States, pushes,
  edits and failures. That the historical body is there once is not inductive: the
  extraction takes what lies between the first opening and the last closing, and the
  replacement drops what lies between two delimiters. The invariant adds that whatever
  opens or delimits metadata stands before the history and whatever closes stands after
  it, in every issue and in what a PATCH is made of, which may be older than the issue.
  In its second part, `CleanRunSettles`. To synchronize a body twice is to synchronize
  it once because a marker stands nowhere but at the very beginning: elsewhere the
  replacement could take it away and the next run would wrap the body again. The
  invariant adds that the issues a job has passed without a failure are as it would
  leave them, those edited since excepted, and that what commit n says of a dossier
  does not change with later pushes. In its third part, `EditsSurvive`: what people wrote
  in a concatenation is what they wrote in its parts, and the tool takes out nothing but
  the block between the first opening and the first end behind it. The invariant adds
  that in an issue nobody damaged that block is whole, generated text and nothing else,
  which people keep who write below it or at the end; and that what a PATCH is made of
  is the issue as it is, unless somebody edited it since the GET.
- `ScheduleGateProofs`: `ReviewedContentOnly`, `CheckRejectsOnlyChanges`,
  `EveryActiveEntryOnce` and `RefusalHasCause`, for any files, edits between any two
  reads, and evidence. Edits end the premise of each,
  so that the invariant need only say, of a checkout nobody touched, what each step
  that was passed has established: the code that runs is there, the declarations that
  were not for the target are those there are now, the review stands, the candidate
  says so. That the evidence binds exactly the files there are follows from the
  set of paths the renderer binds (`BoundPaths`), and that a record cannot read
  "compatible" to the parser and otherwise to a reader from the uniqueness of its keys.
  For completeness the invariant `Gathered` adds what each collection has gathered so far,
  and lemmas say what the loops compute: a loop that keeps some elements of each file is
  a concatenation of parts, each element of each part once and in order; the outcome of a
  State is that of the last layer that names it; a loop that goes through without meeting
  a repetition has none; and the entries of outcome R are counted by the States they are
  about. For refusals the invariant `Explained` says that at every point the defect, if
  the run has given up, is in what it had read, and each refusing branch has a lemma that
  names the cause a person would find in the files.
- `CurationProofs`: `ReviewMatchesContent`, `NamesResolveUniquely` and
  `DispositionsFollowRegistry`, for every grammar of tokens, registry, document,
  dossier and history of acts. The first has the invariant `Reviewed`: whatever pin
  the checkout holds is in `read`; each act keeps it, and a green run compares the
  pins with the present documents. The other two need no induction: they follow
  from what the gates have established of one checkout, chiefly that the index
  built from collision-free, unshadowed names has one id per name and scope.

They rest on the named assumptions of the modules only: sets are disjoint where
their members must be told apart, bounds are naturals, the entries of a YAML
mapping are numbered, a beginning is a record with a checkout's fields, `None` is no
issue. States and records are numbered from 1. In `ScheduleGate` the States are finitely
many, what is repeated in a file is a list, `Absent` is neither a code nor a name, a
node of an evidence record has a standard tag or a custom one, and a launch in which a
module of the repository would be imported has been recorded as such (`shadowed`).
Finiteness is assumed of nothing else.

Model-checked only: liveness (`SomeoneReports`, `DueReviewIsRaised`, `Converges`);
`NothingUnaccounted`, `DossierNamesSettled` and `DebtIsMonotone`, which relate the
grammar of texts to names that the constants say stand in them, and hold for the
shapes listed in `MCScheduleAudit` and `MCCurationAudit`.
`TypeOK` of `SnapshotPublish`, `BundleResolver`, `UpdateSweep` and `ReviewSurface` is
proved and no run repeats it.

## 5. Not modelled

Whole parts: the twenty stateless companions of the dossier discovery (patterns of
English prose whose content is the wording they match) and
`audit_private_org_mentions`; the duplicate-key gates (one question of one parse
tree, whose answer the documents of the model presuppose); the fence scanner and
the Exergic calculator (pure, in the plan); the graph build and the SPARQL checks
(stateless calls of external libraries); schemas, ontology and data.

Inside the modelled parts:

- Names of one word with a capacity tail are read by no gate; surfaces in the keys
  of a mapping (`mapping_key_surfaces`) are left out; an acronym with several dots
  ("U.S.") is one word to the code's patterns in some gates only, and no token here.
- `StateCount` is `--require-state-count`, 195 by default and two in the run.
- A title that is wrapped over two lines, not registered, and on no single line
  cannot be settled by a disposition: the review calls the row stale, while the
  audit of wrapped lines would take it. Only registering the name or joining the
  lines helps. `Withdraw` and `Register` are the acts that do.
- `norm` in the identity-set check drops characters outside ASCII, so that a
  decoration of the H1 made of such characters passes.
- An entity id in a dossier is looked up as an id and may spell somebody's name;
  `DispositionsFollowRegistry` excepts it (`SpellsAnId`).

Known and covered by no property: a completed record that appears after the last
look at its path (`prepare_legal_review.py:408`); the history question,
asked once before publication (`:358`); constraints other than "latest" and "N.x",
which state no MAJOR (`ecl_resolve.py:82`); a lock torn by a kill (`:410`); edits
between the generator's reading and writing (`migrate_state_abox.py:157`) and a
conflict that blocks all States (`:140`); labels beyond the first page
(`migrate_state_review_issues.py:237`); a search index that lags behind the creation
of an issue (`update_ticket_sweep.py:150`), whose effect is that of `sweep_overlap`.

Possible in the code, and named by the property next to it as its exception, so that
no property covers it either:

- an `inputs` directory whose maker was killed or failed before the fsync of
  `reviews/legal` (`prepare_legal_review.py:388`): later invocations find it and
  report without that fsync, so that a power failure may take `inputs` and the
  snapshot in it away (`ReportedDurable`);
- an edit on GitHub between the GET of an issue and its PATCH, which is lost
  (`migrate_state_review_issues.py:263`, `EditsSurvive`);
- jobs that enter the concurrency group in the wrong order
  (`state-public-review-migration.yml:88`, `Converges`);
- a generator run cut short, after which a later one may report a conflict
  (`migrate_state_abox.py:171`, `NoConflictUnprovoked`).

## 6. Plan

1. Preparation, ids, resolver, sweep, generator, synchronizer, renderer, Schedule
   and dossier gates over one registry: done, as above.
2. Proofs of the preparation, the ids, the resolver, the sweep, the generator, the
   synchronizer, the renderer and the curation: done, but for what section 4 lists as
   model-checked only. Next is what of `NothingUnaccounted`
   and `DossierNamesSettled` does not depend on a list of shapes.
3. Pure algorithms against reference definitions: CommonMark fences, the bounds of
   the Exergic calculator.
