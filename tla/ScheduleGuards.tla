--------------------------- MODULE ScheduleGuards ---------------------------
(***************************************************************************)
(* The gates that look for identities the reference audit could miss:      *)
(*   check_schedule_exact_identity_completeness                            *)
(*   check_schedule_named_identity_strictness (the rows of every kind)     *)
(*   check_schedule_project_cross_role_identity_coverage                   *)
(*   check_schedule_residual_identity_dispositions                         *)
(*   check_schedule_adversarial_identity_gaps                              *)
(*   check_schedule_short_acronym_cluster_coverage                         *)
(*   check_schedule_root_and_actor_alternative_... (document roots)        *)
(* and their conjunction, a green run of every gate.                       *)
(*                                                                         *)
(* A repository has, besides what ScheduleReferences names, the reviewed   *)
(* overlays cross, residual and short: a set of entries with the pins of   *)
(* the documents they were written for, [blobs, entries].                  *)
(***************************************************************************)
EXTENDS ActorExpressions

CrossRoleTypes == {"Agency", "Institution", "Organization"}
ScopeObjectFields == {"schedule_identity", "project_boundary"}
SkipExtraFields == {"identity_sources", "dossier"} \cup LinkFields
ScopeKinds == {"scope-reference", "scope-identity-reference"}

ExpectedKind(r) == IF r.kind = "actor-reference" THEN "actor"
                   ELSE IF r.kind = "project-reference" THEN "project" ELSE "identity"

(* independent_exact_matches: the embedded names again, with a broader     *)
(* idea of what an acronym is.                                             *)
independent_exact_matches(repo, raw, expected, state) ==
  {e.id : e \in {x \in Candidates(repo, expected, state) :
     \E n \in Forms(x) : EmbeddedIn(raw, n, looks_like_acronym_surface(n))}}

ByType(repo, ids, types) == {id \in ids : \E e \in repo.entities : e.id = id /\ e.type \in types}

(* explicitly_defers_person: the reason names the person.                  *)
explicitly_defers_person(r, m) ==
  /\ r.how = "reviewed" /\ r.status \in {"deferred", "partial-deferred"}
  /\ token_phrase_present(norm(r.reason), norm(m))

(* completeness_failures of one row. *)
RowComplete(repo, r) ==
  /\ independent_exact_matches(repo, r.raw, ExpectedKind(r), r.state) \subseteq r.ids
  /\ r.kind \in ScopeKinds =>
       \A m \in named_person_mentions(r.raw) :
         LET ids == materialized(repo, m, r.state)
             persons == ByType(repo, ids, {"Person"})
         IN  IF persons # {} THEN persons \subseteq r.ids
             ELSE ids # {} \/ explicitly_defers_person(r, m)

CompletenessGreen(repo, rows) == \A r \in rows : RowComplete(repo, r)

-----------------------------------------------------------------------------
(* strict: identity_coverage_ids of a manifest entry preserve a person in  *)
(* a project row without giving the person a role.                         *)
CoverageEntries(repo) == {key \in Entries(repo) : EntryAt(repo, key).coverage # {}}

CoverageLoads(repo) ==
  \A key \in CoverageEntries(repo) :
    LET e == EntryAt(repo, key)
    IN  /\ e.field \in ProjectFields /\ e.disposition \in {"bound", "partial-deferred"}
        /\ e.coverage \cap e.ids = {}
        /\ \A id \in e.coverage : \E x \in repo.entities :
             /\ x.id = id /\ x.type = "Person"
             /\ eligible_in_state(id, e.state, state_codes(repo.entities))

supplemental_ids(repo, r) ==
  UNION {EntryAt(repo, key).coverage : key \in {k \in CoverageEntries(repo) : MatchesPrefix(EntryAt(repo, k), r)}}

StrictRow(repo, r) ==
  LET people == ByType(repo, independent_exact_matches(repo, r.raw, "identity", r.state), {"Person"})
      extra == supplemental_ids(repo, r)
  IN  /\ extra # {} => r.how = "reviewed"
      /\ extra \subseteq people /\ people \subseteq r.ids \cup extra
      /\ \A m \in strict_named_mentions(r.raw, r.kind) :
           materialized(repo, m, r.state) # {} \/ explicitly_defers_complete_name(r, m)

StrictGreen(repo, rows) ==
  /\ CoverageLoads(repo)
  /\ \A r \in rows : StrictRow(repo, r)
  /\ \A key \in CoverageEntries(repo) : \E r \in rows : MatchesPrefix(EntryAt(repo, key), r)

-----------------------------------------------------------------------------
(* The overlays. Each must pin what it was written for, pin nothing else,  *)
(* and be used: an entry once, by the row it names.                        *)
PinsHold(repo, overlay) ==
  /\ DOMAIN overlay.blobs # {}
  /\ \A s \in DOMAIN overlay.blobs : s \in DOMAIN repo.docs /\ repo.docs[s] = overlay.blobs[s]
  /\ DOMAIN overlay.blobs = {e.source : e \in overlay.entries}

(* check_schedule_project_cross_role: load_overlay and failures.           *)
SameRow(e, r) ==
  /\ e.source = r.source /\ e.state = r.state /\ e.field = r.field
  /\ e.index = r.index /\ e.raw = r.raw

exact_cross_role_ids(repo, r) ==
  ByType(repo, independent_exact_matches(repo, r.raw, "identity", r.state), CrossRoleTypes)

CrossRoleGreen(repo, rows) ==
  LET projects == {r \in rows : r.kind = "project-reference"}
  IN  /\ PinsHold(repo, repo.cross)
      /\ \A e \in repo.cross.entries : e.field \in ProjectFields /\ e.ids # {}
      /\ \A r \in projects :
           LET declared == {e \in repo.cross.entries : SameRow(e, r)}
           IN  IF exact_cross_role_ids(repo, r) = {} THEN declared = {}
               ELSE {e.ids : e \in declared} = {exact_cross_role_ids(repo, r)}
      /\ \A e \in repo.cross.entries : Cardinality({r \in projects : SameRow(e, r)}) = 1

-----------------------------------------------------------------------------
(* Values outside the audited fields, as rows of their own.                *)
ExtraRow(s, k, state, l, i, root) ==
  [source |-> s, index |-> k, state |-> state, field |-> l.path, pos |-> i, raw |-> l.value[i],
   kind |-> "extra-context-reference", how |-> "none", status |-> "context-only", ids |-> {},
   reason |-> <<>>, key |-> <<>>, root |-> root]
TextPositions(l) == {i \in DOMAIN l.value : l.value[i] # NotText /\ l.value[i] # <<>>}
ExtraRowsOf(leaves, s, k, state, root) ==
  UNION {{ExtraRow(s, k, state, l, i, root) : i \in TextPositions(l)} : l \in leaves}

extra_context_rows(repo) ==
  UNION {LET doc == repo.docs[s]
         IN  (IF doc.multi
              THEN ExtraRowsOf({l \in doc.root : l.path[1] \notin SkipExtraFields}, s, 0, Global, TRUE)
              ELSE {})
             \cup UNION {ExtraRowsOf({l \in doc.records[k].leaves :
                            /\ l.path[1] \notin SkipExtraFields
                            /\ l.path[1] \notin KnownReferenceFields},
                            s, k, doc.records[k].state, FALSE)
                         : k \in records_from_document(doc)}
         : s \in DOMAIN repo.docs}

(* contextual_labels: what looks like an identity in a row of this kind.   *)
ambiguous_actor_list_mentions(raw) ==
  LET seps == ListSeparators(raw, {})
      names == UNION {actor_component_name(Of(raw, p)) : p \in Pieces(raw, seps)}
  IN  IF seps # {} /\ Cardinality(names) >= 2 THEN names ELSE {}

contextual_labels(r) ==
  CASE r.kind = "actor-reference" ->
         ambiguous_actor_list_mentions(r.raw) \cup acronym_identity_labels(r.raw)
    [] r.kind = "project-reference" -> named_object_labels(r.raw)
    [] OTHER ->
         named_institution_labels(r.raw) \cup acronym_identity_labels(r.raw)
           \cup strict_named_mentions(r.raw, "scope-reference")
           \cup (IF /\ r.kind = "scope-reference" /\ r.status = "context-only"
                    /\ r.field = "schedule_identity"
                 THEN full_name_phrase(r.raw) ELSE {})
           \cup (IF r.kind = "extra-context-reference" \/ r.field \in ScopeObjectFields
                 THEN named_object_labels(r.raw) \cup MatterNames(r.raw) ELSE {})

(* A longer name the row binds holds the label, both standing once.        *)
resolved_identity_covers_label(repo, r, label) ==
  /\ token_phrase_occurrences(norm(r.raw), norm(label)) = 1
  /\ \E e \in {x \in repo.entities : x.id \in r.ids} : \E n \in Forms(e) :
       /\ token_phrase_occurrences(norm(r.raw), norm(n)) = 1
       /\ token_phrase_present(norm(n), norm(label))

-----------------------------------------------------------------------------
(* residual: surfaces a reviewer settled one by one.                       *)
covered_surface_candidate_ids(repo, r, surface) ==
  {e.id : e \in {x \in repo.entities : /\ x.id \in r.ids
                    /\ \E n \in Forms(x) : token_phrase_present(norm(n), norm(surface))}}

ResidualEntrySound(repo, rows, e) ==
  LET same == {r \in rows : /\ r.source = e.source /\ r.state = e.state
                            /\ r.field = e.field /\ r.raw = e.raw}
  IN  /\ token_phrase_present(norm(e.raw), norm(e.surface))
      /\ (e.disposition = "covered") <=> (e.ids # {})
      /\ \A id \in e.ids : \E x \in repo.entities :
           /\ x.id = id /\ x.type # "State"
           /\ eligible_in_state(id, e.state, state_codes(repo.entities))
      /\ IF e.field \in KnownReferenceFields
         THEN /\ Cardinality(same) = 1
              /\ \A r \in same :
                   /\ r.how = "reviewed"
                   /\ e.disposition = "covered" =>
                        e.ids = covered_surface_candidate_ids(repo, r, e.surface)
         ELSE e.disposition = "deferred"

(* load_dispositions: its pins may not disagree with the manifests'.       *)
ResidualLoads(repo, rows) ==
  /\ PinsHold(repo, repo.residual)
  /\ \A v \in DOMAIN repo.manifests :
       \A s \in DOMAIN repo.manifests[v].blobs \cap DOMAIN repo.residual.blobs :
         repo.manifests[v].blobs[s] = repo.residual.blobs[s]
  /\ \A e \in repo.residual.entries : ResidualEntrySound(repo, rows, e)

(* adversarial: each label is on file, held by a bound name, deferred by   *)
(* its whole name or settled by exactly one residual entry.                *)
ResidualEntriesFor(repo, r, label) ==
  {e \in repo.residual.entries : /\ e.source = r.source /\ e.state = r.state
                                 /\ e.field = r.field /\ e.raw = r.raw /\ e.surface = label}

OpenLabels(repo, r) ==
  LET bound == IF r.kind = "extra-context-reference"
               THEN [r EXCEPT !.ids = embedded_identity_matches(repo, r.raw, "identity", r.state)] ELSE r
  IN  {l \in contextual_labels(r) :
         /\ materialized(repo, l, r.state) = {}
         /\ ~resolved_identity_covers_label(repo, bound, l)
         /\ ~explicitly_defers_complete_name(r, l)}

LabelSettled(repo, r, label) ==
  \E e \in ResidualEntriesFor(repo, r, label) : e.disposition = "deferred" \/ e.ids \subseteq r.ids

AdversarialGreen(repo, rows) ==
  LET all == rows \cup {x \in extra_context_rows(repo) : ~x.root}
      uses(e) == UNION {{<<r, l>> : l \in {x \in OpenLabels(repo, r) :
                                           e \in ResidualEntriesFor(repo, r, x)}} : r \in all}
  IN  /\ ResidualLoads(repo, rows)
      /\ \A x \in extra_context_rows(repo) : x.root => contextual_labels(x) = {}
      /\ \A r \in all : \A l \in OpenLabels(repo, r) : LabelSettled(repo, r, l)
      /\ \A e \in repo.residual.entries : Cardinality(uses(e)) = 1

-----------------------------------------------------------------------------
(* short acronym clusters: each member is on file or in the overlay, never *)
(* both.                                                                   *)
ShortEntriesFor(repo, r, label) ==
  {e \in repo.short.entries : SameRow(e, r) /\ e.surface = label}

ClusterGreen(repo, rows) ==
  LET all == rows \cup {x \in extra_context_rows(repo) : ~x.root}
      open == UNION {{<<r, l>> : l \in slash_cluster_acronyms(r.raw)} : r \in all}
  IN  /\ PinsHold(repo, repo.short)
      /\ \A e \in repo.short.entries : e.surface \in slash_cluster_acronyms(e.raw)
      /\ \A x \in extra_context_rows(repo) : x.root => slash_cluster_acronyms(x.raw) = {}
      /\ \A p \in open :
           (materialized(repo, p[2], p[1].state) = {}) <=> (ShortEntriesFor(repo, p[1], p[2]) # {})
      /\ \A e \in repo.short.entries :
           Cardinality({p \in open : e \in ShortEntriesFor(repo, p[1], p[2])}) = 1

-----------------------------------------------------------------------------
(* document roots: a second look, which does not skip "dossier" and does   *)
(* not ask for a State.                                                    *)
root_exact_identity_ids(repo, raw) ==
  {e.id : e \in {x \in repo.entities : x.type # "State" /\ \E n \in Forms(x) :
     IF looks_like_acronym_surface(n) THEN \E i \in DOMAIN raw : raw[i] = n[1]
     ELSE token_phrase_present(norm(raw), norm(n))}}

document_root_rows(repo) ==
  UNION {ExtraRowsOf({l \in repo.docs[s].root : l.path[1] \notin SkipExtraFields \ {"dossier"}},
                     s, 0, Global, TRUE)
         : s \in {x \in DOMAIN repo.docs : repo.docs[x].multi}}

RootsGreen(repo) ==
  \A x \in document_root_rows(repo) :
    contextual_labels(x) = {} /\ root_exact_identity_ids(repo, x.raw) = {}

-----------------------------------------------------------------------------
(* Every gate, as continuous integration runs them on each push.           *)
Green(repo) ==
  /\ RegistryGreen(repo.entities, repo.supers)
  /\ ManifestsSound(repo)
  /\ ~AuditRaises(repo)
  /\ FieldsSound(repo)
  /\ RootsGreen(repo)
  /\ LET rows == audit(repo)
     IN  /\ ReferencesGreen(repo, rows)
         /\ \A r \in rows : ~unsafe_reason(repo, r)
         /\ CompletenessGreen(repo, rows)
         /\ StrictGreen(repo, rows)
         /\ CrossRoleGreen(repo, rows)
         /\ ActorsGreen(repo, rows)
         /\ AdversarialGreen(repo, rows)
         /\ ClusterGreen(repo, rows)
=============================================================================
