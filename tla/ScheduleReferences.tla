------------------------- MODULE ScheduleReferences -------------------------
(***************************************************************************)
(* tools/audit_schedule_reference_coverage.py and the gates that read its  *)
(* report alone: the reviewed disposition manifests, the safety of what    *)
(* the heuristic resolved, and the schema of the freeze documents.         *)
(*                                                                         *)
(* A repository is a record with the fields                                *)
(*   entities, supers   the registry of IdentityResolution                 *)
(*   docs       source path -> freeze document                             *)
(*   manifests  version -> [version, follows, blobs, entries]              *)
(*   links      link field -> values registered under registry/            *)
(* and those ScheduleGuards adds. A document is                            *)
(*   [multi, root, records], a record [state, leaves], and a leaf          *)
(* [path, value]: the keys that lead to it and the sequence of its strings *)
(* (NotText where YAML holds something else). A file's Git blob identity   *)
(* is its content, so that a pin is a document.                            *)
(***************************************************************************)
EXTENDS IdentityResolution

CONSTANTS
  Referential,    \* field names REFERENCE_FIELD_RE takes for identity-bearing ones
  MinContained    \* the least length of a name that may stand anywhere: 12 in the code

ASSUME MinContainedAssumption == MinContained \in Nat

ActorFields == {"candidate_parties", "identified_operators", "identified_parties"}
ProjectFields == {"candidate_projects", "identified_projects"}
ScopeFields == {"schedule_identity", "project_boundary", "identified_location"}
KnownReferenceFields == ActorFields \cup ProjectFields \cup ScopeFields
ProvenanceFields == {"identity_sources"}
ContextIdentityFields == {"exclusions", "residual_unfrozen_scope"}
LinkFields == {"linked_project_id", "linked_organization_id"}
ProjectTypes == {"Project", "Deployment"}

Texts(value) == SelectSeq(value, LAMBDA v : v # NotText)
Field(leaf) == Last(leaf.path)
TopLevel(leaf) == Len(leaf.path) = 1
list_values(value) == Texts(value)

-----------------------------------------------------------------------------
(* load_dispositions: what a manifest's pins require, or it raises.        *)
Entries(repo) ==
  UNION {{<<v, k>> : k \in DOMAIN repo.manifests[v].entries} : v \in DOMAIN repo.manifests}
EntryAt(repo, key) == repo.manifests[key[1]].entries[key[2]]

(* Seeded fault: the pins are not compared with the documents.             *)
DispositionsUnpinned(repo) ==
  \A key \in Entries(repo) : EntryAt(repo, key).source \in DOMAIN repo.manifests[key[1]].blobs

DispositionsLoad(repo) ==
  LET pins == UNION {{<<s, repo.manifests[v].blobs[s]>> : s \in DOMAIN repo.manifests[v].blobs} :
                       v \in DOMAIN repo.manifests}
      referenced == {EntryAt(repo, key).source : key \in Entries(repo)}
  IN  /\ \A v \in DOMAIN repo.manifests : DOMAIN repo.manifests[v].blobs # {}
      /\ \A p \in pins, q \in pins : p[1] = q[1] => p = q
      /\ \A key \in Entries(repo) : EntryAt(repo, key).source \in DOMAIN repo.manifests[key[1]].blobs
      /\ {p[1] : p \in pins} \subseteq referenced
      /\ \A p \in pins : p[1] \in DOMAIN repo.docs /\ repo.docs[p[1]] = p[2]

(* check_schedule_disposition_manifest_integrity.validate                  *)
manifests_contiguous(repo) ==
  /\ DOMAIN repo.manifests = 1..Cardinality(DOMAIN repo.manifests)
  /\ \A v \in DOMAIN repo.manifests :
       repo.manifests[v].version = v /\ repo.manifests[v].follows = v - 1

ManifestsSound(repo) ==
  /\ DOMAIN repo.manifests # {} /\ manifests_contiguous(repo)
  /\ \A key \in Entries(repo) :
       LET e == EntryAt(repo, key)
       IN  /\ e.field \in KnownReferenceFields
           /\ e.prefix # <<>> /\ e.prefix = StripMarks(e.prefix)
           /\ e.disposition \in {"bound", "deferred", "partial-deferred"}
           /\ e.reason # <<>>
           /\ (e.disposition = "deferred") <=> (e.ids = {})
  /\ \A j \in Entries(repo), k \in Entries(repo) :
       LET d == EntryAt(repo, j)
           e == EntryAt(repo, k)
       IN  (/\ d.source = e.source /\ d.state = e.state
            /\ d.field = e.field /\ d.prefix = e.prefix) => j = k

-----------------------------------------------------------------------------
(* Resolution. *)
Forms(e) == {n \in NamesOf(e) : norm(n) # <<>>}

Candidates(repo, expected, state) ==
  {e \in repo.entities :
     /\ e.type # "State" /\ eligible_in_state(e.id, state, state_codes(repo.entities))
     /\ expected = "actor" => e.type \notin ProjectTypes
     /\ expected = "project" => e.type \in ProjectTypes}

(* The value without the capacity prose behind it. Its readers take the    *)
(* marks at its ends off.                                                  *)
identity_head(raw) ==
  LET cut == SelectInSeq(raw, LAMBDA t : Is(t, "split"))
  IN  IF cut = 0 THEN raw ELSE SubSeq(raw, 1, cut - 1)

StartsWith(words, prefix) == Len(prefix) < Len(words) /\ SubSeq(words, 1, Len(prefix)) = prefix

HeuristicHit(raw, alias) ==
  LET words == norm(raw)
      head == norm(identity_head(raw))
  IN  \/ alias \in {head, words}
      \/ Chars(alias) >= 6 /\ (StartsWith(head, alias) \/ StartsWith(words, alias))
      \/ Chars(alias) >= MinContained /\ token_phrase_present(words, alias)

(* The entities of the longest name that hits.                             *)
heuristic_resolve(repo, raw, expected, state) ==
  LET hits == UNION {{<<e.id, Chars(norm(n))>> : n \in {m \in Forms(e) : HeuristicHit(raw, norm(m))}} :
                       e \in Candidates(repo, expected, state)}
  IN  {h[1] : h \in {x \in hits : \A y \in hits : y[2] <= x[2]}}

(* A name of six characters on word boundaries, an acronym as written.     *)
EmbeddedIn(raw, n, acronym) ==
  IF acronym THEN \E i \in DOMAIN raw : raw[i] = n[1]
  ELSE Chars(norm(n)) >= 6 /\ token_phrase_present(norm(raw), norm(n))

embedded_identity_matches(repo, raw, expected, state) ==
  {e.id : e \in {x \in Candidates(repo, expected, state) :
     \E n \in Forms(x) : EmbeddedIn(raw, n, Len(n) = 1 /\ Is(n[1], "acronym"))}}

(* SCOPE_NAMED_IDENTITY_RE and SCOPE_ROLE_IDENTITY_RE. *)
NamedScope(raw) ==
  \E i \in DOMAIN raw :
    \/ Is(raw[i], "role") /\ \/ i > 1 /\ Is(raw[i - 1], "upper")
                             \/ i < Len(raw) /\ Is(raw[i + 1], "upper")
                             \/ i + 1 < Len(raw) /\ Is(raw[i + 1], "prep") /\ Is(raw[i + 2], "upper")
    \/ Is(raw[i], "competent") /\ \E j \in (i + 1)..Len(raw) : j <= i + 5 /\ Is(raw[j], "body")

scope_identity_signal(repo, raw, state) ==
  \/ embedded_identity_matches(repo, raw, "identity", state) # {}
  \/ heuristic_resolve(repo, raw, "identity", state) # {}
  \/ NamedScope(raw)

-----------------------------------------------------------------------------
(* The rows of the report. *)
Expected(field) ==
  IF field \in ActorFields THEN "actor" ELSE IF field \in ProjectFields THEN "project" ELSE "identity"

(* records_from_document and the loops of audit(): one value a row.        *)
records_from_document(doc) == {k \in DOMAIN doc.records : doc.multi \/ k = 1}

Mentions(repo) ==
  UNION {UNION {UNION {
    {[source |-> s, index |-> k, state |-> repo.docs[s].records[k].state,
      field |-> Field(l), pos |-> i, raw |-> list_values(l.value)[i]] : i \in DOMAIN list_values(l.value)} :
    l \in {x \in repo.docs[s].records[k].leaves : TopLevel(x) /\ Field(x) \in KnownReferenceFields}} :
    k \in records_from_document(repo.docs[s])} : s \in DOMAIN repo.docs}

MatchesPrefix(e, m) ==
  /\ e.source = m.source /\ e.state = m.state /\ e.field = m.field
  /\ Len(e.prefix) <= Len(m.raw) /\ SubSeq(m.raw, 1, Len(e.prefix)) = e.prefix

matching_disposition(repo, m) == {key \in Entries(repo) : MatchesPrefix(EntryAt(repo, key), m)}

(* validate_disposition_targets, missing_reviewed_identity_bindings        *)
TargetsValid(repo, e, expected) ==
  \A id \in e.ids : \E x \in repo.entities :
    /\ x.id = id /\ x.type # "State"
    /\ expected = "actor" => x.type \notin ProjectTypes
    /\ expected = "project" => x.type \in ProjectTypes
missing_reviewed_identity_bindings(repo, e, m) ==
  embedded_identity_matches(repo, m.raw, Expected(m.field), m.state) \ e.ids

Counted(repo, m) ==
  m.field \notin ScopeFields \/ scope_identity_signal(repo, m.raw, m.state)

(* reference_row raises for one of its three reasons.                      *)
RowRaises(repo, m) ==
  /\ Counted(repo, m)
  /\ LET keys == matching_disposition(repo, m)
     IN  \/ Cardinality(keys) > 1
         \/ \E key \in keys :
              \/ ~TargetsValid(repo, EntryAt(repo, key), Expected(m.field))
              \/ missing_reviewed_identity_bindings(repo, EntryAt(repo, key), m) # {}

StatusOf(ids) == IF Cardinality(ids) = 1 THEN "resolved"
                 ELSE IF ids = {} THEN "unresolved" ELSE "ambiguous"

AuditRow(m, kind, how, status, ids, reason, key) ==
  [source |-> m.source, index |-> m.index, state |-> m.state, field |-> m.field, pos |-> m.pos,
   raw |-> m.raw, kind |-> kind, how |-> how, status |-> status, ids |-> ids,
   reason |-> reason, key |-> key]

reference_row(repo, m) ==
  LET keys == matching_disposition(repo, m)
      kind == CASE m.field \in ActorFields -> "actor-reference"
                [] m.field \in ProjectFields -> "project-reference"
                [] OTHER -> "scope-identity-reference"
      embedded == IF kind = "scope-identity-reference"
                  THEN embedded_identity_matches(repo, m.raw, "identity", m.state) ELSE {}
      found == heuristic_resolve(repo, m.raw, Expected(m.field), m.state)
      Row(how, status, ids, reason, key) == AuditRow(m, kind, how, status, ids, reason, key)
  IN  IF keys # {}
      THEN LET key == CHOOSE k \in keys : TRUE
               e == EntryAt(repo, key)
           IN  Row("reviewed", IF e.disposition = "bound" THEN "resolved" ELSE e.disposition,
                   e.ids, e.reason, key)
      ELSE IF embedded # {} THEN Row("embedded", "resolved", embedded, <<>>, <<>>)
      ELSE Row(IF found = {} THEN "none" ELSE "heuristic", StatusOf(found), found, <<>>, <<>>)

context_row(m) ==
  AuditRow(m, "scope-reference", "none", "context-only", {}, <<>>, <<>>)

audit(repo) ==
  {IF Counted(repo, m) THEN reference_row(repo, m) ELSE context_row(m) : m \in Mentions(repo)}

AuditRaises(repo) == ~DispositionsLoad(repo) \/ \E m \in Mentions(repo) : RowRaises(repo, m)

stale_dispositions(repo, rows) == Entries(repo) \ {r.key : r \in rows}

(* main with --fail-on-unresolved-curated *)
ReferencesGreen(repo, rows) ==
  /\ \A r \in rows : r.status \notin {"unresolved", "ambiguous"}
  /\ stale_dispositions(repo, rows) = {}

-----------------------------------------------------------------------------
(* check_schedule_reference_resolution_safety: a heuristic match counts    *)
(* only when the head of the value is a name of what it found.             *)
exact_same_entity_head(head, names) ==
  \/ norm(head) \in names
  \/ \E i \in 2..Len(head) :
       /\ Is(head[i], "open") /\ Is(Last(head), "close")
       /\ norm(SubSeq(head, 1, i - 1)) \in names /\ norm(Tail1(head, i + 1)) \in names

post_scope_tail(raw) ==
  LET cut == SelectInSeq(raw, LAMBDA t : Is(t, "split"))
  IN  IF cut = 0 THEN <<>> ELSE Tail1(raw, cut)

has_unsafe_post_scope_connector(raw) ==
  LET tail == post_scope_tail(raw)
  IN  \E i \in DOMAIN tail :
        \/ Is(tail[i], "plus")
        \/ Mark(tail[i]) /\ i < Len(tail) /\ Is(tail[i + 1], "andwith")

unsafe_reason(repo, r) ==
  /\ r.how = "heuristic"
  /\ \/ Cardinality(r.ids) # 1
     \/ ~\E e \in repo.entities :
           e.id \in r.ids /\ exact_same_entity_head(identity_head(r.raw), {norm(n) : n \in Forms(e)})
     \/ \E i \in DOMAIN r.raw : Is(r.raw[i], "including")
     \/ has_unsafe_post_scope_connector(r.raw)

-----------------------------------------------------------------------------
(* check_schedule_reference_field_coverage: a freeze document must not     *)
(* keep an identity where the audit does not look.                         *)
reference_value_sound(value) ==
  value # <<>> /\ \A i \in DOMAIN value : value[i] # NotText /\ StripMarks(value[i]) # <<>>

exact_identity_values(repo, value, state) ==
  LET index == build_name_index({e \in repo.entities : e.type # "State"}, repo.supers,
                                state_codes(repo.entities))
  IN  UNION {resolve_normalized(index, state, norm(value[i])) :
               i \in {k \in DOMAIN value : value[k] # NotText}}

metadata_sound(repo, rec, leaf) ==
  IF Field(leaf) = "entity"
  THEN /\ Len(leaf.value) = 1 /\ leaf.value[1] # NotText
       /\ rec.state \in state_codes(repo.entities)
       /\ default_normalizer(leaf.value[1]) = state_names(repo.entities)[rec.state]
  ELSE reference_value_sound(leaf.value)

LeafSound(repo, rec, leaf) ==
  LET f == Field(leaf)
      metadata == {"entity"} \cup ProvenanceFields
  IN  IF TopLevel(leaf) /\ f \in KnownReferenceFields THEN reference_value_sound(leaf.value)
      ELSE IF TopLevel(leaf) /\ f \in metadata THEN metadata_sound(repo, rec, leaf)
      ELSE IF TopLevel(leaf) /\ f \in LinkFields THEN leaf.value \in repo.links[f]
      ELSE IF TopLevel(leaf) /\ f \in ContextIdentityFields THEN TRUE
      ELSE /\ f \notin KnownReferenceFields \cup metadata \cup LinkFields \cup Referential
           /\ exact_identity_values(repo, leaf.value, rec.state) = {}

validate_document_root(doc) ==
  IF doc.multi
  THEN /\ doc.records # <<>>
       /\ \A l \in doc.root : \A k \in DOMAIN l.path :
            l.path[k] \notin KnownReferenceFields \cup {"entity"} \cup ProvenanceFields
                               \cup LinkFields \cup Referential
  ELSE Len(doc.records) = 1

FieldsSound(repo) ==
  \A s \in DOMAIN repo.docs :
    /\ validate_document_root(repo.docs[s])
    /\ \A k \in records_from_document(repo.docs[s]) :
         LET rec == repo.docs[s].records[k]
         IN  /\ rec.state \in state_codes(repo.entities)
             /\ \A l \in rec.leaves : LeafSound(repo, rec, l)
=============================================================================
