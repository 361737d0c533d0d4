----------------------------- MODULE DossierReview -----------------------------
(***************************************************************************)
(* The gates over the State dossiers: the review of every candidate that   *)
(* discovery finds (review_state_dossier_candidates), its ratchet          *)
(* (check_state_dossier_ratchet_integrity), wrapped titles (the audit of   *)
(* check_state_dossier_softwrap_coverage), and the identity of the         *)
(* dossiers themselves (check_state_dossier_identity_sets,                 *)
(* check_state_dossier_h1_state_binding).                                  *)
(*                                                                         *)
(* What the gates read beside the registry is a record prose with          *)
(*   dossiers   as in DossierDiscovery                                     *)
(*   manifests  version -> [version, follows, rows]: the dispositions, a   *)
(*              sequence of [state, normalized, status, ids, source],      *)
(*              source being the stem of the dossier                       *)
(*   ratchet    [threshold, tree]: tree is the dossiers it was set for     *)
(***************************************************************************)
EXTENDS DossierDiscovery

CONSTANTS StateCount   \* the number of State dossiers the workflow requires

Statuses == {"curated-identity", "deferred", "rejected"}
AllowedFrontmatter ==
  {"id", "entity", "iso3", "provisional_outcome", "provisional_scope", "adversarial_result", "issue"}

-----------------------------------------------------------------------------
(* load_dispositions: what it requires, and the rows it returns, with the  *)
(* ids that supersessions have replaced made current.                      *)
RowKeys(prose) ==
  UNION {{<<v, k>> : k \in DOMAIN prose.manifests[v].rows} : v \in DOMAIN prose.manifests}
RowAt(prose, key) == prose.manifests[key[1]].rows[key[2]]
Canonical(ids, supers) == {canonicalize_id(id, supers) : id \in ids}

ProseManifestsSound(manifests) ==
  /\ manifests # <<>> /\ DOMAIN manifests = 1..Cardinality(DOMAIN manifests)
  /\ \A v \in DOMAIN manifests : manifests[v].version = v /\ manifests[v].follows = v - 1

RowLoads(entities, supers, prose, row) ==
  /\ row.normalized # <<>> /\ row.status \in Statuses
  /\ row.source \in DOMAIN prose.dossiers /\ row.source = row.state
  /\ IF row.status = "curated-identity"
     THEN /\ row.ids # {}
          /\ Canonical(row.ids, supers) \subseteq {e.id : e \in NonStates(entities)}
          /\ Cardinality(Canonical(row.ids, supers)) = Cardinality(row.ids)
     ELSE row.ids = {}

ProseDispositionsLoad(entities, supers, prose) ==
  /\ SupersessionsLoad(supers)
  /\ ProseManifestsSound(prose.manifests)
  /\ \A key \in RowKeys(prose) : RowLoads(entities, supers, prose, RowAt(prose, key))
  /\ \A j \in RowKeys(prose), k \in RowKeys(prose) :
       (/\ RowAt(prose, j).state = RowAt(prose, k).state
        /\ RowAt(prose, j).normalized = RowAt(prose, k).normalized) => j = k

load_dispositions(prose, supers) ==
  {LET row == RowAt(prose, key)
   IN  [state |-> row.state, normalized |-> row.normalized, status |-> row.status,
        ids |-> Canonical(row.ids, supers), source |-> row.source] : key \in RowKeys(prose)}
KeyOf(row) == <<row.state, row.normalized>>

-----------------------------------------------------------------------------
(* review: candidates nobody disposed of, and dispositions of what is no   *)
(* candidate any more. A curated one stays as long as the registry         *)
(* resolves the name to exactly what it says.                              *)
raw_keys(occurrences) == {KeyOf(o) : o \in {x \in occurrences : x.resolved = {}}}
ResolvedIds(occurrences, key) == UNION {o.resolved : o \in {x \in occurrences : KeyOf(x) = key}}

(* Seeded fault: a curated disposition is never stale.                     *)
StaleUnlessCurated(occurrences, rows) ==
  {r \in rows : KeyOf(r) \notin raw_keys(occurrences) /\ r.status # "curated-identity"}

stale_dispositions_of(occurrences, rows) ==
  {r \in rows :
     /\ KeyOf(r) \notin raw_keys(occurrences)
     /\ ~(/\ r.status = "curated-identity"
          /\ ResolvedIds(occurrences, KeyOf(r)) = r.ids)}

high_unreviewed(occurrences, rows, threshold) ==
  {key \in raw_keys(occurrences) :
     /\ key \notin {KeyOf(r) : r \in rows}
     /\ review_priority(occurrences, key) >= threshold}

RatchetIntegrity(ratchet) == ratchet.threshold = 0
TreeMatches(prose) == prose.ratchet.tree = prose.dossiers

(* check_state_dossier_softwrap_coverage.audit: a wrapped title resolves   *)
(* or has been disposed of.                                                *)
WrappedOpen(entities, supers, prose, rows) ==
  LET index == load_identity_index(entities, supers, prose.dossiers)
  IN  UNION {{<<s, norm(c)>> : c \in {x \in cross_line_candidates(prose.dossiers[s]) :
                                 /\ resolve_name(index, s, x) = {}
                                 /\ <<s, norm(x)>> \notin {KeyOf(r) : r \in rows}}} :
             s \in canonical_state_dossiers(prose.dossiers)}

-----------------------------------------------------------------------------
(* split_h1_title_aliases: the groups in parentheses a title ends with.    *)
OnlyGroups(tail) ==
  \A i \in DOMAIN tail :
    /\ Is(tail[i], "open") <=> (i = 1 \/ Is(tail[i - 1], "close"))
    /\ i = Len(tail) => Is(tail[i], "close")
    /\ Is(tail[i], "close") => ~Is(tail[i - 1], "open")
StemLength(title) ==
  CHOOSE k \in 1..Len(title) :
    /\ OnlyGroups(Tail1(title, k + 1))
    /\ \A j \in 1..(k - 1) : ~OnlyGroups(Tail1(title, j + 1))
TitleStem(title) == SubSeq(title, 1, StemLength(title))
TitleAliases(title) ==
  LET tail == Tail1(title, StemLength(title) + 1)
  IN  {Of(tail, p) : p \in Pieces(tail, {i \in DOMAIN tail : Is(tail[i], "open") \/ Is(tail[i], "close")})}

StateOf(entities, s) == {e \in StateEntities(entities) : IdToken[e.id] = s}
state_h1_aliases(entities, s) == UNION {e.aliases : e \in StateOf(entities, s)}
Normals(names) == {default_normalizer(n) : n \in names} \ {<<>>}

(* canonical_h1_title: one H1, before anything else, that says what the    *)
(* entity field says, decorated with reviewed aliases only.                *)
H1Lines(dossier) ==
  {k \in DOMAIN dossier.lines : dossier.lines[k].mark \in {"h1", "indented", "python"}}
canonical_h1_title(dossier, entity, aliases) ==
  /\ H1Lines(dossier) = {1}
  /\ LET title == dossier.lines[1].text
     IN  /\ default_normalizer(TitleStem(title)) = default_normalizer(entity)
         /\ \A a \in TitleAliases(title) : default_normalizer(a) \in Normals(aliases)

(* check_state_dossier_identity_sets: main. The strict loader knows no key *)
(* twice, in whatever file.                                                *)
StrictFrontmatter(dossier) == LastPairs(dossier.front) = DOMAIN dossier.front

DossierIdentitySound(entities, dossiers, s) ==
  LET front == parse_frontmatter(dossiers[s])
  IN  /\ DOMAIN front \subseteq AllowedFrontmatter
      /\ "entity" \in DOMAIN front /\ front["entity"] \notin {NotText, <<>>}
      /\ canonical_h1_title(dossiers[s], front["entity"], state_h1_aliases(entities, s))

StateIdentitiesSound(entities, dossiers) ==
  LET states == {e \in entities : e.type = "State"}
  IN  /\ \A e \in states :
           /\ e.file = e.id /\ IdKind[e.id] = "STATE"
           /\ e.name # <<>> /\ <<IdToken[e.id]>> \in e.aliases
           /\ e.dossier = IdToken[e.id] /\ e.dossier \in DOMAIN dossiers
      /\ \A d \in states, e \in states :
           d # e => /\ IdToken[d.id] # IdToken[e.id]
                    /\ Normals(NamesOf(d)) \cap Normals(NamesOf(e)) = {}
      /\ {IdToken[e.id] : e \in states} = canonical_state_dossiers(dossiers)

IdentitySetsGreen(entities, dossiers) ==
  /\ \A s \in DOMAIN dossiers : StrictFrontmatter(dossiers[s])
  /\ \A s \in canonical_state_dossiers(dossiers) : DossierIdentitySound(entities, dossiers, s)
  /\ StateIdentitiesSound(entities, dossiers)

(* check_state_dossier_h1_state_binding: binding_error finds none.         *)
Bound(entities, dossiers, s) ==
  LET front == parse_frontmatter(dossiers[s])
      reviewed == UNION {Normals(NamesOf(e)) : e \in StateOf(entities, s)}
  IN  /\ StateOf(entities, s) # {} /\ "entity" \in DOMAIN front
      /\ \A k \in DOMAIN dossiers[s].lines : dossiers[s].lines[k].mark # "python"
      /\ default_normalizer(front["entity"]) \in reviewed
      /\ canonical_h1_title(dossiers[s], front["entity"], state_h1_aliases(entities, s))
      /\ default_normalizer(TitleStem(dossiers[s].lines[1].text)) \in reviewed
H1BindingGreen(entities, dossiers) ==
  \A s \in canonical_state_dossiers(dossiers) : Bound(entities, dossiers, s)

-----------------------------------------------------------------------------
(* The checkout passes the workflow's steps over the dossiers.             *)
ReviewGreen(entities, supers, prose) ==
  LET rows == load_dispositions(prose, supers)
      Judge(occurrences) ==
        /\ stale_dispositions_of(occurrences, rows) = {}
        /\ high_unreviewed(occurrences, rows, prose.ratchet.threshold) = {}
  IN  /\ ProseDispositionsLoad(entities, supers, prose)
      /\ TreeMatches(prose)
      /\ ~DiscoveryRaises(prose.dossiers)
      /\ Cardinality(canonical_state_dossiers(prose.dossiers)) = StateCount
      /\ Judge(Occurrences(entities, supers, prose.dossiers))
      /\ WrappedOpen(entities, supers, prose, rows) = {}

DossiersGreen(entities, supers, prose) ==
  /\ RatchetIntegrity(prose.ratchet)
  /\ IdentitySetsGreen(entities, prose.dossiers)
  /\ RegistryGreen(entities, supers)
  /\ ReviewGreen(entities, supers, prose)
  /\ H1BindingGreen(entities, prose.dossiers)
=============================================================================
