----------------------------- MODULE CurationAudit -----------------------------
(***************************************************************************)
(* The State dossiers beside the Schedule: one registry of entities serves *)
(* both, so that registering or superseding an entity for one changes what *)
(* the other resolves. The acts on the dossiers are external, as those of  *)
(* ScheduleAudit are.                                                      *)
(***************************************************************************)
EXTENDS ScheduleAudit, DossierReview

CONSTANTS
  Beginnings,       \* <<checkout, prose>>: where a history begins
  DossierVersions,  \* stem -> dossiers it may be edited to
  Mentioned,        \* text -> the names of actors and projects that stand in it
  Ceiling           \* a threshold no priority reaches

ASSUME BeginningsAssumption == \A b \in Beginnings : WellFormed(b[1])

VARIABLES prose   \* what DossierReview reads

curation == <<vars, prose>>

CurationInit ==
  \E b \in Beginnings : /\ repo = b[1] /\ prose = b[2]
                        /\ read = ReadAtFirst(b[1]) /\ acts = 0 /\ pushed = FALSE

DossierAct == Act /\ UNCHANGED <<repo, read>>

EditDossier(s, dossier) ==
  /\ DossierAct
  /\ dossier # prose.dossiers[s]
  /\ prose' = [prose EXCEPT !.dossiers[s] = dossier]

(* A reviewer disposes of one candidate the audit lists, in a manifest of  *)
(* its own; the binding is to any entity that is no State.                 *)
Found == IF DiscoveryRaises(prose.dossiers) THEN {}
         ELSE Occurrences(repo.entities, repo.supers, prose.dossiers)
Disposal(key, status, ids) ==
  [state |-> key[1], normalized |-> key[2], status |-> status, ids |-> ids, source |-> key[1]]
Dispose(key, status, ids) ==
  LET v == Cardinality(DOMAIN prose.manifests) + 1
  IN  /\ DossierAct
      /\ prose' = [prose EXCEPT !.manifests =
           Filed(@, v, [version |-> v, follows |-> v - 1, rows |-> <<Disposal(key, status, ids)>>])]
Judgements == {<<"deferred", {}>>, <<"rejected", {}>>}
             \cup {<<"curated-identity", {e.id}>> : e \in NonStates(repo.entities)}

(* A disposition that turned out stale is taken out.                       *)
Withdraw(key) ==
  /\ DossierAct
  /\ prose' = [prose EXCEPT !.manifests[key[1]].rows =
       SelectSeq(@, LAMBDA row : row # RowAt(prose, key))]

(* The ratchet is raised over the candidates nobody looked at, or set to   *)
(* the dossiers as they are.                                               *)
RaiseThreshold ==
  /\ DossierAct
  /\ prose.ratchet.threshold # Ceiling /\ DOMAIN prose.dossiers # {}
  /\ prose' = [prose EXCEPT !.ratchet.threshold = Ceiling]
RefreshRatchet ==
  /\ DossierAct
  /\ ~TreeMatches(prose)
  /\ prose' = [prose EXCEPT !.ratchet.tree = prose.dossiers]

CurationNext ==
  \/ Next /\ UNCHANGED prose
  \/ \E s \in DOMAIN prose.dossiers : \E d \in DossierVersions[s] : EditDossier(s, d)
  \/ \E key \in raw_keys(Found) \ {KeyOf(r) : r \in load_dispositions(prose, repo.supers)} :
       \E choice \in Judgements : Dispose(key, choice[1], choice[2])
  \/ \E key \in RowKeys(prose) : Withdraw(key)
  \/ RaiseThreshold \/ RefreshRatchet

CurationSpec == CurationInit /\ [][CurationNext]_curation

-----------------------------------------------------------------------------
GreenDossiers == ~pushed /\ pushed' /\ DossiersGreen(repo.entities, repo.supers, prose)

(* A green run leaves no name in a State dossier out, wherever it stands:  *)
(* in the frontmatter, the title, a heading or a line, wrapped or behind   *)
(* an abbreviation. It is the State's own name, or the registry resolves   *)
(* it to one entity, or somebody has disposed of it or of a longer reading *)
(* that begins with it.                                                    *)
OwnName(s, name) ==
  default_normalizer(name) \in UNION {Normals(NamesOf(e)) : e \in StateOf(repo.entities, s)}
Begins(words, prefix) == words = prefix \/ StartsWith(words, prefix)
NameSettled(s, name) ==
  \/ OwnName(s, name)
  \/ resolve_name(load_identity_index(repo.entities, repo.supers, prose.dossiers), s, name) # {}
  \/ \E r \in load_dispositions(prose, repo.supers) : r.state = s /\ Begins(r.normalized, norm(name))
TextsOf(dossier) ==
  {dossier.front[i].value : i \in DOMAIN dossier.front}
    \cup {Joined(dossier.lines, p[1], p[2]) : p \in Intervals(dossier.lines)}
DossierNamesSettled ==
  [][GreenDossiers =>
       \A s \in DOMAIN prose.dossiers : \A text \in TextsOf(prose.dossiers[s]) \cap DOMAIN Mentioned :
         \A name \in Mentioned[text] : NameSettled(s, name)]_curation

(* In a green run no disposition contradicts the registry: a name that was *)
(* deferred or rejected is on file for that State under no entity, and one *)
(* that was bound is resolved to that entity, or left to the binding. An   *)
(* id in a dossier is looked up as an id and may spell somebody's name.    *)
SpellsAnId(r) == \E o \in Found : KeyOf(o) = KeyOf(r) /\ o.kind = "id-reference"
DispositionsFollowRegistry ==
  [][GreenDossiers =>
       \A r \in load_dispositions(prose, repo.supers) :
         LET index == load_identity_index(repo.entities, repo.supers, prose.dossiers)
             onfile == resolve_normalized(index, r.state, r.normalized)
         IN  (Cardinality(onfile) = 1 /\ ~SpellsAnId(r)) =>
               r.status = "curated-identity" /\ r.ids = onfile]_curation
=============================================================================
