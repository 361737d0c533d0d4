------------------------- MODULE IdentityResolution -------------------------
(***************************************************************************)
(* tools/entity_identity_resolution.py and the two gates over the entity   *)
(* registry that go with it: check_identity_primary_alias_collisions.py    *)
(* and check_non_state_entity_identity_integrity.py.                       *)
(*                                                                         *)
(* A registry is a set of entity files,                                    *)
(*   [file, id, type, name, aliases, dossier];                             *)
(* name and aliases are texts, and an alias list is the set of its texts.  *)
(* The supersession manifests are a partial function from the version in   *)
(* a manifest's file name to [version, follows, rows]; follows is the      *)
(* version of the manifest it names, 0 when it names none.                 *)
(***************************************************************************)
EXTENDS IdentityText

CONSTANTS
  IdKind,   \* entity id -> its first token, such as "AGENCY"
  IdToken   \* entity id -> its second token, such as "USA"

Global == "GLOBAL"
DomesticKinds == {"AGENCY", "INSTITUTION", "ORG", "PROJECT", "DEPLOYMENT", "PERSON"}
TypePrefix == [Agency |-> "AGENCY", Institution |-> "INSTITUTION", Organization |-> "ORG",
               Person |-> "PERSON", Project |-> "PROJECT", Deployment |-> "DEPLOYMENT"]

infer_domestic_state(id, codes) ==
  IF IdKind[id] \in DomesticKinds /\ IdToken[id] \in codes THEN IdToken[id] ELSE Global

(* The State codes are those of the State entities that are on file.       *)
StateEntities(entities) == {e \in entities : e.type = "State" /\ IdKind[e.id] = "STATE"}
state_codes(entities) == {IdToken[e.id] : e \in StateEntities(entities)}
state_names(entities) ==
  [c \in state_codes(entities) |->
     default_normalizer((CHOOSE e \in StateEntities(entities) : IdToken[e.id] = c).name)]

-----------------------------------------------------------------------------
(* Supersessions of ids. supersession_manifests() and                      *)
(* load_id_supersessions() raise unless the following holds.               *)
ContiguousManifests(files) == DOMAIN files = 1..Cardinality(DOMAIN files)

SupersessionsLoad(files) ==
  LET used == UNION {{<<v, r>> : r \in files[v].rows} : v \in DOMAIN files}
  IN  /\ ContiguousManifests(files)
      /\ \A v \in DOMAIN files : files[v].version = v /\ files[v].follows = v - 1
      /\ \A p \in used : /\ p[2].to # p[2].from
                         /\ IdKind[p[2].to] = IdKind[p[2].from]
      /\ \A p \in used, q \in used : /\ p[2].from = q[2].from => p = q
                                      /\ p[2].to # q[2].from

Superseded(files) == UNION {{r.from : r \in files[v].rows} : v \in DOMAIN files}
canonicalize_id(id, files) ==
  LET rows == {r \in UNION {files[v].rows : v \in DOMAIN files} : r.from = id}
  IN  IF rows = {} THEN id ELSE (CHOOSE r \in rows : TRUE).to

(* audit_supersession_integrity: no findings.                              *)
SupersessionsSound(entities, files) ==
  LET ids == {e.id : e \in entities}
      codes == state_codes(entities)
  IN  \A v \in DOMAIN files : \A r \in files[v].rows :
        /\ r.to \in ids /\ r.from \notin ids
        /\ infer_domestic_state(r.from, codes) = infer_domestic_state(r.to, codes)

-----------------------------------------------------------------------------
(* The index of names: a set of [scope, name, id].                         *)
NamesOf(e) == {e.name} \cup e.aliases
build_name_index(entities, files, codes) ==
  UNION {{[scope |-> infer_domestic_state(e.id, codes), name |-> norm(n), id |-> e.id] :
            n \in {m \in NamesOf(e) : norm(m) # <<>>}} :
         e \in {x \in entities : x.id \notin Superseded(files)}}

(* A name of the State itself hides the global ones.                       *)
resolve_normalized(index, state, name) ==
  LET local == {r.id : r \in {x \in index : x.scope = state /\ x.name = name}}
  IN  IF local # {} THEN local
      ELSE {r.id : r \in {x \in index : x.scope = Global /\ x.name = name}}

eligible_in_state(id, state, codes) ==
  infer_domestic_state(id, codes) \in {Global, state}

-----------------------------------------------------------------------------
(* The gates over the registry. *)
Live(entities, files) == {e \in entities : e.id \notin Superseded(files)}

(* audit_repository_primary_name_uniqueness: two ids with one primary name *)
(* in one scope.                                                           *)
PrimaryDuplicates(entities, files) ==
  {p \in Live(entities, files) \X Live(entities, files) :
     /\ p[1].id # p[2].id /\ default_normalizer(p[1].name) # <<>>
     /\ default_normalizer(p[1].name) = default_normalizer(p[2].name)
     /\ infer_domestic_state(p[1].id, state_codes(entities))
          = infer_domestic_state(p[2].id, state_codes(entities))}

(* The name without the State's own name before or behind it.              *)
domestic_primary_signature(name, state) ==
  LET n == default_normalizer(name)
      k == Len(state)
      Ends(suffix) == Len(n) > Len(suffix) /\ SubSeq(n, Len(n) - Len(suffix) + 1, Len(n)) = suffix
  IN  IF state = <<>> \/ n = <<>> THEN n
      ELSE IF Len(n) > k /\ SubSeq(n, 1, k) = state THEN SubSeq(n, k + 1, Len(n))
      ELSE IF Ends(<<"of">> \o state) THEN SubSeq(n, 1, Len(n) - k - 1)
      ELSE IF Ends(state) THEN SubSeq(n, 1, Len(n) - k) ELSE n

QualifiedDuplicates(entities, files) ==
  LET codes == state_codes(entities)
      scoped == {e \in Live(entities, files) : infer_domestic_state(e.id, codes) # Global}
      Scope(e) == infer_domestic_state(e.id, codes)
      Signature(e) == domestic_primary_signature(e.name, state_names(entities)[Scope(e)])
  IN  {p \in scoped \X scoped :
         /\ p[1].id # p[2].id /\ Scope(p[1]) = Scope(p[2])
         /\ Signature(p[1]) = Signature(p[2]) /\ Chars(Signature(p[1])) >= 6}

(* indexed_names: names with their scope, and whether they are primary.    *)
indexed_names(entities, files) ==
  UNION {{[scope |-> infer_domestic_state(e.id, state_codes(entities)), name |-> norm(n),
           id |-> e.id, primary |-> n = e.name] : n \in {m \in NamesOf(e) : norm(m) # <<>>}} :
         e \in {x \in Live(entities, files) : x.type # "State"}}

(* One id's primary name is another's name in the same scope.              *)
collisions(entities, files) ==
  {p \in indexed_names(entities, files) \X indexed_names(entities, files) :
     /\ p[1].scope = p[2].scope /\ p[1].name = p[2].name
     /\ p[1].id # p[2].id /\ p[1].primary}

(* Seeded fault: only primary names hide one another.                      *)
PrimaryShadows(entities, files) ==
  {p \in indexed_names(entities, files) \X indexed_names(entities, files) :
     /\ p[1].name = p[2].name /\ p[1].scope = Global /\ p[2].scope # Global
     /\ p[1].primary /\ p[2].primary}

(* A domestic name that hides a global one.                                *)
global_domestic_shadows(entities, files) ==
  {p \in indexed_names(entities, files) \X indexed_names(entities, files) :
     p[1].name = p[2].name /\ p[1].scope = Global /\ p[2].scope # Global}

(* A global name that is a State's.                                        *)
state_global_non_state_shadows(entities, files) ==
  {p \in indexed_names(entities, files) \X Live(entities, files) :
     /\ p[1].scope = Global /\ p[2].type = "State"
     /\ p[1].name \in {norm(n) : n \in NamesOf(p[2])}}

NoNameCollisions(entities, files) ==
  /\ collisions(entities, files) = {}
  /\ global_domestic_shadows(entities, files) = {}
  /\ state_global_non_state_shadows(entities, files) = {}

(* check_non_state_entity_identity_integrity.validate: no findings. Names  *)
(* are texts and ids are well formed here; dossier says where it lies.     *)
EntityFilesSound(entities) ==
  \A e \in {x \in entities : x.type # "State"} :
    /\ e.file = e.id
    /\ e.type \in DOMAIN TypePrefix /\ TypePrefix[e.type] = IdKind[e.id]
    /\ e.name # <<>> /\ <<>> \notin e.aliases
    /\ Cardinality({norm(a) : a \in e.aliases}) = Cardinality(e.aliases)
    /\ e.dossier = "dossiers"
    /\ \A d \in entities : d.id = e.id => d = e

(* Everything the identity gates require of a registry.                    *)
RegistryGreen(entities, files) ==
  /\ EntityFilesSound(entities)
  /\ SupersessionsLoad(files) /\ SupersessionsSound(entities, files)
  /\ PrimaryDuplicates(entities, files) = {}
  /\ QualifiedDuplicates(entities, files) = {}
  /\ NoNameCollisions(entities, files)
=============================================================================
