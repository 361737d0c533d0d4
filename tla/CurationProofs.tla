---------------------------- MODULE CurationProofs ----------------------------
(***************************************************************************)
(* Three results about CurationAudit, for every registry, document and     *)
(* grammar of tokens.                                                      *)
(*                                                                         *)
(* ReviewsMatch rests on an invariant: whatever pin the checkout holds was *)
(* written by somebody who had the pinned document in hand. The other two  *)
(* follow from what a green run has established of one checkout.           *)
(***************************************************************************)
EXTENDS CurationAudit, FiniteSetTheorems, TLAPS

-----------------------------------------------------------------------------
(***************************************************************************)
(* The checkout is a record: what an act changes, and what it leaves.      *)
(***************************************************************************)
Repository(e, u, l, d, m, c, r, h) ==
  [entities |-> e, supers |-> u, links |-> l, docs |-> d, manifests |-> m,
   cross |-> c, residual |-> r, short |-> h]

LEMMA Edits ==
  ASSUME NEW c, WellFormed(c), NEW x
  PROVE /\ [c EXCEPT !.entities = x]
       = Repository(x, c.supers, c.links, c.docs, c.manifests, c.cross, c.residual, c.short)
        /\ [c EXCEPT !.supers = x]
             = Repository(c.entities, x, c.links, c.docs, c.manifests, c.cross, c.residual, c.short)
        /\ [c EXCEPT !.docs = x]
             = Repository(c.entities, c.supers, c.links, x, c.manifests, c.cross, c.residual, c.short)
        /\ [c EXCEPT !.manifests = x]
             = Repository(c.entities, c.supers, c.links, c.docs, x, c.cross, c.residual, c.short)
        /\ [c EXCEPT !.cross = x]
             = Repository(c.entities, c.supers, c.links, c.docs, c.manifests, x, c.residual, c.short)
        /\ [c EXCEPT !.residual = x]
             = Repository(c.entities, c.supers, c.links, c.docs, c.manifests, c.cross, x, c.short)
        /\ [c EXCEPT !.short = x]
             = Repository(c.entities, c.supers, c.links, c.docs, c.manifests, c.cross, c.residual, x)
  BY DEF WellFormed, Repository

LEMMA OverlayEdits ==
  ASSUME NEW o, o = [blobs |-> o.blobs, entries |-> o.entries], NEW b
  PROVE  [o EXCEPT !.blobs = b] = [blobs |-> b, entries |-> o.entries]
  OBVIOUS

-----------------------------------------------------------------------------
(***************************************************************************)
(* The invariant, and that every act keeps it.                             *)
(***************************************************************************)
Reviewed == WellFormed(repo) /\ ReadAtFirst(repo) \subseteq read

Shaped(o) == o = [blobs |-> o.blobs, entries |-> o.entries]
PinnedIn(ms, seen) ==
  \A v \in DOMAIN ms : \A s \in DOMAIN ms[v].blobs : <<s, ms[v].blobs[s]>> \in seen
OverlayIn(o, seen) == \A s \in DOMAIN o.blobs : <<s, o.blobs[s]>> \in seen

LEMMA ReviewedParts ==
  Reviewed <=> /\ WellFormed(repo)
               /\ PinnedIn(repo.manifests, read)
               /\ \A o \in {repo.cross, repo.residual, repo.short} : OverlayIn(o, read)
  BY DEF Reviewed, ReadAtFirst, Pinned, PinnedIn, OverlayIn

LEMMA Becomes ==
  ASSUME NEW e, NEW u, NEW l, NEW d, NEW m, NEW c, NEW r, NEW h,
         repo' = Repository(e, u, l, d, m, c, r, h),
         Shaped(c), Shaped(r), Shaped(h),
         PinnedIn(m, read'), OverlayIn(c, read'), OverlayIn(r, read'), OverlayIn(h, read')
  PROVE  Reviewed'
<1>1. /\ repo'.manifests = m /\ repo'.cross = c /\ repo'.residual = r /\ repo'.short = h
      /\ repo'.entities = e /\ repo'.supers = u /\ repo'.links = l /\ repo'.docs = d
  BY DEF Repository
<1>2. WellFormed(repo')
  BY <1>1 DEF Repository, WellFormed, Shaped
<1>3. ReadAtFirst(repo') \subseteq read'
  BY <1>1 DEF ReadAtFirst, Pinned, PinnedIn, OverlayIn
<1> QED
  BY <1>2, <1>3 DEF Reviewed

LEMMA Stays ==
  ASSUME Reviewed
  PROVE /\ WellFormed(repo)
        /\ PinnedIn(repo.manifests, read)
        /\ \A o \in {repo.cross, repo.residual, repo.short} : Shaped(o) /\ OverlayIn(o, read)
  BY ReviewedParts DEF Shaped, WellFormed

LEMMA RegisterKeeps == ASSUME Reviewed, NEW e, Register(e) PROVE Reviewed'
<1>1. repo' = [repo EXCEPT !.entities = repo.entities \cup {e}] /\ read' = read
  BY DEF Register
<1>2. repo' = Repository(repo.entities \cup {e}, repo.supers, repo.links, repo.docs,
                         repo.manifests, repo.cross, repo.residual, repo.short)
  BY <1>1, Stays, Edits
<1> QED
  BY <1>1, <1>2, Stays, Becomes

LEMMA SupersedeKeeps ==
  ASSUME Reviewed, NEW row, NEW removed \in BOOLEAN, Supersede(row, removed)
  PROVE  Reviewed'
<1> DEFINE v == Cardinality(DOMAIN repo.supers) + 1
           filed == Filed(repo.supers, v, [version |-> v, follows |-> v - 1, rows |-> {row}])
           kept == IF removed THEN {x \in repo.entities : x.id # row.from} ELSE repo.entities
           filing == [repo EXCEPT !.supers = filed]
<1>1. repo' = [filing EXCEPT !.entities = kept] /\ read' = read
  <2>1. filing.entities = repo.entities
    BY Stays, Edits DEF Repository
  <2> QED
    BY <2>1 DEF Supersede
<1> HIDE DEF filed, kept
<1>2. filing = Repository(repo.entities, filed, repo.links, repo.docs,
                          repo.manifests, repo.cross, repo.residual, repo.short)
  BY Stays, Edits
<1> HIDE DEF filing
<1>3. WellFormed(filing) /\ filing.supers = filed /\ filing.links = repo.links
      /\ filing.docs = repo.docs /\ filing.manifests = repo.manifests /\ filing.cross = repo.cross
      /\ filing.residual = repo.residual /\ filing.short = repo.short
  BY <1>2, Stays DEF Repository, WellFormed, Shaped
<1>4. repo' = Repository(kept, filing.supers, filing.links, filing.docs,
                         filing.manifests, filing.cross, filing.residual, filing.short)
  BY <1>1, <1>3, Edits
<1>5. repo' = Repository(kept, filed, repo.links, repo.docs,
                         repo.manifests, repo.cross, repo.residual, repo.short)
  BY <1>3, <1>4
<1> QED
  BY <1>1, <1>5, Stays, Becomes

LEMMA EditKeeps == ASSUME Reviewed, NEW s, NEW doc, EditDocument(s, doc) PROVE Reviewed'
<1> DEFINE docs == [repo.docs EXCEPT ![s] = doc]
<1>1. repo' = [repo EXCEPT !.docs = docs] /\ read' = read
  BY DEF EditDocument
<1> HIDE DEF docs
<1>2. repo' = Repository(repo.entities, repo.supers, repo.links, docs,
                         repo.manifests, repo.cross, repo.residual, repo.short)
  BY <1>1, Stays, Edits
<1> QED
  BY <1>1, <1>2, Stays, Becomes

LEMMA ReviewKeeps == ASSUME Reviewed, NEW s, Review(s) PROVE Reviewed'
<1>1. PICK v, entries :
        /\ repo' = [repo EXCEPT !.manifests = Filed(repo.manifests, v,
             [version |-> v, follows |-> v - 1, blobs |-> [x \in {s} |-> repo.docs[s]],
              entries |-> entries])]
        /\ read' = read \cup {<<s, repo.docs[s]>>}
  BY Zenon DEF Review
<1> DEFINE manifest == [version |-> v, follows |-> v - 1, blobs |-> [x \in {s} |-> repo.docs[s]],
                        entries |-> entries]
           filed == Filed(repo.manifests, v, manifest)
<1>2. repo' = Repository(repo.entities, repo.supers, repo.links, repo.docs,
                         filed, repo.cross, repo.residual, repo.short)
  BY <1>1, Stays, Edits
<1>3. PinnedIn(filed, read')
  BY <1>1, Stays DEF PinnedIn, Filed
<1> QED
  BY <1>1, <1>2, <1>3, Stays, Becomes DEF OverlayIn

LEMMA OverlayAgain ==
  ASSUME NEW o, Shaped(o), NEW s, NEW seen, OverlayIn(o, seen), <<s, repo.docs[s]>> \in seen
  PROVE  LET again == [o EXCEPT !.blobs =
                         [x \in DOMAIN o.blobs |-> IF x = s THEN repo.docs[s] ELSE o.blobs[x]]]
         IN  Shaped(again) /\ OverlayIn(again, seen)
<1> DEFINE blobs == [x \in DOMAIN o.blobs |-> IF x = s THEN repo.docs[s] ELSE o.blobs[x]]
<1>1. [o EXCEPT !.blobs = blobs] = [blobs |-> blobs, entries |-> o.entries]
  BY OverlayEdits DEF Shaped
<1>2. OverlayIn([blobs |-> blobs, entries |-> o.entries], seen)
  BY DEF OverlayIn
<1> QED
  BY <1>1, <1>2 DEF Shaped

LEMMA ReviewOverlaysKeeps == ASSUME Reviewed, NEW s, ReviewOverlays(s) PROVE Reviewed'
<1> DEFINE Again(o) == [o EXCEPT !.blobs =
                         [x \in DOMAIN o.blobs |-> IF x = s THEN repo.docs[s] ELSE o.blobs[x]]]
           c == Again(repo.cross)
           r == Again(repo.residual)
           h == Again(repo.short)
           first == [repo EXCEPT !.cross = c]
           second == [first EXCEPT !.residual = r]
<1>1. repo' = [second EXCEPT !.short = h] /\ read' = read \cup {<<s, repo.docs[s]>>}
  BY DEF ReviewOverlays
<1>2. /\ Shaped(c) /\ OverlayIn(c, read')
      /\ Shaped(r) /\ OverlayIn(r, read')
      /\ Shaped(h) /\ OverlayIn(h, read')
  <2>1. \A o \in {repo.cross, repo.residual, repo.short} : Shaped(o) /\ OverlayIn(o, read')
    BY <1>1, Stays DEF OverlayIn
  <2>2. <<s, repo.docs[s]>> \in read'
    BY <1>1
  <2> QED
    BY <2>1, <2>2, OverlayAgain
<1> HIDE DEF c, r, h
<1>3. first
      = Repository(repo.entities, repo.supers, repo.links, repo.docs, repo.manifests, c, repo.residual, repo.short)
  BY Stays, Edits
<1> HIDE DEF first
<1>4. /\ WellFormed(first) /\ first.entities = repo.entities /\ first.supers = repo.supers
      /\ first.links = repo.links /\ first.docs = repo.docs /\ first.manifests = repo.manifests
      /\ first.cross = c /\ first.short = repo.short
  BY <1>2, <1>3, Stays DEF Repository, WellFormed, Shaped
<1>5. second
      = Repository(first.entities, first.supers, first.links, first.docs, first.manifests, first.cross, r, first.short)
  BY <1>4, Edits
<1> HIDE DEF second
<1>6. WellFormed(second)
  BY <1>2, <1>4, <1>5, Stays DEF Repository, WellFormed, Shaped
<1>7. second.entities = repo.entities /\ second.supers = repo.supers /\ second.links = repo.links
      /\ second.docs = repo.docs /\ second.manifests = repo.manifests /\ second.cross = c /\ second.residual = r
  BY <1>2, <1>4, <1>5, Stays DEF Repository, WellFormed, Shaped
<1>8. repo'
      = Repository(second.entities, second.supers, second.links, second.docs, second.manifests, second.cross, second.residual, h)
  <2>1. [second EXCEPT !.short = h]
        = Repository(second.entities, second.supers, second.links, second.docs, second.manifests, second.cross, second.residual, h)
    BY <1>6, Edits
  <2> QED
    BY <1>1, <2>1
<1>9. repo'
      = Repository(repo.entities, repo.supers, repo.links, repo.docs, repo.manifests, c, r, h)
  BY <1>7, <1>8
<1>10. PinnedIn(repo.manifests, read')
  BY <1>1, Stays DEF PinnedIn
<1> QED
  BY <1>2, <1>9, <1>10, Becomes

LEMMA ReviewedInit == CurationInit => Reviewed
  BY BeginningsAssumption DEF CurationInit, Reviewed

LEMMA ReviewedNext == Reviewed /\ [CurationNext]_curation => Reviewed'
<1> SUFFICES ASSUME Reviewed, [CurationNext]_curation PROVE Reviewed'
  OBVIOUS
<1>1. CASE UNCHANGED <<repo, read>>
  BY <1>1 DEF Reviewed, WellFormed, ReadAtFirst, Pinned
<1>2. CASE Next
  <2>1. CASE \E e \in Registrable : Register(e)
    BY <2>1, RegisterKeeps
  <2>2. CASE \E row \in Successions, removed \in BOOLEAN : Supersede(row, removed)
    BY <2>2, SupersedeKeeps
  <2>3. CASE \E s \in DOMAIN repo.docs : Review(s) \/ ReviewOverlays(s)
    BY <2>3, ReviewKeeps, ReviewOverlaysKeeps
  <2>4. CASE \E s \in DOMAIN repo.docs : \E doc \in Versions[s] : EditDocument(s, doc)
    BY <2>4, EditKeeps
  <2>5. CASE Push
    BY <2>5, <1>1 DEF Push
  <2> QED
    BY <1>2, <2>1, <2>2, <2>3, <2>4, <2>5 DEF Next
<1>3. CASE UNCHANGED curation
  BY <1>1, <1>3 DEF curation, vars
<1>4. ASSUME CurationNext, ~Next PROVE UNCHANGED <<repo, read>>
  BY <1>4, Zenon
  DEF CurationNext, EditDossier, Dispose, Withdraw, RaiseThreshold, RefreshRatchet, DossierAct
<1> QED
  BY <1>1, <1>2, <1>3, <1>4

-----------------------------------------------------------------------------
(***************************************************************************)
(* What a green run has established of the pins.                           *)
(***************************************************************************)
LEMMA GreenPins ==
  ASSUME NEW c, Green(c)
  PROVE  DispositionsLoad(c) /\ \A o \in {c.cross, c.residual, c.short} : PinsHold(c, o)
  BY DEF Green, AuditRaises, CrossRoleGreen, AdversarialGreen, ResidualLoads, ClusterGreen

LEMMA ReviewedRow ==
  ASSUME NEW c, NEW r \in audit(c), r.how = "reviewed"
  PROVE  \E key \in Entries(c) : r.source = EntryAt(c, key).source
<1>1. PICK m \in Mentions(c) : r = IF Counted(c, m) THEN reference_row(c, m) ELSE context_row(m)
  BY DEF audit
<1>2. r = reference_row(c, m)
  BY <1>1 DEF context_row, AuditRow
<1>3. matching_disposition(c, m) # {}
  BY <1>2 DEF reference_row, AuditRow
<1>4. r.source = m.source
  BY <1>2 DEF reference_row, AuditRow
<1> QED
  BY <1>3, <1>4 DEF matching_disposition, MatchesPrefix

LEMMA PinnedEntry ==
  ASSUME NEW c, DispositionsLoad(c), NEW key \in Entries(c)
  PROVE  <<EntryAt(c, key).source, c.docs[EntryAt(c, key).source]>> \in Pinned(c)
<1> DEFINE s == EntryAt(c, key).source
<1>1. key[1] \in DOMAIN c.manifests
  BY DEF Entries
<1>2. s \in DOMAIN c.manifests[key[1]].blobs
  BY DEF DispositionsLoad
<1>3. <<s, c.manifests[key[1]].blobs[s]>> \in Pinned(c)
  BY <1>1, <1>2 DEF Pinned
<1>4. c.docs[s] = c.manifests[key[1]].blobs[s]
  BY <1>3 DEF DispositionsLoad, Pinned
<1> QED
  BY <1>3, <1>4

LEMMA OverlayEntry ==
  ASSUME NEW c, NEW o, PinsHold(c, o), NEW e \in o.entries
  PROVE  e.source \in DOMAIN o.blobs /\ c.docs[e.source] = o.blobs[e.source]
  BY DEF PinsHold

(* A green run rests on reviews of the present bytes: load_dispositions    *)
(* and the loaders of the overlays compare every pin with the document,    *)
(* and each pin was written by a reader of what it pins.                   *)
THEOREM ReviewsMatch == CurationSpec => ReviewMatchesContent
<1>1. Reviewed /\ Green(repo) =>
        /\ \A r \in audit(repo) : r.how = "reviewed" => <<r.source, repo.docs[r.source]>> \in read
        /\ \A o \in {repo.cross, repo.residual, repo.short} : \A e \in o.entries :
             <<e.source, repo.docs[e.source]>> \in read
  <2> SUFFICES ASSUME Reviewed, Green(repo)
               PROVE  /\ \A r \in audit(repo) :
                            r.how = "reviewed" => <<r.source, repo.docs[r.source]>> \in read
                      /\ \A o \in {repo.cross, repo.residual, repo.short} : \A e \in o.entries :
                            <<e.source, repo.docs[e.source]>> \in read
    OBVIOUS
  <2>1. ASSUME NEW r \in audit(repo), r.how = "reviewed"
        PROVE  <<r.source, repo.docs[r.source]>> \in read
    <3>1. PICK key \in Entries(repo) : r.source = EntryAt(repo, key).source
      BY <2>1, ReviewedRow
    <3>2. <<r.source, repo.docs[r.source]>> \in Pinned(repo)
      BY <3>1, GreenPins, PinnedEntry
    <3> QED
      BY <3>2 DEF Reviewed, ReadAtFirst
  <2>2. ASSUME NEW o \in {repo.cross, repo.residual, repo.short}, NEW e \in o.entries
        PROVE  <<e.source, repo.docs[e.source]>> \in read
    BY <2>2, GreenPins, OverlayEntry, Stays DEF OverlayIn
  <2> QED
    BY <2>1, <2>2
<1>2. Reviewed => [GreenPush =>
       /\ \A r \in audit(repo) : r.how = "reviewed" => <<r.source, repo.docs[r.source]>> \in read
       /\ \A o \in {repo.cross, repo.residual, repo.short} : \A e \in o.entries :
            <<e.source, repo.docs[e.source]>> \in read]_vars
  BY <1>1 DEF GreenPush
<1> QED
  BY <1>2, ReviewedInit, ReviewedNext, PTL DEF CurationSpec, ReviewMatchesContent

-----------------------------------------------------------------------------
(***************************************************************************)
(* The index of names, where the gates over the registry find no collision *)
(* and no shadow.                                                          *)
(***************************************************************************)
LEMMA Indexed ==
  ASSUME NEW entities, NEW files, NEW e \in Live(entities, files), e.type # "State",
         NEW n \in NamesOf(e), norm(n) # <<>>
  PROVE  [scope |-> infer_domestic_state(e.id, state_codes(entities)), name |-> norm(n),
          id |-> e.id, primary |-> n = e.name] \in indexed_names(entities, files)
  BY DEF indexed_names

LEMMA UniqueInScope ==
  ASSUME NEW entities, NEW files, NoNameCollisions(entities, files),
         NEW e \in Live(entities, files), e.type # "State", norm(e.name) # <<>>,
         NEW d \in Live(entities, files), d.type # "State",
         NEW n \in NamesOf(d), norm(n) = norm(e.name)
  PROVE  LET codes == state_codes(entities)
         IN  /\ infer_domestic_state(d.id, codes) = infer_domestic_state(e.id, codes) => d.id = e.id
             /\ infer_domestic_state(e.id, codes) = Global => infer_domestic_state(d.id, codes) = Global
<1> DEFINE Scope(x) == infer_domestic_state(x.id, state_codes(entities))
           own == [scope |-> Scope(e), name |-> norm(e.name), id |-> e.id, primary |-> TRUE]
           other == [scope |-> Scope(d), name |-> norm(n), id |-> d.id, primary |-> n = d.name]
<1>1. own \in indexed_names(entities, files)
  BY Indexed DEF NamesOf
<1>2. other \in indexed_names(entities, files)
  BY Indexed
<1>3. <<own, other>> \notin collisions(entities, files)
  BY DEF NoNameCollisions
<1>4. <<own, other>> \notin global_domestic_shadows(entities, files)
  BY DEF NoNameCollisions
<1>5. Scope(d) = Scope(e) => d.id = e.id
  BY <1>1, <1>2, <1>3 DEF collisions
<1>6. Scope(e) = Global => Scope(d) = Global
  BY <1>1, <1>2, <1>4 DEF global_domestic_shadows
<1> QED
  BY <1>5, <1>6

LEMMA Resolution ==
  ASSUME NEW entities, NEW files, NoNameCollisions(entities, files),
         NEW e \in Live(entities, files), e.type # "State", norm(e.name) # <<>>,
         NEW c, eligible_in_state(e.id, c, state_codes(entities))
  PROVE  resolve_normalized(build_name_index({x \in entities : x.type # "State"}, files,
                                             state_codes(entities)), c, norm(e.name)) = {e.id}
<1> DEFINE Scope(x) == infer_domestic_state(x.id, state_codes(entities))
           index == build_name_index({x \in entities : x.type # "State"}, files, state_codes(entities))
           At(s) == {r.id : r \in {x \in index : x.scope = s /\ x.name = norm(e.name)}}
<1>1. ASSUME NEW r \in index, r.name = norm(e.name)
      PROVE  /\ r.scope = Scope(e) => r.id = e.id
             /\ Scope(e) = Global => r.scope = Global
  <2>1. PICK d \in {x \in entities : x.type # "State"} : \E n \in NamesOf(d) :
          d.id \notin Superseded(files) /\ r = [scope |-> Scope(d), name |-> norm(n), id |-> d.id]
    BY DEF build_name_index
  <2>2. PICK n \in NamesOf(d) :
          d.id \notin Superseded(files) /\ r = [scope |-> Scope(d), name |-> norm(n), id |-> d.id]
    BY <2>1
  <2>3. d \in Live(entities, files)
    BY <2>2 DEF Live
  <2>4. r.scope = Scope(d) /\ r.name = norm(n) /\ r.id = d.id
    BY <2>2
  <2>5. /\ Scope(d) = Scope(e) => d.id = e.id
        /\ Scope(e) = Global => Scope(d) = Global
    <3>1. d.type # "State" /\ norm(n) = norm(e.name)
      BY <1>1, <2>2, <2>4
    <3> QED
      BY <2>3, <3>1, UniqueInScope
  <2> QED
    BY <2>4, <2>5
<1>2. [scope |-> Scope(e), name |-> norm(e.name), id |-> e.id] \in index
  BY DEF build_name_index, Live, NamesOf
<1> HIDE DEF index
<1>3. e.id \in At(Scope(e))
  BY <1>2
<1>4. At(Scope(e)) = {e.id}
  BY <1>1, <1>3
<1>5. Scope(e) = Global /\ c # Global => At(c) = {}
  BY <1>1
<1>6. Scope(e) \in {Global, c}
  BY DEF eligible_in_state
<1> QED
  BY <1>4, <1>5, <1>6 DEF resolve_normalized, index

(* The primary name of an entity resolves to it alone, for every registry  *)
(* that passes the gates (audit_primary_alias_collisions and its kin).     *)
THEOREM NamesUnique == CurationSpec => []NamesResolveUniquely
<1>1. NamesResolveUniquely
  <2> SUFFICES ASSUME RegistryGreen(repo.entities, repo.supers),
                      NEW e \in Live({x \in repo.entities : x.type # "State"}, repo.supers),
                      NEW c \in state_codes(repo.entities), norm(e.name) # <<>>,
                      eligible_in_state(e.id, c, state_codes(repo.entities))
               PROVE  resolve_normalized(build_name_index({x \in repo.entities : x.type # "State"},
                                                          repo.supers, state_codes(repo.entities)),
                                         c, norm(e.name)) = {e.id}
    BY DEF NamesResolveUniquely
  <2>1. e \in Live(repo.entities, repo.supers) /\ e.type # "State"
    BY DEF Live
  <2> QED
    BY <2>1, Resolution DEF RegistryGreen
<1> QED
  BY <1>1, PTL

-----------------------------------------------------------------------------
(***************************************************************************)
(* What discovery says of a name is what the registry says of it, except   *)
(* where the name is an id.                                                *)
(***************************************************************************)
LEMMA NamedCandidate ==
  ASSUME NEW index, NEW ids, NEW s, NEW line,
         NEW row \in extract_candidates(index, ids, s, line), row.kind # "id-reference"
  PROVE  LET onfile == resolve_normalized(index, s, row.normalized)
         IN  row.resolved = IF Cardinality(onfile) = 1 THEN onfile ELSE {}
<1> DEFINE Named(text, kind) ==
             [normalized |-> norm(text), kind |-> kind, resolved |-> resolve_name(index, s, text)]
<1>1. \E text, kind : row = Named(text, kind)
  BY DEF extract_candidates
<1>2. PICK text : row.normalized = norm(text) /\ row.resolved = resolve_name(index, s, text)
  BY <1>1
<1> QED
  BY <1>2 DEF resolve_name

LEMMA NamedOccurrence ==
  ASSUME NEW entities, NEW supers, NEW dossiers, NEW o \in Occurrences(entities, supers, dossiers),
         o.kind # "id-reference"
  PROVE  LET onfile == resolve_normalized(load_identity_index(entities, supers, dossiers),
                                          o.state, o.normalized)
         IN  o.resolved = IF Cardinality(onfile) = 1 THEN onfile ELSE {}
<1> DEFINE index == load_identity_index(entities, supers, dossiers)
           ids == {e.id : e \in NonStates(entities)}
           Occ(s, t, row) ==
             [state |-> s, at |-> t.at, material |-> t.material,
              restricted |-> FrontIs(dossiers[s], "provisional_outcome", {<<"R">>, <<"S">>}),
              normalized |-> row.normalized, kind |-> row.kind, resolved |-> row.resolved]
           Of1(s, t) == {Occ(s, t, row) : row \in extract_candidates(index, ids, s, t.text)}
<1>1. o \in UNION {UNION {Of1(s, t) : t \in AuditedTexts(dossiers[s])} :
                    s \in canonical_state_dossiers(dossiers)}
  BY Zenon DEF Occurrences
<1> HIDE DEF Of1
<1>2. PICK s \in canonical_state_dossiers(dossiers) :
        \E t \in AuditedTexts(dossiers[s]) : o \in Of1(s, t)
  BY <1>1
<1>3. PICK t \in AuditedTexts(dossiers[s]) : o \in Of1(s, t)
  BY <1>2
<1>4. PICK row \in extract_candidates(index, ids, s, t.text) : o = Occ(s, t, row)
  BY <1>3, Zenon DEF Of1
<1>5. /\ o.state = s /\ o.normalized = row.normalized
      /\ o.kind = row.kind /\ o.resolved = row.resolved
  BY <1>4
<1> HIDE DEF index, ids
<1>6. LET onfile == resolve_normalized(index, s, row.normalized)
      IN  row.resolved = IF Cardinality(onfile) = 1 THEN onfile ELSE {}
  BY <1>5, NamedCandidate
<1> QED
  BY <1>5, <1>6 DEF index

LEMMA NotStale ==
  ASSUME NEW entities, NEW supers, NEW p, ReviewGreen(entities, supers, p),
         NEW r \in load_dispositions(p, supers)
  PROVE  LET occurrences == Occurrences(entities, supers, p.dossiers)
         IN  \/ \E o \in occurrences : KeyOf(o) = KeyOf(r) /\ o.resolved = {}
             \/ r.status = "curated-identity" /\ ResolvedIds(occurrences, KeyOf(r)) = r.ids
<1> DEFINE occurrences == Occurrences(entities, supers, p.dossiers)
<1>1. r \notin stale_dispositions_of(occurrences, load_dispositions(p, supers))
  BY DEF ReviewGreen
<1> QED
  BY <1>1 DEF stale_dispositions_of, raw_keys

LEMMA CuratedBinds ==
  ASSUME NEW entities, NEW supers, NEW p, ReviewGreen(entities, supers, p),
         NEW r \in load_dispositions(p, supers), r.status = "curated-identity"
  PROVE  r.ids # {}
<1>1. PICK key \in RowKeys(p) :
        r.status = RowAt(p, key).status /\ r.ids = Canonical(RowAt(p, key).ids, supers)
  BY DEF load_dispositions
<1>2. RowLoads(entities, supers, p, RowAt(p, key))
  BY DEF ReviewGreen, ProseDispositionsLoad
<1> QED
  BY <1>1, <1>2 DEF RowLoads, Canonical

(* No disposition of a green run contradicts the registry: the review      *)
(* calls one stale that is neither open nor resolved as it says.           *)
THEOREM DispositionsAgree == CurationSpec => DispositionsFollowRegistry
<1> DEFINE index == load_identity_index(repo.entities, repo.supers, prose.dossiers)
           onfile(r) == resolve_normalized(index, r.state, r.normalized)
           occurrences == Occurrences(repo.entities, repo.supers, prose.dossiers)
<1>1. ASSUME DossiersGreen(repo.entities, repo.supers, prose),
             NEW r \in load_dispositions(prose, repo.supers),
             Cardinality(onfile(r)) = 1, ~SpellsAnId(r)
      PROVE  r.status = "curated-identity" /\ r.ids = onfile(r)
  <2>1. ReviewGreen(repo.entities, repo.supers, prose) /\ Found = occurrences
    BY <1>1 DEF DossiersGreen, ReviewGreen, Found
  <2>2. \A o \in occurrences : KeyOf(o) = KeyOf(r) => o.resolved = onfile(r)
    <3> SUFFICES ASSUME NEW o \in occurrences, KeyOf(o) = KeyOf(r) PROVE o.resolved = onfile(r)
      OBVIOUS
    <3>1. o.state = r.state /\ o.normalized = r.normalized
      BY DEF KeyOf
    <3>2. o.kind # "id-reference"
      BY <1>1, <2>1 DEF SpellsAnId
    <3>3. o.resolved = IF Cardinality(onfile(o)) = 1 THEN onfile(o) ELSE {}
      BY <3>2, NamedOccurrence
    <3> QED
      BY <1>1, <3>1, <3>3
  <2>3. onfile(r) # {}
    BY <1>1, FS_EmptySet
  <2>4. r.status = "curated-identity" /\ ResolvedIds(occurrences, KeyOf(r)) = r.ids
    BY <2>1, <2>2, <2>3, NotStale
  <2>5. r.ids # {}
    BY <2>1, <2>4, CuratedBinds
  <2>6. PICK o \in occurrences : KeyOf(o) = KeyOf(r)
    BY <2>4, <2>5, Zenon DEF ResolvedIds
  <2> HIDE DEF occurrences, onfile
  <2>7. ResolvedIds(occurrences, KeyOf(r)) = onfile(r)
    BY <2>2, <2>6 DEF ResolvedIds
  <2> QED
    BY <2>4, <2>7
<1>2. [GreenDossiers =>
       \A r \in load_dispositions(prose, repo.supers) :
         LET i == load_identity_index(repo.entities, repo.supers, prose.dossiers)
             f == resolve_normalized(i, r.state, r.normalized)
         IN  (Cardinality(f) = 1 /\ ~SpellsAnId(r)) =>
               r.status = "curated-identity" /\ r.ids = f]_curation
  BY <1>1 DEF GreenDossiers
<1> QED
  BY <1>2, PTL DEF CurationSpec, DispositionsFollowRegistry

===============================================================================
