---------------------------- MODULE ScheduleAudit ----------------------------
(***************************************************************************)
(* The curated schedule preparation over time: maintainers register        *)
(* entities, supersede ids, edit freeze documents and review them again,   *)
(* and push: the workflows put the checkout to the gates of ScheduleGuards.*)
(*                                                                         *)
(* The acts are external: the repository only holds their result. A review *)
(* follows what the gates print: re-review the changed document before     *)
(* updating the pin, so that a pin is written by someone who has the       *)
(* document in hand.                                                       *)
(***************************************************************************)
EXTENDS ScheduleGuards

CONSTANTS
  Checkouts,    \* where a history begins: repositories
  Registrable,  \* entities that may be registered
  Successions,  \* [from, to]: ids that may be superseded
  Versions,     \* source path -> documents it may be edited to
  Identities,   \* text -> the names of identities that stand in it
  Deferral,     \* the words that defer a name, and end with a mark
  MaxActs       \* acts of the maintainers

(* What a checkout holds, and nothing else.                                *)
WellFormed(c) ==
  /\ c = [entities |-> c.entities, supers |-> c.supers, links |-> c.links, docs |-> c.docs,
          manifests |-> c.manifests, cross |-> c.cross, residual |-> c.residual, short |-> c.short]
  /\ \A o \in {c.cross, c.residual, c.short} : o = [blobs |-> o.blobs, entries |-> o.entries]

ASSUME CheckoutsAssumption == \A c \in Checkouts : WellFormed(c)

VARIABLES
  repo,   \* the checkout
  read,   \* <<source, document>> that a reviewer had in hand when pinning
  acts,   \* how many acts there have been
  pushed  \* whether the gates have run on the present checkout, which ends
          \* the history: they change nothing, and any checkout may be pushed

vars == <<repo, read, acts, pushed>>

Pinned(r) ==
  UNION {{<<s, r.manifests[v].blobs[s]>> : s \in DOMAIN r.manifests[v].blobs} : v \in DOMAIN r.manifests}

ReadAtFirst(r) ==
  Pinned(r) \cup UNION {{<<s, o.blobs[s]>> : s \in DOMAIN o.blobs} : o \in {r.cross, r.residual, r.short}}

Init ==
  /\ repo \in Checkouts
  /\ read = ReadAtFirst(repo)
  /\ acts = 0 /\ pushed = FALSE

(* A manifest is written to a directory of manifests.                      *)
Filed(manifests, v, manifest) ==
  [x \in DOMAIN manifests \cup {v} |-> IF x = v THEN manifest ELSE manifests[x]]

Act == ~pushed /\ acts < MaxActs /\ acts' = acts + 1 /\ UNCHANGED pushed

(* The gates only answer; what they answer is Green(repo).                 *)
Push == ~pushed /\ pushed' = TRUE /\ UNCHANGED <<repo, read, acts>>

-----------------------------------------------------------------------------
Register(e) ==
  /\ Act
  /\ e.id \notin {x.id : x \in repo.entities}
  /\ repo' = [repo EXCEPT !.entities = @ \cup {e}]
  /\ UNCHANGED read

(* A supersession is recorded in a manifest of its own; the file of the    *)
(* old id goes in the same act or stays behind.                            *)
Supersede(row, removed) ==
  LET v == Cardinality(DOMAIN repo.supers) + 1
  IN  /\ Act
      /\ row.from \in {x.id : x \in repo.entities}
      /\ repo' = [repo EXCEPT
                    !.supers = Filed(@, v, [version |-> v, follows |-> v - 1, rows |-> {row}]),
                    !.entities = IF removed THEN {x \in @ : x.id # row.from} ELSE @]
      /\ UNCHANGED read

EditDocument(s, doc) ==
  /\ Act
  /\ doc # repo.docs[s]
  /\ repo' = [repo EXCEPT !.docs[s] = doc]
  /\ UNCHANGED read

-----------------------------------------------------------------------------
(* A review of one document. What the reviewer can bind is what is on file *)
(* under the names that stand in the value; the rest can be deferred.      *)
MentionsOf(s) == {m \in Mentions(repo) : m.source = s /\ Counted(repo, m)}
OnFile(m) ==
  {id \in embedded_identity_matches(repo, m.raw, Expected(m.field), m.state)
            \cup UNION {materialized(repo, n, m.state) : n \in Identities[m.raw]} :
     TargetsValid(repo, [ids |-> {id}], Expected(m.field))}
Open(m) == {n \in Identities[m.raw] : materialized(repo, n, m.state) = {}}
Reason(names) == FoldLeft(LAMBDA r, n : r \o n \o Deferral, Deferral, SetToSeq(names))

Disposition(ids, deferred) ==
  IF ids = {} THEN "deferred" ELSE IF deferred = {} THEN "bound" ELSE "partial-deferred"

(* The reviewer defers every open name of the value, or forgets all but    *)
(* one.                                                                    *)
Deferrals(m) == {Open(m)} \cup {{n} : n \in Open(m)}

EntryFor(m, deferred) ==
  [source |-> m.source, state |-> m.state, field |-> m.field, prefix |-> m.raw,
   disposition |-> Disposition(OnFile(m), deferred), ids |-> OnFile(m), coverage |-> {},
   reason |-> Reason(deferred)]

(* One value is disposed of; the manifest of the document takes the        *)
(* present pin and keeps its other entries.                                *)
Review(s) ==
  LET old == {v \in DOMAIN repo.manifests : s \in DOMAIN repo.manifests[v].blobs}
      v == IF old = {} THEN Cardinality(DOMAIN repo.manifests) + 1 ELSE CHOOSE x \in old : TRUE
      Kept(m) == IF old = {} THEN <<>>
                 ELSE SelectSeq(repo.manifests[v].entries, LAMBDA e : ~MatchesPrefix(e, m))
  IN  /\ Act
      /\ \E m \in MentionsOf(s) : \E deferred \in Deferrals(m) :
           repo' = [repo EXCEPT !.manifests =
             Filed(@, v, [version |-> v, follows |-> v - 1, blobs |-> [x \in {s} |-> repo.docs[s]],
                          entries |-> Append(Kept(m), EntryFor(m, deferred))])]
      /\ read' = read \cup {<<s, repo.docs[s]>>}

(* The reviewed overlays of the document, their entries looked at again.   *)
ReviewOverlays(s) ==
  LET Again(o) == [o EXCEPT !.blobs = [x \in DOMAIN @ |-> IF x = s THEN repo.docs[s] ELSE @[x]]]
  IN  /\ Act
      /\ repo' = [repo EXCEPT !.cross = Again(@), !.residual = Again(@), !.short = Again(@)]
      /\ repo' # repo
      /\ read' = read \cup {<<s, repo.docs[s]>>}

Next ==
  \/ \E e \in Registrable : Register(e)
  \/ \E row \in Successions, removed \in BOOLEAN : Supersede(row, removed)
  \/ \E s \in DOMAIN repo.docs : Review(s) \/ ReviewOverlays(s)
  \/ \E s \in DOMAIN repo.docs : \E doc \in Versions[s] : EditDocument(s, doc)
  \/ Push

Spec == Init /\ [][Next]_vars

-----------------------------------------------------------------------------
GreenPush == ~pushed /\ pushed' /\ Green(repo)

(* A green run never rests on a review of other bytes: every reviewed      *)
(* disposition and every overlay entry was pinned by someone who read the  *)
(* document as it is now (load_dispositions and the overlays' loaders).    *)
ReviewMatchesContent ==
  [][GreenPush =>
       /\ \A r \in audit(repo) : r.how = "reviewed" => <<r.source, repo.docs[r.source]>> \in read
       /\ \A o \in {repo.cross, repo.residual, repo.short} : \A e \in o.entries :
            <<e.source, repo.docs[e.source]>> \in read]_vars

(* Once the registry gates pass, the primary name of an entity resolves to *)
(* it and to nothing else, in every State in which it may be meant: no     *)
(* local alias hides it, no other entity shares it (resolve_normalized     *)
(* over the index of the entities that are no States, against the gates    *)
(* over collisions and shadows). A name of marks only is in no index.      *)
NamesResolveUniquely ==
  RegistryGreen(repo.entities, repo.supers) =>
    LET codes == state_codes(repo.entities)
        actors == {e \in repo.entities : e.type # "State"}
        index == build_name_index(actors, repo.supers, codes)
    IN  \A e \in Live(actors, repo.supers), c \in codes :
          (norm(e.name) # <<>> /\ eligible_in_state(e.id, c, codes)) =>
             resolve_normalized(index, c, norm(e.name)) = {e.id}

(* A green run leaves no complete name of an actor value out: each is      *)
(* bound by its row, or deferred by its own name, or part of a longer      *)
(* bound name, wherever the value puts it.                                 *)
Accounted(r, name) ==
  \/ materialized(repo, name, r.state) \cap r.ids # {}
  \/ token_phrase_present(r.reason, name \o Deferral)
  \/ bound_identity_extends_surface(repo, name, r.raw, r.ids)
ActorRows == {r \in audit(repo) : r.kind = "actor-reference"}
NothingUnaccounted ==
  [][GreenPush => \A r \in ActorRows : \A name \in Identities[r.raw] :
                    Len(name) > 1 => Accounted(r, name)]_vars

(* The same of a component of one word, such as "Globex and Jane Doe" has. *)
(* check_schedule_actor_expression_completeness promises it: "fail closed  *)
(* on actor-expression components that other Schedule parsers can drop".   *)
Separates(raw, i) ==
  i \notin DOMAIN raw \/ \E c \in {"alt", "strong", "list"} : Is(raw[i], c)
IsComponent(raw, name) ==
  \E i \in DOMAIN raw : raw[i] = name[1] /\ Separates(raw, i - 1) /\ Separates(raw, i + 1)
SingleNamesAccounted ==
  [][GreenPush => \A r \in ActorRows : \A name \in Identities[r.raw] :
                    (Len(name) = 1 /\ IsComponent(r.raw, name)) => Accounted(r, name)]_vars

(* "Materializing one actor cannot make neighbouring actor debt disappear" *)
(* (check_schedule_actor_expression_completeness): the debt of a row that  *)
(* shares no word with a newly registered entity stays.                    *)
Words(name) == ToSet(norm(name))
Foreign(e, surface) == \A n \in NamesOf(e) : Words(n) \cap Words(surface) = {}
RowOf(r, m) == reference_row(r, m)
DebtIsMonotone ==
  [][\A e \in repo'.entities \ repo.entities : \A m \in Mentions(repo) :
       (repo'.docs = repo.docs /\ repo'.manifests = repo.manifests /\ Expected(m.field) = "actor") =>
         \A surface \in ActorDebt(repo, RowOf(repo, m)) :
           Foreign(e, surface) => surface \in ActorDebt(repo', RowOf(repo', m))]_vars
=============================================================================
