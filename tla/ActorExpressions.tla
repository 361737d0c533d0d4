-------------------------- MODULE ActorExpressions --------------------------
(***************************************************************************)
(* The five gates that take the value of an actor field apart: a curated   *)
(* value such as "A and B (in an advisory capacity) or C, only when        *)
(* assisted by D" names several actors, and the audit's own resolution     *)
(* sees at most one of them.                                               *)
(*                                                                         *)
(*   check_schedule_named_identity_strictness          strict              *)
(*   check_schedule_parenthesized_actor_capacity       parenthesized       *)
(*   check_schedule_root_and_actor_alternative_...     alternative         *)
(*   check_schedule_actor_expression_completeness      expression          *)
(*   check_schedule_capacity_actor_comma_coverage      capacity lists      *)
(*                                                                         *)
(* Each yields surfaces, pieces of the value that look like an identity,   *)
(* and a surface is debt unless it is a name on file or the review defers  *)
(* it by its whole name.                                                   *)
(***************************************************************************)
EXTENDS ScheduleReferences

(* Entities that may stand in the row: those of its State, and with bound  *)
(* those the review bound deliberately.                                    *)
Actors(repo, state, bound) ==
  {e \in repo.entities : /\ e.type \notin ProjectTypes \cup {"State"}
                         /\ e.id \in bound \/ eligible_in_state(e.id, state, state_codes(repo.entities))}

(* exact.materialized_ids_for_mention: on file under exactly this name.    *)
materialized(repo, mention, state) ==
  {e.id : e \in {x \in Candidates(repo, "identity", state) :
                   norm(mention) \in {norm(n) : n \in Forms(x)}}}

(* Seeded fault: any deferral in the reason defers every name.             *)
DefersSomething(r, mention) ==
  /\ r.how = "reviewed" /\ r.status \in {"deferred", "partial-deferred"}
  /\ \E i \in DOMAIN r.reason : Is(r.reason[i], "defer")

(* strict.explicitly_defers_complete_name, expression's surface form of it *)
(* (which also takes "are"): the name, then words of deferral.             *)
explicitly_defers_complete_name(r, mention) ==
  LET m == norm(mention)
      tail(i) == (i + Len(m))..(i + Len(m) + 5) \cap DOMAIN r.reason
  IN  /\ r.how = "reviewed" /\ r.status \in {"deferred", "partial-deferred"}
      /\ m # <<>>
      /\ \E i \in 1..(Len(r.reason) - Len(m)) :
           /\ norm(SubSeq(r.reason, i, i + Len(m) - 1)) = m
           /\ \E k \in tail(i) : /\ Is(r.reason[k], "defer")
                                 /\ \A j \in (i + Len(m))..(k - 1) : Is(r.reason[j], "bridge")

-----------------------------------------------------------------------------
(* Anchors: where the value names an actor that is on file.                *)
exact_non_person_actor_spans(repo, raw, state) ==
  UNION {UNION {IF looks_like_acronym_surface(n) THEN ExactSpans(raw, n) ELSE LooseSpans(raw, n) :
                  n \in Forms(e)} : e \in {x \in Actors(repo, state, {}) : x.type # "Person"}}

exact_person_actor_spans(repo, raw, state) ==
  UNION {UNION {LooseSpans(raw, n) : n \in Forms(e)} :
           e \in {x \in Actors(repo, state, {}) : x.type = "Person"}}

exact_actor_anchor_spans(repo, raw, state) ==
  exact_non_person_actor_spans(repo, raw, state) \cup exact_person_actor_spans(repo, raw, state)

(* An anchor of the expression gate does not cross a separator.            *)
safe_actor_anchor_spans(repo, raw, state, bound) ==
  UNION {UNION {IF looks_like_acronym_surface(n) THEN ExactSpans(raw, n) ELSE LiteralSpans(raw, n) :
                  n \in Forms(e)} : e \in Actors(repo, state, bound)}

(* Separators that an anchor does not hold; a comma before capacity prose  *)
(* is none.                                                                *)
ListSeparators(raw, anchors) ==
  {i \in DOMAIN raw : /\ Is(raw[i], "list") /\ ~InsideSpan(i, anchors)
                      /\ ~(Is(raw[i], "comma") /\ CapacityTail(Tail1(raw, i + 1)))}

Holds(piece, anchors) == \E a \in anchors : piece[1] <= a[1] /\ a[2] <= piece[2]

(* The pieces that no anchor lies in, once some piece holds one.           *)
UnanchoredPieces(raw, seps, anchors) ==
  IF seps = {} \/ ~\E p \in Pieces(raw, seps) : Holds(p, anchors) THEN {}
  ELSE {p \in Pieces(raw, seps) : ~Holds(p, anchors)}

(* strict: names beside an exact organization, split at and, & and commas. *)
anchored_actor_list_mentions(repo, raw, state) ==
  LET anchors == exact_non_person_actor_spans(repo, raw, state)
  IN  UNION {actor_component_name(Of(raw, p)) :
               p \in UnanchoredPieces(raw, ListSeparators(raw, anchors), anchors)}

(* parenthesized: components with a capacity in parentheses.               *)
actor_capacity_fragments(raw) ==
  {Of(raw, p) : p \in Pieces(raw,
     {i \in DOMAIN raw : \/ Is(raw[i], "strong")
                         \/ /\ Is(raw[i], "list") \/ Is(raw[i], "dash")
                            /\ i > 1 /\ Is(raw[i - 1], "close")
                            /\ i < Len(raw) /\ Is(raw[i + 1], "upper")})}

parenthesized_actor_mentions(raw) ==
  UNION {parenthesized_actor_component(f) : f \in actor_capacity_fragments(raw)}

anchored_parenthesized_actor_mentions(repo, raw, state) ==
  LET anchors == exact_actor_anchor_spans(repo, raw, state)
  IN  UNION {parenthesized_actor_component(Of(raw, p)) :
               p \in UnanchoredPieces(raw, ListSeparators(raw, anchors), anchors)}

(* alternative: the sides of or and and/or; a side that holds an anchor is *)
(* itself a list.                                                          *)
Alternatives(raw, anchors) == {i \in DOMAIN raw : Is(raw[i], "alt") /\ ~InsideSpan(i, anchors)}

actor_alternative_mentions(repo, raw, state) ==
  LET anchors == exact_actor_anchor_spans(repo, raw, state)
      sides == IF Alternatives(raw, anchors) = {} \/ anchors = {} THEN {}
               ELSE Pieces(raw, Alternatives(raw, anchors))
      seps == Alternatives(raw, anchors) \cup ListSeparators(raw, anchors)
                \cup {i \in DOMAIN raw : Is(raw[i], "strong") /\ ~InsideSpan(i, anchors)}
      beside == {p \in Pieces(raw, seps) :
                   /\ ~Holds(p, anchors)
                   /\ \E s \in sides : Holds(s, anchors) /\ s[1] <= p[1] /\ p[2] <= s[2]}
      fragments == IF \E s \in sides : Holds(s, anchors)
                   THEN {s \in sides : ~Holds(s, anchors)} \cup beside ELSE {}
  IN  UNION {IF parenthesized_actor_component(Of(raw, p)) # {}
             THEN parenthesized_actor_component(Of(raw, p))
             ELSE actor_component_name(Of(raw, p)) : p \in fragments}

NamedActors(repo, raw, state) ==
  strict_named_mentions(raw, "actor-reference")
    \cup anchored_actor_list_mentions(repo, raw, state)
    \cup parenthesized_actor_mentions(raw)
    \cup anchored_parenthesized_actor_mentions(repo, raw, state)
    \cup actor_alternative_mentions(repo, raw, state)

-----------------------------------------------------------------------------
(* expression: every top-level component, with no anchor required.         *)
heuristic_institution_spans(raw) ==
  UNION {LiteralSpans(raw, label) : label \in {l \in named_institution_labels(raw) : Len(norm(l)) >= 2}}

(* Capacity prose, to the end of the value or of its parentheses.          *)
capacity_spans(raw) ==
  {p \in Intervals(raw) : /\ Is(raw[p[1]], "open") /\ Is(raw[p[2]], "close")
                          /\ \A k \in (p[1] + 1)..(p[2] - 1) : ~Is(raw[k], "open") /\ ~Is(raw[k], "close")
                          /\ CapacityTail(Tail1(raw, p[1] + 1))}
    \cup {<<i, Len(raw)>> : i \in {k \in DOMAIN raw :
            \/ Is(raw[k], "comma") /\ CapacityTail(Tail1(raw, k + 1))
            \/ Is(raw[k], "only") /\ \A j \in 1..(k - 1) : ~Is(raw[j], "only")}}

Protected(repo, raw, state, bound) ==
  safe_actor_anchor_spans(repo, raw, state, bound)
    \cup heuristic_institution_spans(raw) \cup capacity_spans(raw)

structural_separators(repo, raw, state, bound) ==
  {i \in DOMAIN raw : /\ Is(raw[i], "alt") \/ Is(raw[i], "list") \/ Is(raw[i], "strong")
                      /\ ~Overlaps(i, Protected(repo, raw, state, bound))}

actor_components(repo, raw, state, bound) ==
  LET seps == structural_separators(repo, raw, state, bound)
  IN  IF seps = {} THEN {} ELSE {Of(raw, p) : p \in Pieces(raw, seps)}

(* One capitalised word that is no legal adjective. Only capacity prose is *)
(* searched for one: WHOLE_SINGLE_IDENTITY_RE, meant for a component of    *)
(* one word, ends its class of closing marks at the first "]" and requires *)
(* the rest of it literally, so that it matches no component.              *)
SingleIdentity(t) == NameToken(t) /\ ~Is(t, "context")

(* A label is a surface when it is the component, but for a parenthesis or *)
(* a locator of up to three capitalised words.                             *)
CompleteInstitutions(component) ==
  LET c == StripMarks(component)
  IN  UNION {LET rest == Tail1(c, Len(l) + 1)
             IN  IF SubSeq(c, 1, Len(l)) # l THEN {}
                 ELSE IF rest = <<>> \/ (Is(rest[1], "open") /\ Len(c) > Len(l)) THEN {l}
                 ELSE IF Len(rest) <= 3 /\ \A k \in DOMAIN rest : Is(rest[k], "upper")
                 THEN {l \o rest} ELSE {}
             : l \in named_institution_labels(c)}

component_identity_surfaces(component) ==
  LET paren == parenthesized_actor_component(component)
  IN  (IF paren # {} THEN paren ELSE actor_component_name(component))
        \cup {l \in CompleteInstitutions(component) : Len(norm(l)) >= 2}

(* What a piece of capacity prose begins with.                             *)
capacity_fragment_surfaces(fragment) ==
  LET c == StripMarks(fragment)
  IN  IF leading_name_phrase(fragment) # {} THEN leading_name_phrase(fragment)
      ELSE IF CompleteInstitutions(fragment) # {} THEN CompleteInstitutions(fragment)
      ELSE IF c # <<>> /\ SingleIdentity(c[1]) THEN {<<c[1]>>} ELSE {}

(* Names introduced inside capacity prose by a relational cue.             *)
RelationTails(raw) ==
  UNION {{SubSeq(raw, k + 1, s[2]) : k \in {j \in s[1]..s[2] : Is(raw[j], "relation")}} :
           s \in capacity_spans(raw)}

capacity_identity_surfaces(raw) ==
  UNION {UNION {capacity_fragment_surfaces(Of(tail, p)) :
                  p \in Pieces(tail, {i \in DOMAIN tail : Is(tail[i], "strong")})} :
           tail \in RelationTails(raw)}

(* capacity lists: every separator family. Exact anchors go before the     *)
(* institutions the grammar guesses, which give way to an anchor they      *)
(* hold behind known words or beside a separator.                          *)
LeadingWords == {"article", "context"}
KnownPrefix(text) == \A i \in DOMAIN text : Mark(text[i]) \/ \E c \in LeadingWords : Is(text[i], c)
CapacitySeparators(text) ==
  {i \in DOMAIN text : \E c \in {"list", "alt", "strong", "plus"} : Is(text[i], c)}

ProtectedIdentities(repo, text, state, bound) ==
  LET exact == safe_actor_anchor_spans(repo, text, state, bound)
  IN  exact \cup {h \in heuristic_institution_spans(text) :
                    ~\E s \in exact :
                       /\ h[1] <= s[1] /\ s[2] <= h[2]
                       /\ \/ KnownPrefix(SubSeq(text, h[1], s[1] - 1))
                          \/ CapacitySeparators(SubSeq(text, s[2] + 1, h[2])) # {}}

(* The protected identity it begins with, else every exact anchor and what *)
(* stands before the first, else what the grammar reads.                   *)
fragment_surfaces(repo, text, state, bound) ==
  LET exact == safe_actor_anchor_spans(repo, text, state, bound)
      leading == {s \in ProtectedIdentities(repo, text, state, bound) :
                    KnownPrefix(SubSeq(text, 1, s[1] - 1))}
      before == {i \in DOMAIN text : \A s \in exact : i < s[1]}
  IN  IF leading # {}
      THEN {Of(text, CHOOSE s \in leading :
                       \A t \in leading : s[1] < t[1] \/ (s[1] = t[1] /\ t[2] <= s[2]))}
      ELSE IF exact # {}
      THEN {Of(text, s) : s \in exact}
             \cup capacity_fragment_surfaces(SubSeq(text, 1, Cardinality(before)))
      ELSE capacity_fragment_surfaces(text)

rhs_starts_identity(repo, text, state, bound) ==
  /\ text # <<>> /\ ~Is(text[1], "suffix")
  /\ fragment_surfaces(repo, text, state, bound) # {}

(* A separator splits when an identity stands on both of its sides.        *)
capacity_list_fragments(repo, tail, state, bound) ==
  LET seps == {i \in CapacitySeparators(tail) :
                 ~Overlaps(i, ProtectedIdentities(repo, tail, state, bound))}
      Cut(acc, i) ==
        LET left == SubSeq(tail, acc.start, i - 1)
        IN  IF /\ left # <<>> /\ fragment_surfaces(repo, left, state, bound) # {}
               /\ rhs_starts_identity(repo, Tail1(tail, i + 1), state, bound)
            THEN [start |-> i + 1, pieces |-> acc.pieces \cup {left}] ELSE acc
      cuts == FoldLeft(Cut, [start |-> 1, pieces |-> {}], SetToSortSeq(seps, <))
  IN  cuts.pieces \cup {Tail1(tail, cuts.start)}

capacity_list_surfaces(repo, raw, state, bound) ==
  UNION {UNION {fragment_surfaces(repo, f, state, bound) :
                  f \in capacity_list_fragments(repo, tail, state, bound)} :
           tail \in {SubSeq(raw, p[1] + 1, p[2]) : p \in
             {q \in Intervals(raw) :
                /\ Is(raw[q[1]], "relation")
                /\ \E s \in capacity_spans(raw) : s[1] <= q[1] /\ s[2] = q[2]
                /\ ~Overlaps(q[1], ProtectedIdentities(repo, raw, state, bound))}}}

-----------------------------------------------------------------------------
(* Which surfaces are debt. *)
exact_actor_ids_for_surface(repo, surface, state, bound) ==
  {e.id : e \in {x \in Actors(repo, state, bound) : norm(surface) \in {norm(n) : n \in Forms(x)}}}

(* A stem of a longer name the row binds, which stands in the value.       *)
bound_identity_extends_surface(repo, surface, raw, bound) ==
  \E e \in {x \in repo.entities : x.id \in bound} : \E n \in Forms(e) :
    StartsWith(norm(n), norm(surface)) /\ LiteralSpans(raw, n) # {}

(* Seeded fault: beside an actor on file nothing else is looked for.       *)
SurfacesWithoutAnchor(repo, raw, state, bound) ==
  IF safe_actor_anchor_spans(repo, raw, state, bound) # {} THEN {}
  ELSE UNION {component_identity_surfaces(c) : c \in actor_components(repo, raw, state, bound)}

ExpressionSurfaces(repo, raw, state, bound) ==
  LET alternatives == {i \in DOMAIN raw : /\ Is(raw[i], "alt")
                                          /\ ~Overlaps(i, Protected(repo, raw, state, bound))}
  IN  UNION {LET found == component_identity_surfaces(c)
             IN  IF found = {} /\ alternatives # {} THEN {StripMarks(c)} ELSE found
             : c \in actor_components(repo, raw, state, bound)}
        \cup capacity_identity_surfaces(raw)

UnboundSurfaces(repo, r, surfaces) ==
  LET bound == {id \in r.ids : \E e \in repo.entities : e.id = id}
  IN  {s \in surfaces :
         LET ids == exact_actor_ids_for_surface(repo, s, r.state, bound)
         IN  /\ norm(s) # <<>>
             /\ ~bound_identity_extends_surface(repo, s, r.raw, bound)
             /\ IF ids # {} THEN ~(ids \subseteq bound) ELSE ~explicitly_defers_complete_name(r, s)}

(* The debt of one row: strict, parenthesized and alternative take any     *)
(* name on file; expression and capacity lists want it bound by this row.  *)
NameDebt(repo, r) ==
  {m \in NamedActors(repo, r.raw, r.state) :
     materialized(repo, m, r.state) = {} /\ ~explicitly_defers_complete_name(r, m)}

ActorDebt(repo, r) ==
  LET bound == {id \in r.ids : \E e \in repo.entities : e.id = id}
  IN  NameDebt(repo, r)
        \cup UnboundSurfaces(repo, r,
               ExpressionSurfaces(repo, r.raw, r.state, bound)
                 \cup capacity_list_surfaces(repo, r.raw, r.state, bound))

ActorsGreen(repo, rows) ==
  \A r \in rows : r.kind = "actor-reference" => ActorDebt(repo, r) = {}
=============================================================================
