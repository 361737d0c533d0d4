--------------------------- MODULE DossierDiscovery ---------------------------
(***************************************************************************)
(* tools/audit_state_dossier_entities.py and its companion for wrapped     *)
(* lines, check_state_dossier_softwrap_coverage.py: which names of actors  *)
(* and projects the State dossiers mention, and whether the registry       *)
(* resolves them.                                                          *)
(*                                                                         *)
(* The dossiers are a partial function from the stem of a file's name to   *)
(* [front, lines]. front is the sequence of the frontmatter's              *)
(* [key, value] pairs, empty when there is none; a value is a text, of     *)
(* which the id keeps the State code alone, or NotText. lines holds the    *)
(* lines that are not blank, [mark, joins, text]: joins says that it goes  *)
(* on where the line before it broke off, and mark is                      *)
(*   "h1"        "# " at the left margin                                   *)
(*   "indented"  the same behind one to three blanks                       *)
(*   "python"    the same behind blanks that only Python takes for such    *)
(*   "heading"   a lower heading                                           *)
(*   "prose"     anything else                                             *)
(* Links stand for their texts, and a text has no fences and no tables.    *)
(* Classes of tokens beside those of IdentityText:                         *)
(*   "title"    TITLE_WORD_PATTERN      "dotted"   one that ends in "."    *)
(*   "joint"    of, the, and, for, de   "acro"     ACRONYM_RE              *)
(*   "orgterm"  ORG_TERMS               "acrostop" ACRONYM_STOP            *)
(*   "projectterm" PROJECT_TERMS        "entityid" ENTITY_ID_RE, the token *)
(*   "tick", "quote"  marks by name                being the id            *)
(*   "path"     PATHISH_RE, an arrow    "material" material_section()      *)
(*   "setting"  last_, review_, ...                                        *)
(***************************************************************************)
EXTENDS IdentityResolution

CONSTANTS StopPhrases   \* normal forms of STOP_PHRASES

HasWord(text, c) == \E i \in DOMAIN text : Is(text[i], c)

-----------------------------------------------------------------------------
(* Titles: one title word and up to eight more or joints, from the left,   *)
(* each match behind the last.                                             *)
TitleEnd(line, i) ==
  LET InTitle(k) == Is(line[k], "title") \/ Is(line[k], "joint")
  IN  CHOOSE j \in i..Len(line) :
        /\ j <= i + 8 /\ \A k \in i..j : InTitle(k)
        /\ j \in {i + 8, Len(line)} \/ ~InTitle(j + 1)

TitleSpans(line) ==
  LET Next1(acc, i) ==
        IF i < acc.next \/ ~Is(line[i], "title") THEN acc
        ELSE [next |-> TitleEnd(line, i) + 1, spans |-> acc.spans \cup {<<i, TitleEnd(line, i)>>}]
  IN  FoldLeft(Next1, [next |-> 1, spans |-> {}], [i \in DOMAIN line |-> i]).spans

(* Seeded fault: one reading of a period is enough.                        *)
CompleteReadings(line) == TitleSpans(line)

(* "Acme Inc. Rights Agency" is one name or two: what follows a dotted     *)
(* word is read once more by itself.                                       *)
title_candidate_surfaces(line) ==
  UNION {{s} \cup {<<k + 1, s[2]>> : k \in {i \in s[1]..(s[2] - 1) :
                     Is(line[i], "dotted") /\ Is(line[i + 1], "title")}} : s \in TitleSpans(line)}

clean_candidate(text) == StripMarks(text)

classify(text) ==
  CASE HasWord(text, "projectterm") -> "project-or-deployment"
    [] ~HasWord(text, "projectterm") /\ HasWord(text, "orgterm") -> "actor-or-institution"
    [] OTHER -> IF Len(text) = 1 /\ Is(text[1], "acro") /\ ~Is(text[1], "acrostop")
                THEN "acronym-review" ELSE "none"

plausible(text) ==
  /\ Chars(norm(text)) \in 3..120
  /\ ~HasWord(text, "path")
  /\ norm(text) \notin StopPhrases
  /\ ~(Len(text) = 1 /\ Is(text[1], "acrostop"))

looks_named_opaque(text) ==
  /\ plausible(text) /\ Len(norm(text)) <= 8
  /\ HasWord(text, "upper") \/ HasWord(text, "uncased")
  /\ ~Is(text[1], "setting")

(* What stands between two marks, each of which closes or opens one pair.  *)
Enclosed(line, c) ==
  LET marks == {i \in DOMAIN line : Is(line[i], c)}
      Before(i) == {m \in marks : m < i}
  IN  {clean_candidate(SubSeq(line, p[1] + 1, p[2] - 1)) :
         p \in {q \in marks \X marks : /\ Cardinality(Before(q[1])) % 2 = 0
                                       /\ Before(q[2]) = Before(q[1]) \cup {q[1]}}}

resolve_name(index, state, text) ==
  LET ids == resolve_normalized(index, state, norm(text))
  IN  IF Cardinality(ids) = 1 THEN ids ELSE {}

(* The candidates of one text: normal form, kind, and the id it resolves   *)
(* to, if any.                                                             *)
extract_candidates(index, ids, state, line) ==
  LET Row(text, kind, resolved) == [normalized |-> norm(text), kind |-> kind, resolved |-> resolved]
      Named(text, kind) == Row(text, kind, resolve_name(index, state, text))
      IsId(text) == Len(text) = 1 /\ Is(text[1], "entityid")
      code == Enclosed(line, "tick")
      titles == {clean_candidate(Of(line, s)) : s \in title_candidate_surfaces(line)}
      acronyms == {<<line[i]>> : i \in {k \in DOMAIN line : Is(line[k], "acro")}}
  IN  {Row(c, "id-reference", {c[1]} \cap ids) : c \in {x \in code : IsId(x)}}
        \cup {Named(c, "opaque-name") : c \in {x \in code : ~IsId(x) /\ looks_named_opaque(x)}}
        \cup {Named(c, "quoted-name") : c \in {x \in Enclosed(line, "quote") : looks_named_opaque(x)}}
        \cup {Named(c, classify(c)) : c \in {x \in titles : classify(x) # "none" /\ plausible(x)}}
        \cup {Named(c, "acronym-review") : c \in {x \in acronyms : plausible(x)}}

-----------------------------------------------------------------------------
(* parse_frontmatter: of pairs with one key, YAML keeps the last.          *)
LastPairs(front) == {i \in DOMAIN front : \A j \in DOMAIN front : front[j].key = front[i].key => j <= i}
parse_frontmatter(dossier) ==
  [k \in {dossier.front[i].key : i \in DOMAIN dossier.front} |->
     dossier.front[CHOOSE i \in LastPairs(dossier.front) : dossier.front[i].key = k].value]
FrontIs(dossier, key, values) ==
  key \in DOMAIN parse_frontmatter(dossier) /\ parse_frontmatter(dossier)[key] \in values

canonical_state_dossiers(dossiers) ==
  {s \in DOMAIN dossiers : FrontIs(dossiers[s], "id", {<<s>>}) /\ FrontIs(dossiers[s], "iso3", {<<s>>})}

(* load_identity_index: entities that are no States, by name and by id.    *)
NonStates(entities) == {e \in entities : e.type # "State"}
load_identity_index(entities, supers, dossiers) ==
  build_name_index(NonStates(entities), supers, canonical_state_dossiers(dossiers))

-----------------------------------------------------------------------------
(* frontmatter_identity_values: the two fields that may name identities.   *)
FrontmatterIdentityFields == {"provisional_scope", "adversarial_result"}
frontmatter_identity_values(dossier) ==
  {i \in LastPairs(dossier.front) : dossier.front[i].key \in FrontmatterIdentityFields}
DiscoveryRaises(dossiers) ==
  \E s \in canonical_state_dossiers(dossiers) : \E i \in frontmatter_identity_values(dossiers[s]) :
    dossiers[s].front[i].value = NotText

(* The section of a line is the last heading up to it.                     *)
material_section(lines, k) ==
  LET headings == {i \in 1..k : lines[i].mark \in {"h1", "heading"}}
  IN  headings # {} /\ HasWord(lines[CHOOSE i \in headings : \A j \in headings : j <= i].text, "material")

(* iter_occurrences: the texts it reads. The name of the field             *)
(* provisional_scope has a material word in it.                            *)
BodyTexts(dossier) ==
  {[at |-> k, text |-> dossier.lines[k].text, material |-> material_section(dossier.lines, k)] :
     k \in {i \in DOMAIN dossier.lines : dossier.lines[i].mark # "h1"}}

AuditedTexts(dossier) ==
  BodyTexts(dossier)
    \cup {[at |-> 0 - i, text |-> dossier.front[i].value,
           material |-> dossier.front[i].key = "provisional_scope"] :
            i \in frontmatter_identity_values(dossier)}

Occurrences(entities, supers, dossiers) ==
  LET index == load_identity_index(entities, supers, dossiers)
      ids == {e.id : e \in NonStates(entities)}
  IN  UNION {UNION {{[state |-> s, at |-> t.at, material |-> t.material,
                      restricted |-> FrontIs(dossiers[s], "provisional_outcome", {<<"R">>, <<"S">>}),
                      normalized |-> row.normalized, kind |-> row.kind, resolved |-> row.resolved] :
                        row \in extract_candidates(index, ids, s, t.text)} :
                     t \in AuditedTexts(dossiers[s])} :
             s \in canonical_state_dossiers(dossiers)}

(* review_priority of the unresolved group of a name in a State.           *)
review_priority(occurrences, key) ==
  LET group == {o \in occurrences : o.resolved = {} /\ <<o.state, o.normalized>> = key}
      material == Cardinality({o \in group : o.material})
      Weight(condition, n) == IF condition THEN n ELSE 0
      Kind(k) == \E o \in group : o.kind = k
  IN  Weight(\E o \in group : o.restricted, 30)
        + 3 * (IF material > 10 THEN 10 ELSE material)
        + Weight(Kind("actor-or-institution"), 8) + Weight(Kind("project-or-deployment"), 7)
        + Weight(\E o \in occurrences : o.normalized = key[2] /\ o.state # key[1], 4)

-----------------------------------------------------------------------------
(* prose_blocks: lines with no blank line and no heading between them, as  *)
(* intervals of lines. The wrapped title is looked for in their texts,     *)
(* one behind the other.                                                   *)
prose_blocks(lines) ==
  LET Prose(k) == lines[k].mark \notin {"h1", "heading"}
  IN  {b \in Intervals(lines) :
         /\ \A k \in b[1]..b[2] : Prose(k) /\ (k > b[1] => lines[k].joins)
         /\ b[1] = 1 \/ ~lines[b[1]].joins \/ ~Prose(b[1] - 1)
         /\ b[2] = Len(lines) \/ ~lines[b[2] + 1].joins \/ ~Prose(b[2] + 1)}

(* render_prose_block: without the marks of code spans.                    *)
Rendered(text) == SelectSeq(text, LAMBDA t : ~Is(t, "tick"))
Joined(lines, a, b) ==
  FoldLeft(LAMBDA text, line : text \o Rendered(line.text), <<>>, SubSeq(lines, a, b))

cross_line_candidates(dossier) ==
  UNION {LET text == Joined(dossier.lines, b[1], b[2])
             breaks == {Len(Joined(dossier.lines, b[1], k)) : k \in b[1]..(b[2] - 1)}
             crossing == {s \in title_candidate_surfaces(text) : \E k \in breaks : s[1] <= k /\ k < s[2]}
         IN  {c \in {clean_candidate(Of(text, s)) : s \in crossing} : classify(c) # "none" /\ plausible(c)}
         : b \in prose_blocks(dossier.lines)}
=============================================================================
