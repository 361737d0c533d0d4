---------------------------- MODULE IdentityText ----------------------------
(***************************************************************************)
(* The reading of free text that every identity audit of the repository    *)
(* shares: the normal form of a name, where a name occurs in a value, and  *)
(* the grammars that find names of persons, institutions and acronyms in   *)
(* curated values.                                                         *)
(*                                                                         *)
(* A text is a sequence of tokens. A token is a word, a fixed phrase of    *)
(* the code's grammar (", only", "to the extent") or one mark; what the    *)
(* regular expressions tell apart in it is given by the constants, so that *)
(* characters are not modelled: their spans [start, end) become intervals  *)
(* <<i, j>> of token positions.                                            *)
(***************************************************************************)
EXTENDS Integers, Sequences, FiniteSets, SequencesExt

CONSTANTS
  NotText,  \* what stands for a YAML or JSON item that is no string
  Fold,   \* token -> its normal form, "" for a mark, which norm() makes a separator
  Size,   \* normal form -> its number of characters
  Class   \* token -> what it is in the grammars:
          \*   "upper"     begins with a capital       "caps"     is all capitals
          \*   "acronym"   ACRONYM_SURFACE_RE          "short"    looks_like_acronym_surface
          \*   "particle"  PARTICLES                   "stop"     STOPWORDS
          \*   "context"   SINGLE_CONTEXT_WORDS        "legal"    a legal or custody cue
          \*   "cue"       "case of", "concerning"     "matter"   "matter"
          \*   "role"      INSTITUTION_TYPE            "object"   "Operation", "Project"
          \*   "prep"      of, for, against, on        "article"  the
          \*   "people"    staff, personnel            "capacity" CAPACITY_TAIL_RE
          \*   "only"      begins an inline capacity   "split"    CAPACITY_SPLITS
          \*   "relation"  CAPACITY_IDENTITY_CUE_RE    "list"     and, &, the comma
          \*   "alt"       or, and/or                  "strong"   / and ;
          \*   "comma", "slash", "dash", "open", "close"          marks by name
          \*   "defer", "bridge"   the words a reviewed deferral is stated with
          \*   "competent", "body" the words of SCOPE_ROLE_IDENTITY_RE
          \*   "plus", "andwith", "including", "suffix", "ascii"  by name

Is(t, c) == c \in Class[t]
Mark(t) == Fold[t] = ""

(* A sequence of tokens as a normal form: case folded, marks separate.     *)
norm(text) == SelectSeq([i \in DOMAIN text |-> Fold[text[i]]], LAMBDA w : w # "")

(* The older normal form, which also drops what is not an ASCII letter.    *)
default_normalizer(text) ==
  norm(SelectSeq(text, LAMBDA t : Is(t, "ascii")))

(* The number of characters of a normal form.                              *)
Chars(words) ==
  IF words = <<>> THEN 0
  ELSE FoldLeft(LAMBDA n, w : n + Size[w], Len(words) - 1, words)

(* f" {phrase} " in f" {words} ": the phrase occurs on word boundaries.    *)
token_phrase_occurrences(words, phrase) ==
  IF phrase = <<>> THEN 0
  ELSE Cardinality({i \in 0..(Len(words) - Len(phrase)) :
                      SubSeq(words, i + 1, i + Len(phrase)) = phrase})
token_phrase_present(words, phrase) == token_phrase_occurrences(words, phrase) > 0

-----------------------------------------------------------------------------
(* Intervals of positions.                                                 *)
Tail1(text, i) == SubSeq(text, i, Len(text))
Of(text, span) == SubSeq(text, span[1], span[2])
Intervals(text) == {s \in (DOMAIN text) \X (DOMAIN text) : s[1] <= s[2]}
Covered(spans) == UNION {s[1]..s[2] : s \in spans}

(* _overlaps and _merge_spans: whether a position lies in a protected one. *)
Overlaps(i, spans) == i \in Covered(spans)
(* _inside_span: strictly inside, so that a separator beside a name counts. *)
InsideSpan(i, spans) == \E s \in spans : s[1] < i /\ i <= s[2]

(* _literal_surface_pattern: the surface itself, but for its case.         *)
LiteralSpans(text, surface) ==
  {s \in Intervals(text) :
     /\ s[2] - s[1] + 1 = Len(surface)
     /\ \A k \in DOMAIN surface :
          LET t == text[s[1] + k - 1]
          IN  t = surface[k] \/ (~Mark(t) /\ Fold[t] = Fold[surface[k]])}

(* The span patterns that accept any marks between the words of a name.    *)
LooseSpans(text, surface) ==
  {s \in Intervals(text) :
     /\ ~Mark(text[s[1]]) /\ ~Mark(text[s[2]])
     /\ norm(Of(text, s)) = norm(surface)}

(* An acronym is looked for as it is written.                              *)
looks_like_acronym_surface(text) == Len(text) = 1 /\ Is(text[1], "short")
ExactSpans(text, surface) ==
  {s \in Intervals(text) : Of(text, s) = surface}

(* The pieces of a text between the separators at the positions seps.      *)
Pieces(text, seps) ==
  LET cuts == {0, Len(text) + 1} \cup seps
  IN  {<<p[1] + 1, p[2] - 1>> : p \in {c \in cuts \X cuts :
                                     /\ c[1] + 1 < c[2]
                                     /\ \A m \in cuts : ~(c[1] < m /\ m < c[2])}}

(* str.strip() of marks at both ends.                                      *)
StripMarks(text) ==
  LET words == {i \in DOMAIN text : ~Mark(text[i])}
  IN  IF words = {} THEN <<>>
      ELSE SubSeq(text, CHOOSE i \in words : \A j \in words : i <= j,
                        CHOOSE i \in words : \A j \in words : j <= i)

-----------------------------------------------------------------------------
(* Names of persons. allow_all_caps holds in each call of the audits that  *)
(* is modelled, so that only NamedPerson() below refuses JANE DOE.         *)
NameToken(t) == Is(t, "upper") /\ ~Is(t, "stop") /\ ~Is(t, "particle")

valid_name(text) ==
  LET semantic == SelectSeq(text, LAMBDA t : ~Mark(t) /\ ~Is(t, "particle"))
  IN  Len(semantic) >= 2 /\ \A k \in DOMAIN semantic : NameToken(semantic[k])

full_name_phrase(text) ==
  LET cleaned == StripMarks(text)
  IN  IF /\ Len(cleaned) \in 2..8
         /\ \A k \in DOMAIN cleaned : ~Mark(cleaned[k])
         /\ valid_name(cleaned)
      THEN {cleaned} ELSE {}

(* The longest run of name words and particles a text begins with.         *)
leading_name_phrase(text) ==
  LET opening == {i \in DOMAIN text : \A j \in 1..i : Mark(text[j])}
      t == Tail1(text, Cardinality(opening) + 1)
      runs == {n \in 1..(IF Len(t) < 8 THEN Len(t) ELSE 8) :
                 /\ NameToken(t[1]) /\ NameToken(t[n])
                 /\ \A k \in 1..n : NameToken(t[k]) \/ Is(t[k], "particle")}
  IN  IF runs = {} THEN {}
      ELSE LET n == CHOOSE n \in runs : \A m \in runs : m <= n
           IN  IF valid_name(SubSeq(t, 1, n)) THEN {SubSeq(t, 1, n)} ELSE {}

CapacityTail(text) == text # <<>> /\ Is(text[1], "capacity")

(* The name of one component of an actor value, with its capacity tail.    *)
actor_component_name(fragment) ==
  LET comma == {i \in DOMAIN fragment :
                  Is(fragment[i], "comma") /\ CapacityTail(Tail1(fragment, i + 1))
                  /\ \A j \in 1..(i - 1) : ~Is(fragment[j], "comma")}
      open == {i \in DOMAIN fragment :
                 /\ Is(fragment[i], "open") /\ Is(Last(fragment), "close")
                 /\ \A k \in (i + 1)..(Len(fragment) - 1) :
                      ~Is(fragment[k], "open") /\ ~Is(fragment[k], "close")
                 /\ CapacityTail(Tail1(fragment, i + 1))}
  IN  full_name_phrase(fragment)
        \cup UNION {full_name_phrase(SubSeq(fragment, 1, i - 1)) : i \in comma \cup open}

(* parenthesized_actor_component: a capacity in parentheses, and perhaps a *)
(* second one behind a comma.                                              *)
parenthesized_actor_component(fragment) ==
  UNION {full_name_phrase(SubSeq(fragment, 1, s[1] - 1)) :
           s \in {p \in Intervals(fragment) :
                    /\ Is(fragment[p[1]], "open") /\ Is(fragment[p[2]], "close")
                    /\ \A k \in (p[1] + 1)..(p[2] - 1) :
                         ~Is(fragment[k], "open") /\ ~Is(fragment[k], "close")
                    /\ CapacityTail(Tail1(fragment, p[1] + 1))
                    /\ LET rest == Tail1(fragment, p[2] + 1)
                       IN  rest = <<>> \/ (Is(rest[1], "comma") /\ CapacityTail(Tail(rest)))}}

(* "- Name / Name" behind a dash.                                          *)
pair_label_mentions(text) ==
  UNION {LET tail == Tail1(text, d + 1)
             slash == SelectInSeq(tail, LAMBDA t : Is(t, "slash"))
             left == IF slash > 1 THEN full_name_phrase(SubSeq(tail, 1, slash - 1)) ELSE {}
             right == IF slash > 1 THEN leading_name_phrase(Tail1(tail, slash + 1)) ELSE {}
         IN  IF left # {} /\ right # {} THEN left \cup right ELSE {}
         : d \in {i \in DOMAIN text : Is(text[i], "dash")}}

(* A name that begins the value, or follows a strong separator, before a   *)
(* legal cue: "Jane Doe detention".                                        *)
PrefixCueNames(text) ==
  {n \in {Of(text, s) : s \in {p \in Intervals(text) :
                  /\ p[1] = 1 \/ Is(text[p[1] - 1], "strong") \/ Is(text[p[1] - 1], "dash")
                  /\ p[2] < Len(text) /\ Is(text[p[2] + 1], "legal")
                  /\ \A k \in p[1]..p[2] : ~Mark(text[k])}} :
     Len(n) \in 2..8 /\ valid_name(n)}

(* A name behind a cue: "concerning Jane Doe".                             *)
CueNames(text) ==
  UNION {leading_name_phrase(Tail1(text, i + 1)) : i \in {k \in DOMAIN text : Is(text[k], "cue")}}

MatterNames(text) ==
  {n \in {SubSeq(text, 1, k - 1) : k \in {i \in DOMAIN text : Is(text[i], "matter")}} :
     Len(n) \in 2..8 /\ (\A k \in DOMAIN n : ~Mark(n[k])) /\ valid_name(n)}

(* The complete names a value must account for, by the kind of its row.    *)
strict_named_mentions(text, kind) ==
  pair_label_mentions(text) \cup PrefixCueNames(text) \cup CueNames(text)
    \cup (IF kind = "project-reference" THEN MatterNames(text) ELSE {})
    \cup (IF kind # "actor-reference" THEN {}
          ELSE UNION {actor_component_name(Of(text, s)) :
                        s \in Pieces(text, {i \in DOMAIN text : Is(text[i], "strong")})})

(* The first, narrower reader: an all-capitals word ends a name after a    *)
(* cue and spoils the others; pairs and prefixes are short.                *)
named_person_mentions(text) ==
  LET Plain(n) == \A k \in DOMAIN n : ~Is(n[k], "caps")
      Short(n) == LET plain == {k \in 0..Len(n) : k <= 4 /\ Plain(SubSeq(n, 1, k))}
                  IN  SubSeq(n, 1, CHOOSE k \in plain : \A l \in plain : l <= k)
  IN  {n \in {m \in PrefixCueNames(text) : Len(m) <= 5}
             \cup {m \in pair_label_mentions(text) : Len(m) = 2} : Plain(n)}
        \cup {n \in {Short(m) : m \in CueNames(text)} : valid_name(n)}

-----------------------------------------------------------------------------
(* Names of institutions: capitalised words up to an institution type,     *)
(* then qualifiers "of [the] ..." that may hold a conjunction but never    *)
(* end in one.                                                             *)
TailWord(t) == Is(t, "upper") /\ ~Is(t, "caps")

QualifierOk(text, k, j) ==
  \A i \in (k + 1)..j :
    \/ TailWord(text[i])
    \/ /\ Is(text[i], "prep") /\ i < j
       /\ Is(text[i + 1], "article") \/ TailWord(text[i + 1])
       /\ i = k + 1 \/ TailWord(text[i - 1])
    \/ /\ Is(text[i], "article") /\ i < j
       /\ i > k + 1 /\ Is(text[i - 1], "prep") /\ TailWord(text[i + 1])
    \/ /\ Is(text[i], "list") /\ ~Is(text[i], "comma") /\ i < j /\ i > k + 1
       /\ TailWord(text[i - 1]) /\ TailWord(text[i + 1])

InstitutionSpans(text) ==
  LET Capital(i) == i \in DOMAIN text /\ Is(text[i], "upper")
      spans == {s \in Intervals(text) :
                  /\ Capital(s[1]) /\ ~Capital(s[1] - 1)
                  /\ \E k \in s[1]..s[2] :
                       /\ Is(text[k], "role") /\ \A m \in s[1]..k : Capital(m)
                       /\ k = s[2] \/ (Is(text[k + 1], "prep") /\ QualifierOk(text, k, s[2]))}
  IN  {s \in spans : \A t \in spans : (t[1] <= s[1] /\ s[2] <= t[2]) => t = s}

(* A conjunct before a class of people is context: "... and prison staff". *)
named_institution_labels(text) ==
  {LET label == Of(text, s)
       n == Len(label)
   IN  IF /\ s[2] < Len(text) /\ Is(text[s[2] + 1], "people")
          /\ n > 2 /\ Is(label[n - 1], "list")
       THEN SubSeq(label, 1, n - 2) ELSE label
   : s \in InstitutionSpans(text)}

named_object_labels(text) ==
  LET runs == {s \in Intervals(text) :
                 /\ s[1] < s[2] /\ Is(text[s[1]], "object")
                 /\ \A k \in s[1]..s[2] : Is(text[k], "upper")}
  IN  {Of(text, s) : s \in {r \in runs : \A q \in runs : (q[1] = r[1]) => q[2] <= r[2]}}

-----------------------------------------------------------------------------
(* Acronyms of four characters or more: in a cluster A/B, as the whole     *)
(* value, or beside a role. TypeRole stands for both role patterns.        *)
LongAcronym(t) == Is(t, "caps") /\ Size[Fold[t]] >= 4
acronym_identity_labels(text) ==
  LET Acro(i) == i \in DOMAIN text /\ LongAcronym(text[i])
      Slash(i) == i \in DOMAIN text /\ Is(text[i], "slash")
      Role(i) == i \in DOMAIN text /\ Is(text[i], "role")
      clustered(i) == (Slash(i + 1) /\ Acro(i + 2)) \/ (Slash(i - 1) /\ Acro(i - 2))
  IN  {<<text[i]>> : i \in {k \in DOMAIN text :
         Acro(k) /\ (clustered(k) \/ StripMarks(text) = <<text[k]>> \/ Role(k - 1) \/ Role(k + 1))}}

(* _wrapped_span: the interval of a token with the balanced marks around.  *)
WrappedSpan(text, i) ==
  LET depth == {n \in 0..Len(text) :
                  \A m \in 1..n : /\ i - m >= 1 /\ i + m <= Len(text)
                                  /\ Is(text[i - m], "open") /\ Is(text[i + m], "close")}
      n == CHOOSE n \in depth : \A m \in depth : m <= n
  IN  <<i - n, i + n>>

(* The members of the slash clusters that hold a short acronym, or whose   *)
(* members are all long and one of them is wrapped. Two members are        *)
(* connected when a slash stands between them and nothing else.            *)
slash_cluster_acronyms(text) ==
  LET cand == {i \in DOMAIN text : Is(text[i], "caps") /\ Size[Fold[text[i]]] >= 2}
      W(i) == WrappedSpan(text, i)
      Linked(i, j) == W(i)[2] + 2 = W(j)[1] /\ Is(text[W(i)[2] + 1], "slash")
      touched == {i \in cand : \/ W(i)[2] < Len(text) /\ Is(text[W(i)[2] + 1], "slash")
                               \/ W(i)[1] > 1 /\ Is(text[W(i)[1] - 1], "slash")}
      InOneRun(i, j) == \A k \in {c \in cand : i <= c /\ c < j} :
                          \E l \in cand : l <= j /\ Linked(k, l)
      Component(i) == {j \in touched : IF i <= j THEN InOneRun(i, j) ELSE InOneRun(j, i)}
      Active(i) == \/ \E j \in Component(i) : Size[Fold[text[j]]] <= 3
                   \/ /\ Cardinality(Component(i)) >= 2
                      /\ \E j \in Component(i) : W(j) # <<j, j>>
  IN  {<<text[i]>> : i \in {k \in touched : Active(k)}}
=============================================================================
