--------------------------- MODULE MCCurationAudit ---------------------------
(* MCScheduleAudit with State dossiers: the histories of the Schedule have *)
(* none, those of the dossiers have no freeze documents, and both share    *)
(* the registry.                                                           *)
EXTENDS MCScheduleAudit, CurationAudit

Rights == <<"Rights", "Agency">>
Acme == <<"Acme", "Inc.">>
Sea == <<"Sea", "Project">>
Marks2 == {"tick", "quote"}
NewWords == {"AAA", "BBB", "R", "Rights", "Agency", "Acme", "Inc.", "Sea", "Project", "Attribution",
             "AGENCY_AAA_POLICE", "ORG_GLOBEX"}
AllTokens == Vocabulary \cup NewWords \cup Marks2

MCAllFold == [t \in AllTokens |-> IF t \in Vocabulary THEN MCFold[t] ELSE IF t \in Marks2 THEN "" ELSE t]
MCAllSize == [w \in AllTokens \cup {""} |->
  IF w \in DOMAIN MCSize THEN MCSize[w] ELSE IF w = "R" THEN 1 ELSE IF w \in {"AAA", "BBB", "Sea"} THEN 3 ELSE 6]

TitleWords == Capitals \cup {"Rights", "Agency", "Acme", "Inc.", "Sea", "Project", "Attribution", "AAA", "HRW", "Bland"}
DossierTags(t) ==
  (IF t \in TitleWords THEN {"title"} ELSE {})
    \cup (IF t \in NewWords /\ t # "of" THEN {"upper", "ascii"} ELSE {})
    \cup CASE t \in {"Agency", "Police", "Service"} -> {"orgterm"}
           [] t = "Inc." -> {"dotted", "orgterm"}
           [] t \in {"Operation", "Project"} -> {"projectterm"}
           [] t \in {"of", "and"} -> {"joint"}
           [] t \in {"HRW", "AAA", "BBB"} -> {"acro"}
           [] t \in {"AGENCY_AAA_POLICE", "ORG_GLOBEX"} -> {"entityid"}
           [] t = "tick" -> {"tick"}
           [] t = "quote" -> {"quote"}
           [] t = "Attribution" -> {"material"}
           [] OTHER -> {}
MCAllClass == [t \in AllTokens |-> DossierTags(t) \cup (IF t \in Vocabulary THEN MCClass[t] ELSE {})]

-----------------------------------------------------------------------------
StateEntity(id, code, name) ==
  [file |-> id, id |-> id, type |-> "State", name |-> name, aliases |-> {<<code>>}, dossier |-> code]
DossierBase ==
  {StateEntity("STATE_AAA", "AAA", <<"Aland">>), StateEntity("STATE_BBB", "BBB", <<"Bland">>),
   Entity("AGENCY_AAA_POLICE", "Agency", Police, {})}

(* Two entities of the Schedule are on file under names of the dossiers,   *)
(* one everywhere and one in the other State.                              *)
MCAllRegistrable ==
  {CASE e.id = "ORG_GLOBEX" -> [e EXCEPT !.aliases = {Rights, Sea}]
     [] e.id = "AGENCY_BBB_POLICE" -> [e EXCEPT !.aliases = {Rights}]
     [] OTHER -> e : e \in MCRegistrable}

NoDocuments ==
  [entities |-> DossierBase, supers |-> <<>>, links |-> NoFields, docs |-> <<>>, manifests |-> <<>>,
   cross |-> [blobs |-> <<>>, entries |-> {}], residual |-> [blobs |-> <<>>, entries |-> {}],
   short |-> [blobs |-> <<>>, entries |-> {}]]

Pair(key, value) == [key |-> key, value |-> value]
Line(mark, joins, text) == [mark |-> mark, joins |-> joins, text |-> text]
Header(code, name) == <<Pair("id", <<code>>), Pair("iso3", <<code>>), Pair("entity", name)>>
Dossier(front, lines) ==
  [front |-> Header("AAA", <<"Aland">>) \o front, lines |-> <<Line("h1", FALSE, <<"Aland">>)>> \o lines]
Plain == Dossier(<<>>, <<>>)
Prose1(text) == Line("prose", FALSE, text)
Code(text) == <<"near", "tick">> \o text \o <<"tick">>

(* Where a name can stand.                                                 *)
Mention1(text) == Dossier(<<>>, <<Prose1(text)>>)
Restricted ==
  Dossier(<<Pair("provisional_outcome", <<"R">>)>>,
          <<Line("heading", FALSE, <<"Attribution">>), Prose1(<<"near">> \o Rights)>>)
MCDossierVersions ==
  "AAA" :> {Plain, Restricted, Mention1(Acme \o Rights), Mention1(Code(Globex)),
            Mention1(Code(<<"ORG_GLOBEX">>)), Mention1(<<"quote">> \o Jane \o <<"quote">>),
            Mention1(Police), Dossier(<<>>, <<Line("heading", FALSE, Hrw)>>),
            Dossier(<<Pair("provisional_scope", Rights)>>, <<>>),
            Dossier(<<Pair("provisional_scope", NotText)>>, <<>>),
            Dossier(<<Pair("provisional_scope", Rights), Pair("provisional_scope", <<"prose">>)>>, <<>>),
            Dossier(<<Pair("issue", <<"prose">>), Pair("notes", Rights)>>, <<>>),
            Dossier(<<>>, <<Prose1(<<"Sea">>), Line("prose", TRUE, <<"Project">>)>>),
            Dossier(<<>>, <<Line("h1", FALSE, Shield)>>),
            Dossier(<<>>, <<Line("python", FALSE, Shield)>>),
            [Plain EXCEPT !.lines[1].text = <<"Aland", "(", "AAA", ")">>],
            [Plain EXCEPT !.lines[1].text = <<"Aland", "(">> \o Shield \o <<")">>],
            [Plain EXCEPT !.lines[1].text = Shield, !.front[3].value = Shield]}
    @@ "BBB" :> {}

Other == [front |-> Header("BBB", <<"Bland">>), lines |-> <<Line("h1", FALSE, <<"Bland">>), Prose1(Rights)>>]
Silent == [Other EXCEPT !.lines = <<Head(@)>>]
Rows(v, rows) == [version |-> v, follows |-> v - 1, rows |-> rows]
Prose(dossiers, rows) ==
  [dossiers |-> dossiers, manifests |-> 1 :> Rows(1, rows), ratchet |-> [threshold |-> 0, tree |-> dossiers]]
Row1(status, ids) ==
  [state |-> "AAA", normalized |-> Rights, status |-> status, ids |-> ids, source |-> "AAA"]

NoDossiers == [dossiers |-> <<>>, manifests |-> <<>>, ratchet |-> [threshold |-> 0, tree |-> <<>>]]
MCBeginnings ==
  {<<c, NoDossiers>> : c \in MCCheckouts}
    \cup {<<NoDocuments, Prose("AAA" :> d[1] @@ "BBB" :> d[2], d[3])>> :
            d \in {<<Plain, Silent, <<>>>>,
                   <<Restricted, Other, <<>>>>,
                   <<Mention1(Rights), Silent, <<Row1("curated-identity", {"AGENCY_AAA_POLICE"})>> >>}}

MCStopPhrases == {<<"prose">>, <<"Project">>}
MCMentioned ==
  Rights :> {Rights} @@ (<<"near">> \o Rights) :> {Rights} @@ (Acme \o Rights) :> {Acme, Rights}
    @@ Code(Globex) :> {Globex} @@ Hrw :> {Hrw}
    @@ (<<"quote">> \o Jane \o <<"quote">>) :> {Jane} @@ Police :> {Police} @@ Shield :> {Shield}
    @@ Sea :> {Sea} @@ (<<"Aland", "(">> \o Shield \o <<")">>) :> {Shield}
=============================================================================
