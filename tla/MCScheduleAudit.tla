-------------------------- MODULE MCScheduleAudit --------------------------
(* An instance of ScheduleAudit for TLC: two States, a document with one   *)
(* actor value of every shape the grammar tells apart, and a second one    *)
(* that every overlay has entries for.                                     *)
EXTENDS ScheduleAudit

Human == <<"Human", "Rights", "Watch">>
Hrw == <<"HRW">>
Jane == <<"Jane", "Doe">>
John == <<"John", "Roe">>
Globex == <<"Globex">>
Police == <<"National", "Police", "of", "Aland">>
ShortPolice == <<"National", "Police">>
Shield == <<"Operation", "Shield">>
Guard == <<"Border", "Guard", "Service">>

Marks == {",", "&", "/", ";", "(", ")", "."}
Vocabulary ==
  UNION {ToSet(n) : n \in {Human, Hrw, Jane, John, Globex, Police, Shield, Guard}} \cup Marks
    \cup {"Bland", "and", "or", "only", "assisted by", "in an", "advisory", "capacity", "ABC", "XY",
          "remains", "deferred", "near", "prose"}

MCFold == [t \in Vocabulary |-> IF t \in Marks THEN "" ELSE t]
MCSize == [w \in Vocabulary \cup {""} |->
  CASE w \in {"HRW", "ABC", "Doe", "Roe"} -> 3 [] w \in {"XY", "of"} -> 2
    [] w \in {"Jane", "John"} -> 4 [] w = "Globex" -> 6 [] w = "National" -> 8 [] OTHER -> 5]

Capitals == UNION {ToSet(n) : n \in {Human, Hrw, Jane, John, Globex, Police, Shield, Guard}} \ {"of"}
Tagged(t) ==
  CASE t \in {"HRW", "ABC"} -> {"caps", "acronym", "short"}
    [] t = "XY" -> {"caps", "short"}
    [] t \in {"Police", "Service"} -> {"role", "stop"}
    [] t \in {"National", "Border"} -> {"stop", "context"}
    [] t = "Operation" -> {"object", "stop"}
    [] t = "of" -> {"prep"}
    [] t = "and" -> {"list", "relation"}
    [] t = "&" -> {"list"}
    [] t = "," -> {"list", "comma"}
    [] t = "or" -> {"alt", "relation"}
    [] t = "/" -> {"strong", "slash"}
    [] t = ";" -> {"strong"}
    [] t = "(" -> {"open"}
    [] t = ")" -> {"close"}
    [] t = "only" -> {"only", "capacity", "split"}
    [] t = "in an" -> {"capacity"}
    [] t = "assisted by" -> {"relation"}
    [] t = "remains" -> {"bridge"}
    [] t = "deferred" -> {"defer"}
    [] OTHER -> {}
MCClass == [t \in Vocabulary |->
  Tagged(t) \cup (IF t \in Capitals \cup {"ABC", "XY", "Bland"} THEN {"upper"} ELSE {})
            \cup (IF t \in Marks THEN {} ELSE {"ascii"})]

MCDeferral == <<"remains", "deferred", ".">>

-----------------------------------------------------------------------------
Entity(id, type, name, aliases) ==
  [file |-> id, id |-> id, type |-> type, name |-> name, aliases |-> aliases, dossier |-> "dossiers"]

MCIdKind == [STATE_AAA |-> "STATE", STATE_BBB |-> "STATE", ORG_HRW |-> "ORG", ORG_POLICE |-> "ORG",
             AGENCY_AAA_POLICE |-> "AGENCY", AGENCY_BBB_POLICE |-> "AGENCY", PERSON_JANE |-> "PERSON",
             ORG_GLOBEX |-> "ORG", ORG_JANE |-> "ORG", PROJECT_AAA_SHIELD |-> "PROJECT",
             AGENCY_AAA_NATIONAL |-> "AGENCY"]
MCIdToken == [STATE_AAA |-> "AAA", STATE_BBB |-> "BBB", ORG_HRW |-> "HRW", ORG_POLICE |-> "POLICE",
              AGENCY_AAA_POLICE |-> "AAA", AGENCY_BBB_POLICE |-> "BBB", PERSON_JANE |-> "JANE",
              ORG_GLOBEX |-> "GLOBEX", ORG_JANE |-> "JANE", PROJECT_AAA_SHIELD |-> "AAA",
              AGENCY_AAA_NATIONAL |-> "AAA"]

Base ==
  {Entity("STATE_AAA", "State", <<"Aland">>, {}), Entity("STATE_BBB", "State", <<"Bland">>, {}),
   Entity("AGENCY_AAA_POLICE", "Agency", Police, {}),
   Entity("PROJECT_AAA_SHIELD", "Project", Shield, {})}

MCRegistrable ==
  {Entity("ORG_HRW", "Organization", Human, {Hrw}),
   Entity("PERSON_JANE", "Person", Jane, {}),
   Entity("ORG_GLOBEX", "Organization", Globex, {}),
   Entity("ORG_POLICE", "Organization", ShortPolice, {}),
   Entity("AGENCY_AAA_NATIONAL", "Agency", <<"National", "Service">>, {ShortPolice}),
   Entity("AGENCY_BBB_POLICE", "Agency", ShortPolice, {})}

MCSuccessions == {[from |-> "AGENCY_AAA_POLICE", to |-> "AGENCY_AAA_NATIONAL"]}

-----------------------------------------------------------------------------
(* Values. A pair of names, a separator, and a capacity behind them.       *)
Advisory == <<"(", "in an", "advisory", "capacity", ")">>
Pairs ==
  ({<<Human, Jane>>} \X {<<"and">>, <<",">>, <<"/">>, <<"or">>, <<";">>, <<"&">>})
    \cup ({<<Hrw, Globex>>, <<Jane, John>>} \X {<<"and">>, <<"or">>})
    \cup ({<<Globex, Jane>>} \X {<<"or">>, <<"/">>})
Values ==
  {[text |-> q[1][1] \o q[2] \o q[1][2], names |-> {q[1][1], q[1][2]}] : q \in Pairs}
    \cup {[text |-> p[1] \o Advisory \o s \o p[2], names |-> {p[1], p[2]}] :
            p \in {<<Jane, John>>, <<Hrw, Jane>>}, s \in {<<"and">>, <<"or">>}}
    \cup {[text |-> p[1] \o <<",", "only", "assisted by">> \o p[2] \o s \o p[3],
           names |-> {p[1], p[2], p[3]}] :
            p \in {<<Hrw, Jane, Globex>>}, s \in {<<"and">>, <<",">>, <<"/">>}}
    \cup {[text |-> n, names |-> {n}] : n \in {Hrw, Jane, Globex, Police}}

Cross == Shield \o <<",", "only", "near">> \o Police
Context == <<"prose", "near">> \o Guard
Cluster == <<"ABC", "/", "XY">>

MCIdentities ==
  [t \in {v.text : v \in Values} |-> (CHOOSE v \in Values : v.text = t).names]
    @@ Cross :> {Shield, Police}

Leaf(field, value) == [path |-> <<field>>, value |-> value]
ActorDocument(text) ==
  [multi |-> FALSE, root |-> {},
   records |-> << [state |-> "AAA", leaves |-> {Leaf("entity", << <<"Aland">> >>),
                                                Leaf("identified_parties", <<text>>)}] >>]
OtherDocument ==
  [multi |-> TRUE, root |-> {Leaf("basis", << <<"prose">> >>)},
   records |-> << [state |-> "AAA",
                   leaves |-> {Leaf("identified_projects", <<Cross>>),
                               Leaf("exclusions", <<Context, Cluster>>)}] >>]

Mention(field, raw, surface) ==
  [source |-> "b", state |-> "AAA", index |-> 1, field |-> field, raw |-> raw, surface |-> surface]
Pins == "b" :> OtherDocument
NoFields == [f \in LinkFields |-> {}]

Checkout(text) ==
  [entities |-> Base, supers |-> <<>>, links |-> NoFields,
   docs |-> "a" :> ActorDocument(text) @@ "b" :> OtherDocument,
   manifests |-> 1 :> [version |-> 1, follows |-> 0, blobs |-> Pins, entries |->
     << [source |-> "b", state |-> "AAA", field |-> "identified_projects", prefix |-> Shield,
         disposition |-> "bound", ids |-> {"PROJECT_AAA_SHIELD"}, coverage |-> {},
         reason |-> MCDeferral] >>],
   cross |-> [blobs |-> Pins, entries |->
     {Mention("identified_projects", Cross, Shield) @@ [ids |-> {"AGENCY_AAA_POLICE"}]}],
   residual |-> [blobs |-> Pins, entries |->
     {[Mention(<<"exclusions">>, Context, Guard) EXCEPT !.index = 1]
        @@ [disposition |-> "deferred", ids |-> {}]}],
   short |-> [blobs |-> Pins, entries |->
     {Mention(<<"exclusions">>, Cluster, <<"ABC">>), Mention(<<"exclusions">>, Cluster, <<"XY">>)}]]

MCCheckouts == {Checkout(v.text) : v \in Values}
(* The other versions of a document: another value, the same value beside  *)
(* other prose, another document root.                                     *)
Noted(doc) == [doc EXCEPT !.records[1].leaves = @ \cup {Leaf("notes", << <<"prose">> >>)}]
MCVersions ==
  "a" :> {ActorDocument(Hrw \o <<"and">> \o Globex), Noted(ActorDocument(Jane \o <<"or">> \o John))}
    @@ "b" :> {[OtherDocument EXCEPT !.root = {}]}

MCReferential == {"identified_suspect"}
MCNotText == <<"#">>
=============================================================================
