--------------------------- MODULE MCScheduleGate ---------------------------
(* An instance of ScheduleGate for TLC: one content of each kind that the  *)
(* renderer tells apart, for each file it reads.                           *)
EXTENDS ScheduleGate, TLC

Old == "ECL-0.2"

Entry(iso, class) == [iso |-> iso, class |-> class]
Rec(state, status, identity, party) ==
  [state |-> state, status |-> status, identity |-> identity, party |-> party,
   project |-> Absent]
Item(id, status, identified) == [id |-> id, status |-> status, identified |-> identified]

R1 == [license |-> Target, entries |-> <<Entry("AAA", TRUE), Entry("CCC", FALSE),
                                         Entry("ZZZ", FALSE)>>]
R2 == [R1 EXCEPT !.license = Old]
R3 == [license |-> Target, entries |-> <<Entry("AAA", TRUE), Entry("AAA", TRUE)>>]

O1 == [license |-> Target,
       organizations |-> <<Item("o1", "ready", TRUE),
                           Item("o2", "ready-by-project-reference", FALSE),
                           Item(Absent, "ready", TRUE)>>]
G1 == [license |-> Target, organizations |-> <<Item("o1", "ready", TRUE)>>]
G2 == [license |-> Target, organizations |-> <<Item(Absent, "ready", TRUE)>>]
P1 == [license |-> Target,
       projects |-> <<Item("p1", "ready", TRUE), Item("p2", "draft", FALSE)>>]
P2 == [license |-> Target, projects |-> <<Item("p1", "ready", FALSE)>>]

S1 == [license |-> Target,
       records |-> <<Rec("BBB", "ready", "x", Absent), Rec("BBB", "draft", Absent, Absent)>>]
S2 == [license |-> Target] @@ Rec("BBB", "ready", Absent, "y")
S3 == [license |-> Target,
       records |-> <<Rec("CCC", "ready", Absent, Absent),
                     Rec("BBB", "ready-by-project-reference", Absent, Absent)>>]

Base(r, s, u, n) == [o \in {"R", "S", "U", "N"} |->
                       CASE o = "R" -> r [] o = "S" -> s [] o = "U" -> u [] o = "N" -> n]
B1 == Base({"AAA", "BBB"}, {"BBB"}, {"CCC"}, {})
B2 == Base({"AAA"}, {}, {"BBB"}, {"CCC"})

MCMenu == [p \in {"r", "org", "armed", "projects", "s1", "s2", "o1", "o2", "states",
                  "status", "requirements", "impl", "wrapper"} |->
  CASE p = "r"            -> {R1, R2, R3}
    [] p = "org"          -> {O1}
    [] p = "armed"        -> {Absent, G1, G2}
    [] p = "projects"     -> {P1, P2}
    [] p = "s1"           -> {S1, S2}
    [] p = "s2"           -> {Absent, S3}
    [] p = "o1"           -> {Absent, "BBB" :> "N" @@ "CCC" :> "S"}
    [] p = "o2"           -> {Absent, "BBB" :> "S", "CCC" :> Absent}
    [] p = "states"       -> {B1, B2}
    [] p = "status"       -> {Absent, {"BBB"}}
    [] p = "requirements" -> {"6.0.3", "5.1"}
    [] p \in {"impl", "wrapper"} -> {"v1", "v2"}]

First == [p \in DOMAIN MCMenu |->
  CASE p = "r" -> R1 [] p = "org" -> O1 [] p = "projects" -> P1 [] p = "s1" -> S1
    [] p = "states" -> B1 [] p = "requirements" -> "6.0.3"
    [] p \in {"impl", "wrapper"} -> "v1" [] OTHER -> Absent]

(* The second checkout has every optional file.                            *)
MCCheckouts == { First,
  [First EXCEPT !["s2"] = S3, !["o1"] = "BBB" :> "N" @@ "CCC" :> "S",
                !["o2"] = "BBB" :> "S", !["status"] = {"CCC"}] }

Line(key, keyNode, tag, node, text) ==
  [key |-> key, keyTag |-> "str", keyNode |-> keyNode, tag |-> tag, node |-> node,
   text |-> text]

Honest == << Line("reviewer", 1, "str", 2, "named"),
             Line("reviewed_at", 3, "timestamp", 4, "timestamp-with-zone"),
             Line("conclusion", 5, "str", 6, "compatible") >>

MCYaml ==
  { Honest,
    [Honest EXCEPT ![2].text = "timestamp-without-zone"],
    [Honest EXCEPT ![1].text = "blank"],
    [Honest EXCEPT ![3].text = "incompatible"],
    [Honest EXCEPT ![3].tag = "custom"],
    [Honest EXCEPT ![3].node = 2],
    <<Line("conclusion", 7, "str", 8, "incompatible")>> \o Honest,
    Honest \o <<Line("<<", 7, "str", 8, "merged")>> }

Launch ==
  [isolated |-> TRUE, noSite |-> TRUE, main |-> TRUE, alias |-> "none",
   sentinels |-> TRUE, parser |-> "6.0.3", root |-> <<"work", "ecl">>,
   path |-> << <<"/", "usr", "lib">>, <<"/", "usr", "..", "work", "ecl">>, <<"tools">> >>,
   trusted |-> { <<"usr">> }, shadowed |-> FALSE]

(* As CI starts it, from a test, without -S, through a link, and with an   *)
(* interpreter inside the checkout.                                        *)
MCLaunches ==
  { Launch,
    [Launch EXCEPT !.main = FALSE, !.noSite = FALSE],
    [Launch EXCEPT !.noSite = FALSE],
    [Launch EXCEPT !.alias = "symlink"],
    [Launch EXCEPT !.trusted = { <<"usr">>, <<"work", "ecl", "venv">> },
                   !.path = << <<"/", "work", "ecl", "venv">> >>, !.shadowed = TRUE] }

MCSFreezes == <<"s1", "s2">>
MCOverlays == <<"o1", "o2">>
=============================================================================
