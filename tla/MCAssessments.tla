---------------------------- MODULE MCAssessments -----------------------------
(* Model-checking instance of Assessments: question 1 has two options and asks *)
(* for an interest or a skill, question 2 for a goal in words, and question 3   *)
(* is inactive and asks for a skill.                                          *)
EXTENDS Assessments, TLC

Text(body, size, blanks) == [body |-> body, size |-> size, blanks |-> blanks]
Entry(e) == [is |-> "entry", entry |-> e]
Null == [is |-> "null"]
Level(l) == [is |-> "level", level |-> l]
Choice(o) == [is |-> "option", chosen |-> {o}]
Several(os) == [is |-> "options", chosen |-> os]
Words(t) == [is |-> "text", text |-> t]

MCQuestions ==
  [q \in 1 .. 3 |->
     [type |-> <<"single_choice", "text", "single_choice">>[q],
      isActive |-> q # 3,
      options |-> <<{11, 12}, {}, {31}>>[q]]]

Rule(kind, required, technology, options) ==
  [kind |-> kind, required |-> required, technology |-> technology,
   min |-> {}, max |-> {}, maxLength |-> {}, maxSelections |-> {}, options |-> options]

Goal == Rule("goal", TRUE, {}, << >>)
Area == Rule("category_interest", FALSE, {}, 11 :> Entry("c1") @@ 12 :> Entry("c1"))
Tool == Rule("technology_interest", TRUE, {}, 11 :> Entry("t1") @@ 12 :> Entry("t1"))
Skill == Rule("self_reported_skill", FALSE, {"t1"}, 11 :> Null @@ 12 :> Level("beginner"))
OtherSkill == Rule("self_reported_skill", FALSE, {"t1"}, 31 :> Level("advanced"))

MCDefinitions ==
  {1 :> Area @@ 2 :> Goal,
   1 :> Tool @@ 2 :> Goal,
   1 :> Skill @@ 2 :> [Goal EXCEPT !.maxLength = {3}],
   1 :> Skill @@ 2 :> Goal @@ 3 :> OtherSkill}

MCSheets ==
  {1 :> Choice(12) @@ 2 :> Words(Text("api", 3, 1)),
   1 :> Several({11, 12}) @@ 2 :> Words(Text("web services", 12, 0)),
   2 :> Words(Text("api", 3, 0)),
   1 :> Choice(12) @@ 2 :> Words(Text("api", 3, 1)) @@ 3 :> Choice(31)}

MCEntries == [category |-> {"c1"}, technology |-> {"t1"}]
Symmetry == Permutations(Tx) \cup Permutations(Wordings)
=============================================================================
