------------------------------ MODULE Evaluation ------------------------------
(***************************************************************************)
(* The pure rules of evaluation.ts: which evaluation definitions fit a       *)
(* questionnaire, which answers fit a definition, and the profile they give. *)
(*                                                                         *)
(* The active questions of a questionnaire are a function from question ids *)
(* to records, a definition a function from question ids to rules, the      *)
(* mapping of a rule a function from option ids to values, and an answer    *)
(* sheet a function from question ids to answers.  Lists that name an id    *)
(* twice, which the code refuses, have therefore no representation here.    *)
(* An optional field of a rule is a set of at most one value.  A value says *)
(* in "is" which JSON value it is; a list of options is the set of them: the *)
(* code refuses repetitions and stores the list sorted.                     *)
(***************************************************************************)
EXTENDS Integers, FiniteSets

ChoiceTypes == {"single_choice", "multiple_choice"}
QuestionType == ChoiceTypes \cup {"text", "number", "boolean"}
InterestKinds == {"category_interest", "technology_interest"}
SkillLevel == {"beginner", "intermediate", "advanced"}

\* Defaults of maxLength and maxSelections.
DefaultLength == 2000
DefaultSelections == 100

\* A text is what is left of it after trimming, the length of that, and the
\* number of blanks around it.
Trim(text) == [text EXCEPT !.blanks = 0]

\* An optional limit, or its default.
Limit(field, default) == IF field = {} THEN default ELSE CHOOSE n \in field : TRUE

-----------------------------------------------------------------------------
\* A mapped value that a rule of this kind may give to an option.
ValidMapping(kind, v) ==
  \/ kind \in InterestKinds /\ v.is = "entry"
  \/ /\ kind = "goal"
     /\ v.is = "text"
     /\ v.text.size > 0
     /\ v.text.size + v.text.blanks <= DefaultLength
  \/ kind = "self_reported_skill" /\ \/ v.is = "null"
                                     \/ v.is = "level" /\ v.level \in SkillLevel

\* The body of the loop of validateDefinition.
ValidRule(question, rule) ==
  LET choice == question.type \in ChoiceTypes
      mapped == DOMAIN rule.options
  IN /\ choice => question.options # {}
     /\ \A low \in rule.min, high \in rule.max : low <= high
     /\ rule.min \cup rule.max # {} => question.type = "number"
     /\ rule.maxLength # {} => question.type = "text"
     /\ rule.maxSelections # {} => question.type = "multiple_choice"
     /\ ~choice \/ rule.kind = "none" => mapped = {}
     /\ rule.kind = "none" \/ choice \/ (rule.kind = "goal" /\ question.type = "text")
     /\ IF rule.kind = "self_reported_skill"
        THEN rule.technology # {} /\ question.type = "single_choice"
        ELSE rule.technology = {}
     /\ choice /\ rule.kind # "none" =>
          /\ mapped = question.options
          /\ \A o \in mapped : ValidMapping(rule.kind, rule.options[o])

SkillQuestions(rules) == {q \in DOMAIN rules : rules[q].kind = "self_reported_skill"}

\* Faulty variant: two questions may ask for the same skill.
ValidDefinitionSharingSkills(questions, rules) ==
  /\ DOMAIN questions # {}
  /\ DOMAIN rules = DOMAIN questions
  /\ \A q \in DOMAIN rules : ValidRule(questions[q], rules[q])

\* validateDefinition: one rule per active question, each of them valid, and
\* one skill question per technology.
ValidDefinition(questions, rules) ==
  /\ DOMAIN questions # {}
  /\ DOMAIN rules = DOMAIN questions
  /\ \A q \in DOMAIN rules : ValidRule(questions[q], rules[q])
  /\ \A p, q \in SkillQuestions(rules) :
       rules[p].technology = rules[q].technology => p = q

\* The mapped values of the rules of one kind.
MappedValues(rules, kind) ==
  UNION {{rules[q].options[o] : o \in DOMAIN rules[q].options} :
           q \in {r \in DOMAIN rules : rules[r].kind = kind}}

\* taxonomyReferences: the catalog entries a definition names.
TaxonomyReferences(rules) ==
  [category |-> {v.entry : v \in MappedValues(rules, "category_interest")},
   technology |-> {v.entry : v \in MappedValues(rules, "technology_interest")}
                    \cup UNION {rules[q].technology : q \in DOMAIN rules}]

-----------------------------------------------------------------------------
\* normalizeAnswer: the answers it accepts ...
Accepted(question, rule, v) ==
  \/ /\ question.type = "single_choice"
     /\ v.is = "option"
     /\ v.chosen \subseteq question.options
  \/ /\ question.type = "multiple_choice"
     /\ v.is = "options"
     /\ v.chosen # {}
     /\ v.chosen \subseteq question.options
     /\ Cardinality(v.chosen) <= Limit(rule.maxSelections, DefaultSelections)
  \/ /\ question.type = "text"
     /\ v.is = "text"
     /\ v.text.size \in 1 .. Limit(rule.maxLength, DefaultLength)
  \/ /\ question.type = "number"
     /\ v.is = "number"
     /\ \A low \in rule.min : v.number >= low
     /\ \A high \in rule.max : v.number <= high
  \/ question.type = "boolean" /\ v.is = "boolean"

\* ... and what it returns for them.
Normal(v) == IF v.is = "text" THEN [v EXCEPT !.text = Trim(v.text)] ELSE v

NormalSheet(sheet) == [q \in DOMAIN sheet |-> Normal(sheet[q])]

\* The sheets evaluate does not refuse: answers to active questions only, each
\* of them accepted, and one to every required question.
AcceptedSheet(questions, rules, sheet) ==
  /\ DOMAIN sheet \subseteq DOMAIN questions
  /\ \A q \in DOMAIN questions :
       IF q \in DOMAIN sheet THEN Accepted(questions[q], rules[q], sheet[q])
       ELSE ~rules[q].required

\* The options an answer chooses in a rule that maps them.
Chosen(rules, sheet, q) ==
  IF rules[q].kind # "none" /\ sheet[q].is \in {"option", "options"}
  THEN sheet[q].chosen ELSE {}

\* The mapped values of the chosen options, over all rules of one kind.
ChosenValues(rules, sheet, kind) ==
  UNION {{rules[q].options[o] : o \in Chosen(rules, sheet, q)} :
           q \in {r \in DOMAIN sheet : rules[r].kind = kind}}

\* The skills of a profile.  One that was not answered is unknown, as is one
\* whose answer is mapped to null.
Skills(rules, sheet) ==
  UNION {{[technology |-> t, level |-> v] :
            t \in rules[q].technology,
            v \in IF q \in DOMAIN sheet
                  THEN {rules[q].options[o] : o \in Chosen(rules, sheet, q)}
                  ELSE {[is |-> "null"]}} : q \in SkillQuestions(rules)}

\* evaluate: the profile of an accepted, normalised sheet.
Profile(rules, sheet) ==
  LET categories == {v.entry : v \in ChosenValues(rules, sheet, "category_interest")}
      technologies == {v.entry : v \in ChosenValues(rules, sheet, "technology_interest")}
      goals == {Trim(v.text) : v \in ChosenValues(rules, sheet, "goal")}
                 \cup {sheet[q].text : q \in {r \in DOMAIN sheet :
                         rules[r].kind = "goal" /\ sheet[r].is = "text"}}
  IN [categories |-> categories, technologies |-> technologies, goals |-> goals,
      skills |-> Skills(rules, sheet),
      readyForGeneration |-> categories \cup technologies # {} /\ goals # {}]
=============================================================================
