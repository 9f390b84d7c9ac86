-------------------------- MODULE MCQuestionnaires --------------------------
(* Model-checking instance of Questionnaires: up to three questions and two    *)
(* options; the questionnaire starts with one or two choice questions, or with  *)
(* a condition on an inactive question, as racing edits may leave it.          *)
EXTENDS Questionnaires, TLC

MCQuestions == 1 .. 3

Plain == [maxSelections |-> FALSE, allowDetails |-> FALSE, showWhen |-> Unset]

MCRuleSets ==
  {Plain, [Plain EXCEPT !.maxSelections = TRUE], [Plain EXCEPT !.allowDetails = TRUE]}
  \cup {[Plain EXCEPT !.showWhen = <<q, o>>] : q \in 1 .. 2, o \in {"o1"}}

Choice == [type |-> "single_choice", active |-> TRUE, rules |-> Plain]

MCForms ==
  {[active |-> TRUE, question |-> <<Choice, Unset, Unset>>, options |-> <<{"o1"}, {}, {}>>],
   [active |-> TRUE, question |-> <<Choice, Choice, Unset>>, options |-> <<{"o1"}, {"o2"}, {}>>],
   [active |-> TRUE, options |-> <<{"o1"}, {"o2"}, {}>>,
    question |-> <<[Choice EXCEPT !.active = FALSE],
                   [Choice EXCEPT !.rules.showWhen = <<1, "o1">>], Unset>>]}

Symmetry == Permutations(Tasks)
=============================================================================
