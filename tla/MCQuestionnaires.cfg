SPECIFICATION QuestionnairesSpec
CONSTANTS
  Questions <- MCQuestions
  Options = {"o1", "o2"}
  Unset = unset
  RuleSets <- MCRuleSets
  Forms <- MCForms
  Tasks = {t1, t2}
  MaxEdits = 3
SYMMETRY Symmetry
\* The bound on the edits ends every behaviour.
CHECK_DEADLOCK FALSE
INVARIANTS
  SerialEditsKeepRules
  ServedQuestionsReachable
