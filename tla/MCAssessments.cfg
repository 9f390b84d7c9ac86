SPECIFICATION Spec
CONSTANTS
  Students = {s1}
  Tx = {x1, x2}
  NoTx = NoTx
  InitialQuestions <- MCQuestions
  NewQuestions = {4}
  NewOptions = {41}
  EditTypes = {"multiple_choice"}
  Wordings = {w1, w2}
  Entries <- MCEntries
  Definitions <- MCDefinitions
  Sheets <- MCSheets
  MaxEdits = 1
  MaxVersion = 2
  MaxAssessments = 2
SYMMETRY Symmetry
INVARIANTS
  TypeOK
  ProfileMatchesFormShown
  VersionNamesOneDefinition
  NamedEntriesExist
  OneLevelPerSkill
PROPERTIES
  ConfigurationsNeverLost
