SPECIFICATION ClientsSpec
CONSTANTS
  Courses <- MCCourses
  Entries = {"e1", "e2"}
  NoHolder = nobody
  Holders = {g1, import}
  Requests = {g1}
  Importer = import
  Profiles <- MCProfiles
  Answers <- MCAnswers
  MaxCandidateCourses = 2
  MaxRoadmapCourses = 2
  CustomServer = TRUE
  Sources = {"s1", "s2", "s3"}
  Elsewhere = "none"
  NoCourse = 0
  Files <- MCFiles
  InitialTechnologies = {"e1"}
  MaxImports = 1
  Catalogs <- MCCatalogs
  EditedTags <- MCEditedTags
  MaxWrites = 1
\* Requests are answered once, and the bounds end administrators and imports.
CHECK_DEADLOCK FALSE
INVARIANTS
  CatalogRulesHold
  PlanIsSelection
  CandidatesAnswerable
  ImportOnlyCompletes
  PlanNeverOverpromises
PROPERTIES
  EveryRequestEnds
