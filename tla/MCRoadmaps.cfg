SPECIFICATION Spec
CONSTANTS
  Courses = {c1, c2}
  RoadmapIds = {r1}
  Handlers = {h1, h2}
  NoHandler = NoHandler
  Progress = {0, 100}
  MaxLists = 2
SYMMETRY Symmetry
INVARIANTS
  TypeOK
  CheckedSelectionStaysValid
  SavedListIsWhole
PROPERTIES
  ProgressLostOnlyToStaleLoad
  OnlyStaleRenameRevives
  ListsChangeOnRequest
