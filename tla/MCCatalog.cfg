SPECIFICATION Spec
CONSTANTS
  Courses = {c1, c2, c3}
  Entries = {e1}
SYMMETRY Symmetry
INVARIANTS
  TypeOK
  PrerequisitesAcyclic
  PublishedClosed
  PublishedComplete
  NoDanglingReference
  PublishedSelectable
