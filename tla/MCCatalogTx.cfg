SPECIFICATION TxSpec
CONSTANTS
  Courses = {c1, c2}
  Entries = {e1}
  Tx = {t1, t2}
  NoTx = NoTx
SYMMETRY Symmetry
INVARIANTS
  TxTypeOK
  LoadedStillCurrent
PROPERTIES
  ImplementsCatalog
