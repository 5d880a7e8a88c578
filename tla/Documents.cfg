SPECIFICATION Spec
CONSTANTS
  DocIds = {d1, d2}
  ItemIds = {i1}
  Requests = {r1, r2, r3}
SYMMETRY Symmetry
INVARIANTS
  TypeOK
  StoredDocumentHasItsFile
  OrphanFilesExplained
  DocumentDeletedOnce
  LinkedOnce
  LinkedListIsComplete
PROPERTY DeletedItemLosesItsLinks
CHECK_DEADLOCK FALSE
