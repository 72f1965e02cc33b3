\* Every fault: killed processes, failed writes, power losses, lost files.
CONSTANTS
  p1 = p1
  p2 = p2
  Proc = {p1, p2}
  NoProc = NoProc
  MaxVersion = 3
  FileLoss = TRUE
SYMMETRY Symmetry
SPECIFICATION Spec
INVARIANTS
  TypeOK
  AcceptedIsDurable
  MarkIsAuthentic
PROPERTY AcceptsInOrder
