\* One aggregator, interrupted and failing anywhere.
CONSTANTS
  m1 = m1
  m2 = m2
  m3 = m3
  i1 = i1
  f1 = f1
  f2 = f2
  f3 = f3
  f4 = f4
  Member = {m1, m2, m3}
  Aggregator = {m1}
  Threshold = 2
  MaxVersion = 3
  CredentialId = {i1}
  Inode = {f1, f2, f3, f4}
  NoFile = NoFile
  Faults = {"restart", "error"}
SYMMETRY Symmetry
SPECIFICATION Spec
INVARIANTS
  TypeOK
  PublicationIsAtomic
PROPERTY ImplementsRegistry
CHECK_DEADLOCK FALSE
