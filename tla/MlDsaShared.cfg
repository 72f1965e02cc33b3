\* Two aggregators publish at the same time and nothing else goes wrong.
CONSTANTS
  m1 = m1
  m2 = m2
  m3 = m3
  i1 = i1
  f1 = f1
  f2 = f2
  f3 = f3
  f4 = f4
  Member = {m1, m2, m3}
  Aggregator = {m1, m2}
  Threshold = 2
  MaxVersion = 2
  CredentialId = {i1}
  Inode = {f1, f2, f3, f4}
  NoFile = NoFile
  Faults = {}
SYMMETRY Symmetry
SPECIFICATION Spec
INVARIANT PublicationIsAtomic
