\* Two signatures and every record that can be made of them.
CHECK_DEADLOCK FALSE
CONSTANTS
  k1 = k1
  k2 = k2
  k3 = k3
  m1 = m1
  m2 = m2
  l1 = l1
  l2 = l2
  Key = {k1, k2, k3}
  MlDsaKey = {m1, m2}
  List = {l1, l2}
  Wire <- Wires
  MaxCommittee = 3
  MaxU32 = 1
  MaxSignatures = 2
SPECIFICATION Spec
INVARIANTS
  TypeOK
  QuorumSigned
  OneListPerVersion
  QuorumSuffices
