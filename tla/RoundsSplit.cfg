\* Two aggregators split a 3-of-4 committee although nothing goes wrong.
CONSTANTS
  m1 = m1
  m2 = m2
  m3 = m3
  m4 = m4
  i1 = i1
  Member = {m1, m2, m3, m4}
  Aggregator = {m1, m2}
  NoAggregator = NoAggregator
  Threshold = 3
  KeyLast = 0
  MaxVersion = 0
  MaxInFlight = 8
  CredentialId = {i1}
  Faults = {}
SPECIFICATION FairSpec
PROPERTY QuorumProceeds
CHECK_DEADLOCK FALSE
