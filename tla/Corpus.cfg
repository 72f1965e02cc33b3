\* 2-of-3 committees, the tightest key window, one or two updates; three programs,
\* killed anywhere.
CHECK_DEADLOCK FALSE
CONSTANTS
  Size = 3
  T = 2
  Genesis = 1
  KeySlots = 4
  Updates = {1, 2}
  Quorum <- Spread
  ListEntries = {2}
  Used <- Schedule
  Kills = {"write", "clear"}
  MaxRuns = 3
SPECIFICATION Spec
INVARIANTS
  TypeOK
  NoSlotTwice
  ControlsIsolated
  PassMeansComplete
  CompletePasses
