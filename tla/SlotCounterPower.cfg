\* Power losses that tear records and undo renames; processes end only when synced.
CONSTANTS
  p1 = p1
  p2 = p2
  Proc = {p1, p2}
  NoProc = NoProc
  SlotStart = 1
  SlotEnd = 4
  MaxU32 = 4
  MaxGeneration = 9
  ProcessDeath = FALSE
  TornRecords = TRUE
  LostRenames = TRUE
SYMMETRY Symmetry
SPECIFICATION Spec
INVARIANTS
  TypeOK
  NoSlotReuse
  Recoverable
PROPERTIES
  RefusedStateUntouched
  ImplementsOneTimeSlots
