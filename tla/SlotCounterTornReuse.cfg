\* A process death followed by a power loss that tears a record.
CONSTANTS
  p1 = p1
  p2 = p2
  Proc = {p1, p2}
  NoProc = NoProc
  SlotStart = 1
  SlotEnd = 4
  MaxU32 = 4
  MaxGeneration = 9
  ProcessDeath = TRUE
  TornRecords = TRUE
  LostRenames = FALSE
SYMMETRY Symmetry
SPECIFICATION Spec
INVARIANT NoSlotReuse
