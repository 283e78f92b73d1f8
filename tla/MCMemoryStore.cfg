CONSTANTS
  RoomNames = {"rg", "rg-b"}
  ObjectsIn <- MCObjectsIn
  Labels <- MCLabels
  CutsOf <- MCCutsOf
  Note = "note"
  Notes <- MCNotes
  MaxNotes = 1
  MaxClock = 7
  Retrieved <- MCRetrieved
  MaxText = 3
  MaxSaves = 3
  ProbeLength = 3
  None = None
SPECIFICATION StoreSpec
CHECK_DEADLOCK FALSE
INVARIANTS
  CountersSound
  GraphSound
  SnapshotRestored
  SecretsStayOut
  ScrubSound
