CONSTANTS
  MaxRooms = 3
  MaxResourceRooms = 2
  DarkPeriod = 3
  CostUnit = 100
  Unset = Unset
  Invalid = Invalid
  Unavailable = Unavailable
  None = None
  Launches <- MCLaunches
  PrefixesOf <- MCPrefixesOf
  Words = {"storage", "storage-000", "storage-logs", "sql", "orphan"}
SPECIFICATION Spec
CHECK_DEADLOCK FALSE
INVARIANTS
  EstateSound
  EachInOnePlace
  GrueWarnsFirst
  ReportsAgree
PROPERTIES
  DeletedUnlockedInLight
