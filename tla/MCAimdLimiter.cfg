CONSTANTS
  Threads = {t1, t2, t3, t4, t5}
  MaxCeiling = 4
  SuccessesPerIncrease = 2
SPECIFICATION Spec
INVARIANTS
  TypeOK
  PermitAccounting
  NoIdleSlot
PROPERTIES
  ImplementsPool
