CONSTANTS
  p = p
  q = q
  Procs = {p, q}
  Cooldown = 1
  MaxVersion = 3
  MaxNow = 2
SYMMETRY Symmetry
SPECIFICATION Spec
INVARIANTS
  ExeSound
  FilesWhole
  StampTrue
PROPERTIES
  RollbackOnlyWhenOvertaken
  OncePerCooldown
