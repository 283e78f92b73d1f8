CONSTANTS
  p = p
  q = q
  Procs = {p}
  Cooldown = 1
  MaxVersion = 3
  MaxNow = 1
SPECIFICATION Spec
INVARIANT StampHealed
