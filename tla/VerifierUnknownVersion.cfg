SPECIFICATION Spec
CONSTANTS
  s1 = s1
  s2 = s2
  k1 = k1
  k2 = k2
  bad = bad
  Spkis = {s1, s2}
  BlsKeys = {k1, k2}
  BadPoints = {bad}
  NoBls = NoBls
  NoPeer = NoPeer
  NoLeaf = NoLeaf
  Leaves <- MCLeaves
  Conns = {c1}
  Schedules = {"alone"}
  Resumption = FALSE
SYMMETRY ConnSymmetry
CHECK_DEADLOCK FALSE
INVARIANTS
  UnknownVersionIsAbsent
