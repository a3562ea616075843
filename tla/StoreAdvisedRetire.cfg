SPECIFICATION Spec
CONSTANTS
  Ids = {i1, i2, i3, i4}
  None = None
  Torn = Torn
  Platform = "unix"
  Faults = {"io"}
  DirPreexists = FALSE
  Discipline = "advised"
SYMMETRY IdSymmetry
INVARIANTS
  IdentityNotLost
