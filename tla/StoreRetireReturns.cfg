SPECIFICATION Spec
CONSTANTS
  Ids = {i1, i2, i3, i4}
  None = None
  Torn = Torn
  Platform = "unix"
  Faults = {"power"}
  DirPreexists = TRUE
  Discipline = "converged"
SYMMETRY IdSymmetry
INVARIANTS
  RetiredStaysRetired
