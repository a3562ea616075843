SPECIFICATION ReadersSpec
CONSTANTS
  Ids = {i1, i2, i3, i4}
  None = None
  Torn = Torn
  Platform = "unix"
  Faults = {"crash", "io"}
  DirPreexists = FALSE
  Discipline = "converged"
  Readers = {r1}
SYMMETRY IdSymmetry
INVARIANTS
  ReadersTypeOK
  OverlapSurvives
  LoadIsAtomic
  AbsentIsTrue
PROPERTIES
  NoSilentRemint
