SPECIFICATION Spec
CONSTANTS
  Ids = {i1, i2, i3, i4}
  None = None
  Torn = Torn
  Platform = "windows"
  Faults = {"crash", "io"}
  DirPreexists = FALSE
  Discipline = "converged"
SYMMETRY IdSymmetry
INVARIANTS
  TypeOK
  IdentityNotLost
  RetiredKeyErased
PROPERTIES
  ChangeKeepsPrevious
  ImplementsIdentityStore
