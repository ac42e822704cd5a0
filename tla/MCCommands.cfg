SPECIFICATION Spec
CONSTANTS
  p1 = p1
  p2 = p2
  Procs <- TwoProcesses
  ServiceCount = 1
SYMMETRY Symmetry
INVARIANTS
  TypeOK
  CleanupMeansInstalled
  FlagTruthful
  NoStrayProxy
PROPERTIES
  DamageIsKept
