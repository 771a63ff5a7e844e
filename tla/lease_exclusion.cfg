SPECIFICATION Spec
CONSTANTS
  a = a
  b = b
  c = c
  Procs <- Three
  Faults <- AllFaults
  MaxAcquires = 4
  MaxWrites = 3
SYMMETRY Perms
INVARIANTS
  TypeOK
  MutualExclusion
  LeaseIsKept
PROPERTIES
  AdmittedOnKnownContent
CHECK_DEADLOCK FALSE
