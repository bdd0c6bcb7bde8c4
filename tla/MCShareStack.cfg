CONSTANTS
  Modulus <- MCModulus
  Page = 4096
  Bases <- MCBases
  Requests <- MCRequests
  Depths <- MCDepths
SPECIFICATION Spec
INVARIANTS
  StackInside
  SavedIsRestorable
  AbortsOnlyOnOverflow
  CopyExact
  AllUnmapped
