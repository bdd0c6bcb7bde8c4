CONSTANTS
  Cpus <- MCCpus
  Names <- MCNames
  File <- MCFile
  Argvs <- MCArgvs
SPECIFICATION Spec
INVARIANTS
  TypeOK
  PinnedAsNamed
  CollectedExact
