CONSTANTS
  N = 3
  SecLives <- MCSecLives
  CreateOutcomes <- AnyOutcome
SPECIFICATION FairSpec
INVARIANTS
  TypeOK
  NoUseAfterDestroy
  JobComplete
  NoPassDuringSetup
PROPERTIES
  ForkJoinSpec
  Terminates
