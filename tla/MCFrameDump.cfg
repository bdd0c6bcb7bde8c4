CONSTANTS
  f1 = f1
  f2 = f2
  Other = Other
  Free = Free
  Files <- MCFiles
  Outputs <- MCOutputs
  Descriptors <- MCDescriptors
  Frames <- MCFrames
  Rows = 4
SPECIFICATION DumpSpec
INVARIANTS
  OpenIsOwned
  LeaksExplained
  DumpIsLuma
