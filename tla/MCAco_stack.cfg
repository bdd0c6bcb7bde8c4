CONSTANTS
  co1 = co1
  co2 = co2
  co3 = co3
  Main = Main
  NULL = NULL
  Handles <- Two
  Words <- Bits
  Regs <- Zero
  Limit = 2
  Slack = 1
  SaveSizes <- OneWord
SYMMETRY TwoSymmetry
SPECIFICATION Spec
INVARIANTS
  TypeOK
  OwnerCurrent
  SuspendedComplete
  SavedFits
PROPERTY PrivateStacksSpec
