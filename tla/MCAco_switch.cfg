CONSTANTS
  co1 = co1
  co2 = co2
  co3 = co3
  Main = Main
  NULL = NULL
  Handles <- Three
  Words <- Zero
  Regs <- Bits
  Limit = 1
  Slack = 1
  SaveSizes <- OneWord
SYMMETRY ThreeSymmetry
SPECIFICATION Spec
PROPERTY PrivateStacksSpec
