CONSTANTS
  a1 = a1
  a2 = a2
  a3 = a3
  k1 = k1
  k2 = k2
  k3 = k3
  Main = Main
  NULL = NULL
  Keys <- MCKeys
  Handles <- MCHandles
  Words <- Bits
  Regs <- Zero
  Limit = 1
  Slack = 1
  SaveSizes <- OneWord
SYMMETRY Symmetry
SPECIFICATION Spec
INVARIANTS
  TypeOK
  MapOwnsAll
  StopIsEnded
  StackOutlivesUsers
PROPERTY KeyedStacksSpec
