CONSTANTS
  a1 = a1
  a2 = a2
  a3 = a3
  a4 = a4
  a5 = a5
  Main = Main
  NULL = NULL
  CoNum = 5
  Frame = 3
  Handles <- MCHandles
  Limit = 3
  Slack = 1
  SaveSizes <- OneWord
SPECIFICATION FairSpec
INVARIANTS
  NeverAborts
  InTurn
PROPERTY Finishes
