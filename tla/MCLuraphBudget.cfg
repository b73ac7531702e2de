SPECIFICATION DecodeSpec
CONSTANTS
  Registers = {0, 1, 2, 3, 4, 5}
  MaxVmSteps = 12
  Programs = {"p1", "p2"}
  code <- MCcode
  LogCap = 1
  WaitBound = 1
  DumpCap = 3
  KeptCap = 3
  FinalCap = 2
  FlushAt = 2
  TraceCap = 5
  Budget = 1
  MaxTime = 2
  MaxSteps = 5
PROPERTY BudgetUnwinds
