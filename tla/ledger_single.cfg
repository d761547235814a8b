CONSTANTS
  p1 = p1
  p2 = p2
  Procs <- OneCommand
  Budget = 3
  MaxSize = 2
  MaxDay = 2
  MaxDownload = 15
  MaxLapses = 2
SPECIFICATION Spec
INVARIANTS Accounting NeverOvercounts
PROPERTIES HaltsOnceSpent ImplementsBudget
CHECK_DEADLOCK FALSE
