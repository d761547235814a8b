CONSTANTS
  p1 = p1
  p2 = p2
  Procs <- TwoCommands
  Budget = 2
  MaxSize = 1
  MaxDay = 0
  MaxDownload = 2
  MaxLapses = 0
SPECIFICATION Spec
PROPERTY HaltsOnceRecorded
CHECK_DEADLOCK FALSE
