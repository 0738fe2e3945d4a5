\* No SIGINT, no file ever large enough to be rolled over.
CONSTANTS
  Cap = 2
  MaxFile = 9
  MaxEvts = 2
  MaxPedEvts = 1
  RatioNum = 2
  RatioDen = 1
  MaxSpills = 1
  Interrupted = {}
SPECIFICATION Spec
INVARIANT LastFileOK
CHECK_DEADLOCK FALSE
