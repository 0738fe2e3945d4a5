\* No SIGINT; a file is rolled over after its first event.
CONSTANTS
  Cap = 1
  MaxFile = 1
  MaxEvts = 2
  MaxPedEvts = 1
  RatioNum = 2
  RatioDen = 1
  MaxSpills = 1
  Interrupted = {}
SPECIFICATION Spec
INVARIANT RolledFileOK
CHECK_DEADLOCK FALSE
