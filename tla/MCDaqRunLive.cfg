\* The data writers run to the end; only the readout is interrupted.
CONSTANTS
  Cap = 1
  MaxFile = 2
  MaxEvts = 2
  MaxPedEvts = 0
  RatioNum = 5
  RatioDen = 1
  MaxSpills = 1
  Interrupted = {"readout"}
SPECIFICATION FairSpec
PROPERTIES InterruptCloses WritersFinish
\* All three programs may have ended.
CHECK_DEADLOCK FALSE
