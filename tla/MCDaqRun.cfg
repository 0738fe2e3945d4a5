\* FIFOs of one event, files rolled over after two; readout and one data writer interrupted.
CONSTANTS
  Cap = 1
  MaxFile = 2
  MaxEvts = 3
  MaxPedEvts = 2
  RatioNum = 3
  RatioDen = 2
  MaxSpills = 2
  Interrupted = {"readout", "ped"}
SPECIFICATION Spec
INVARIANTS TypeOK HeadersCountRun EventsBounded PedShare
PROPERTY OnlyLocked
\* All three programs may have ended.
CHECK_DEADLOCK FALSE
