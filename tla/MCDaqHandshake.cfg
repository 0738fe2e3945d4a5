\* Three triggers in at most two spills; stopped by SIGINT or the semaphore at any step.
CONSTANTS
  MaxEvents = 3
  MaxSpills = 2
SPECIFICATION FairSpec
INVARIANTS TypeOK NoneLost ReadsItsOwnEvent SegmentAlive
PROPERTIES ImplementsRendezvous Answered Terminates
\* Both programs end; or the readout misses a run stopped before its first trigger.
CHECK_DEADLOCK FALSE
