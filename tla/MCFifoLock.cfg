\* One writer, one reader, two samplers on two slots or on one; all but the
\* reader may be killed at any step, all may get SIGINT in any wait.
CONSTANTS
  Writer = writer
  Reader = reader
  Samplers = {s1, s2}
  MAXSM = 2
  NoProc = none
  Killable = {writer, s1, s2}
  Interruptible = {writer, reader, s1, s2}
SYMMETRY SamplerSymmetry
SPECIFICATION Spec
INVARIANTS TypeOK MutualExclusion ReentryNeverPolls LockHasOwner
PROPERTY ImplementsRoleLock
\* Once every process is killed, or waits for a killed one, nothing happens.
CHECK_DEADLOCK FALSE
