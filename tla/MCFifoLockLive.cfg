\* Nobody is killed or interrupted; no symmetry, since the properties are
\* temporal.
CONSTANTS
  Writer = writer
  Reader = reader
  Samplers = {s1}
  MAXSM = 1
  NoProc = none
  Killable = {}
  Interruptible = {}
SPECIFICATION FairSpec

PROPERTY Progress
