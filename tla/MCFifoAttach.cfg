CONSTANTS
  Writers = {w1, w2}
  Readers = {}
  Samplers = {s1, s2}
  NoProc = none
  MaxSM = 1
  Width = 4
  Killable = {s1}
  Failing = {s2}
  Interruptible = {w1, w2, s1, s2}
SPECIFICATION Spec
SYMMETRY Symmetry
VIEW View
INVARIANTS TypeOK SameFifo PresentWhileThere NothingLeft OneAtATime
PROPERTIES RefusedOnlyIfPresent NeverReinitialised
\* Every process starts once: in the end all have left, and nothing happens.
CHECK_DEADLOCK FALSE
