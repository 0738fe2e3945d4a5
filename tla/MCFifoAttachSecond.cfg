\* A reader asks for the role while another has it.
CONSTANTS
  Writers = {w1}
  Readers = {r1, r2, r3}
  Samplers = {}
  NoProc = none
  MaxSM = 2
  Width = 8
  Killable = {}
  Failing = {}
  Interruptible = {}
SPECIFICATION Spec
INVARIANT OneReader
\* Every process starts once: in the end all have left, and nothing happens.
CHECK_DEADLOCK FALSE
