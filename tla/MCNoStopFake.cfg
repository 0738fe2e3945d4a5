\* A spurious gate reaches QDC 0 and the TDC, and not QDC 1.
CONSTANTS
  NQDC = 2
  W = 3
  MaxFers = 2
  MaxNoise = 1
  MaxRuns = 1
  Extra <- NotQdc1
  Deaf = {}
  Failing = {}
SPECIFICATION Spec
INVARIANT FakeOnlyIfAll
