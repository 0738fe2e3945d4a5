\* Two runs with two QDCs; counters that go round after three events; QDC 1 may miss
\* triggers; its block, or those of both QDCs, may fail to come.
CONSTANTS
  NQDC = 2
  W = 3
  MaxFers = 4
  MaxNoise = 1
  MaxRuns = 2
  Extra <- AllOrOne
  Deaf <- Qdc1
  Failing <- LastOrAll
SPECIFICATION FairSpec
INVARIANTS TypeOK OneTriggerPerLine FersAligned EndsOnlyIfAsked
PROPERTY Stops
