\* A ring of 5 words and events of 3 to 5 words, gone round more than twice,
\* so that headers are split at its end; two samplers, one short fwrite.
CONSTANTS
  Size = 5
  MaxEvent = 5
  Chunk = 3
  MAXSM = 2
  Samplers = {s1, s2}
  MaxWords = 12
  MaxShort = 1
SPECIFICATION Spec
INVARIANTS TypeOK SpaceExact UnreadIntact FileIsStream FileKeepsAll SamplerView SamplerNeverTorn
PROPERTY ImplementsStream
\* The behaviour stops at MaxWords words.
CHECK_DEADLOCK FALSE
