CONSTANTS
  CountMax = 2
  EntryTtl = 5
  BumpThreshold = 2
  MinTtls = {1}
SPECIFICATION Spec
INVARIANTS
  CounterOutlivesStreams
