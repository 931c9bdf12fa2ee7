\* Every array of up to four cells of three values, every sequence of calls.
SPECIFICATION FairSpec
CONSTANTS
  Longs = {0, 1, 2}
  MAX_COUNT = 4
INVARIANTS SortsSort ValuesKept SearchesFind
PROPERTY CallsReturn
