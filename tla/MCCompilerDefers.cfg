SPECIFICATION MCSpec
CONSTANTS
  Sources <- LeavingSources
  MaxDepth = 5
  WordBits = 12
  StackTop = 1000
  MaxRecursion = 12
  WarnRecursion = 10
INVARIANTS MeansTheSame
