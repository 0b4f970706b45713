SPECIFICATION FairSpec
CONSTANTS
  Bytes = {0, 1}
  R = 4
  MaxLength = 3
  Lengths = {3}
  MaxStored = 1
  MaxCap = 5
  MaxText = 5
INVARIANTS
  ResumableCopies
  RingHoldsText
  UncheckedCopyIsSafe
  ShortWriteMakesProgress
PROPERTIES
  ImplementsLz77
  MatchIsExpanded
