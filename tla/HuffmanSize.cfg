CONSTANTS
  Primary = 9
  MaxLen = 15
  MaxSymbols = 286
  TableSize = 1234
  LargestTable = 852
SPECIFICATION Spec
INVARIANT Enough
