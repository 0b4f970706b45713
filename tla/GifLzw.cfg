CONSTANTS
  LiteralWidths = {1, 2}
  MaxWidth = 3
  MaxSrc = 1
  MaxDst = 2
  MaxCodes = 6
SPECIFICATION Spec
INVARIANTS ChainsDescend NotCyclical WidthFits
PROPERTY ImplementsLzw
