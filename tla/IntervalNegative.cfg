CONSTANTS
  nil = nil
  Below = 3
  Above = 11
  Small = 3
  Box = 32
  Width = 6
CHECK_DEADLOCK FALSE
SPECIFICATION Spec
INVARIANT FailsIfNegative
