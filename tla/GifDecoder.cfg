CONSTANTS
  HeaderLen = 2
  TableLens = {0, 1}
  DescLen = 2
  IdLen = 2
  Sizes = {0, 1, 2, 3}
  Loops = {0, 1, 65535}
  MaxSrc = 3
SPECIFICATION Spec
INVARIANTS InSync NoInternalError FreshLzw

