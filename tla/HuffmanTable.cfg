CONSTANTS
  Primary = 2
  MaxLen = 4
  NCodes = 7
  TableSize = 10
  MaxCodes0 = 1
SPECIFICATION Spec
INVARIANTS LookupIsCanonical AcceptsCompleteCodes NoInternalError
PROPERTY EachSlotOnce
