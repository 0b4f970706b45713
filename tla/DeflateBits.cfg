SPECIFICATION Spec
CONSTANTS
  Codes = {1, 7, 9, 15}
  Extras = {0, 5, 13}
  MaxSrc = 14
  MaxRead = 14
INVARIANTS
  BitAccounting
PROPERTY
  StoredIsAligned
