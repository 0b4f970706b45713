SPECIFICATION Spec
CONSTANTS
  NumTypeBounds <- MCNumTypeBounds
  Structs <- MCStructs
  Funcs <- MCFuncs
  Implicit <- MCImplicit
  Inputs <- MCInputs
  Programs <- MCPrograms
  Compiled <- MCCompiled
  Src <- MCSrc
  Dst <- MCDst
INVARIANTS AssertsHold NoOverflow IndexInBounds FastCallsAreSafe
CHECK_DEADLOCK FALSE
