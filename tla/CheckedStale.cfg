SPECIFICATION Spec
CONSTANTS
  NumTypeBounds <- MCNumTypeBounds
  Structs <- MCStructs
  Funcs <- MCFuncs
  Implicit <- MCImplicit
  Inputs <- MCInputs
  Programs <- Stale
  Compiled <- MCCompiled
  Src <- MCSrc
  Dst <- MCDst
INVARIANT AssertsHold
CHECK_DEADLOCK FALSE
