SPECIFICATION Spec
CONSTANTS
  Dirs <- MCDirs
  Subdirs <- MCSubdirs
  Histories <- MCHistories
  Commands <- MCCommands
CHECK_DEADLOCK FALSE
INVARIANTS
  VerdictIsDeclarative
  StructsInOrder
  CleanBuild
  AffectedInOrder
  StatusStringsResolve
  TestsTheLatest
