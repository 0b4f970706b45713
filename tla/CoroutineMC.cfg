SPECIFICATION Spec
CONSTANTS
    Programs <- MCPrograms
    Streams <- MCStreams
    More = {0, 1, 4}
    Room = {0, 2}
    Junk = {5}
    MaxRuns = 2
    MaxInits = 2
INVARIANTS
    TypeOK
    ChunkingIsInvisible
    SuspendedMidway
PROPERTIES
    ErrorsAreFinal
    Completes
CHECK_DEADLOCK FALSE
