SPECIFICATION FairSpec
CONSTANTS
    Revisions <- versions
    Uses <- foreign_keys
    Singletons <- singletons
    Containers <- Backends
    Operators <- Shells
    Goals <- SomeGoals
    MaxCommands = 1
    MaxTroubles = 5
    NoOne = NoOne
    backend = backend
    worker = worker
    shell = shell
CHECK_DEADLOCK FALSE
INVARIANTS TypeOK SchemaOfVersion SeededOnce RacesDontAbort
PROPERTIES HeadAtOnce ContainersServe
