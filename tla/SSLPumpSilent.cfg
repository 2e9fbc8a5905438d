SPECIFICATION Spec
CONSTANTS
    Builds = {FALSE}
    SilentWrites = TRUE
    Cap = 2
    Parts = 2
    MaxWrite = 3
    MaxTaken = 4
    MaxOwn = 1
    MaxIn = 1
INVARIANT
    EngineAlive
