SPECIFICATION Spec
CONSTANTS
    Builds = {FALSE, TRUE}
    SilentWrites = FALSE
    Cap = 2
    Parts = 2
    MaxWrite = 3
    MaxTaken = 4
    MaxOwn = 1
    MaxIn = 2
INVARIANTS
    TypeOK
    EngineAlive
    NoByteLost
    WrittenIsSafe
    ReadsWhatIsThere
    StopNestsOnce
PROPERTIES
    ChannelSpec
    FullDuplexReturns
