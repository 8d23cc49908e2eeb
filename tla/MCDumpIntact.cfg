SPECIFICATION Spec
CONSTANTS
    Page = 128
    RvaMod = 65536
    SizeMod = 65536
    Tids <- MCTids
    Signals = {"SEGV", "ABRT"}
    SIGABRT = "ABRT"
    FaultSignals = {"SEGV"}
    Main = "main"
    Modules = 1
    MaxFaults = 1
    Airbags <- NoAirbags
INVARIANT
    SuccessMeansIntact
