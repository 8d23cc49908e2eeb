SPECIFICATION Spec
CONSTANTS
    Page = 128
    RvaMod = 65536
    SizeMod = 1048576
    Tids <- MCTids
    Signals = {"SEGV", "ABRT"}
    SIGABRT = "ABRT"
    FaultSignals = {"SEGV"}
    Main = "main"
    Modules = 1
    MaxFaults = 1
    Airbags <- MCAirbags
INVARIANTS
    NativeTypeOK
    AttachAllowed
    ThreadsHeldStill
    SuccessMeansIntact
    DeathIsOrderly
PROPERTIES
    ReportIsFinal
    CrashEnds
