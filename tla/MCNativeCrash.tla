--------------------------- MODULE MCNativeCrash ---------------------------
EXTENDS NativeCrash

MCTids == <<"main", "worker">>
MCAirbags == <<"SEGV", "ABRT">>
NoAirbags == <<>>
=============================================================================
