CONSTANTS
    SSIDs = {"home", "cafe"}
    Secrets = {"old", "new"}
    PowerShell = TRUE
    MaxLeft = 2
SPECIFICATION FairSpec
INVARIANT TypeOK
INVARIANT NothingLeftByNative
PROPERTY OkIsTrue
PROPERTY CallsReturn
