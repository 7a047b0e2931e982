SPECIFICATION FairSpec
CONSTANTS
    Manifest <- MCManifest
    Cap = {"read", "write", "command"}
    Messages <- MCMessages
    DownCap = 1
    UpCap = 2
    MaxSent = 4
INVARIANTS InStep WithinGrant
PROPERTIES ExchangesEnd
CHECK_DEADLOCK FALSE
