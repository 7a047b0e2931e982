CONSTANTS
    File <- MCFile
    Content <- MCContent
    Malformed = {"open"}
    Foreign = {"tool"}
    Typed <- MCTyped
    Paste = {"clip", "open"}
    Doc = {"A", "B"}
    Device = {"tty", "log", "full"}
    Full = {"full"}
    MaxDepth = 10
    MaxFaults = 2
    None = None
    Output <- MCOutput
    Aliases <- MCAliases
    LocalVars <- MCLocalVars
    Environ <- MCEnviron
    Special <- MCSpecial
    NameChars = {"a", "c", "d", "e", "h", "l", "o", "p", "q", "x", "y", "A", "G", "H", "U", "2", "if", "PS1"}
    Home <- MCHome
    Directory <- MCDirectory
SPECIFICATION FairSpec
INVARIANTS ChainRule OwnDocs CallsKeepOrder ReadAsWritten
PROPERTIES EveryLineReturns
CHECK_DEADLOCK FALSE
