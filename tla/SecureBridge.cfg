SPECIFICATION FairBridge
CONSTANTS
    Enabled = {TRUE, FALSE}
    Capacity = 1
    MaxTyped = 1
    MaxCtrlC = 2
INVARIANTS ModeRestored OutputForwarded StatusIsTheCommands
PROPERTIES SecureReturns
CHECK_DEADLOCK FALSE
