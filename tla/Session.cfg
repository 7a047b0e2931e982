SPECIFICATION FairSpec
CONSTANTS
    Choice <- MCChoice
    Limit <- MCLimit
    Palette <- MCPalette
    Wrong = Wrong
    None = None
    Option <- MCOption
    HistoryOption <- MCHistoryOption
    Color <- MCColor
    Default <- MCDefault
    BuiltinProfile <- MCBuiltinProfile
    BuiltinTheme <- MCBuiltinTheme
    ProfileNames <- MCProfileNames
    ThemeNames <- MCThemeNames
    Pack <- MCPack
    AliasName <- MCAliasName
    OptionOrder <- MCOptionOrder
    ColorOrder <- MCColorOrder
    InTemplate <- MCInTemplate
    Name <- MCName
    PATH = "PATH"
    PYTHONHOME = "PYTHONHOME"
    VIRTUAL_ENV = "VIRTUAL_ENV"
    Empty = "empty"
    Unset = Unset
    Builtin <- MCBuiltin
    BadName = "bad"
    Users <- MCUsers
    Code <- MCCode
    Enabling <- MCEnabling
    Staging <- MCStaging
    MaxLines = 3
    WhileLimit = 2
    MaxInterrupts = 1
    WhilePublishing = FALSE
INVARIANTS Configured PluginsPublishedWhole HooksInformed HooksRunOnce
PROPERTIES VenvRestored EveryCallReturns
CHECK_DEADLOCK FALSE
