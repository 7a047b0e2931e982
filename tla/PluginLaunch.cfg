CONSTANTS
    Field <- MCField
    OsField <- MCOsField
    Processes = "processes"
    NoField = NoField
    Ceiling <- MCCeiling
    Floor <- MCFloor
    Class <- MCClass
    Default = "compute"
    Catalog <- MCCatalog
    Request <- MCRequest
    Supported <- MCSupported
    Inherited <- MCInherited
SPECIFICATION LaunchSpec
INVARIANTS PluginConfined NarrowestEnforced
CHECK_DEADLOCK FALSE
