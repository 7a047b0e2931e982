SPECIFICATION Spec
CONSTANTS
    Commands <- MCCommands
    PluginCommands <- MCPluginCommands
    Variables <- MCVariables
    JobIds <- MCJobIds
    Tree <- MCTree
    Lower <- MCLower
    None = None
    WholePastes = TRUE
    FileNames = {f}
    NoFile = NoFile
    Redirection = Redirection
    NoEdit = NoEdit
    Missing = Missing
    Directory = Directory
    History <- MCHistory
    Pasted <- MCPasted
    Users <- MCUsers
INVARIANTS
    ReaderAtRest
    PythonInStep
PROPERTIES
    PasteWaits
    CompletedAsOffered
