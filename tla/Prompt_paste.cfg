SPECIFICATION Spec
CONSTANTS
    Commands <- MCCommands
    PluginCommands <- MCPluginCommands
    Variables <- MCVariables
    JobIds <- MCJobIds
    Tree <- MCTree
    Lower <- MCLower
    None = None
    WholePastes = FALSE
    FileNames = {f}
    NoFile = NoFile
    Redirection = Redirection
    NoEdit = NoEdit
    Missing = Missing
    Directory = Directory
    History <- MCHistory
    Pasted <- MCPasted
    Users <- MCUsers
PROPERTIES
    PasteWaits
