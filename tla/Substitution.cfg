SPECIFICATION FairSpec
CONSTANTS
    MaxDepth = 2
    Kin = {k1}
    Limit <- MCLimit
    Capacity = 1
    MaxCalls = 2
INVARIANTS Swept WholeText
PROPERTIES EverySubstitutionReturns
