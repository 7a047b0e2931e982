SPECIFICATION RuntimeSpec
CONSTANTS
    r1 = r1
    r2 = r2
    Runtime = {r1, r2}
    Limit = 1
    SinkMayRaise = FALSE
PROPERTIES ContractHolds
CHECK_DEADLOCK FALSE
