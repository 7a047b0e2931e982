SPECIFICATION RuntimeFairSpec
CONSTANTS
    r1 = r1
    Runtime = {r1}
    Limit = 1
    SinkMayRaise = FALSE
INVARIANTS FirstClaimDecides Contained ViolationFinished
PROPERTIES DeadlineEndsChild OperationsReturn
CHECK_DEADLOCK FALSE
