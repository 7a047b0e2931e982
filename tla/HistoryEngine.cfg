CONSTANTS
    Command <- MCCommand
    Splitting = {"odd"}
    Rest <- MCRest
    Time = {1, 2, 3}
    Session = {s1, s2}
    Old = "legacy"
    Typed = {"ls", "odd"}
    Ignored = {}
    Setting <- MCSetting
    Found <- MCFound
    MaxFaults = 1
    MaxKills = 1
    LockMayFail = FALSE
    ReadMayFail = FALSE
    Nobody = Nobody
    NoFile = NoFile
SYMMETRY Sessions
SPECIFICATION Spec
INVARIANTS NothingLost
PROPERTY FileIsAtomic
