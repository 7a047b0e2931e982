SPECIFICATION FairSpec
CONSTANTS
    MaxPid = 3
    MaxJobs = 2
    StageCounts = {1, 2}
    Codes = {1}
    Terminals = {TRUE, FALSE}
INVARIANTS Tracked DoneMeansReaped StopsAreSeen
PROPERTIES BackgroundSpared PromptComesBack
