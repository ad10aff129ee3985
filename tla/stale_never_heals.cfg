SPECIFICATION FairSpec
CONSTANTS
    Workers = {w1, w2}
    MaxReplans = 0
    MaxCommits = 2
    MaxFaults = 0
    Faults = {}
CHECK_DEADLOCK FALSE
PROPERTIES StaleIsOvercome
