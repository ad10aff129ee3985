SPECIFICATION FairSpec
CONSTANTS
    Workers = {w1}
    MaxReplans = 1
    MaxCommits = 2
    MaxFaults = 0
    Faults = {}
CHECK_DEADLOCK FALSE
PROPERTIES EveryCommitIsReviewed
