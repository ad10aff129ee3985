SPECIFICATION FairSpec
CONSTANTS
    Workers = {w1}
    Free = free
    Merger = merger
    MaxRetries = 1
    MaxCommits = 3
    MaxDrift = 2
    MaxFaults = 3
    Faults = {"crash", "db_error", "late_commit", "push_fails", "no_answer", "deadline"}
CHECK_DEADLOCK FALSE
INVARIANTS TypeOK MergedOnce OfferIsFresh FailuresAreFaults
PROPERTIES LandsWhatWasApproved LeavesCreation
