SPECIFICATION Spec
CONSTANTS
    Workers = {w1, w2}
    Cron = cron
    Free = free
    MaxReplans = 1
    MaxAttempts = 1
    MaxFaults = 2
    Faults = {"crash", "restart", "lost", "db_error", "stale_review"}
SYMMETRY WorkerSymmetry
CHECK_DEADLOCK FALSE
INVARIANT TypeOK
PROPERTIES TrailExplainsStatus ImplementsMachine
