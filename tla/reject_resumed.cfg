SPECIFICATION Spec
CONSTANTS
    Workers = {w1}
    Cron = cron
    Free = free
    MaxReplans = 1
    MaxAttempts = 1
    MaxFaults = 0
    Faults = {}
CHECK_DEADLOCK FALSE
PROPERTY RejectIsFinal
