SPECIFICATION Spec
CONSTANTS
    Jobs = {j1, j2}
    Tasks = {t1, t2}
    Faults = {}
    MaxFaults = 0
CHECK_DEADLOCK FALSE
INVARIANTS RacesAreResolved
