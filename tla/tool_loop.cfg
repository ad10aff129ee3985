SPECIFICATION FairSpec
CONSTANTS
    Agents = {"planner", "research", "developer", "debugger", "reviewer", "security"}
    MaxChain = 2
    MaxRetries = 1
    MaxHops = 1
    MaxCalls = 3
    MaxRejections = 2
    MaxFaults = 2
    Faults = {"crash", "db_error", "lost_ack"}
CHECK_DEADLOCK FALSE
INVARIANTS TypeOK RequestsAreBounded GivenUpLast CallsAreRecorded CallsWithinBudget ReadersOnlyRead CommitIsTheChange
PROPERTIES ComesToEnd NearsItsEnd ImplementsGate
