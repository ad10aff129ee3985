SPECIFICATION FairSpec
CONSTANTS
    Workers = {w1}
    Cron = cron
    Free = free
    MaxReplans = 2
    MaxAttempts = 1
    MaxFaults = 3
    Faults = {"deadline", "lost", "cron", "cron_dies"}
CHECK_DEADLOCK FALSE
INVARIANTS NoStrandedTask ImplementationBudget BudgetLedger
PROPERTIES ComesToRest CreatedIsLeft NearsItsEnd
