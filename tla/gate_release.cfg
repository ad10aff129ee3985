SPECIFICATION FairSpec
CONSTANTS
    Workers = {w1}
    MaxReplans = 2
    MaxCommits = 5
    MaxFaults = 2
    Faults = {"crash", "lost_ack", "overtaken", "claims_flaky"}
CHECK_DEADLOCK FALSE
INVARIANTS TypeOK OneCommitInHand ReleaseGate FixAnswersReplan
PROPERTIES ComesToRest NearsItsEnd ImplementsMachine
