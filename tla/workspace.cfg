SPECIFICATION Spec
CONSTANTS
    Jobs = {j1, j2}
    Tasks = {t1, t2}
    Faults = {"crash", "clone_fails", "db_error", "no_install"}
    MaxFaults = 2
SYMMETRY Symmetry
CHECK_DEADLOCK FALSE
INVARIANTS TypeOK WorkspaceIsOne WorktreesStayWhole LoneJobHeals SuiteIsProvisioned
