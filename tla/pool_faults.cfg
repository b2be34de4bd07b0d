SPECIFICATION Spec
CONSTANTS
    Worker = {w1, w2}
    Client = {c1, c2}
    Spawner = {s1}
    NoWorker = NoWorker
    MaxWorkers = 2
    Budget <- BudgetFaults
    Faults = {"client", "pull", "create", "timeout", "signal", "prep", "start", "fail"}
SYMMETRY Symmetry
INVARIANTS TypeOK ReadyHasProcess
CHECK_DEADLOCK FALSE
PROPERTY ImplementsLife
