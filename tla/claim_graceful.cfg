SPECIFICATION Spec
CONSTANTS
    Worker = {w1, w2}
    Client = {c1, c2}
    Spawner = {s1}
    NoWorker = NoWorker
    MaxWorkers = 2
    Budget <- BudgetUpdate
    Faults = {}
PROPERTY GracefulShutdown
CHECK_DEADLOCK FALSE
