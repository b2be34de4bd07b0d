SPECIFICATION Spec
CONSTANTS
    Worker = {w1, w2, w3}
    Client = {c1, c2}
    Spawner = {s1, s2}
    NoWorker = NoWorker
    MaxWorkers = 1
    Budget <- BudgetStart
    Faults = {}
SYMMETRY Symmetry
INVARIANTS StopOnTheWay OneHandler HostCapacity
CHECK_DEADLOCK FALSE
