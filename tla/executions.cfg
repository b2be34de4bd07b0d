SPECIFICATION Spec
CONSTANTS
    Execution = {x1, x2}
    Worker = {w1, w2}
    Caller = {c1}
    NoWorker = NoWorker
    NoExecution = NoExecution
    MaxErrors = 1
    Budget <- BudgetAll
    Faults = {"prep","create","start","stop","inspect"}
SYMMETRY Symmetry
INVARIANTS TypeOK  AnnouncedOnce
PROPERTIES CompleteIsFinal ImplementsLife
CHECK_DEADLOCK FALSE
