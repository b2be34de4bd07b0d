SPECIFICATION FairSpec
CONSTANTS
    Execution = {x1, x2}
    Worker = {w1}
    Caller = {c1}
    NoWorker = NoWorker
    NoExecution = NoExecution
    MaxErrors = 1
    Budget <- BudgetLive
    Faults = {"prep", "create", "start", "stop", "inspect"}
PROPERTIES HaltEndsTheLoop 
CHECK_DEADLOCK FALSE
