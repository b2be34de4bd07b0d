SPECIFICATION FairSpec
CONSTANTS
    Worker = {w1, w2}
    Client = {c1}
    Spawner = {s1}
    NoWorker = NoWorker
    MaxWorkers = 2
    Budget <- BudgetLive
    Faults = {}
PROPERTIES StopIsObeyed  
CHECK_DEADLOCK FALSE
