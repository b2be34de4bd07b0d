SPECIFICATION FairSpec
CONSTANTS
    Worker = {w1}
    MaxAttempts = 3
    Forever = FALSE
    Faults = {"agave", "create", "credentials", "remove", "list", "timeout", "pull", "confirm", "slow", "container", "die"}
INVARIANTS TypeOK WorkingClientIsStored WorkingClientIsRegistered GrantIsGenuine
PROPERTIES GenerationEnds DeadWorkerIsRemoved
CHECK_DEADLOCK FALSE
