SPECIFICATION EventsFairSpec
CONSTANTS
    a1 = a1
    Actor = {a1, a2}
    Alias = {x}
    Handler = {h1}
    NoActor = NoActor
    Repoint = TRUE
    Hook <- HookedActor
    Bound <- BoundAll
INVARIANTS NoFanOut 
PROPERTY ChainEnds
CHECK_DEADLOCK FALSE
