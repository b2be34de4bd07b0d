SPECIFICATION Spec
CONSTANTS
    n1 = n1  n2 = n2
    r1 = r1  r2 = r2  r3 = r3  r4 = r4  r5 = r5  r6 = r6  r7 = r7
    Nonce = {n1, n2}
    Request = {r1, r2, r3, r4, r5, r6, r7}
    Limit <- MCLimit
    Level <- MCLevel
    Asks <- MCAsks
    Demand <- MCDemand
SYMMETRY Symmetry
CHECK_DEADLOCK FALSE
INVARIANTS TypeOK UsesBounded Accounted
PROPERTY ImplementsBudget
