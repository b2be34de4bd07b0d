SPECIFICATION StateSpec
CONSTANTS
    a1 = a1
    Actor = {a1, a2, a3}
    Alias = {x}
    Handler = {h1, h2}
    Poster = {p1}
    NoActor = NoActor
    Repoint = TRUE
    Asked <- AskedOfOne
SYMMETRY Symmetry
INVARIANTS WalkFindsCycles CycleNeedsRace
PROPERTY StatefulIsKept
CHECK_DEADLOCK FALSE
