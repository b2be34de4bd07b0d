SPECIFICATION Spec
CONSTANTS
    User = {u1, u2}
    World = World
    Admin = {u2}
    Actor = {a1}
    Alias = {x}
    Handler = {h1, h2}
    NoUser = NoUser
    NoObject = NoObject
    Granted = {0, 3}
    MaxGrants = 2
SYMMETRY Symmetry
INVARIANTS TypeOK  OwnerIsListed
PROPERTY GrantsAreMonotone
CHECK_DEADLOCK FALSE
