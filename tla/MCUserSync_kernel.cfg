CONSTANTS
    Users = {u1, u2}
    Configs = {conf1, conf2, conf3, conf4}
    Rejected = {conf3}
    Invalid = {conf4}
    EventCap = 1
    StatusCap = 1
    MaxChanges = 2
    MaxFailures = 1
    MaxRefused = 1
    Ws = TRUE
    MayDrop = TRUE
    MayMiss = TRUE
    MayEmpty = TRUE
    Busy = TRUE
SPECIFICATION Spec
SYMMETRY MCSymmetry
INVARIANTS TypeOK 
