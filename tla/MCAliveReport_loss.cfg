CONSTANTS
    Devices = {d1, d2, d3}
    WriteCap = 1
    MaxChanges = 4
    Http = TRUE
    Ws = TRUE
    MaxFailedRequests = 1
    MayDrop = TRUE
    MayLapse = TRUE
    MayEmpty = TRUE
SPECIFICATION AliveSpec
INVARIANTS AliveTypeOK WrongOnlyAfterLoss
