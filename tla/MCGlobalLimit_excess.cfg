CONSTANTS
    u1 = u1
    n1 = n1
    n2 = n2
    d1 = d1
    d2 = d2
    d3 = d3
    Users = {u1}
    Nodes = {n1, n2}
    Ips = {d1, d2, d3}
    DeviceLimit <- OneSlot
    Reach <- Apart
    MaxMoves = 3
    MaySkip = FALSE
    MayExpire = FALSE
SPECIFICATION FairSpec
PROPERTY ExcessClosed
