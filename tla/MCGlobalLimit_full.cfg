CONSTANTS
    u1 = u1
    n1 = n1
    n2 = n2
    d1 = d1
    d2 = d2
    d3 = d3
    Users = {u1}
    Nodes = {n1, n2}
    Ips = {d1, d2, d3}
    DeviceLimit <- TwoSlots
    Reach <- Overlapping
    MaxMoves = 3
    MaySkip = TRUE
    MayExpire = TRUE
SPECIFICATION FairSpec
INVARIANTS
    TypeOK
    
 
