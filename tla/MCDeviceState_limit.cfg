CONSTANTS
    Users = {u1}
    Nodes = {n1, n2}
    Ips = {i1, i2}
    Workers = {w1, w2}
    Free = Free
    Dead = Dead
    DeviceLimit <- MCLimitOne
    LockMayExpire = FALSE
    SerialNodes = TRUE
    MayCrash = TRUE
    MayLapse = TRUE
    MayRead = TRUE
VIEW MCView
SYMMETRY MCSymmetry
SPECIFICATION Spec
INVARIANTS TypeOK  
  
