CONSTANTS
    Users = {u1}
    Directions = {up1, down1}
    MaxUsed = 3
    MaxFailures = 1
    MayRestart = TRUE
SPECIFICATION FairSpec
INVARIANTS TypeOK NeverOverbilled Conserved
PROPERTY EventuallyBilled
