CONSTANTS
    OrderIds = {o1, o2}
    Commissions = {k1}
    Workers = {w1, w2}
    Nobody = Nobody
    Price = 2
    Refund = 1
    Share = 1
    Deposit = 2
    MaxFailures = 1
SPECIFICATION FairSpec
INVARIANTS TypeOK  
 
CHECK_DEADLOCK FALSE
