CONSTANTS
    u1 = u1
    x1 = x1
    da = da
    db = db
    dc = dc
    c1 = c1
    c2 = c2
    c3 = c3
    c4 = c4
    NoUser = NoUser
    Conns = {c1, c2, c3}
    Users = {u1}
    Uuids = {x1}
    Devices = {da, db}
    UuidOf <- MCUuidOf
    DevOf <- MCDevOf
    UserMaps <- MCUserMaps
    LimitMaps <- MCLimits
    Pushes <- MCPushes
    MaxHandlers = 2
SYMMETRY MCSymmetry
SPECIFICATION Spec
INVARIANTS TypeOK RefsExact ConnMapExact SweepMissesOnlyInFlight
