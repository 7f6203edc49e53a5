CONSTANTS
    u1 = u1
    e1 = e1
    da = da
    db = db
    c1 = c1
    c2 = c2
    c3 = c3
    NoUser = NoUser
    NoCounter = NoCounter
    Conns = {c1, c3}
    Emails = {e1}
    Devices = {da, db}
    Users = {u1}
    EmailOf <- MCEmailOf
    DevOf <- MCDevOf
    Tcp = {c1, c3}
    UserMaps <- MCMapped
    LimitMaps <- MCLimitOne
    Pushes <- MCNoPush
    MaxHandlers = 2
SPECIFICATION Spec
PROPERTY CountedDeviceGoesOn
