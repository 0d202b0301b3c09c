\* Three listening clients of one group that come and go; the hourly job.
SPECIFICATION Spec
CONSTANTS
    c1 = c1  c2 = c2  c3 = c3  g1 = g1  g2 = g2  i1 = i1  i2 = i2  i3 = i3
    Conn <- ThreeConns
    IpGroup = {g1}
    GroupOf <- OneGroup
    Info = {i1, i2}
    InitialInfo = i1
    NoInfo = NoInfo
    TokenOf <- Tokens
    MAX_CONNECTIONS = 2
    MAX_REQUESTS = 2
    ChannelCapacity = 2
    Requests <- Silent
    Leavers = {c1, c2, c3}
    MaxHours = 1
INVARIANTS TypeOK LimitsHold TxMapFollowsHandlers NoMissedPeer
SYMMETRY Interchangeable
CHECK_DEADLOCK FALSE
