\* The channel fills up before the Hello is queued.
SPECIFICATION FairSpec
CONSTANTS
    c1 = c1  c2 = c2  c3 = c3  g1 = g1  g2 = g2  i1 = i1  i2 = i2  i3 = i3
    Conn <- TwoConns
    IpGroup = {g1}
    GroupOf <- OneGroup
    Info = {i1, i2}
    InitialInfo = i1
    NoInfo = NoInfo
    TokenOf <- Tokens
    MAX_CONNECTIONS = 3
    MAX_REQUESTS = 5
    ChannelCapacity = 4
    Requests <- Mixed
    Leavers = {}
    MaxHours = 0
PROPERTY HelloArrives
CHECK_DEADLOCK FALSE
