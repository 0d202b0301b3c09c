\* One-slot channels: a client leaves while its tasks wait for full channels.
SPECIFICATION FairSpec
CONSTANTS
    c1 = c1  c2 = c2  c3 = c3  g1 = g1  g2 = g2  i1 = i1  i2 = i2  i3 = i3
    Conn <- ThreeConns
    IpGroup = {g1}
    GroupOf <- OneGroup
    Info = {i1}
    InitialInfo = i1
    NoInfo = NoInfo
    TokenOf <- Tokens
    MAX_CONNECTIONS = 3
    MAX_REQUESTS = 3
    ChannelCapacity = 1
    Requests <- Repeated
    Leavers = {c1}
    MaxHours = 0
PROPERTIES HelloUnlessFilled ClosedPeersLeave
CHECK_DEADLOCK FALSE
