\* Updates and offers within a group and across two groups, against joining and leaving.
SPECIFICATION Spec
CONSTANTS
    c1 = c1  c2 = c2  c3 = c3  g1 = g1  g2 = g2  i1 = i1  i2 = i2  i3 = i3
    Conn <- ThreeConns
    IpGroup = {g1, g2}
    GroupOf <- TwoGroups
    Info = {i1, i2, i3}
    InitialInfo = i1
    NoInfo = NoInfo
    TokenOf <- Tokens
    MAX_CONNECTIONS = 2
    MAX_REQUESTS = 4
    ChannelCapacity = 1
    Requests <- CrossGroup
    Leavers = {c1}
    MaxHours = 0
INVARIANTS LaterPeersTracked GroupIsolation
CHECK_DEADLOCK FALSE
