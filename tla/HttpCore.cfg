SPECIFICATION Spec
CONSTANTS
  Client = {c1, c2}
  Core = d1
  Other = {d2}
  Call = {k1, k2}
  Ip <- MCIp
  Address = "address"
  Versions <- MCVersions
  Mix <- MCMix
  NonceLength = {8, 32}
  Capacity = 1
  MaxChunks = 2
  None = None
SYMMETRY Symmetry
INVARIANTS Paired SequentialAgree SameDevice Ipv4KeepsServing
CHECK_DEADLOCK FALSE
