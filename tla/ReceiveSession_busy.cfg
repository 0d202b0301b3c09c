SPECIFICATION Spec
CONSTANTS
  r1 = r1
  r2 = r2
  r3 = r3
  ip1 = ip1
  ip2 = ip2
  f1 = f1
  f2 = f2
  f3 = f3
  f4 = f4
  Request = {r1, r2}
  Ip = {ip1, ip2}
  IpOf <- TwoSenders
  File = {f1, f2, f3}
  FilesOf <- OneFileEach
  Messages = {}
  V1 = {r2}
  Upload = {u1}
  PinSet = FALSE
  QuickSave = {FALSE}
  MAX_ATTEMPTS = 3
  MaxRestarts = 0
PROPERTY SessionNotReplaced
CHECK_DEADLOCK FALSE
