\* Three requests, two of them of one sender, and two concurrent uploads.
SPECIFICATION Spec
CONSTANTS
  r1 = r1
  r2 = r2
  r3 = r3
  ip1 = ip1
  ip2 = ip2
  f1 = f1
  f2 = f2
  f3 = f3
  f4 = f4
  Request = {r1, r2, r3}
  Ip = {ip1, ip2}
  IpOf <- ThreeRequests
  File = {f1, f2, f3, f4}
  FilesOf <- WithMessage
  Messages = {r3}
  V1 = {r2}
  Upload = {u1, u2}
  PinSet = TRUE
  QuickSave = {FALSE, TRUE}
  MAX_ATTEMPTS = 1
  MaxRestarts = 1
SYMMETRY Interchangeable
INVARIANTS TypeOK FinishedWasSaved ActiveSessionHasWork AnsweredOkIsStored DecisionHasHandler
PROPERTY StaleUploadsHarmless
CHECK_DEADLOCK FALSE
