\* One upload loop and a retry; connections that break, and ones that do not.
SPECIFICATION FairSpec
CONSTANTS
  File = {f1, f2}
  NoFile = NoFile
  Worker = {w1}
  Retry = {t1}
  QuickSave = {FALSE, TRUE}
  Rough = {FALSE, TRUE}
PROPERTIES ImplementsDelivery ReceiverReleased
CHECK_DEADLOCK FALSE
