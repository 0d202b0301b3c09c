SPECIFICATION FairSpec
CONSTANTS
  File = {f1, f2, f3}
  NoFile = NoFile
  Worker = {w1, w2}
  Retry = {t1, t2}
  InBackground = {FALSE, TRUE}
  SingleMode = TRUE
  ModeSwitch = TRUE
INVARIANTS TypeOK NoOrphanUpload FinishedWithoutRetry
PROPERTIES RemovedStaysRemoved SendingEnds
CHECK_DEADLOCK FALSE
