SPECIFICATION FairSpec
CONSTANTS
  File = {f1, f2}
  NoFile = NoFile
  Chunks = 2
  SenderPin = {TRUE, FALSE}
  ReceiverPin = {TRUE, FALSE}
  MaxTries = 2
  SenderTrusts = {TRUE, FALSE}
  ReceiverTrusts = {TRUE, FALSE}
  AppFails = TRUE
  Breaks = TRUE
INVARIANTS TypeOK InStep PinsComeFirst EndedFilesAreWhole LastFileAwaited
PROPERTY SessionEnds
CHECK_DEADLOCK FALSE
