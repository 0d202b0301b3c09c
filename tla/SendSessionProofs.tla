------------------------- MODULE SendSessionProofs -------------------------
(***************************************************************************)
(* What TLAPS proves of SendSession for every set of files, every number   *)
(* of upload isolates and every number of retries.                         *)
(***************************************************************************)
EXTENDS SendSession, FiniteSetTheorems, FunctionTheorems, SequenceTheorems, TLAPS

-----------------------------------------------------------------------------
\* The inductive invariant.

Running(t) == task[t] # NoFile

\* Until the receiver grants a file, nothing has been queued or started.
NothingStarted ==
    /\ start \in {"idle", "prepare", "pin"} =>
         /\ queue = <<>> /\ tokens = {} /\ exited = {}
         /\ \A t \in Task : ~Running(t)
         /\ selection
         /\ status \in {"none", "waiting"}
    /\ start = "idle" => status = "none"
    /\ status = "waiting" => start \in {"prepare", "pin"}

\* A removed session leaves no file status behind.
GoneIsEmpty == ~Exists => \A f \in File : files[f] = "queue"

\* While the session exists it lists every running upload, the file of a
\* running upload is "sending", and no file is uploaded twice at once.
TasksListed ==
    Exists => \A t \in Task : Running(t) => t \in sendingTasks /\ files[task[t]] = "sending"

TasksDistinct ==
    Exists => \A t, u \in Task : Running(t) /\ task[t] = task[u] => t = u

\* A file that is "sending" has an upload, one that is "finished" was sent.
SendingHasTask == \A f \in File : files[f] = "sending" => \E t \in Task : task[t] = f

FinishedWasSent == \A f \in File : files[f] = "finished" => f \in sent

\* The queue holds every file once, and none that has been started.
QueueOnce == \A i, j \in 1..Len(queue) : queue[i] = queue[j] => i = j

QueueNotStarted ==
    Exists => \A i \in 1..Len(queue) : files[queue[i]] \in {"queue", "skipped"}

\* A granted file is never skipped, and stays in the queue until a loop takes
\* it, unless the receiver has canceled.
GrantedWaits ==
    Exists => \A f \in tokens :
      /\ files[f] # "skipped"
      /\ status \in allowedStates /\ files[f] = "queue"
           => \E i \in 1..Len(queue) : queue[i] = f

\* A loop ends with an empty queue and without an upload.
ExitedIsDone ==
    /\ exited # {} => queue = <<>>
    /\ \A w \in exited : ~Running(w)

\* In a session that is over and was not canceled no loop has work left.
OverIsQuiet ==
    status \notin {"none", "waiting", "sending", "canceledByReceiver"} =>
      /\ \A w \in Worker : ~Running(w)
      /\ \A i \in 1..Len(queue) : queue[i] \notin tokens

\* What a retry uploads, the user retried.
RetryIsMarked == \A t \in Retry : Running(t) => task[t] \in retried

Safe ==
    /\ NothingStarted /\ GoneIsEmpty /\ TasksListed /\ TasksDistinct
    /\ SendingHasTask /\ FinishedWasSent /\ QueueOnce /\ QueueNotStarted
    /\ GrantedWaits /\ ExitedIsDone /\ OverIsQuiet /\ RetryIsMarked
    /\ NoOrphanUpload /\ FinishedWithoutRetry

IInv == TypeOK /\ Safe

-----------------------------------------------------------------------------
\* The queue _sendLoop begins with holds every file of the session once.
LEMMA QueueOfFiles ==
  ASSUME NEW q \in SetToSeqs(File)
  PROVE  /\ q \in Seq(File)
         /\ \A i, j \in 1..Len(q) : q[i] = q[j] => i = j
         /\ \A f \in File : \E i \in 1..Len(q) : q[i] = f
<1> DEFINE n == Cardinality(File)
<1>0. IsFiniteSet(File)
  BY SendAssumption
<1>1. n \in Nat
  BY <1>0, FS_CardinalityType
<1>2. q \in [1..n -> File] /\ \A i, j \in 1..n : i # j => q[i] # q[j]
  BY DEF SetToSeqs
<1>3. q \in Seq(File)
  BY <1>1, <1>2, SeqDef
<1>4. Len(q) = n
  BY <1>1, <1>2, <1>3, LenProperties
<1>5. q \in Injection(1..n, File)
  BY <1>2 DEF Injection, IsInjective
<1>6. IsFiniteSet(1..n) /\ Cardinality(1..n) = n
  BY <1>1, FS_Interval
<1>7. q \in Surjection(1..n, File)
  BY <1>0, <1>5, <1>6, FS_Injection, FS_Surjection
<1>8. \A f \in File : \E i \in 1..n : q[i] = f
  BY <1>7 DEF Surjection
<1>9. QED
  BY <1>2, <1>3, <1>4, <1>8

LEMMA TailQueue ==
  ASSUME NEW q \in Seq(File), q # <<>>
  PROVE  /\ Head(q) \in File /\ Head(q) = q[1]
         /\ Tail(q) \in Seq(File)
         /\ 1 \in 1..Len(q)
         /\ \A i \in 1..Len(Tail(q)) : i + 1 \in 1..Len(q) /\ Tail(q)[i] = q[i + 1]
         /\ \A i \in 1..Len(q) : i # 1 => i - 1 \in 1..Len(Tail(q)) /\ Tail(q)[i - 1] = q[i]
  OBVIOUS

-----------------------------------------------------------------------------
\* The type invariant.

LEMMA InitType == Init => TypeOK
<1> SUFFICES ASSUME Init PROVE TypeOK
  OBVIOUS
<1>1. files \in [File -> FileStatus] /\ task \in [Task -> File \cup {NoFile}]
  BY DEF Init, FileStatus
<1>2. queue \in Seq(File)
  BY DEF Init
<1>3. QED
  BY <1>1, <1>2 DEF Init, TypeOK

LEMMA NextType ==
  ASSUME TypeOK, [Next]_vars
  PROVE  TypeOK'
<1> USE SendAssumption DEF TypeOK
<1>1. CASE StartSession
  BY <1>1 DEF StartSession, taskVars, ghostVars, SessionStatus
<1>2. ASSUME NEW code \in {"401", "403", "409", "429", "error"}, PrepareRefused(code)
      PROVE  TypeOK'
  BY <1>2 DEF PrepareRefused, SetStatus, sessionVars, taskVars, ghostVars, SessionStatus
<1>3. CASE PinEntered
  BY <1>3 DEF PinEntered, sessionVars, taskVars, ghostVars
<1>4. CASE PinDismissed
  BY <1>4 DEF PinDismissed, SetStatus, taskVars, ghostVars, SessionStatus
<1>5. CASE NothingSelected
  BY <1>5 DEF NothingSelected, CloseAs, Removed, taskVars, ghostVars, FileStatus
<1>6. ASSUME NEW granted \in SUBSET File, PrepareAccepted(granted)
      PROVE  TypeOK'
  <2>1. queue' \in Seq(File)
    BY <1>6, QueueOfFiles DEF PrepareAccepted
  <2>2. files' \in [File -> FileStatus]
    BY <1>6 DEF PrepareAccepted, FileStatus
  <2>3. QED
    BY <1>6, <2>1, <2>2 DEF PrepareAccepted, taskVars, ghostVars, SessionStatus
<1>7. CASE LoopFinished
  BY <1>7 DEF LoopFinished, Finish, CloseAs, Removed, taskVars, ghostVars, SessionStatus,
     FileStatus
<1>8. ASSUME NEW w \in Worker, TakeFile(w)
      PROVE  TypeOK'
  <2>1. queue' \in Seq(File) /\ Head(queue) \in File
    BY <1>8, TailQueue DEF TakeFile
  <2>2. w \in Task
    BY DEF Task
  <2>3. files' \in [File -> FileStatus] /\ task' \in [Task -> File \cup {NoFile}]
        /\ sendingTasks' \in SUBSET Task
    BY <1>8, <2>1, <2>2 DEF TakeFile, BeginUpload, FileStatus
  <2>4. QED
    BY <1>8, <2>1, <2>3 DEF TakeFile, ghostVars
<1>9. ASSUME NEW w \in Worker, ExitLoop(w)
      PROVE  TypeOK'
  BY <1>9 DEF ExitLoop, sessionVars, taskVars, ghostVars
<1>10. ASSUME NEW t \in Task, NEW ok \in BOOLEAN, UploadEnded(t, ok)
       PROVE  TypeOK'
  <2>1. files' \in [File -> FileStatus]
    BY <1>10 DEF UploadEnded, Finish, CloseAs, Removed, sessionVars, FileStatus
  <2>2. task' \in [Task -> File \cup {NoFile}] /\ retries' \in SUBSET Retry
        /\ sent' \in SUBSET File
    BY <1>10 DEF UploadEnded
  <2>3. /\ status' \in SessionStatus \cup {"none"} /\ remote' \in BOOLEAN
        /\ background' \in BOOLEAN /\ selection' \in BOOLEAN /\ sendingTasks' \in SUBSET Task
    BY <1>10 DEF UploadEnded, Finish, CloseAs, Removed, sessionVars, SessionStatus
  <2>4. QED
    BY <2>1, <2>2, <2>3, <1>10 DEF UploadEnded, loopVars
<1>11. ASSUME NEW t \in Retry, NEW f \in File, RetryFile(t, f)
       PROVE  TypeOK'
  BY <1>11 DEF RetryFile, BeginUpload, loopVars, SessionStatus, FileStatus, Task
<1>12. CASE CancelSession
  BY <1>12 DEF CancelSession, CloseAs, Removed, loopVars, taskVars, ghostVars, FileStatus
<1>13. CASE CloseSession
  BY <1>13 DEF CloseSession, CloseAs, Removed, loopVars, taskVars, ghostVars, FileStatus
<1>14. CASE CancelByReceiver
  BY <1>14 DEF CancelByReceiver, loopVars, taskVars, ghostVars, SessionStatus
<1>15. CASE ClearAllSessions
  BY <1>15 DEF ClearAllSessions, Removed, loopVars, taskVars, FileStatus
<1>16. CASE SetBackground
  BY <1>16 DEF SetBackground, loopVars, taskVars, ghostVars
<1>17. CASE UNCHANGED vars
  BY <1>17 DEF vars, sessionVars, loopVars, taskVars, ghostVars
<1>18. QED
  BY <1>1, <1>2, <1>3, <1>4, <1>5, <1>6, <1>7, <1>8, <1>9, <1>10, <1>11, <1>12, <1>13,
     <1>14, <1>15, <1>16, <1>17 DEF Next, Loop, Upload

\* Every variable of the sender keeps its type through every step of
\* startSession, _sendLoop, sendFile and the cancellations.
THEOREM TypeCorrect == Spec => []TypeOK
  BY InitType, NextType, PTL DEF Spec

-----------------------------------------------------------------------------
\* The safety part, action by action.

LEMMA InitSafe == Init => Safe
<1> SUFFICES ASSUME Init PROVE Safe
  OBVIOUS
<1>1. NothingStarted /\ ExitedIsDone /\ RetryIsMarked /\ NoOrphanUpload
  BY DEF Init, NothingStarted, ExitedIsDone, RetryIsMarked, NoOrphanUpload, Running, Task
<1>2. GoneIsEmpty /\ TasksListed /\ TasksDistinct /\ SendingHasTask /\ FinishedWasSent
  BY DEF Init, GoneIsEmpty, TasksListed, TasksDistinct, SendingHasTask, FinishedWasSent,
     Exists
<1>3. QueueOnce /\ QueueNotStarted /\ GrantedWaits /\ OverIsQuiet /\ FinishedWithoutRetry
  BY DEF Init, QueueOnce, QueueNotStarted, GrantedWaits, OverIsQuiet, FinishedWithoutRetry,
     Exists
<1>4. QED
  BY <1>1, <1>2, <1>3 DEF Safe

\* Before the loop: only the status, "start" and the background flag change.
LEMMA BeforeLoopSafe ==
  ASSUME IInv,
         start \in {"idle", "prepare", "pin"},
         start' \in {"prepare", "pin", "end"},
         status' \in SessionStatus \cup {"none"},
         status' = "waiting" => start' \in {"prepare", "pin"},
         start' \in {"prepare", "pin"} => status' \in {"none", "waiting"},
         status' = "none" => \A f \in File : files'[f] = "queue",
         \A f \in File : files'[f] \in {"queue", files[f]},
         start' # "end" => selection' = selection,
         UNCHANGED <<tokens, queue, exited, task, canceled, sent, retried, cleared>>
  PROVE  Safe'
<1>1. /\ queue = <<>> /\ tokens = {} /\ exited = {} /\ selection
      /\ \A t \in Task : task[t] = NoFile
  BY DEF IInv, Safe, NothingStarted, Running
<1>2. NothingStarted' /\ ExitedIsDone' /\ RetryIsMarked' /\ NoOrphanUpload'
  BY <1>1 DEF NothingStarted, ExitedIsDone, RetryIsMarked, NoOrphanUpload, Running, Task
<1>3. GoneIsEmpty' /\ TasksListed' /\ TasksDistinct' /\ FinishedWasSent'
  BY <1>1 DEF IInv, Safe, GoneIsEmpty, TasksListed, TasksDistinct, FinishedWasSent,
     Exists, Running
<1>4. SendingHasTask'
  BY DEF IInv, Safe, SendingHasTask
<1>5. QueueOnce' /\ QueueNotStarted' /\ GrantedWaits' /\ OverIsQuiet' /\ FinishedWithoutRetry'
  BY <1>1 DEF QueueOnce, QueueNotStarted, GrantedWaits, OverIsQuiet, FinishedWithoutRetry,
     Exists, Running, Task
<1>6. QED
  BY <1>2, <1>3, <1>4, <1>5 DEF Safe

LEMMA StartSafe == ASSUME IInv, StartSession PROVE Safe'
<1>1. status = "none"
  BY DEF IInv, Safe, NothingStarted, StartSession
<1>2. QED
  BY <1>1, BeforeLoopSafe DEF StartSession, taskVars, ghostVars, SessionStatus, IInv, Safe,
     GoneIsEmpty, Exists

LEMMA RefusedSafe ==
  ASSUME IInv, NEW code \in {"401", "403", "409", "429", "error"}, PrepareRefused(code)
  PROVE  Safe'
<1>0. status \in {"none", "waiting"}
  BY DEF IInv, Safe, NothingStarted, PrepareRefused
<1>1. files' = files
  BY DEF PrepareRefused, SetStatus, sessionVars
<1>2. status' \in SessionStatus \cup {"none"} /\ (status' = "none" <=> status = "none")
      /\ start' \in {"prepare", "pin", "end"} /\ (start' = "pin" => status' = status)
      /\ (start' = "end" => status' # "waiting") /\ start' # "prepare"
  BY <1>0 DEF PrepareRefused, SetStatus, sessionVars, SessionStatus, Exists
<1>3. \A f \in File : files'[f] \in {"queue", files[f]}
  BY <1>1
<1>4. status' = "none" => \A f \in File : files'[f] = "queue"
  BY <1>1, <1>2 DEF IInv, Safe, GoneIsEmpty, Exists
<1>5. /\ start = "prepare" /\ selection' = selection
      /\ UNCHANGED <<tokens, queue, exited, task, canceled, sent, retried, cleared>>
  BY DEF PrepareRefused, SetStatus, taskVars, ghostVars
<1>6. QED
  BY <1>0, <1>1, <1>2, <1>3, <1>4, <1>5, BeforeLoopSafe

LEMMA PinSafe == ASSUME IInv, PinEntered \/ PinDismissed PROVE Safe'
<1>0. status \in {"none", "waiting"} /\ start = "pin"
  BY DEF IInv, Safe, NothingStarted, PinEntered, PinDismissed
<1>1. files' = files /\ selection' = selection
      /\ UNCHANGED <<tokens, queue, exited, task, canceled, sent, retried, cleared>>
  BY DEF PinEntered, PinDismissed, SetStatus, sessionVars, taskVars, ghostVars
<1>2. status' \in SessionStatus \cup {"none"} /\ (status' = "none" <=> status = "none")
      /\ start' \in {"prepare", "end"} /\ (start' = "prepare" => status' = status)
      /\ (start' = "end" => status' # "waiting")
  BY <1>0 DEF PinEntered, PinDismissed, SetStatus, sessionVars, SessionStatus, Exists
<1>3. \A f \in File : files'[f] \in {"queue", files[f]}
  BY <1>1
<1>4. status' = "none" => \A f \in File : files'[f] = "queue"
  BY <1>1, <1>2 DEF IInv, Safe, GoneIsEmpty, Exists
<1>5. QED
  BY <1>0, <1>1, <1>2, <1>3, <1>4, BeforeLoopSafe

LEMMA NothingSelectedSafe == ASSUME IInv, NothingSelected PROVE Safe'
<1>1. \A f \in File : files'[f] = "queue"
  BY DEF NothingSelected, CloseAs, Removed
<1>2. QED
  BY <1>1, BeforeLoopSafe DEF NothingSelected, CloseAs, Removed, taskVars, ghostVars

LEMMA AcceptedSafe ==
  ASSUME IInv, NEW granted \in SUBSET File, PrepareAccepted(granted)
  PROVE  Safe'
<1>1. /\ exited = {} /\ selection /\ status \in {"none", "waiting"}
      /\ \A t \in Task : task[t] = NoFile
  BY DEF IInv, Safe, NothingStarted, Running, PrepareAccepted
<1>2. /\ start' = "loop" /\ tokens' = granted
      /\ UNCHANGED <<exited, task, canceled, selection, sent, retried, cleared>>
  BY DEF PrepareAccepted, taskVars, ghostVars
<1>3. /\ queue' \in Seq(File)
      /\ \A i, j \in 1..Len(queue') : queue'[i] = queue'[j] => i = j
      /\ \A f \in File : \E i \in 1..Len(queue') : queue'[i] = f
  BY QueueOfFiles DEF PrepareAccepted
<1>4. \/ /\ status # "none" /\ status' = "sending"
         /\ \A f \in File : files'[f] = IF f \in granted THEN "queue" ELSE "skipped"
      \/ status = "none" /\ status' = "none" /\ files' = files
  BY DEF PrepareAccepted, Exists
<1>5. NothingStarted' /\ ExitedIsDone' /\ RetryIsMarked' /\ NoOrphanUpload'
      /\ TasksListed' /\ TasksDistinct' /\ FinishedWithoutRetry'
  BY <1>1, <1>2, <1>4 DEF NothingStarted, ExitedIsDone, RetryIsMarked, NoOrphanUpload,
     TasksListed, TasksDistinct, FinishedWithoutRetry, Running, Task
<1>6. GoneIsEmpty' /\ FinishedWasSent' /\ SendingHasTask'
  BY <1>2, <1>4 DEF IInv, Safe, GoneIsEmpty, FinishedWasSent, SendingHasTask, Exists
<1>7. QueueOnce' /\ QueueNotStarted' /\ GrantedWaits' /\ OverIsQuiet'
  <2>1. \A i \in 1..Len(queue') : queue'[i] \in File
    BY <1>3
  <2>2. QED
    BY <2>1, <1>2, <1>3, <1>4 DEF QueueOnce, QueueNotStarted, GrantedWaits, OverIsQuiet, Exists
<1>8. QED
  BY <1>5, <1>6, <1>7 DEF Safe

\* The session is removed; uploads may have ended meanwhile.
LEMMA RemovedSafe ==
  ASSUME IInv, Removed,
         start \in {"loop", "end"} \/ start' = start,
         start' \in {"loop", "end"} \/ start' = start,
         selection' # selection => start' \in {"loop", "end"},
         \A t \in Task : task'[t] \in {task[t], NoFile},
         UNCHANGED <<tokens, queue, exited, retried>>,
         NoOrphanUpload', FinishedWithoutRetry'
  PROVE  Safe'
<1>0. status' = "none" /\ \A f \in File : files'[f] = "queue"
  BY DEF Removed
<1>1. start # "idle" \/ (start' = "idle" /\ selection' = selection)
  BY DEF IInv
<1>2. NothingStarted' /\ ExitedIsDone' /\ RetryIsMarked'
  BY <1>0 DEF IInv, Safe, TypeOK, NothingStarted, ExitedIsDone, RetryIsMarked, Running, Task
<1>3. GoneIsEmpty' /\ TasksListed' /\ TasksDistinct' /\ FinishedWasSent' /\ SendingHasTask'
      /\ QueueNotStarted' /\ GrantedWaits' /\ OverIsQuiet'
  BY <1>0 DEF GoneIsEmpty, TasksListed, TasksDistinct, FinishedWasSent, SendingHasTask,
     QueueNotStarted, GrantedWaits, OverIsQuiet, Exists
<1>4. QueueOnce'
  BY DEF IInv, Safe, QueueOnce
<1>5. QED
  BY <1>2, <1>3, <1>4 DEF Safe

LEMMA CancelSafe == ASSUME IInv, CancelSession PROVE Safe'
<1>1. NoOrphanUpload'
  BY DEF IInv, Safe, NoOrphanUpload, TasksListed, Running, Task, Exists, CancelSession,
     taskVars, ghostVars
<1>2. FinishedWithoutRetry'
  BY DEF IInv, Safe, FinishedWithoutRetry, CancelSession, CloseAs, Removed, loopVars,
     ghostVars
<1>3. Removed /\ UNCHANGED <<start, selection, task, tokens, queue, exited, retried>>
  BY DEF CancelSession, CloseAs, loopVars, taskVars, ghostVars
<1>4. QED
  BY <1>1, <1>2, <1>3, RemovedSafe

LEMMA CloseSafe == ASSUME IInv, CloseSession PROVE Safe'
<1>0. start \in {"loop", "end"} /\ start' = start /\ Removed
      /\ UNCHANGED <<task, tokens, queue, exited, canceled, sent, retried, cleared>>
  BY DEF IInv, Safe, TypeOK, NothingStarted, CloseSession, CloseAs, Exists, loopVars,
     taskVars, ghostVars
<1>1. NoOrphanUpload'
  BY <1>0 DEF IInv, Safe, NoOrphanUpload, OverIsQuiet, Running, CloseSession, Exists
<1>2. FinishedWithoutRetry'
  BY <1>0 DEF IInv, Safe, FinishedWithoutRetry, CloseSession, CloseAs, Removed
<1>3. QED
  BY <1>0, <1>1, <1>2, RemovedSafe

LEMMA ClearSafe == ASSUME IInv, ClearAllSessions PROVE Safe'
<1>0. Removed /\ UNCHANGED <<start, selection, task, tokens, queue, exited, sent, retried>>
      /\ cleared'
  BY DEF ClearAllSessions, loopVars, taskVars
<1>1. NoOrphanUpload' /\ FinishedWithoutRetry'
  BY <1>0 DEF IInv, Safe, NoOrphanUpload, FinishedWithoutRetry, Removed
<1>2. QED
  BY <1>0, <1>1, RemovedSafe

LEMMA CancelByReceiverSafe == ASSUME IInv, CancelByReceiver PROVE Safe'
<1>0. /\ status = "sending" /\ status' = "canceledByReceiver"
      /\ canceled' = canceled \cup sendingTasks
      /\ UNCHANGED <<files, sendingTasks, start, task, tokens, queue, exited, selection,
                     sent, retried, cleared>>
  BY DEF CancelByReceiver, loopVars, taskVars, ghostVars
<1>1. NothingStarted' /\ ExitedIsDone' /\ RetryIsMarked'
  BY <1>0 DEF IInv, Safe, NothingStarted, ExitedIsDone, RetryIsMarked, Running
<1>2. NoOrphanUpload' /\ TasksListed' /\ TasksDistinct'
  BY <1>0 DEF IInv, Safe, NoOrphanUpload, TasksListed, TasksDistinct, Running, Exists, Task
<1>3. GoneIsEmpty' /\ FinishedWasSent' /\ SendingHasTask' /\ FinishedWithoutRetry'
  BY <1>0 DEF IInv, Safe, GoneIsEmpty, FinishedWasSent, SendingHasTask,
     FinishedWithoutRetry, Exists
<1>4. QueueOnce' /\ QueueNotStarted' /\ GrantedWaits' /\ OverIsQuiet'
  BY <1>0 DEF IInv, Safe, QueueOnce, QueueNotStarted, GrantedWaits, OverIsQuiet, Exists,
     allowedStates
<1>5. QED
  BY <1>1, <1>2, <1>3, <1>4 DEF Safe

\* Nothing the safety part speaks of changes.
LEMMA FrameSafe ==
  ASSUME IInv,
         UNCHANGED <<files, sendingTasks, start, status, task, tokens, queue, exited,
                     selection, canceled, sent, retried, cleared>>
  PROVE  Safe'
  BY DEF IInv, Safe, NothingStarted, ExitedIsDone, RetryIsMarked, NoOrphanUpload, TasksListed,
     TasksDistinct, GoneIsEmpty, FinishedWasSent, SendingHasTask, FinishedWithoutRetry,
     QueueOnce, QueueNotStarted, GrantedWaits, OverIsQuiet, Exists, Running

LEMMA ExitLoopSafe == ASSUME IInv, NEW w \in Worker, ExitLoop(w) PROVE Safe'
<1>0. /\ start = "loop" /\ task[w] = NoFile /\ queue = <<>> /\ exited' = exited \cup {w}
      /\ UNCHANGED <<files, sendingTasks, start, status, task, tokens, queue, selection,
                     canceled, sent, retried, cleared>>
  BY DEF ExitLoop, sessionVars, taskVars, ghostVars
<1>1. NothingStarted' /\ ExitedIsDone'
  BY <1>0 DEF IInv, Safe, NothingStarted, ExitedIsDone, Running
<1>2. QED
  BY <1>0, <1>1 DEF IInv, Safe, RetryIsMarked, NoOrphanUpload, TasksListed, TasksDistinct,
     GoneIsEmpty, FinishedWasSent, SendingHasTask, FinishedWithoutRetry, QueueOnce,
     QueueNotStarted, GrantedWaits, OverIsQuiet, Exists, Running

\* Once the loops are over without a failed file, what is not sent is retried.
LEMMA LoopOverSent ==
  ASSUME IInv, start = "loop", exited = Worker, status = "sending",
         \A f \in File : files[f] # "failed"
  PROVE  \A f \in tokens : f \in sent \/ f \in retried
<1> SUFFICES ASSUME NEW f \in tokens, f \notin sent
             PROVE  f \in retried
  OBVIOUS
<1>0. f \in File /\ files[f] \in FileStatus /\ queue = <<>>
  BY SendAssumption DEF IInv, Safe, TypeOK, ExitedIsDone
<1>1. files[f] # "queue"
  BY <1>0 DEF IInv, Safe, GrantedWaits, Exists, allowedStates
<1>2. files[f] = "sending"
  BY <1>0, <1>1 DEF IInv, Safe, GrantedWaits, Exists, FinishedWasSent, FileStatus
<1>3. PICK t \in Task : task[t] = f
  BY <1>0, <1>2 DEF IInv, Safe, SendingHasTask
<1>4. Running(t)
  BY <1>0, <1>3, SendAssumption DEF Running
<1>5. t \in Retry
  BY <1>4 DEF IInv, Safe, ExitedIsDone, Task
<1>6. QED
  BY <1>3, <1>4, <1>5 DEF IInv, Safe, RetryIsMarked

LEMMA LoopFinishedSafe == ASSUME IInv, LoopFinished PROVE Safe'
<1>0. /\ start = "loop" /\ start' = "end" /\ exited = Worker
      /\ UNCHANGED <<task, tokens, queue, exited, canceled, sent, retried, cleared>>
  BY DEF LoopFinished, taskVars, ghostVars
<1>1. \A w \in Worker : ~Running(w)
  BY <1>0 DEF IInv, Safe, ExitedIsDone
<1>2. NoOrphanUpload'
  BY <1>0, <1>1 DEF NoOrphanUpload, Running
<1>3. queue = <<>>
  BY <1>0, SendAssumption DEF IInv, Safe, ExitedIsDone
<1>4. CASE CloseAs("sending") /\ status = "sending"
  <2>1. Removed /\ selection' = selection
    BY <1>4 DEF CloseAs
  <2>2. FinishedWithoutRetry'
    BY <1>0, <2>1 DEF IInv, Safe, FinishedWithoutRetry, Removed
  <2>3. QED
    BY <1>0, <1>2, <2>1, <2>2, RemovedSafe
<1>5. CASE ~(CloseAs("sending") /\ status = "sending")
  <2>1. /\ files' = files /\ selection' = selection
        /\ \/ status' = status
           \/ status = "sending" /\ status' = "finishedWithErrors"
           \/ status = "sending" /\ status' = "finished" /\ \A f \in File : files[f] # "failed"
    BY <1>5 DEF LoopFinished, Finish
  <2>2. status # "waiting"
    BY <1>0 DEF IInv, Safe, NothingStarted
  <2>3. sendingTasks' = sendingTasks \/ status' = "none"
    BY DEF LoopFinished
  <2>4. FinishedWithoutRetry'
    BY <1>0, <2>1, LoopOverSent DEF IInv, Safe, FinishedWithoutRetry
  <2>5. NothingStarted' /\ ExitedIsDone' /\ RetryIsMarked'
    BY <1>0, <2>1, <2>2 DEF IInv, Safe, NothingStarted, ExitedIsDone, RetryIsMarked, Running
  <2>6. GoneIsEmpty' /\ TasksListed' /\ TasksDistinct' /\ FinishedWasSent' /\ SendingHasTask'
    BY <1>0, <2>1, <2>3 DEF IInv, Safe, GoneIsEmpty, TasksListed, TasksDistinct,
       FinishedWasSent, SendingHasTask, Exists, Running
  <2>7. QueueOnce' /\ QueueNotStarted' /\ GrantedWaits' /\ OverIsQuiet'
    BY <1>0, <1>1, <1>3, <2>1 DEF IInv, Safe, QueueOnce, QueueNotStarted, GrantedWaits,
       OverIsQuiet, Exists, Running, allowedStates
  <2>8. QED
    BY <1>2, <2>4, <2>5, <2>6, <2>7 DEF Safe
<1>6. QED
  BY <1>4, <1>5

LEMMA TakeFileSafe == ASSUME IInv, NEW w \in Worker, TakeFile(w) PROVE Safe'
<1> DEFINE f == Head(queue)
<1>0. /\ start = "loop" /\ w \notin exited /\ task[w] = NoFile /\ queue # <<>>
      /\ queue' = Tail(queue) /\ w \in Task
      /\ UNCHANGED <<status, start, tokens, exited, canceled, selection, sent, retried,
                     cleared>>
  BY DEF TakeFile, ghostVars, Task
<1>1. /\ queue \in Seq(File) /\ f \in File /\ f = queue[1] /\ 1 \in 1..Len(queue)
      /\ \A i \in 1..Len(queue') : i + 1 \in 1..Len(queue) /\ queue'[i] = queue[i + 1]
      /\ \A i \in 1..Len(queue) :
           i # 1 => i - 1 \in 1..Len(queue') /\ queue'[i - 1] = queue[i]
  BY <1>0, TailQueue DEF IInv, TypeOK
<1>2. exited = {}
  BY <1>0 DEF IInv, Safe, ExitedIsDone
<1> HIDE DEF f
<1>3. QueueOnce' /\ \A i \in 1..Len(queue') : queue'[i] # f
  BY <1>1 DEF IInv, Safe, QueueOnce
<1>4. CASE f \in tokens /\ status \in allowedStates
  <2>1. BeginUpload(w, f)
    BY <1>4 DEF TakeFile, f
  <2>2. /\ files'[f] = "sending" /\ \A g \in File : g # f => files'[g] = files[g]
        /\ task'[w] = f /\ \A u \in Task : u # w => task'[u] = task[u]
        /\ sendingTasks' = sendingTasks \cup {w}
    BY <1>0, <1>1, <2>1 DEF BeginUpload, IInv, TypeOK
  <2>3. files[f] = "queue"
    BY <1>1, <1>4 DEF IInv, Safe, QueueNotStarted, GrantedWaits, Exists, allowedStates
  <2>4. status = "sending"
    BY <1>1, <1>4 DEF IInv, Safe, OverIsQuiet, allowedStates
  <2>5. f # NoFile /\ \A u \in Task : task[u] # NoFile => task[u] \in File /\ task[u] # f
    <3>1. \A u \in Task : task[u] # NoFile => files[task[u]] = "sending"
      BY <2>4 DEF IInv, Safe, TasksListed, Exists, Running
    <3>2. \A u \in Task : task[u] # NoFile => task[u] \in File
      BY DEF IInv, TypeOK
    <3>3. QED
      BY <1>1, <2>3, <3>1, <3>2, SendAssumption
  <2>6. NothingStarted' /\ ExitedIsDone' /\ NoOrphanUpload' /\ FinishedWithoutRetry'
    BY <1>0, <1>2, <2>4 DEF IInv, Safe, NothingStarted, ExitedIsDone, NoOrphanUpload,
       FinishedWithoutRetry, Running
  <2>7. RetryIsMarked'
    BY <1>0, <2>2, SendAssumption DEF IInv, Safe, RetryIsMarked, Running, Task
  <2>8. GoneIsEmpty' /\ TasksListed' /\ TasksDistinct' /\ OverIsQuiet'
    BY <1>0, <1>1, <2>2, <2>4, <2>5 DEF IInv, Safe, GoneIsEmpty, TasksListed, TasksDistinct,
       OverIsQuiet, Exists, Running
  <2>9. FinishedWasSent' /\ SendingHasTask'
    BY <1>0, <1>1, <2>2, SendAssumption DEF IInv, Safe, FinishedWasSent, SendingHasTask
  <2>10. QueueNotStarted'
    BY <1>0, <1>1, <1>3, <2>2, <2>4 DEF IInv, Safe, QueueNotStarted, Exists
  <2>11. GrantedWaits'
    <3>1. ASSUME NEW g \in tokens, files'[g] = "queue"
          PROVE  \E i \in 1..Len(queue') : queue'[i] = g
      <4>1. g # f /\ files[g] = "queue"
        BY <3>1, <2>2 DEF IInv, TypeOK
      <4>2. PICK i \in 1..Len(queue) : queue[i] = g
        BY <4>1, <1>4 DEF IInv, Safe, GrantedWaits, Exists, allowedStates
      <4>3. i # 1
        BY <4>1, <4>2, <1>1
      <4>4. QED
        BY <4>2, <4>3, <1>1
    <3>2. \A g \in tokens : files'[g] # "skipped"
      BY <2>2, <2>4 DEF IInv, Safe, TypeOK, GrantedWaits, Exists
    <3>3. QED
      BY <1>0, <3>1, <3>2 DEF GrantedWaits
  <2>12. QED
    BY <1>3, <2>6, <2>7, <2>8, <2>9, <2>10, <2>11 DEF Safe
<1>5. CASE ~(f \in tokens /\ status \in allowedStates)
  <2>1. UNCHANGED <<files, task, sendingTasks>>
    BY <1>5 DEF TakeFile, f
  <2>2. NothingStarted' /\ ExitedIsDone' /\ NoOrphanUpload' /\ FinishedWithoutRetry'
        /\ RetryIsMarked'
    BY <1>0, <1>2, <2>1 DEF IInv, Safe, NothingStarted, ExitedIsDone, NoOrphanUpload,
       FinishedWithoutRetry, RetryIsMarked, Running
  <2>3. GoneIsEmpty' /\ TasksListed' /\ TasksDistinct' /\ FinishedWasSent' /\ SendingHasTask'
    BY <1>0, <2>1 DEF IInv, Safe, GoneIsEmpty, TasksListed, TasksDistinct, FinishedWasSent,
       SendingHasTask, Exists, Running
  <2>4. QueueNotStarted' /\ OverIsQuiet'
    BY <1>0, <1>1, <2>1 DEF IInv, Safe, QueueNotStarted, OverIsQuiet, Exists, Running
  <2>5. GrantedWaits'
    <3>1. ASSUME NEW g \in tokens, status \in allowedStates, files[g] = "queue"
          PROVE  \E i \in 1..Len(queue') : queue'[i] = g
      <4>1. PICK i \in 1..Len(queue) : queue[i] = g
        BY <3>1 DEF IInv, Safe, GrantedWaits, Exists, allowedStates
      <4>2. i # 1
        BY <3>1, <4>1, <1>1, <1>5
      <4>3. QED
        BY <4>1, <4>2, <1>1
    <3>2. QED
      BY <1>0, <2>1, <3>1 DEF IInv, Safe, GrantedWaits, Exists
  <2>6. QED
    BY <1>3, <2>2, <2>3, <2>4, <2>5 DEF Safe
<1>6. QED
  BY <1>4, <1>5

LEMMA RetryFileSafe ==
  ASSUME IInv, NEW t \in Retry, NEW f \in File, RetryFile(t, f)
  PROVE  Safe'
<1>0. /\ Idle /\ t \in Task /\ task[t] = NoFile /\ status \in allowedStates /\ f \in tokens
      /\ files[f] = "failed" /\ status' = "sending" /\ retried' = retried \cup {f}
      /\ UNCHANGED <<start, tokens, queue, exited, canceled, selection, sent, cleared>>
  BY DEF RetryFile, loopVars, Task
<1>1. /\ files'[f] = "sending" /\ \A g \in File : g # f => files'[g] = files[g]
      /\ task'[t] = f /\ \A u \in Task : u # t => task'[u] = task[u]
      /\ sendingTasks' = sendingTasks \cup {t}
  BY <1>0 DEF RetryFile, BeginUpload, IInv, TypeOK
<1>2. f # NoFile /\ \A u \in Task : task[u] # NoFile => task[u] \in File /\ task[u] # f
  <2>1. \A u \in Task : task[u] # NoFile => files[task[u]] = "sending"
    BY <1>0 DEF IInv, Safe, TasksListed, Exists, Running, allowedStates
  <2>2. \A u \in Task : task[u] # NoFile => task[u] \in File
    BY DEF IInv, TypeOK
  <2>3. QED
    BY <1>0, <2>1, <2>2, SendAssumption
<1>3. start \in {"loop", "end"}
  BY <1>0 DEF IInv, Safe, TypeOK, NothingStarted
<1>4. \A w \in Worker : w # t /\ w \in Task
  BY SendAssumption DEF Task
<1>5. NothingStarted' /\ NoOrphanUpload' /\ GoneIsEmpty' /\ OverIsQuiet'
  BY <1>0, <1>3 DEF IInv, Safe, NothingStarted, NoOrphanUpload, GoneIsEmpty, OverIsQuiet,
     Exists
<1>6. FinishedWithoutRetry'
  BY <1>0 DEF IInv, Safe, FinishedWithoutRetry
<1>7. ExitedIsDone'
  BY <1>0, <1>1, <1>4 DEF IInv, Safe, TypeOK, ExitedIsDone, Running
<1>8. RetryIsMarked'
  BY <1>0, <1>1 DEF IInv, Safe, RetryIsMarked, Running, Task
<1>9. TasksListed' /\ TasksDistinct'
  BY <1>0, <1>1, <1>2 DEF IInv, Safe, TasksListed, TasksDistinct, Running, Exists,
     allowedStates
<1>10. FinishedWasSent' /\ SendingHasTask'
  BY <1>0, <1>1, SendAssumption DEF IInv, Safe, FinishedWasSent, SendingHasTask
<1>11. QueueOnce' /\ QueueNotStarted'
  <2>1. \A i \in 1..Len(queue) : queue[i] \in File
    BY DEF IInv, TypeOK
  <2>2. QED
    BY <1>0, <1>1, <2>1 DEF IInv, Safe, QueueOnce, QueueNotStarted, Exists, allowedStates
<1>12. GrantedWaits'
  <2>1. tokens \subseteq File
    BY DEF IInv, TypeOK
  <2>2. QED
    BY <1>0, <1>1, <2>1 DEF IInv, Safe, GrantedWaits, Exists, allowedStates
<1>13. QED
  BY <1>5, <1>6, <1>7, <1>8, <1>9, <1>10, <1>11, <1>12 DEF Safe

\* The upload of a session that still exists ends, and the session with it
\* only if every file is over.
LEMMA EndedSafe ==
  ASSUME IInv, NEW t \in Task, NEW f \in File, NEW st \in {"finished", "failed"},
         Exists, task[t] = f, task' = [task EXCEPT ![t] = NoFile],
         files' = [files EXCEPT ![f] = st],
         sendingTasks' = sendingTasks \ {t},
         st = "finished" => f \in sent',
         sent \subseteq sent',
         \/ status' = status
         \/ /\ status = "sending" /\ status' \in {"finished", "finishedWithErrors"}
            /\ isFinishedOrError(files')
            /\ status' = "finished" => \A g \in File : files'[g] # "failed",
         UNCHANGED <<start, tokens, queue, exited, canceled, selection, retried, cleared>>
  PROVE  Safe'
<1>0. /\ files'[f] = st /\ \A g \in File : g # f => files'[g] = files[g]
      /\ task'[t] = NoFile /\ \A u \in Task : u # t => task'[u] = task[u]
  BY DEF IInv, TypeOK
<1>1. Running(t) /\ files[f] = "sending" /\ f # NoFile
  BY SendAssumption DEF Running, IInv, Safe, TasksListed
<1>2. start \in {"loop", "end"} /\ status # "none" /\ status' # "none" /\ status' # "waiting"
  BY <1>1 DEF IInv, Safe, TypeOK, NothingStarted, Exists
<1>3. /\ Worker \subseteq Task /\ Retry \subseteq Task /\ exited \subseteq Task
      /\ \A u \in Task : task'[u] # NoFile => u # t /\ task'[u] = task[u]
  BY <1>0 DEF IInv, TypeOK, Task
<1>4. FinishedWasSent'
  BY <1>0 DEF IInv, Safe, FinishedWasSent
<1>5. FinishedWithoutRetry'
  <2>1. CASE status' = status
    BY <2>1 DEF IInv, Safe, FinishedWithoutRetry
  <2>2. CASE status' = "finishedWithErrors"
    BY <2>2 DEF IInv, Safe, FinishedWithoutRetry
  <2>3. CASE status' # status /\ status' = "finished"
    <3>1. ASSUME NEW g \in tokens
          PROVE  g \in sent'
      <4>1. g \in File /\ files'[g] \in {"skipped", "failed", "finished"}
        BY <2>3 DEF IInv, TypeOK, isFinishedOrError
      <4>2. files'[g] # "skipped"
        BY <1>0, <1>2, <4>1 DEF IInv, Safe, GrantedWaits, Exists
      <4>3. QED
        BY <1>4, <2>3, <4>1, <4>2 DEF FinishedWasSent
    <3>2. QED
      BY <3>1 DEF FinishedWithoutRetry
  <2>4. QED
    BY <2>1, <2>2, <2>3
<1>6. TasksListed' /\ TasksDistinct'
  <2>1. \A u \in Task : u # t /\ task[u] # NoFile => task[u] # f /\ task[u] \in File
    BY <1>1 DEF IInv, Safe, TypeOK, TasksDistinct, Running
  <2>2. QED
    BY <1>0, <1>2, <1>3, <2>1 DEF IInv, Safe, TasksListed, TasksDistinct, Running, Exists
<1>7. NothingStarted' /\ GoneIsEmpty'
  BY <1>2 DEF NothingStarted, GoneIsEmpty, Exists
<1>8. ExitedIsDone' /\ RetryIsMarked'
  BY <1>3 DEF IInv, Safe, ExitedIsDone, RetryIsMarked, Running
<1>9. NoOrphanUpload'
  BY <1>2, <1>3 DEF IInv, Safe, NoOrphanUpload, Running
<1>10. SendingHasTask'
  BY <1>0, <1>1, <1>3 DEF IInv, Safe, SendingHasTask
<1>11. \A i \in 1..Len(queue) : queue[i] \in File /\ queue[i] # f
  BY <1>1, <1>2 DEF IInv, Safe, TypeOK, QueueNotStarted, Exists
<1>12. QueueOnce' /\ QueueNotStarted'
  BY <1>0, <1>2, <1>11 DEF IInv, Safe, QueueOnce, QueueNotStarted, Exists
<1>13. GrantedWaits'
  <2>1. status' \in allowedStates => status \in allowedStates
    BY DEF allowedStates
  <2>2. tokens \subseteq File
    BY DEF IInv, TypeOK
  <2>3. QED
    BY <1>0, <1>2, <2>1, <2>2 DEF IInv, Safe, GrantedWaits, Exists
<1>14. OverIsQuiet'
  <2>1. CASE status' = status
    BY <1>3, <2>1 DEF IInv, Safe, OverIsQuiet, Running
  <2>2. CASE status' # status
    <3>1. \A w \in Worker : task'[w] = NoFile
      BY <1>2, <1>3, <1>6, <2>2 DEF TasksListed, Exists, Running, isFinishedOrError, IInv, TypeOK
    <3>2. ASSUME NEW i \in 1..Len(queue)
          PROVE  queue[i] \notin tokens
      <4>1. files'[queue[i]] = "skipped"
        BY <1>11, <1>12, <1>2, <2>2 DEF QueueNotStarted, Exists, isFinishedOrError
      <4>2. QED
        BY <4>1, <1>13, <1>2 DEF GrantedWaits, Exists
    <3>3. QED
      BY <3>1, <3>2 DEF OverIsQuiet, Running
  <2>3. QED
    BY <2>1, <2>2
<1>15. QED
  BY <1>4, <1>5, <1>6, <1>7, <1>8, <1>9, <1>10, <1>12, <1>13, <1>14 DEF Safe

LEMMA UploadEndedSafe ==
  ASSUME IInv, NEW t \in Task, NEW ok \in BOOLEAN, UploadEnded(t, ok)
  PROVE  Safe'
<1> DEFINE f == task[t]
           st == IF ok THEN "finished" ELSE "failed"
           fs == [files EXCEPT ![f] = st]
<1>0. /\ f \in File /\ f # NoFile /\ task' = [task EXCEPT ![t] = NoFile]
      /\ sent' = (IF ok THEN sent \cup {f} ELSE sent)
      /\ UNCHANGED <<start, tokens, queue, exited, canceled, retried, cleared>>
  BY DEF UploadEnded, loopVars, IInv, TypeOK
<1>1. \A u \in Task : task'[u] \in {task[u], NoFile}
  BY <1>0 DEF IInv, TypeOK
<1>2. sent \subseteq sent' /\ (st = "finished" => f \in sent') /\ st \in {"finished", "failed"}
  BY <1>0
<1>3. CASE Exists /\ status' # "none"
  <2>1. /\ files' = fs /\ sendingTasks' = sendingTasks \ {t} /\ selection' = selection
        /\ \/ status' = status
           \/ /\ status = "sending" /\ status' \in {"finished", "finishedWithErrors"}
              /\ isFinishedOrError(fs)
              /\ status' = "finished" => \A g \in File : fs[g] # "failed"
    BY <1>3 DEF UploadEnded, Finish, CloseAs, Removed, Exists
  <2> HIDE DEF st
  <2>2. QED
    BY <1>0, <1>2, <1>3, <2>1, EndedSafe
<1>4. CASE Exists /\ status' = "none"
  <2>1. Removed /\ selection' = selection /\ isFinishedOrError(fs)
    BY <1>4 DEF UploadEnded, Finish, CloseAs, Removed, Exists
  <2>2. start \in {"loop", "end"}
    BY <1>0 DEF IInv, Safe, TypeOK, NothingStarted, Running
  <2>3. FinishedWithoutRetry'
    BY <1>0, <1>2, <2>1 DEF IInv, Safe, FinishedWithoutRetry, Removed
  <2>4. ASSUME NEW w \in Worker
        PROVE  task'[w] = NoFile
    <3>1. w \in Task
      BY DEF Task
    <3>2. CASE w = t
      BY <1>0, <3>1, <3>2 DEF IInv, TypeOK
    <3>3. CASE w # t /\ task[w] # NoFile
      <4>1. task[w] \in File /\ files[task[w]] = "sending" /\ task[w] # f
        BY <1>4, <1>0, <3>1, <3>3 DEF IInv, Safe, TypeOK, TasksListed, TasksDistinct, Running
      <4>2. fs[task[w]] = "sending"
        BY <4>1 DEF IInv, TypeOK
      <4>3. QED
        BY <2>1, <4>1, <4>2 DEF isFinishedOrError
    <3>4. QED
      BY <1>1, <3>1, <3>2, <3>3
  <2>5. NoOrphanUpload'
    BY <2>4 DEF NoOrphanUpload
  <2>6. QED
    BY <1>0, <1>1, <2>1, <2>2, <2>3, <2>5, RemovedSafe
<1>5. CASE ~Exists
  <2>1. UNCHANGED <<status, files, sendingTasks, selection>>
    BY <1>5 DEF UploadEnded, sessionVars
  <2>2. start \in {"loop", "end"}
    BY <1>0 DEF IInv, Safe, TypeOK, NothingStarted, Running
  <2>3. GoneIsEmpty' /\ SendingHasTask' /\ FinishedWasSent'
    BY <1>5, <2>1 DEF IInv, Safe, GoneIsEmpty, SendingHasTask, FinishedWasSent, Exists
  <2>4. NothingStarted' /\ TasksListed' /\ TasksDistinct' /\ QueueNotStarted' /\ GrantedWaits'
        /\ OverIsQuiet'
    BY <1>0, <1>5, <2>1, <2>2 DEF NothingStarted, TasksListed, TasksDistinct,
       QueueNotStarted, GrantedWaits, OverIsQuiet, Exists
  <2>5. QueueOnce' /\ FinishedWithoutRetry'
    BY <1>0, <1>2, <2>1 DEF IInv, Safe, QueueOnce, FinishedWithoutRetry
  <2>6. ExitedIsDone' /\ RetryIsMarked' /\ NoOrphanUpload'
    BY <1>0, <1>1, <2>1 DEF IInv, Safe, TypeOK, ExitedIsDone, RetryIsMarked, NoOrphanUpload,
       Running, Task
  <2>7. QED
    BY <2>3, <2>4, <2>5, <2>6 DEF Safe
<1>6. QED
  BY <1>3, <1>4, <1>5

LEMMA NextSafe == ASSUME IInv, [Next]_vars PROVE Safe'
<1>1. CASE SetBackground
  BY <1>1, FrameSafe DEF SetBackground, loopVars, taskVars, ghostVars
<1>2. CASE UNCHANGED vars
  BY <1>2, FrameSafe DEF vars, sessionVars, loopVars, taskVars, ghostVars
<1>3. QED
  BY <1>1, <1>2, StartSafe, RefusedSafe, PinSafe, NothingSelectedSafe, AcceptedSafe,
     LoopFinishedSafe, TakeFileSafe, ExitLoopSafe, UploadEndedSafe, RetryFileSafe, CancelSafe,
     CloseSafe, CancelByReceiverSafe, ClearSafe DEF Next, Loop, Upload

\* The inductive invariant of the sender holds in every reachable state.
THEOREM Invariant == Spec => []IInv
<1>1. Init => IInv
  BY InitType, InitSafe DEF IInv
<1>2. IInv /\ [Next]_vars => IInv'
  BY NextType, NextSafe DEF IInv
<1>3. QED
  BY <1>1, <1>2, PTL DEF Spec

\* When a session is removed or canceled by the receiver, every upload of
\* _sendLoop that still runs has been told to stop, however many loops and
\* retries there are: cancelSession and cancelSessionByReceiver go by
\* sendingTasks, and sendFile lists itself there before its first await.
THEOREM NoOrphanUploadHolds == Spec => []NoOrphanUpload
<1>1. IInv => NoOrphanUpload
  BY DEF IInv, Safe
<1>2. QED
  BY <1>1, Invariant, PTL

\* A session is shown as finished, and the selection given up, only when every
\* file the receiver granted was sent or is being retried (_finish,
\* closeSession).
THEOREM FinishedWithoutRetryHolds == Spec => []FinishedWithoutRetry
<1>1. IInv => FinishedWithoutRetry
  BY DEF IInv, Safe
<1>2. QED
  BY <1>1, Invariant, PTL

\* No step of startSession, of the PIN dialog, of a loop or of a retry brings
\* a removed session back: updateSession leaves it removed.
THEOREM RemovedStaysRemovedHolds == Spec => RemovedStaysRemoved
<1> DEFINE A == start # "idle" /\ status = "none" => status' = "none"
<1>1. [Next]_vars => [A]_vars
  <2> SUFFICES ASSUME Next, start # "idle", status = "none"
               PROVE  status' = "none"
    BY DEF vars, sessionVars
  <2>1. CASE StartSession
    BY <2>1 DEF StartSession
  <2>2. ASSUME NEW code \in {"401", "403", "409", "429", "error"}, PrepareRefused(code)
        PROVE  status' = "none"
    BY <2>2 DEF PrepareRefused, SetStatus, Exists, sessionVars
  <2>3. CASE PinEntered \/ PinDismissed \/ NothingSelected
    BY <2>3 DEF PinEntered, PinDismissed, NothingSelected, SetStatus, CloseAs, Removed, Exists,
       sessionVars
  <2>4. ASSUME NEW granted \in SUBSET File, PrepareAccepted(granted)
        PROVE  status' = "none"
    BY <2>4 DEF PrepareAccepted, Exists
  <2>5. CASE LoopFinished
    BY <2>5 DEF LoopFinished, Finish
  <2>6. ASSUME NEW w \in Worker, TakeFile(w) \/ ExitLoop(w)
        PROVE  status' = "none"
    BY <2>6 DEF TakeFile, ExitLoop, sessionVars
  <2>7. ASSUME NEW t \in Task, NEW ok \in BOOLEAN, UploadEnded(t, ok)
        PROVE  status' = "none"
    BY <2>7 DEF UploadEnded, Exists, sessionVars
  <2>8. ASSUME NEW t \in Retry, NEW f \in File, RetryFile(t, f)
        PROVE  status' = "none"
    BY <2>8 DEF RetryFile, allowedStates
  <2>9. CASE CancelSession \/ CloseSession \/ CancelByReceiver \/ ClearAllSessions
             \/ SetBackground
    BY <2>9 DEF CancelSession, CloseSession, CancelByReceiver, ClearAllSessions,
       SetBackground, Exists
  <2>10. QED
    BY <2>1, <2>2, <2>3, <2>4, <2>5, <2>6, <2>7, <2>8, <2>9 DEF Next, Loop, Upload
<1>2. QED
  BY <1>1, PTL DEF Spec, RemovedStaysRemoved

=============================================================================
