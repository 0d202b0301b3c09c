---------------------------- MODULE SendSession ----------------------------
(***************************************************************************)
(* One session of the sending side of a transfer over HTTP                 *)
(* (app/lib/provider/network/send_provider.dart).                          *)
(*                                                                         *)
(* startSession asks the receiver, then _sendLoop lets one loop per upload *)
(* isolate take files from a common queue; meanwhile the user may retry    *)
(* files that failed, cancel, close the page or switch the send mode, and  *)
(* the receiver may cancel.  The session lives in a map of the provider:   *)
(* when it is removed, the code that is still running for it goes on and   *)
(* its updates change nothing (updateSession).                             *)
(*                                                                         *)
(* What is done between two awaits is one step.  The steps of _sendLoop    *)
(* run as microtasks, before the event loop handles another event: events  *)
(* (answers, clicks) happen only when the loops are Idle.                  *)
(***************************************************************************)
EXTENDS Integers, FiniteSets, SequencesExt

CONSTANTS
    File,         \* the files of the session
    NoFile,       \* what a task works on when it is idle
    Worker,       \* the loops of _sendLoop, one per upload isolate
    Retry,        \* bound of the model: the retries by the user
    InBackground, \* the values SendSessionState.background may have
    SingleMode,   \* whether the send mode is "single"
    ModeSwitch    \* bound of the model: whether the user switches the send mode

Task == Worker \cup Retry

ASSUME SendAssumption ==
    /\ IsFiniteSet(File)
    /\ NoFile \notin File
    /\ Worker # {}
    /\ Worker \cap Retry = {}
    /\ InBackground \subseteq BOOLEAN
    /\ SingleMode \in BOOLEAN
    /\ ModeSwitch \in BOOLEAN

VARIABLES
    start,         \* where startSession is
    status,        \* SendSessionState.status, "none" when not in the map
    remote,        \* whether remoteSessionId is known
    background,    \* SendSessionState.background
    files,         \* the status of every file
    tokens,        \* the files the receiver gave a token for
    queue,         \* the queue of _sendLoop
    exited,        \* the loops that have ended
    task,          \* the file each running sendFile uploads
    retries,       \* the retries that are over
    sendingTasks,  \* SendSessionState.sendingTasks
    canceled,      \* tasks whose isolate was told to cancel the request
    cancel_sent,   \* whether the receiver was sent a cancel
    selection,     \* whether the files are still selected in the app
    sent,          \* history variable: files whose upload was answered 200
    retried,       \* history variable: files the user retried
    cleared        \* history variable: whether clearAllSessions removed it

sessionVars == <<status, remote, background, files, sendingTasks>>
loopVars    == <<start, tokens, queue, exited>>
taskVars    == <<task, retries>>
ghostVars   == <<sent, retried, cleared>>
vars == <<sessionVars, loopVars, taskVars, canceled, cancel_sent, selection, ghostVars>>

------------------------------------------------------------------------------
FileStatus    == {"queue", "skipped", "sending", "failed", "finished"}
SessionStatus == {"waiting", "recipientBusy", "declined", "tooManyAttempts", "sending",
                  "finished", "finishedWithErrors", "canceledBySender",
                  "canceledByReceiver"}

Exists == status # "none"
allowedStates == {"sending", "finishedWithErrors"}
isFinishedOrError(fs) == \A f \in File : fs[f] \in {"skipped", "failed", "finished"}

\* No loop has anything to do before an upload ends.
Idle ==
    start = "loop" =>
      /\ exited # Worker
      /\ \A w \in Worker : task[w] # NoFile \/ w \in exited

\* What a removed session leaves: nothing.
Removed ==
    /\ status' = "none"
    /\ remote' = FALSE
    /\ background' = FALSE
    /\ files' = [f \in File |-> "queue"]
    /\ sendingTasks' = {}

Init ==
    /\ start = "idle"
    /\ status = "none"
    /\ remote = FALSE
    /\ background = FALSE
    /\ files = [f \in File |-> "queue"]
    /\ sendingTasks = {}
    /\ tokens = {}
    /\ queue = <<>>
    /\ exited = {}
    /\ task = [t \in Task |-> NoFile]
    /\ retries = {}
    /\ canceled = {}
    /\ cancel_sent = FALSE
    /\ selection = TRUE
    /\ sent = {}
    /\ retried = {}
    /\ cleared = FALSE

\* closeSession, with the status the session has by then.
CloseAs(st) ==
    /\ Removed
    /\ selection' = IF st = "finished" /\ SingleMode THEN FALSE ELSE selection

SetStatusAnyway(st) ==                                                \* mutant
    /\ status' = st
    /\ UNCHANGED <<remote, background, files, sendingTasks, selection>>

\* updateSession(status), which leaves a removed session removed.
SetStatus(st) ==
    /\ status' = IF Exists THEN st ELSE "none"
    /\ UNCHANGED <<remote, background, files, sendingTasks, selection>>

------------------------------------------------------------------------------
\* startSession.

StartSession ==
    /\ start = "idle"
    /\ start' = "prepare"
    /\ status' = "waiting"
    /\ background' \in InBackground
    /\ UNCHANGED <<remote, files, sendingTasks, tokens, queue, exited, taskVars,
                   canceled, cancel_sent, selection, ghostVars>>

PrepareRefusedRaw(code) ==                                            \* mutant
    /\ start = "prepare"
    /\ start' = "end"
    /\ SetStatus(code)
    /\ UNCHANGED <<tokens, queue, exited, taskVars, canceled, cancel_sent, ghostVars>>

\* /prepare-upload is answered with an error status, or not at all.
PrepareRefused(code) ==
    /\ start = "prepare"
    /\ code \in {"401", "403", "409", "429", "error"}
    /\ \/ /\ code = "401"
          /\ start' = "pin"
          /\ UNCHANGED <<sessionVars, selection>>
       \/ /\ code # "401"
          /\ start' = "end"
          /\ SetStatus(CASE code = "403" -> "declined"
                         [] code = "409" -> "recipientBusy"
                         [] code = "429" -> "tooManyAttempts"
                         [] OTHER -> "finishedWithErrors")
    /\ UNCHANGED <<tokens, queue, exited, taskVars, canceled, cancel_sent, ghostVars>>

\* The PIN dialog: another request with the PIN, even if the session is gone.
PinEntered ==
    /\ start = "pin"
    /\ start' = "prepare"
    /\ UNCHANGED <<sessionVars, tokens, queue, exited, taskVars, canceled,
                   cancel_sent, selection, ghostVars>>

PinDismissed ==
    /\ start = "pin"
    /\ start' = "end"
    /\ SetStatus("canceledBySender")
    /\ UNCHANGED <<tokens, queue, exited, taskVars, canceled, cancel_sent, ghostVars>>

\* 204, or 200 without a file: finished, and closed at once.
NothingSelected ==
    /\ start = "prepare"
    /\ start' = "end"
    /\ CloseAs(IF Exists THEN "finished" ELSE "none")
    /\ UNCHANGED <<tokens, queue, exited, taskVars, canceled, cancel_sent, ghostVars>>

\* 200: the session is updated, and _sendLoop begins with all its files.
PrepareAccepted(granted) ==
    /\ start = "prepare"
    /\ granted # {}
    /\ granted \subseteq File
    /\ start' = "loop"
    /\ tokens' = granted
    /\ queue' \in SetToSeqs(File)
    /\ \/ /\ Exists
          /\ status' = "sending"
          /\ remote' = TRUE
          /\ files' = [f \in File |-> IF f \in granted THEN "queue" ELSE "skipped"]
       \/ /\ ~Exists
          /\ UNCHANGED <<status, remote, files>>
    /\ UNCHANGED <<background, sendingTasks, exited, taskVars, canceled,
                   cancel_sent, selection, ghostVars>>

------------------------------------------------------------------------------
FinishIgnoringErrors(fs) ==                                           \* mutant
    /\ status' = IF status = "sending" THEN "finished" ELSE status
    /\ files' = fs
    /\ UNCHANGED <<remote, background, selection>>

\* _finish, with the files' status by then.
Finish(fs) ==
    LET hasError == \E f \in File : fs[f] = "failed" IN
    \/ /\ status = "sending" /\ ~hasError /\ background
       /\ CloseAs("sending")
    \/ /\ status = "sending" /\ (hasError \/ ~background)
       /\ status' = IF hasError THEN "finishedWithErrors" ELSE "finished"
       /\ files' = fs
       /\ UNCHANGED <<remote, background, selection>>
    \/ /\ status # "sending"
       /\ files' = fs
       /\ UNCHANGED <<status, remote, background, selection>>

\* What sendFile does up to its first await.
BeginUpload(t, f) ==
    /\ files' = [files EXCEPT ![f] = "sending"]
    /\ task' = [task EXCEPT ![t] = f]
    /\ sendingTasks' = sendingTasks \cup {t}

\* A loop takes the next file.  Files without token, and all files once the
\* session is gone or canceled, are passed over.
TakeFile(w) ==
    LET f == Head(queue) IN
    /\ start = "loop"
    /\ w \notin exited
    /\ task[w] = NoFile
    /\ queue # <<>>
    /\ queue' = Tail(queue)
    /\ \/ /\ f \in tokens /\ status \in allowedStates
          /\ BeginUpload(w, f)
       \/ /\ f \notin tokens \/ status \notin allowedStates
          /\ UNCHANGED <<files, task, sendingTasks>>
    /\ UNCHANGED <<status, remote, background, start, tokens, exited, retries,
                   canceled, cancel_sent, selection, ghostVars>>

ExitLoop(w) ==
    /\ start = "loop"
    /\ w \notin exited
    /\ task[w] = NoFile
    /\ queue = <<>>
    /\ exited' = exited \cup {w}
    /\ UNCHANGED <<sessionVars, start, tokens, queue, taskVars, canceled, cancel_sent,
                   selection, ghostVars>>

\* Future.wait is over.
LoopFinished ==
    /\ start = "loop"
    /\ exited = Worker
    /\ start' = "end"
    /\ Finish(files)
    /\ sendingTasks' = IF status' = "none" THEN {} ELSE sendingTasks
    /\ UNCHANGED <<tokens, queue, exited, taskVars, canceled, cancel_sent, ghostVars>>

\* The refresh button of a failed file, shown while the session exists.
RetryFile(t, f) ==
    /\ Idle
    /\ t \in Retry
    /\ t \notin retries
    /\ task[t] = NoFile
    /\ status \in allowedStates
    /\ f \in tokens
    /\ files[f] = "failed"
    /\ status' = "sending"
    /\ BeginUpload(t, f)
    /\ retried' = retried \cup {f}
    /\ UNCHANGED <<remote, background, loopVars, retries, canceled, cancel_sent,
                   selection, sent, cleared>>

UploadEndedWithoutFinish(t, ok) ==                                    \* mutant
    /\ Idle
    /\ task[t] # NoFile
    /\ task' = [task EXCEPT ![t] = NoFile]
    /\ retries' = IF t \in Retry THEN retries \cup {t} ELSE retries
    /\ sent' = IF ok THEN sent \cup {task[t]} ELSE sent
    /\ files' = IF Exists THEN [files EXCEPT ![task[t]] = IF ok THEN "finished" ELSE "failed"]
                          ELSE files
    /\ sendingTasks' = sendingTasks \ {t}
    /\ UNCHANGED <<status, remote, background, loopVars, canceled, cancel_sent,
                   selection, retried, cleared>>

\* The progress stream ends: the rest of sendFile, and of the loop around it
\* up to the next file.  A retry that was the last one finishes the session.
UploadEnded(t, ok) ==
    LET f == task[t]
        fs == [files EXCEPT ![f] = IF ok THEN "finished" ELSE "failed"]
    IN
    /\ Idle
    /\ f # NoFile
    /\ task' = [task EXCEPT ![t] = NoFile]
    /\ retries' = IF t \in Retry THEN retries \cup {t} ELSE retries
    /\ sent' = IF ok THEN sent \cup {f} ELSE sent
    /\ \/ /\ Exists
          /\ t \in Retry /\ isFinishedOrError(fs)
          /\ Finish(fs)
          /\ sendingTasks' = IF status' = "none" THEN {} ELSE sendingTasks \ {t}
       \/ /\ Exists
          /\ ~(t \in Retry /\ isFinishedOrError(fs))
          /\ files' = fs
          /\ sendingTasks' = sendingTasks \ {t}
          /\ UNCHANGED <<status, remote, background, selection>>
       \/ /\ ~Exists
          /\ UNCHANGED <<sessionVars, selection>>
    /\ UNCHANGED <<loopVars, canceled, cancel_sent, retried, cleared>>

------------------------------------------------------------------------------
\* The user and the receiver.

CancelSessionQuietly ==                                               \* mutant
    /\ Idle
    /\ status \in {"waiting", "sending"}
    /\ cancel_sent' = (cancel_sent \/ remote)
    /\ CloseAs(status)
    /\ UNCHANGED <<canceled, loopVars, taskVars, ghostVars>>

\* cancelSession.
CancelSession ==
    /\ Idle
    /\ status \in {"waiting", "sending"}
    /\ canceled' = canceled \cup sendingTasks
    /\ cancel_sent' = (cancel_sent \/ remote)
    /\ CloseAs(status)
    /\ UNCHANGED <<loopVars, taskVars, ghostVars>>

\* A page of a session that is over is closed.
CloseSession ==
    /\ Idle
    /\ Exists
    /\ status \notin {"waiting", "sending"}
    /\ CloseAs(status)
    /\ UNCHANGED <<canceled, cancel_sent, loopVars, taskVars, ghostVars>>

\* _cancelHandler of the receive controller when there is no receive session.
CancelByReceiver ==
    /\ Idle
    /\ status = "sending"
    /\ remote
    /\ canceled' = canceled \cup sendingTasks
    /\ status' = "canceledByReceiver"
    /\ UNCHANGED <<remote, background, files, sendingTasks, loopVars, taskVars,
                   cancel_sent, selection, ghostVars>>

\* clearAllSessions: the send mode is switched away from "multiple".
ClearAllSessions ==
    /\ Idle
    /\ ModeSwitch
    /\ Exists
    /\ Removed
    /\ cleared' = TRUE
    /\ UNCHANGED <<loopVars, taskVars, canceled, cancel_sent, selection, sent, retried>>

SetBackground ==
    /\ Idle
    /\ Exists
    /\ background' \in InBackground \ {background}
    /\ UNCHANGED <<status, remote, files, sendingTasks, loopVars, taskVars, canceled,
                   cancel_sent, selection, ghostVars>>

Loop == LoopFinished \/ \E w \in Worker : TakeFile(w) \/ ExitLoop(w)

Upload(t) == \E ok \in BOOLEAN : UploadEnded(t, ok)

Next ==
    \/ StartSession
    \/ \E code \in {"401", "403", "409", "429", "error"} : PrepareRefused(code)
    \/ PinEntered \/ PinDismissed \/ NothingSelected
    \/ \E granted \in SUBSET File : PrepareAccepted(granted)
    \/ Loop
    \/ \E t \in Task : Upload(t)
    \/ \E t \in Retry, f \in File : RetryFile(t, f)
    \/ CancelSession \/ CloseSession \/ CancelByReceiver
    \/ ClearAllSessions \/ SetBackground

Spec == Init /\ [][Next]_vars

\* The loops run as long as they can, and every HTTP upload ends: with an
\* answer, or with the error of a broken or canceled connection.
Fairness ==
    /\ WF_vars(Loop)
    /\ \A t \in Task : WF_vars(Upload(t))

FairSpec == Spec /\ Fairness

------------------------------------------------------------------------------
\* Properties.

\* The type of every variable.
TypeOK ==
    /\ start \in {"idle", "prepare", "pin", "loop", "end"}
    /\ status \in SessionStatus \cup {"none"}
    /\ remote \in BOOLEAN
    /\ background \in BOOLEAN
    /\ files \in [File -> FileStatus]
    /\ tokens \in SUBSET File
    /\ queue \in Seq(File)
    /\ exited \in SUBSET Worker
    /\ task \in [Task -> File \cup {NoFile}]
    /\ retries \in SUBSET Retry
    /\ sendingTasks \in SUBSET Task
    /\ canceled \in SUBSET Task
    /\ cancel_sent \in BOOLEAN
    /\ selection \in BOOLEAN
    /\ sent \in SUBSET File
    /\ retried \in SUBSET File
    /\ cleared \in BOOLEAN

\* No upload of a loop goes on unseen: when the session is removed or canceled,
\* every upload of _sendLoop that is still running has been told to stop,
\* because sendingTasks lists it from the moment it starts.  (clearAllSessions
\* tells nobody.)
NoOrphanUpload ==
    \A w \in Worker :
      task[w] # NoFile /\ status \in {"none", "canceledByReceiver"} /\ ~cleared
        => w \in canceled

\* A session that is shown as finished has no file left that was never
\* sent, unless the user was retrying it; and only then is the selection
\* of the app given up.
FinishedWithoutRetry ==
    status = "finished" \/ ~selection
      => \A f \in tokens : f \in sent \/ f \in retried

\* A session that was removed stays removed: an answer of the receiver, a PIN
\* dialog, a loop or a retry that is still running for it never brings it
\* back (updateSession).
RemovedStaysRemoved ==
    [][start # "idle" /\ status = "none" => status' = "none"]_vars

\* Every session leaves "sending", whatever the loops, the retries and the
\* cancellations do to each other.
SendingEnds == status = "sending" ~> status # "sending"

==============================================================================
