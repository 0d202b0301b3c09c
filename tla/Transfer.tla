------------------------------ MODULE Transfer ------------------------------
(***************************************************************************)
(* A sending and a receiving device: SendSession and ReceiveSession joined *)
(* by the HTTP calls between them.                                         *)
(*                                                                         *)
(* A request is on its way from the step of the sender that begins it to   *)
(* the step of the receiver's handler; the answer of a handler is on its   *)
(* way until the sender's step that reads it.  In a rough world any        *)
(* connection may break (the sender sees an error and the handler goes on) *)
(* and the sender's user may cancel a request that is not answered yet.  A *)
(* call of /cancel is not waited for by either side.                       *)
(*                                                                         *)
(* The PIN dialog, text messages, restarts of the server and the send      *)
(* modes are parts of the two components that are left out here.           *)
(***************************************************************************)
EXTENDS Integers, FiniteSets

CONSTANTS
    File,       \* the files of the session
    NoFile,     \* no file
    Worker,     \* the loops of _sendLoop
    Retry,      \* bound of the model: the retries by the sender's user
    QuickSave,  \* the values quick save may have
    Rough       \* the values rough may have

ASSUME TransferAssumption ==
    /\ IsFiniteSet(File)
    /\ File # {}
    /\ NoFile \notin File
    /\ Worker # {}
    /\ Worker \cap Retry = {}
    /\ QuickSave \subseteq BOOLEAN
    /\ Rough \subseteq BOOLEAN

VARIABLES
    start, status, remote, background, files, tokens, queue, exited, task, retries,
    sendingTasks, canceled, cancel_sent, selection, sent, retried, cleared,
    server, restarts, session, pin_attempts, decision, pages, selected, prepare,
    upload, closing, saved,
    granted,     \* the tokens in the answer to /prepare-upload
    wire,        \* the calls of /cancel on their way: "sender", "receiver"
    rough        \* whether connections break and the sender's user is impatient

Task == Worker \cup Retry

S == INSTANCE SendSession WITH
       InBackground <- {FALSE}, SingleMode <- TRUE, ModeSwitch <- FALSE

R == INSTANCE ReceiveSession WITH
       Request <- {"r"}, Ip <- {"ip"}, IpOf <- [r \in {"r"} |-> "ip"],
       FilesOf <- [r \in {"r"} |-> File], Messages <- {}, V1 <- {},
       Upload <- Task \X File, PinSet <- FALSE, MAX_ATTEMPTS <- 3, MaxRestarts <- 0

senderVars   == <<start, status, remote, background, files, tokens, queue, exited, task,
                  retries, sendingTasks, canceled, cancel_sent, selection, sent, retried,
                  cleared>>
receiverVars == <<server, restarts, session, pin_attempts, decision, pages, selected,
                  prepare, upload, closing, saved>>
vars == <<senderVars, receiverVars, granted, wire, rough>>

Init ==
    /\ S!Init /\ R!Init /\ granted = {} /\ wire = {}
    /\ rough \in Rough

SenderOnly   == UNCHANGED <<receiverVars, granted, wire, rough>>
ReceiverOnly == UNCHANGED <<senderVars, wire, rough>>

------------------------------------------------------------------------------
\* /prepare-upload.

Request == S!StartSession /\ SenderOnly

RequestArrives ==
    /\ start = "prepare"
    /\ R!PrepareReceived("r")
    /\ ReceiverOnly
    /\ UNCHANGED granted

SessionOpened ==
    \E quick \in QuickSave :
      /\ R!OpenSession("r", quick)
      /\ granted' = IF quick THEN File ELSE granted
      /\ ReceiverOnly

\* windowManager, and the frames of the page.
PageShown ==
    /\ R!WindowShown("r") \/ R!FirstFrame("r") \/ R!TurnsBlank("r")
    /\ ReceiverOnly
    /\ UNCHANGED granted

Decision ==
    \/ \E accepted \in SUBSET File :
         /\ R!AcceptFiles("r", accepted)
         /\ granted' = session'.tokens
         /\ ReceiverOnly
    \/ R!Decline("r") /\ ReceiverOnly /\ UNCHANGED granted

RequestAnswered ==
    \/ /\ prepare["r"] = "200"
       /\ S!PrepareAccepted(granted)
       /\ SenderOnly
    \/ /\ prepare["r"] = "403"
       /\ S!PrepareRefused("403")
       /\ SenderOnly

RequestBroken == rough /\ S!PrepareRefused("error") /\ SenderOnly

------------------------------------------------------------------------------
\* /upload.

SendLoop == S!Loop /\ SenderOnly

RetryFile ==
    /\ \E t \in Retry, f \in File : S!RetryFile(t, f)
    /\ SenderOnly

\* The handler of task t's request for the file it has.
Handler(t) == upload[<<t, task[t]>>].at

UploadArrives(t) ==
    /\ task[t] # NoFile
    /\ R!UploadBegin(<<t, task[t]>>, "ip", "r", task[t])
    /\ ReceiverOnly
    /\ UNCHANGED granted

UploadHandled ==
    /\ \E u \in Task \X File : R!UploadStep(u)
    /\ ReceiverOnly
    /\ UNCHANGED granted

UploadOk(t) ==
    /\ task[t] # NoFile
    /\ Handler(t) = "200"
    /\ S!UploadEnded(t, TRUE)
    /\ SenderOnly

\* An error status, a handler that died, a refusal, a cancel or a loss.
UploadNotOk(t) ==
    /\ task[t] # NoFile
    /\ \/ Handler(t) \in {"500", "thrown"}
       \/ Handler(t) = "idle" /\ R!UploadVerdict("ip", "r", task[t]) # "go"
       \/ t \in canceled
       \/ rough
    /\ S!UploadEnded(t, FALSE)
    /\ SenderOnly

------------------------------------------------------------------------------
\* /cancel, in both directions, and the pages of both sides.

SenderCancels ==
    /\ rough \/ remote
    /\ S!CancelSession
    /\ wire' = IF remote THEN wire \cup {"sender"} ELSE wire
    /\ UNCHANGED <<receiverVars, granted, rough>>

SenderCancelArrives ==
    /\ "sender" \in wire
    /\ wire' = wire \ {"sender"}
    /\ \/ R!CancelReceived("ip", "r")
       \/ R!CancelVerdict("ip", "r") = "403" /\ UNCHANGED receiverVars
    /\ UNCHANGED <<senderVars, granted, rough>>

ReceiverCancels ==
    /\ R!CancelSession
    /\ wire' = wire \cup {"receiver"}
    /\ UNCHANGED <<senderVars, granted, rough>>

ReceiverCancelArrives ==
    /\ "receiver" \in wire
    /\ wire' = wire \ {"receiver"}
    /\ \/ S!CancelByReceiver
       \/ ~(status = "sending" /\ remote) /\ UNCHANGED senderVars
    /\ UNCHANGED <<receiverVars, granted, rough>>

CancelLost ==
    /\ rough
    /\ \E side \in wire : wire' = wire \ {side}
    /\ UNCHANGED <<senderVars, receiverVars, granted, rough>>

PagesClosed ==
    \/ S!CloseSession /\ SenderOnly
    \/ /\ R!CloseSession \/ R!ClosePage("r")
       /\ ReceiverOnly
       /\ UNCHANGED granted

Network ==
    \/ RequestArrives \/ SessionOpened \/ PageShown \/ RequestAnswered
    \/ UploadHandled
    \/ \E t \in Task : UploadArrives(t) \/ UploadOk(t) \/ UploadNotOk(t)
    \/ SenderCancelArrives \/ ReceiverCancelArrives

Next ==
    \/ Request \/ Network \/ SendLoop
    \/ Decision \/ RetryFile \/ SenderCancels \/ ReceiverCancels \/ PagesClosed
    \/ RequestBroken \/ CancelLost

Spec == Init /\ [][Next]_vars

\* The devices and the network do not all stop: as long as something is under
\* way, some loop goes on or some request, answer or handler does.  Nothing is
\* assumed of the users.
Fairness == WF_vars(SendLoop \/ Network)

FairSpec == Spec /\ Fairness

------------------------------------------------------------------------------
\* Properties.

StoredFiles == {f \in File : <<"r", f>> \in saved}

D == INSTANCE Delivery WITH stored <- StoredFiles, reported <- sent

\* The two sessions implement Delivery: only files that the receiver's user
\* (or quick save) accepted are stored, and what the sender counts as sent
\* (SendingFile.status finished) is on the receiver's disk, whatever is
\* canceled, retried, refused or lost on the way.
ImplementsDelivery == D!Spec

\* A receiver is never left behind in "sending" by a sender that is done: once
\* startSession has returned, the receiver's session ends, is canceled or is
\* closed.  Otherwise the receiver answers every other sender 409.  Connections
\* that break can prevent it, and so can a sender that cancels before it has an
\* answer, because it has no session id yet and cancelSession then sends nothing.
ReceiverReleased ==
    (start = "end" /\ ~rough)
      ~> (session = R!NoSession \/ session.status # "sending")

==============================================================================
