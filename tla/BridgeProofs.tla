---------------------------- MODULE BridgeProofs ----------------------------
(***************************************************************************)
(* What TLAPS proves of Bridge for every set of files, every plan of calls *)
(* and every capacity.                                                     *)
(***************************************************************************)
EXTENDS Bridge, SequenceTheorems, TLAPS

-----------------------------------------------------------------------------
\* The inductive invariant.

CallAt == {"idle", "queued", "running", "listening", "done", "error"}
TaskAt == {"off", "verify", "verifying", "pin", "ask", "await", "toomany", "connected", "list",
           "choice", "declined", "error", "idle", "chunks", "result", "ended", "failed"}
TaskRec == [at : TaskAt, pins : Nat, file : Seq(File)]
Data == [at : {"new", "open", "over"}, sent : Nat, q : Seq(Nat), buffer : Seq(Nat),
         out : Seq(Nat), got : Seq(Nat), read : {"idle", "reading", "done"}]

\* The calls and their lock: a call that waits is queued, once; a call was
\* made on the controller that Dart holds; an exclusive holder is alone.
CallsType == role \in {"none", "refused", "send", "receive"} /\ calls \in [Call -> CallAt]
Queued ==
    /\ waiting \in Seq(Call)
    /\ \A i \in 1 .. Len(waiting) : calls[waiting[i]] = "queued"
    /\ \A i, j \in 1 .. Len(waiting) : waiting[i] = waiting[j] => i = j
SideIsRole == \A c \in Call : calls[c] # "idle" => c.side = role
Exclusive  == \A c, d \in Holding : c.lock = "exclusive" => c = d

CallsInv == CallsType /\ Queued /\ SideIsRole /\ Exclusive

\* Nothing runs before Dart has a controller; a task that has ended, or that
\* was left without its data channel, is quiet.
TaskType == task \in TaskRec
Idle     ==
    /\ role \in {"none", "refused"} => main = "off"
    /\ main \in {"off", "exchange", "sdp", "select", "finish", "error", "returned"}
    /\ main \in {"off", "exchange"} => task.at = "off"
Quiet    == main \in {"finish", "error", "returned"} /\ ~closed => TaskOver \/ task.at = "off"
WellEnded == main = "finish" /\ ~closed => task.at = "ended"

\* What has been told, by where the function of the core is.
StatusName == {"SdpExchanged", "PinRequired", "TooManyAttempts", "Connected", "Declined",
               "Finished", "Error"}
StatusType == status_q \in Seq(StatusName) /\ told \in Seq(StatusName)
Unfinished ==
    main \in {"off", "exchange", "sdp", "select", "finish"} =>
      \A i \in DOMAIN Statuses : Statuses[i] # "Finished"

\* While the function has not failed, an Error is the task's own, and its last.
OwnError ==
    main \in {"off", "exchange", "sdp", "select", "finish"} /\ ~closed =>
      \A i \in DOMAIN Statuses : Statuses[i] = "Error" => task.at = "failed"

StatusInv ==
    /\ TaskType /\ Idle /\ Quiet /\ WellEnded /\ StatusType
    /\ Unfinished /\ OwnError /\ FinishedIsLast

\* A PIN request is in one place.
PinType == pin \in [q : Seq(Nat), forward : Seq(Nat), slot : Seq(Nat), given : SUBSET Nat]
NoRequest == pin.q = <<>> /\ pin.forward = <<>> /\ pin.slot = <<>>
OneRequest ==
    \/ pin.q = <<task.pins>> /\ pin.forward = <<>> /\ pin.slot = <<>>
    \/ pin.q = <<>> /\ pin.forward = <<task.pins>> /\ pin.slot = <<>>
    \/ pin.q = <<>> /\ pin.forward = <<>> /\ pin.slot = <<task.pins>>
PinShape ==
    /\ \A n \in pin.given : n <= task.pins
    /\ IF task.at = "await" /\ task.pins \notin pin.given THEN OneRequest ELSE NoRequest

\* The bytes of a file.
Upto(n) == [i \in 1 .. n |-> i]
DataType == data \in [File -> Data]
Whole(d) == d.got \o d.out \o d.buffer \o d.q = Upto(d.sent)
BytesOf(d, r) ==
    /\ Whole(d)
    /\ r # "receive" => d.read = "idle"
    /\ d.read = "idle" => d.out = <<>> /\ d.buffer = <<>>
    /\ d.read = "done" => d.at = "over" /\ d.got = Upto(d.sent)
BytesInv == DataType /\ \A f \in File : BytesOf(data[f], role)

\* The results of a receiver.
FilesType == /\ file_q \in Seq(File) /\ handed \in Seq(File) /\ result_q \in Seq(File)
             /\ applied \in Seq(File \X File) /\ Len(result_q) <= 1
Status(f) == RtcReceiveController_send_file_status(f)
Current(f) == task.at \in {"chunks", "result"} /\ task.file = <<f>>
Reported ==
    role # "send" /\ ~TaskOver => \A f \in File :
      /\ data[f].at # "new" => Current(f) \/ calls[Status(f)] = "done"
      /\ Contains(result_q, f) => Current(f) /\ calls[Status(f)] = "done"
HandedStarted ==
    role # "send" => \A f \in File :
      /\ Contains(file_q, f) \/ Contains(handed, f) => data[f].at # "new"
      /\ calls[Status(f)] # "idle" => Contains(handed, f)
ReceiverOnly == role # "receive" => task.at # "result"
ResultsInv == FilesType /\ Reported /\ HandedStarted /\ ReceiverOnly /\ ResultsMatchFiles

\* A sender.
ListenStatus == RtcSendController_listen_status
Untold ==
    role # "receive" /\ told = <<>> =>
      /\ handed = <<>> /\ NoRequest /\ pin.given = {}
      /\ task.at \in {"off", "verify", "pin", "connected", "failed"}
      /\ status_q = <<>> => task.at \in {"off", "failed"} /\ main # "select"
Told ==
    role # "receive" /\ told # <<>> =>
      calls[ListenStatus] = "listening" \/ (calls[ListenStatus] = "done" /\ TaskOver)
OneFile == role # "receive" => Len(file_q) <= 1 /\ Len(handed) + Len(file_q) <= 1 /\ pin.given = {}
DeafInv == Untold /\ Told /\ OneFile

IInv == CallsInv /\ StatusInv /\ PinType /\ PinShape /\ BytesInv /\ ResultsInv /\ DeafInv

-----------------------------------------------------------------------------
\* The calls.

CallVars == <<role, calls, waiting>>

\* A method goes on: a call that holds the lock listens or ends.
Moves(c, how) ==
    /\ calls[c] = "running" \/ (calls[c] = "listening" /\ how # "listening")
    /\ how \in {"listening", "done", "error"}
    /\ calls' = [calls EXCEPT ![c] = how]
    /\ UNCHANGED <<role, waiting>>

LEMMA MethodMoves ==
  ASSUME NEW c \in Call, Method(c)
  PROVE  UNCHANGED CallVars \/ \E how \in {"listening", "done", "error"} : Moves(c, how)
<1>1. CASE ListenReceiver(c)
  BY <1>1 DEF ListenReceiver, Runs, Take, Ends, Moves
<1>2. CASE ListenAsSender(c)
  BY <1>2 DEF ListenAsSender, Ends, Moves
<1>3. CASE listen_status(c)
  BY <1>3 DEF listen_status, Listens, Ending, Ends, Moves, CallVars, callVars
<1>4. CASE listen_error(c)
  BY <1>4 DEF listen_error, Listens, Ending, Ends, Moves, CallVars, callVars
<1>5. CASE listen_files(c) \/ listen_selected_files(c)
  BY <1>5 DEF listen_files, listen_selected_files, Listens, OneShot, Ends, Moves
<1>6. CASE listen_receiving(c)
  BY <1>6 DEF listen_receiving, Listens, Ending, Ends, Moves, CallVars, callVars
<1>7. CASE send_pin(c)
  BY <1>7 DEF send_pin, Runs, Ends, Moves
<1>8. CASE send_selection(c) \/ decline(c)
  BY <1>8 DEF send_selection, decline, Decide, Runs, Ends, Moves
<1>9. CASE send_file_status(c)
  BY <1>9 DEF send_file_status, Runs, Ends, Moves
<1>10. CASE send_file(c)
  BY <1>10 DEF send_file, Runs, Ends, Moves
<1>11. QED
  BY <1>1, <1>2, <1>3, <1>4, <1>5, <1>6, <1>7, <1>8, <1>9, <1>10 DEF Method

\* Dart starts a session.
Begin == LsSignalingConnection_send_offer \/ LsSignalingConnection_accept_offer

\* A step of the core, of the peer or of an object that is not the controller.
FileStep(f) ==
    RtcFileSender_send(f) \/ DropSender(f) \/ RtcFileReceiver_receive(f) \/ Stream(f)
Other == Main \/ Task \/ Peer \/ ForwardTakes \/ ForwardStores \/ \E f \in File : FileStep(f)

LEMMA NextSplit ==
  Next => Begin \/ Other \/ Grant \/ (\E c \in Call : Issue(c)) \/ \E c \in Call : Method(c)
BY DEF Next, Begin, Other, FileStep

LEMMA MainCalls == Main => UNCHANGED callVars
BY DEF Main, Exchange, SdpExchanged, Select, Finished, Failed, MainSays

LEMMA TaskCalls == Task => UNCHANGED callVars
<1> SUFFICES ASSUME Task PROVE UNCHANGED callVars
  OBVIOUS
<1>1. CASE VerifyPin \/ PinRequired \/ TooManyAttempts \/ Connected \/ TaskFails \/ Declined
  BY <1>1 DEF VerifyPin, PinRequired, TooManyAttempts, Connected, TaskFails, Declined, TaskSays
<1>2. CASE Ask \/ PublishFiles \/ UserHasChosen \/ TakeFile
  BY <1>2 DEF Ask, PublishFiles, UserHasChosen, TakeFile
<1>3. CASE \E f \in File : ApplyResult(f) \/ SendChunk(f) \/ FileSent(f)
  BY <1>3 DEF ApplyResult, SendChunk, FileSent
<1>4. QED BY <1>1, <1>2, <1>3 DEF Task

LEMMA PeerCalls == Peer => UNCHANGED callVars
<1> SUFFICES ASSUME Peer PROVE UNCHANGED callVars
  OBVIOUS
<1>1. CASE TaskBegins \/ Verified \/ Verdict
  BY <1>1 DEF TaskBegins, Verified, Verdict
<1>2. CASE ListNotSent \/ PublishSelection \/ ReportError \/ PeerStops \/ PeerCloses
  BY <1>2 DEF ListNotSent, PublishSelection, ReportError, PeerStops, PeerCloses
<1>3. CASE \E f \in File : Header(f) \/ ReceiveChunk(f) \/ EndFile(f)
  BY <1>3 DEF Header, ReceiveChunk, PutChunk, EndFile
<1>4. QED BY <1>1, <1>2, <1>3 DEF Peer

LEMMA FileStepFrame ==
  ASSUME NEW f \in File, FileStep(f)
  PROVE  UNCHANGED <<callVars, coreVars, statVars, handVars, file_q, handed, result_q, applied>>
<1>1. CASE RtcFileSender_send(f) \/ DropSender(f)
  BY <1>1 DEF RtcFileSender_send, PutChunk, DropSender
<1>2. CASE RtcFileReceiver_receive(f) \/ Stream(f)
  BY <1>2 DEF RtcFileReceiver_receive, Stream, Buffer, Flush, receive, Reads
<1>3. QED BY <1>1, <1>2 DEF FileStep

LEMMA OtherCalls == Other => UNCHANGED CallVars
<1> SUFFICES ASSUME Other PROVE UNCHANGED callVars
  BY DEF callVars, CallVars
<1>1. CASE Main \/ Task \/ Peer
  BY <1>1, MainCalls, TaskCalls, PeerCalls
<1>2. CASE ForwardTakes \/ ForwardStores
  BY <1>2 DEF ForwardTakes, ForwardStores
<1>3. CASE \E f \in File : FileStep(f)
  BY <1>3, FileStepFrame
<1>4. QED BY <1>1, <1>2, <1>3 DEF Other

LEMMA CallsIssue ==
  ASSUME CallsInv, NEW c \in Call, Issue(c)
  PROVE  CallsInv'
<1>1. calls[c] = "idle" /\ MayCall(c) /\ UNCHANGED role /\ c.side = role
  BY DEF Issue, MayCall
<1>2. calls \in [Call -> CallAt] /\ waiting \in Seq(Call)
  BY DEF CallsInv, CallsType, Queued
<1>3. CASE waiting = <<>> /\ Free(c) /\ Ends(c, "running") /\ UNCHANGED waiting
  <2>1. calls' = [calls EXCEPT ![c] = "running"]
    BY <1>3 DEF Ends
  <2>2. CallsType'
    BY <1>1, <1>2, <2>1 DEF CallsInv, CallsType, CallAt
  <2>3. Queued'
    BY <1>3, <1>2 DEF Queued
  <2>4. SideIsRole'
    BY <1>1, <1>2, <2>1 DEF CallsInv, SideIsRole
  <2>5. Holding' = Holding \cup {c}
    BY <1>2, <2>1 DEF Holding
  <2>6. Exclusive'
    BY <1>3, <2>5 DEF CallsInv, Exclusive, Free
  <2>7. QED BY <2>2, <2>3, <2>4, <2>6 DEF CallsInv
<1>4. CASE Ends(c, "queued") /\ waiting' = Append(waiting, c)
  <2>1. calls' = [calls EXCEPT ![c] = "queued"]
    BY <1>4 DEF Ends
  <2>2. CallsType'
    BY <1>1, <1>2, <2>1 DEF CallsInv, CallsType, CallAt
  <2>3. /\ waiting' \in Seq(Call) /\ Len(waiting') = Len(waiting) + 1
        /\ waiting'[Len(waiting) + 1] = c
        /\ \A i \in 1 .. Len(waiting) : waiting'[i] = waiting[i]
    BY <1>2, <1>4, AppendProperties
  <2>4. /\ \A i \in 1 .. Len(waiting) : waiting[i] \in Call /\ calls[waiting[i]] = "queued"
        /\ \A i, j \in 1 .. Len(waiting) : waiting[i] = waiting[j] => i = j
        /\ Len(waiting) \in Nat
    BY <1>2, ElementOfSeq, LenProperties DEF CallsInv, Queued
  <2>5. \A i \in 1 .. Len(waiting) : waiting[i] # c
    BY <1>1, <2>4
  <2>6. Queued'
    <3>1. \A i \in 1 .. Len(waiting)' : i \in 1 .. Len(waiting) \/ i = Len(waiting) + 1
      BY <2>3, <2>4
    <3>2. \A i \in 1 .. Len(waiting)' : calls'[waiting'[i]] = "queued"
      BY <1>2, <2>1, <2>3, <2>4, <2>5, <3>1
    <3>3. \A i, j \in 1 .. Len(waiting)' : waiting'[i] = waiting'[j] => i = j
      BY <2>3, <2>4, <2>5, <3>1
    <3>4. QED BY <2>3, <3>2, <3>3 DEF Queued
  <2>7. SideIsRole'
    BY <1>1, <1>2, <2>1 DEF CallsInv, SideIsRole
  <2>8. Holding' = Holding
    BY <1>1, <1>2, <2>1 DEF Holding
  <2>9. Exclusive'
    BY <2>8 DEF CallsInv, Exclusive
  <2>10. QED BY <2>2, <2>6, <2>7, <2>9 DEF CallsInv
<1>5. QED BY <1>3, <1>4 DEF Issue

LEMMA CallsGrant ==
  ASSUME CallsInv, Grant
  PROVE  CallsInv'
<1> DEFINE c == Head(waiting)
<1>1. calls \in [Call -> CallAt] /\ waiting \in Seq(Call) /\ waiting # <<>> /\ UNCHANGED role
  BY DEF CallsInv, CallsType, Queued, Grant
<1>2. /\ c \in Call /\ c = waiting[1] /\ waiting' \in Seq(Call) /\ Len(waiting) \in Nat \ {0}
      /\ Len(waiting') = Len(waiting) - 1
      /\ \A i \in 1 .. Len(waiting) - 1 : waiting'[i] = waiting[i + 1]
  BY <1>1, HeadTailProperties, LenProperties, EmptySeq DEF Grant
<1>3. calls' = [calls EXCEPT ![c] = "running"] /\ Free(c)
  BY DEF Grant, Ends
<1> HIDE DEF c
<1>4. /\ \A i \in 1 .. Len(waiting) : waiting[i] \in Call /\ calls[waiting[i]] = "queued"
      /\ \A i, j \in 1 .. Len(waiting) : waiting[i] = waiting[j] => i = j
  BY <1>1, ElementOfSeq DEF CallsInv, Queued
<1>5. calls[c] = "queued"
  BY <1>2, <1>4
<1>6. CallsType'
  BY <1>1, <1>2, <1>3 DEF CallsInv, CallsType, CallAt
<1>7. \A i \in 1 .. Len(waiting)' : i + 1 \in 1 .. Len(waiting) /\ waiting'[i] = waiting[i + 1]
  BY <1>2
<1>8. \A i \in 1 .. Len(waiting)' : waiting'[i] # c /\ waiting'[i] \in Call
  BY <1>2, <1>4, <1>7
<1>9. Queued'
  <2>1. \A i \in 1 .. Len(waiting)' : calls'[waiting'[i]] = "queued"
    BY <1>1, <1>3, <1>4, <1>7, <1>8
  <2>2. \A i, j \in 1 .. Len(waiting)' : waiting'[i] = waiting'[j] => i = j
    BY <1>4, <1>7
  <2>3. QED BY <1>2, <2>1, <2>2 DEF Queued
<1>10. SideIsRole'
  BY <1>1, <1>2, <1>3, <1>5 DEF CallsInv, SideIsRole
<1>11. Holding' = Holding \cup {c}
  BY <1>1, <1>2, <1>3 DEF Holding
<1>12. Exclusive'
  BY <1>3, <1>11 DEF CallsInv, Exclusive, Free
<1>13. QED BY <1>6, <1>9, <1>10, <1>12 DEF CallsInv

LEMMA CallsMove ==
  ASSUME CallsInv, NEW c \in Call, NEW how \in {"listening", "done", "error"}, Moves(c, how)
  PROVE  CallsInv'
<1>1. calls \in [Call -> CallAt] /\ waiting \in Seq(Call)
  BY DEF CallsInv, CallsType, Queued
<1>2. /\ calls[c] \in {"running", "listening"} /\ calls' = [calls EXCEPT ![c] = how]
      /\ UNCHANGED <<role, waiting>>
  BY DEF Moves
<1>3. CallsType'
  BY <1>1, <1>2 DEF CallsInv, CallsType, CallAt
<1>4. Queued'
  <2>1. \A i \in 1 .. Len(waiting) : waiting[i] \in Call /\ calls[waiting[i]] = "queued"
    BY <1>1, ElementOfSeq DEF CallsInv, Queued
  <2>2. \A i \in 1 .. Len(waiting) : calls'[waiting[i]] = "queued"
    BY <1>1, <1>2, <2>1
  <2>3. QED BY <1>2, <2>2 DEF CallsInv, Queued
<1>5. SideIsRole'
  BY <1>1, <1>2 DEF CallsInv, SideIsRole
<1>6. Holding' \subseteq Holding
  BY <1>1, <1>2 DEF Holding
<1>7. Exclusive'
  BY <1>6 DEF CallsInv, Exclusive
<1>8. QED BY <1>3, <1>4, <1>5, <1>7 DEF CallsInv

LEMMA BeginFacts ==
  Begin => /\ role = "none" /\ role' \in {"send", "receive", "refused"}
           /\ role' = "refused" => main' = main
           /\ main' = main \/ main' = "exchange"
           /\ UNCHANGED <<calls, waiting, task, closed, statVars, handVars, fileVars>>
BY DEF Begin, LsSignalingConnection_send_offer, LsSignalingConnection_accept_offer, Start

LEMMA Sides == \A c \in Call : c.side \in {"send", "receive"}
BY DEF Call, Wire, RtcSendController_listen_error, RtcSendController_listen_selected_files,
       RtcSendController_listen_status, RtcSendController_send_pin, RtcSendController_send_file,
       RtcReceiveController_decline, RtcReceiveController_listen_error,
       RtcReceiveController_listen_files, RtcReceiveController_listen_receiving,
       RtcReceiveController_send_selection, RtcReceiveController_listen_status,
       RtcReceiveController_send_pin, RtcReceiveController_send_file_status

LEMMA CallsUnchanged == CallsInv /\ UNCHANGED CallVars => CallsInv'
BY DEF CallsInv, CallsType, Queued, SideIsRole, Exclusive, Holding, CallVars

LEMMA CallsStep == CallsInv /\ [Next]_vars => CallsInv'
<1> SUFFICES ASSUME CallsInv, [Next]_vars PROVE CallsInv'
  OBVIOUS
<1>1. CASE Begin
  <2>1. \A c \in Call : calls[c] = "idle"
    BY <1>1, BeginFacts, Sides DEF CallsInv, SideIsRole
  <2>2. /\ role' \in {"none", "refused", "send", "receive"} /\ UNCHANGED <<calls, waiting>>
    BY <1>1, BeginFacts
  <2>3. QED BY <2>1, <2>2 DEF CallsInv, CallsType, Queued, SideIsRole, Exclusive, Holding
<1>2. CASE Other
  BY <1>2, OtherCalls, CallsUnchanged
<1>3. CASE Grant
  BY <1>3, CallsGrant
<1>4. ASSUME NEW c \in Call, Issue(c) PROVE CallsInv'
  BY <1>4, CallsIssue
<1>5. ASSUME NEW c \in Call, Method(c) PROVE CallsInv'
  <2>1. CASE UNCHANGED CallVars
    BY <2>1, CallsUnchanged
  <2>2. CASE \E how \in {"listening", "done", "error"} : Moves(c, how)
    BY <2>2, CallsMove
  <2>3. QED BY <1>5, <2>1, <2>2, MethodMoves
<1>6. CASE UNCHANGED vars
  BY <1>6, CallsUnchanged DEF vars, callVars, CallVars
<1>7. QED BY <1>1, <1>2, <1>3, <1>4, <1>5, <1>6, NextSplit

-----------------------------------------------------------------------------
\* The function of the core, its task and what they tell.

\* A task moves only when it is running, or when it begins.
TaskMoves ==
    \/ UNCHANGED task
    \/ ~TaskOver /\ (task.at = "off" => main \in {"sdp", "select"})

Silent == TaskMoves /\ UNCHANGED <<role, main, closed, status_q, told>>
Speaks ==
    /\ \E s \in {"PinRequired", "TooManyAttempts", "Connected", "Declined"} : Says(s)
    /\ task.at \in {"verify", "pin", "toomany", "connected", "declined"}
    /\ UNCHANGED <<role, main, closed>>
Errs ==
    /\ Says("Error") /\ task.at \in {"error", "list"} /\ Goto("failed")
    /\ UNCHANGED <<role, main, closed>>
Hears ==
    /\ status_q # <<>> /\ told' = told \o status_q /\ status_q' = <<>>
    /\ UNCHANGED <<role, main, task, closed>>

LEMMA TaskKinds == Task => Speaks \/ Errs \/ Silent
<1> SUFFICES ASSUME Task PROVE Speaks \/ Errs \/ Silent
  OBVIOUS
<1> USE DEF callVars, statVars
<1>0. CASE TaskFails
  BY <1>0 DEF TaskFails, TaskSays, Errs
<1>1. CASE VerifyPin \/ PinRequired \/ TooManyAttempts \/ Connected \/ Declined
  BY <1>1 DEF VerifyPin, PinRequired, TooManyAttempts, Connected, Declined, TaskSays, Speaks
<1>2. CASE Ask \/ PublishFiles \/ UserHasChosen \/ TakeFile
  BY <1>2 DEF Ask, PublishFiles, UserHasChosen, TakeFile, Silent, TaskMoves, TaskOver
<1>3. ASSUME NEW f \in File, ApplyResult(f) \/ SendChunk(f) \/ FileSent(f) PROVE Silent
  BY <1>3 DEF ApplyResult, SendChunk, FileSent, Silent, TaskMoves, TaskOver, coreVars
<1>4. QED BY <1>0, <1>1, <1>2, <1>3 DEF Task

LEMMA PeerKinds == Peer => Errs \/ Silent \/ PeerCloses
<1> SUFFICES ASSUME Peer PROVE Errs \/ Silent \/ PeerCloses
  OBVIOUS
<1> USE DEF callVars, statVars
<1>1. CASE TaskBegins
  BY <1>1 DEF TaskBegins, Silent, TaskMoves, TaskOver
<1>0. CASE ListNotSent
  BY <1>0 DEF ListNotSent, Errs, Says, Silent, TaskMoves, TaskOver
<1>2. CASE Verified \/ Verdict \/ PublishSelection \/ ReportError
  BY <1>2 DEF Verified, Verdict, PublishSelection, ReportError, Silent, TaskMoves, TaskOver, coreVars
<1>3. CASE PeerStops
  BY <1>3 DEF PeerStops, AtPeer, Silent, TaskMoves, TaskOver
<1>4. ASSUME NEW f \in File, Header(f) \/ ReceiveChunk(f) \/ EndFile(f) PROVE Silent
  BY <1>4 DEF Header, ReceiveChunk, PutChunk, EndFile, Silent, TaskMoves, TaskOver, coreVars
<1>5. QED BY <1>0, <1>1, <1>2, <1>3, <1>4 DEF Peer

LEMMA MethodKinds == ASSUME NEW c \in Call, Method(c) PROVE Hears \/ (Silent /\ UNCHANGED task)
<1> USE DEF callVars, statVars, coreVars, Silent, TaskMoves
<1>1. CASE ListenReceiver(c) \/ ListenAsSender(c)
  BY <1>1 DEF ListenReceiver, ListenAsSender, Take
<1>2. CASE listen_status(c)
  BY <1>2 DEF listen_status, Ending, Hears
<1>3. CASE listen_error(c) \/ listen_files(c) \/ listen_selected_files(c) \/ listen_receiving(c)
  BY <1>3 DEF listen_error, listen_files, listen_selected_files, listen_receiving, Ending, OneShot
<1>4. CASE send_pin(c) \/ send_selection(c) \/ decline(c)
  BY <1>4 DEF send_pin, send_selection, decline, Decide
<1>5. CASE send_file_status(c) \/ send_file(c)
  BY <1>5 DEF send_file_status, send_file
<1>6. QED BY <1>1, <1>2, <1>3, <1>4, <1>5 DEF Method

LEMMA Kinds == [Next]_vars => Begin \/ Main \/ Speaks \/ Errs \/ Silent \/ Hears \/ PeerCloses
<1> SUFFICES ASSUME [Next]_vars
             PROVE  Begin \/ Main \/ Speaks \/ Errs \/ Silent \/ Hears \/ PeerCloses
  OBVIOUS
<1> USE DEF callVars, statVars, coreVars, Silent, TaskMoves
<1>1. CASE Task \/ Peer
  BY <1>1, TaskKinds, PeerKinds
<1>2. CASE ForwardTakes \/ ForwardStores
  BY <1>2 DEF ForwardTakes, ForwardStores
<1>3. CASE \E f \in File : FileStep(f)
  BY <1>3, FileStepFrame
<1>4. CASE Grant \/ \E c \in Call : Issue(c)
  BY <1>4 DEF Grant, Issue
<1>5. CASE \E c \in Call : Method(c)
  BY <1>5, MethodKinds
<1>6. CASE UNCHANGED vars
  BY <1>6 DEF vars
<1>7. QED BY <1>1, <1>2, <1>3, <1>4, <1>5, <1>6, NextSplit DEF Other

\* The type of the task.
LEMMA TaskTypeStep == TaskType /\ file_q \in Seq(File) /\ [Next]_vars => TaskType'
<1> SUFFICES ASSUME TaskType, file_q \in Seq(File), [Next]_vars PROVE TaskType'
  OBVIOUS
<1> USE DEF TaskType, TaskRec, TaskAt
<1>1. CASE UNCHANGED task
  BY <1>1
<1>2. \A where \in TaskAt : Goto(where) => TaskType'
  BY DEF Goto
<1>3. CASE Main
  <2>1. CASE Exchange
    BY <1>2, <2>1 DEF Exchange
  <2>2. CASE Select
    BY <2>2 DEF Select
  <2>3. CASE SdpExchanged \/ Finished \/ Failed
    BY <2>3 DEF SdpExchanged, Finished, Failed, MainSays
  <2>4. QED BY <1>3, <2>1, <2>2, <2>3 DEF Main
<1>4. CASE VerifyPin \/ PinRequired \/ TooManyAttempts \/ Connected \/ Declined \/ TaskFails
  <2>1. \E where \in {"verifying", "ask", "failed", "list", "ended"} : Goto(where)
    BY <1>4 DEF VerifyPin, PinRequired, TooManyAttempts, Connected, Declined, TaskFails, TaskSays
  <2>2. QED BY <1>2, <2>1
<1>5. CASE Ask
  <2>1. task' = [at |-> "await", pins |-> task.pins + 1, file |-> task.file]
    BY <1>5 DEF Ask
  <2>2. QED BY <2>1
<1>6. CASE PublishFiles \/ UserHasChosen
  <2>1. \E where \in {"choice", "ended", "idle", "failed"} : Goto(where)
    BY <1>6 DEF PublishFiles, UserHasChosen
  <2>2. QED BY <1>2, <2>1
<1>7. CASE TakeFile
  BY <1>7 DEF TakeFile
<1>8. ASSUME NEW f \in File, ApplyResult(f) \/ SendChunk(f) \/ FileSent(f) PROVE TaskType'
  <2>1. (\E where \in {"idle", "ended"} : Goto(where)) \/ UNCHANGED task
    BY <1>8 DEF ApplyResult, SendChunk, FileSent, coreVars
  <2>2. QED BY <1>2, <2>1
<1>9. CASE TaskBegins \/ Verified \/ Verdict \/ ListNotSent \/ PublishSelection \/ PeerStops
  <2>1. \E where \in TaskAt : Goto(where)
    BY <1>9 DEF TaskBegins, Verified, Verdict, ListNotSent, PublishSelection, PeerStops
  <2>2. QED BY <1>2, <2>1
<1>10. CASE ReportError \/ PeerCloses
  BY <1>10 DEF ReportError, PeerCloses, coreVars
<1>11. ASSUME NEW f \in File, Header(f) PROVE TaskType'
  <2>1. task' = [task EXCEPT !.at = "chunks", !.file = <<f>>]
    BY <1>11 DEF Header
  <2>2. <<f>> \in Seq(File)
    OBVIOUS
  <2>3. task' = [at |-> "chunks", pins |-> task.pins, file |-> <<f>>]
    BY <2>1
  <2>4. QED BY <2>2, <2>3
<1>12. ASSUME NEW f \in File, ReceiveChunk(f) \/ EndFile(f) PROVE TaskType'
  <2>1. Goto("result") \/ UNCHANGED task
    BY <1>12 DEF ReceiveChunk, PutChunk, EndFile, coreVars
  <2>2. QED BY <1>2, <2>1
<1>13. CASE Begin
  BY <1>13, BeginFacts
<1>14. CASE Grant \/ ForwardTakes \/ ForwardStores \/ \E c \in Call : Issue(c)
  BY <1>14 DEF Grant, Issue, ForwardTakes, ForwardStores, coreVars
<1>15. CASE \E f \in File : FileStep(f)
  BY <1>15, FileStepFrame DEF coreVars
<1>16. CASE \E c \in Call : Method(c)
  BY <1>1, <1>16, MethodKinds DEF Hears
<1>17. CASE UNCHANGED vars
  BY <1>17 DEF vars, coreVars
<1>18. QED
  BY <1>3, <1>4, <1>5, <1>6, <1>7, <1>8, <1>9, <1>10, <1>11, <1>12, <1>13, <1>14, <1>15, <1>16,
     <1>17, NextSplit DEF Other, Task, Peer

\* The statuses only grow, at their end.
LEMMA SaysAppends ==
  ASSUME StatusType, NEW s \in StatusName, Says(s)
  PROVE  /\ StatusType' /\ Len(Statuses)' = Len(Statuses) + 1 /\ Len(Statuses) \in Nat
         /\ DOMAIN Statuses' = 1 .. Len(Statuses) + 1 /\ DOMAIN Statuses = 1 .. Len(Statuses)
         /\ Statuses'[Len(Statuses) + 1] = s
         /\ \A i \in 1 .. Len(Statuses) : Statuses'[i] = Statuses[i]
<1>1. told \in Seq(StatusName) /\ status_q = <<>> /\ told' = told /\ status_q' = <<s>>
  BY DEF StatusType, Says
<1>2. StatusType'
  <2>1. <<s>> \in Seq(StatusName)
    OBVIOUS
  <2>2. QED BY <1>1, <2>1 DEF StatusType
<1>3. Statuses = told
  BY <1>1, ConcatEmptySeq DEF Statuses
<1>4. told \o <<s>> = Append(told, s)
  BY <1>1, AppendIsConcat
<1>5. Statuses' = Append(told, s)
  BY <1>1, <1>4 DEF Statuses
<1>6. /\ Len(Append(told, s)) = Len(told) + 1 /\ Len(told) \in Nat
      /\ Append(told, s) \in Seq(StatusName)
      /\ Append(told, s)[Len(told) + 1] = s
      /\ \A i \in 1 .. Len(told) : Append(told, s)[i] = told[i]
  BY <1>1, AppendProperties, LenProperties
<1>7. DOMAIN Append(told, s) = 1 .. Len(told) + 1 /\ DOMAIN told = 1 .. Len(told)
  BY <1>1, <1>6, LenProperties
<1>8. QED BY <1>2, <1>3, <1>5, <1>6, <1>7

LEMMA SomeNames == "SdpExchanged" \in StatusName /\ "Finished" \in StatusName /\ "Error" \in StatusName
BY DEF StatusName

LEMMA StatusesSeq ==
  ASSUME StatusType
  PROVE  Statuses \in Seq(StatusName) /\ DOMAIN Statuses = 1 .. Len(Statuses) /\ Len(Statuses) \in Nat
<1>1. Statuses \in Seq(StatusName)
  BY ConcatProperties DEF StatusType, Statuses
<1>2. QED BY <1>1, LenProperties

LEMMA HearsKeeps == StatusType /\ Hears => StatusType' /\ Statuses' = Statuses
<1> SUFFICES ASSUME StatusType, Hears PROVE StatusType' /\ Statuses' = Statuses
  OBVIOUS
<1>1. told' = Statuses /\ status_q' = <<>>
  BY DEF Hears, Statuses
<1>2. Statuses \in Seq(StatusName)
  BY StatusesSeq
<1>3. told' \o <<>> = told'
  BY <1>1, <1>2, ConcatEmptySeq
<1>4. Statuses' = Statuses
  BY <1>1, <1>3 DEF Statuses
<1>5. StatusType'
  BY <1>1, <1>2, EmptySeq DEF StatusType
<1>6. QED BY <1>4, <1>5

\* What one more status does to the last ones.
LEMMA OneMore ==
  ASSUME StatusType, FinishedIsLast, NEW s \in StatusName, Says(s), closed' = closed,
         s = "Finished" \/ (s # "Error" /\ ~closed) =>
           \A i \in DOMAIN Statuses : Statuses[i] # "Finished",
         s \notin {"Error", "SdpExchanged"} /\ ~closed =>
           \A i \in DOMAIN Statuses : Statuses[i] # "Error"
  PROVE  FinishedIsLast'
<1>1. /\ Len(Statuses) \in Nat /\ DOMAIN Statuses = 1 .. Len(Statuses)
      /\ DOMAIN Statuses' = 1 .. Len(Statuses) + 1
      /\ Statuses'[Len(Statuses) + 1] = s
      /\ \A i \in 1 .. Len(Statuses) : Statuses'[i] = Statuses[i]
  BY SaysAppends
<1> SUFFICES ASSUME NEW i \in DOMAIN Statuses', NEW j \in DOMAIN Statuses', i < j
             PROVE  /\ Statuses'[i] = "Finished" => Statuses'[j] # "Finished"
                    /\ ~closed /\ Statuses'[i] = "Finished" => Statuses'[j] = "Error"
                    /\ ~closed /\ Statuses'[i] = "Error" => Statuses'[j] \in {"Error", "SdpExchanged"}
  BY DEF FinishedIsLast
<1>2. i \in DOMAIN Statuses /\ Statuses'[i] = Statuses[i]
  BY <1>1
<1>3. CASE j \in DOMAIN Statuses
  <2>1. Statuses'[j] = Statuses[j]
    BY <1>1, <1>3
  <2>2. QED BY <1>2, <1>3, <2>1 DEF FinishedIsLast
<1>4. CASE j = Len(Statuses) + 1
  BY <1>1, <1>2, <1>4
<1>5. QED BY <1>1, <1>3, <1>4

LEMMA StatusSame ==
  ASSUME StatusInv, TaskType', StatusType', Statuses' = Statuses, Idle', Quiet', WellEnded',
         closed' = closed, task.at = "failed" => task'.at = "failed",
         main' = main \/ (main = "off" /\ main' = "exchange")
                      \/ (main = "exchange" /\ main' \in {"sdp", "error"})
                      \/ (main = "select" /\ main' \in {"finish", "error"})
  PROVE  StatusInv'
<1>1. FinishedIsLast'
  BY DEF StatusInv, FinishedIsLast
<1>2. Unfinished' /\ OwnError'
  BY DEF StatusInv, Unfinished, OwnError
<1>3. QED BY <1>1, <1>2 DEF StatusInv

LEMMA StatusStep == StatusInv /\ file_q \in Seq(File) /\ [Next]_vars => StatusInv'
<1> SUFFICES ASSUME StatusInv, file_q \in Seq(File), [Next]_vars PROVE StatusInv'
  OBVIOUS
<1>0. /\ TaskType /\ TaskType' /\ StatusType /\ Idle /\ Quiet /\ WellEnded /\ FinishedIsLast
      /\ Unfinished /\ OwnError
  BY TaskTypeStep DEF StatusInv
<1>1. CASE Begin
  <2>1. main = "off" /\ task.at = "off" /\ UNCHANGED <<task, closed, status_q, told>>
    BY <1>0, <1>1, BeginFacts DEF Idle, statVars
  <2>2. main' \in {"off", "exchange"} /\ Idle' /\ Quiet' /\ WellEnded'
    BY <1>1, <2>1, BeginFacts DEF Idle, Quiet, WellEnded
  <2>3. StatusType' /\ Statuses' = Statuses
    BY <1>0, <2>1 DEF StatusType, Statuses
  <2>4. QED BY <1>0, <2>1, <2>2, <2>3, StatusSame
<1>2. CASE Exchange \/ Select
  <2>1. UNCHANGED <<role, closed, status_q, told>>
    BY <1>2 DEF Exchange, Select, callVars, statVars
  <2>2. \/ main = "exchange" /\ main' \in {"sdp", "error"}
        \/ main = "select" /\ main' \in {"finish", "error"}
    BY <1>2 DEF Exchange, Select
  <2>3. Idle'
    BY <1>0, <2>1, <2>2 DEF Idle
  <2>4. Quiet' /\ WellEnded' /\ (task.at = "failed" => task'.at = "failed")
    <3>1. CASE Exchange
      <4>1. task.at = "off" /\ (task'.at = task.at \/ task'.at = "failed") /\ main' # "finish"
        BY <1>0, <3>1 DEF Exchange, Goto, TaskType, TaskRec, Idle
      <4>2. QED
        BY <4>1 DEF Quiet, WellEnded, TaskOver
    <3>2. CASE Select
      BY <2>1, <3>2 DEF Select, Quiet, WellEnded, TaskOver
    <3>3. QED BY <1>2, <3>1, <3>2
  <2>5. StatusType' /\ Statuses' = Statuses
    BY <1>0, <2>1 DEF StatusType, Statuses
  <2>6. QED BY <1>0, <2>1, <2>2, <2>3, <2>4, <2>5, StatusSame
<1>3. CASE Silent
  <2>1. UNCHANGED <<role, main, closed, status_q, told>>
    BY <1>3 DEF Silent
  <2>2. Idle' /\ StatusType' /\ Statuses' = Statuses
    BY <1>0, <1>3, <2>1 DEF Idle, StatusType, Statuses, Silent, TaskMoves
  <2>3. Quiet' /\ WellEnded' /\ (task.at = "failed" => task'.at = "failed")
    BY <1>0, <1>3 DEF Silent, TaskMoves, Quiet, WellEnded, TaskOver
  <2>4. QED BY <1>0, <2>1, <2>2, <2>3, StatusSame
<1>4. CASE Hears
  <2>1. UNCHANGED <<role, main, closed, task>>
    BY <1>4 DEF Hears
  <2>2. Idle' /\ Quiet' /\ WellEnded'
    BY <1>0, <2>1 DEF Idle, Quiet, WellEnded, TaskOver
  <2>3. QED BY <1>0, <1>4, <2>1, <2>2, HearsKeeps, StatusSame
<1>5. CASE PeerCloses
  <2>1. closed' /\ UNCHANGED <<role, main, task, status_q, told>> /\ Statuses' = Statuses
    BY <1>5 DEF PeerCloses, callVars, statVars, Statuses
  <2>2. FinishedIsLast' /\ Unfinished' /\ OwnError'
    BY <1>0, <2>1 DEF FinishedIsLast, Unfinished, OwnError
  <2>3. QED BY <1>0, <2>1, <2>2 DEF StatusInv, Idle, Quiet, WellEnded, StatusType
<1>6. CASE Speaks
  <2>1. PICK s \in {"PinRequired", "TooManyAttempts", "Connected", "Declined"} : Says(s)
    BY <1>6 DEF Speaks
  <2>2. /\ UNCHANGED <<role, main, closed>>
        /\ task.at \in {"verify", "pin", "toomany", "connected", "declined"}
    BY <1>6 DEF Speaks
  <2>3. s \in StatusName /\ s # "Finished" /\ s # "Error"
    BY <2>1 DEF StatusName
  <2>4. main \in {"sdp", "select"} \/ closed
    BY <1>0, <2>2 DEF Quiet, TaskOver, Idle
  <2>5. ~closed => \A i \in DOMAIN Statuses : Statuses[i] # "Finished" /\ Statuses[i] # "Error"
    BY <1>0, <2>2, <2>4 DEF Unfinished, OwnError
  <2>6. FinishedIsLast'
    BY <1>0, <2>1, <2>2, <2>3, <2>5, OneMore
  <2>7. /\ Idle' /\ Quiet' /\ WellEnded'
    BY <1>0, <2>2, <2>4 DEF Idle, Quiet, WellEnded
  <2>8. StatusType' /\ Unfinished' /\ OwnError'
    <3>1. /\ StatusType' /\ DOMAIN Statuses = 1 .. Len(Statuses) /\ Len(Statuses) \in Nat
          /\ DOMAIN Statuses' = 1 .. Len(Statuses) + 1 /\ Statuses'[Len(Statuses) + 1] = s
          /\ \A i \in 1 .. Len(Statuses) : Statuses'[i] = Statuses[i]
      BY <1>0, <2>1, <2>3, SaysAppends
    <3>2. \A i \in DOMAIN Statuses' : i \in DOMAIN Statuses \/ Statuses'[i] = s
      BY <3>1
    <3>3. Unfinished'
      BY <1>0, <2>2, <2>3, <3>1, <3>2 DEF Unfinished
    <3>4. OwnError'
      BY <1>0, <2>2, <2>3, <2>5, <3>1, <3>2 DEF OwnError
    <3>5. QED BY <3>1, <3>3, <3>4
  <2>9. QED BY <1>0, <2>6, <2>7, <2>8 DEF StatusInv
<1>7. CASE Errs
  <2>1. /\ Says("Error") /\ UNCHANGED <<role, main, closed>> /\ task.at \in {"error", "list"}
        /\ task'.at = "failed" /\ "Error" \in StatusName
    BY <1>0, <1>7 DEF Errs, Goto, TaskType, TaskRec, StatusName
  <2>2. FinishedIsLast'
    BY <1>0, <2>1, OneMore
  <2>3. main \in {"sdp", "select"} \/ closed
    BY <1>0, <2>1 DEF Quiet, TaskOver, Idle
  <2>4. Idle' /\ Quiet' /\ WellEnded'
    BY <1>0, <2>1, <2>3 DEF Idle, Quiet, WellEnded, TaskOver
  <2>5. StatusType' /\ Unfinished' /\ OwnError'
    <3>1. /\ StatusType' /\ DOMAIN Statuses = 1 .. Len(Statuses) /\ Len(Statuses) \in Nat
          /\ DOMAIN Statuses' = 1 .. Len(Statuses) + 1 /\ Statuses'[Len(Statuses) + 1] = "Error"
          /\ \A i \in 1 .. Len(Statuses) : Statuses'[i] = Statuses[i]
      BY <1>0, <2>1, SaysAppends
    <3>2. \A i \in DOMAIN Statuses' : i \in DOMAIN Statuses \/ Statuses'[i] = "Error"
      BY <3>1
    <3>3. Unfinished'
      BY <1>0, <2>1, <3>1, <3>2 DEF Unfinished
    <3>4. OwnError'
      BY <2>1 DEF OwnError
    <3>5. QED BY <3>1, <3>3, <3>4
  <2>6. QED BY <1>0, <2>2, <2>4, <2>5 DEF StatusInv
<1>8. CASE SdpExchanged \/ Finished \/ Failed
  <2>1. PICK s \in {"SdpExchanged", "Finished", "Error"} :
          /\ Says(s) /\ UNCHANGED <<role, closed, task>>
          /\ \/ s = "SdpExchanged" /\ main = "sdp" /\ main' = "select"
             \/ s = "Finished" /\ main = "finish" /\ main' \in {"returned", "error"}
             \/ s = "Error" /\ main = "error" /\ main' = "returned"
    BY <1>8 DEF SdpExchanged, Finished, Failed, MainSays, callVars
  <2>2. s \in StatusName
    BY SomeNames
  <2>3. s # "Error" => \A i \in DOMAIN Statuses : Statuses[i] # "Finished"
    BY <1>0, <2>1 DEF Unfinished
  <2>4. s = "Finished" /\ ~closed => \A i \in DOMAIN Statuses : Statuses[i] # "Error"
    BY <1>0, <2>1 DEF OwnError, WellEnded
  <2>5. FinishedIsLast'
    BY <1>0, <2>1, <2>2, <2>3, <2>4, OneMore
  <2>6. Idle' /\ Quiet' /\ WellEnded'
    BY <1>0, <2>1 DEF Idle, Quiet, WellEnded, TaskOver
  <2>7. StatusType' /\ Unfinished' /\ OwnError'
    <3>1. /\ StatusType' /\ DOMAIN Statuses = 1 .. Len(Statuses) /\ Len(Statuses) \in Nat
          /\ DOMAIN Statuses' = 1 .. Len(Statuses) + 1 /\ Statuses'[Len(Statuses) + 1] = s
          /\ \A i \in 1 .. Len(Statuses) : Statuses'[i] = Statuses[i]
      BY <1>0, <2>1, <2>2, SaysAppends
    <3>2. \A i \in DOMAIN Statuses' : i \in DOMAIN Statuses \/ Statuses'[i] = s
      BY <3>1
    <3>3. Unfinished'
      BY <1>0, <2>1, <3>1, <3>2 DEF Unfinished
    <3>4. OwnError'
      BY <1>0, <2>1, <3>1, <3>2 DEF OwnError
    <3>5. QED BY <3>1, <3>3, <3>4
  <2>8. QED BY <1>0, <2>5, <2>6, <2>7 DEF StatusInv
<1>9. QED BY <1>1, <1>2, <1>3, <1>4, <1>5, <1>6, <1>7, <1>8, Kinds DEF Main

-----------------------------------------------------------------------------
\* The PIN requests.

PinQuiet ==
    /\ UNCHANGED pin
    /\ \/ UNCHANGED task
       \/ /\ task'.pins = task.pins /\ task'.at # "await"
          /\ task.at = "await" => task.pins \in pin.given

LEMMA GotoFacts ==
  ASSUME TaskType, NEW where \in TaskAt, Goto(where)
  PROVE  task'.at = where /\ task'.pins = task.pins /\ task'.file = task.file
BY DEF TaskType, TaskRec, Goto

LEMMA PinKinds ==
  TaskType /\ Idle /\ [Next]_vars =>
    Ask \/ ForwardTakes \/ ForwardStores \/ (\E c \in Call : send_pin(c)) \/ PinQuiet
<1> SUFFICES ASSUME TaskType, Idle, [Next]_vars,
                    ~Ask, ~ForwardTakes, ~ForwardStores, ~\E c \in Call : send_pin(c)
             PROVE  PinQuiet
  OBVIOUS
<1>1. CASE UNCHANGED <<pin, task>>
  BY <1>1 DEF PinQuiet
<1>2. ASSUME NEW where \in TaskAt \ {"await"}, Goto(where), UNCHANGED pin, task.at # "await"
      PROVE  PinQuiet
  BY <1>2, GotoFacts DEF PinQuiet
<1>3. CASE Main
  <2>1. CASE Exchange
    <3>1. task.at = "off" /\ UNCHANGED pin
      BY <2>1 DEF Exchange, Idle, handVars
    <3>2. QED BY <1>1, <1>2, <2>1, <3>1 DEF Exchange, TaskAt
  <2>2. CASE Select
    BY <1>1, <2>2 DEF Select, handVars
  <2>3. CASE SdpExchanged \/ Finished \/ Failed
    BY <1>1, <2>3 DEF SdpExchanged, Finished, Failed, MainSays, handVars
  <2>4. QED BY <1>3, <2>1, <2>2, <2>3 DEF Main
<1>4. CASE VerifyPin \/ PinRequired \/ TooManyAttempts \/ Connected \/ Declined \/ TaskFails
  <2>1. /\ \E where \in {"verifying", "ask", "failed", "list", "ended"} : Goto(where)
        /\ UNCHANGED pin /\ task.at # "await"
    BY <1>4 DEF VerifyPin, PinRequired, TooManyAttempts, Connected, Declined, TaskFails, TaskSays,
               handVars
  <2>2. QED BY <1>2, <2>1 DEF TaskAt
<1>5. CASE PublishFiles \/ UserHasChosen
  <2>1. /\ \E where \in {"choice", "ended", "idle", "failed"} : Goto(where)
        /\ UNCHANGED pin /\ task.at # "await"
    BY <1>5 DEF PublishFiles, UserHasChosen, handVars
  <2>2. QED BY <1>2, <2>1 DEF TaskAt
<1>6. CASE TakeFile
  BY <1>6 DEF TakeFile, TaskType, TaskRec, PinQuiet, handVars
<1>7. ASSUME NEW f \in File, ApplyResult(f) \/ SendChunk(f) \/ FileSent(f) PROVE PinQuiet
  <2>1. CASE UNCHANGED task
    BY <1>1, <1>7, <2>1 DEF ApplyResult, SendChunk, FileSent, handVars
  <2>2. CASE task' # task
    <3>1. /\ \E where \in {"idle", "ended"} : Goto(where)
          /\ UNCHANGED pin /\ task.at # "await"
      BY <1>7, <2>2 DEF ApplyResult, SendChunk, FileSent, handVars, coreVars
    <3>2. QED BY <1>2, <3>1 DEF TaskAt
  <2>3. QED BY <2>1, <2>2
<1>8. CASE TaskBegins \/ Verified \/ ListNotSent \/ PublishSelection \/ PeerStops
  <2>1. /\ \E where \in TaskAt \ {"await"} : Goto(where)
        /\ UNCHANGED pin /\ task.at # "await"
    BY <1>8 DEF TaskBegins, Verified, ListNotSent, PublishSelection, PeerStops, AtPeer, TaskAt, handVars
  <2>2. QED BY <1>2, <2>1
<1>9. CASE Verdict
  <2>1. /\ \E where \in TaskAt \ {"await"} : Goto(where)
        /\ UNCHANGED pin /\ task.pins \in pin.given
    BY <1>9 DEF Verdict, TaskAt, handVars
  <2>2. QED BY <2>1, GotoFacts DEF PinQuiet
<1>10. CASE ReportError \/ PeerCloses
  BY <1>1, <1>10 DEF ReportError, PeerCloses, coreVars, handVars
<1>11. ASSUME NEW f \in File, Header(f) PROVE PinQuiet
  BY <1>11 DEF Header, TaskType, TaskRec, PinQuiet, handVars
<1>12. ASSUME NEW f \in File, ReceiveChunk(f) \/ EndFile(f) PROVE PinQuiet
  <2>1. CASE ReceiveChunk(f)
    BY <1>1, <2>1 DEF ReceiveChunk, PutChunk, coreVars, handVars
  <2>2. CASE EndFile(f)
    <3>1. Goto("result") /\ UNCHANGED pin /\ task.at # "await" /\ "result" \in TaskAt \ {"await"}
      BY <2>2 DEF EndFile, handVars, TaskAt
    <3>2. QED BY <1>2, <3>1
  <2>3. QED BY <1>12, <2>1, <2>2
<1>13. CASE Begin
  BY <1>1, <1>13, BeginFacts DEF handVars
<1>14. CASE Grant \/ \E c \in Call : Issue(c)
  BY <1>1, <1>14 DEF Grant, Issue, coreVars, handVars
<1>15. CASE \E f \in File : FileStep(f)
  BY <1>1, <1>15, FileStepFrame DEF coreVars, handVars
<1>16. ASSUME NEW c \in Call, Method(c) PROVE PinQuiet
  <2>1. UNCHANGED task
    BY <1>16, MethodKinds DEF Hears
  <2>2. UNCHANGED pin
    <3>1. CASE ListenReceiver(c) \/ ListenAsSender(c)
      BY <3>1 DEF ListenReceiver, ListenAsSender, Take, handVars
    <3>2. CASE listen_status(c) \/ listen_error(c) \/ listen_receiving(c)
      BY <3>2 DEF listen_status, listen_error, listen_receiving, Ending, handVars
    <3>3. CASE listen_files(c) \/ listen_selected_files(c)
      BY <3>3 DEF listen_files, listen_selected_files, OneShot, handVars
    <3>4. CASE send_selection(c) \/ decline(c)
      BY <3>4 DEF send_selection, decline, Decide
    <3>5. CASE send_file_status(c) \/ send_file(c)
      BY <3>5 DEF send_file_status, send_file, handVars
    <3>6. QED BY <1>16, <3>1, <3>2, <3>3, <3>4, <3>5 DEF Method
  <2>3. QED BY <1>1, <2>1, <2>2
<1>17. CASE UNCHANGED vars
  BY <1>1, <1>17 DEF vars, coreVars, handVars
<1>18. QED
  BY <1>3, <1>4, <1>5, <1>6, <1>7, <1>8, <1>9, <1>10, <1>11, <1>12, <1>13, <1>14, <1>15, <1>16,
     <1>17, NextSplit DEF Other, Task, Peer

LEMMA PinStep ==
  TaskType /\ Idle /\ PinType /\ PinShape /\ [Next]_vars => PinType' /\ PinShape'
<1> SUFFICES ASSUME TaskType, Idle, PinType, PinShape, [Next]_vars PROVE PinType' /\ PinShape'
  OBVIOUS
<1>1. /\ task.pins \in Nat /\ pin.given \subseteq Nat
      /\ pin.q \in Seq(Nat) /\ pin.forward \in Seq(Nat) /\ pin.slot \in Seq(Nat)
      /\ \A n \in pin.given : n <= task.pins
  BY DEF TaskType, TaskRec, PinType, PinShape
<1>2. <<>> \in Seq(Nat) /\ \A n \in Nat : <<n>> \in Seq(Nat) /\ <<n>> # <<>>
  BY EmptySeq
<1>3. CASE PinQuiet
  <2>1. PinType'
    BY <1>3 DEF PinQuiet, PinType
  <2>2. CASE UNCHANGED task
    <3>1. pin' = pin
      BY <1>3 DEF PinQuiet
    <3>2. QED BY <2>1, <2>2, <3>1, Zenon DEF PinShape, OneRequest, NoRequest
  <2>3. CASE task'.pins = task.pins /\ task'.at # "await" /\ (task.at = "await" => task.pins \in pin.given)
    <3>1. pin' = pin
      BY <1>3 DEF PinQuiet
    <3>2. NoRequest
      BY <2>3 DEF PinShape
    <3>3. NoRequest' /\ \A n \in pin'.given : n <= task'.pins
      BY <1>1, <2>3, <3>1, <3>2 DEF NoRequest
    <3>4. QED BY <2>1, <2>3, <3>3 DEF PinShape
  <2>4. QED BY <1>3, <2>1, <2>2, <2>3 DEF PinQuiet
<1>4. CASE Ask
  <2>1. task.at = "ask" /\ NoRequest
    BY <1>4 DEF Ask, PinShape
  <2>2. /\ pin' = [pin EXCEPT !.q = <<task.pins + 1>>]
        /\ task' = [task EXCEPT !.at = "await", !.pins = task.pins + 1]
    BY <1>4 DEF Ask
  <2>3. task'.at = "await" /\ task'.pins = task.pins + 1
    <3>1. task' = [at |-> "await", pins |-> task.pins + 1, file |-> task.file]
      BY <2>2 DEF TaskType, TaskRec
    <3>2. QED BY <3>1
  <2>4. pin' = [q |-> <<task.pins + 1>>, forward |-> pin.forward, slot |-> pin.slot, given |-> pin.given]
    <3> DEFINE u == <<task.pins + 1>>
    <3>1. pin' = [pin EXCEPT !.q = u]
      BY <2>2
    <3> HIDE DEF u
    <3>2. pin' = [q |-> u, forward |-> pin.forward, slot |-> pin.slot, given |-> pin.given]
      BY <3>1 DEF PinType
    <3>3. QED BY <3>2 DEF u
  <2>5. PinType'
    BY <1>1, <1>2, <2>4 DEF PinType
  <2>6. OneRequest'
    BY <2>1, <2>3, <2>4 DEF OneRequest, NoRequest
  <2>7. \A n \in pin'.given : n <= task'.pins /\ n # task'.pins
    BY <1>1, <2>3, <2>4
  <2>8. PinShape'
    BY <2>3, <2>6, <2>7 DEF PinShape
  <2>9. QED BY <2>5, <2>8
<1>5. CASE ForwardTakes
  <2>1. /\ pin.q # <<>> /\ pin.forward = <<>> /\ UNCHANGED task
        /\ pin' = [pin EXCEPT !.q = <<>>, !.forward = pin.q]
    BY <1>5 DEF ForwardTakes, coreVars
  <2>2. pin' = [q |-> <<>>, forward |-> pin.q, slot |-> pin.slot, given |-> pin.given]
    BY <2>1 DEF PinType
  <2>3. PinType'
    BY <1>1, <1>2, <2>2 DEF PinType
  <2>4. OneRequest /\ task.at = "await" /\ task.pins \notin pin.given
    BY <2>1 DEF PinShape, NoRequest
  <2>5. OneRequest'
    BY <2>1, <2>2, <2>4 DEF OneRequest
  <2>6. PinShape'
    BY <1>1, <2>1, <2>2, <2>4, <2>5 DEF PinShape
  <2>7. QED BY <2>3, <2>6
<1>6. CASE ForwardStores
  <2>1. /\ pin.forward # <<>> /\ UNCHANGED task
        /\ pin' = [pin EXCEPT !.forward = <<>>, !.slot = pin.forward]
    BY <1>6 DEF ForwardStores, coreVars
  <2>2. pin' = [q |-> pin.q, forward |-> <<>>, slot |-> pin.forward, given |-> pin.given]
    BY <2>1 DEF PinType
  <2>3. PinType'
    BY <1>1, <1>2, <2>2 DEF PinType
  <2>4. OneRequest /\ task.at = "await" /\ task.pins \notin pin.given
    BY <2>1 DEF PinShape, NoRequest
  <2>5. OneRequest'
    BY <2>1, <2>2, <2>4 DEF OneRequest
  <2>6. PinShape'
    BY <1>1, <2>1, <2>2, <2>4, <2>5 DEF PinShape
  <2>7. QED BY <2>3, <2>6
<1>7. ASSUME NEW c \in Call, send_pin(c) PROVE PinType' /\ PinShape'
  <2> DEFINE all == pin.given \cup ToSet(pin.slot)
             g == IF TaskOver THEN pin.given ELSE all
  <2>1. pin' = [pin EXCEPT !.slot = <<>>, !.given = g] /\ UNCHANGED task
    BY <1>7 DEF send_pin, coreVars
  <2> HIDE DEF g
  <2>2. pin' = [q |-> pin.q, forward |-> pin.forward, slot |-> <<>>, given |-> g]
    BY <2>1 DEF PinType
  <2>3. CASE pin.slot = <<>>
    <3>1. ToSet(pin.slot) = {}
      BY <2>3 DEF ToSet
    <3>2. pin' = pin
      <4>1. g = pin.given
        BY <3>1 DEF g
      <4>2. pin = [q |-> pin.q, forward |-> pin.forward, slot |-> pin.slot, given |-> pin.given]
        BY DEF PinType
      <4>3. QED BY <2>2, <2>3, <4>1, <4>2
    <3>3. QED BY <2>1, <3>2 DEF PinType, PinShape, OneRequest, NoRequest
  <2>4. CASE pin.slot # <<>>
    <3>1. /\ task.at = "await" /\ pin.q = <<>> /\ pin.forward = <<>> /\ pin.slot = <<task.pins>>
      BY <2>4 DEF PinShape, NoRequest, OneRequest
    <3>2. ToSet(pin.slot) = {task.pins}
      <4>1. Len(pin.slot) = 1 /\ pin.slot[1] = task.pins
        BY <3>1
      <4>2. QED BY <3>1, <4>1 DEF ToSet
    <3>3. g = pin.given \cup {task.pins}
      BY <3>1, <3>2 DEF g, TaskOver
    <3>4. PinType'
      BY <1>1, <1>2, <2>2, <3>3 DEF PinType
    <3>5. NoRequest'
      BY <2>2, <3>1 DEF NoRequest
    <3>6. PinShape'
      BY <1>1, <2>1, <2>2, <3>3, <3>5 DEF PinShape
    <3>7. QED BY <3>4, <3>6
  <2>5. QED BY <2>3, <2>4
<1>8. QED BY <1>3, <1>4, <1>5, <1>6, <1>7, PinKinds

LEMMA PinKept == TaskType /\ PinType /\ PinShape => PinRequestKept
<1> SUFFICES ASSUME TaskType, PinType, PinShape, task.at = "await"
             PROVE  pin.q \o pin.forward \o pin.slot
                      = IF task.pins \in pin.given THEN <<>> ELSE <<task.pins>>
  BY DEF PinRequestKept
<1>1. task.pins \in Nat /\ <<>> \in Seq(Nat) /\ <<task.pins>> \in Seq(Nat)
  BY EmptySeq DEF TaskType, TaskRec
<1>2. /\ <<>> \o <<>> = <<>> /\ <<>> \o <<task.pins>> = <<task.pins>>
      /\ <<task.pins>> \o <<>> = <<task.pins>>
  BY <1>1, ConcatEmptySeq
<1>3. CASE task.pins \in pin.given
  BY <1>2, <1>3 DEF PinShape, NoRequest
<1>4. CASE task.pins \notin pin.given
  <2>1. OneRequest
    BY <1>4 DEF PinShape
  <2>2. QED BY <1>2, <1>4, <2>1 DEF OneRequest
<1>5. QED BY <1>3, <1>4

-----------------------------------------------------------------------------
\* The bytes of a file.

Nats == Seq(Nat)

\* Concatenation, as something the provers know only these facts of.
Cat(x, y) == x \o y

LEMMA CatAssociative ==
  ASSUME NEW S, NEW x \in Seq(S), NEW y \in Seq(S), NEW z \in Seq(S)
  PROVE  Cat(Cat(x, y), z) = Cat(x, Cat(y, z))
BY ConcatAssociative DEF Cat

LEMMA CatFacts ==
  /\ <<>> \in Nats
  /\ \A n \in Nat : <<n>> \in Nats
  /\ \A x, y \in Nats : Cat(x, y) \in Nats
  /\ \A x \in Nats : Cat(x, <<>>) = x /\ Cat(<<>>, x) = x
  /\ \A x, y, z \in Nats : Cat(Cat(x, y), z) = Cat(x, Cat(y, z))
<1>1. <<>> \in Nats
  BY EmptySeq DEF Nats
<1>2. \A n \in Nat : <<n>> \in Nats
  BY DEF Nats
<1>3. \A x, y \in Nats : Cat(x, y) \in Nats
  BY ConcatProperties DEF Cat, Nats
<1>4. \A x \in Nats : Cat(x, <<>>) = x /\ Cat(<<>>, x) = x
  BY ConcatEmptySeq DEF Cat, Nats
<1>5. \A x, y, z \in Nats : Cat(Cat(x, y), z) = Cat(x, Cat(y, z))
  BY CatAssociative DEF Nats
<1>6. QED BY <1>1, <1>2, <1>3, <1>4, <1>5

LEMMA CatMiddle ==
  ASSUME NEW x \in Nats, NEW y \in Nats, NEW u \in Nats, NEW z \in Nats
  PROVE  Cat(Cat(x, Cat(y, u)), z) = Cat(Cat(x, y), Cat(u, z))
<1>1. Cat(x, Cat(y, u)) = Cat(Cat(x, y), u)
  BY CatFacts
<1>2. Cat(x, y) \in Nats
  BY CatFacts
<1>3. Cat(Cat(Cat(x, y), u), z) = Cat(Cat(x, y), Cat(u, z))
  BY <1>2, CatFacts
<1>4. QED BY <1>1, <1>3

LEMMA AppendCat ==
  ASSUME NEW s \in Nats, NEW n \in Nat
  PROVE  Append(s, n) \in Nats /\ Append(s, n) = Cat(s, <<n>>) /\ <<n>> \in Nats
<1>1. s \in Seq(Nat)
  BY DEF Nats
<1>2. Append(s, n) \in Seq(Nat) /\ Append(s, n) = s \o <<n>>
  BY <1>1, AppendProperties, AppendIsConcat
<1>3. QED BY <1>2, CatFacts DEF Cat, Nats

LEMMA HeadFirst ==
  ASSUME NEW s \in Nats, s # <<>>
  PROVE  Head(s) \in Nat /\ Tail(s) \in Nats /\ Cat(<<Head(s)>>, Tail(s)) = s
<1>0. s \in Seq(Nat)
  BY DEF Nats
<1>1. Head(s) \in Nat /\ Tail(s) \in Seq(Nat)
  BY <1>0, HeadTailProperties
<1> DEFINE t == Tail(s)
           h == <<Head(s)>>
<1>2. /\ Len(s) \in Nat \ {0} /\ Len(t) = Len(s) - 1
      /\ \A i \in 1 .. Len(t) : t[i] = s[i + 1]
  BY <1>0, HeadTailProperties, LenProperties, EmptySeq
<1>3. h \in Seq(Nat) /\ Len(h) = 1 /\ h[1] = s[1]
  BY <1>0, <1>1
<1> HIDE DEF t, h
<1>4. t \in Seq(Nat)
  BY <1>1 DEF t
<1>5. /\ h \o t \in Seq(Nat) /\ Len(h \o t) = Len(h) + Len(t)
      /\ \A i \in 1 .. Len(h) + Len(t) : (h \o t)[i] = IF i <= Len(h) THEN h[i] ELSE t[i - Len(h)]
  BY <1>3, <1>4, ConcatProperties
<1>6. Len(h \o t) = Len(s)
  BY <1>2, <1>3, <1>5
<1>7. \A i \in 1 .. Len(s) : (h \o t)[i] = s[i]
  <2> SUFFICES ASSUME NEW i \in 1 .. Len(s) PROVE (h \o t)[i] = s[i]
    OBVIOUS
  <2>1. CASE i = 1
    BY <2>1, <1>2, <1>3, <1>5
  <2>2. CASE i # 1
    <3>1. i - 1 \in 1 .. Len(t) /\ i \in 1 .. Len(h) + Len(t) /\ ~(i <= Len(h)) /\ i - 1 + 1 = i
      BY <2>2, <1>2, <1>3
    <3>2. (h \o t)[i] = t[i - 1]
      BY <3>1, <1>3, <1>5
    <3>3. t[i - 1] = s[i]
      BY <3>1, <1>2
    <3>4. QED BY <3>2, <3>3
  <2>3. QED BY <2>1, <2>2
<1>8. h \o t = s
  BY <1>0, <1>5, <1>6, <1>7, SeqEqual
<1>9. Cat(h, t) = s
  BY <1>8 DEF Cat
<1>10. t \in Nats
  BY <1>4 DEF Nats
<1>11. QED BY <1>1, <1>9, <1>10 DEF h, t

LEMMA UptoGrows == \A n \in Nat : Upto(n) \in Nats /\ Cat(Upto(n), <<n + 1>>) = Upto(n + 1)
<1> SUFFICES ASSUME NEW n \in Nat PROVE Upto(n) \in Nats /\ Cat(Upto(n), <<n + 1>>) = Upto(n + 1)
  OBVIOUS
<1>1. /\ Upto(n) \in Seq(Nat) /\ Len(Upto(n)) = n /\ \A i \in 1 .. n : Upto(n)[i] = i
  BY DEF Upto
<1>2. /\ Upto(n + 1) \in Seq(Nat) /\ Len(Upto(n + 1)) = n + 1
      /\ \A i \in 1 .. n + 1 : Upto(n + 1)[i] = i
  BY DEF Upto
<1>3. Upto(n) \o <<n + 1>> = Append(Upto(n), n + 1)
  BY <1>1, AppendIsConcat
<1> DEFINE s == Append(Upto(n), n + 1)
<1>4. /\ s \in Seq(Nat) /\ Len(s) = n + 1 /\ s[n + 1] = n + 1
      /\ \A i \in 1 .. n : s[i] = Upto(n)[i]
  BY <1>1, AppendProperties
<1> HIDE DEF s
<1>5. \A i \in 1 .. n + 1 : s[i] = Upto(n + 1)[i]
  BY <1>1, <1>2, <1>4
<1>6. s = Upto(n + 1)
  BY <1>2, <1>4, <1>5, SeqEqual
<1>7. QED BY <1>1, <1>3, <1>6 DEF Cat, s, Nats

\* The parts of a file, from the peer or Dart to where its bytes go.
Parts(g, o, b, q) == Cat(Cat(Cat(g, o), b), q)

LEMMA PartsPut ==
  \A g, o, b, q, u \in Nats : Parts(g, o, b, Cat(q, u)) = Cat(Parts(g, o, b, q), u)
<1> SUFFICES ASSUME NEW g \in Nats, NEW o \in Nats, NEW b \in Nats, NEW q \in Nats, NEW u \in Nats
             PROVE  Parts(g, o, b, Cat(q, u)) = Cat(Parts(g, o, b, q), u)
  OBVIOUS
<1>1. Cat(g, o) \in Nats
  BY CatFacts
<1>2. Cat(Cat(g, o), b) \in Nats
  BY <1>1, CatFacts
<1>3. QED BY <1>2, CatFacts DEF Parts

LEMMA PartsFlush ==
  \A g, b, q \in Nats : Parts(g, b, <<>>, q) = Parts(g, <<>>, b, q)
<1> SUFFICES ASSUME NEW g \in Nats, NEW b \in Nats, NEW q \in Nats
             PROVE  Parts(g, b, <<>>, q) = Parts(g, <<>>, b, q)
  OBVIOUS
<1>1. Cat(g, b) \in Nats /\ Cat(g, <<>>) = g
  BY CatFacts
<1>2. Cat(Cat(g, b), <<>>) = Cat(g, b)
  BY <1>1, CatFacts
<1>3. QED BY <1>1, <1>2 DEF Parts

LEMMA PartsOut ==
  \A g, o, b, q \in Nats : Parts(Cat(g, o), <<>>, b, q) = Parts(g, o, b, q)
<1> SUFFICES ASSUME NEW g \in Nats, NEW o \in Nats, NEW b \in Nats, NEW q \in Nats
             PROVE  Parts(Cat(g, o), <<>>, b, q) = Parts(g, o, b, q)
  OBVIOUS
<1>1. Cat(g, o) \in Nats
  BY CatFacts
<1>2. Cat(Cat(g, o), <<>>) = Cat(g, o)
  BY <1>1, CatFacts
<1>3. QED BY <1>2 DEF Parts

LEMMA PartsSend ==
  \A g, u, t \in Nats : Parts(Cat(g, u), <<>>, <<>>, t) = Parts(g, <<>>, <<>>, Cat(u, t))
<1> SUFFICES ASSUME NEW g \in Nats, NEW u \in Nats, NEW t \in Nats
             PROVE  Parts(Cat(g, u), <<>>, <<>>, t) = Parts(g, <<>>, <<>>, Cat(u, t))
  OBVIOUS
<1>1. Cat(g, u) \in Nats /\ Cat(g, <<>>) = g
  BY CatFacts
<1>2. Cat(Cat(g, u), <<>>) = Cat(g, u) /\ Cat(Cat(g, u), t) = Cat(g, Cat(u, t))
  BY <1>1, CatFacts
<1>3. QED BY <1>1, <1>2 DEF Parts

LEMMA PartsDone == \A g \in Nats : Parts(g, <<>>, <<>>, <<>>) = g
BY CatFacts DEF Parts

LEMMA DataFields ==
  \A d \in Data :
    /\ d.got \in Nats /\ d.out \in Nats /\ d.buffer \in Nats /\ d.q \in Nats /\ d.sent \in Nat
    /\ d.at \in {"new", "open", "over"} /\ d.read \in {"idle", "reading", "done"}
    /\ d = [at |-> d.at, sent |-> d.sent, q |-> d.q, buffer |-> d.buffer, out |-> d.out,
            got |-> d.got, read |-> d.read]
BY DEF Data, Nats

LEMMA WholeParts ==
  ASSUME NEW d \in Data
  PROVE  Whole(d) <=> Parts(d.got, d.out, d.buffer, d.q) = Upto(d.sent)
BY Zenon DEF Whole, Parts, Cat

\* The record of a file is opened or closed.
LEMMA AtBytes ==
  ASSUME NEW d \in Data, NEW r, BytesOf(d, r), NEW a \in {"new", "open", "over"},
         d.read = "done" => a = "over"
  PROVE  [d EXCEPT !.at = a] \in Data /\ BytesOf([d EXCEPT !.at = a], r)
<1> DEFINE e == [d EXCEPT !.at = a]
<1>1. /\ e \in Data /\ e.at = a /\ e.sent = d.sent /\ e.q = d.q /\ e.buffer = d.buffer
      /\ e.out = d.out /\ e.got = d.got /\ e.read = d.read
  BY DEF Data
<1> HIDE DEF e
<1>2. BytesOf(e, r)
  BY <1>1 DEF BytesOf, Whole
<1>3. QED BY <1>1, <1>2 DEF e

LEMMA PutBytes ==
  ASSUME NEW d \in Data, NEW r, BytesOf(d, r), d.at = "open"
  PROVE  LET e == [d EXCEPT !.q = Append(d.q, d.sent + 1), !.sent = d.sent + 1] IN
         e \in Data /\ BytesOf(e, r)
<1> DEFINE u == <<d.sent + 1>>
           q == Append(d.q, d.sent + 1)
           e == [d EXCEPT !.q = q, !.sent = d.sent + 1]
<1>1. d.q \in Seq(Nat) /\ d.sent \in Nat /\ d.sent + 1 \in Nat
  BY DEF Data
<1>2. q \in Seq(Nat) /\ q = d.q \o u /\ u \in Seq(Nat)
  <2>1. q \in Seq(Nat)
    BY <1>1, AppendProperties
  <2>2. q = d.q \o u
    BY <1>1, AppendIsConcat
  <2>3. u \in Seq(Nat)
    BY <1>1
  <2>4. QED BY <2>1, <2>2, <2>3
<1> HIDE DEF u, q
<1>3. /\ e \in Data /\ e.at = d.at /\ e.sent = d.sent + 1 /\ e.q = q /\ e.buffer = d.buffer
      /\ e.out = d.out /\ e.got = d.got /\ e.read = d.read
  BY <1>1, <1>2 DEF Data
<1> HIDE DEF e
<1>4. /\ d.got \in Nats /\ d.out \in Nats /\ d.buffer \in Nats /\ d.q \in Nats /\ u \in Nats
      /\ q = Cat(d.q, u)
  BY <1>2, DataFields DEF Nats, Cat
<1>5. Parts(d.got, d.out, d.buffer, q) = Cat(Parts(d.got, d.out, d.buffer, d.q), u)
  BY <1>4, PartsPut
<1>6. Parts(d.got, d.out, d.buffer, d.q) = Upto(d.sent)
  BY WholeParts DEF BytesOf
<1>7. Cat(Upto(d.sent), u) = Upto(d.sent + 1)
  BY <1>1, UptoGrows DEF u
<1>8. Whole(e)
  BY <1>3, <1>5, <1>6, <1>7, WholeParts
<1>9. d.read # "done"
  BY DEF BytesOf
<1>10. BytesOf(e, r)
  BY <1>3, <1>8, <1>9 DEF BytesOf
<1>11. QED BY <1>3, <1>10 DEF e, q

LEMMA SendBytes ==
  ASSUME NEW d \in Data, NEW r, BytesOf(d, r), r # "receive", d.q # <<>>
  PROVE  LET e == [d EXCEPT !.got = Append(d.got, Head(d.q)), !.q = Tail(d.q)] IN
         e \in Data /\ BytesOf(e, r)
<1> DEFINE u == <<Head(d.q)>>
           t == Tail(d.q)
           g == Append(d.got, Head(d.q))
           e == [d EXCEPT !.got = g, !.q = t]
<1>1. d.q \in Nats /\ d.got \in Nats /\ d.got \in Seq(Nat)
  BY DataFields DEF Nats
<1>2. Head(d.q) \in Nat /\ t \in Nats /\ Cat(u, t) = d.q
  BY <1>1, HeadFirst
<1>3. g \in Nats /\ g = Cat(d.got, u) /\ u \in Nats
  BY <1>1, <1>2, AppendCat
<1>4. g \in Seq(Nat) /\ t \in Seq(Nat)
  BY <1>2, <1>3 DEF Nats
<1> HIDE DEF u, t, g
<1>5. /\ e \in Data /\ e.at = d.at /\ e.sent = d.sent /\ e.q = t /\ e.buffer = d.buffer
      /\ e.out = d.out /\ e.got = g /\ e.read = d.read
  BY <1>3, <1>4 DEF Data
<1> HIDE DEF e
<1>6. d.read = "idle" /\ d.out = <<>> /\ d.buffer = <<>>
  BY DEF BytesOf
<1>7. Parts(Cat(d.got, u), <<>>, <<>>, t) = Parts(d.got, <<>>, <<>>, Cat(u, t))
  BY <1>1, <1>2, <1>3, PartsSend
<1>8. Parts(d.got, d.out, d.buffer, d.q) = Upto(d.sent)
  BY WholeParts DEF BytesOf
<1>9. Whole(e)
  BY <1>2, <1>3, <1>5, <1>6, <1>7, <1>8, WholeParts
<1>10. e.read = "idle" /\ e.out = <<>> /\ e.buffer = <<>>
  BY <1>5, <1>6
<1>11. BytesOf(e, r)
  BY <1>9, <1>10 DEF BytesOf
<1>12. QED BY <1>5, <1>11 DEF e, g, t

LEMMA BufferBytes ==
  ASSUME NEW d \in Data, NEW r, BytesOf(d, r), d.read = "reading", d.q # <<>>
  PROVE  LET e == [d EXCEPT !.buffer = Append(d.buffer, Head(d.q)), !.q = Tail(d.q)] IN
         e \in Data /\ BytesOf(e, r)
<1> DEFINE u == <<Head(d.q)>>
           t == Tail(d.q)
           b == Append(d.buffer, Head(d.q))
           e == [d EXCEPT !.buffer = b, !.q = t]
<1>1. d.q \in Nats /\ d.got \in Nats /\ d.out \in Nats /\ d.buffer \in Nats
  BY DataFields
<1>2. Head(d.q) \in Nat /\ t \in Nats /\ Cat(u, t) = d.q
  BY <1>1, HeadFirst
<1>3. b \in Nats /\ b = Cat(d.buffer, u) /\ u \in Nats
  BY <1>1, <1>2, AppendCat
<1>4. b \in Seq(Nat) /\ t \in Seq(Nat)
  BY <1>2, <1>3 DEF Nats
<1> HIDE DEF u, t, b
<1>5. /\ e \in Data /\ e.at = d.at /\ e.sent = d.sent /\ e.q = t /\ e.buffer = b
      /\ e.out = d.out /\ e.got = d.got /\ e.read = d.read
  BY <1>3, <1>4 DEF Data
<1> HIDE DEF e
<1>6. Parts(d.got, d.out, Cat(d.buffer, u), t) = Parts(d.got, d.out, d.buffer, Cat(u, t))
  <2> DEFINE y == Cat(d.got, d.out)
  <2>1. y \in Nats
    BY <1>1, CatFacts
  <2> HIDE DEF y
  <2>2. d.buffer \in Nats /\ u \in Nats /\ t \in Nats
    BY <1>1, <1>2, <1>3
  <2>3. Cat(Cat(y, Cat(d.buffer, u)), t) = Cat(Cat(y, d.buffer), Cat(u, t))
    BY <2>1, <2>2, CatMiddle
  <2>4. QED BY <2>3 DEF Parts, y
<1>7. Parts(d.got, d.out, d.buffer, d.q) = Upto(d.sent)
  BY WholeParts DEF BytesOf
<1>8. Whole(e)
  BY <1>2, <1>3, <1>5, <1>6, <1>7, WholeParts
<1>9. BytesOf(e, r)
  BY <1>5, <1>8 DEF BytesOf
<1>10. QED BY <1>5, <1>9 DEF e, b, t

LEMMA FlushBytes ==
  ASSUME NEW d \in Data, NEW r, BytesOf(d, r), d.read = "reading", d.out = <<>>
  PROVE  LET e == [d EXCEPT !.out = d.buffer, !.buffer = <<>>] IN e \in Data /\ BytesOf(e, r)
<1> DEFINE e == [d EXCEPT !.out = d.buffer, !.buffer = <<>>]
<1>1. d.q \in Nats /\ d.got \in Nats /\ d.buffer \in Nats /\ <<>> \in Seq(Nat)
  BY DataFields, EmptySeq
<1>2. /\ e \in Data /\ e.at = d.at /\ e.sent = d.sent /\ e.q = d.q /\ e.buffer = <<>>
      /\ e.out = d.buffer /\ e.got = d.got /\ e.read = d.read
  BY <1>1 DEF Data
<1> HIDE DEF e
<1>3. Parts(d.got, d.buffer, <<>>, d.q) = Parts(d.got, <<>>, d.buffer, d.q)
  BY <1>1, PartsFlush
<1>4. Parts(d.got, d.out, d.buffer, d.q) = Upto(d.sent)
  BY WholeParts DEF BytesOf
<1>5. Whole(e)
  BY <1>2, <1>3, <1>4, WholeParts
<1>6. BytesOf(e, r)
  BY <1>2, <1>5 DEF BytesOf
<1>7. QED BY <1>2, <1>6 DEF e

LEMMA OutBytes ==
  ASSUME NEW d \in Data, NEW r, BytesOf(d, r), d.read = "reading"
  PROVE  LET e == [d EXCEPT !.got = d.got \o d.out, !.out = <<>>] IN e \in Data /\ BytesOf(e, r)
<1> DEFINE g == d.got \o d.out
           e == [d EXCEPT !.got = g, !.out = <<>>]
<1>1. d.q \in Nats /\ d.got \in Nats /\ d.buffer \in Nats /\ d.out \in Nats /\ <<>> \in Seq(Nat)
  BY DataFields, EmptySeq
<1>2. Cat(d.got, d.out) \in Nats
  BY <1>1, CatFacts
<1>3. g = Cat(d.got, d.out) /\ g \in Seq(Nat)
  BY <1>2 DEF Cat, Nats
<1> HIDE DEF g
<1>4. /\ e \in Data /\ e.at = d.at /\ e.sent = d.sent /\ e.q = d.q /\ e.buffer = d.buffer
      /\ e.out = <<>> /\ e.got = g /\ e.read = d.read
  BY <1>1, <1>3 DEF Data
<1> HIDE DEF e
<1>5. Parts(Cat(d.got, d.out), <<>>, d.buffer, d.q) = Parts(d.got, d.out, d.buffer, d.q)
  BY <1>1, PartsOut
<1>6. Parts(d.got, d.out, d.buffer, d.q) = Upto(d.sent)
  BY WholeParts DEF BytesOf
<1>7. Whole(e)
  BY <1>3, <1>4, <1>5, <1>6, WholeParts
<1>8. BytesOf(e, r)
  BY <1>4, <1>7 DEF BytesOf
<1>9. QED BY <1>4, <1>8 DEF e, g

LEMMA ReadBytes ==
  ASSUME NEW d \in Data, NEW r, BytesOf(d, r), NEW how \in {"reading", "done"}, r = "receive",
         how = "done" => d.at = "over" /\ d.out = <<>> /\ d.buffer = <<>> /\ d.q = <<>>
  PROVE  LET e == [d EXCEPT !.read = how] IN e \in Data /\ BytesOf(e, r)
<1> DEFINE e == [d EXCEPT !.read = how]
<1>1. /\ e \in Data /\ e.at = d.at /\ e.sent = d.sent /\ e.q = d.q /\ e.buffer = d.buffer
      /\ e.out = d.out /\ e.got = d.got /\ e.read = how
  BY DEF Data
<1> HIDE DEF e
<1>2. Parts(d.got, d.out, d.buffer, d.q) = Upto(d.sent) /\ d.got \in Nats
  BY WholeParts, DataFields DEF BytesOf
<1>3. Whole(e)
  BY <1>1, <1>2, WholeParts
<1>4. how = "done" => d.got = Upto(d.sent)
  BY <1>2, PartsDone
<1>5. BytesOf(e, r)
  BY <1>1, <1>3, <1>4 DEF BytesOf
<1>6. QED BY <1>1, <1>5 DEF e

\* A step that changes the record of one file.
LEMMA OneFileChanges ==
  ASSUME BytesInv, NEW f \in File, NEW e \in Data, BytesOf(e, role), UNCHANGED role,
         data' = [data EXCEPT ![f] = e]
  PROVE  BytesInv'
BY DEF BytesInv, DataType

LEMMA FileCalls ==
  \A c \in Call :
    /\ c.fn = "send_file" => c.side = "send" /\ c.arg \in File
    /\ c.fn = "send_file_status" => c.side = "receive" /\ c.arg \in File /\ c = Status(c.arg)
    /\ c.fn = "listen_receiving" => c.side = "receive"
    /\ c.fn = "listen_status" /\ c.side = "send" => c = ListenStatus
BY DEF Call, Wire, RtcSendController_listen_error, RtcSendController_listen_selected_files,
       RtcSendController_listen_status, RtcSendController_send_pin, RtcSendController_send_file,
       RtcReceiveController_decline, RtcReceiveController_listen_error,
       RtcReceiveController_listen_files, RtcReceiveController_listen_receiving,
       RtcReceiveController_send_selection, RtcReceiveController_listen_status,
       RtcReceiveController_send_pin, RtcReceiveController_send_file_status, Status, ListenStatus

LEMMA PutStep == ASSUME BytesInv, NEW f \in File, PutChunk(f) PROVE BytesInv'
<1> DEFINE d == data[f]
           e == [d EXCEPT !.q = Append(d.q, d.sent + 1), !.sent = d.sent + 1]
<1>1. d \in Data /\ BytesOf(d, role) /\ d.at = "open" /\ UNCHANGED role
  BY DEF BytesInv, DataType, PutChunk, callVars
<1>2. data' = [data EXCEPT ![f] = e]
  BY DEF PutChunk, BytesInv, DataType
<1>3. e \in Data /\ BytesOf(e, role)
  BY <1>1, PutBytes
<1> HIDE DEF e
<1>4. QED BY <1>1, <1>2, <1>3, OneFileChanges

LEMMA AtStep ==
  ASSUME BytesInv, NEW f \in File, NEW a \in {"open", "over"}, UNCHANGED role,
         data[f].read = "done" => a = "over", data' = [data EXCEPT ![f].at = a]
  PROVE  BytesInv'
<1> DEFINE d == data[f]
           e == [d EXCEPT !.at = a]
<1>1. d \in Data /\ BytesOf(d, role) /\ data' = [data EXCEPT ![f] = e]
  BY DEF BytesInv, DataType
<1>2. e \in Data /\ BytesOf(e, role)
  BY <1>1, AtBytes
<1> HIDE DEF e
<1>3. QED BY <1>1, <1>2, OneFileChanges

LEMMA FileStepBytes == ASSUME BytesInv, NEW f \in File, FileStep(f) PROVE BytesInv'
<1> DEFINE d == data[f]
<1>0. d \in Data /\ BytesOf(d, role) /\ UNCHANGED role
  BY FileStepFrame DEF BytesInv, DataType, callVars
<1>1. CASE RtcFileSender_send(f)
  BY <1>1, PutStep DEF RtcFileSender_send
<1>2. CASE DropSender(f)
  BY <1>0, <1>2, AtStep DEF DropSender
<1>3. CASE RtcFileReceiver_receive(f)
  <2> DEFINE e == [d EXCEPT !.read = "reading"]
  <2>1. data' = [data EXCEPT ![f] = e] /\ role = "receive"
    BY <1>3 DEF RtcFileReceiver_receive, Reads
  <2>2. e \in Data /\ BytesOf(e, role)
    BY <1>0, <2>1, ReadBytes
  <2> HIDE DEF e
  <2>3. QED BY <1>0, <2>1, <2>2, OneFileChanges
<1>4. CASE Buffer(f)
  <2> DEFINE e == [d EXCEPT !.buffer = Append(d.buffer, Head(d.q)), !.q = Tail(d.q)]
  <2>1. data' = [data EXCEPT ![f] = e] /\ d.read = "reading" /\ d.q # <<>>
    BY <1>4 DEF Buffer, Reads, Reading
  <2>2. e \in Data /\ BytesOf(e, role)
    BY <1>0, <2>1, BufferBytes
  <2> HIDE DEF e
  <2>3. QED BY <1>0, <2>1, <2>2, OneFileChanges
<1>5. CASE Flush(f)
  <2> DEFINE e == [d EXCEPT !.out = d.buffer, !.buffer = <<>>]
  <2>1. data' = [data EXCEPT ![f] = e] /\ d.read = "reading" /\ d.out = <<>>
    BY <1>5 DEF Flush, Reads, Reading
  <2>2. e \in Data /\ BytesOf(e, role)
    BY <1>0, <2>1, FlushBytes
  <2> HIDE DEF e
  <2>3. QED BY <1>0, <2>1, <2>2, OneFileChanges
<1>6. CASE Reading(f) /\ Reads(f, [data[f] EXCEPT !.got = @ \o data[f].out, !.out = <<>>])
  <2> DEFINE e == [d EXCEPT !.got = d.got \o d.out, !.out = <<>>]
  <2>1. data' = [data EXCEPT ![f] = e] /\ d.read = "reading"
    BY <1>6 DEF Reads, Reading
  <2>2. e \in Data /\ BytesOf(e, role)
    BY <1>0, <2>1, OutBytes
  <2> HIDE DEF e
  <2>3. QED BY <1>0, <2>1, <2>2, OneFileChanges
<1>7. CASE /\ Reading(f) /\ InputOver(f) /\ ~MustFlush(f) /\ data[f].out = <<>>
           /\ Reads(f, [data[f] EXCEPT !.read = "done"])
  <2> DEFINE e == [d EXCEPT !.read = "done"]
  <2>1. data' = [data EXCEPT ![f] = e] /\ role = "receive"
    BY <1>7 DEF Reads, Reading
  <2>2. d.at = "over" /\ d.q = <<>> /\ d.buffer = <<>> /\ d.out = <<>>
    BY <1>7 DEF InputOver, MustFlush
  <2>3. e \in Data /\ BytesOf(e, role)
    BY <1>0, <2>1, <2>2, ReadBytes
  <2> HIDE DEF e
  <2>4. QED BY <1>0, <2>1, <2>3, OneFileChanges
<1>8. QED BY <1>1, <1>2, <1>3, <1>4, <1>5, <1>6, <1>7 DEF FileStep, Stream, receive

LEMMA BytesSame == BytesInv /\ UNCHANGED <<data, role>> => BytesInv'
BY DEF BytesInv, DataType

LEMMA TaskBytes == ASSUME BytesInv, Task PROVE BytesInv'
<1>0. UNCHANGED role
  BY TaskCalls DEF callVars
<1>1. CASE VerifyPin \/ PinRequired \/ TooManyAttempts \/ Connected \/ Declined \/ TaskFails
  BY <1>0, <1>1, BytesSame
     DEF VerifyPin, PinRequired, TooManyAttempts, Connected, Declined, TaskFails, TaskSays, fileVars
<1>2. CASE Ask \/ PublishFiles \/ UserHasChosen \/ TakeFile
  BY <1>0, <1>2, BytesSame DEF Ask, PublishFiles, UserHasChosen, TakeFile, fileVars
<1>3. ASSUME NEW f \in File, ApplyResult(f) \/ FileSent(f) PROVE BytesInv'
  BY <1>0, <1>3, BytesSame DEF ApplyResult, FileSent, fileVars
<1>4. ASSUME NEW f \in File, SendChunk(f) PROVE BytesInv'
  <2> DEFINE d == data[f]
             e == [d EXCEPT !.got = Append(d.got, Head(d.q)), !.q = Tail(d.q)]
  <2>1. d \in Data /\ BytesOf(d, role) /\ role # "receive" /\ d.q # <<>>
    BY <1>4 DEF BytesInv, DataType, SendChunk
  <2>2. data' = [data EXCEPT ![f] = e]
    BY <1>4 DEF SendChunk, BytesInv, DataType
  <2>3. e \in Data /\ BytesOf(e, role)
    BY <2>1, SendBytes
  <2> HIDE DEF e
  <2>4. QED BY <1>0, <2>2, <2>3, OneFileChanges
<1>5. QED BY <1>1, <1>2, <1>3, <1>4 DEF Task

LEMMA PeerBytes == ASSUME BytesInv, Peer PROVE BytesInv'
<1>0. UNCHANGED role
  BY PeerCalls DEF callVars
<1>1. CASE \/ TaskBegins \/ Verified \/ Verdict \/ ListNotSent \/ PublishSelection
           \/ ReportError \/ PeerCloses
  BY <1>0, <1>1, BytesSame
     DEF TaskBegins, Verified, Verdict, ListNotSent, PublishSelection, ReportError, PeerCloses, fileVars
<1>2. CASE PeerStops
  <2>1. data' = [f \in File |-> IF data[f].at = "open" THEN [data[f] EXCEPT !.at = "over"] ELSE data[f]]
    BY <1>2 DEF PeerStops
  <2>2. ASSUME NEW f \in File PROVE data'[f] \in Data /\ BytesOf(data'[f], role)
    <3>1. data[f] \in Data /\ BytesOf(data[f], role)
      BY DEF BytesInv, DataType
    <3>2. data'[f] = data[f] \/ data'[f] = [data[f] EXCEPT !.at = "over"]
      BY <2>1
    <3>3. QED BY <3>1, <3>2, AtBytes
  <2>3. data' \in [File -> Data]
    BY <2>1, <2>2
  <2>4. QED BY <1>0, <2>2, <2>3 DEF BytesInv, DataType
<1>3. ASSUME NEW f \in File, Header(f) PROVE BytesInv'
  <2>1. data' = [data EXCEPT ![f].at = "open"] /\ data[f].at = "new"
    BY <1>3 DEF Header
  <2>2. data[f].read # "done"
    BY <2>1 DEF BytesInv, BytesOf
  <2>3. QED BY <1>0, <2>1, <2>2, AtStep
<1>4. ASSUME NEW f \in File, ReceiveChunk(f) PROVE BytesInv'
  BY <1>4, PutStep DEF ReceiveChunk
<1>5. ASSUME NEW f \in File, EndFile(f) PROVE BytesInv'
  BY <1>0, <1>5, AtStep DEF EndFile
<1>6. QED BY <1>1, <1>2, <1>3, <1>4, <1>5 DEF Peer

LEMMA BytesStep == CallsInv /\ BytesInv /\ [Next]_vars => BytesInv'
<1> SUFFICES ASSUME CallsInv, BytesInv, [Next]_vars PROVE BytesInv'
  OBVIOUS
<1>1. CASE Begin
  <2>1. role = "none" /\ UNCHANGED data
    BY <1>1, BeginFacts DEF fileVars
  <2>2. QED BY <2>1 DEF BytesInv, BytesOf, DataType
<1>2. CASE Main
  BY <1>2, MainCalls, BytesSame DEF Main, Exchange, SdpExchanged, Select, Finished, Failed, MainSays,
     callVars, fileVars
<1>3. CASE Task \/ Peer
  BY <1>3, TaskBytes, PeerBytes
<1>4. CASE ForwardTakes \/ ForwardStores \/ Grant \/ \E c \in Call : Issue(c)
  BY <1>4, BytesSame DEF ForwardTakes, ForwardStores, Grant, Issue, callVars, fileVars
<1>5. CASE \E f \in File : FileStep(f)
  BY <1>5, FileStepBytes
<1>6. ASSUME NEW c \in Call, Method(c) PROVE BytesInv'
  <2>1. UNCHANGED role
    BY <1>6, MethodMoves DEF Moves, CallVars
  <2>2. CASE ListenReceiver(c) \/ ListenAsSender(c)
    BY <2>1, <2>2, BytesSame DEF ListenReceiver, ListenAsSender, Take, fileVars
  <2>3. CASE listen_status(c) \/ listen_error(c) \/ listen_receiving(c)
    BY <2>1, <2>3, BytesSame DEF listen_status, listen_error, listen_receiving, Ending, fileVars
  <2>4. CASE listen_files(c) \/ listen_selected_files(c) \/ send_pin(c)
    BY <2>1, <2>4, BytesSame DEF listen_files, listen_selected_files, OneShot, send_pin, fileVars
  <2>5. CASE send_selection(c) \/ decline(c) \/ send_file_status(c)
    BY <2>1, <2>5, BytesSame DEF send_selection, decline, Decide, send_file_status, fileVars
  <2>6. CASE send_file(c)
    <3>1. c.side = "send" /\ c.arg \in File /\ role = "send"
      BY <2>6, FileCalls DEF send_file, Runs, CallsInv, SideIsRole
    <3>2. CASE UNCHANGED data
      BY <2>1, <3>2, BytesSame
    <3>3. CASE data' = [data EXCEPT ![c.arg].at = "open"]
      <4>1. data[c.arg].read = "idle"
        BY <3>1 DEF BytesInv, BytesOf
      <4>2. QED BY <2>1, <3>1, <3>3, <4>1, AtStep
    <3>4. QED BY <2>6, <3>2, <3>3 DEF send_file
  <2>7. QED BY <1>6, <2>2, <2>3, <2>4, <2>5, <2>6 DEF Method
<1>7. CASE UNCHANGED vars
  BY <1>7, BytesSame DEF vars, callVars, fileVars
<1>8. QED BY <1>1, <1>2, <1>3, <1>4, <1>5, <1>6, <1>7, NextSplit DEF Other

LEMMA BytesKept == BytesInv => BytesInOrder
<1> SUFFICES ASSUME BytesInv, NEW f \in File
             PROVE  /\ data[f].got \o data[f].out \o data[f].buffer \o data[f].q
                         = [i \in 1 .. data[f].sent |-> i]
                    /\ data[f].read = "done" => data[f].got = [i \in 1 .. data[f].sent |-> i]
  BY Zenon DEF BytesInOrder
<1>1. BytesOf(data[f], role)
  BY DEF BytesInv
<1>2. QED BY <1>1, Zenon DEF BytesOf, Whole, Upto

-----------------------------------------------------------------------------
\* The results of a receiver.

LEMMA ContainsFacts ==
  /\ \A f \in File : ~Contains(<<>>, f)
  /\ \A f, g \in File : Contains(<<g>>, f) <=> f = g
  /\ \A s, t \in Seq(File) : \A f \in File : Contains(s \o t, f) => Contains(s, f) \/ Contains(t, f)
  /\ \A s, t \in Seq(File) : \A f \in File : Contains(s, f) => Contains(s \o t, f)
<1>1. \A f \in File : ~Contains(<<>>, f)
  BY DEF Contains
<1>2. \A f, g \in File : Contains(<<g>>, f) <=> f = g
  BY DEF Contains
<1>3. ASSUME NEW s \in Seq(File), NEW t \in Seq(File), NEW f \in File
      PROVE  /\ Contains(s \o t, f) => Contains(s, f) \/ Contains(t, f)
             /\ Contains(s, f) => Contains(s \o t, f)
  <2>1. /\ Len(s \o t) = Len(s) + Len(t) /\ Len(s) \in Nat /\ Len(t) \in Nat
        /\ \A i \in 1 .. Len(s) + Len(t) : (s \o t)[i] = IF i <= Len(s) THEN s[i] ELSE t[i - Len(s)]
    BY ConcatProperties, LenProperties
  <2>2. Contains(s, f) => Contains(s \o t, f)
    BY <2>1 DEF Contains
  <2>3. ASSUME NEW i \in 1 .. Len(s \o t), (s \o t)[i] = f
        PROVE  Contains(s, f) \/ Contains(t, f)
    <3>1. CASE i <= Len(s)
      BY <2>1, <2>3, <3>1 DEF Contains
    <3>2. CASE ~(i <= Len(s))
      <4>1. i - Len(s) \in 1 .. Len(t) /\ t[i - Len(s)] = f
        BY <2>1, <2>3, <3>2
      <4>2. QED BY <4>1 DEF Contains
    <3>3. QED BY <3>1, <3>2
  <2>4. Contains(s \o t, f) => Contains(s, f) \/ Contains(t, f)
    BY <2>3 DEF Contains
  <2>5. QED BY <2>2, <2>4
<1>4. QED BY <1>1, <1>2, <1>3

LEMMA StatusCalls ==
  /\ \A f \in File : Status(f) \in Call /\ Status(f).fn = "send_file_status" /\ Status(f).arg = f
  /\ \A f, g \in File : Status(f) = Status(g) => f = g
BY DEF Status, Call, RtcReceiveController_send_file_status, Wire

\* The files and the calls about them stay; the task does not enter or leave
\* a file, except from its chunks to its result or by ending.
ResultsQuiet ==
    /\ UNCHANGED <<role, file_q, handed, result_q, applied>>
    /\ \A f \in File : data'[f].at = "new" <=> data[f].at = "new"
    /\ \A f \in File : calls'[Status(f)] = calls[Status(f)]
    /\ \/ UNCHANGED task
       \/ /\ ~TaskOver /\ task'.at \notin {"chunks", "result"}
          /\ task.at \notin {"chunks", "result"} \/ TaskOver' \/ role = "send"
       \/ /\ role = "receive" /\ task.at = "chunks" /\ task'.at = "result" /\ task'.file = task.file

LEMMA ResultsQuietStep == ResultsInv /\ ResultsQuiet => ResultsInv'
<1> SUFFICES ASSUME ResultsInv, ResultsQuiet PROVE ResultsInv'
  OBVIOUS
<1>1. FilesType' /\ ResultsMatchFiles'
  BY DEF ResultsInv, FilesType, ResultsQuiet, ResultsMatchFiles
<1>2. HandedStarted'
  BY DEF ResultsInv, HandedStarted, ResultsQuiet
<1>3. ReceiverOnly'
  BY DEF ResultsInv, ReceiverOnly, ResultsQuiet
<1>4. Reported'
  BY DEF ResultsInv, Reported, Current, ResultsQuiet, TaskOver
<1>5. QED BY <1>1, <1>2, <1>3, <1>4 DEF ResultsInv

LEMMA HeaderResults ==
  ASSUME TaskType, DataType, ResultsInv, NEW f \in File, Header(f)
  PROVE  ResultsInv'
<1>1. /\ role = "receive" /\ task.at = "idle" /\ data[f].at = "new" /\ file_q' = <<f>>
      /\ UNCHANGED <<role, calls, handed, result_q, applied>>
  BY DEF Header, callVars
<1>2. task'.at = "chunks" /\ task'.file = <<f>>
  <2> DEFINE u == <<f>>
  <2>1. task' = [task EXCEPT !.at = "chunks", !.file = u]
    BY DEF Header
  <2> HIDE DEF u
  <2>2. task'.at = "chunks" /\ task'.file = u
    BY <2>1 DEF TaskType, TaskRec
  <2>3. QED BY <2>2 DEF u
<1>3. data'[f].at = "open" /\ \A g \in File \ {f} : data'[g] = data[g]
  BY DEF Header, DataType, Data
<1>4. \A g \in File : Contains(file_q', g) => g = f
  BY <1>1, ContainsFacts
<1>5. <<f>> \in Seq(File)
  OBVIOUS
<1>6. FilesType' /\ ResultsMatchFiles' /\ ReceiverOnly'
  BY <1>1, <1>5 DEF ResultsInv, FilesType, ResultsMatchFiles, ReceiverOnly
<1>7. HandedStarted'
  BY <1>1, <1>3, <1>4 DEF ResultsInv, HandedStarted
<1>8. Reported'
  <2>1. \A g \in File : /\ data[g].at # "new" => calls[Status(g)] = "done"
                        /\ ~Contains(result_q, g)
    BY <1>1 DEF ResultsInv, Reported, Current, TaskOver
  <2>2. QED BY <1>1, <1>2, <1>3, <2>1 DEF Reported, Current
<1>9. QED BY <1>6, <1>7, <1>8 DEF ResultsInv

LEMMA ApplyResults ==
  ASSUME TaskType, ResultsInv, NEW f \in File, ApplyResult(f)
  PROVE  ResultsInv'
<1> DEFINE g == Head(result_q)
<1>1. /\ task.at = "result" /\ task.file = <<f>> /\ result_q # <<>>
      /\ applied' = Append(applied, <<f, g>>) /\ result_q' = Tail(result_q)
      /\ UNCHANGED <<role, calls, handed, file_q, data>>
  BY DEF ApplyResult, callVars
<1>2. role = "receive" /\ ~TaskOver
  BY <1>1 DEF ResultsInv, ReceiverOnly, TaskOver
<1>3. task'.at \in {"idle", "ended"}
  BY DEF ApplyResult, Goto, TaskType, TaskRec
<1>4. result_q \in Seq(File) /\ Len(result_q) <= 1 /\ applied \in Seq(File \X File)
  BY DEF ResultsInv, FilesType
<1>5. g \in File /\ g = result_q[1] /\ Len(result_q) = 1 /\ result_q' \in Seq(File) /\ Len(result_q') = 0
  <2>1. Len(result_q) \in Nat /\ Len(result_q) # 0
    <3>1. result_q \in Seq(File) /\ result_q # <<>>
      BY <1>1, <1>4
    <3>2. Len(result_q) \in Nat
      BY <3>1, LenProperties
    <3>3. QED BY <3>1, <3>2, EmptySeq
  <2>2. Len(result_q) = 1
    <3>1. Len(result_q) <= 1
      BY <1>4
    <3>2. \A n \in Nat : n # 0 /\ n <= 1 => n = 1
      OBVIOUS
    <3>3. QED BY <2>1, <3>1, <3>2, Zenon
  <2>3. g \in File /\ g = result_q[1] /\ Tail(result_q) \in Seq(File) /\ Len(Tail(result_q)) = Len(result_q) - 1
    BY <1>1, <1>4, HeadTailProperties
  <2>4. QED BY <1>1, <2>2, <2>3
<1>6. result_q' = <<>>
  BY <1>5, EmptySeq
<1>7. Contains(result_q, g)
  BY <1>5 DEF Contains
<1> HIDE DEF g
<1>8. g = f /\ calls[Status(f)] = "done"
  <2>1. Current(g) /\ calls[Status(g)] = "done"
    BY <1>2, <1>5, <1>7 DEF ResultsInv, Reported
  <2>2. <<g>> = <<f>>
    BY <1>1, <2>1 DEF Current
  <2>3. QED BY <2>1, <2>2
<1>9. ResultsMatchFiles'
  <2> DEFINE p == <<f, g>>
  <2>1. /\ Append(applied, p) \in Seq(File \X File) /\ Len(applied) \in Nat
        /\ Len(Append(applied, p)) = Len(applied) + 1
        /\ \A i \in 1 .. Len(applied) : Append(applied, p)[i] = applied[i]
        /\ Append(applied, p)[Len(applied) + 1] = p
    BY <1>4, <1>5, AppendProperties, LenProperties
  <2>2. p[1] = p[2]
    BY <1>8
  <2> HIDE DEF p
  <2>3. DOMAIN applied = 1 .. Len(applied) /\ DOMAIN Append(applied, p) = 1 .. Len(applied) + 1
    BY <1>4, <2>1, LenProperties
  <2>4. \A i \in 1 .. Len(applied) : applied[i][1] = applied[i][2]
    BY <2>3 DEF ResultsInv, ResultsMatchFiles
  <2>5. \A i \in 1 .. Len(applied) + 1 : Append(applied, p)[i][1] = Append(applied, p)[i][2]
    BY <2>1, <2>2, <2>4
  <2>6. applied' = Append(applied, p)
    BY <1>1 DEF p
  <2>7. QED BY <2>3, <2>5, <2>6 DEF ResultsMatchFiles
<1>10. FilesType'
  <2>1. <<f, g>> \in File \X File
    BY <1>5
  <2>2. applied' \in Seq(File \X File)
    BY <1>1, <1>4, <2>1, AppendProperties
  <2>3. file_q' \in Seq(File) /\ handed' \in Seq(File)
    BY <1>1 DEF ResultsInv, FilesType
  <2>4. QED BY <1>5, <2>2, <2>3 DEF FilesType
<1>11. HandedStarted' /\ ReceiverOnly'
  BY <1>1, <1>2, <1>3 DEF ResultsInv, HandedStarted, ReceiverOnly
<1>12. Reported'
  <2>1. \A h \in File : ~Contains(result_q', h)
    BY <1>6, ContainsFacts
  <2>2. \A h \in File : data[h].at # "new" => h = f \/ calls[Status(h)] = "done"
    <3> SUFFICES ASSUME NEW h \in File, data[h].at # "new", calls[Status(h)] # "done" PROVE h = f
      OBVIOUS
    <3>1. Current(h)
      BY <1>2 DEF ResultsInv, Reported
    <3>2. <<h>> = <<f>>
      BY <1>1, <3>1 DEF Current
    <3>3. QED BY <3>2
  <2>3. QED BY <1>1, <1>8, <2>1, <2>2 DEF Reported
<1>13. QED BY <1>9, <1>10, <1>11, <1>12 DEF ResultsInv

\* listen_receiving hands over the file in the channel.
LEMMA HandsOver ==
  ASSUME ResultsInv, handed' = handed \o file_q, file_q' = <<>>,
         UNCHANGED <<role, result_q, applied, data, task, calls>>
  PROVE  ResultsInv'
<1>1. handed \in Seq(File) /\ file_q \in Seq(File)
  BY DEF ResultsInv, FilesType
<1>2. handed' \in Seq(File) /\ file_q' \in Seq(File)
  BY <1>1, ConcatProperties, EmptySeq
<1>3. \A f \in File : /\ ~Contains(file_q', f)
                      /\ Contains(handed', f) => Contains(handed, f) \/ Contains(file_q, f)
                      /\ Contains(handed, f) => Contains(handed', f)
  BY <1>1, ContainsFacts
<1>4. FilesType'
  BY <1>2 DEF ResultsInv, FilesType
<1>5. HandedStarted'
  BY <1>3 DEF ResultsInv, HandedStarted
<1>6. Reported' /\ ReceiverOnly' /\ ResultsMatchFiles'
  BY DEF ResultsInv, Reported, Current, TaskOver, ReceiverOnly, ResultsMatchFiles
<1>7. QED BY <1>4, <1>5, <1>6 DEF ResultsInv

\* Nothing of this concerns a sender.
LEMMA SenderResults ==
  ASSUME ResultsInv, role = "send", UNCHANGED <<role, result_q, applied>>,
         file_q' \in Seq(File), handed' \in Seq(File), task'.at # "result"
  PROVE  ResultsInv'
BY DEF ResultsInv, FilesType, Reported, HandedStarted, ReceiverOnly, ResultsMatchFiles

LEMMA StatusResults ==
  ASSUME CallsInv, ResultsInv, NEW c \in Call, send_file_status(c)
  PROVE  ResultsInv'
<1>1. /\ c.arg \in File /\ c = Status(c.arg) /\ role = "receive" /\ calls[c] = "running"
  BY FileCalls DEF send_file_status, Runs, CallsInv, SideIsRole
<1>2. UNCHANGED <<role, task, file_q, handed, applied, data>>
  BY DEF send_file_status, coreVars
<1> DEFINE f == c.arg
<1>3. calls \in [Call -> CallAt]
  BY DEF CallsInv, CallsType
<1>4. \A g \in File \ {f} : calls'[Status(g)] = calls[Status(g)]
  <2>1. \A g \in File \ {f} : Status(g) # c
    BY <1>1, StatusCalls
  <2>2. QED BY <1>3, <2>1, StatusCalls DEF send_file_status, Ends
<1>5. Contains(handed, f)
  BY <1>1 DEF ResultsInv, HandedStarted
<1>6. HandedStarted'
  BY <1>1, <1>2, <1>4, <1>5 DEF ResultsInv, HandedStarted
<1>7. ReceiverOnly' /\ ResultsMatchFiles'
  BY <1>2 DEF ResultsInv, ReceiverOnly, ResultsMatchFiles
<1>8. CASE TaskOver /\ UNCHANGED result_q
  <2>1. FilesType'
    BY <1>2, <1>8 DEF ResultsInv, FilesType
  <2>2. Reported'
    BY <1>2, <1>8 DEF Reported, TaskOver
  <2>3. QED BY <1>6, <1>7, <2>1, <2>2 DEF ResultsInv
<1>9. CASE ~TaskOver /\ result_q = <<>> /\ result_q' = <<c.arg>> /\ Ends(c, "done")
  <2>1. calls'[Status(f)] = "done"
    BY <1>1, <1>3, <1>9 DEF Ends
  <2>2. <<f>> \in Seq(File) /\ Len(<<f>>) <= 1
    BY <1>1
  <2>3. FilesType'
    BY <1>2, <1>9, <2>2 DEF ResultsInv, FilesType
  <2>4. data[f].at # "new"
    BY <1>1, <1>5 DEF ResultsInv, HandedStarted
  <2>5. Current(f)
    BY <1>1, <1>9, <2>4 DEF ResultsInv, Reported
  <2>6. \A g \in File : Contains(result_q', g) => g = f
    BY <1>1, <1>9, ContainsFacts
  <2>7. Reported'
    BY <1>1, <1>2, <1>4, <1>9, <2>1, <2>5, <2>6 DEF ResultsInv, Reported, Current, TaskOver
  <2>8. QED BY <1>6, <1>7, <2>3, <2>7 DEF ResultsInv
<1>10. QED BY <1>8, <1>9 DEF send_file_status

\* A call that is neither idle nor done becomes neither idle nor done, or an
\* idle call is made.
LEMMA CallResults ==
  ASSUME ResultsInv, UNCHANGED <<role, task, file_q, handed, result_q, applied, data>>,
         \A f \in File : /\ calls[Status(f)] = "done" => calls'[Status(f)] = "done"
                         /\ calls'[Status(f)] # "idle" => calls[Status(f)] # "idle" \/ Contains(handed, f)
  PROVE  ResultsInv'
<1>1. FilesType' /\ ReceiverOnly' /\ ResultsMatchFiles'
  BY DEF ResultsInv, FilesType, ReceiverOnly, ResultsMatchFiles
<1>2. HandedStarted'
  BY DEF ResultsInv, HandedStarted
<1>3. Reported'
  BY DEF ResultsInv, Reported, Current, TaskOver
<1>4. QED BY <1>1, <1>2, <1>3 DEF ResultsInv

LEMMA IssueResults == ASSUME CallsInv, ResultsInv, NEW c \in Call, Issue(c) PROVE ResultsInv'
<1>1. calls \in [Call -> CallAt] /\ calls[c] = "idle" /\ MayCall(c)
  BY DEF CallsInv, CallsType, Issue
<1>2. UNCHANGED <<role, task, file_q, handed, result_q, applied, data>>
  BY DEF Issue, coreVars, fileVars
<1>3. \E how \in CallAt : calls' = [calls EXCEPT ![c] = how]
  BY DEF Issue, Ends, CallAt
<1>4. ASSUME NEW f \in File
      PROVE  /\ calls[Status(f)] = "done" => calls'[Status(f)] = "done"
             /\ calls'[Status(f)] # "idle" => calls[Status(f)] # "idle" \/ Contains(handed, f)
  <2>1. Status(f) \in Call /\ Status(f).fn = "send_file_status" /\ Status(f).arg = f
    BY StatusCalls
  <2>2. CASE c = Status(f)
    BY <1>1, <2>1, <2>2 DEF MayCall
  <2>3. CASE c # Status(f)
    BY <1>1, <1>3, <2>1, <2>3
  <2>4. QED BY <2>2, <2>3
<1>5. QED BY <1>2, <1>4, CallResults

LEMMA GrantResults == ASSUME CallsInv, ResultsInv, Grant PROVE ResultsInv'
<1> DEFINE c == Head(waiting)
<1>1. calls \in [Call -> CallAt] /\ waiting \in Seq(Call) /\ waiting # <<>>
  BY DEF CallsInv, CallsType, Queued, Grant
<1>2. c \in Call /\ c = waiting[1] /\ 1 \in 1 .. Len(waiting)
  BY <1>1, HeadTailProperties, LenProperties, EmptySeq
<1>3. calls[c] = "queued"
  BY <1>2 DEF CallsInv, Queued
<1>4. UNCHANGED <<role, task, file_q, handed, result_q, applied, data>>
  BY DEF Grant, coreVars, fileVars
<1>5. calls' = [calls EXCEPT ![c] = "running"]
  BY DEF Grant, Ends
<1> HIDE DEF c
<1>6. ASSUME NEW f \in File
      PROVE  /\ calls[Status(f)] = "done" => calls'[Status(f)] = "done"
             /\ calls'[Status(f)] # "idle" => calls[Status(f)] # "idle" \/ Contains(handed, f)
  <2>1. Status(f) \in Call
    BY StatusCalls
  <2>2. QED BY <1>1, <1>2, <1>3, <1>5, <2>1
<1>7. QED BY <1>4, <1>6, CallResults

\* A step of a method that is not about a file leaves the results alone.
LEMMA QuietMethod ==
  ASSUME CallsInv, NEW c \in Call, Method(c), c.fn # "send_file_status",
         UNCHANGED <<task, file_q, handed, result_q, applied, data>>
  PROVE  ResultsQuiet
<1>1. calls \in [Call -> CallAt]
  BY DEF CallsInv, CallsType
<1>2. \A f \in File : Status(f) \in Call /\ Status(f) # c
  BY StatusCalls
<1>3. UNCHANGED role /\ \A f \in File : calls'[Status(f)] = calls[Status(f)]
  BY <1>1, <1>2, MethodMoves DEF CallVars, Moves
<1>4. QED BY <1>3 DEF ResultsQuiet

LEMMA MethodResults ==
  ASSUME CallsInv, ResultsInv, NEW c \in Call, Method(c)
  PROVE  ResultsInv'
<1>0. UNCHANGED <<task, role>>
  BY MethodKinds DEF Hears, Silent
<1> USE DEF Runs, Listens, coreVars, fileVars
<1>1. CASE ListenReceiver(c) \/ ListenAsSender(c)
  <2>1. c.fn # "send_file_status" /\ UNCHANGED <<file_q, handed, result_q, applied, data>>
    BY <1>1 DEF ListenReceiver, ListenAsSender, Take
  <2>2. QED BY <1>0, <2>1, QuietMethod, ResultsQuietStep
<1>2. CASE listen_status(c) \/ listen_error(c)
  <2>1. c.fn # "send_file_status" /\ UNCHANGED <<file_q, handed, result_q, applied, data>>
    BY <1>2 DEF listen_status, listen_error, Ending
  <2>2. QED BY <1>0, <2>1, QuietMethod, ResultsQuietStep
<1>3. CASE listen_files(c) \/ listen_selected_files(c)
  <2>1. c.fn # "send_file_status" /\ UNCHANGED <<file_q, handed, result_q, applied, data>>
    BY <1>3 DEF listen_files, listen_selected_files, OneShot
  <2>2. QED BY <1>0, <2>1, QuietMethod, ResultsQuietStep
<1>4. CASE send_pin(c) \/ send_selection(c) \/ decline(c)
  <2>1. c.fn # "send_file_status" /\ UNCHANGED <<file_q, handed, result_q, applied, data>>
    BY <1>4 DEF send_pin, send_selection, decline, Decide
  <2>2. QED BY <1>0, <2>1, QuietMethod, ResultsQuietStep
<1>5. CASE listen_receiving(c)
  <2>1. CASE handed' = handed \o file_q /\ file_q' = <<>> /\ UNCHANGED <<calls, result_q, applied, data>>
    BY <1>0, <2>1, HandsOver
  <2>2. CASE Ending(c)
    <3>1. c.fn # "send_file_status" /\ UNCHANGED <<file_q, handed, result_q, applied, data>>
      BY <1>5, <2>2 DEF listen_receiving, Ending
    <3>2. QED BY <1>0, <3>1, QuietMethod, ResultsQuietStep
  <2>3. QED BY <1>5, <2>1, <2>2 DEF listen_receiving, callVars
<1>6. CASE send_file_status(c)
  BY <1>6, StatusResults
<1>7. CASE send_file(c)
  <2>1. role = "send" /\ c.arg \in File
    BY <1>7, FileCalls DEF send_file, CallsInv, SideIsRole
  <2>2. file_q \in Seq(File) /\ handed \in Seq(File) /\ <<c.arg>> \in Seq(File)
    BY <2>1 DEF ResultsInv, FilesType
  <2>3. file_q' \in Seq(File) /\ handed' \in Seq(File) /\ UNCHANGED <<result_q, applied>>
    BY <1>7, <2>2 DEF send_file
  <2>4. task'.at # "result"
    BY <1>0, <2>1 DEF ResultsInv, ReceiverOnly
  <2>5. QED BY <1>0, <2>1, <2>3, <2>4, SenderResults
<1>8. QED BY <1>1, <1>2, <1>3, <1>4, <1>5, <1>6, <1>7 DEF Method

\* A chunk, a read or the end of a file does not make it new again.
LEMMA AtKept ==
  ASSUME DataType, NEW f \in File, NEW e, e.at = "new" <=> data[f].at = "new",
         data' = [data EXCEPT ![f] = e]
  PROVE  \A g \in File : data'[g].at = "new" <=> data[g].at = "new"
BY DEF DataType

LEMMA PutAt ==
  ASSUME DataType, NEW f \in File, PutChunk(f)
  PROVE  \A g \in File : data'[g].at = "new" <=> data[g].at = "new"
<1> DEFINE d == data[f]
           e == [d EXCEPT !.q = Append(d.q, d.sent + 1), !.sent = d.sent + 1]
<1>1. data' = [data EXCEPT ![f] = e] /\ d \in Data
  BY DEF PutChunk, DataType
<1>2. e.at = d.at
  BY <1>1 DEF Data
<1> HIDE DEF e
<1>3. QED BY <1>1, <1>2, AtKept

LEMMA FileStepAt ==
  ASSUME DataType, NEW f \in File, FileStep(f)
  PROVE  \A g \in File : data'[g].at = "new" <=> data[g].at = "new"
<1>0. data[f] \in Data
  BY DEF DataType
<1>1. CASE RtcFileSender_send(f)
  BY <1>1, PutAt DEF RtcFileSender_send
<1>2. CASE DropSender(f)
  BY <1>0, <1>2 DEF DropSender, DataType, Data
<1>3. CASE RtcFileReceiver_receive(f) \/ Stream(f)
  <2>1. \E e \in {[data[f] EXCEPT !.read = "reading"],
                  [data[f] EXCEPT !.buffer = Append(@, Head(data[f].q)), !.q = Tail(@)],
                  [data[f] EXCEPT !.out = data[f].buffer, !.buffer = <<>>],
                  [data[f] EXCEPT !.got = @ \o data[f].out, !.out = <<>>],
                  [data[f] EXCEPT !.read = "done"]} : data' = [data EXCEPT ![f] = e]
    BY <1>3, Zenon DEF RtcFileReceiver_receive, Stream, Buffer, Flush, receive, Reads
  <2>2. PICK e : e.at = data[f].at /\ data' = [data EXCEPT ![f] = e]
    BY <1>0, <2>1 DEF Data
  <2>3. QED BY <2>2, AtKept
<1>4. QED BY <1>1, <1>2, <1>3 DEF FileStep

LEMMA QuietGoto ==
  ASSUME TaskType, NEW where \in TaskAt \ {"chunks", "result"}, Goto(where), ~TaskOver,
         task.at \notin {"chunks", "result"} \/ where \in {"ended", "failed"} \/ role = "send",
         UNCHANGED <<role, calls, file_q, handed, result_q, applied>>,
         \A f \in File : data'[f].at = "new" <=> data[f].at = "new"
  PROVE  ResultsQuiet
<1>1. task'.at = where
  BY GotoFacts
<1>2. QED BY <1>1 DEF ResultsQuiet, TaskOver

LEMMA StillResults ==
  ASSUME ResultsInv, UNCHANGED <<role, calls, task, file_q, handed, result_q, applied>>,
         \A f \in File : data'[f].at = "new" <=> data[f].at = "new"
  PROVE  ResultsInv'
BY ResultsQuietStep DEF ResultsQuiet

LEMMA MainResults == ASSUME TaskType, Idle, ResultsInv, Main PROVE ResultsInv'
<1>0. UNCHANGED <<role, calls, file_q, handed, result_q, applied, data>>
  BY MainCalls DEF callVars, Main, Exchange, SdpExchanged, Select, Finished, Failed, MainSays, fileVars
<1>1. CASE UNCHANGED task
  BY <1>0, <1>1, StillResults
<1>2. CASE task.at = "off" /\ Goto("failed")
  <2>1. "failed" \in TaskAt \ {"chunks", "result"}
    BY DEF TaskAt
  <2>2. QED BY <1>0, <1>2, <2>1, QuietGoto, ResultsQuietStep DEF TaskOver
<1>3. QED
  BY <1>1, <1>2 DEF Main, Exchange, SdpExchanged, Select, Finished, Failed, MainSays, Idle

LEMMA TaskResults == ASSUME TaskType, DataType, ResultsInv, Task PROVE ResultsInv'
<1>0. UNCHANGED <<role, calls>>
  BY TaskCalls DEF callVars
<1>1. CASE VerifyPin \/ PinRequired \/ TooManyAttempts \/ Connected \/ Declined \/ TaskFails
  <2>1. /\ \E where \in TaskAt \ {"chunks", "result"} : Goto(where)
        /\ task.at \notin {"chunks", "result"} /\ ~TaskOver
        /\ UNCHANGED <<file_q, handed, result_q, applied, data>>
    BY <1>1 DEF VerifyPin, PinRequired, TooManyAttempts, Connected, Declined, TaskFails, TaskSays,
               TaskAt, TaskOver, fileVars
  <2>2. QED BY <1>0, <2>1, QuietGoto, ResultsQuietStep
<1>2. CASE PublishFiles \/ UserHasChosen
  <2>1. /\ \E where \in TaskAt \ {"chunks", "result"} : Goto(where)
        /\ task.at \notin {"chunks", "result"} /\ ~TaskOver
        /\ UNCHANGED <<file_q, handed, result_q, applied, data>>
    BY <1>2 DEF PublishFiles, UserHasChosen, TaskAt, TaskOver, fileVars
  <2>2. QED BY <1>0, <2>1, QuietGoto, ResultsQuietStep
<1>3. CASE Ask
  <2>1. /\ task'.at = "await" /\ task.at = "ask"
        /\ UNCHANGED <<file_q, handed, result_q, applied, data>>
    BY <1>3 DEF Ask, TaskType, TaskRec, fileVars
  <2>2. QED BY <1>0, <2>1, ResultsQuietStep DEF ResultsQuiet, TaskOver
<1>4. CASE TakeFile
  <2>1. /\ role = "send" /\ task'.at = "chunks" /\ handed' = handed \o file_q /\ file_q' = <<>>
        /\ UNCHANGED <<result_q, applied>>
    BY <1>4 DEF TakeFile, TaskType, TaskRec
  <2>2. handed' \in Seq(File) /\ file_q' \in Seq(File)
    BY <2>1, ConcatProperties, EmptySeq DEF ResultsInv, FilesType
  <2>3. QED BY <1>0, <2>1, <2>2, SenderResults
<1>5. ASSUME NEW f \in File, ApplyResult(f) PROVE ResultsInv'
  BY <1>5, ApplyResults
<1>6. ASSUME NEW f \in File, SendChunk(f) PROVE ResultsInv'
  <2>1. /\ role = "send" /\ UNCHANGED <<task, file_q, handed, result_q, applied>>
    BY <1>6 DEF SendChunk, coreVars
  <2>2. file_q' \in Seq(File) /\ handed' \in Seq(File) /\ task'.at # "result"
    BY <2>1 DEF ResultsInv, FilesType, ReceiverOnly
  <2>3. QED BY <1>0, <2>1, <2>2, SenderResults
<1>7. ASSUME NEW f \in File, FileSent(f) PROVE ResultsInv'
  <2>1. /\ role = "send" /\ Goto("idle") /\ "idle" \in TaskAt \ {"chunks", "result"} /\ ~TaskOver
        /\ UNCHANGED <<file_q, handed, result_q, applied, data>>
    BY <1>7 DEF FileSent, fileVars, TaskAt, TaskOver
  <2>2. QED BY <1>0, <2>1, QuietGoto, ResultsQuietStep
<1>8. QED BY <1>1, <1>2, <1>3, <1>4, <1>5, <1>6, <1>7 DEF Task

LEMMA PeerResults == ASSUME TaskType, DataType, ResultsInv, Peer PROVE ResultsInv'
<1>0. UNCHANGED <<role, calls>>
  BY PeerCalls DEF callVars
<1>1. CASE TaskBegins \/ Verified \/ Verdict \/ ListNotSent \/ PublishSelection
  <2>1. /\ \E where \in TaskAt \ {"chunks", "result"} : Goto(where)
        /\ task.at \notin {"chunks", "result"} /\ ~TaskOver
        /\ UNCHANGED <<file_q, handed, result_q, applied, data>>
    BY <1>1 DEF TaskBegins, Verified, Verdict, ListNotSent, PublishSelection, TaskAt, TaskOver, fileVars
  <2>2. QED BY <1>0, <2>1, QuietGoto, ResultsQuietStep
<1>2. CASE ReportError \/ PeerCloses
  BY <1>0, <1>2, StillResults DEF ReportError, PeerCloses, coreVars, fileVars
<1>3. CASE PeerStops
  <2>1. /\ \E where \in {"ended", "failed"} : Goto(where)
        /\ ~TaskOver /\ UNCHANGED <<file_q, handed, result_q, applied>>
    BY <1>3 DEF PeerStops, AtPeer, TaskOver
  <2>2. \A f \in File : data'[f].at = "new" <=> data[f].at = "new"
    BY <1>3 DEF PeerStops, DataType, Data
  <2>3. QED BY <1>0, <2>1, <2>2, QuietGoto, ResultsQuietStep DEF TaskAt
<1>4. ASSUME NEW f \in File, Header(f) PROVE ResultsInv'
  BY <1>4, HeaderResults
<1>5. ASSUME NEW f \in File, ReceiveChunk(f) PROVE ResultsInv'
  <2>1. PutChunk(f) /\ UNCHANGED <<task, file_q, handed, result_q, applied>>
    BY <1>5 DEF ReceiveChunk, PutChunk, coreVars
  <2>2. QED BY <1>0, <2>1, PutAt, StillResults
<1>6. ASSUME NEW f \in File, EndFile(f) PROVE ResultsInv'
  <2>1. /\ role = "receive" /\ task.at = "chunks" /\ Goto("result") /\ "result" \in TaskAt
        /\ UNCHANGED <<file_q, handed, result_q, applied>>
    BY <1>6 DEF EndFile, TaskAt
  <2>2. task'.at = "result" /\ task'.file = task.file
    BY <2>1, GotoFacts
  <2>3. task.file = <<f>>
    BY <1>6 DEF EndFile
  <2>4. \A g \in File : /\ data'[g].at = "new" => data[g].at = "new"
                        /\ data[g].at = "new" /\ g # f => data'[g].at = "new"
    BY <1>6 DEF EndFile, DataType, Data
  <2>5. FilesType' /\ ResultsMatchFiles' /\ ReceiverOnly'
    BY <1>0, <2>1 DEF ResultsInv, FilesType, ResultsMatchFiles, ReceiverOnly
  <2>6. HandedStarted'
    BY <1>0, <2>1, <2>4 DEF ResultsInv, HandedStarted
  <2>7. \A g \in File : Current(g) => Current(g)'
    BY <2>1, <2>2 DEF Current
  <2>8. Current(f)'
    BY <2>2, <2>3 DEF Current
  <2>9. Reported'
    <3>1. role # "send" /\ ~TaskOver
      BY <2>1 DEF TaskOver
    <3>2. QED BY <1>0, <2>1, <2>4, <2>7, <2>8, <3>1 DEF ResultsInv, Reported
  <2>10. QED BY <2>5, <2>6, <2>9 DEF ResultsInv
<1>7. QED BY <1>1, <1>2, <1>3, <1>4, <1>5, <1>6 DEF Peer

LEMMA ResultsStep ==
  CallsInv /\ TaskType /\ Idle /\ DataType /\ ResultsInv /\ [Next]_vars => ResultsInv'
<1> SUFFICES ASSUME CallsInv, TaskType, Idle, DataType, ResultsInv, [Next]_vars PROVE ResultsInv'
  OBVIOUS
<1>1. CASE Begin
  <2>1. role = "none" /\ UNCHANGED <<calls, task, file_q, handed, result_q, applied, data>>
    BY <1>1, BeginFacts DEF fileVars
  <2>2. FilesType' /\ ResultsMatchFiles'
    BY <2>1 DEF ResultsInv, FilesType, ResultsMatchFiles
  <2>3. ReceiverOnly' /\ HandedStarted'
    BY <2>1 DEF ResultsInv, ReceiverOnly, HandedStarted
  <2>4. Reported'
    BY <2>1 DEF ResultsInv, Reported, Current, TaskOver
  <2>5. QED BY <2>2, <2>3, <2>4 DEF ResultsInv
<1>2. CASE Main
  BY <1>2, MainResults
<1>3. CASE Task \/ Peer
  BY <1>3, TaskResults, PeerResults
<1>4. CASE ForwardTakes \/ ForwardStores
  BY <1>4, StillResults DEF ForwardTakes, ForwardStores, callVars, coreVars, fileVars
<1>5. ASSUME NEW f \in File, FileStep(f) PROVE ResultsInv'
  <2>1. UNCHANGED <<role, calls, task, file_q, handed, result_q, applied>>
    BY <1>5, FileStepFrame DEF callVars, coreVars
  <2>2. QED BY <1>5, <2>1, FileStepAt, StillResults
<1>6. CASE Grant
  BY <1>6, GrantResults
<1>7. ASSUME NEW c \in Call, Issue(c) PROVE ResultsInv'
  BY <1>7, IssueResults
<1>8. ASSUME NEW c \in Call, Method(c) PROVE ResultsInv'
  BY <1>8, MethodResults
<1>9. CASE UNCHANGED vars
  BY <1>9, StillResults DEF vars, callVars, coreVars, fileVars
<1>10. QED BY <1>1, <1>2, <1>3, <1>4, <1>5, <1>6, <1>7, <1>8, <1>9, NextSplit DEF Other

-----------------------------------------------------------------------------
\* A sender.

LEMMA OverStable == TaskType /\ Idle /\ TaskOver /\ [Next]_vars => TaskOver'
<1> SUFFICES ASSUME TaskType, Idle, TaskOver, [Next]_vars PROVE TaskOver'
  OBVIOUS
<1>1. CASE UNCHANGED task
  BY <1>1 DEF TaskOver
<1>2. CASE Begin
  BY <1>1, <1>2, BeginFacts
<1>3. CASE Main
  BY <1>1, <1>3 DEF Main, Exchange, SdpExchanged, Select, Finished, Failed, MainSays, Idle, TaskOver
<1>4. CASE Speaks \/ Errs
  BY <1>4 DEF Speaks, Errs, TaskOver
<1>5. CASE Silent \/ Hears \/ PeerCloses
  BY <1>1, <1>5 DEF Silent, TaskMoves, Hears, PeerCloses
<1>6. QED BY <1>2, <1>3, <1>4, <1>5, Kinds

LEMMA ListenStatusCall ==
  /\ ListenStatus \in Call /\ ListenStatus.side = "send" /\ ListenStatus.fn = "listen_status"
  /\ ListenStatus.lock = "exclusive"
BY DEF ListenStatus, RtcSendController_listen_status, Call, Wire

\* listen_status of the sender gives the lock back only when the task is over.
LEMMA ListenStatusHolds ==
  CallsInv /\ [Next]_vars =>
    /\ calls[ListenStatus] = "listening" =>
         calls'[ListenStatus] = "listening" \/ (calls'[ListenStatus] = "done" /\ TaskOver)
    /\ calls[ListenStatus] = "done" => calls'[ListenStatus] = "done"
<1> DEFINE Kept == calls'[ListenStatus] = calls[ListenStatus]
           Goal == /\ calls[ListenStatus] = "listening" =>
                        calls'[ListenStatus] = "listening" \/ (calls'[ListenStatus] = "done" /\ TaskOver)
                   /\ calls[ListenStatus] = "done" => calls'[ListenStatus] = "done"
<1> SUFFICES ASSUME CallsInv, [Next]_vars PROVE Goal
  OBVIOUS
<1>0. calls \in [Call -> CallAt]
  BY DEF CallsInv, CallsType
<1>1. CASE Begin \/ Other \/ UNCHANGED vars
  BY <1>1, BeginFacts, OtherCalls DEF vars, callVars, CallVars
<1>2. CASE Grant
  <2> DEFINE c == Head(waiting)
  <2>1. waiting \in Seq(Call) /\ waiting # <<>>
    BY <1>2 DEF CallsInv, Queued, Grant
  <2>2. c \in Call /\ c = waiting[1] /\ 1 \in 1 .. Len(waiting)
    BY <2>1, HeadTailProperties, LenProperties, EmptySeq
  <2>3. calls[c] = "queued" /\ calls' = [calls EXCEPT ![c] = "running"]
    BY <1>2, <2>2 DEF CallsInv, Queued, Grant, Ends
  <2> HIDE DEF c
  <2>4. QED BY <1>0, <2>2, <2>3, ListenStatusCall
<1>3. ASSUME NEW c \in Call, Issue(c) PROVE Goal
  <2>1. calls[c] = "idle" /\ \E how \in CallAt : calls' = [calls EXCEPT ![c] = how]
    BY <1>3 DEF Issue, Ends, CallAt
  <2>2. QED BY <1>0, <2>1, ListenStatusCall
<1>4. ASSUME NEW c \in Call, Method(c) PROVE Goal
  <2>1. CASE c # ListenStatus
    BY <1>0, <1>4, <2>1, MethodMoves, ListenStatusCall DEF CallVars, Moves
  <2>2. CASE c = ListenStatus
    <3>1. CASE calls[c] = "listening"
      <4>1. listen_status(c)
        BY <1>4, <2>2, <3>1, ListenStatusCall
           DEF Method, ListenReceiver, ListenAsSender, Runs, Listens, listen_error, listen_files,
               listen_selected_files, listen_receiving, send_pin, send_selection, decline,
               send_file_status, send_file
      <4>2. QED BY <1>0, <2>2, <3>1, <4>1 DEF listen_status, Ending, Ends, callVars
    <3>2. CASE calls[c] = "done"
      BY <1>4, <2>2, <3>2, MethodMoves DEF CallVars, Moves
    <3>3. QED BY <2>2, <3>1, <3>2
  <2>3. QED BY <2>1, <2>2
<1>5. QED BY <1>1, <1>2, <1>3, <1>4, NextSplit

\* Only listen_status tells Dart something.
LEMMA ToldOnly ==
  [Next]_vars =>
    \/ UNCHANGED told
    \/ \E c \in Call : Listens(c, "listen_status") /\ UNCHANGED calls /\ Hears
<1> SUFFICES ASSUME [Next]_vars, told' # told
             PROVE  \E c \in Call : Listens(c, "listen_status") /\ UNCHANGED calls /\ Hears
  OBVIOUS
<1>1. CASE Begin
  BY <1>1, BeginFacts DEF statVars
<1>2. CASE Main
  BY <1>2 DEF Main, Exchange, SdpExchanged, Select, Finished, Failed, MainSays, Says, statVars
<1>3. CASE Task \/ Peer
  BY <1>3, TaskKinds, PeerKinds DEF Speaks, Errs, Says, Silent, PeerCloses, statVars
<1>4. CASE ForwardTakes \/ ForwardStores \/ Grant \/ \E c \in Call : Issue(c)
  BY <1>4 DEF ForwardTakes, ForwardStores, Grant, Issue, statVars
<1>5. CASE \E f \in File : FileStep(f)
  BY <1>5, FileStepFrame DEF statVars
<1>6. ASSUME NEW c \in Call, Method(c)
      PROVE  Listens(c, "listen_status") /\ UNCHANGED calls /\ Hears
  <2>1. CASE listen_status(c)
    BY <2>1 DEF listen_status, Ending, Hears, callVars, coreVars, statVars
  <2>2. CASE ListenReceiver(c) \/ ListenAsSender(c)
    BY <2>2 DEF ListenReceiver, ListenAsSender, Take, statVars
  <2>3. CASE listen_error(c) \/ listen_files(c) \/ listen_selected_files(c) \/ listen_receiving(c)
    BY <2>3 DEF listen_error, listen_files, listen_selected_files, listen_receiving, Ending, OneShot, statVars
  <2>4. CASE send_pin(c) \/ send_selection(c) \/ decline(c)
    BY <2>4 DEF send_pin, send_selection, decline, Decide, statVars
  <2>5. CASE send_file_status(c) \/ send_file(c)
    BY <2>5 DEF send_file_status, send_file, statVars
  <2>6. QED BY <1>6, <2>1, <2>2, <2>3, <2>4, <2>5 DEF Method
<1>7. CASE UNCHANGED vars
  BY <1>7 DEF vars, statVars
<1>8. QED BY <1>1, <1>2, <1>3, <1>4, <1>5, <1>6, <1>7, NextSplit DEF Other

LEMMA RoleKept == [Next]_vars => Begin \/ UNCHANGED role
<1> SUFFICES ASSUME [Next]_vars, ~Begin PROVE UNCHANGED role
  OBVIOUS
<1>1. CASE Other
  BY <1>1, OtherCalls DEF CallVars
<1>2. CASE Grant \/ \E c \in Call : Issue(c)
  BY <1>2 DEF Grant, Issue
<1>3. CASE \E c \in Call : Method(c)
  BY <1>3, MethodMoves DEF CallVars, Moves
<1>4. QED BY <1>1, <1>2, <1>3, NextSplit DEF vars, callVars

LEMMA ToldStep == CallsInv /\ TaskType /\ Idle /\ Told /\ [Next]_vars => Told'
<1> SUFFICES ASSUME CallsInv, TaskType, Idle, Told, [Next]_vars, role' # "receive", told' # <<>>
             PROVE  calls'[ListenStatus] = "listening" \/ (calls'[ListenStatus] = "done" /\ TaskOver')
  BY DEF Told
<1>1. role # "receive"
  BY RoleKept, BeginFacts
<1>2. CASE told # <<>>
  BY <1>1, <1>2, ListenStatusHolds, OverStable DEF Told
<1>3. CASE told = <<>>
  <2>1. PICK c \in Call : Listens(c, "listen_status") /\ UNCHANGED calls
    BY <1>3, ToldOnly
  <2>2. c.side = role /\ c.side \in {"send", "receive"}
    BY <2>1, Sides DEF Listens, CallsInv, SideIsRole
  <2>3. c = ListenStatus
    BY <1>1, <2>1, <2>2, FileCalls DEF Listens
  <2>4. QED BY <2>1, <2>3 DEF Listens
<1>4. QED BY <1>2, <1>3

\* While listen_status of the sender listens no other call of it runs.
LEMMA SendersWait ==
  ASSUME CallsInv, Told, role # "receive", told # <<>>, NEW c \in Call, calls[c] = "running",
         c.fn # "listen_status"
  PROVE  TaskOver
<1> SUFFICES ASSUME calls[ListenStatus] = "listening" PROVE FALSE
  BY DEF Told
<1>1. c \in Holding /\ ListenStatus \in Holding
  BY ListenStatusCall DEF Holding
<1>2. c = ListenStatus
  BY <1>1, ListenStatusCall DEF CallsInv, Exclusive
<1>3. QED BY <1>2, ListenStatusCall

\* The files of a sender.
LEMMA FileKinds ==
  CallsInv /\ role # "receive" /\ [Next]_vars =>
    TakeFile \/ (\E c \in Call : send_file(c)) \/ UNCHANGED <<file_q, handed>>
<1> SUFFICES ASSUME CallsInv, role # "receive", [Next]_vars, ~TakeFile, ~\E c \in Call : send_file(c)
             PROVE  UNCHANGED <<file_q, handed>>
  OBVIOUS
<1> USE DEF fileVars
<1>1. CASE Begin
  BY <1>1, BeginFacts
<1>2. CASE Main
  BY <1>2 DEF Main, Exchange, SdpExchanged, Select, Finished, Failed, MainSays
<1>3. CASE \/ VerifyPin \/ PinRequired \/ TooManyAttempts \/ Connected \/ Declined \/ TaskFails
           \/ Ask \/ PublishFiles \/ UserHasChosen
  BY <1>3 DEF VerifyPin, PinRequired, TooManyAttempts, Connected, Declined, TaskFails, TaskSays, Ask,
             PublishFiles, UserHasChosen
<1>4. ASSUME NEW f \in File, ApplyResult(f) \/ SendChunk(f) \/ FileSent(f)
      PROVE  UNCHANGED <<file_q, handed>>
  BY <1>4 DEF ApplyResult, SendChunk, FileSent
<1>5. CASE \/ TaskBegins \/ Verified \/ Verdict \/ ListNotSent \/ PublishSelection
           \/ ReportError \/ PeerStops \/ PeerCloses
  BY <1>5 DEF TaskBegins, Verified, Verdict, ListNotSent, PublishSelection, ReportError, PeerStops,
             PeerCloses
<1>6. ASSUME NEW f \in File, Header(f) \/ ReceiveChunk(f) \/ EndFile(f)
      PROVE  UNCHANGED <<file_q, handed>>
  BY <1>6 DEF Header, ReceiveChunk, EndFile
<1>7. CASE ForwardTakes \/ ForwardStores \/ Grant \/ \E c \in Call : Issue(c)
  BY <1>7 DEF ForwardTakes, ForwardStores, Grant, Issue
<1>8. CASE \E f \in File : FileStep(f)
  BY <1>8, FileStepFrame
<1>9. ASSUME NEW c \in Call, Method(c) PROVE UNCHANGED <<file_q, handed>>
  <2>1. CASE listen_receiving(c)
    <3>1. c.side = "receive" /\ c.side = role
      BY <2>1, FileCalls DEF listen_receiving, Listens, CallsInv, SideIsRole
    <3>2. QED BY <3>1
  <2>2. CASE ListenReceiver(c) \/ ListenAsSender(c)
    BY <2>2 DEF ListenReceiver, ListenAsSender, Take
  <2>3. CASE listen_status(c) \/ listen_error(c) \/ listen_files(c) \/ listen_selected_files(c)
    BY <2>3 DEF listen_status, listen_error, listen_files, listen_selected_files, Ending, OneShot
  <2>4. CASE send_pin(c) \/ send_selection(c) \/ decline(c) \/ send_file_status(c)
    BY <2>4 DEF send_pin, send_selection, decline, Decide, send_file_status
  <2>5. QED BY <1>9, <2>1, <2>2, <2>3, <2>4 DEF Method
<1>10. CASE UNCHANGED vars
  BY <1>10 DEF vars
<1>11. QED
  BY <1>1, <1>2, <1>3, <1>4, <1>5, <1>6, <1>7, <1>8, <1>9, <1>10, NextSplit DEF Other, Task, Peer

\* No PIN of a sender reaches the core.
LEMMA PinsUngiven ==
  ASSUME CallsInv, TaskType, Idle, PinType, Untold, Told, role # "receive", pin.given = {}, [Next]_vars
  PROVE  pin'.given = {}
<1>1. CASE PinQuiet
  BY <1>1 DEF PinQuiet
<1>2. CASE Ask \/ ForwardTakes \/ ForwardStores
  BY <1>2 DEF Ask, ForwardTakes, ForwardStores, PinType
<1>3. ASSUME NEW c \in Call, send_pin(c) PROVE pin'.given = {}
  <2>1. pin'.given = IF TaskOver THEN pin.given ELSE pin.given \cup ToSet(pin.slot)
    BY <1>3 DEF send_pin, PinType
  <2>2. CASE told = <<>>
    <3>1. pin.slot = <<>>
      BY <2>2 DEF Untold, NoRequest
    <3>2. ToSet(pin.slot) = {}
      BY <3>1 DEF ToSet
    <3>3. QED BY <2>1, <3>2
  <2>3. CASE told # <<>>
    <3>1. TaskOver
      BY <1>3, <2>3, SendersWait DEF send_pin, Runs
    <3>2. QED BY <2>1, <3>1
  <2>4. QED BY <2>2, <2>3
<1>4. QED BY <1>1, <1>2, <1>3, PinKinds

LEMMA OneFileStep ==
  CallsInv /\ TaskType /\ Idle /\ PinType /\ FilesType /\ Untold /\ Told /\ OneFile /\ [Next]_vars
    => OneFile'
<1> SUFFICES ASSUME CallsInv, TaskType, Idle, PinType, FilesType, Untold, Told, OneFile, [Next]_vars,
                    role' # "receive"
             PROVE  /\ Len(file_q') <= 1 /\ Len(handed') + Len(file_q') <= 1
                    /\ pin'.given = {}
  BY DEF OneFile
<1>1. role # "receive"
  BY RoleKept, BeginFacts
<1>2. /\ Len(file_q) <= 1 /\ Len(handed) + Len(file_q) <= 1 /\ pin.given = {}
      /\ Len(file_q) \in Nat /\ Len(handed) \in Nat
  BY <1>1, LenProperties DEF OneFile, FilesType
<1>3. pin'.given = {}
  BY <1>1, <1>2, PinsUngiven
<1>4. CASE TakeFile
  <2>1. handed' = handed \o file_q /\ file_q' = <<>>
    BY <1>4 DEF TakeFile
  <2>2. Len(handed') = Len(handed) + Len(file_q) /\ Len(file_q') = 0
    BY <2>1, ConcatProperties, EmptySeq DEF FilesType
  <2>3. QED BY <1>2, <1>3, <2>2
<1>5. ASSUME NEW c \in Call, send_file(c)
      PROVE  Len(file_q') <= 1 /\ Len(handed') + Len(file_q') <= 1
  <2>1. CASE UNCHANGED file_q
    <3>1. UNCHANGED handed
      BY <1>5 DEF send_file
    <3>2. QED BY <1>2, <2>1, <3>1
  <2>2. CASE ~TaskOver /\ file_q' = <<c.arg>>
    <3>1. told = <<>>
      BY <1>1, <1>5, <2>2, SendersWait DEF send_file, Runs
    <3>2. handed = <<>> /\ UNCHANGED handed
      BY <1>1, <1>5, <3>1 DEF Untold, send_file
    <3>3. Len(handed') = 0 /\ Len(file_q') = 1
      BY <2>2, <3>2
    <3>4. QED BY <3>3
  <2>3. QED BY <1>5, <2>1, <2>2 DEF send_file
<1>6. CASE UNCHANGED <<file_q, handed>>
  BY <1>2, <1>3, <1>6
<1>7. QED BY <1>1, <1>3, <1>4, <1>5, <1>6, FileKinds

\* What the task does before it has told anything.
Early == {"off", "verify", "pin", "connected", "failed"}

LEMMA EarlyTask ==
  role # "receive" /\ task.at \in Early /\ [Next]_vars =>
    UNCHANGED task \/ TaskBegins \/ VerifyPin \/ PinRequired \/ Connected \/ Exchange
<1> SUFFICES ASSUME role # "receive", task.at \in Early, [Next]_vars,
                    ~TaskBegins, ~VerifyPin, ~PinRequired, ~Connected, ~Exchange
             PROVE  UNCHANGED task
  OBVIOUS
<1>1. CASE Begin
  BY <1>1, BeginFacts
<1>2. CASE Main
  BY <1>2 DEF Main, SdpExchanged, Select, Finished, Failed, MainSays
<1>3. CASE Task
  <2>1. CASE \/ TooManyAttempts \/ Declined \/ TaskFails \/ Ask \/ PublishFiles \/ UserHasChosen
             \/ TakeFile
    BY <2>1 DEF TooManyAttempts, Declined, TaskFails, Ask, PublishFiles, UserHasChosen, TakeFile, Early
  <2>2. ASSUME NEW f \in File, ApplyResult(f) \/ SendChunk(f) \/ FileSent(f) PROVE UNCHANGED task
    BY <2>2 DEF ApplyResult, SendChunk, FileSent, Early
  <2>3. QED BY <1>3, <2>1, <2>2 DEF Task
<1>4. CASE Peer
  <2>1. CASE \/ Verified \/ Verdict \/ ListNotSent \/ PublishSelection \/ ReportError \/ PeerStops
             \/ PeerCloses
    BY <2>1 DEF Verified, Verdict, ListNotSent, PublishSelection, ReportError, PeerStops, AtPeer,
               PeerCloses, Early
  <2>2. ASSUME NEW f \in File, Header(f) \/ ReceiveChunk(f) \/ EndFile(f) PROVE UNCHANGED task
    BY <2>2 DEF Header, ReceiveChunk, EndFile
  <2>3. QED BY <1>4, <2>1, <2>2 DEF Peer
<1>5. CASE ForwardTakes \/ ForwardStores \/ Grant \/ \E c \in Call : Issue(c)
  BY <1>5 DEF ForwardTakes, ForwardStores, Grant, Issue, coreVars
<1>6. CASE \E f \in File : FileStep(f)
  BY <1>6, FileStepFrame DEF coreVars
<1>7. CASE \E c \in Call : Method(c)
  BY <1>7, MethodKinds DEF Hears
<1>8. CASE UNCHANGED vars
  BY <1>8 DEF vars, coreVars
<1>9. QED BY <1>1, <1>2, <1>3, <1>4, <1>5, <1>6, <1>7, <1>8, NextSplit DEF Other

LEMMA UntoldStep ==
  CallsInv /\ TaskType /\ Idle /\ StatusType /\ PinType /\ FilesType /\ Untold /\ Told /\ [Next]_vars
    => Untold'
<1> SUFFICES ASSUME CallsInv, TaskType, Idle, StatusType, PinType, FilesType, Untold, Told,
                    [Next]_vars, role' # "receive", told' = <<>>
             PROVE  /\ handed' = <<>> /\ NoRequest' /\ pin'.given = {}
                    /\ task'.at \in Early
                    /\ status_q' = <<>> => task'.at \in {"off", "failed"} /\ main' # "select"
  BY DEF Untold, Early
<1>1. role # "receive"
  BY RoleKept, BeginFacts
<1>2. told = <<>> /\ ~Hears
  <2>1. ASSUME Hears PROVE FALSE
    <3>1. /\ told' = told \o status_q /\ status_q # <<>>
          /\ told \in Seq(StatusName) /\ status_q \in Seq(StatusName)
      BY <2>1 DEF Hears, StatusType
    <3>2. Len(told \o status_q) = Len(told) + Len(status_q) /\ Len(told) \in Nat /\ Len(status_q) \in Nat
      BY <3>1, ConcatProperties, LenProperties
    <3>3. Len(status_q) # 0
      BY <3>1, EmptySeq
    <3>4. Len(told') = 0
      OBVIOUS
    <3>5. Len(told \o status_q) = 0
      BY <3>1, <3>4
    <3>6. \A m, n \in Nat : m + n = 0 => n = 0
      OBVIOUS
    <3>7. QED BY <3>2, <3>3, <3>5, <3>6, Zenon
  <2>2. QED BY <2>1, ToldOnly
<1>3. /\ handed = <<>> /\ NoRequest /\ pin.given = {} /\ task.at \in Early
      /\ status_q = <<>> => task.at \in {"off", "failed"} /\ main # "select"
  BY <1>1, <1>2 DEF Untold, Early
<1>4. handed' = <<>>
  BY <1>1, <1>3, FileKinds DEF TakeFile, send_file, Early
<1>5. pin'.given = {}
  BY <1>1, <1>3, PinsUngiven
<1>6. NoRequest'
  <2>1. CASE PinQuiet
    BY <1>3, <2>1 DEF PinQuiet, NoRequest
  <2>2. CASE Ask \/ ForwardTakes \/ ForwardStores
    BY <1>3, <2>2 DEF Ask, ForwardTakes, ForwardStores, NoRequest, Early
  <2>3. ASSUME NEW c \in Call, send_pin(c) PROVE NoRequest'
    BY <1>3, <2>3 DEF send_pin, PinType, NoRequest
  <2>4. QED BY <2>1, <2>2, <2>3, PinKinds
<1>7. /\ task'.at \in Early
      /\ status_q' = <<>> => task'.at \in {"off", "failed"} /\ main' # "select"
  <2>1. CASE TaskBegins
    <3>1. main = "select"
      BY <1>1, <2>1 DEF TaskBegins, Idle, CallsInv, CallsType
    <3>2. status_q' # <<>>
      BY <1>3, <2>1, <3>1 DEF TaskBegins, statVars
    <3>3. task'.at \in Early
      BY <1>1, <2>1 DEF TaskBegins, Goto, TaskType, TaskRec, Early
    <3>4. QED BY <3>2, <3>3
  <2>2. CASE VerifyPin \/ PinRequired \/ Connected
    BY <1>3, <2>2 DEF VerifyPin, PinRequired, Connected, TaskSays, Says
  <2>3. CASE Exchange
    <3>1. task.at = "off" /\ main' # "select"
      BY <2>3 DEF Exchange, Idle
    <3>2. task'.at \in {"off", "failed"}
      BY <2>3, <3>1 DEF Exchange, Goto, TaskType, TaskRec
    <3>3. QED BY <3>1, <3>2 DEF Early
  <2>4. CASE UNCHANGED task
    <3>1. CASE Begin
      BY <1>3, <2>4, <3>1, BeginFacts DEF statVars
    <3>2. CASE SdpExchanged \/ Finished \/ Failed
      <4>1. status_q' # <<>>
        BY <3>2 DEF SdpExchanged, Finished, Failed, MainSays, Says
      <4>2. QED BY <1>3, <2>4, <4>1
    <3>3. CASE Select
      BY <1>3, <2>4, <3>3 DEF Select, statVars
    <3>4. CASE Speaks \/ Errs
      <4>1. status_q' # <<>>
        BY <3>4 DEF Speaks, Errs, Says
      <4>2. QED BY <1>3, <2>4, <4>1
    <3>5. CASE Silent \/ PeerCloses
      BY <1>3, <2>4, <3>5 DEF Silent, PeerCloses, statVars
    <3>6. QED BY <1>2, <2>3, <3>1, <3>2, <3>3, <3>4, <3>5, Kinds DEF Main
  <2>5. QED BY <1>1, <1>3, <2>1, <2>2, <2>3, <2>4, EarlyTask
<1>8. QED BY <1>4, <1>5, <1>6, <1>7

LEMMA DeafKept == IInv => SenderIsDeaf
<1> SUFFICES ASSUME IInv, role = "send" PROVE Len(handed) <= 1 /\ pin.given = {}
  BY DEF SenderIsDeaf
<1>1. Len(handed) + Len(file_q) <= 1 /\ pin.given = {}
  BY DEF IInv, DeafInv, OneFile
<1>2. Len(handed) \in Nat /\ Len(file_q) \in Nat
  BY LenProperties DEF IInv, ResultsInv, FilesType
<1>3. QED BY <1>1, <1>2

-----------------------------------------------------------------------------
\* The theorems.

LEMMA InvStep == IInv /\ [Next]_vars => IInv'
<1> SUFFICES ASSUME IInv, [Next]_vars PROVE IInv'
  OBVIOUS
<1>1. /\ CallsInv /\ StatusInv /\ PinType /\ PinShape /\ BytesInv /\ ResultsInv /\ DeafInv
      /\ TaskType /\ Idle /\ StatusType /\ DataType /\ FilesType /\ file_q \in Seq(File)
  BY DEF IInv, StatusInv, BytesInv, ResultsInv, FilesType
<1>2. CallsInv' /\ StatusInv' /\ BytesInv'
  BY <1>1, CallsStep, StatusStep, BytesStep
<1>3. PinType' /\ PinShape'
  BY <1>1, PinStep
<1>4. ResultsInv'
  BY <1>1, ResultsStep
<1>5. DeafInv'
  BY <1>1, UntoldStep, ToldStep, OneFileStep DEF DeafInv
<1>6. QED BY <1>2, <1>3, <1>4, <1>5 DEF IInv

LEMMA InvInit == Init => IInv
<1> SUFFICES ASSUME Init PROVE IInv
  OBVIOUS
<1> USE EmptySeq DEF Init
<1>1. CallsInv
  BY DEF CallsInv, CallsType, Queued, SideIsRole, Exclusive, Holding, CallAt
<1>2. StatusInv
  <2>1. Statuses = <<>>
    BY DEF Statuses
  <2>2. DOMAIN Statuses = {}
    BY <2>1
  <2>3. TaskType /\ Idle /\ Quiet /\ StatusType /\ WellEnded
    BY DEF TaskType, TaskRec, TaskAt, Idle, Quiet, StatusType, WellEnded
  <2>4. Unfinished /\ OwnError /\ FinishedIsLast
    BY <2>2 DEF Unfinished, OwnError, FinishedIsLast
  <2>5. QED BY <2>3, <2>4 DEF StatusInv
<1>3. PinType /\ PinShape
  BY DEF PinType, PinShape, NoRequest
<1>4. BytesInv
  <2>1. NoData \in Data
    BY DEF NoData, Data
  <2>2. Upto(0) = <<>>
    BY DEF Upto
  <2>3. BytesOf(NoData, role)
    BY <2>2 DEF NoData, BytesOf, Whole
  <2>4. QED BY <2>1, <2>3 DEF BytesInv, DataType
<1>5. ResultsInv
  <2>1. \A f \in File : data[f].at = "new" /\ calls[Status(f)] = "idle"
    BY StatusCalls DEF NoData
  <2>2. \A f \in File : ~Contains(<<>>, f)
    BY ContainsFacts
  <2>3. FilesType
    BY DEF FilesType
  <2>4. Reported /\ HandedStarted /\ ReceiverOnly /\ ResultsMatchFiles
    BY <2>1, <2>2 DEF Reported, HandedStarted, ReceiverOnly, ResultsMatchFiles
  <2>5. QED BY <2>3, <2>4 DEF ResultsInv
<1>6. DeafInv
  BY DEF DeafInv, Untold, Told, OneFile, NoRequest
<1>7. QED BY <1>1, <1>2, <1>3, <1>4, <1>5, <1>6 DEF IInv

LEMMA InvAlways == Spec => []IInv
BY InvInit, InvStep, PTL DEF Spec

\* Finished is told at most once.  In every session whose connection stayed up,
\* only the Error of closing the connection follows Finished, and after an
\* Error, whether of the task itself or of send_offer and accept_offer of the
\* core, only another Error or a late SdpExchanged is told.
THEOREM FinishedIsLastHolds == Spec => []FinishedIsLast
<1>1. IInv => FinishedIsLast
  BY DEF IInv, StatusInv
<1>2. QED BY <1>1, InvAlways, PTL

\* However often send_pin is called, and whenever, the request that handle_pin
\* waits for is in exactly one of the channel, the forwarding task and the
\* controller until it is answered.
THEOREM PinRequestKeptHolds == Spec => []PinRequestKept
<1>1. IInv => PinRequestKept
  BY PinKept DEF IInv, StatusInv
<1>2. QED BY <1>1, InvAlways, PTL

\* For any number of files, reported in any order and as early as Dart may,
\* accept_offer applies to each file the result that was reported for it.
THEOREM ResultsMatchFilesHolds == Spec => []ResultsMatchFiles
<1>1. IInv => ResultsMatchFiles
  BY DEF IInv, ResultsInv
<1>2. QED BY <1>1, InvAlways, PTL

\* For any capacity of the channel and any size of the buffer, the chunks of a
\* file come out as they were put in, and the stream of buffer_receiver ends
\* after the last one.
THEOREM BytesInOrderHolds == Spec => []BytesInOrder
<1>1. IInv => BytesInOrder
  BY BytesKept DEF IInv
<1>2. QED BY <1>1, InvAlways, PTL

\* Whatever Dart calls on an RTCSendController, no PIN and at most one file
\* reach the core: listen_status holds the lock until the task is over.
THEOREM SenderIsDeafHolds == Spec => []SenderIsDeaf
<1>1. QED BY DeafKept, InvAlways, PTL

=============================================================================
