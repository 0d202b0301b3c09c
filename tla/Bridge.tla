------------------------------- MODULE Bridge -------------------------------
(***************************************************************************)
(* The bridge between Dart and the WebRTC core: the controllers of         *)
(* app/rust/src/api/webrtc.rs and the wire functions through which Dart    *)
(* calls them (app/rust/src/frb_generated.rs).                             *)
(*                                                                         *)
(* send_offer and accept_offer of the bridge spawn the function of the     *)
(* core with one end of eight channels and keep the other ends in a        *)
(* controller.  A wire function locks the controller, shared for &self and *)
(* exclusive for &mut self, for as long as the method runs; the methods    *)
(* take receivers out of the controller, wait on channels of one slot and  *)
(* feed the streams of Dart.                                               *)
(*                                                                         *)
(* The core is abstracted to what it does with these channels, and the     *)
(* peer to which of its messages comes next; WebRtcTransfer has the rest.  *)
(***************************************************************************)
EXTENDS Integers, SequencesExt

CONSTANTS
    File,        \* the files of the session
    Role,        \* the sides to consider: "send", "receive"
    Chunks,      \* bound of the model: chunks of a file
    BufferSize,  \* of buffer_receiver, in chunks
    BinaryCapacity,  \* of the channel of a file: 4 to Dart, 1 from Dart
    Repeats,     \* bound of the model: calls of listen_status and send_pin by a receiver
    Plans        \* bound of the model: the methods Dart calls in a session and how often,
                 \* the files, how many PINs the peer asks for and how many errors there are

ASSUME BridgeAssumption ==
    /\ Role \subseteq {"send", "receive"}
    /\ Chunks \in Nat
    /\ \A p \in Plans :
         p.files \subseteq File /\ p.repeats <= Repeats /\ p.pins \in Nat /\ p.errors \in Nat
    /\ BinaryCapacity \in Nat \ {0} /\ BufferSize \in Nat \ {0} /\ Repeats \in Nat \ {0}

VARIABLES
    role,       \* which controller Dart holds
    plan,       \* what may happen in this session (Plans)
    calls,      \* where each call of Dart is
    waiting,    \* the calls that wait for the lock of the controller, in order
    taken,      \* the receivers and senders taken out of their Option
    main,       \* send_offer or accept_offer of the core
    task,       \* the task it has spawned: position, PIN and file at hand
    closed,     \* whether the peer connection has been closed remotely
    status_q,   \* the channel status_tx
    told,       \* the statuses added to the stream of Dart
    error_q,    \* the channel error_tx, and how many errors were reported
    pin,        \* the PIN requests: in the channel, at the forwarder, in the
                \* controller, and the answered ones
    files,      \* the one-shot files_tx
    selection,  \* the one-shot selected_tx
    file_q,     \* the channel receiving_tx or send_tx
    handed,     \* the files that came out of it
    result_q,   \* the channel file_status_tx
    applied,    \* the results the core has passed on: <<file, file of the result>>
    data        \* for each file its channel, buffer and stream

callVars == <<role, plan, calls, waiting, taken>>
coreVars == <<main, task, closed>>
statVars == <<status_q, told, error_q>>
handVars == <<pin, files, selection>>
fileVars == <<file_q, handed, result_q, applied, data>>
vars == <<callVars, coreVars, statVars, handVars, fileVars>>

------------------------------------------------------------------------------
\* The wire functions: whom they lock, how, and the argument they pass on.

Wire(side, fn, lock, arg) == [side |-> side, fn |-> fn, lock |-> lock, arg |-> arg]

RtcSendController_listen_error          == Wire("send", "listen_error", "exclusive", 1)
RtcSendController_listen_selected_files == Wire("send", "listen_selected_files", "shared", 1)
ListenStatusShared == Wire("send", "listen_status", "shared", 1) \* mutant

RtcSendController_listen_status         == Wire("send", "listen_status", "exclusive", 1)
RtcSendController_send_file(f)          == Wire("send", "send_file", "shared", f)
RtcSendController_send_pin              == Wire("send", "send_pin", "shared", 1)

RtcReceiveController_decline             == Wire("receive", "decline", "shared", 1)
RtcReceiveController_listen_error        == Wire("receive", "listen_error", "shared", 1)
RtcReceiveController_listen_files        == Wire("receive", "listen_files", "shared", 1)
RtcReceiveController_listen_receiving    == Wire("receive", "listen_receiving", "shared", 1)

RtcReceiveController_listen_status(n)    == Wire("receive", "listen_status", "shared", n)
RtcReceiveController_send_file_status(f) == Wire("receive", "send_file_status", "shared", f)
RtcReceiveController_send_pin(n)         == Wire("receive", "send_pin", "shared", n)
RtcReceiveController_send_selection      == Wire("receive", "send_selection", "shared", 1)

Call ==
    {RtcSendController_listen_error, RtcSendController_listen_selected_files,
     RtcSendController_listen_status, RtcSendController_send_pin,
     RtcReceiveController_decline, RtcReceiveController_listen_error,
     RtcReceiveController_listen_files, RtcReceiveController_listen_receiving,
     RtcReceiveController_send_selection}
      \cup {RtcReceiveController_listen_status(n) : n \in 1..Repeats}
      \cup {RtcReceiveController_send_pin(n) : n \in 1..Repeats}
      \cup {RtcSendController_send_file(f) : f \in File}
      \cup {RtcReceiveController_send_file_status(f) : f \in File}

Holding   == {c \in Call : calls[c] \in {"running", "listening"}}
Free(c)   == \A d \in Holding : c.lock = "shared" /\ d.lock = "shared"
Ends(c, how) == calls' = [calls EXCEPT ![c] = how]

\* Dart reports a file only after it has been handed the file.
MayCall(c) ==
    /\ c.side = role /\ c.fn \in plan.calls
    /\ c.fn \in {"listen_status", "send_pin"} => c.arg <= plan.repeats
    /\ c.fn = "send_file" => c.arg \in plan.files
    /\ c.fn = "send_file_status" => Contains(handed, c.arg)

\* lockable_decode_async_ref(_mut): a fair lock, so a call waits behind those
\* that came before it.
Issue(c) ==
    /\ calls[c] = "idle" /\ MayCall(c)
    /\ IF waiting = <<>> /\ Free(c)
       THEN Ends(c, "running") /\ UNCHANGED waiting
       ELSE Ends(c, "queued") /\ waiting' = Append(waiting, c)
    /\ UNCHANGED <<role, plan, taken, coreVars, statVars, handVars, fileVars>>

Grant ==
    /\ waiting # <<>>
    /\ Free(Head(waiting))
    /\ Ends(Head(waiting), "running")
    /\ waiting' = Tail(waiting)
    /\ UNCHANGED <<role, plan, taken, coreVars, statVars, handVars, fileVars>>

------------------------------------------------------------------------------
\* The start of a session.

NoData == [at |-> "new", sent |-> 0, q |-> <<>>, buffer |-> <<>>, out |-> <<>>, got |-> <<>>,
           read |-> "idle"]

Init ==
    /\ role = "none" /\ plan \in Plans
    /\ calls = [c \in Call |-> "idle"] /\ waiting = <<>> /\ taken = {}
    /\ main = "off" /\ task = [at |-> "off", pins |-> 0, file |-> <<>>] /\ closed = FALSE
    /\ status_q = <<>> /\ told = <<>> /\ error_q = [n |-> 0, reported |-> 0]
    /\ pin = [q |-> <<>>, forward |-> <<>>, slot |-> <<>>, given |-> {}]
    /\ files = "none" /\ selection = "none"
    /\ file_q = <<>> /\ handed = <<>> /\ result_q = <<>> /\ applied = <<>>
    /\ data = [f \in File |-> NoData]

\* Nothing is spawned when a key cannot be parsed.
Start(side) ==
    /\ role = "none"
    /\ \/ role' = side /\ main' = "exchange"
       \/ role' = "refused" /\ UNCHANGED main
    /\ UNCHANGED <<plan, calls, waiting, taken, task, closed, statVars, handVars, fileVars>>

LsSignalingConnection_send_offer   == "send" \in Role /\ Start("send")
LsSignalingConnection_accept_offer == "receive" \in Role /\ Start("receive")

------------------------------------------------------------------------------
\* The core: what it does with its ends of the channels.

TaskOver == task.at \in {"ended", "failed"}
Goto(where) == task' = [task EXCEPT !.at = where]

\* status_tx.send(s).await by the task, by the function itself.
Says(s) == status_q = <<>> /\ status_q' = <<s>> /\ UNCHANGED <<told, error_q>>

TaskSays(s, next) ==
    /\ Says(s)
    /\ Goto(next)
    /\ UNCHANGED <<callVars, main, closed, handVars, fileVars>>

MainSays(s, next) ==
    /\ Says(s)
    /\ main' = next
    /\ UNCHANGED <<callVars, task, closed, handVars, fileVars>>

\* The session descriptions are exchanged, or that fails: before the task is
\* spawned, or with a task that is left waiting for its data channel.
Exchange ==
    /\ main = "exchange"
    /\ \/ main' \in {"sdp", "error"} /\ UNCHANGED task
       \/ main' = "error" /\ Goto("failed")
    /\ UNCHANGED <<callVars, closed, statVars, handVars, fileVars>>

SdpExchanged == main = "sdp" /\ MainSays("SdpExchanged", "select")

SelectEarly == \* mutant
    /\ main = "select"
    /\ main' = "finish"
    /\ UNCHANGED <<callVars, task, closed, statVars, handVars, fileVars>>

\* select! of the task and done_rx; the task goes on when done_rx wins.
\* send_offer first sets the answer it got, which may be refused.
Select ==
    /\ main = "select"
    /\ \/ task.at = "failed" /\ main' = "error"
       \/ role = "send" /\ task.at = "off" /\ main' = "error"
       \/ task.at = "ended" /\ main' = "finish"
       \/ closed /\ main' = "finish"
    /\ UNCHANGED <<callVars, task, closed, statVars, handVars, fileVars>>

\* peer_connection.close() may fail.
Finished ==
    /\ main = "finish"
    /\ \E next \in {"returned", "error"} : MainSays("Finished", next)

\* The task spawned by the bridge reports the error of the core.
Failed == main = "error" /\ MainSays("Error", "returned")

\* Nonces and tokens, and what the peer says first.  send_offer tells
\* SdpExchanged before the remote description is set.
TaskBegins ==
    /\ task.at = "off"
    /\ main \in {"sdp", "select"}
    /\ role = "send" => main = "select"
    /\ \E where \in {"verify", "pin", "connected", "error", "failed"} :
         /\ where = "pin" => plan.pins > 0
         /\ where = "error" => role = "receive"
         /\ Goto(where)
    /\ UNCHANGED <<callVars, main, closed, statVars, handVars, fileVars>>

\* verify_pin: the peer enters the PIN of this side, and a receiver gets the
\* first answer of the sender.
VerifyPin == task.at = "verify" /\ TaskSays("PinRequired", "verifying")

Verified ==
    /\ task.at = "verifying"
    /\ \E next \in {"pin", "toomany", "connected", "error", "failed"} :
         /\ next = "pin" => plan.pins > 0
         /\ next \in {"pin", "error"} => role = "receive"
         /\ Goto(next)
    /\ UNCHANGED <<callVars, main, closed, statVars, handVars, fileVars>>

\* handle_pin
PinRequired == task.at = "pin" /\ TaskSays("PinRequired", "ask")

Ask ==
    /\ task.at = "ask"
    /\ pin.q = <<>>
    /\ pin' = [pin EXCEPT !.q = <<task.pins + 1>>]
    /\ task' = [task EXCEPT !.at = "await", !.pins = @ + 1]
    /\ UNCHANGED <<callVars, main, closed, statVars, files, selection, fileVars>>

Verdict ==
    /\ task.at = "await"
    /\ task.pins \in pin.given
    /\ \E next \in {"pin", "verify", "toomany", "connected", "failed"} :
         /\ next = "pin" => task.pins < plan.pins
         /\ next = "verify" => role = "send"
         /\ Goto(next)
    /\ UNCHANGED <<callVars, main, closed, statVars, handVars, fileVars>>

TooManyAttempts == task.at = "toomany" /\ TaskSays("TooManyAttempts", "failed")
Connected       == task.at = "connected" /\ TaskSays("Connected", "list")

\* The task itself tells an Error before it returns one.
TaskFails == task.at = "error" /\ TaskSays("Error", "failed")

\* The receiver gets the list and waits for the selection of its user.
PublishFiles ==
    /\ role = "receive" /\ task.at = "list"
    /\ files' = "sent"
    /\ Goto("choice")
    /\ UNCHANGED <<callVars, main, closed, statVars, pin, selection, fileVars>>

UserHasChosen ==
    /\ task.at = "choice"
    /\ selection # "none"
    /\ \/ Goto(IF selection = "declined" THEN "ended" ELSE "idle")
       \/ Goto("failed")
    /\ UNCHANGED <<callVars, main, closed, statVars, handVars, fileVars>>

\* The list cannot be sent: the Error is dropped while the channel is full.
ListNotSent ==
    /\ role = "send" /\ task.at = "list"
    /\ status_q' = IF status_q = <<>> THEN <<"Error">> ELSE status_q
    /\ Goto("failed")
    /\ UNCHANGED <<callVars, main, closed, told, error_q, handVars, fileVars>>

\* The sender gets the selection of the receiver, or an answer it does not
\* expect.
PublishSelection ==
    /\ role = "send" /\ task.at = "list"
    /\ \/ selection' = "files" /\ Goto("idle")
       \/ (\E next \in {"declined", "error"} : Goto(next)) /\ UNCHANGED selection
    /\ UNCHANGED <<callVars, main, closed, statVars, pin, files, fileVars>>

Declined == task.at = "declined" /\ TaskSays("Declined", "ended")

\* error_tx.send: of an unknown file, a wrong token or a failed send.
ReportError ==
    /\ task.at = "idle"
    /\ error_q.reported < plan.errors
    /\ error_q.n = 0
    /\ error_q' = [n |-> 1, reported |-> error_q.reported + 1]
    /\ UNCHANGED <<callVars, coreVars, status_q, told, handVars, fileVars>>

\* accept_offer: the header of a file, its chunks and its end.
Header(f) ==
    /\ role = "receive" /\ task.at = "idle"
    /\ f \in plan.files /\ data[f].at = "new"
    /\ file_q = <<>>
    /\ file_q' = <<f>>
    /\ data' = [data EXCEPT ![f].at = "open"]
    /\ task' = [task EXCEPT !.at = "chunks", !.file = <<f>>]
    /\ UNCHANGED <<callVars, main, closed, statVars, handVars, handed, result_q, applied>>

\* A chunk goes into the channel of its file, from the peer or from Dart.
PutChunk(f) ==
    /\ data[f].at = "open"
    /\ data[f].sent < Chunks /\ Len(data[f].q) < BinaryCapacity
    /\ data' = [data EXCEPT ![f].q = Append(@, data[f].sent + 1), ![f].sent = @ + 1]
    /\ UNCHANGED <<callVars, coreVars, statVars, handVars, file_q, handed, result_q, applied>>

ReceiveChunk(f) == role = "receive" /\ task.at = "chunks" /\ task.file = <<f>> /\ PutChunk(f)

EndFile(f) ==
    /\ role = "receive" /\ task.at = "chunks" /\ task.file = <<f>>
    /\ data' = [data EXCEPT ![f].at = "over"]
    /\ Goto("result")
    /\ UNCHANGED <<callVars, main, closed, statVars, handVars, file_q, handed, result_q, applied>>

ApplyResultIfThere(f) == \* mutant
    /\ task.at = "result" /\ task.file = <<f>>
    /\ applied' = applied \o [i \in DOMAIN result_q |-> <<f, result_q[i]>>]
    /\ result_q' = <<>>
    /\ Goto("idle")
    /\ UNCHANGED <<callVars, main, closed, statVars, handVars, file_q, handed, data>>

\* The next result in the channel is the answer to the file at hand; the
\* message that ended the file is the next header or the last delimiter.
ApplyResult(f) ==
    /\ task.at = "result" /\ task.file = <<f>>
    /\ result_q # <<>>
    /\ applied' = Append(applied, <<f, Head(result_q)>>)
    /\ result_q' = Tail(result_q)
    /\ \E next \in {"idle", "ended"} : Goto(next)
    /\ UNCHANGED <<callVars, main, closed, statVars, handVars, file_q, handed, data>>

\* send_offer: the next file of the application and its chunks.
TakeFile ==
    /\ role = "send" /\ task.at = "idle"
    /\ file_q # <<>>
    /\ task' = [task EXCEPT !.at = "chunks", !.file = file_q]
    /\ handed' = handed \o file_q
    /\ file_q' = <<>>
    /\ UNCHANGED <<callVars, main, closed, statVars, handVars, result_q, applied, data>>

SendChunk(f) ==
    /\ role = "send" /\ task.at = "chunks" /\ task.file = <<f>>
    /\ data[f].q # <<>>
    /\ data' = [data EXCEPT ![f].got = Append(@, Head(data[f].q)), ![f].q = Tail(@)]
    /\ UNCHANGED <<callVars, coreVars, statVars, handVars, file_q, handed, result_q, applied>>

FileSent(f) ==
    /\ role = "send" /\ task.at = "chunks" /\ task.file = <<f>>
    /\ data[f].q = <<>> /\ data[f].at = "over"
    /\ Goto("idle")
    /\ UNCHANGED <<callVars, main, closed, statVars, handVars, fileVars>>

\* A message that cannot be read, or none any more, where the task reads one.
AtPeer == {"list"} \cup IF role = "receive" THEN {"idle", "chunks"} ELSE {}

PeerStops ==
    /\ task.at \in AtPeer
    /\ \E how \in {"ended", "failed"} : (task.at = "list" => how = "failed") /\ Goto(how)
    /\ data' = [f \in File |->
                  IF data[f].at = "open" THEN [data[f] EXCEPT !.at = "over"] ELSE data[f]]
    /\ UNCHANGED <<callVars, main, closed, statVars, handVars, file_q, handed, result_q, applied>>

PeerCloses ==
    /\ main = "select" /\ ~closed
    /\ closed' = TRUE
    /\ UNCHANGED <<callVars, main, task, statVars, handVars, fileVars>>

------------------------------------------------------------------------------
\* The task that keeps the latest PIN request in the controller.

ForwardTakes ==
    /\ pin.q # <<>> /\ pin.forward = <<>>
    /\ pin' = [pin EXCEPT !.q = <<>>, !.forward = pin.q]
    /\ UNCHANGED <<callVars, coreVars, statVars, files, selection, fileVars>>

ForwardStores ==
    /\ pin.forward # <<>>
    /\ pin' = [pin EXCEPT !.forward = <<>>, !.slot = pin.forward]
    /\ UNCHANGED <<callVars, coreVars, statVars, files, selection, fileVars>>

------------------------------------------------------------------------------
\* The methods of the controllers; c is a call that holds the lock.

Runs(c, fn) == c.fn = fn /\ calls[c] = "running"

\* Option::take of a receiver: the second caller gets an error.
Take(c, what) ==
    /\ Ends(c, IF what \in taken THEN "error" ELSE "listening")
    /\ taken' = taken \cup {what}
    /\ UNCHANGED <<role, plan, waiting, coreVars, statVars, handVars, fileVars>>

ListenReceiver(c) ==
    \/ Runs(c, "listen_status") /\ c.side = "receive" /\ Take(c, "status_rx")
    \/ Runs(c, "listen_files") /\ Take(c, "files_rx")
    \/ Runs(c, "listen_selected_files") /\ Take(c, "selected_rx")
    \/ Runs(c, "listen_receiving") /\ Take(c, "receiving_rx")
    \/ Runs(c, "listen_error") /\ c.side = "receive" /\ Take(c, "error_rx")

\* The streams of RTCSendController have &mut self and take nothing.
ListenAsSender(c) ==
    /\ c.side = "send"
    /\ c.fn \in {"listen_status", "listen_error"} /\ calls[c] = "running"
    /\ Ends(c, "listening")
    /\ UNCHANGED <<role, plan, waiting, taken, coreVars, statVars, handVars, fileVars>>

Listens(c, fn) == c.fn = fn /\ calls[c] = "listening"

Ending(c) ==
    /\ Ends(c, "done")
    /\ UNCHANGED <<role, plan, waiting, taken, coreVars, statVars, handVars, fileVars>>

\* A status goes to the stream; the stream ends when both senders are gone.
listen_status(c) ==
    /\ Listens(c, "listen_status")
    /\ \/ /\ status_q # <<>>
          /\ told' = told \o status_q
          /\ status_q' = <<>>
          /\ UNCHANGED <<callVars, coreVars, error_q, handVars, fileVars>>
       \/ status_q = <<>> /\ TaskOver /\ main = "returned" /\ Ending(c)

listen_error(c) ==
    /\ Listens(c, "listen_error")
    /\ \/ /\ error_q.n = 1
          /\ error_q' = [error_q EXCEPT !.n = 0]
          /\ UNCHANGED <<callVars, coreVars, status_q, told, handVars, fileVars>>
       \/ error_q.n = 0 /\ TaskOver /\ Ending(c)

\* files_rx.await and selected_rx.await; an error when the task ends before.
OneShot(c, sent) ==
    /\ ~sent => TaskOver
    /\ Ends(c, IF sent THEN "done" ELSE "error")
    /\ UNCHANGED <<role, plan, waiting, taken, coreVars, statVars, handVars, fileVars>>

listen_files(c)          == Listens(c, "listen_files") /\ OneShot(c, files = "sent")
listen_selected_files(c) == Listens(c, "listen_selected_files") /\ OneShot(c, selection = "files")

listen_receiving(c) ==
    /\ Listens(c, "listen_receiving")
    /\ \/ /\ file_q # <<>>
          /\ handed' = handed \o file_q
          /\ file_q' = <<>>
          /\ UNCHANGED <<callVars, coreVars, statVars, handVars, result_q, applied, data>>
       \/ file_q = <<>> /\ TaskOver /\ Ending(c)

SendPinLosingIt(c) == \* mutant
    /\ Runs(c, "send_pin")
    /\ pin' = [pin EXCEPT !.slot = <<>>]
    /\ Ends(c, "error")
    /\ UNCHANGED <<role, plan, waiting, taken, coreVars, statVars, files, selection, fileVars>>

\* The request in the controller is taken and answered.
send_pin(c) ==
    /\ Runs(c, "send_pin")
    /\ pin' = [pin EXCEPT !.slot = <<>>,
                          !.given = IF TaskOver THEN @ ELSE @ \cup ToSet(pin.slot)]
    /\ Ends(c, IF pin.slot = <<>> \/ TaskOver THEN "error" ELSE "done")
    /\ UNCHANGED <<role, plan, waiting, taken, coreVars, statVars, files, selection, fileVars>>

\* selected_tx is taken by the first of send_selection and decline.
Decide(c, choice) ==
    /\ taken' = taken \cup {"selected_tx"}
    /\ IF "selected_tx" \in taken \/ TaskOver
       THEN Ends(c, "error") /\ UNCHANGED selection
       ELSE Ends(c, "done") /\ selection' = choice
    /\ UNCHANGED <<role, plan, waiting, coreVars, statVars, pin, files, fileVars>>

send_selection(c) == Runs(c, "send_selection") /\ Decide(c, "files")
decline(c)        == Runs(c, "decline") /\ Decide(c, "declined")

send_file_status(c) ==
    /\ Runs(c, "send_file_status")
    /\ \/ TaskOver /\ Ends(c, "error") /\ UNCHANGED result_q
       \/ ~TaskOver /\ result_q = <<>> /\ result_q' = <<c.arg>> /\ Ends(c, "done")
    /\ UNCHANGED <<role, plan, waiting, taken, coreVars, statVars, handVars, file_q, handed, applied, data>>

send_file(c) ==
    /\ Runs(c, "send_file")
    /\ \/ TaskOver /\ Ends(c, "error") /\ UNCHANGED <<file_q, data>>
       \/ /\ ~TaskOver /\ file_q = <<>>
          /\ file_q' = <<c.arg>>
          /\ data' = [data EXCEPT ![c.arg].at = "open"]
          /\ Ends(c, "done")
    /\ UNCHANGED <<role, plan, waiting, taken, coreVars, statVars, handVars, handed, result_q, applied>>

Method(c) ==
    \/ ListenReceiver(c) \/ ListenAsSender(c)
    \/ listen_status(c) \/ listen_error(c) \/ listen_files(c) \/ listen_selected_files(c)
    \/ listen_receiving(c) \/ send_pin(c) \/ send_selection(c) \/ decline(c)
    \/ send_file_status(c) \/ send_file(c)

------------------------------------------------------------------------------
\* RTCFileSender and RTCFileReceiver, objects with locks of their own.

RtcFileSender_send(f) == role = "send" /\ PutChunk(f)

\* Dart disposes the sender: binary_tx is dropped.
DropSender(f) ==
    /\ role = "send"
    /\ data[f].at = "open"
    /\ data' = [data EXCEPT ![f].at = "over"]
    /\ UNCHANGED <<callVars, coreVars, statVars, handVars, file_q, handed, result_q, applied>>

Reads(f, d) ==
    /\ data' = [data EXCEPT ![f] = d]
    /\ UNCHANGED <<callVars, coreVars, statVars, handVars, file_q, handed, result_q, applied>>

RtcFileReceiver_receive(f) ==
    /\ role = "receive" /\ "receive" \in plan.calls
    /\ Contains(handed, f)
    /\ data[f].read = "idle"
    /\ Reads(f, [data[f] EXCEPT !.read = "reading"])

\* buffer_receiver: chunks are collected, the rest follows at the end.
Reading(f)   == role = "receive" /\ data[f].read = "reading"
Full(f)      == Len(data[f].buffer) >= BufferSize
InputOver(f) == data[f].at = "over" /\ data[f].q = <<>>

Buffer(f) ==
    /\ Reading(f) /\ ~Full(f)
    /\ data[f].q # <<>>
    /\ Reads(f, [data[f] EXCEPT !.buffer = Append(@, Head(data[f].q)), !.q = Tail(@)])

FullOnly(f) == Full(f) \* mutant

MustFlush(f) == Full(f) \/ (InputOver(f) /\ data[f].buffer # <<>>)

Flush(f) ==
    /\ Reading(f) /\ MustFlush(f)
    /\ data[f].out = <<>>
    /\ Reads(f, [data[f] EXCEPT !.out = data[f].buffer, !.buffer = <<>>])

receive(f) ==
    /\ Reading(f)
    /\ \/ /\ data[f].out # <<>>
          /\ Reads(f, [data[f] EXCEPT !.got = @ \o data[f].out, !.out = <<>>])
       \/ /\ InputOver(f) /\ ~MustFlush(f) /\ data[f].out = <<>>
          /\ Reads(f, [data[f] EXCEPT !.read = "done"])

------------------------------------------------------------------------------

Main == Exchange \/ SdpExchanged \/ Select \/ Finished \/ Failed
Task ==
    \/ VerifyPin \/ PinRequired \/ Ask \/ TooManyAttempts \/ Connected \/ TaskFails
    \/ PublishFiles \/ UserHasChosen \/ Declined \/ TakeFile \/ \E f \in File : ApplyResult(f) \/ SendChunk(f) \/ FileSent(f)
Peer ==
    \/ TaskBegins \/ Verified \/ Verdict \/ ListNotSent \/ PublishSelection \/ ReportError \/ PeerStops \/ PeerCloses
    \/ \E f \in File : Header(f) \/ ReceiveChunk(f) \/ EndFile(f)
Stream(f) == Buffer(f) \/ Flush(f) \/ receive(f)

Next ==
    \/ LsSignalingConnection_send_offer \/ LsSignalingConnection_accept_offer
    \/ Main \/ Task \/ Peer \/ ForwardTakes \/ ForwardStores
    \/ Grant \/ \E c \in Call : Issue(c) \/ Method(c)
    \/ \E f \in File : RtcFileSender_send(f) \/ DropSender(f) \/ RtcFileReceiver_receive(f)
                         \/ Stream(f)

Spec == Init /\ [][Next]_vars

------------------------------------------------------------------------------
\* Properties.

\* The statuses the application sees, and the one on its way.
Statuses == told \o status_q

\* Finished is told once.  Of a session whose connection stayed up, it is told
\* after all that the task tells, and only the Error of closing the connection
\* follows; and after an Error (of the task itself, or of the function whose
\* task is over) only another one follows, or the SdpExchanged that the function
\* of the receiver was about to tell when its task failed.
FinishedIsLast ==
    \A i, j \in DOMAIN Statuses : i < j =>
      /\ Statuses[i] = "Finished" => Statuses[j] # "Finished"
      /\ ~closed /\ Statuses[i] = "Finished" => Statuses[j] = "Error"
      /\ ~closed /\ Statuses[i] = "Error" => Statuses[j] \in {"Error", "SdpExchanged"}

\* While the core waits for a PIN its request is not lost: it is in the
\* channel, at the forwarding task or in the controller, exactly once, and no
\* older request can be answered instead.
PinRequestKept ==
    LET pending == pin.q \o pin.forward \o pin.slot IN
    task.at = "await" => pending = IF task.pins \in pin.given THEN <<>> ELSE <<task.pins>>

\* accept_offer answers a file with the next result in the channel and never
\* looks at the id in it: it is the result of that file, as long as Dart
\* reports each file that it was handed once, however early.
ResultsMatchFiles == \A i \in DOMAIN applied : applied[i][1] = applied[i][2]

\* The bytes of a file are neither lost nor reordered by the channels and the
\* buffer, and the stream ends only after all of them.
BytesInOrder ==
    \A f \in File :
      LET d == data[f]
          all == [i \in 1..d.sent |-> i] IN
      /\ d.got \o d.out \o d.buffer \o d.q = all
      /\ d.read = "done" => d.got = all

\* listen_status of the sender holds the controller until the session is over,
\* and without it the core stops at its second status: of all that Dart may
\* say to a running session, only one file handed over before reaches it.
SenderIsDeaf == role = "send" => (Len(handed) <= 1 /\ pin.given = {})

=============================================================================
