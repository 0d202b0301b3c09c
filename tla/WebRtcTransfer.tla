--------------------------- MODULE WebRtcTransfer ---------------------------
(***************************************************************************)
(* A transfer over a WebRTC data channel (core/src/webrtc/webrtc.rs):      *)
(* send_offer on one device and accept_offer on the other, from the opened *)
(* data channel on.                                                        *)
(*                                                                         *)
(* Each function spawns a task that talks over the channel, and waits for  *)
(* that task or for the connection to be Disconnected, whichever is first; *)
(* a task that is left behind goes on.  A task waits only where it reads   *)
(* the channel or asks its application, so that what it does from there to *)
(* the next such point is one step.                                        *)
(*                                                                         *)
(* The channel is ordered and reliable while the connection is up.  What   *)
(* has not reached the other side when the connection is closed is lost;   *)
(* wait_buffer_empty waits until everything has.  A function that returns  *)
(* an error does not close its connection.                                 *)
(***************************************************************************)
EXTENDS Integers, FiniteSets, SequencesExt

CONSTANTS
    File,          \* the files of the file list
    NoFile,        \* no file
    Chunks,        \* the number of chunks of every file
    SenderPin,     \* whether send_offer may be given a PIN to ask for
    ReceiverPin,   \* whether accept_offer may be given a PIN to ask for
    MaxTries,      \* PinConfig.max_tries, of a PIN that is not empty
    SenderTrusts,  \* the possible verdicts of the sender on the receiver's token
    ReceiverTrusts,\* the possible verdicts of the receiver on the sender's token
    AppFails,      \* whether the receiving application may fail to write a file
    Breaks         \* whether the network may break the connection

ASSUME WebRtcAssumption ==
    /\ IsFiniteSet(File)
    /\ NoFile \notin File
    /\ Chunks \in Nat
    /\ SenderPin \in SUBSET BOOLEAN
    /\ ReceiverPin \in SUBSET BOOLEAN
    /\ MaxTries \in Nat \ {0}
    /\ SenderTrusts \in (SUBSET BOOLEAN) \ {{}}
    /\ ReceiverTrusts \in (SUBSET BOOLEAN) \ {{}}
    /\ AppFails \in BOOLEAN
    /\ Breaks \in BOOLEAN

VARIABLES
    s,             \* where the send task is
    r,             \* where the receive task is
    s_fn,          \* whether send_offer runs, or how it returned
    r_fn,          \* whether accept_offer runs, or how it returned
    s_status,      \* the statuses the sender's application was told
    r_status,      \* the statuses the receiver's application was told
    to_r,          \* the channel towards the receiver
    to_s,          \* the channel towards the sender
    r_acked,       \* how many messages of to_r are sure to arrive
    s_acked,       \* how many messages of to_s are sure to arrive
    link,          \* whether the peer connection is up
    s_pin,         \* whether send_offer was given a PIN to ask for
    r_pin,         \* whether accept_offer was given a PIN to ask for
    s_try,         \* pin_try of the sender's verify_pin
    r_try,         \* pin_try of the receiver's verify_pin
    file_map,      \* the files the receiver gave a token for
    handed,        \* the files the application has handed to sending_rx
    sending,       \* the file being sent
    chunks,        \* the chunks of each file that were sent
    file_state,    \* the file being received
    next_file,     \* the file whose header ended it, if any
    received,      \* the chunks of each file that reached the application
    ended,         \* the files whose stream the receive task has ended
    app,           \* the receiving application
    read,          \* the file responses the sender has read
    proved         \* history variable: who has entered the other side's PIN

taskVars  == <<s, r>>
fnVars    == <<s_fn, r_fn>>
pinVars   == <<s_pin, r_pin, s_try, r_try, proved>>
sendVars  == <<file_map, handed, sending, chunks, read>>
fileVars  == <<file_state, next_file, received, ended, app>>
linkVars  == <<link, r_acked, s_acked>>
vars == <<taskVars, fnVars, s_status, r_status, to_r, to_s, linkVars, pinVars,
          sendVars, fileVars>>

------------------------------------------------------------------------------
\* Messages: everything but the kinds of Binary is a text message.

Binary == {"files", "pin_required_chunks", "too_many_chunks", "granted", "declined", "chunk"}

Plain(k)     == [kind |-> k]
Pin(right)   == [kind |-> "pin", right |-> right]
Granted(fs)  == [kind |-> "granted", files |-> fs]
Header(f)    == [kind |-> "header", file |-> f]
Chunk(f, i)  == [kind |-> "chunk", file |-> f, index |-> i]
Response(f, ok) == [kind |-> "response", file |-> f, ok |-> ok]

Message ==
    [kind : {"nonce", "token", "token_ok", "token_pin", "token_invalid", "pin_ok",
             "pin_required", "too_many", "files", "pin_required_chunks",
             "too_many_chunks", "declined", "delimiter"}]
    \cup [kind : {"pin"}, right : BOOLEAN]
    \cup [kind : {"granted"}, files : SUBSET File]
    \cup [kind : {"header"}, file : File]
    \cup [kind : {"chunk"}, file : File, index : 1 .. Chunks]
    \cup [kind : {"response"}, file : File, ok : BOOLEAN]

IsString(msg) == msg.kind \notin Binary

\* send_string_in_chunks and send_delimiter.
ChunkedWithoutDelimiter(msg) == <<msg>>                               \* mutant
Chunked(msg) == <<msg, Plain("delimiter")>>

\* receive_string_from_chunks: reads up to the next text message.
Complete(ch) == \E i \in DOMAIN ch : IsString(ch[i])
FirstString(ch) == CHOOSE i \in DOMAIN ch : IsString(ch[i]) /\ \A j \in 1 .. i - 1 : ~IsString(ch[j])
StringAtKeepsDelimiter(ch) == FirstString(ch) - 1                     \* mutant
StringAt(ch) == FirstString(ch)

\* verify_pin: whether the PIN is the right one, and whether one more may be
\* tried.
PinUnchecked(msg) == TRUE                                             \* mutant
PinMatches(msg) == msg.right

OneTryMore(try) == try <= MaxTries                                    \* mutant
TriesLeft(try) == try < MaxTries

Init ==
    /\ s = "open"
    /\ r = "nonce"
    /\ s_fn = "run"
    /\ r_fn = "run"
    /\ s_status = {}
    /\ r_status = {}
    /\ to_r = <<>>
    /\ to_s = <<>>
    /\ link = "up"
    /\ r_acked = 0
    /\ s_acked = 0
    /\ s_pin \in SenderPin
    /\ r_pin \in ReceiverPin
    /\ s_try = 0
    /\ r_try = 0
    /\ file_map = {}
    /\ handed = {}
    /\ sending = NoFile
    /\ chunks = [f \in File |-> 0]
    /\ file_state = NoFile
    /\ next_file = NoFile
    /\ received = [f \in File |-> <<>>]
    /\ ended = {}
    /\ app = "reads"
    /\ read = <<>>
    /\ proved = {}

------------------------------------------------------------------------------
\* Reading and writing the channel.

After(n, acked) == IF acked > n THEN acked - n ELSE 0

SenderReads(n) ==
    /\ to_s' = SubSeq(to_s, n + 1, Len(to_s))
    /\ s_acked' = After(n, s_acked)
    /\ UNCHANGED <<link, r_acked>>

ReceiverReads(n) ==
    /\ to_r' = SubSeq(to_r, n + 1, Len(to_r))
    /\ r_acked' = After(n, r_acked)
    /\ UNCHANGED <<link, s_acked>>

\* The task sends and goes on to loc.  When the connection is gone, what it
\* sends is lost, or it notices and ends with an error.
SenderSays(msgs, loc) ==
    \/ /\ s' = loc
       /\ to_r' = IF link = "up" THEN to_r \o msgs ELSE to_r
    \/ /\ link # "up"
       /\ s' = "err"
       /\ to_r' = to_r

ReceiverSays(msgs, loc) ==
    \/ /\ r' = loc
       /\ to_s' = IF link = "up" THEN to_s \o msgs ELSE to_s
    \/ /\ link # "up"
       /\ r' = "err"
       /\ to_s' = to_s

\* The connection is lost: of what has not arrived, a part is lost with it.
Disconnect ==
    /\ link = "up"
    /\ link' = "closed"
    /\ \E n \in r_acked .. Len(to_r) : to_r' = SubSeq(to_r, 1, n)
    /\ \E n \in s_acked .. Len(to_s) : to_s' = SubSeq(to_s, 1, n)
    /\ UNCHANGED <<r_acked, s_acked>>

StaysClosed == link # "up" /\ UNCHANGED <<to_r, to_s, linkVars>>

Close == Disconnect \/ StaysClosed

SenderTold(status)   == s_status' = s_status \cup {status}
ReceiverTold(status) == r_status' = r_status \cup {status}

------------------------------------------------------------------------------
\* The send task.

SendNonce ==
    /\ s = "open"
    /\ SenderSays(<<Plain("nonce")>>, "nonce")
    /\ UNCHANGED <<r, fnVars, s_status, r_status, to_s, linkVars, pinVars, sendVars,
                   fileVars>>

SendToken ==
    /\ s = "nonce"
    /\ to_s # <<>> /\ Head(to_s).kind = "nonce"
    /\ SenderReads(1)
    /\ SenderSays(<<Plain("token")>>, "token")
    /\ UNCHANGED <<r, fnVars, s_status, r_status, pinVars, sendVars, fileVars>>

\* verify_pin's first notice when there is a PIN, else the file list.
ContinueToList ==
    \/ /\ s_pin
       /\ SenderTold("PinRequired")
       /\ SenderSays(Chunked(Plain("pin_required_chunks")), "check_pin")
    \/ /\ ~s_pin
       /\ SenderTold("Connected")
       /\ SenderSays(Chunked(Plain("files")), "selection")

SenderFails == s' = "err" /\ UNCHANGED <<to_r, s_status>>

SenderAsksForPin == s' = "ask_pin" /\ SenderTold("PinRequired") /\ UNCHANGED to_r

ReceiveTokenResponse ==
    /\ s = "token"
    /\ to_s # <<>>
    /\ SenderReads(1)
    /\ \/ Head(to_s).kind = "token_invalid" /\ SenderFails
       \/ /\ Head(to_s).kind \in {"token_ok", "token_pin"}
          /\ FALSE \in SenderTrusts
          /\ SenderFails
       \/ /\ Head(to_s).kind = "token_ok"
          /\ TRUE \in SenderTrusts
          /\ ContinueToList
       \/ /\ Head(to_s).kind = "token_pin"
          /\ TRUE \in SenderTrusts
          /\ SenderAsksForPin
    /\ UNCHANGED <<r, fnVars, r_status, pinVars, sendVars, fileVars>>

\* handle_pin: the application provides a PIN, or drops the request.
SenderEntersPin ==
    /\ s = "ask_pin"
    /\ \/ \E right \in BOOLEAN :
            /\ SenderSays(<<Pin(right)>>, "pin_sent")
            /\ proved' = IF right THEN proved \cup {"sender"} ELSE proved
            /\ UNCHANGED s_status
       \/ SenderFails /\ UNCHANGED proved
    /\ UNCHANGED <<r, fnVars, r_status, to_s, linkVars, s_pin, r_pin, s_try, r_try, sendVars, fileVars>>

SenderPinAnswered ==
    /\ s = "pin_sent"
    /\ to_s # <<>>
    /\ SenderReads(1)
    /\ \/ Head(to_s).kind = "pin_ok" /\ ContinueToList
       \/ Head(to_s).kind = "pin_required" /\ SenderAsksForPin
       \/ /\ Head(to_s).kind = "too_many"
          /\ s' = "err"
          /\ SenderTold("TooManyAttempts")
          /\ UNCHANGED to_r
    /\ UNCHANGED <<r, fnVars, r_status, pinVars, sendVars, fileVars>>

\* One round of the sender's verify_pin.
SenderChecksPin ==
    /\ s = "check_pin"
    /\ to_s # <<>> /\ Head(to_s).kind = "pin"
    /\ to_s' = Tail(to_s)
    /\ s_acked' = After(1, s_acked)
    /\ s_try' = s_try + 1
    /\ \/ /\ PinMatches(Head(to_s))
          /\ SenderTold("Connected")
          /\ SenderSays(Chunked(Plain("files")), "selection")
          /\ UNCHANGED r_acked
       \/ /\ ~PinMatches(Head(to_s))
          /\ TriesLeft(s_try + 1)
          /\ SenderSays(Chunked(Plain("pin_required_chunks")), "check_pin")
          /\ UNCHANGED <<s_status, r_acked>>
       \/ /\ ~PinMatches(Head(to_s))
          /\ ~TriesLeft(s_try + 1)
          /\ SenderSays(Chunked(Plain("too_many_chunks")), "err")
          /\ r_acked' \in {r_acked, Len(to_r')}
          /\ SenderTold("TooManyAttempts")
    /\ UNCHANGED <<r, fnVars, r_status, link, s_pin, r_pin, r_try, proved, sendVars, fileVars>>

\* The selection is published to the application, which may be gone: the Error
\* for that is never awaited, and so not told.  accept_offer sends neither of
\* the other answers, Pair and InvalidSignature.
ReceiveSelection ==
    /\ s = "selection"
    /\ Complete(to_s) /\ ~IsString(Head(to_s))
    /\ SenderReads(StringAt(to_s))
    /\ \/ /\ Head(to_s).kind = "granted"
          /\ \/ file_map' = Head(to_s).files /\ s' = "send"
             \/ UNCHANGED file_map /\ s' = "err"
          /\ UNCHANGED s_status
       \/ /\ Head(to_s).kind = "declined"
          /\ s' = "ok"
          /\ SenderTold("Declined")
          /\ UNCHANGED file_map
    /\ UNCHANGED <<r, fnVars, r_status, to_r, pinVars, handed, sending, chunks, read,
                   fileVars>>

\* The application hands over a file; one without token is refused.
HandFile(f) ==
    /\ s = "send"
    /\ f \notin handed
    /\ handed' = handed \cup {f}
    /\ \/ /\ f \in file_map
          /\ s' = "chunks"
          /\ sending' = f
          /\ to_r' = IF link = "up" THEN Append(to_r, Header(f)) ELSE to_r
       \/ /\ f \notin file_map \/ link # "up"
          /\ UNCHANGED <<s, sending, to_r>>
    /\ UNCHANGED <<r, fnVars, s_status, r_status, to_s, linkVars, pinVars, file_map,
                   chunks, read, fileVars>>

\* process_in_chunks.
SendChunk ==
    /\ s = "chunks"
    /\ chunks[sending] < Chunks
    /\ to_r' = IF link = "up" THEN Append(to_r, Chunk(sending, chunks[sending] + 1)) ELSE to_r
    /\ chunks' = [chunks EXCEPT ![sending] = @ + 1]
    /\ UNCHANGED <<taskVars, fnVars, s_status, r_status, to_s, linkVars, pinVars,
                   file_map, handed, sending, read, fileVars>>

\* The application has closed the file's stream, with all of it sent or after
\* an error of its own; or sending a chunk failed.
FileSent ==
    /\ s = "chunks"
    /\ s' = "send"
    /\ sending' = NoFile
    /\ UNCHANGED <<r, fnVars, s_status, r_status, to_r, to_s, linkVars, pinVars, file_map,
                   handed, chunks, read, fileVars>>

SendDelimiterAndReturn ==                                              \* mutant
    /\ s = "send"
    /\ r_acked' = IF link = "up" THEN Len(to_r) ELSE r_acked
    /\ SenderSays(<<Plain("delimiter")>>, "ok")
    /\ UNCHANGED <<r, fnVars, s_status, r_status, to_s, link, s_acked, pinVars, sendVars,
                   fileVars>>

\* The application has no more files, or drops its sender before the last one:
\* wait_buffer_empty, then the delimiter.
SendDelimiter ==
    /\ s = "send"
    /\ r_acked' = IF link = "up" THEN Len(to_r) ELSE r_acked
    /\ SenderSays(<<Plain("delimiter")>>, "last")
    /\ UNCHANGED <<r, fnVars, s_status, r_status, to_s, link, s_acked, pinVars, sendVars,
                   fileVars>>

\* Whatever message is next ends the task.
ReadLast ==
    /\ s = "last"
    /\ to_s # <<>>
    /\ SenderReads(1)
    /\ read' = Append(read, Head(to_s))
    /\ s' = "ok"
    /\ UNCHANGED <<r, fnVars, s_status, r_status, to_r, pinVars, file_map, handed, sending,
                   chunks, fileVars>>

------------------------------------------------------------------------------
\* The receive task.

SendNonceBack ==
    /\ r = "nonce"
    /\ to_r # <<>> /\ Head(to_r).kind = "nonce"
    /\ ReceiverReads(1)
    /\ ReceiverSays(<<Plain("nonce")>>, "token")
    /\ UNCHANGED <<s, fnVars, s_status, r_status, pinVars, sendVars, fileVars>>

AnswerToken ==
    /\ r = "token"
    /\ to_r # <<>> /\ Head(to_r).kind = "token"
    /\ to_r' = Tail(to_r)
    /\ r_acked' = After(1, r_acked)
    /\ \/ /\ FALSE \in ReceiverTrusts
          /\ ReceiverSays(<<Plain("token_invalid")>>, "err")
          /\ s_acked' = IF link = "up" THEN Len(to_s') ELSE s_acked
          /\ UNCHANGED r_status
       \/ /\ TRUE \in ReceiverTrusts
          /\ r_pin
          /\ ReceiverTold("PinRequired")
          /\ ReceiverSays(<<Plain("token_pin")>>, "check_pin")
          /\ UNCHANGED s_acked
       \/ /\ TRUE \in ReceiverTrusts
          /\ ~r_pin
          /\ ReceiverSays(<<Plain("token_ok")>>, "list")
          /\ UNCHANGED <<r_status, s_acked>>
    /\ UNCHANGED <<s, fnVars, s_status, link, pinVars, sendVars, fileVars>>

\* One round of the receiver's verify_pin.
ReceiverChecksPin ==
    /\ r = "check_pin"
    /\ to_r # <<>> /\ Head(to_r).kind = "pin"
    /\ to_r' = Tail(to_r)
    /\ r_acked' = After(1, r_acked)
    /\ r_try' = r_try + 1
    /\ \/ /\ PinMatches(Head(to_r))
          /\ ReceiverSays(<<Plain("pin_ok")>>, "list")
          /\ UNCHANGED <<r_status, s_acked>>
       \/ /\ ~PinMatches(Head(to_r))
          /\ TriesLeft(r_try + 1)
          /\ ReceiverSays(<<Plain("pin_required")>>, "check_pin")
          /\ UNCHANGED <<r_status, s_acked>>
       \/ /\ ~PinMatches(Head(to_r))
          /\ ~TriesLeft(r_try + 1)
          /\ ReceiverSays(<<Plain("too_many")>>, "err")
          /\ s_acked' \in {s_acked, Len(to_s')}
          /\ ReceiverTold("TooManyAttempts")
    /\ UNCHANGED <<s, fnVars, s_status, link, s_pin, r_pin, s_try, proved, sendVars, fileVars>>

\* The sender's PIN status: a challenge, or the file list, for which the
\* application may be gone.  A sender that allows one try at least does not
\* begin with TooManyAttempts.
ReadPinStatus ==
    /\ r \in {"list", "pin_sent"}
    /\ Complete(to_r) /\ ~IsString(Head(to_r))
    /\ ReceiverReads(StringAt(to_r))
    /\ \/ /\ Head(to_r).kind = "files"
          /\ r' \in {"choose", "err"}
          /\ ReceiverTold("Connected")
       \/ /\ Head(to_r).kind = "pin_required_chunks"
          /\ r' = "ask_pin"
          /\ ReceiverTold("PinRequired")
       \/ /\ Head(to_r).kind = "too_many_chunks"
          /\ r = "pin_sent"
          /\ r' = "err"
          /\ ReceiverTold("TooManyAttempts")
    /\ UNCHANGED <<s, fnVars, s_status, to_s, pinVars, sendVars, fileVars>>

\* handle_pin: the application provides a PIN, or drops the request.
ReceiverEntersPin ==
    /\ r = "ask_pin"
    /\ \/ \E right \in BOOLEAN :
            /\ ReceiverSays(<<Pin(right)>>, "pin_sent")
            /\ proved' = IF right THEN proved \cup {"receiver"} ELSE proved
       \/ r' = "err" /\ UNCHANGED <<to_s, proved>>
    /\ UNCHANGED <<s, fnVars, s_status, r_status, to_r, linkVars, s_pin, r_pin, s_try, r_try, sendVars,
                   fileVars>>

\* The user's selection; None declines, and a dropped channel ends the task.
Choose ==
    /\ r = "choose"
    /\ \/ \E fs \in SUBSET File : ReceiverSays(Chunked(Granted(fs)), "receive")
       \/ ReceiverSays(Chunked(Plain("declined")), "ok")
       \/ r' = "ok" /\ UNCHANGED to_s
    /\ UNCHANGED <<s, fnVars, s_status, r_status, to_r, linkVars, pinVars, sendVars,
                   fileVars>>

\* Binary data goes to the file at hand; a write that fails there (the
\* application has dropped the stream) ends the task.
ReceiveChunk ==
    /\ r = "receive"
    /\ to_r # <<>> /\ Head(to_r).kind = "chunk"
    /\ ReceiverReads(1)
    /\ \/ /\ file_state # NoFile /\ app = "reads"
          /\ received' = [received EXCEPT ![file_state] =
                            Append(@, <<Head(to_r).file, Head(to_r).index>>)]
          /\ UNCHANGED r
       \/ /\ file_state # NoFile /\ app = "gone"
          /\ r' = "err"
          /\ UNCHANGED received
    /\ UNCHANGED <<s, fnVars, s_status, r_status, to_s, pinVars, sendVars, file_state,
                   next_file, ended, app>>

\* A text message ends the file at hand, before anything else is done with it.
EndFile ==
    /\ r = "receive"
    /\ file_state # NoFile
    /\ to_r # <<>> /\ IsString(Head(to_r))
    /\ ReceiverReads(1)
    /\ next_file' = IF Head(to_r).kind = "header" THEN Head(to_r).file ELSE NoFile
    /\ ended' = ended \cup {file_state}
    /\ r' = "result"
    /\ UNCHANGED <<s, fnVars, s_status, r_status, to_s, pinVars, sendVars, file_state,
                   received, app>>

FileAfterUnreset == file_state                                        \* mutant
FileAfter == next_file

\* The application has told how the file ended: the sender is told, and the
\* message that ended the file is handled.
FileResult ==
    /\ r = "result"
    /\ \E ok \in BOOLEAN :
         ReceiverSays(<<Response(file_state, ok)>>,
                      IF next_file = NoFile THEN "drain" ELSE "receive")
    /\ file_state' = FileAfter
    /\ next_file' = NoFile
    /\ app' \in {"reads", app}          \* the next file has a stream of its own
    /\ UNCHANGED <<s, fnVars, s_status, r_status, to_r, linkVars, pinVars, sendVars,
                   received, ended>>

FirstHeader ==
    /\ r = "receive"
    /\ file_state = NoFile
    /\ to_r # <<>> /\ Head(to_r).kind = "header"
    /\ ReceiverReads(1)
    /\ file_state' = Head(to_r).file
    /\ UNCHANGED <<taskVars, fnVars, s_status, r_status, to_s, pinVars, sendVars, next_file,
                   received, ended, app>>

\* "Wait for the last status to be sent", for five seconds at most.
Drain ==
    /\ r = "drain"
    /\ r' = "ok"
    /\ s_acked' \in {s_acked, IF link = "up" THEN Len(to_s) ELSE s_acked}
    /\ UNCHANGED <<s, fnVars, s_status, r_status, to_r, to_s, link, r_acked, pinVars,
                   sendVars, fileVars>>

\* Without a file at hand the delimiter is taken for a header, which it is
\* not: the task ends with the parser's error.
DelimiterAsHeader ==
    /\ r = "receive"
    /\ file_state = NoFile
    /\ to_r # <<>> /\ Head(to_r).kind = "delimiter"
    /\ ReceiverReads(1)
    /\ r' = "err"
    /\ UNCHANGED <<s, fnVars, s_status, r_status, to_s, pinVars, sendVars, fileVars>>

------------------------------------------------------------------------------
\* send_offer and accept_offer around their tasks, the application that
\* writes the files, and the network.

Over == {"ok", "err"}

SendOfferReturns ==
    /\ s_fn = "run"
    /\ \/ /\ s = "ok"
          /\ s_fn' = "finished"
          /\ SenderTold("Finished")
          /\ Close
       \/ /\ s = "err"
          /\ s_fn' = "error"
          /\ SenderTold("Error")
          /\ UNCHANGED <<to_r, to_s, linkVars>>
       \/ /\ StaysClosed               \* Disconnected
          /\ s_fn' = "finished"
          /\ SenderTold("Finished")
    /\ UNCHANGED <<taskVars, r_fn, r_status, pinVars, sendVars, fileVars>>

AcceptOfferReturns ==
    /\ r_fn = "run"
    /\ \/ /\ r = "ok"
          /\ r_fn' = "finished"
          /\ ReceiverTold("Finished")
          /\ Close
       \/ /\ r = "err"
          /\ r_fn' = "error"
          /\ ReceiverTold("Error")
          /\ UNCHANGED <<to_r, to_s, linkVars>>
       \/ /\ StaysClosed               \* Disconnected
          /\ r_fn' = "finished"
          /\ ReceiverTold("Finished")
    /\ UNCHANGED <<taskVars, s_fn, s_status, pinVars, sendVars, fileVars>>

AppStopsReading ==
    /\ AppFails
    /\ app = "reads"
    /\ file_state # NoFile
    /\ app' = "gone"
    /\ UNCHANGED <<taskVars, fnVars, s_status, r_status, to_r, to_s, linkVars, pinVars,
                   sendVars, file_state, next_file, received, ended>>

ConnectionBreaks ==
    /\ Breaks
    /\ Disconnect
    /\ UNCHANGED <<taskVars, fnVars, s_status, r_status, pinVars, sendVars, fileVars>>

SendTask ==
    \/ SendNonce \/ SendToken \/ ReceiveTokenResponse \/ SenderEntersPin
    \/ SenderPinAnswered \/ SenderChecksPin \/ ReceiveSelection
    \/ \E f \in File : HandFile(f)
    \/ SendChunk \/ FileSent \/ SendDelimiter \/ ReadLast

ReceiveTask ==
    \/ SendNonceBack \/ AnswerToken \/ ReceiverChecksPin \/ ReadPinStatus
    \/ ReceiverEntersPin \/ Choose \/ ReceiveChunk \/ EndFile \/ FileResult
    \/ FirstHeader \/ DelimiterAsHeader \/ Drain

Next ==
    \/ SendTask \/ ReceiveTask
    \/ SendOfferReturns \/ AcceptOfferReturns
    \/ AppStopsReading \/ ConnectionBreaks

Spec == Init /\ [][Next]_vars

\* Both tasks and both functions go on, the applications answer what they
\* are asked, and the end of a connection is noticed.
Fairness ==
    /\ WF_vars(SendTask) /\ WF_vars(ReceiveTask)
    /\ WF_vars(SendOfferReturns) /\ WF_vars(AcceptOfferReturns)

FairSpec == Spec /\ Fairness

------------------------------------------------------------------------------
\* Properties.

SenderAt == {"open", "nonce", "token", "ask_pin", "pin_sent", "check_pin", "selection",
             "send", "chunks", "last"} \cup Over
ReceiverAt == {"nonce", "token", "check_pin", "list", "ask_pin", "pin_sent", "choose",
               "receive", "result", "drain"} \cup Over
Status == {"PinRequired", "TooManyAttempts", "Connected", "Declined", "Finished", "Error"}

\* The type of every variable; no more PINs are tried than MaxTries allows.
TypeOK ==
    /\ s \in SenderAt
    /\ r \in ReceiverAt
    /\ s_fn \in {"run", "finished", "error"}
    /\ r_fn \in {"run", "finished", "error"}
    /\ s_status \in SUBSET Status
    /\ r_status \in SUBSET Status
    /\ to_r \in Seq(Message)
    /\ to_s \in Seq(Message)
    /\ link \in {"up", "closed"}
    /\ r_acked \in 0 .. Len(to_r)
    /\ s_acked \in 0 .. Len(to_s)
    /\ s_pin \in BOOLEAN
    /\ r_pin \in BOOLEAN
    /\ s_try \in 0 .. MaxTries
    /\ r_try \in 0 .. MaxTries
    /\ proved \in SUBSET {"sender", "receiver"}
    /\ file_map \in SUBSET File
    /\ handed \in SUBSET File
    /\ sending \in File \cup {NoFile}
    /\ chunks \in [File -> 0 .. Chunks]
    /\ read \in Seq(Message)
    /\ file_state \in File \cup {NoFile}
    /\ next_file \in File \cup {NoFile}
    /\ received \in [File -> Seq(File \X (1 .. Chunks))]
    /\ ended \in SUBSET File
    /\ app \in {"reads", "gone"}

\* What each task can parse where it reads a single message.
SenderParses ==
    [nonce |-> {"nonce"}, token |-> {"token_ok", "token_pin", "token_invalid"},
     pin_sent |-> {"pin_ok", "pin_required", "too_many"}, check_pin |-> {"pin"},
     last |-> {"response"}]
ReceiverParses == [nonce |-> {"nonce"}, token |-> {"token"}, check_pin |-> {"pin"}]

\* The files handed over with a token: those the sender has sent.
Sent == handed \cap file_map

\* The two tasks never get out of step: wherever one of them reads, the next
\* message is one it can parse there, through both PIN challenges, the
\* chunked and the plain messages and the file loop.  The one exception is
\* a receiver that was sent no file at all.
InStep ==
    /\ s \in DOMAIN SenderParses /\ to_s # <<>> => Head(to_s).kind \in SenderParses[s]
    /\ r \in DOMAIN ReceiverParses /\ to_r # <<>> => Head(to_r).kind \in ReceiverParses[r]
    /\ s = "selection" /\ to_s # <<>> => Head(to_s).kind \in {"granted", "declined"}
    /\ r = "list" /\ to_r # <<>> => Head(to_r).kind \in {"files", "pin_required_chunks"}
    /\ r = "pin_sent" /\ to_r # <<>> =>
         Head(to_r).kind \in {"files", "pin_required_chunks", "too_many_chunks"}
    /\ r = "receive" /\ to_r # <<>> =>
         \/ Head(to_r).kind = "header"
         \/ Head(to_r).kind = "chunk" /\ file_state # NoFile
         \/ Head(to_r).kind = "delimiter" /\ (file_state # NoFile \/ Sent = {})

\* Neither the names nor the content of the files leave the sender before
\* each side has entered the PIN that the other one asks for.
PinsComeFirst ==
    \/ s \in {"selection", "send", "chunks", "last"}
    \/ r \in {"choose", "receive", "result", "drain"}
    \/ \E i \in DOMAIN to_r : to_r[i].kind = "files"
    => /\ s_pin => "receiver" \in proved
       /\ r_pin => "sender" \in proved

\* A file whose stream the receiver has ended has got exactly the chunks that
\* the sender sent for it, in order, and nothing of another file, also when
\* the connection breaks between them; and only such files are answered.
EndedFilesAreWhole ==
    /\ \A f \in ended :
         received[f] = [i \in 1 .. chunks[f] |-> <<f, i>>]
    /\ \A i \in DOMAIN to_s : to_s[i].kind = "response" => to_s[i].file \in ended

\* Nobody waits for ever: both functions return, unless one of them returned
\* an error, which it does without a word to the other side.
SessionEnds ==
    <>(\/ s_fn = "finished" /\ r_fn = "finished"
       \/ s_fn = "error" \/ r_fn = "error")

\* A sender that is done after sending a single file closes the connection
\* after the receiver has ended that file: the last message it waits for is
\* the receiver's answer to it.  (With more files it may be the answer to an
\* earlier one, and the last file may still be without its end.)
LastFileAwaited ==
    s = "ok" /\ Cardinality(Sent) = 1 => Sent \subseteq ended

==============================================================================
