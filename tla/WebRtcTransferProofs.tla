----------------------- MODULE WebRtcTransferProofs -----------------------
(***************************************************************************)
(* What TLAPS proves of WebRtcTransfer for every set of files, every       *)
(* number of chunks and PIN tries, and wherever the connection breaks.     *)
(***************************************************************************)
EXTENDS WebRtcTransfer, FiniteSetTheorems, SequenceTheorems, TLAPS

-----------------------------------------------------------------------------
\* The inductive invariant.

\* A side that checks PINs has tries left.
TriesRemain ==
    /\ s \in {"open", "nonce", "token", "ask_pin", "pin_sent", "check_pin"} => s_try < MaxTries
    /\ r \in {"nonce", "token", "check_pin"} => r_try < MaxTries

\* What a message says about the PINs holds.
PinsTold ==
    /\ \A i \in 1 .. Len(to_r) :
         /\ to_r[i].kind = "pin" /\ to_r[i].right => "sender" \in proved
         /\ to_r[i].kind \in {"files", "pin_required_chunks", "too_many_chunks"}
              => (r_pin => "sender" \in proved)
         /\ to_r[i].kind = "files" => (s_pin => "receiver" \in proved)
    /\ \A i \in 1 .. Len(to_s) :
         /\ to_s[i].kind = "pin" /\ to_s[i].right => "receiver" \in proved
         /\ to_s[i].kind = "token_ok" => ~r_pin
         /\ to_s[i].kind = "pin_ok" => "sender" \in proved
    /\ s = "check_pin" /\ r_pin => "sender" \in proved

\* What may be on its way to a side that waits for the other one.
Short ==
    /\ s \in {"open", "ask_pin"} => to_s = <<>>
    /\ s \in {"nonce", "token", "pin_sent", "check_pin"} => Len(to_s) <= 1
    /\ s = "selection" => Len(to_s) <= 2 /\ (Len(to_s) = 2 => to_s[2].kind = "delimiter")
    /\ s \in {"send", "chunks", "last"} =>
         \A i \in 1 .. Len(to_s) : to_s[i].kind = "response"
    /\ r \in {"ask_pin", "choose"} => to_r = <<>>
    /\ r \in {"nonce", "token", "check_pin"} => Len(to_r) <= 1
    /\ r \in {"list", "pin_sent"} => Len(to_r) <= 2 /\ (Len(to_r) = 2 => to_r[2].kind = "delimiter")

IfAny(q, kind) == q # <<>> => q[1].kind = kind

\* Where the receiver can be while the connection is up, for every point of
\* the sender.
Lockstep ==
    link = "up" =>
      /\ s = "open" => r = "nonce" /\ to_r = <<>>
      /\ s = "nonce" =>
           \/ r = "nonce" /\ to_s = <<>>
           \/ r = "token" /\ to_r = <<>>
      /\ s = "token" =>
           \/ r = "token" /\ to_s = <<>>
           \/ r = "check_pin" /\ to_r = <<>> /\ IfAny(to_s, "token_pin")
           \/ r = "list" /\ to_r = <<>> /\ IfAny(to_s, "token_ok")
           \/ r = "err" /\ to_r = <<>> /\ IfAny(to_s, "token_invalid")
      /\ s = "ask_pin" => r = "check_pin" /\ to_r = <<>>
      /\ s = "pin_sent" =>
           \/ r = "check_pin" /\ (to_r # <<>> => to_s = <<>>) /\ IfAny(to_s, "pin_required")
           \/ r = "list" /\ to_r = <<>> /\ IfAny(to_s, "pin_ok")
           \/ r = "err" /\ to_r = <<>> /\ IfAny(to_s, "too_many")
      /\ s = "check_pin" =>
           \/ r \in {"list", "pin_sent"} /\ to_s = <<>> /\ IfAny(to_r, "pin_required_chunks")
           \/ r = "ask_pin" /\ to_s = <<>>
           \/ r = "pin_sent" /\ to_r = <<>>
           \/ r = "err" /\ to_s = <<>>
      /\ s = "selection" =>
           \/ r \in {"list", "pin_sent"} /\ to_s = <<>> /\ IfAny(to_r, "files")
           \/ r = "choose" /\ to_s = <<>>
           \/ r = "receive" /\ to_r = <<>> /\ IfAny(to_s, "granted")
           \/ r = "ok" /\ IfAny(to_s, "declined")
           \/ r = "err" /\ to_s = <<>>
      /\ s \in {"send", "chunks", "last", "ok"} => r \in {"receive", "result", "drain"} \cup Over
      /\ s = "err" => to_s = <<>>
      /\ s = "err" =>
           \/ r \in {"check_pin", "list", "receive"} /\ to_r = <<>>
           \/ r = "pin_sent" /\ IfAny(to_r, "too_many_chunks")
           \/ r = "err"

\* Files are handed over, sent and received one after the other.

FileOrder ==
    /\ s \in {"open", "nonce", "token", "ask_pin", "pin_sent", "check_pin", "selection"}
         => file_map = {}
    /\ handed # {} => s \in {"send", "chunks", "last"} \cup Over
    /\ s # "chunks" => sending = NoFile
    /\ s = "chunks" => sending \in Sent
    /\ file_state \in Sent \cup {NoFile}
    /\ next_file \in Sent \cup {NoFile}
    /\ next_file # NoFile => next_file # file_state
    /\ ended \subseteq Sent
    /\ r = "receive" => file_state \notin ended
    /\ r = "result" => file_state \in ended /\ next_file \notin ended
    /\ r # "result" => next_file = NoFile
    /\ r \in {"nonce", "token", "check_pin", "list", "ask_pin", "pin_sent", "choose"}
         => file_state = NoFile

\* The content of the files: what was received of a file is a prefix of it.
FilePrefixes ==
    \A f \in File :
      /\ received[f] = [i \in 1 .. Len(received[f]) |-> <<f, i>>]
      /\ f \notin handed => chunks[f] = 0
      /\ f \notin ended \cup {file_state} => received[f] = <<>>

\* An ended file is whole, and is no longer being sent.
EndedWhole == \A f \in ended : Len(received[f]) = chunks[f] /\ f # sending

\* A header is of a file that was handed over and not yet received.
HeadersFresh ==
    \A i \in 1 .. Len(to_r) :
      /\ to_r[i].kind \in {"header", "chunk"} => to_r[i].file \in Sent
      /\ to_r[i].kind = "header" =>
           /\ to_r[i].file \notin ended \cup {file_state, next_file}
           /\ \A j \in 1 .. Len(to_r) :
                to_r[j].kind = "header" /\ to_r[j].file = to_r[i].file => i = j

\* The file the receiver is at once it has read the message before position i,
\* and how many chunks of it have come by then.
Cur == IF r = "result" THEN next_file ELSE file_state

OpenAt(i)  == IF i = 1 THEN Cur ELSE to_r[i - 1].file
CountAt(i) == IF i = 1 THEN Len(received[Cur])
              ELSE IF to_r[i - 1].kind = "chunk" THEN to_r[i - 1].index ELSE 0

Streaming == r \in {"receive", "result"}

\* The stream of headers, chunks and the delimiter.
Stream ==
    Streaming =>
      /\ \A i \in 1 .. Len(to_r) :
           /\ to_r[i].kind \in {"header", "chunk", "delimiter"}
           /\ to_r[i].kind = "chunk" =>
                OpenAt(i) # NoFile /\ to_r[i].file = OpenAt(i) /\ to_r[i].index = CountAt(i) + 1
           /\ to_r[i].kind # "chunk" /\ OpenAt(i) # NoFile =>
                OpenAt(i) # sending /\ chunks[OpenAt(i)] = CountAt(i)
           /\ to_r[i].kind = "delimiter" =>
                /\ i = Len(to_r)
                /\ s \in {"last", "ok"}
                /\ OpenAt(i) # NoFile \/ Sent = {}
      /\ r = "result" /\ next_file = NoFile => to_r = <<>> /\ s \in {"last", "ok"}

\* Where the sender is in the stream.
StreamEnd ==
    Streaming /\ link = "up" /\ s \in {"send", "chunks"} =>
      LET n == Len(to_r) + 1 IN
      /\ OpenAt(n) # NoFile => chunks[OpenAt(n)] = CountAt(n)
      /\ s = "chunks" => OpenAt(n) = sending
      /\ OpenAt(n) = NoFile => Sent = {}

IInv ==
    /\ TypeOK /\ TriesRemain /\ PinsTold /\ PinsComeFirst
    /\ Short /\ Lockstep /\ InStep
    /\ FileOrder /\ FilePrefixes /\ EndedWhole /\ EndedFilesAreWhole /\ HeadersFresh /\ Stream /\ StreamEnd
    /\ LastFileAwaited

-----------------------------------------------------------------------------
\* Messages and queues of messages.

\* The messages the tasks build are messages, of the kind they name.
LEMMA MessageKinds ==
  /\ \A k \in {"nonce", "token", "token_ok", "token_pin", "token_invalid", "pin_ok",
               "pin_required", "too_many", "files", "pin_required_chunks",
               "too_many_chunks", "declined", "delimiter"} :
       Plain(k) \in Message /\ Plain(k).kind = k
  /\ \A b \in BOOLEAN : Pin(b) \in Message /\ Pin(b).kind = "pin" /\ Pin(b).right = b
  /\ \A fs \in SUBSET File :
       Granted(fs) \in Message /\ Granted(fs).kind = "granted" /\ Granted(fs).files = fs
  /\ \A f \in File : Header(f) \in Message /\ Header(f).kind = "header" /\ Header(f).file = f
  /\ \A f \in File, i \in 1 .. Chunks :
       /\ Chunk(f, i) \in Message /\ Chunk(f, i).kind = "chunk"
       /\ Chunk(f, i).file = f /\ Chunk(f, i).index = i
  /\ \A f \in File, ok \in BOOLEAN :
       /\ Response(f, ok) \in Message /\ Response(f, ok).kind = "response"
       /\ Response(f, ok).file = f
<1>1. \A k \in {"nonce", "token", "token_ok", "token_pin", "token_invalid", "pin_ok",
               "pin_required", "too_many", "files", "pin_required_chunks",
               "too_many_chunks", "declined", "delimiter"} :
       Plain(k) \in Message /\ Plain(k).kind = k
  BY DEF Plain, Message
<1>2. \A b \in BOOLEAN : Pin(b) \in Message /\ Pin(b).kind = "pin" /\ Pin(b).right = b
  BY DEF Pin, Message
<1>3. \A fs \in SUBSET File :
       Granted(fs) \in Message /\ Granted(fs).kind = "granted" /\ Granted(fs).files = fs
  BY DEF Granted, Message
<1>4. \A f \in File : Header(f) \in Message /\ Header(f).kind = "header" /\ Header(f).file = f
  BY DEF Header, Message
<1>5. \A f \in File, i \in 1 .. Chunks :
       /\ Chunk(f, i) \in Message /\ Chunk(f, i).kind = "chunk"
       /\ Chunk(f, i).file = f /\ Chunk(f, i).index = i
  BY DEF Chunk, Message
<1>6. \A f \in File, ok \in BOOLEAN :
       /\ Response(f, ok) \in Message /\ Response(f, ok).kind = "response"
       /\ Response(f, ok).file = f
  BY DEF Response, Message
<1>7. QED
  BY <1>1, <1>2, <1>3, <1>4, <1>5, <1>6

\* A message of a kind has the fields of that kind.
LEMMA MessageFields ==
  ASSUME NEW m \in Message
  PROVE  /\ m.kind = "pin" => m.right \in BOOLEAN
         /\ m.kind = "granted" => m.files \subseteq File
         /\ m.kind \in {"header", "chunk", "response"} => m.file \in File
         /\ m.kind = "chunk" => m.index \in 1 .. Chunks
BY DEF Message

\* Reading takes the first n messages off.
LEMMA ReadQueue ==
  ASSUME NEW q \in Seq(Message), NEW n \in 1 .. Len(q)
  PROVE  LET t == SubSeq(q, n + 1, Len(q)) IN
         /\ t \in Seq(Message) /\ Len(t) = Len(q) - n
         /\ \A i \in 1 .. Len(t) : i + n \in 1 .. Len(q) /\ t[i] = q[i + n]
  OBVIOUS

\* Reading one message leaves the tail.
LEMMA TailQueue ==
  ASSUME NEW q \in Seq(Message), q # <<>>
  PROVE  /\ Len(q) >= 1 /\ 1 \in 1 .. Len(q) /\ Head(q) = q[1] /\ Head(q) \in Message
         /\ Tail(q) \in Seq(Message) /\ Len(Tail(q)) = Len(q) - 1
         /\ \A i \in 1 .. Len(Tail(q)) : i + 1 \in 1 .. Len(q) /\ Tail(q)[i] = q[i + 1]
         /\ SubSeq(q, 1 + 1, Len(q)) = Tail(q)
  OBVIOUS

\* Saying appends one message, or a text and its delimiter.
LEMMA SayOne ==
  ASSUME NEW q \in Seq(Message), NEW m \in Message
  PROVE  /\ q \o <<m>> \in Seq(Message) /\ Len(q \o <<m>>) = Len(q) + 1
         /\ \A i \in 1 .. Len(q) : (q \o <<m>>)[i] = q[i]
         /\ (q \o <<m>>)[Len(q) + 1] = m
         /\ Append(q, m) = q \o <<m>>
         /\ <<m>> \in Seq(Message)
  OBVIOUS

LEMMA SayTwo ==
  ASSUME NEW q \in Seq(Message), NEW m \in Message
  PROVE  /\ q \o Chunked(m) \in Seq(Message) /\ Len(q \o Chunked(m)) = Len(q) + 2
         /\ \A i \in 1 .. Len(q) : (q \o Chunked(m))[i] = q[i]
         /\ (q \o Chunked(m))[Len(q) + 1] = m
         /\ (q \o Chunked(m))[Len(q) + 2] = Plain("delimiter")
         /\ Chunked(m) \in Seq(Message)
<1>1. Plain("delimiter") \in Message
  BY MessageKinds
<1>2. Chunked(m) \in Seq(Message) /\ Len(Chunked(m)) = 2 /\ Chunked(m)[1] = m
      /\ Chunked(m)[2] = Plain("delimiter")
  BY <1>1 DEF Chunked
<1> DEFINE c == Chunked(m)
<1> HIDE DEF c
<1>3. c \in Seq(Message) /\ Len(c) = 2 /\ c[1] = m /\ c[2] = Plain("delimiter")
  BY <1>2 DEF c
<1>4. /\ q \o c \in Seq(Message) /\ Len(q \o c) = Len(q) + Len(c)
      /\ \A i \in 1 .. Len(q) + Len(c) :
           (q \o c)[i] = IF i <= Len(q) THEN q[i] ELSE c[i - Len(q)]
  BY <1>3, ConcatProperties
<1>5. Len(q) \in Nat
  OBVIOUS
<1>6. QED
  BY <1>3, <1>4, <1>5 DEF c

\* A broken connection keeps a prefix.
LEMMA CutQueue ==
  ASSUME NEW q \in Seq(Message), NEW n \in 0 .. Len(q)
  PROVE  /\ SubSeq(q, 1, n) \in Seq(Message) /\ Len(SubSeq(q, 1, n)) = n
         /\ \A i \in 1 .. n : SubSeq(q, 1, n)[i] = q[i]
  OBVIOUS

\* A chunked message that is complete is all there is in the queue.
LEMMA ReadChunked ==
  ASSUME NEW q \in Seq(Message), Complete(q), ~IsString(Head(q)),
         Len(q) <= 2, Len(q) = 2 => q[2].kind = "delimiter"
  PROVE  /\ q # <<>> /\ Len(q) = 2 /\ StringAt(q) = 2
         /\ SubSeq(q, StringAt(q) + 1, Len(q)) = <<>>
<1>1. DOMAIN q = 1 .. Len(q) /\ Len(q) \in Nat
  OBVIOUS
<1>2. PICK k \in 1 .. Len(q) : IsString(q[k])
  BY <1>1 DEF Complete
<1>3. q # <<>> /\ k # 1
  BY <1>1, <1>2
<1>4. Len(q) = 2 /\ IsString(q[2]) /\ ~IsString(q[1])
  BY <1>1, <1>2, <1>3
<1>5. \A i \in 1 .. 2 : IsString(q[i]) <=> i = 2
  BY <1>4
<1>6. DOMAIN q = 1 .. 2
  BY <1>1, <1>4
<1>7. \A i \in 1 .. 2 : (IsString(q[i]) /\ \A j \in 1 .. i - 1 : ~IsString(q[j])) <=> i = 2
  BY <1>5
<1>8. FirstString(q) = 2
  BY <1>6, <1>7 DEF FirstString
<1>9. QED
  BY <1>3, <1>4, <1>8 DEF StringAt

-----------------------------------------------------------------------------
\* The steps before the files: each task reads all that is there for it, and
\* speaks into an empty channel.

One(q, kind) == q \in Seq(Message) /\ Len(q) = 1 /\ q[1].kind = kind
Two(q, kind) == q \in Seq(Message) /\ Len(q) = 2 /\ q[1].kind = kind /\ q[2].kind = "delimiter"

\* A plain and a chunked message as queues.
LEMMA OneTwo ==
  ASSUME NEW m \in Message
  PROVE  One(<<m>>, m.kind) /\ Two(Chunked(m), m.kind)
<1>1. One(<<m>>, m.kind)
  BY DEF One
<1>2. Plain("delimiter") \in Message /\ Plain("delimiter").kind = "delimiter"
  BY MessageKinds
<1>3. Two(Chunked(m), m.kind)
  BY <1>2 DEF Two, Chunked
<1>4. QED
  BY <1>1, <1>3

LEMMA PlainOneTwo ==
  ASSUME NEW k \in {"nonce", "token", "token_ok", "token_pin", "token_invalid", "pin_ok",
               "pin_required", "too_many", "files", "pin_required_chunks",
               "too_many_chunks", "declined", "delimiter"}
  PROVE  /\ One(<<Plain(k)>>, k) /\ <<Plain(k)>> \in Seq(Message)
         /\ Two(Chunked(Plain(k)), k) /\ Chunked(Plain(k)) \in Seq(Message)
<1>1. Plain(k) \in Message /\ Plain(k).kind = k
  BY MessageKinds
<1>2. One(<<Plain(k)>>, k) /\ Two(Chunked(Plain(k)), k)
  BY <1>1, OneTwo
<1>3. QED
  BY <1>2 DEF One, Two

\* The sender has read everything and goes to loc, and q is what it says.
SenderStep(loc, q) ==
    /\ to_s' = <<>>
    /\ UNCHANGED <<link, r, s_pin, r_pin, r_try, file_map, handed, sending, chunks, read,
                   file_state, next_file, received, ended, app>>
    /\ \/ link = "up" /\ to_r = <<>> /\ s' = loc /\ to_r' = q
       \/ link # "up" /\ to_r' = to_r /\ s' \in {loc, "err"}

\* The same for the receiver.
ReceiverStep(loc, q) ==
    /\ to_r' = <<>>
    /\ UNCHANGED <<link, s, s_pin, r_pin, s_try, file_map, handed, sending, chunks, read,
                   file_state, next_file, received, ended, app>>
    /\ \/ link = "up" /\ to_s = <<>> /\ r' = loc /\ to_s' = q
       \/ link # "up" /\ to_s' = to_s /\ r' \in {loc, "err"}

\* The head of a channel is its first message.
LEMMA Heads ==
  ASSUME IInv
  PROVE  /\ to_s # <<>> => Head(to_s) = to_s[1] /\ to_s[1] \in Message /\ Len(to_s) >= 1
         /\ to_r # <<>> => Head(to_r) = to_r[1] /\ to_r[1] \in Message /\ Len(to_r) >= 1
  BY DEF IInv, TypeOK

\* A single message is read, and nothing is left.
LEMMA ReadAll ==
  ASSUME NEW q \in Seq(Message), q # <<>>, Len(q) <= 1
  PROVE  Tail(q) = <<>> /\ SubSeq(q, 1 + 1, Len(q)) = <<>>
  OBVIOUS

\* Appending to the empty channel.
LEMMA ConcatEmpty ==
  ASSUME NEW q \in Seq(Message)
  PROVE  <<>> \o q = q
  OBVIOUS

\* SenderSays into an empty channel, or into one that is gone.
LEMMA SenderSaysEmpty ==
  ASSUME NEW loc, NEW q \in Seq(Message), SenderSays(q, loc),
         link = "up" => to_r = <<>>
  PROVE  \/ link = "up" /\ to_r = <<>> /\ s' = loc /\ to_r' = q
         \/ link # "up" /\ to_r' = to_r /\ s' \in {loc, "err"}
  BY ConcatEmpty DEF SenderSays

\* ReceiverSays into an empty channel, or into one that is gone.
LEMMA ReceiverSaysEmpty ==
  ASSUME NEW loc, NEW q \in Seq(Message), ReceiverSays(q, loc),
         link = "up" => to_s = <<>>
  PROVE  \/ link = "up" /\ to_s = <<>> /\ r' = loc /\ to_s' = q
         \/ link # "up" /\ to_s' = to_s /\ r' \in {loc, "err"}
  BY ConcatEmpty DEF ReceiverSays

\* What each action of the sender amounts to: SenderStep and its message.
LEMMA SendNonceStep ==
  ASSUME IInv, SendNonce
  PROVE  \E q : One(q, "nonce") /\ SenderStep("nonce", q)
<1> DEFINE q == <<Plain("nonce")>>
<1>1. q \in Seq(Message) /\ One(q, "nonce")
  BY PlainOneTwo
<1>2. s = "open" /\ SenderSays(q, "nonce")
  BY DEF SendNonce
<1>3. to_s = <<>> /\ (link = "up" => to_r = <<>>)
  BY <1>2 DEF IInv, Short, Lockstep
<1> HIDE DEF q
<1>4. \/ link = "up" /\ to_r = <<>> /\ s' = "nonce" /\ to_r' = q
      \/ link # "up" /\ to_r' = to_r /\ s' \in {"nonce", "err"}
  BY <1>1, <1>2, <1>3, SenderSaysEmpty
<1>5. SenderStep("nonce", q)
  BY <1>3, <1>4 DEF SenderStep, SendNonce, linkVars, pinVars, sendVars, fileVars
<1>6. QED
  BY <1>1, <1>5

LEMMA SendTokenStep ==
  ASSUME IInv, SendToken
  PROVE  \E q : One(q, "token") /\ SenderStep("token", q) /\ (link = "up" => r = "token")
<1> DEFINE q == <<Plain("token")>>
<1>1. q \in Seq(Message) /\ One(q, "token")
  BY PlainOneTwo
<1>2. s = "nonce" /\ to_s # <<>> /\ SenderReads(1) /\ SenderSays(q, "token")
  BY DEF SendToken
<1>3. link = "up" => r = "token" /\ to_r = <<>>
  BY <1>2 DEF IInv, Lockstep
<1>4. to_s' = <<>> /\ link' = link
  BY <1>2, ReadAll DEF SenderReads, IInv, TypeOK, Short
<1> HIDE DEF q
<1>5. \/ link = "up" /\ to_r = <<>> /\ s' = "token" /\ to_r' = q
      \/ link # "up" /\ to_r' = to_r /\ s' \in {"token", "err"}
  BY <1>1, <1>2, <1>3, SenderSaysEmpty
<1>6. SenderStep("token", q)
  BY <1>4, <1>5 DEF SenderStep, SendToken, pinVars, sendVars, fileVars
<1>7. QED
  BY <1>1, <1>3, <1>6

\* After the receiver's PIN: the sender's own challenge, or the file list.
Continues(q) ==
    \/ s_pin /\ Two(q, "pin_required_chunks") /\ SenderStep("check_pin", q)
    \/ ~s_pin /\ Two(q, "files") /\ SenderStep("selection", q)

LEMMA ContinueToListStep ==
  ASSUME IInv, ContinueToList, to_s' = <<>>, link = "up" => to_r = <<>>,
         UNCHANGED <<link, r, pinVars, sendVars, fileVars>>
  PROVE  \E q : Continues(q)
<1>1. CASE s_pin
  <2> DEFINE q == Chunked(Plain("pin_required_chunks"))
  <2>1. Two(q, "pin_required_chunks") /\ q \in Seq(Message)
    BY PlainOneTwo
  <2>2. SenderSays(q, "check_pin")
    BY <1>1 DEF ContinueToList
  <2> HIDE DEF q
  <2>3. \/ link = "up" /\ to_r = <<>> /\ s' = "check_pin" /\ to_r' = q
        \/ link # "up" /\ to_r' = to_r /\ s' \in {"check_pin", "err"}
    BY <2>1, <2>2, SenderSaysEmpty
  <2>4. SenderStep("check_pin", q)
    BY <2>3 DEF SenderStep, pinVars, sendVars, fileVars
  <2>5. QED
    BY <1>1, <2>1, <2>4 DEF Continues
<1>2. CASE ~s_pin
  <2> DEFINE q == Chunked(Plain("files"))
  <2>1. Two(q, "files") /\ q \in Seq(Message)
    BY PlainOneTwo
  <2>2. SenderSays(q, "selection")
    BY <1>2 DEF ContinueToList
  <2> HIDE DEF q
  <2>3. \/ link = "up" /\ to_r = <<>> /\ s' = "selection" /\ to_r' = q
        \/ link # "up" /\ to_r' = to_r /\ s' \in {"selection", "err"}
    BY <2>1, <2>2, SenderSaysEmpty
  <2>4. SenderStep("selection", q)
    BY <2>3 DEF SenderStep, pinVars, sendVars, fileVars
  <2>5. QED
    BY <1>2, <2>1, <2>4 DEF Continues
<1>3. QED
  BY <1>1, <1>2

\* A step of the sender without a message.
LEMMA SilentSenderStep ==
  ASSUME NEW loc, s' = loc, to_s' = <<>>, to_r' = to_r, link = "up" => to_r = <<>>,
         link \in {"up", "closed"},
         UNCHANGED <<link, r, s_pin, r_pin, r_try, sendVars, fileVars>>
  PROVE  SenderStep(loc, <<>>)
  BY DEF SenderStep, sendVars, fileVars

LEMMA TokenResponseStep ==
  ASSUME IInv, ReceiveTokenResponse
  PROVE  \/ SenderStep("err", <<>>) /\ (link = "up" => r \in {"check_pin", "list", "err"})
         \/ /\ to_s # <<>> /\ to_s[1].kind = "token_ok" /\ (link = "up" => r = "list")
            /\ \E q : Continues(q)
         \/ SenderStep("ask_pin", <<>>) /\ (link = "up" => r = "check_pin")
<1>1. s = "token" /\ to_s # <<>> /\ SenderReads(1)
      /\ UNCHANGED <<r, pinVars, sendVars, fileVars>>
  BY DEF ReceiveTokenResponse
<1>2. to_s' = <<>> /\ link' = link
  BY <1>1, ReadAll DEF SenderReads, IInv, TypeOK, Short
<1>3. link = "up" =>
        /\ to_r = <<>> /\ r \in {"check_pin", "list", "err"}
        /\ to_s[1].kind = "token_ok" => r = "list"
        /\ to_s[1].kind = "token_pin" => r = "check_pin"
  BY <1>1 DEF IInv, Lockstep, IfAny
<1>4. CASE SenderFails
  <2>1. SenderStep("err", <<>>)
    BY <1>1, <1>2, <1>3, <1>4, SilentSenderStep DEF SenderFails, pinVars, IInv, TypeOK
  <2>2. QED
    BY <1>3, <2>1
<1>5. CASE to_s[1].kind = "token_ok" /\ ContinueToList
  BY <1>1, <1>2, <1>3, <1>5, ContinueToListStep
<1>6. CASE to_s[1].kind = "token_pin" /\ SenderAsksForPin
  <2>1. SenderStep("ask_pin", <<>>)
    BY <1>1, <1>2, <1>3, <1>6, SilentSenderStep DEF SenderAsksForPin, pinVars, IInv, TypeOK
  <2>2. QED
    BY <1>3, <1>6, <2>1
<1>7. QED
  BY <1>1, <1>4, <1>5, <1>6, Heads DEF ReceiveTokenResponse

LEMMA PinAnsweredStep ==
  ASSUME IInv, SenderPinAnswered
  PROVE  \/ /\ to_s # <<>> /\ to_s[1].kind = "pin_ok" /\ (link = "up" => r = "list")
            /\ \E q : Continues(q)
         \/ SenderStep("ask_pin", <<>>) /\ (link = "up" => r = "check_pin")
         \/ SenderStep("err", <<>>) /\ (link = "up" => r = "err")
<1>1. s = "pin_sent" /\ to_s # <<>> /\ SenderReads(1)
      /\ UNCHANGED <<r, pinVars, sendVars, fileVars>>
  BY DEF SenderPinAnswered
<1>2. to_s' = <<>> /\ link' = link
  BY <1>1, ReadAll DEF SenderReads, IInv, TypeOK, Short
<1>3. link = "up" =>
        /\ to_r = <<>>
        /\ to_s[1].kind = "pin_ok" => r = "list"
        /\ to_s[1].kind = "pin_required" => r = "check_pin"
        /\ to_s[1].kind = "too_many" => r = "err"
  BY <1>1 DEF IInv, Lockstep, IfAny
<1>4. CASE to_s[1].kind = "pin_ok" /\ ContinueToList
  BY <1>1, <1>2, <1>3, <1>4, ContinueToListStep
<1>5. CASE to_s[1].kind = "pin_required" /\ SenderAsksForPin
  <2>1. SenderStep("ask_pin", <<>>)
    BY <1>1, <1>2, <1>3, <1>5, SilentSenderStep DEF SenderAsksForPin, pinVars, IInv, TypeOK
  <2>2. QED
    BY <1>3, <1>5, <2>1
<1>6. CASE to_s[1].kind = "too_many" /\ s' = "err" /\ UNCHANGED to_r
  <2>1. SenderStep("err", <<>>)
    BY <1>1, <1>2, <1>3, <1>6, SilentSenderStep DEF pinVars, IInv, TypeOK
  <2>2. QED
    BY <1>3, <1>6, <2>1
<1>7. QED
  BY <1>1, <1>4, <1>5, <1>6, Heads DEF SenderPinAnswered

LEMMA ChecksPinStep ==
  ASSUME IInv, SenderChecksPin
  PROVE  /\ link = "up" => r = "pin_sent"
         /\ to_s # <<>> /\ to_s[1].kind = "pin"
         /\ \E q : \/ /\ to_s[1].right
                      /\ Two(q, "files") /\ SenderStep("selection", q)
                   \/ /\ ~to_s[1].right /\ TriesLeft(s_try + 1)
                      /\ Two(q, "pin_required_chunks") /\ SenderStep("check_pin", q)
                   \/ ~to_s[1].right /\ Two(q, "too_many_chunks") /\ SenderStep("err", q)
<1>1. /\ s = "check_pin" /\ to_s # <<>> /\ to_s' = Tail(to_s) /\ Head(to_s).kind = "pin"
      /\ UNCHANGED <<link, r, s_pin, r_pin, r_try, sendVars, fileVars>>
  BY DEF SenderChecksPin
<1>2. to_s' = <<>> /\ Head(to_s) = to_s[1]
  BY <1>1, ReadAll, Heads DEF IInv, TypeOK, Short
<1>3. link = "up" => r = "pin_sent" /\ to_r = <<>>
  BY <1>1 DEF IInv, Lockstep
<1>4. ASSUME NEW k \in {"files", "pin_required_chunks", "too_many_chunks"}, NEW loc,
             SenderSays(Chunked(Plain(k)), loc)
      PROVE  \E q : Two(q, k) /\ SenderStep(loc, q)
  <2> DEFINE q == Chunked(Plain(k))
  <2>1. Two(q, k) /\ q \in Seq(Message)
    BY PlainOneTwo
  <2>2. SenderSays(q, loc)
    BY <1>4
  <2> HIDE DEF q
  <2>3. \/ link = "up" /\ to_r = <<>> /\ s' = loc /\ to_r' = q
        \/ link # "up" /\ to_r' = to_r /\ s' \in {loc, "err"}
    BY <1>3, <2>1, <2>2, SenderSaysEmpty
  <2>4. SenderStep(loc, q)
    BY <1>1, <1>2, <2>3 DEF SenderStep, sendVars, fileVars
  <2>5. QED
    BY <2>1, <2>4
<1>5. CASE to_s[1].right
  <2>1. SenderSays(Chunked(Plain("files")), "selection")
    BY <1>2, <1>5 DEF SenderChecksPin, PinMatches
  <2>2. QED
    BY <1>1, <1>2, <1>3, <1>4, <1>5, <2>1
<1>6. CASE ~to_s[1].right /\ TriesLeft(s_try + 1)
  <2>1. SenderSays(Chunked(Plain("pin_required_chunks")), "check_pin")
    BY <1>2, <1>6 DEF SenderChecksPin, PinMatches
  <2>2. QED
    BY <1>1, <1>2, <1>3, <1>4, <1>6, <2>1
<1>7. CASE ~to_s[1].right /\ ~TriesLeft(s_try + 1)
  <2>1. SenderSays(Chunked(Plain("too_many_chunks")), "err")
    BY <1>2, <1>7 DEF SenderChecksPin, PinMatches
  <2>2. QED
    BY <1>1, <1>2, <1>3, <1>4, <1>7, <2>1
<1>8. QED
  BY <1>5, <1>6, <1>7

-----------------------------------------------------------------------------
\* The same for the receiver.

\* A plain message of the receiver.
LEMMA ReceiverSpeaks ==
  ASSUME NEW k \in {"nonce", "token_ok", "token_pin", "token_invalid", "pin_ok",
                    "pin_required", "too_many"},
         NEW loc, ReceiverSays(<<Plain(k)>>, loc),
         to_r' = <<>>, link = "up" => to_s = <<>>,
         UNCHANGED <<link, s, s_pin, r_pin, s_try, sendVars, fileVars>>
  PROVE  \E q : One(q, k) /\ ReceiverStep(loc, q)
<1> DEFINE q == <<Plain(k)>>
<1>1. One(q, k) /\ q \in Seq(Message)
  BY PlainOneTwo
<1>2. ReceiverSays(q, loc)
  OBVIOUS
<1> HIDE DEF q
<1>3. \/ link = "up" /\ to_s = <<>> /\ r' = loc /\ to_s' = q
      \/ link # "up" /\ to_s' = to_s /\ r' \in {loc, "err"}
  BY <1>1, <1>2, ReceiverSaysEmpty
<1>4. ReceiverStep(loc, q)
  BY <1>3 DEF ReceiverStep, sendVars, fileVars
<1>5. QED
  BY <1>1, <1>4

\* A step of the receiver without a message.
LEMMA SilentReceiverStep ==
  ASSUME NEW loc, r' = loc, to_r' = <<>>, to_s' = to_s, link = "up" => to_s = <<>>,
         link \in {"up", "closed"},
         UNCHANGED <<link, s, s_pin, r_pin, s_try, sendVars, fileVars>>
  PROVE  ReceiverStep(loc, <<>>)
  BY DEF ReceiverStep, sendVars, fileVars

\* What each action of the receiver amounts to.
LEMMA SendNonceBackStep ==
  ASSUME IInv, SendNonceBack
  PROVE  \E q : One(q, "nonce") /\ ReceiverStep("token", q) /\ (link = "up" => s = "nonce")
<1>1. /\ r = "nonce" /\ to_r # <<>> /\ ReceiverReads(1)
      /\ ReceiverSays(<<Plain("nonce")>>, "token")
      /\ UNCHANGED <<s, pinVars, sendVars, fileVars>>
  BY DEF SendNonceBack
<1>2. to_r' = <<>> /\ link' = link
  BY <1>1, ReadAll DEF ReceiverReads, IInv, TypeOK, Short
<1>3. link = "up" => s = "nonce" /\ to_s = <<>>
  BY <1>1 DEF IInv, TypeOK, SenderAt, Lockstep, Over
<1>4. \E q : One(q, "nonce") /\ ReceiverStep("token", q)
  BY <1>1, <1>2, <1>3, ReceiverSpeaks DEF pinVars
<1>5. QED
  BY <1>3, <1>4

LEMMA AnswerTokenStep ==
  ASSUME IInv, AnswerToken
  PROVE  /\ link = "up" => s = "token"
         /\ \E q : \/ One(q, "token_invalid") /\ ReceiverStep("err", q)
                   \/ One(q, "token_pin") /\ ReceiverStep("check_pin", q)
                   \/ ~r_pin /\ One(q, "token_ok") /\ ReceiverStep("list", q)
<1>1. /\ r = "token" /\ to_r # <<>> /\ to_r' = Tail(to_r)
      /\ UNCHANGED <<s, link, pinVars, sendVars, fileVars>>
  BY DEF AnswerToken
<1>2. to_r' = <<>>
  BY <1>1, ReadAll DEF IInv, TypeOK, Short
<1>3. link = "up" => s = "token" /\ to_s = <<>>
  BY <1>1 DEF IInv, TypeOK, SenderAt, Lockstep, Over
<1>4. CASE ReceiverSays(<<Plain("token_invalid")>>, "err")
  <2>1. \E q : One(q, "token_invalid") /\ ReceiverStep("err", q)
    BY <1>1, <1>2, <1>3, <1>4, ReceiverSpeaks DEF pinVars
  <2>2. QED
    BY <1>3, <2>1
<1>5. CASE ReceiverSays(<<Plain("token_pin")>>, "check_pin")
  <2>1. \E q : One(q, "token_pin") /\ ReceiverStep("check_pin", q)
    BY <1>1, <1>2, <1>3, <1>5, ReceiverSpeaks DEF pinVars
  <2>2. QED
    BY <1>3, <2>1
<1>6. CASE ~r_pin /\ ReceiverSays(<<Plain("token_ok")>>, "list")
  <2>1. \E q : One(q, "token_ok") /\ ReceiverStep("list", q)
    BY <1>1, <1>2, <1>3, <1>6, ReceiverSpeaks DEF pinVars
  <2>2. QED
    BY <1>3, <1>6, <2>1
<1>7. QED
  BY <1>4, <1>5, <1>6 DEF AnswerToken

LEMMA ReceiverChecksPinStep ==
  ASSUME IInv, ReceiverChecksPin
  PROVE  /\ link = "up" => s = "pin_sent"
         /\ to_r # <<>> /\ to_r[1].kind = "pin"
         /\ \E q : \/ /\ to_r[1].right
                      /\ One(q, "pin_ok") /\ ReceiverStep("list", q)
                   \/ /\ ~to_r[1].right /\ TriesLeft(r_try + 1)
                      /\ One(q, "pin_required") /\ ReceiverStep("check_pin", q)
                   \/ ~to_r[1].right /\ One(q, "too_many") /\ ReceiverStep("err", q)
<1>1. /\ r = "check_pin" /\ to_r # <<>> /\ to_r' = Tail(to_r) /\ Head(to_r).kind = "pin"
      /\ UNCHANGED <<s, link, s_pin, r_pin, s_try, sendVars, fileVars>>
  BY DEF ReceiverChecksPin
<1>2. to_r' = <<>> /\ Head(to_r) = to_r[1]
  BY <1>1, ReadAll, Heads DEF IInv, TypeOK, Short
<1>3. link = "up" => s = "pin_sent" /\ to_s = <<>>
  BY <1>1 DEF IInv, TypeOK, SenderAt, Lockstep, Over
<1>4. CASE to_r[1].right
  <2>1. ReceiverSays(<<Plain("pin_ok")>>, "list")
    BY <1>2, <1>4 DEF ReceiverChecksPin, PinMatches
  <2>2. \E q : One(q, "pin_ok") /\ ReceiverStep("list", q)
    BY <1>1, <1>2, <1>3, <2>1, ReceiverSpeaks
  <2>3. QED
    BY <1>1, <1>2, <1>3, <1>4, <2>2
<1>5. CASE ~to_r[1].right /\ TriesLeft(r_try + 1)
  <2>1. ReceiverSays(<<Plain("pin_required")>>, "check_pin")
    BY <1>2, <1>5 DEF ReceiverChecksPin, PinMatches
  <2>2. \E q : One(q, "pin_required") /\ ReceiverStep("check_pin", q)
    BY <1>1, <1>2, <1>3, <2>1, ReceiverSpeaks
  <2>3. QED
    BY <1>1, <1>2, <1>3, <1>5, <2>2
<1>6. CASE ~to_r[1].right /\ ~TriesLeft(r_try + 1)
  <2>1. ReceiverSays(<<Plain("too_many")>>, "err")
    BY <1>2, <1>6 DEF ReceiverChecksPin, PinMatches
  <2>2. \E q : One(q, "too_many") /\ ReceiverStep("err", q)
    BY <1>1, <1>2, <1>3, <2>1, ReceiverSpeaks
  <2>3. QED
    BY <1>1, <1>2, <1>3, <1>6, <2>2
<1>7. QED
  BY <1>4, <1>5, <1>6

LEMMA ReadPinStatusStep ==
  ASSUME IInv, ReadPinStatus
  PROVE  /\ r \in {"list", "pin_sent"} /\ Len(to_r) = 2 /\ UNCHANGED to_s
         /\ \/ /\ to_r[1].kind = "files" /\ (link = "up" => s = "selection")
               /\ \E loc \in {"choose", "err"} : ReceiverStep(loc, <<>>)
            \/ /\ to_r[1].kind = "pin_required_chunks" /\ (link = "up" => s = "check_pin")
               /\ ReceiverStep("ask_pin", <<>>)
            \/ /\ to_r[1].kind = "too_many_chunks" /\ (link = "up" => s = "err")
               /\ ReceiverStep("err", <<>>)
<1>1. /\ r \in {"list", "pin_sent"} /\ Complete(to_r) /\ ~IsString(Head(to_r))
      /\ ReceiverReads(StringAt(to_r))
      /\ UNCHANGED <<s, to_s, pinVars, sendVars, fileVars>>
  BY DEF ReadPinStatus
<1>2. to_r \in Seq(Message) /\ Len(to_r) <= 2 /\ (Len(to_r) = 2 => to_r[2].kind = "delimiter")
  BY <1>1 DEF IInv, TypeOK, Short
<1>3. to_r # <<>> /\ Len(to_r) = 2 /\ SubSeq(to_r, StringAt(to_r) + 1, Len(to_r)) = <<>>
  BY <1>1, <1>2, ReadChunked
<1>4. to_r' = <<>> /\ link' = link /\ Head(to_r) = to_r[1]
  BY <1>1, <1>3, Heads DEF ReceiverReads
<1>5. link = "up" /\ to_r[1].kind = "files" => s = "selection" /\ to_s = <<>>
  BY <1>1, <1>3 DEF IInv, TypeOK, SenderAt, Lockstep, Over, IfAny
<1>6. link = "up" /\ to_r[1].kind = "pin_required_chunks" => s = "check_pin" /\ to_s = <<>>
  BY <1>1, <1>3 DEF IInv, TypeOK, SenderAt, Lockstep, Over, IfAny
<1>7. link = "up" /\ to_r[1].kind = "too_many_chunks" => s = "err" /\ to_s = <<>>
  BY <1>1, <1>3 DEF IInv, TypeOK, SenderAt, Lockstep, Over, IfAny
<1>8. link \in {"up", "closed"}
  BY DEF IInv, TypeOK
<1>9. CASE to_r[1].kind = "files" /\ r' \in {"choose", "err"}
  BY <1>1, <1>3, <1>4, <1>5, <1>8, <1>9, SilentReceiverStep DEF pinVars
<1>10. CASE to_r[1].kind = "pin_required_chunks" /\ r' = "ask_pin"
  BY <1>1, <1>3, <1>4, <1>6, <1>8, <1>10, SilentReceiverStep DEF pinVars
<1>11. CASE to_r[1].kind = "too_many_chunks" /\ r' = "err"
  BY <1>1, <1>3, <1>4, <1>7, <1>8, <1>11, SilentReceiverStep DEF pinVars
<1>12. QED
  BY <1>4, <1>9, <1>10, <1>11 DEF ReadPinStatus

LEMMA ChooseStep ==
  ASSUME IInv, Choose
  PROVE  /\ r = "choose" /\ (link = "up" => s = "selection")
         /\ \E q : \/ Two(q, "granted") /\ ReceiverStep("receive", q)
                   \/ Two(q, "declined") /\ ReceiverStep("ok", q)
                   \/ q = <<>> /\ ReceiverStep("ok", q)
<1>1. r = "choose" /\ UNCHANGED <<s, to_r, link, pinVars, sendVars, fileVars>>
  BY DEF Choose, linkVars
<1>2. to_r' = <<>> /\ (link = "up" => s = "selection" /\ to_s = <<>>)
  BY <1>1 DEF IInv, TypeOK, SenderAt, Short, Lockstep, Over
<1>3. ASSUME NEW m \in Message, NEW loc, ReceiverSays(Chunked(m), loc)
      PROVE  \E q : Two(q, m.kind) /\ ReceiverStep(loc, q)
  <2> DEFINE q == Chunked(m)
  <2>1. Two(q, m.kind) /\ q \in Seq(Message)
    BY OneTwo DEF Two
  <2>2. ReceiverSays(q, loc)
    BY <1>3
  <2> HIDE DEF q
  <2>3. \/ link = "up" /\ to_s = <<>> /\ r' = loc /\ to_s' = q
        \/ link # "up" /\ to_s' = to_s /\ r' \in {loc, "err"}
    BY <1>2, <2>1, <2>2, ReceiverSaysEmpty
  <2>4. ReceiverStep(loc, q)
    BY <1>1, <1>2, <2>3 DEF ReceiverStep, pinVars, sendVars, fileVars
  <2>5. QED
    BY <2>1, <2>4
<1>4. ASSUME NEW fs \in SUBSET File, ReceiverSays(Chunked(Granted(fs)), "receive")
      PROVE  \E q : Two(q, "granted") /\ ReceiverStep("receive", q)
  <2>1. Granted(fs) \in Message /\ Granted(fs).kind = "granted"
    BY MessageKinds
  <2>2. QED
    BY <1>3, <1>4, <2>1
<1>5. ASSUME ReceiverSays(Chunked(Plain("declined")), "ok")
      PROVE  \E q : Two(q, "declined") /\ ReceiverStep("ok", q)
  <2>1. Plain("declined") \in Message /\ Plain("declined").kind = "declined"
    BY MessageKinds
  <2>2. QED
    BY <1>3, <1>5, <2>1
<1>6. ASSUME r' = "ok", UNCHANGED to_s
      PROVE  ReceiverStep("ok", <<>>)
  BY <1>1, <1>2, <1>6, SilentReceiverStep DEF pinVars, IInv, TypeOK
<1>7. QED
  BY <1>1, <1>2, <1>4, <1>5, <1>6 DEF Choose

-----------------------------------------------------------------------------
\* Every step before the files keeps the two sides together.

\* Where the sender may go with which message, and where the receiver is then.
SenderMove(loc, q) ==
    \/ loc = "nonce" /\ One(q, "nonce") /\ r = "nonce"
    \/ loc = "token" /\ One(q, "token") /\ r = "token"
    \/ loc = "check_pin" /\ Two(q, "pin_required_chunks") /\ r \in {"list", "pin_sent"}
    \/ loc = "selection" /\ Two(q, "files") /\ r \in {"list", "pin_sent"}
    \/ loc = "ask_pin" /\ q = <<>> /\ r = "check_pin"
    \/ loc = "pin_sent" /\ One(q, "pin") /\ r = "check_pin"
    \/ loc = "err" /\ q = <<>> /\ r \in {"check_pin", "list", "err"}
    \/ loc = "err" /\ Two(q, "too_many_chunks") /\ r = "pin_sent"

\* Where the receiver may go with which message, and where the sender is then.
ReceiverMove(loc, q) ==
    \/ loc = "token" /\ One(q, "nonce") /\ s = "nonce"
    \/ loc = "err" /\ One(q, "token_invalid") /\ s = "token"
    \/ loc = "check_pin" /\ One(q, "token_pin") /\ s = "token"
    \/ loc = "list" /\ One(q, "token_ok") /\ s = "token"
    \/ loc = "list" /\ One(q, "pin_ok") /\ s = "pin_sent"
    \/ loc = "check_pin" /\ One(q, "pin_required") /\ s = "pin_sent"
    \/ loc = "err" /\ One(q, "too_many") /\ s = "pin_sent"
    \/ loc = "choose" /\ q = <<>> /\ s = "selection"
    \/ loc = "ask_pin" /\ q = <<>> /\ s = "check_pin"
    \/ loc = "err" /\ q = <<>> /\ s \in {"check_pin", "selection", "err"}
    \/ loc = "pin_sent" /\ One(q, "pin") /\ s = "check_pin"
    \/ loc = "receive" /\ Two(q, "granted") /\ s = "selection"
    \/ loc = "ok" /\ Two(q, "declined") /\ s = "selection"
    \/ loc = "ok" /\ q = <<>> /\ s = "selection"

\* The length and the kinds of such queues.
LEMMA QueueFacts ==
  ASSUME NEW q, NEW kind
  PROVE  /\ One(q, kind) => q # <<>> /\ Len(q) = 1 /\ Head(q) = q[1] /\ q[1].kind = kind
         /\ Two(q, kind) => /\ q # <<>> /\ Len(q) = 2 /\ Head(q) = q[1] /\ q[1].kind = kind
                            /\ q[2].kind = "delimiter"
         /\ Len(<<>>) = 0
  BY DEF One, Two

\* A step of the sender keeps Short, Lockstep and InStep.
LEMMA SenderTogether ==
  ASSUME IInv, NEW loc, NEW q, SenderStep(loc, q),
         link = "up" => SenderMove(loc, q) \/ (loc = "err" /\ q = <<>> /\ r = "receive")
  PROVE  Short' /\ Lockstep' /\ InStep'
<1>1. Short /\ InStep
  BY DEF IInv
<1>2. /\ to_s' = <<>> /\ Len(to_s') = 0
      /\ UNCHANGED <<link, r, file_state>> /\ Sent' = Sent
  BY DEF SenderStep, Sent
<1>3. CASE link # "up"
  <2>1. to_r' = to_r
    BY <1>3 DEF SenderStep
  <2>2. Short'
    BY <1>1, <1>2, <2>1 DEF Short
  <2>3. InStep'
    BY <1>1, <1>2, <2>1 DEF InStep
  <2>4. Lockstep'
    BY <1>2, <1>3 DEF Lockstep
  <2>5. QED
    BY <2>2, <2>3, <2>4
<1>4. CASE link = "up"
  <2>1. s' = loc /\ to_r' = q
    BY <1>4 DEF SenderStep
  <2>2. CASE SenderMove(loc, q)
    <3>1. Short'
      <4>1. /\ r \notin {"ask_pin", "choose"}
            /\ \/ q = <<>>
               \/ Len(q) = 1
               \/ r \in {"list", "pin_sent"} /\ Len(q) = 2 /\ q[2].kind = "delimiter"
        BY <2>2 DEF SenderMove, One, Two
      <4>2. r' \notin {"ask_pin", "choose"} /\ \A i \in 1 .. Len(to_s') : FALSE
        BY <1>2, <4>1
      <4>3. CASE q = <<>>
        <5>1. Len(to_r') = 0
          BY <2>1, <4>3
        <5>2. QED
          BY <1>2, <4>2, <5>1 DEF Short
      <4>4. CASE Len(q) = 1
        BY <1>2, <2>1, <4>2, <4>4 DEF Short
      <4>5. CASE r \in {"list", "pin_sent"} /\ Len(q) = 2 /\ q[2].kind = "delimiter"
        BY <1>2, <2>1, <4>5 DEF Short
      <4>6. QED
        BY <4>1, <4>3, <4>4, <4>5
    <3>2. InStep'
      <4>1. r # "receive"
        BY <2>2 DEF SenderMove
      <4>2. r' \in DOMAIN ReceiverParses /\ q # <<>> => Head(q).kind \in ReceiverParses[r']
        BY <1>2, <2>2, QueueFacts DEF SenderMove, ReceiverParses
      <4>3. /\ r' = "list" /\ q # <<>> => Head(q).kind \in {"files", "pin_required_chunks"}
            /\ r' = "pin_sent" /\ q # <<>> =>
                 Head(q).kind \in {"files", "pin_required_chunks", "too_many_chunks"}
        BY <1>2, <2>2, QueueFacts DEF SenderMove
      <4>4. QED
        BY <1>2, <2>1, <4>1, <4>2, <4>3 DEF InStep
    <3>3. Lockstep'
      BY <1>2, <2>1, <2>2, QueueFacts DEF Lockstep, SenderMove, IfAny, Over
    <3>4. QED
      BY <3>1, <3>2, <3>3
  <2>3. CASE loc = "err" /\ q = <<>> /\ r = "receive"
    BY <1>2, <2>1, <2>3 DEF Short, InStep, Lockstep, SenderParses, ReceiverParses, Over
  <2>4. QED
    BY <1>4, <2>2, <2>3
<1>5. QED
  BY <1>3, <1>4

\* A step of the receiver keeps Short, Lockstep and InStep.
LEMMA ReceiverTogether ==
  ASSUME IInv, NEW loc, NEW q, ReceiverStep(loc, q), link = "up" => ReceiverMove(loc, q)
  PROVE  Short' /\ Lockstep' /\ InStep'
<1>1. Short /\ InStep
  BY DEF IInv
<1>2. /\ to_r' = <<>> /\ Len(to_r') = 0
      /\ UNCHANGED <<link, s, file_state>> /\ Sent' = Sent
  BY DEF ReceiverStep, Sent
<1>3. CASE link # "up"
  <2>1. to_s' = to_s
    BY <1>3 DEF ReceiverStep
  <2>2. Short'
    BY <1>1, <1>2, <2>1 DEF Short
  <2>3. InStep'
    BY <1>1, <1>2, <2>1 DEF InStep
  <2>4. Lockstep'
    BY <1>2, <1>3 DEF Lockstep
  <2>5. QED
    BY <2>2, <2>3, <2>4
<1>4. CASE link = "up"
  <2>1. r' = loc /\ to_s' = q
    BY <1>4 DEF ReceiverStep
  <2>2. ReceiverMove(loc, q)
    BY <1>4
  <2>3. Short'
    <3>1. /\ s \in {"nonce", "token", "pin_sent", "check_pin", "selection", "err"}
          /\ s # "selection" => Len(q) <= 1
      BY <2>2, QueueFacts DEF ReceiverMove
    <3>2. s = "selection" => Len(q) <= 2 /\ (Len(q) = 2 => q[2].kind = "delimiter")
      <4>1. s = "selection" => q = <<>> \/ Two(q, "granted") \/ Two(q, "declined")
        BY <2>2 DEF ReceiverMove
      <4>2. Two(q, "granted") => Len(q) = 2 /\ q[2].kind = "delimiter"
        BY DEF Two
      <4>3. Two(q, "declined") => Len(q) = 2 /\ q[2].kind = "delimiter"
        BY DEF Two
      <4>4. CASE q = <<>>
        BY <4>4
      <4>5. CASE Len(q) = 2 /\ q[2].kind = "delimiter"
        BY <4>5
      <4>6. QED
        BY <4>1, <4>2, <4>3, <4>4, <4>5, Zenon
    <3>3. QED
      BY <1>2, <2>1, <3>1, <3>2 DEF Short
  <2>4. InStep'
    BY <1>2, <2>1, <2>2, QueueFacts DEF InStep, ReceiverMove, SenderParses
  <2>5. Lockstep'
    BY <1>2, <2>1, <2>2, QueueFacts DEF Lockstep, ReceiverMove, IfAny, Over
  <2>6. QED
    BY <2>3, <2>4, <2>5
<1>5. QED
  BY <1>3, <1>4

-----------------------------------------------------------------------------
\* The PINs.

Late     == {"selection", "send", "chunks", "last"}
LateRead == {"choose", "receive", "result", "drain"}

BothProved ==
    /\ s_pin => "receiver" \in proved
    /\ r_pin => "sender" \in proved

\* A step that says nothing about PINs and goes past no challenge.
LEMMA PinsKept ==
  ASSUME IInv, UNCHANGED <<s_pin, r_pin, proved>>,
         \A i \in 1 .. Len(to_r') : \/ \E j \in 1 .. Len(to_r) : to_r'[i] = to_r[j]
                                    \/ to_r'[i].kind \in {"header", "chunk", "delimiter"},
         \A i \in 1 .. Len(to_s') : \/ \E j \in 1 .. Len(to_s) : to_s'[i] = to_s[j]
                                    \/ to_s'[i].kind = "response",
         to_r' \in Seq(Message),
         s' = "check_pin" => s = "check_pin",
         s' \in Late => s \in Late,
         r' \in LateRead => r \in LateRead
  PROVE  PinsTold' /\ PinsComeFirst'
<1>1. PinsTold /\ PinsComeFirst /\ to_r \in Seq(Message)
  BY DEF IInv, TypeOK
<1>2. PinsTold'
  BY <1>1 DEF PinsTold
<1>3. PinsComeFirst'
  <2>1. CASE s' \in Late \/ r' \in LateRead
    BY <1>1, <2>1 DEF PinsComeFirst, Late, LateRead
  <2>2. CASE \E i \in DOMAIN to_r' : to_r'[i].kind = "files"
    <3>1. PICK i \in 1 .. Len(to_r') : to_r'[i].kind = "files"
      BY <2>2
    <3>2. PICK j \in 1 .. Len(to_r) : to_r[j].kind = "files"
      BY <3>1
    <3>3. BothProved
      BY <1>1, <3>2 DEF PinsComeFirst, BothProved
    <3>4. QED
      BY <3>3 DEF PinsComeFirst, BothProved
  <2>3. QED
    BY <2>1, <2>2 DEF PinsComeFirst, Late, LateRead
<1>4. QED
  BY <1>2, <1>3

\* A step of the sender before the files.
LEMMA SenderPins ==
  ASSUME IInv, NEW loc, NEW q \in Seq(Message), SenderStep(loc, q),
         proved \subseteq proved',
         \A i \in 1 .. Len(q) :
           /\ q[i].kind = "pin" /\ q[i].right => "sender" \in proved'
           /\ q[i].kind \in {"files", "pin_required_chunks", "too_many_chunks"}
                => (r_pin => "sender" \in proved')
           /\ q[i].kind = "files" => (s_pin => "receiver" \in proved'),
         loc = "check_pin" /\ r_pin => "sender" \in proved',
         loc = "selection" => BothProved,
         loc \notin {"send", "chunks", "last"}
  PROVE  PinsTold' /\ PinsComeFirst'
<1>1. PinsTold /\ PinsComeFirst /\ to_r \in Seq(Message)
  BY DEF IInv, TypeOK
<1>2. to_s' = <<>> /\ Len(to_s') = 0 /\ UNCHANGED <<r, s_pin, r_pin>>
  BY DEF SenderStep
<1>3. s' \in {loc, "err"} /\ (to_r' = q \/ to_r' = to_r)
  BY DEF SenderStep
<1>4. PinsTold'
  BY <1>1, <1>2, <1>3 DEF PinsTold
<1>5. PinsComeFirst'
  <2>1. CASE s' \in Late
    <3>1. BothProved
      BY <1>3, <2>1 DEF Late
    <3>2. QED
      BY <1>2, <3>1 DEF PinsComeFirst, BothProved
  <2>2. CASE r' \in LateRead
    BY <1>1, <1>2, <2>2 DEF PinsComeFirst, LateRead
  <2>3. CASE \E i \in DOMAIN to_r' : to_r'[i].kind = "files"
    <3>1. PICK i \in 1 .. Len(to_r') : to_r'[i].kind = "files"
      BY <1>1, <1>3, <2>3
    <3>2. /\ s_pin' => "receiver" \in proved'
          /\ r_pin' => "sender" \in proved'
      BY <1>2, <1>4, <3>1 DEF PinsTold
    <3>3. QED
      BY <3>2 DEF PinsComeFirst
  <2>4. QED
    BY <2>1, <2>2, <2>3 DEF PinsComeFirst, Late, LateRead
<1>6. QED
  BY <1>4, <1>5

\* A step of the receiver before the files.
LEMMA ReceiverPins ==
  ASSUME IInv, NEW loc, NEW q \in Seq(Message), ReceiverStep(loc, q),
         proved \subseteq proved',
         \A i \in 1 .. Len(q) :
           /\ q[i].kind = "pin" /\ q[i].right => "receiver" \in proved'
           /\ q[i].kind = "token_ok" => ~r_pin
           /\ q[i].kind = "pin_ok" => "sender" \in proved',
         loc \in LateRead => BothProved
  PROVE  PinsTold' /\ PinsComeFirst'
<1>1. PinsTold /\ PinsComeFirst /\ to_r \in Seq(Message)
  BY DEF IInv, TypeOK
<1>2. to_r' = <<>> /\ Len(to_r') = 0 /\ UNCHANGED <<s, s_pin, r_pin>>
  BY DEF ReceiverStep
<1>3. r' \in {loc, "err"} /\ (to_s' = q \/ to_s' = to_s)
  BY DEF ReceiverStep
<1>4. PinsTold'
  BY <1>1, <1>2, <1>3 DEF PinsTold
<1>5. PinsComeFirst'
  <2>1. CASE r' \in LateRead
    <3>1. BothProved
      BY <1>3, <2>1 DEF LateRead
    <3>2. QED
      BY <1>2, <3>1 DEF PinsComeFirst, BothProved
  <2>2. CASE s' \in Late
    BY <1>1, <1>2, <2>2 DEF PinsComeFirst, Late
  <2>3. ~ \E i \in DOMAIN to_r' : to_r'[i].kind = "files"
    BY <1>2
  <2>4. QED
    BY <2>1, <2>2, <2>3 DEF PinsComeFirst, Late, LateRead
<1>6. QED
  BY <1>4, <1>5

\* One and two messages.
LEMMA AllMessages ==
  ASSUME NEW q, NEW kind
  PROVE  /\ One(q, kind) => q \in Seq(Message) /\ \A i \in 1 .. Len(q) : i = 1 /\ q[i].kind = kind
         /\ Two(q, kind) => /\ q \in Seq(Message)
                            /\ \A i \in 1 .. Len(q) : q[i].kind \in {kind, "delimiter"}
         /\ <<>> \in Seq(Message) /\ \A i \in 1 .. Len(<<>>) : FALSE
  BY DEF One, Two

-----------------------------------------------------------------------------
\* The files, over the steps that do not touch them.

Files ==
    /\ FileOrder /\ FilePrefixes /\ EndedWhole /\ EndedFilesAreWhole
    /\ HeadersFresh /\ Stream /\ StreamEnd /\ LastFileAwaited

EarlySender   == {"open", "nonce", "token", "ask_pin", "pin_sent", "check_pin"}
EarlyReceiver == {"nonce", "token", "check_pin", "list", "ask_pin", "pin_sent", "choose"}

\* A step of the sender before it sends leaves the files alone.
LEMMA SenderFiles ==
  ASSUME IInv, NEW loc, NEW q \in Seq(Message), SenderStep(loc, q), s \in EarlySender,
         loc \notin {"send", "chunks", "last", "ok"},
         link = "up" => ~Streaming,
         \A i \in 1 .. Len(q) : q[i].kind \notin {"header", "chunk"}
  PROVE  Files'
<1>1. /\ FileOrder /\ FilePrefixes /\ EndedWhole /\ EndedFilesAreWhole /\ HeadersFresh
      /\ Stream
  BY DEF IInv
<1>2. /\ UNCHANGED <<r, link, file_map, handed, sending, chunks, file_state, next_file,
                     received, ended>>
      /\ to_s' = <<>> /\ s' \in {loc, "err"}
      /\ \/ link = "up" /\ to_r' = q
         \/ link # "up" /\ to_r' = to_r
  BY DEF SenderStep
<1>3. handed = {} /\ file_map = {} /\ sending = NoFile /\ s \notin {"last", "ok"}
  BY <1>1 DEF FileOrder, EarlySender, Over
<1>4. FileOrder'
  <2>1. UNCHANGED Sent
    BY <1>2 DEF Sent
  <2>2. QED
    BY <1>1, <1>2, <1>3, <2>1 DEF FileOrder
<1>5. FilePrefixes' /\ EndedWhole'
  BY <1>1, <1>2 DEF FilePrefixes, EndedWhole
<1>6. EndedFilesAreWhole'
  BY <1>1, <1>2 DEF EndedFilesAreWhole
<1>7. HeadersFresh'
  BY <1>1, <1>2 DEF HeadersFresh, Sent
<1>8. Stream'
  <2>1. CASE link = "up"
    BY <1>2, <2>1 DEF Stream, Streaming
  <2>2. CASE link # "up"
    BY <1>1, <1>2, <1>3, <2>2 DEF Stream, Streaming, OpenAt, CountAt, Cur
  <2>3. QED
    BY <2>1, <2>2
<1>9. StreamEnd' /\ LastFileAwaited'
  BY <1>2 DEF StreamEnd, LastFileAwaited
<1>10. QED
  BY <1>4, <1>5, <1>6, <1>7, <1>8, <1>9 DEF Files

\* A step of the receiver before it receives leaves the files alone.
LEMMA ReceiverFiles ==
  ASSUME IInv, NEW loc, NEW q \in Seq(Message), ReceiverStep(loc, q), r \in EarlyReceiver,
         loc \notin {"result"},
         link = "up" => s \notin {"send", "chunks"},
         \A i \in 1 .. Len(q) : q[i].kind # "response"
  PROVE  Files'
<1>1. /\ FileOrder /\ FilePrefixes /\ EndedWhole /\ EndedFilesAreWhole /\ HeadersFresh
      /\ Stream /\ LastFileAwaited /\ to_s \in Seq(Message) /\ ended \in SUBSET File
  BY DEF IInv, TypeOK
<1>2. /\ UNCHANGED <<s, link, file_map, handed, sending, chunks, file_state, next_file,
                     received, ended>>
      /\ to_r' = <<>> /\ Len(to_r') = 0 /\ r' \in {loc, "err"}
      /\ to_s' = q \/ to_s' = to_s
  BY DEF ReceiverStep
<1>3. file_state = NoFile /\ next_file = NoFile /\ NoFile \notin ended
  BY <1>1, WebRtcAssumption DEF FileOrder, EarlyReceiver
<1>4. FileOrder'
  BY <1>1, <1>2, <1>3 DEF FileOrder, Sent
<1>5. FilePrefixes' /\ EndedWhole'
  BY <1>1, <1>2 DEF FilePrefixes, EndedWhole
<1>6. EndedFilesAreWhole'
  <2>1. \A f \in ended : received[f] = [i \in 1 .. chunks[f] |-> <<f, i>>]
    BY <1>1 DEF EndedFilesAreWhole
  <2>2. \A i \in DOMAIN to_s' : to_s'[i].kind = "response" => to_s'[i].file \in ended
    BY <1>1, <1>2 DEF EndedFilesAreWhole
  <2>3. QED
    BY <1>2, <2>1, <2>2 DEF EndedFilesAreWhole
<1>7. HeadersFresh'
  BY <1>2 DEF HeadersFresh
<1>8. Stream'
  BY <1>2 DEF Stream, Streaming
<1>9. StreamEnd' /\ LastFileAwaited'
  BY <1>1, <1>2 DEF StreamEnd, LastFileAwaited, Sent
<1>10. QED
  BY <1>4, <1>5, <1>6, <1>7, <1>8, <1>9 DEF Files

\* The connection ends, or nothing but the functions around the tasks moves.
LEMMA LinkFiles ==
  ASSUME IInv, UNCHANGED <<s, r, sendVars, fileVars>>,
         to_r' \in Seq(Message), Len(to_r') <= Len(to_r),
         \A i \in 1 .. Len(to_r') : to_r'[i] = to_r[i],
         to_s' \in Seq(Message), Len(to_s') <= Len(to_s),
         \A i \in 1 .. Len(to_s') : to_s'[i] = to_s[i],
         link' # "up" \/ UNCHANGED <<link, to_r>>
  PROVE  Files'
<1>1. /\ FileOrder /\ FilePrefixes /\ EndedWhole /\ EndedFilesAreWhole /\ HeadersFresh
      /\ Stream /\ StreamEnd /\ LastFileAwaited
      /\ to_s \in Seq(Message) /\ to_r \in Seq(Message)
  BY DEF IInv, TypeOK
<1>2. UNCHANGED <<file_map, handed, sending, chunks, file_state, next_file, received, ended>>
  BY DEF sendVars, fileVars
<1>0. /\ Len(to_r) \in Nat /\ Len(to_s) \in Nat /\ Len(to_r') \in Nat /\ Len(to_s') \in Nat
      /\ \A i \in 1 .. Len(to_r') : i \in 1 .. Len(to_r)
      /\ \A i \in 1 .. Len(to_s') : i \in 1 .. Len(to_s)
  BY <1>1
<1>3. FileOrder' /\ FilePrefixes' /\ EndedWhole' /\ LastFileAwaited'
  BY <1>1, <1>2 DEF FileOrder, FilePrefixes, EndedWhole, LastFileAwaited, Sent
<1>4. EndedFilesAreWhole'
  <2>1. \A i \in DOMAIN to_s' : to_s'[i].kind = "response" => to_s'[i].file \in ended
    BY <1>1, <1>0 DEF EndedFilesAreWhole
  <2>2. QED
    BY <1>1, <1>2, <2>1 DEF EndedFilesAreWhole
<1>5. HeadersFresh'
  BY <1>1, <1>2, <1>0 DEF HeadersFresh, Sent
<1>6. Stream'
  <2> SUFFICES ASSUME Streaming' PROVE Stream!2'
    BY DEF Stream
  <2>1. Streaming /\ Cur' = Cur
    BY <1>2 DEF Streaming, Cur
  <2>2. \A i \in 1 .. Len(to_r') : OpenAt(i)' = OpenAt(i) /\ CountAt(i)' = CountAt(i)
    BY <1>2, <1>0, <2>1, SMTT(30) DEF OpenAt, CountAt
  <2>3. Sent' = Sent
    BY <1>2 DEF Sent
  <2>4. QED
    BY <1>1, <1>2, <1>0, <2>1, <2>2, <2>3 DEF Stream
<1>7. StreamEnd'
  BY <1>1, <1>2 DEF StreamEnd, OpenAt, CountAt, Cur, Sent, Streaming
<1>8. QED
  BY <1>3, <1>4, <1>5, <1>6, <1>7 DEF Files

-----------------------------------------------------------------------------
\* The steps of the sender before the files preserve the invariant.

\* The types after a step of the sender before the files.
LEMMA SenderTypes ==
  ASSUME IInv, NEW loc \in SenderAt, NEW q \in Seq(Message), SenderStep(loc, q),
         s_status' \in SUBSET Status, UNCHANGED <<r_status, s_fn, r_fn>>,
         r_acked' \in {r_acked, Len(to_r')}, s_acked' = 0,
         s_try' \in 0 .. MaxTries, proved' \in SUBSET {"sender", "receiver"},
         s' \in EarlySender => s_try' < MaxTries
  PROVE  TypeOK' /\ TriesRemain'
<1>1. TypeOK /\ TriesRemain
  BY DEF IInv
<1>2. /\ UNCHANGED <<r, link, s_pin, r_pin, r_try, file_map, handed, sending, chunks, read,
                     file_state, next_file, received, ended, app>>
      /\ to_s' = <<>>
      /\ s' \in {loc, "err"}
  BY DEF SenderStep
<1>3. to_r' \in Seq(Message) /\ (to_r' = to_r \/ to_r = <<>>)
  BY <1>1 DEF SenderStep, TypeOK
<1>4. r_acked' \in 0 .. Len(to_r')
  BY <1>1, <1>3, SMTT(30) DEF TypeOK
<1>5. to_s' \in Seq(Message) /\ s_acked' \in 0 .. Len(to_s')
  BY <1>2
<1>0. s' \in SenderAt
  BY <1>2 DEF SenderAt, Over
<1>6. TypeOK'
  BY <1>1, <1>2, <1>0, <1>3, <1>4, <1>5, SMTT(60) DEF TypeOK
<1>7. TriesRemain'
  BY <1>1, <1>2 DEF TriesRemain, EarlySender
<1>8. QED
  BY <1>6, <1>7

\* What a sender step before the files has to show.
LEMMA SenderPreserves ==
  ASSUME IInv, NEW loc, NEW q, SenderStep(loc, q), SenderMove(loc, q) \/ link # "up",
         s \in EarlySender, q \in Seq(Message),
         \A i \in 1 .. Len(q) : q[i].kind \notin {"header", "chunk"},
         loc \in {"nonce", "token", "ask_pin", "pin_sent", "check_pin", "selection", "err"},
         TypeOK' /\ TriesRemain', PinsTold' /\ PinsComeFirst'
  PROVE  IInv'
<1>1. Short' /\ Lockstep' /\ InStep'
  BY SenderTogether
<1>2. link = "up" => ~Streaming
  BY DEF SenderMove, Streaming
<1>3. Files'
  BY <1>2, SenderFiles
<1>4. QED
  BY <1>1, <1>3 DEF IInv, Files

\* Nothing of an emptied channel is left to arrive.
LEMMA NothingAcked ==
  ASSUME IInv
  PROVE  /\ to_s = <<>> => s_acked = 0
         /\ Len(to_s) <= 1 => After(1, s_acked) = 0
         /\ to_r = <<>> => r_acked = 0
         /\ Len(to_r) <= 1 => After(1, r_acked) = 0
         /\ Len(to_r) <= 2 => After(2, r_acked) = 0
         /\ Len(to_s) <= 2 => After(2, s_acked) = 0
  BY DEF IInv, TypeOK, After

LEMMA SendNoncePreserves ==
  ASSUME IInv, SendNonce
  PROVE  IInv'
<1>1. PICK q : One(q, "nonce") /\ SenderStep("nonce", q)
  BY SendNonceStep
<1>2. q \in Seq(Message) /\ \A i \in 1 .. Len(q) : q[i].kind = "nonce"
  BY <1>1, AllMessages
<1>3. s = "open" /\ UNCHANGED <<fnVars, s_status, r_status, linkVars, pinVars>>
  BY DEF SendNonce
<1>4. to_s = <<>> /\ (link = "up" => r = "nonce")
  BY <1>3 DEF IInv, Short, Lockstep
<1>5. SenderMove("nonce", q) \/ link # "up"
  BY <1>1, <1>4 DEF SenderMove
<1>6. TypeOK' /\ TriesRemain'
  <2>1. /\ s_acked' = 0 /\ r_acked' = r_acked /\ s_try' \in 0 .. MaxTries /\ s_try' < MaxTries
        /\ s_status' \in SUBSET Status /\ UNCHANGED <<r_status, s_fn, r_fn>>
        /\ proved' \in SUBSET {"sender", "receiver"}
    BY <1>3, <1>4, NothingAcked DEF IInv, TypeOK, TriesRemain, linkVars, pinVars, fnVars
  <2>2. "nonce" \in SenderAt
    BY DEF SenderAt
  <2>3. QED
    BY <1>1, <1>2, <2>1, <2>2, SenderTypes
<1>7. PinsTold' /\ PinsComeFirst'
  BY <1>1, <1>2, <1>3, SenderPins DEF pinVars
<1>8. QED
  BY <1>1, <1>2, <1>3, <1>5, <1>6, <1>7, SenderPreserves DEF EarlySender

LEMMA SendTokenPreserves ==
  ASSUME IInv, SendToken
  PROVE  IInv'
<1>1. PICK q : One(q, "token") /\ SenderStep("token", q) /\ (link = "up" => r = "token")
  BY SendTokenStep
<1>2. q \in Seq(Message) /\ \A i \in 1 .. Len(q) : q[i].kind = "token"
  BY <1>1, AllMessages
<1>3. s = "nonce" /\ SenderReads(1) /\ UNCHANGED <<fnVars, s_status, r_status, pinVars>>
  BY DEF SendToken
<1>4. Len(to_s) <= 1
  BY <1>3 DEF IInv, Short
<1>5. SenderMove("token", q) \/ link # "up"
  BY <1>1 DEF SenderMove
<1>6. TypeOK' /\ TriesRemain'
  <2>1. /\ s_acked' = 0 /\ r_acked' = r_acked /\ s_try' \in 0 .. MaxTries /\ s_try' < MaxTries
        /\ s_status' \in SUBSET Status /\ UNCHANGED <<r_status, s_fn, r_fn>>
        /\ proved' \in SUBSET {"sender", "receiver"}
    BY <1>3, <1>4, NothingAcked DEF IInv, TypeOK, TriesRemain, SenderReads, pinVars, fnVars
  <2>2. "token" \in SenderAt
    BY DEF SenderAt
  <2>3. QED
    BY <1>1, <1>2, <2>1, <2>2, SenderTypes
<1>7. PinsTold' /\ PinsComeFirst'
  BY <1>1, <1>2, <1>3, SenderPins DEF pinVars
<1>8. QED
  BY <1>1, <1>2, <1>3, <1>5, <1>6, <1>7, SenderPreserves DEF EarlySender

\* The receiver is satisfied: the sender asks for a PIN or sends the list.
LEMMA ContinuesPreserves ==
  ASSUME IInv, NEW q, Continues(q), s \in {"token", "pin_sent"}, link = "up" => r = "list",
         UNCHANGED <<proved, r_status, s_fn, r_fn, s_try>>, s_status' \in SUBSET Status,
         r_acked' = r_acked, s_acked' = 0, r_pin => "sender" \in proved
  PROVE  IInv'
<1>1. s_try' \in 0 .. MaxTries /\ s_try' < MaxTries /\ proved' \in SUBSET {"sender", "receiver"}
  BY DEF IInv, TypeOK, TriesRemain
<1>2. CASE s_pin /\ Two(q, "pin_required_chunks") /\ SenderStep("check_pin", q)
  <2>1. q \in Seq(Message) /\ \A i \in 1 .. Len(q) : q[i].kind \in {"pin_required_chunks", "delimiter"}
    BY <1>2, AllMessages
  <2>2. SenderMove("check_pin", q) \/ link # "up"
    BY <1>2 DEF SenderMove
  <2>3. "check_pin" \in SenderAt
    BY DEF SenderAt
  <2>4. TypeOK' /\ TriesRemain'
    BY <1>1, <1>2, <2>1, <2>3, SenderTypes
  <2>5. PinsTold' /\ PinsComeFirst'
    BY <1>2, <2>1, SenderPins
  <2>6. QED
    BY <1>2, <2>1, <2>2, <2>4, <2>5, SenderPreserves DEF EarlySender
<1>3. CASE ~s_pin /\ Two(q, "files") /\ SenderStep("selection", q)
  <2>1. q \in Seq(Message) /\ \A i \in 1 .. Len(q) : q[i].kind \in {"files", "delimiter"}
    BY <1>3, AllMessages
  <2>2. SenderMove("selection", q) \/ link # "up"
    BY <1>3 DEF SenderMove
  <2>3. "selection" \in SenderAt
    BY DEF SenderAt
  <2>4. TypeOK' /\ TriesRemain'
    BY <1>1, <1>3, <2>1, <2>3, SenderTypes
  <2>5. BothProved
    BY <1>3 DEF BothProved
  <2>6. PinsTold' /\ PinsComeFirst'
    BY <1>3, <2>1, <2>5, SenderPins DEF BothProved
  <2>7. QED
    BY <1>3, <2>1, <2>2, <2>4, <2>6, SenderPreserves DEF EarlySender
<1>4. QED
  BY <1>2, <1>3 DEF Continues

\* The sender asks its application for a PIN, or gives up.
LEMMA SilentSenderPreserves ==
  ASSUME IInv, NEW loc \in {"ask_pin", "err"}, SenderStep(loc, <<>>), s \in EarlySender \ {"check_pin"},
         link = "up" => \/ loc = "ask_pin" /\ r = "check_pin"
                        \/ loc = "err" /\ r \in {"check_pin", "list", "err"},
         UNCHANGED <<proved, r_status, s_fn, r_fn, s_try>>, s_status' \in SUBSET Status,
         r_acked' = r_acked, s_acked' = 0
  PROVE  IInv'
<1> DEFINE q == <<>>
<1>1. s_try' \in 0 .. MaxTries /\ s_try' < MaxTries /\ proved' \in SUBSET {"sender", "receiver"}
  BY DEF IInv, TypeOK, TriesRemain, EarlySender
<1>2. q \in Seq(Message) /\ \A i \in 1 .. Len(q) : FALSE
  OBVIOUS
<1>3. SenderMove(loc, q) \/ link # "up"
  BY DEF SenderMove
<1>4. loc \in SenderAt
  BY DEF SenderAt, Over
<1>5. SenderStep(loc, q)
  OBVIOUS
<1> HIDE DEF q
<1>6. TypeOK' /\ TriesRemain'
  BY <1>1, <1>2, <1>4, <1>5, SenderTypes
<1>7. PinsTold' /\ PinsComeFirst'
  BY <1>2, <1>5, SenderPins
<1>8. QED
  BY <1>2, <1>3, <1>5, <1>6, <1>7, SenderPreserves

LEMMA TokenResponsePreserves ==
  ASSUME IInv, ReceiveTokenResponse
  PROVE  IInv'
<1>1. s = "token" /\ SenderReads(1) /\ UNCHANGED <<fnVars, r_status, pinVars>>
  BY DEF ReceiveTokenResponse
<1>2. /\ UNCHANGED <<proved, r_status, s_fn, r_fn, s_try>>
      /\ r_acked' = r_acked /\ s_acked' = 0
  BY <1>1, NothingAcked DEF pinVars, fnVars, SenderReads, IInv, Short
<1>3. s_status' \in SUBSET Status
  BY DEF ReceiveTokenResponse, SenderFails, ContinueToList, SenderAsksForPin, SenderTold,
         Status, IInv, TypeOK
<1>4. CASE SenderStep("err", <<>>) /\ (link = "up" => r \in {"check_pin", "list", "err"})
  BY <1>1, <1>2, <1>3, <1>4, SilentSenderPreserves DEF EarlySender
<1>5. CASE /\ to_s # <<>> /\ to_s[1].kind = "token_ok" /\ (link = "up" => r = "list")
           /\ \E q : Continues(q)
  <2>1. r_pin => "sender" \in proved
    BY <1>5, Heads DEF IInv, PinsTold
  <2>2. QED
    BY <1>1, <1>2, <1>3, <1>5, <2>1, ContinuesPreserves
<1>6. CASE SenderStep("ask_pin", <<>>) /\ (link = "up" => r = "check_pin")
  BY <1>1, <1>2, <1>3, <1>6, SilentSenderPreserves DEF EarlySender
<1>7. QED
  BY <1>4, <1>5, <1>6, TokenResponseStep

LEMMA PinAnsweredPreserves ==
  ASSUME IInv, SenderPinAnswered
  PROVE  IInv'
<1>1. s = "pin_sent" /\ SenderReads(1) /\ UNCHANGED <<fnVars, r_status, pinVars>>
  BY DEF SenderPinAnswered
<1>2. /\ UNCHANGED <<proved, r_status, s_fn, r_fn, s_try>>
      /\ r_acked' = r_acked /\ s_acked' = 0
  BY <1>1, NothingAcked DEF pinVars, fnVars, SenderReads, IInv, Short
<1>3. s_status' \in SUBSET Status
  BY DEF SenderPinAnswered, ContinueToList, SenderAsksForPin, SenderTold, Status, IInv, TypeOK
<1>4. CASE SenderStep("err", <<>>) /\ (link = "up" => r = "err")
  BY <1>1, <1>2, <1>3, <1>4, SilentSenderPreserves DEF EarlySender
<1>5. CASE /\ to_s # <<>> /\ to_s[1].kind = "pin_ok" /\ (link = "up" => r = "list")
           /\ \E q : Continues(q)
  <2>1. r_pin => "sender" \in proved
    BY <1>5, Heads DEF IInv, PinsTold
  <2>2. QED
    BY <1>1, <1>2, <1>3, <1>5, <2>1, ContinuesPreserves
<1>6. CASE SenderStep("ask_pin", <<>>) /\ (link = "up" => r = "check_pin")
  BY <1>1, <1>2, <1>3, <1>6, SilentSenderPreserves DEF EarlySender
<1>7. QED
  BY <1>4, <1>5, <1>6, PinAnsweredStep

LEMMA EntersPinPreserves ==
  ASSUME IInv, SenderEntersPin
  PROVE  IInv'
<1>1. s = "ask_pin" /\ UNCHANGED <<fnVars, r_status, to_s, linkVars, s_try>>
  BY DEF SenderEntersPin
<1>2. /\ UNCHANGED <<r_status, s_fn, r_fn, s_try>>
      /\ r_acked' = r_acked /\ s_acked' = 0
      /\ s_try' \in 0 .. MaxTries /\ s_try' < MaxTries
  BY <1>1, NothingAcked DEF fnVars, linkVars, IInv, TypeOK, Short, TriesRemain
<1>3. s_status' \in SUBSET Status
  BY DEF SenderEntersPin, SenderFails, IInv, TypeOK
<1>4. link = "up" => r = "check_pin"
  BY <1>1 DEF IInv, Lockstep
<1>5. ASSUME NEW right \in BOOLEAN, SenderSays(<<Pin(right)>>, "pin_sent"),
             proved' = IF right THEN proved \cup {"sender"} ELSE proved
      PROVE  IInv'
  <2> DEFINE q == <<Pin(right)>>
  <2>1. One(q, "pin") /\ q \in Seq(Message) /\ q[1].right = right
    BY MessageKinds, OneTwo DEF One
  <2>2. SenderSays(q, "pin_sent") /\ to_s' = <<>>
        /\ UNCHANGED <<link, r, s_pin, r_pin, r_try, sendVars, fileVars>>
    BY <1>1, <1>5 DEF SenderEntersPin, linkVars, IInv, Short
  <2>3. link = "up" => to_r = <<>>
    BY <1>1 DEF IInv, Lockstep
  <2> HIDE DEF q
  <2>4. SenderStep("pin_sent", q)
    BY <2>1, <2>2, <2>3, SenderSaysEmpty DEF SenderStep, sendVars, fileVars
  <2>5. \A i \in 1 .. Len(q) : i = 1 /\ q[i].kind = "pin"
    BY <2>1, AllMessages
  <2>6. SenderMove("pin_sent", q) \/ link # "up"
    BY <1>4, <2>1 DEF SenderMove
  <2>7. "pin_sent" \in SenderAt
    BY DEF SenderAt
  <2>8. proved \subseteq proved' /\ proved' \in SUBSET {"sender", "receiver"}
        /\ (right => "sender" \in proved')
    BY <1>5 DEF IInv, TypeOK
  <2>9. TypeOK' /\ TriesRemain'
    BY <1>2, <1>3, <2>1, <2>4, <2>7, <2>8, SenderTypes
  <2>10. PinsTold' /\ PinsComeFirst'
    BY <2>1, <2>4, <2>5, <2>8, SenderPins
  <2>11. QED
    BY <1>1, <2>1, <2>4, <2>5, <2>6, <2>9, <2>10, SenderPreserves DEF EarlySender
<1>6. CASE SenderFails /\ UNCHANGED proved
  <2>1. to_s' = <<>> /\ s' = "err" /\ to_r' = to_r /\ link \in {"up", "closed"}
        /\ UNCHANGED <<link, r, s_pin, r_pin, r_try, sendVars, fileVars>>
    BY <1>1, <1>6 DEF SenderEntersPin, SenderFails, linkVars, IInv, Short, TypeOK
  <2>2. link = "up" => to_r = <<>>
    BY <1>1 DEF IInv, Lockstep
  <2>3. SenderStep("err", <<>>)
    BY <2>1, <2>2, SilentSenderStep
  <2>4. QED
    BY <1>1, <1>2, <1>3, <1>4, <1>6, <2>3, SilentSenderPreserves DEF EarlySender
<1>7. QED
  BY <1>5, <1>6 DEF SenderEntersPin

LEMMA ChecksPinPreserves ==
  ASSUME IInv, SenderChecksPin
  PROVE  IInv'
<1>1. /\ s = "check_pin" /\ s_try' = s_try + 1 /\ s_acked' = After(1, s_acked)
      /\ UNCHANGED <<fnVars, r_status, proved>>
  BY DEF SenderChecksPin
<1>2. /\ UNCHANGED <<proved, r_status, s_fn, r_fn>> /\ s_acked' = 0
      /\ s_try' \in 0 .. MaxTries /\ proved' \in SUBSET {"sender", "receiver"}
  BY <1>1, NothingAcked, WebRtcAssumption DEF fnVars, IInv, TypeOK, Short, TriesRemain
<1>3. s_status' \in SUBSET Status /\ r_acked' \in {r_acked, Len(to_r')}
  BY DEF SenderChecksPin, SenderTold, Status, IInv, TypeOK
<1>4. /\ link = "up" => r = "pin_sent"
      /\ to_s # <<>> /\ to_s[1].kind = "pin"
  BY ChecksPinStep
<1>5. /\ to_s[1].right => "receiver" \in proved
      /\ r_pin => "sender" \in proved
  BY <1>1, <1>4, Heads DEF IInv, PinsTold
<1>6. PICK q : \/ /\ to_s[1].right
                  /\ Two(q, "files") /\ SenderStep("selection", q)
               \/ /\ ~to_s[1].right /\ TriesLeft(s_try + 1)
                  /\ Two(q, "pin_required_chunks") /\ SenderStep("check_pin", q)
               \/ ~to_s[1].right /\ Two(q, "too_many_chunks") /\ SenderStep("err", q)
  BY ChecksPinStep
<1>7. /\ "selection" \in SenderAt /\ "check_pin" \in SenderAt /\ "err" \in SenderAt
      /\ "check_pin" \in EarlySender
  BY DEF SenderAt, Over, EarlySender
<1>8. CASE to_s[1].right /\ Two(q, "files") /\ SenderStep("selection", q)
  <2>1. q \in Seq(Message) /\ \A i \in 1 .. Len(q) : q[i].kind \in {"files", "delimiter"}
    BY <1>8, AllMessages
  <2>2. SenderMove("selection", q) \/ link # "up"
    BY <1>4, <1>8 DEF SenderMove
  <2>3. s' \in {"selection", "err"}
    BY <1>8 DEF SenderStep
  <2>4. TypeOK' /\ TriesRemain'
    BY <1>2, <1>3, <1>7, <1>8, <2>1, <2>3, SenderTypes DEF EarlySender
  <2>5. PinsTold' /\ PinsComeFirst'
    BY <1>2, <1>5, <1>8, <2>1, SenderPins DEF BothProved
  <2>6. QED
    BY <1>1, <1>7, <1>8, <2>1, <2>2, <2>4, <2>5, SenderPreserves
<1>9. CASE /\ TriesLeft(s_try + 1)
           /\ Two(q, "pin_required_chunks") /\ SenderStep("check_pin", q)
  <2>1. q \in Seq(Message) /\ \A i \in 1 .. Len(q) : q[i].kind \in {"pin_required_chunks", "delimiter"}
    BY <1>9, AllMessages
  <2>2. SenderMove("check_pin", q) \/ link # "up"
    BY <1>4, <1>9 DEF SenderMove
  <2>3. s_try' < MaxTries
    BY <1>1, <1>9 DEF TriesLeft
  <2>4. TypeOK' /\ TriesRemain'
    BY <1>2, <1>3, <1>7, <1>9, <2>1, <2>3, SenderTypes
  <2>5. PinsTold' /\ PinsComeFirst'
    BY <1>2, <1>5, <1>9, <2>1, SenderPins
  <2>6. QED
    BY <1>1, <1>7, <1>9, <2>1, <2>2, <2>4, <2>5, SenderPreserves
<1>10. CASE Two(q, "too_many_chunks") /\ SenderStep("err", q)
  <2>1. q \in Seq(Message) /\ \A i \in 1 .. Len(q) : q[i].kind \in {"too_many_chunks", "delimiter"}
    BY <1>10, AllMessages
  <2>2. SenderMove("err", q) \/ link # "up"
    BY <1>4, <1>10 DEF SenderMove
  <2>3. s' \notin EarlySender
    BY <1>10 DEF SenderStep, EarlySender
  <2>4. TypeOK' /\ TriesRemain'
    BY <1>2, <1>3, <1>7, <1>10, <2>1, <2>3, SenderTypes
  <2>5. PinsTold' /\ PinsComeFirst'
    BY <1>2, <1>5, <1>10, <2>1, SenderPins
  <2>6. QED
    BY <1>1, <1>7, <1>10, <2>1, <2>2, <2>4, <2>5, SenderPreserves
<1>11. QED
  BY <1>6, <1>8, <1>9, <1>10

-----------------------------------------------------------------------------
\* The steps of the receiver before the files preserve the invariant.

\* The types after a step of the receiver before the files.
LEMMA ReceiverTypes ==
  ASSUME IInv, NEW loc \in ReceiverAt, NEW q \in Seq(Message), ReceiverStep(loc, q),
         r_status' \in SUBSET Status, UNCHANGED <<s_status, s_fn, r_fn>>,
         s_acked' \in {s_acked, Len(to_s')}, r_acked' = 0,
         r_try' \in 0 .. MaxTries, proved' \in SUBSET {"sender", "receiver"},
         r' \in {"nonce", "token", "check_pin"} => r_try' < MaxTries
  PROVE  TypeOK' /\ TriesRemain'
<1>1. TypeOK /\ TriesRemain
  BY DEF IInv
<1>2. /\ UNCHANGED <<s, link, s_pin, r_pin, s_try, file_map, handed, sending, chunks, read,
                     file_state, next_file, received, ended, app>>
      /\ to_r' = <<>>
      /\ r' \in {loc, "err"}
  BY DEF ReceiverStep
<1>3. to_s' \in Seq(Message) /\ (to_s' = to_s \/ to_s = <<>>)
  BY <1>1 DEF ReceiverStep, TypeOK
<1>4. s_acked' \in 0 .. Len(to_s')
  BY <1>1, <1>3, SMTT(30) DEF TypeOK
<1>5. to_r' \in Seq(Message) /\ r_acked' \in 0 .. Len(to_r')
  BY <1>2
<1>6. r' \in ReceiverAt
  BY <1>2 DEF ReceiverAt, Over
<1>7. TypeOK'
  BY <1>1, <1>2, <1>3, <1>4, <1>5, <1>6, ZenonT(40) DEF TypeOK
<1>8. TriesRemain'
  BY <1>1, <1>2 DEF TriesRemain
<1>9. QED
  BY <1>7, <1>8

\* What a receiver step before the files has to show.
LEMMA ReceiverPreserves ==
  ASSUME IInv, NEW loc, NEW q, ReceiverStep(loc, q), ReceiverMove(loc, q) \/ link # "up",
         r \in EarlyReceiver, q \in Seq(Message),
         \A i \in 1 .. Len(q) : q[i].kind # "response",
         loc # "result",
         TypeOK' /\ TriesRemain', PinsTold' /\ PinsComeFirst'
  PROVE  IInv'
<1>1. Short' /\ Lockstep' /\ InStep'
  BY ReceiverTogether
<1>2. link = "up" => s \notin {"send", "chunks"}
  BY DEF ReceiverMove
<1>3. Files'
  BY <1>2, ReceiverFiles
<1>4. QED
  BY <1>1, <1>3 DEF IInv, Files

LEMMA SendNonceBackPreserves ==
  ASSUME IInv, SendNonceBack
  PROVE  IInv'
<1>1. PICK q : One(q, "nonce") /\ ReceiverStep("token", q) /\ (link = "up" => s = "nonce")
  BY SendNonceBackStep
<1>2. q \in Seq(Message) /\ \A i \in 1 .. Len(q) : q[i].kind = "nonce"
  BY <1>1, AllMessages
<1>3. r = "nonce" /\ ReceiverReads(1) /\ UNCHANGED <<fnVars, s_status, r_status, pinVars>>
  BY DEF SendNonceBack
<1>4. ReceiverMove("token", q) \/ link # "up"
  BY <1>1 DEF ReceiverMove
<1>5. TypeOK' /\ TriesRemain'
  <2>1. /\ r_acked' = 0 /\ s_acked' = s_acked /\ r_try' \in 0 .. MaxTries /\ r_try' < MaxTries
        /\ r_status' \in SUBSET Status /\ UNCHANGED <<s_status, s_fn, r_fn>>
        /\ proved' \in SUBSET {"sender", "receiver"}
    BY <1>3, NothingAcked
    DEF IInv, TypeOK, Short, TriesRemain, ReceiverReads, pinVars, fnVars
  <2>2. "token" \in ReceiverAt
    BY DEF ReceiverAt
  <2>3. QED
    BY <1>1, <1>2, <2>1, <2>2, ReceiverTypes
<1>6. PinsTold' /\ PinsComeFirst'
  BY <1>1, <1>2, <1>3, ReceiverPins DEF pinVars, LateRead
<1>7. QED
  BY <1>1, <1>2, <1>3, <1>4, <1>5, <1>6, ReceiverPreserves DEF EarlyReceiver

LEMMA AnswerTokenPreserves ==
  ASSUME IInv, AnswerToken
  PROVE  IInv'
<1>1. /\ r = "token" /\ r_acked' = After(1, r_acked)
      /\ UNCHANGED <<fnVars, s_status, link, pinVars>>
  BY DEF AnswerToken
<1>2. /\ UNCHANGED <<s_status, s_fn, r_fn, proved>> /\ r_acked' = 0
      /\ r_try' \in 0 .. MaxTries /\ r_try' < MaxTries
      /\ proved' \in SUBSET {"sender", "receiver"}
  BY <1>1, NothingAcked DEF IInv, TypeOK, Short, TriesRemain, pinVars, fnVars
<1>3. r_status' \in SUBSET Status /\ s_acked' \in {s_acked, Len(to_s')}
  BY DEF AnswerToken, ReceiverTold, Status, IInv, TypeOK
<1>4. PICK q : \/ One(q, "token_invalid") /\ ReceiverStep("err", q)
               \/ One(q, "token_pin") /\ ReceiverStep("check_pin", q)
               \/ ~r_pin /\ One(q, "token_ok") /\ ReceiverStep("list", q)
  BY AnswerTokenStep
<1>5. link = "up" => s = "token"
  BY AnswerTokenStep
<1>6. ASSUME NEW loc \in {"err", "check_pin", "list"},
             NEW kind \in {"token_invalid", "token_pin", "token_ok"},
             One(q, kind), ReceiverStep(loc, q), kind = "token_ok" => ~r_pin,
             ReceiverMove(loc, q) \/ link # "up"
      PROVE  IInv'
  <2>1. q \in Seq(Message) /\ \A i \in 1 .. Len(q) : q[i].kind = kind
    BY <1>6, AllMessages
  <2>2. loc \in ReceiverAt
    BY DEF ReceiverAt, Over
  <2>3. TypeOK' /\ TriesRemain'
    BY <1>2, <1>3, <1>6, <2>1, <2>2, ReceiverTypes
  <2>4. PinsTold' /\ PinsComeFirst'
    BY <1>2, <1>6, <2>1, ReceiverPins DEF LateRead
  <2>5. QED
    BY <1>1, <1>6, <2>1, <2>3, <2>4, ReceiverPreserves DEF EarlyReceiver
<1>7. CASE One(q, "token_invalid") /\ ReceiverStep("err", q)
  <2>1. ReceiverMove("err", q) \/ link # "up"
    BY <1>5, <1>7 DEF ReceiverMove
  <2>2. QED
    BY <1>6, <1>7, <2>1
<1>8. CASE One(q, "token_pin") /\ ReceiverStep("check_pin", q)
  <2>1. ReceiverMove("check_pin", q) \/ link # "up"
    BY <1>5, <1>8 DEF ReceiverMove
  <2>2. QED
    BY <1>6, <1>8, <2>1
<1>9. CASE ~r_pin /\ One(q, "token_ok") /\ ReceiverStep("list", q)
  <2>1. ReceiverMove("list", q) \/ link # "up"
    BY <1>5, <1>9 DEF ReceiverMove
  <2>2. QED
    BY <1>6, <1>9, <2>1
<1>10. QED
  BY <1>4, <1>7, <1>8, <1>9

LEMMA ReceiverChecksPinPreserves ==
  ASSUME IInv, ReceiverChecksPin
  PROVE  IInv'
<1>1. /\ r = "check_pin" /\ r_try' = r_try + 1 /\ r_acked' = After(1, r_acked)
      /\ UNCHANGED <<fnVars, s_status, proved>>
  BY DEF ReceiverChecksPin
<1>2. /\ UNCHANGED <<s_status, s_fn, r_fn, proved>> /\ r_acked' = 0
      /\ r_try' \in 0 .. MaxTries /\ proved' \in SUBSET {"sender", "receiver"}
  BY <1>1, NothingAcked, WebRtcAssumption DEF IInv, TypeOK, Short, TriesRemain, fnVars
<1>3. r_status' \in SUBSET Status /\ s_acked' \in {s_acked, Len(to_s')}
  BY DEF ReceiverChecksPin, ReceiverTold, Status, IInv, TypeOK
<1>4. /\ link = "up" => s = "pin_sent"
      /\ to_r # <<>> /\ to_r[1].kind = "pin"
  BY ReceiverChecksPinStep
<1>5. to_r[1].right => "sender" \in proved
  BY <1>4, Heads DEF IInv, PinsTold
<1>6. PICK q : \/ /\ to_r[1].right
                  /\ One(q, "pin_ok") /\ ReceiverStep("list", q)
               \/ /\ ~to_r[1].right /\ TriesLeft(r_try + 1)
                  /\ One(q, "pin_required") /\ ReceiverStep("check_pin", q)
               \/ ~to_r[1].right /\ One(q, "too_many") /\ ReceiverStep("err", q)
  BY ReceiverChecksPinStep
<1>7. ASSUME NEW loc \in {"list", "check_pin", "err"},
             NEW kind \in {"pin_ok", "pin_required", "too_many"},
             One(q, kind), ReceiverStep(loc, q), kind = "pin_ok" => to_r[1].right,
             loc = "check_pin" => TriesLeft(r_try + 1),
             ReceiverMove(loc, q) \/ link # "up"
      PROVE  IInv'
  <2>1. q \in Seq(Message) /\ \A i \in 1 .. Len(q) : q[i].kind = kind
    BY <1>7, AllMessages
  <2>2. loc \in ReceiverAt
    BY DEF ReceiverAt, Over
  <2>3. r' \in {"nonce", "token", "check_pin"} => r_try' < MaxTries
    BY <1>1, <1>7 DEF ReceiverStep, TriesLeft
  <2>4. TypeOK' /\ TriesRemain'
    BY <1>2, <1>3, <1>7, <2>1, <2>2, <2>3, ReceiverTypes
  <2>5. PinsTold' /\ PinsComeFirst'
    BY <1>2, <1>5, <1>7, <2>1, ReceiverPins DEF LateRead
  <2>6. QED
    BY <1>1, <1>7, <2>1, <2>4, <2>5, ReceiverPreserves DEF EarlyReceiver
<1>8. CASE to_r[1].right /\ One(q, "pin_ok") /\ ReceiverStep("list", q)
  <2>1. ReceiverMove("list", q) \/ link # "up"
    BY <1>4, <1>8 DEF ReceiverMove
  <2>2. QED
    BY <1>7, <1>8, <2>1
<1>9. CASE TriesLeft(r_try + 1) /\ One(q, "pin_required") /\ ReceiverStep("check_pin", q)
  <2>1. ReceiverMove("check_pin", q) \/ link # "up"
    BY <1>4, <1>9 DEF ReceiverMove
  <2>2. QED
    BY <1>7, <1>9, <2>1
<1>10. CASE One(q, "too_many") /\ ReceiverStep("err", q)
  <2>1. ReceiverMove("err", q) \/ link # "up"
    BY <1>4, <1>10 DEF ReceiverMove
  <2>2. QED
    BY <1>7, <1>10, <2>1
<1>11. QED
  BY <1>6, <1>8, <1>9, <1>10

LEMMA ReadPinStatusPreserves ==
  ASSUME IInv, ReadPinStatus
  PROVE  IInv'
<1>1. /\ ReceiverReads(StringAt(to_r)) /\ Complete(to_r) /\ ~IsString(Head(to_r))
      /\ r \in {"list", "pin_sent"} /\ UNCHANGED <<fnVars, s_status, pinVars>>
  BY DEF ReadPinStatus
<1>2. r_acked' = 0 /\ s_acked' = s_acked
  <2>1. to_r \in Seq(Message) /\ Len(to_r) <= 2 /\ (Len(to_r) = 2 => to_r[2].kind = "delimiter")
    BY <1>1 DEF IInv, TypeOK, Short
  <2>2. StringAt(to_r) = 2
    BY <1>1, <2>1, ReadChunked
  <2>3. QED
    BY <1>1, <2>1, <2>2, NothingAcked DEF ReceiverReads
<1>3. /\ UNCHANGED <<s_status, s_fn, r_fn, proved>>
      /\ r_try' \in 0 .. MaxTries /\ proved' \in SUBSET {"sender", "receiver"}
  BY <1>1 DEF IInv, TypeOK, pinVars, fnVars
<1>4. r_status' \in SUBSET Status
  BY DEF ReadPinStatus, ReceiverTold, Status, IInv, TypeOK
<1>5. ASSUME NEW loc \in {"choose", "ask_pin", "err"}, ReceiverStep(loc, <<>>),
             loc = "choose" => to_r[1].kind = "files",
             ReceiverMove(loc, <<>>) \/ link # "up"
      PROVE  IInv'
  <2> DEFINE q == <<>>
  <2>1. q \in Seq(Message) /\ \A i \in 1 .. Len(q) : FALSE
    OBVIOUS
  <2>2. ReceiverStep(loc, q) /\ (ReceiverMove(loc, q) \/ link # "up")
    BY <1>5
  <2> HIDE DEF q
  <2>3. loc \in ReceiverAt
    BY DEF ReceiverAt, Over
  <2>4. r' \notin {"nonce", "token", "check_pin"}
    BY <1>5 DEF ReceiverStep
  <2>5. TypeOK' /\ TriesRemain'
    BY <1>2, <1>3, <1>4, <2>1, <2>2, <2>3, <2>4, ReceiverTypes
  <2>6. loc \in LateRead => BothProved
    <3>1. Len(to_r) = 2
      BY ReadPinStatusStep
    <3>2. QED
      BY <1>5, <3>1 DEF LateRead, BothProved, IInv, PinsTold
  <2>7. PinsTold' /\ PinsComeFirst'
    BY <1>3, <2>1, <2>2, <2>6, ReceiverPins
  <2>8. QED
    BY <1>1, <1>5, <2>1, <2>2, <2>5, <2>7, ReceiverPreserves DEF EarlyReceiver
<1>6. CASE /\ to_r[1].kind = "files" /\ (link = "up" => s = "selection")
           /\ \E loc \in {"choose", "err"} : ReceiverStep(loc, <<>>)
  <2>1. PICK loc \in {"choose", "err"} : ReceiverStep(loc, <<>>)
    BY <1>6
  <2>2. ReceiverMove(loc, <<>>) \/ link # "up"
    BY <1>6, <2>1 DEF ReceiverMove
  <2>3. QED
    BY <1>5, <1>6, <2>1, <2>2
<1>7. CASE (link = "up" => s = "check_pin") /\ ReceiverStep("ask_pin", <<>>)
  BY <1>5, <1>7 DEF ReceiverMove
<1>8. CASE (link = "up" => s = "err") /\ ReceiverStep("err", <<>>)
  BY <1>5, <1>8 DEF ReceiverMove
<1>9. QED
  BY <1>6, <1>7, <1>8, ReadPinStatusStep

LEMMA ReceiverEntersPinPreserves ==
  ASSUME IInv, ReceiverEntersPin
  PROVE  IInv'
<1>1. /\ r = "ask_pin"
      /\ UNCHANGED <<s, fnVars, s_status, r_status, to_r, linkVars, s_pin, r_pin, s_try, r_try,
                     sendVars, fileVars>>
  BY DEF ReceiverEntersPin
<1>2. /\ UNCHANGED <<s_status, s_fn, r_fn, link>>
      /\ s_acked' = s_acked /\ r_acked' = 0
      /\ r_try' \in 0 .. MaxTries /\ to_r' = <<>> /\ r_status' \in SUBSET Status
      /\ link \in {"up", "closed"}
  BY <1>1, NothingAcked DEF fnVars, linkVars, IInv, TypeOK, Short
<1>3. link = "up" => s = "check_pin" /\ to_s = <<>>
  BY <1>1 DEF IInv, TypeOK, SenderAt, Lockstep, Over
<1>4. ASSUME NEW loc \in {"pin_sent", "err"}, NEW q, ReceiverStep(loc, q), q \in Seq(Message),
             \A i \in 1 .. Len(q) : q[i].kind = "pin" /\ (q[i].right => "receiver" \in proved'),
             proved \subseteq proved', proved' \in SUBSET {"sender", "receiver"},
             ReceiverMove(loc, q) \/ link # "up"
      PROVE  IInv'
  <2>1. loc \in ReceiverAt
    BY DEF ReceiverAt, Over
  <2>2. r' \notin {"nonce", "token", "check_pin"}
    BY <1>4 DEF ReceiverStep
  <2>3. TypeOK' /\ TriesRemain'
    BY <1>2, <1>4, <2>1, <2>2, ReceiverTypes
  <2>4. PinsTold' /\ PinsComeFirst'
    BY <1>4, ReceiverPins DEF LateRead
  <2>5. QED
    BY <1>1, <1>4, <2>3, <2>4, ReceiverPreserves DEF EarlyReceiver
<1>5. ASSUME NEW right \in BOOLEAN, ReceiverSays(<<Pin(right)>>, "pin_sent"),
             proved' = IF right THEN proved \cup {"receiver"} ELSE proved
      PROVE  IInv'
  <2> DEFINE q == <<Pin(right)>>
  <2>1. One(q, "pin") /\ q \in Seq(Message) /\ q[1].right = right
    BY MessageKinds, OneTwo DEF One
  <2>2. ReceiverSays(q, "pin_sent")
    BY <1>5
  <2> HIDE DEF q
  <2>3. ReceiverStep("pin_sent", q)
    BY <1>1, <1>2, <1>3, <2>1, <2>2, ReceiverSaysEmpty DEF ReceiverStep, sendVars, fileVars
  <2>4. proved \subseteq proved' /\ proved' \in SUBSET {"sender", "receiver"}
        /\ (right => "receiver" \in proved')
    BY <1>5 DEF IInv, TypeOK
  <2>5. \A i \in 1 .. Len(q) : q[i].kind = "pin" /\ (q[i].right => "receiver" \in proved')
    BY <2>1, <2>4, AllMessages
  <2>6. ReceiverMove("pin_sent", q) \/ link # "up"
    BY <1>3, <2>1 DEF ReceiverMove
  <2>7. QED
    BY <1>4, <2>1, <2>3, <2>4, <2>5, <2>6
<1>6. CASE r' = "err" /\ UNCHANGED <<to_s, proved>>
  <2> DEFINE q == <<>>
  <2>1. ReceiverStep("err", q)
    BY <1>1, <1>2, <1>3, <1>6, SilentReceiverStep
  <2>2. q \in Seq(Message) /\ \A i \in 1 .. Len(q) : FALSE
    OBVIOUS
  <2>3. ReceiverMove("err", q) \/ link # "up"
    BY <1>3 DEF ReceiverMove
  <2>4. proved \subseteq proved' /\ proved' \in SUBSET {"sender", "receiver"}
    BY <1>6 DEF IInv, TypeOK
  <2> HIDE DEF q
  <2>5. QED
    BY <1>4, <2>1, <2>2, <2>3, <2>4
<1>7. QED
  BY <1>5, <1>6 DEF ReceiverEntersPin

LEMMA ChoosePreserves ==
  ASSUME IInv, Choose
  PROVE  IInv'
<1>1. r = "choose" /\ UNCHANGED <<fnVars, s_status, r_status, to_r, linkVars, pinVars>>
  BY DEF Choose
<1>2. /\ UNCHANGED <<s_status, s_fn, r_fn, proved>>
      /\ s_acked' = s_acked /\ r_acked' = 0
      /\ r_try' \in 0 .. MaxTries /\ r_status' \in SUBSET Status
      /\ proved' \in SUBSET {"sender", "receiver"}
  BY <1>1, NothingAcked DEF fnVars, linkVars, pinVars, IInv, TypeOK, Short
<1>3. link = "up" => s = "selection"
  BY ChooseStep
<1>4. BothProved
  BY <1>1 DEF IInv, PinsComeFirst, BothProved
<1>5. ASSUME NEW loc \in {"receive", "ok"}, NEW q, ReceiverStep(loc, q), q \in Seq(Message),
             \A i \in 1 .. Len(q) : q[i].kind \in {"granted", "declined", "delimiter"},
             ReceiverMove(loc, q) \/ link # "up"
      PROVE  IInv'
  <2>1. loc \in ReceiverAt
    BY DEF ReceiverAt, Over
  <2>2. r' \notin {"nonce", "token", "check_pin"}
    BY <1>5 DEF ReceiverStep
  <2>3. TypeOK' /\ TriesRemain'
    BY <1>2, <1>5, <2>1, <2>2, ReceiverTypes
  <2>4. PinsTold' /\ PinsComeFirst'
    BY <1>2, <1>4, <1>5, ReceiverPins
  <2>5. QED
    BY <1>1, <1>5, <2>3, <2>4, ReceiverPreserves DEF EarlyReceiver
<1>6. PICK q : \/ Two(q, "granted") /\ ReceiverStep("receive", q)
               \/ Two(q, "declined") /\ ReceiverStep("ok", q)
               \/ q = <<>> /\ ReceiverStep("ok", q)
  BY ChooseStep
<1>7. CASE Two(q, "granted") /\ ReceiverStep("receive", q)
  <2>1. q \in Seq(Message) /\ \A i \in 1 .. Len(q) : q[i].kind \in {"granted", "delimiter"}
    BY <1>7, AllMessages
  <2>2. ReceiverMove("receive", q) \/ link # "up"
    BY <1>3, <1>7 DEF ReceiverMove
  <2>3. QED
    BY <1>5, <1>7, <2>1, <2>2
<1>8. CASE Two(q, "declined") /\ ReceiverStep("ok", q)
  <2>1. q \in Seq(Message) /\ \A i \in 1 .. Len(q) : q[i].kind \in {"declined", "delimiter"}
    BY <1>8, AllMessages
  <2>2. ReceiverMove("ok", q) \/ link # "up"
    BY <1>3, <1>8 DEF ReceiverMove
  <2>3. QED
    BY <1>5, <1>8, <2>1, <2>2
<1>9. CASE q = <<>> /\ ReceiverStep("ok", q)
  <2>1. q \in Seq(Message) /\ \A i \in 1 .. Len(q) : FALSE
    BY <1>9
  <2>2. ReceiverMove("ok", q) \/ link # "up"
    BY <1>3, <1>9 DEF ReceiverMove
  <2>3. QED
    BY <1>5, <1>9, <2>1, <2>2
<1>10. QED
  BY <1>6, <1>7, <1>8, <1>9

-----------------------------------------------------------------------------
\* The steps of the file loop.

LateReceiver == {"receive", "result", "drain"} \cup Over

\* What the receiver reads in its file loop, from the stream.
LEMMA InStepReceive ==
  ASSUME Stream', to_r' \in Seq(Message), r' = "receive", to_r' # <<>>
  PROVE  \/ Head(to_r)'.kind = "header"
         \/ Head(to_r)'.kind = "chunk" /\ file_state' # NoFile
         \/ Head(to_r)'.kind = "delimiter" /\ (file_state' # NoFile \/ Sent' = {})
<1>1. Head(to_r)' = to_r'[1] /\ 1 \in 1 .. Len(to_r')
  OBVIOUS
<1>2. Streaming' /\ OpenAt(1)' = file_state'
  BY DEF Streaming, OpenAt, Cur
<1>3. /\ to_r'[1].kind \in {"header", "chunk", "delimiter"}
      /\ to_r'[1].kind = "chunk" => OpenAt(1)' # NoFile
      /\ to_r'[1].kind = "delimiter" => OpenAt(1)' # NoFile \/ Sent' = {}
  BY <1>1, <1>2 DEF Stream
<1>4. QED
  BY <1>1, <1>2, <1>3

\* A step of the sending side of the file loop keeps them together.
LEMMA LateSenderTogether ==
  ASSUME IInv, UNCHANGED <<r, link, file_state>>,
         s' \in {"send", "chunks", "last"} \cup Over,
         s' = "err" => link # "up",
         link = "up" => r \in LateReceiver,
         to_r' = to_r \/ link = "up", to_r' \in Seq(Message), to_s' \in Seq(Message),
         s' \in {"send", "chunks", "last"} =>
           \A i \in 1 .. Len(to_s') : to_s'[i].kind = "response",
         Stream'
  PROVE  Short' /\ Lockstep' /\ InStep'
<1>1. Short /\ InStep
  BY DEF IInv
<1>2. r' \notin LateReceiver => to_r' = to_r
  OBVIOUS
<1>3. Short'
  BY <1>1, <1>2 DEF Short, LateReceiver, Over
<1>4. Lockstep'
  BY DEF Lockstep, LateReceiver, Over
<1>5. InStep'
  <2>1. r' = "receive" /\ to_r' # <<>> =>
           \/ Head(to_r)'.kind = "header"
           \/ Head(to_r)'.kind = "chunk" /\ file_state' # NoFile
           \/ Head(to_r)'.kind = "delimiter" /\ (file_state' # NoFile \/ Sent' = {})
    BY InStepReceive
  <2>2. s' \in DOMAIN SenderParses /\ to_s' # <<>> => Head(to_s)'.kind \in SenderParses[s']
    <3>1. s' \in DOMAIN SenderParses => s' = "last"
      BY DEF SenderParses, Over
    <3>2. to_s' # <<>> => Head(to_s)' = to_s'[1] /\ 1 \in 1 .. Len(to_s')
      OBVIOUS
    <3>3. QED
      BY <3>1, <3>2 DEF SenderParses
  <2>3. r' \in DOMAIN ReceiverParses /\ to_r' # <<>> => Head(to_r)'.kind \in ReceiverParses[r']
    <3>1. r \in DOMAIN ReceiverParses => r \notin LateReceiver
      BY DEF ReceiverParses, LateReceiver, Over
    <3>2. QED
      BY <1>1, <1>2, <3>1 DEF InStep
  <2>4. s' # "selection"
    BY DEF Over
  <2>5. r' = "list" /\ to_r' # <<>> => Head(to_r)'.kind \in {"files", "pin_required_chunks"}
    BY <1>1, <1>2 DEF InStep, LateReceiver, Over
  <2>6. r' = "pin_sent" /\ to_r' # <<>> =>
          Head(to_r)'.kind \in {"files", "pin_required_chunks", "too_many_chunks"}
    BY <1>1, <1>2 DEF InStep, LateReceiver, Over
  <2>7. QED
    BY <2>1, <2>2, <2>3, <2>4, <2>5, <2>6 DEF InStep
<1>6. QED
  BY <1>3, <1>4, <1>5

\* A step of the receiving side of the file loop keeps them together.
LEMMA LateReceiverTogether ==
  ASSUME IInv, UNCHANGED <<s, link, file_map>>,
         r' \in LateReceiver,
         link = "up" => s \in {"send", "chunks", "last", "ok"},
         to_s' = to_s \/ link = "up", to_r' \in Seq(Message), to_s' \in Seq(Message),
         \A i \in 1 .. Len(to_s') :
           \/ i \in 1 .. Len(to_s) /\ to_s'[i] = to_s[i]
           \/ to_s'[i].kind = "response",
         Stream'
  PROVE  Short' /\ Lockstep' /\ InStep'
<1>1. Short /\ InStep
  BY DEF IInv
<1>2. s' \notin {"send", "chunks", "last", "ok"} => to_s' = to_s
  OBVIOUS
<1>3. s' \in {"send", "chunks", "last"} =>
        \A i \in 1 .. Len(to_s') : to_s'[i].kind = "response"
  BY <1>1 DEF Short
<1>4. Short'
  BY <1>1, <1>2, <1>3 DEF Short, LateReceiver, Over
<1>5. Lockstep'
  BY DEF Lockstep, LateReceiver, Over
<1>6. InStep'
  <2>1. r' = "receive" /\ to_r' # <<>> =>
           \/ Head(to_r)'.kind = "header"
           \/ Head(to_r)'.kind = "chunk" /\ file_state' # NoFile
           \/ Head(to_r)'.kind = "delimiter" /\ (file_state' # NoFile \/ Sent' = {})
    BY InStepReceive
  <2>2. s' \in DOMAIN SenderParses /\ to_s' # <<>> => Head(to_s)'.kind \in SenderParses[s']
    <3>1. CASE s = "last"
      <4>1. to_s' # <<>> => Head(to_s)' = to_s'[1] /\ 1 \in 1 .. Len(to_s')
        OBVIOUS
      <4>2. QED
        BY <1>3, <3>1, <4>1 DEF SenderParses
    <3>2. CASE s \in DOMAIN SenderParses /\ s # "last"
      <4>1. s \notin {"send", "chunks", "last", "ok"}
        BY <3>2 DEF SenderParses
      <4>2. QED
        BY <1>1, <1>2, <4>1 DEF InStep
    <3>3. QED
      BY <3>1, <3>2
  <2>3. r' \notin DOMAIN ReceiverParses /\ r' \notin {"list", "pin_sent"}
    BY DEF ReceiverParses, LateReceiver, Over
  <2>4. s' = "selection" /\ to_s' # <<>> => Head(to_s)'.kind \in {"granted", "declined"}
    BY <1>1, <1>2 DEF InStep
  <2>5. QED
    BY <2>1, <2>2, <2>3, <2>4 DEF InStep
<1>7. QED
  BY <1>4, <1>5, <1>6

\* The connection ends.
LEMMA LinkTogether ==
  ASSUME IInv, UNCHANGED <<s, r, file_state>>, Sent' = Sent, link' # "up",
         to_r' \in Seq(Message), Len(to_r') <= Len(to_r),
         \A i \in 1 .. Len(to_r') : to_r'[i] = to_r[i],
         to_s' \in Seq(Message), Len(to_s') <= Len(to_s),
         \A i \in 1 .. Len(to_s') : to_s'[i] = to_s[i]
  PROVE  Short' /\ Lockstep' /\ InStep'
<1>1. Short /\ InStep /\ to_r \in Seq(Message) /\ to_s \in Seq(Message)
  BY DEF IInv, TypeOK
<1>2. /\ to_r = <<>> => to_r' = <<>>
      /\ to_s = <<>> => to_s' = <<>>
      /\ to_r' # <<>> => to_r # <<>> /\ Head(to_r)' = Head(to_r)
      /\ to_s' # <<>> => to_s # <<>> /\ Head(to_s)' = Head(to_s)
  BY <1>1
<1>0. /\ Len(to_r) \in Nat /\ Len(to_s) \in Nat /\ Len(to_r') \in Nat /\ Len(to_s') \in Nat
      /\ \A i \in 1 .. Len(to_s') : i \in 1 .. Len(to_s)
  BY <1>1
<1>3. Short'
  <2>1. /\ Len(to_s) <= 1 => Len(to_s') <= 1
        /\ Len(to_s) <= 2 => Len(to_s') <= 2
        /\ Len(to_r) <= 1 => Len(to_r') <= 1
        /\ Len(to_r) <= 2 => Len(to_r') <= 2
    BY <1>0
  <2>2. /\ Len(to_s) <= 2 /\ Len(to_s') = 2 => Len(to_s) = 2 /\ to_s'[2] = to_s[2]
        /\ Len(to_r) <= 2 /\ Len(to_r') = 2 => Len(to_r) = 2 /\ to_r'[2] = to_r[2]
    <3>1. Len(to_s') = 2 => 2 \in 1 .. Len(to_s')
      OBVIOUS
    <3>2. Len(to_r') = 2 => 2 \in 1 .. Len(to_r')
      OBVIOUS
    <3>3. /\ Len(to_s) <= 2 /\ Len(to_s') = 2 => Len(to_s) = 2
          /\ Len(to_r) <= 2 /\ Len(to_r') = 2 => Len(to_r) = 2
      <4>1. \A a, b \in Nat : a <= b /\ b <= 2 /\ a = 2 => b = 2
        OBVIOUS
      <4>2. Len(to_s') <= Len(to_s) /\ Len(to_r') <= Len(to_r)
        OBVIOUS
      <4>3. QED
        BY <1>0, <4>1, <4>2, Zenon
    <3>4. QED
      BY <3>1, <3>2, <3>3
  <2>3. s \in {"send", "chunks", "last"} =>
         \A i \in 1 .. Len(to_s') : to_s'[i].kind = "response"
    BY <1>1, <1>0 DEF Short
  <2>4. QED
    BY <1>1, <1>2, <2>1, <2>2, <2>3 DEF Short
<1>4. Lockstep'
  BY DEF Lockstep
<1>5. InStep'
  BY <1>1, <1>2 DEF InStep
<1>6. QED
  BY <1>3, <1>4, <1>5

\* The content of an ended file follows from what was received of it.
LEMMA WholeFromPrefixes ==
  ASSUME FilePrefixes', EndedWhole', ended' \in SUBSET File,
         \A i \in DOMAIN to_s' : to_s'[i].kind = "response" => to_s'[i].file \in ended'
  PROVE  EndedFilesAreWhole'
<1>1. ASSUME NEW f \in ended'
      PROVE  received'[f] = [i \in 1 .. chunks'[f] |-> <<f, i>>]
  <2>1. received'[f] = [i \in 1 .. Len(received'[f]) |-> <<f, i>>] /\ Len(received'[f]) = chunks'[f]
    BY <1>1 DEF FilePrefixes, EndedWhole
  <2>2. QED
    BY <2>1
<1>2. QED
  BY <1>1 DEF EndedFilesAreWhole

\* Before the delimiter, the file that is open is one that was handed over.
LEMMA OpenHanded ==
  ASSUME IInv, Streaming, s \notin {"last", "ok"}, NEW i \in 1 .. Len(to_r) + 1
  PROVE  OpenAt(i) \in Sent \cup {NoFile}
<1>1. CASE i = 1
  BY <1>1 DEF IInv, FileOrder, OpenAt, Cur
<1>2. CASE i # 1
  <2>1. i - 1 \in 1 .. Len(to_r)
    BY <1>2 DEF IInv, TypeOK
  <2>2. to_r[i - 1].kind \in {"header", "chunk"}
    BY <2>1 DEF IInv, Stream
  <2>3. to_r[i - 1].file \in Sent
    BY <2>1, <2>2 DEF IInv, HeadersFresh
  <2>4. QED
    BY <1>2, <2>3 DEF OpenAt
<1>3. QED
  BY <1>1, <1>2

\* The positions of the stream do not move when a message is appended.
LEMMA SameOpen ==
  ASSUME IInv, UNCHANGED <<r, file_state, next_file, received>>,
         NEW i \in 1 .. Len(to_r) + 1,
         \A j \in 1 .. Len(to_r) : to_r'[j] = to_r[j]
  PROVE  OpenAt(i)' = OpenAt(i) /\ CountAt(i)' = CountAt(i)
<1>1. Cur' = Cur
  BY DEF Cur
<1>2. CASE i = 1
  BY <1>1, <1>2 DEF OpenAt, CountAt
<1>3. CASE i # 1
  <2>1. i - 1 \in 1 .. Len(to_r)
    BY <1>3 DEF IInv, TypeOK
  <2>2. to_r'[i - 1] = to_r[i - 1]
    BY <2>1
  <2>3. QED
    BY <1>3, <2>2 DEF OpenAt, CountAt
<1>4. QED
  BY <1>2, <1>3

\* ... and move by one when a header or a chunk is read.
LEMMA ShiftOpen ==
  ASSUME IInv, to_r # <<>>, to_r' = Tail(to_r), Cur' = to_r[1].file,
         Len(received[Cur])' = CountAt(2),
         NEW i \in 1 .. Len(to_r')  + 1
  PROVE  i + 1 \in 1 .. Len(to_r) + 1 /\ OpenAt(i)' = OpenAt(i + 1) /\ CountAt(i)' = CountAt(i + 1)
<1>1. to_r \in Seq(Message)
  BY DEF IInv, TypeOK
<1>2. /\ Len(to_r) \in Nat /\ Len(to_r') = Len(to_r) - 1 /\ Len(to_r) >= 1
      /\ \A j \in 1 .. Len(to_r') : j + 1 \in 1 .. Len(to_r) /\ to_r'[j] = to_r[j + 1]
  BY <1>1, TailQueue
<1>3. i + 1 \in 1 .. Len(to_r) + 1 /\ i + 1 # 1 /\ (i + 1) - 1 = i
  BY <1>2
<1>4. CASE i = 1
  BY <1>3, <1>4 DEF OpenAt, CountAt
<1>5. CASE i # 1
  <2>1. i - 1 \in 1 .. Len(to_r') /\ (i - 1) + 1 = i
    BY <1>2, <1>5
  <2>2. to_r'[i - 1] = to_r[i]
    BY <1>2, <2>1
  <2>3. QED
    BY <1>3, <1>5, <2>2 DEF OpenAt, CountAt
<1>6. QED
  BY <1>4, <1>5

\* The receiver takes a header or a chunk off the stream.
LEMMA ReadsStream ==
  ASSUME IInv, Streaming, r' \in {"receive", "result"}, to_r # <<>>, to_r' = Tail(to_r),
         Cur' = to_r[1].file, Cur' # NoFile, Len(received[Cur])' = CountAt(2),
         to_r[1].kind \in {"header", "chunk"},
         UNCHANGED <<s, link, file_map, handed, sending, chunks>>
  PROVE  Stream' /\ StreamEnd'
<1>1. /\ Stream /\ StreamEnd /\ to_r \in Seq(Message)
  BY DEF IInv, TypeOK
<1>2. /\ Len(to_r) \in Nat /\ Len(to_r') = Len(to_r) - 1 /\ Len(to_r) >= 1
      /\ \A j \in 1 .. Len(to_r') : j + 1 \in 1 .. Len(to_r) /\ to_r'[j] = to_r[j + 1]
  BY <1>1, TailQueue
<1>3. \A i \in 1 .. Len(to_r') + 1 : OpenAt(i)' = OpenAt(i + 1) /\ CountAt(i)' = CountAt(i + 1)
  BY ShiftOpen
<1>4. ~(r' = "result" /\ next_file' = NoFile)
  BY DEF Cur
<1>5. Stream'
  <2>1. ASSUME NEW i \in 1 .. Len(to_r')
        PROVE  /\ to_r'[i].kind \in {"header", "chunk", "delimiter"}
               /\ to_r'[i].kind = "chunk" =>
                    OpenAt(i)' # NoFile /\ to_r'[i].file = OpenAt(i)' /\ to_r'[i].index = CountAt(i)' + 1
               /\ to_r'[i].kind # "chunk" /\ OpenAt(i)' # NoFile =>
                    OpenAt(i)' # sending' /\ chunks'[OpenAt(i)'] = CountAt(i)'
               /\ to_r'[i].kind = "delimiter" =>
                    /\ i = Len(to_r')
                    /\ s' \in {"last", "ok"}
                    /\ OpenAt(i)' # NoFile \/ Sent' = {}
    <3>1. i + 1 \in 1 .. Len(to_r) /\ to_r'[i] = to_r[i + 1] /\ i \in 1 .. Len(to_r') + 1
      BY <1>2
    <3>2. OpenAt(i)' = OpenAt(i + 1) /\ CountAt(i)' = CountAt(i + 1)
      BY <1>3, <3>1
    <3>3. /\ to_r[i + 1].kind \in {"header", "chunk", "delimiter"}
          /\ to_r[i + 1].kind = "chunk" =>
               /\ OpenAt(i + 1) # NoFile /\ to_r[i + 1].file = OpenAt(i + 1)
               /\ to_r[i + 1].index = CountAt(i + 1) + 1
          /\ to_r[i + 1].kind # "chunk" /\ OpenAt(i + 1) # NoFile =>
               OpenAt(i + 1) # sending /\ chunks[OpenAt(i + 1)] = CountAt(i + 1)
          /\ to_r[i + 1].kind = "delimiter" =>
               /\ i + 1 = Len(to_r)
               /\ s \in {"last", "ok"}
               /\ OpenAt(i + 1) # NoFile \/ Sent = {}
      BY <1>1, <3>1 DEF Stream
    <3>4. i + 1 = Len(to_r) => i = Len(to_r')
      <4>1. i \in Int /\ Len(to_r) \in Int
        BY <1>2
      <4>2. \A a, b \in Int : a + 1 = b => a = b - 1
        OBVIOUS
      <4>3. QED
        BY <1>2, <4>1, <4>2, Zenon
    <3>5. Sent' = Sent
      BY DEF Sent
    <3>6. QED
      BY <3>1, <3>2, <3>3, <3>4, <3>5
  <2>2. QED
    BY <1>4, <2>1 DEF Stream
<1>6. StreamEnd'
  <2>1. /\ Len(to_r') + 1 \in 1 .. Len(to_r') + 1 /\ (Len(to_r') + 1) + 1 = Len(to_r) + 1
    BY <1>2
  <2>2. /\ OpenAt(Len(to_r) + 1)' = OpenAt(Len(to_r) + 1)
        /\ CountAt(Len(to_r) + 1)' = CountAt(Len(to_r) + 1)
    BY <1>3, <2>1
  <2>3. QED
    BY <1>1, <2>2 DEF StreamEnd, Sent
<1>7. QED
  BY <1>5, <1>6

\* What a step of the file loop has to show.
LEMMA LatePreserves ==
  ASSUME IInv, TypeOK', TriesRemain', PinsTold' /\ PinsComeFirst',
         Short' /\ Lockstep' /\ InStep', Files'
  PROVE  IInv'
  BY DEF IInv, Files

LEMMA ReceiveSelectionPreserves ==
  ASSUME IInv, ReceiveSelection
  PROVE  IInv'
<1>1. /\ s = "selection" /\ Complete(to_s) /\ ~IsString(Head(to_s))
      /\ SenderReads(StringAt(to_s))
      /\ UNCHANGED <<r, fnVars, r_status, to_r, pinVars, handed, sending, chunks, read, fileVars>>
  BY DEF ReceiveSelection
<1>2. to_s # <<>> /\ to_s' = <<>> /\ s_acked' = 0 /\ UNCHANGED <<link, r_acked>>
  <2>1. to_s \in Seq(Message) /\ Len(to_s) <= 2 /\ (Len(to_s) = 2 => to_s[2].kind = "delimiter")
    BY <1>1 DEF IInv, TypeOK, Short
  <2>2. /\ to_s # <<>> /\ StringAt(to_s) = 2
        /\ SubSeq(to_s, StringAt(to_s) + 1, Len(to_s)) = <<>>
    BY <1>1, <2>1, ReadChunked
  <2>3. QED
    BY <1>1, <2>1, <2>2, NothingAcked DEF SenderReads
<1>3. to_s' \in Seq(Message) /\ Len(to_s') = 0 /\ s_acked' \in 0 .. Len(to_s')
  BY <1>2
<1>4. /\ s' \in {"send", "ok", "err"} /\ s_status' \in SUBSET Status
      /\ file_map' \in SUBSET File /\ (s' # "send" => file_map' = file_map)
  <2>1. CASE Head(to_s).kind = "granted" /\ file_map' = Head(to_s).files /\ s' = "send"
             /\ UNCHANGED s_status
    BY <1>2, <2>1, Heads, MessageFields DEF IInv, TypeOK
  <2>2. CASE s' = "ok" /\ SenderTold("Declined") /\ UNCHANGED file_map
    BY <2>2 DEF SenderTold, Status, IInv, TypeOK
  <2>3. CASE s' = "err" /\ UNCHANGED <<file_map, s_status>>
    BY <2>3 DEF IInv, TypeOK
  <2>4. QED
    BY <2>1, <2>2, <2>3 DEF ReceiveSelection
<1>5. s' \in SenderAt /\ r' = r
  BY <1>1, <1>4 DEF SenderAt, Over
<1>6. TypeOK' /\ TriesRemain'
  <2>1. TypeOK'
    BY <1>1, <1>2, <1>3, <1>4, <1>5, ZenonT(40) DEF IInv, TypeOK, fnVars, pinVars, fileVars
  <2>2. TriesRemain'
    BY <1>1, <1>4 DEF IInv, TriesRemain, pinVars
  <2>3. QED
    BY <2>1, <2>2
<1>7. PinsTold' /\ PinsComeFirst'
  <2>1. s' \in Late => s \in Late
    BY <1>1 DEF Late
  <2>2. QED
    BY <1>1, <1>3, <1>4, <1>6, <2>1, PinsKept DEF pinVars, TypeOK
<1>8. link = "up" => r \in {"receive", "ok"}
  BY <1>1, <1>2 DEF IInv, Lockstep
<1>9. /\ handed = {} /\ file_map = {} /\ ended = {} /\ file_state = NoFile /\ next_file = NoFile
      /\ sending = NoFile /\ Sent' = {} /\ Sent = {}
  BY <1>1 DEF IInv, FileOrder, Sent, Over
<1>10. Streaming => to_r = <<>> /\ r # "result"
  <2>1. ASSUME Streaming, NEW i \in 1 .. Len(to_r) PROVE FALSE
    BY <1>1, <1>9, <2>1 DEF IInv, Stream, HeadersFresh
  <2>2. QED
    BY <1>1, <1>9, <2>1 DEF IInv, TypeOK, Stream
<1>11. UNCHANGED <<file_state, next_file, received, ended>>
  BY <1>1 DEF fileVars
<1>12. Stream' /\ StreamEnd'
  <2>1. Streaming' => to_r' = <<>> /\ Len(to_r') = 0 /\ r' = "receive"
    BY <1>1, <1>10 DEF Streaming
  <2>2. Stream'
    BY <2>1 DEF Stream
  <2>3. r' = "receive" => OpenAt(1)' = NoFile
    BY <1>9, <1>11 DEF OpenAt, Cur
  <2>4. StreamEnd'
    BY <1>4, <1>9, <2>1, <2>3 DEF StreamEnd
  <2>5. QED
    BY <2>2, <2>4
<1>13. Files'
  <2>1. FileOrder'
    BY <1>1, <1>4, <1>9, <1>11 DEF IInv, FileOrder, Over
  <2>2. FilePrefixes' /\ EndedWhole'
    BY <1>1, <1>11 DEF IInv, FilePrefixes, EndedWhole
  <2>3. EndedFilesAreWhole'
    BY <1>1, <1>2, <1>11 DEF IInv, EndedFilesAreWhole
  <2>4. HeadersFresh'
    BY <1>1, <1>9, <1>11 DEF IInv, HeadersFresh
  <2>5. LastFileAwaited'
    BY <1>4, <1>9 DEF LastFileAwaited
  <2>6. QED
    BY <1>12, <2>1, <2>2, <2>3, <2>4, <2>5 DEF Files
<1>14. CASE s' # "err"
  <2>1. /\ s' \in {"send", "chunks", "last"} \cup Over /\ s' # "err"
        /\ link = "up" => r \in LateReceiver
    BY <1>4, <1>8, <1>14 DEF LateReceiver, Over
  <2>2. to_r' \in Seq(Message)
    BY <1>6 DEF TypeOK
  <2>3. Short' /\ Lockstep' /\ InStep'
    BY <1>1, <1>2, <1>3, <1>11, <1>12, <2>1, <2>2, LateSenderTogether
  <2>4. QED
    BY <1>6, <1>7, <1>13, <2>3, LatePreserves
<1>15. CASE s' = "err"
  <2>1. Head(to_s).kind = "granted"
    BY <1>1, <1>15 DEF ReceiveSelection
  <2>2. link = "up" => r = "receive" /\ to_r = <<>>
    BY <1>1, <1>2, <2>1, Heads DEF IInv, TypeOK, Lockstep, IfAny
  <2>3. SenderStep("err", <<>>)
    BY <1>1, <1>2, <1>4, <1>15, <2>2 DEF SenderStep, pinVars, fileVars
  <2>4. QED
    BY <1>6, <1>7, <1>13, <2>2, <2>3, SenderTogether, LatePreserves
<1>16. QED
  BY <1>14, <1>15

LEMMA FileSentPreserves ==
  ASSUME IInv, FileSent
  PROVE  IInv'
<1>1. /\ s = "chunks" /\ s' = "send" /\ sending' = NoFile
      /\ UNCHANGED <<r, fnVars, s_status, r_status, to_r, to_s, linkVars, pinVars, file_map,
                     handed, chunks, read, fileVars>>
  BY DEF FileSent
<1>2. TypeOK' /\ TriesRemain'
  <2>1. TypeOK'
    BY <1>1 DEF IInv, TypeOK, fnVars, linkVars, pinVars, fileVars, SenderAt
  <2>2. TriesRemain'
    BY <1>1 DEF IInv, TriesRemain, pinVars
  <2>3. QED
    BY <2>1, <2>2
<1>3. PinsTold' /\ PinsComeFirst'
  <2>1. s' \in Late => s \in Late
    BY <1>1 DEF Late
  <2>2. QED
    BY <1>1, <1>2, <2>1, PinsKept DEF pinVars, TypeOK
<1>4. UNCHANGED <<link, file_state, next_file, received, ended>>
  BY <1>1 DEF fileVars, linkVars
<1>5. NoFile \notin ended /\ Sent' = Sent
  BY <1>1, WebRtcAssumption DEF IInv, TypeOK, Sent
<1>6. Stream' /\ StreamEnd'
  <2>1. \A i \in 1 .. Len(to_r) + 1 : OpenAt(i)' = OpenAt(i) /\ CountAt(i)' = CountAt(i)
    BY <1>1, <1>4, SameOpen
  <2>2. Len(to_r) \in Nat
    BY DEF IInv, TypeOK
  <2>3. Stream'
    BY <1>1, <1>4, <2>1, <2>2 DEF IInv, Stream, Streaming
  <2>4. StreamEnd'
    BY <1>1, <1>4, <1>5, <2>1, <2>2 DEF IInv, StreamEnd, Streaming
  <2>5. QED
    BY <2>3, <2>4
<1>7. Files'
  <2>1. FileOrder'
    BY <1>1, <1>4, <1>5 DEF IInv, FileOrder
  <2>2. FilePrefixes' /\ EndedWhole'
    BY <1>1, <1>4, <1>5 DEF IInv, FilePrefixes, EndedWhole
  <2>3. EndedFilesAreWhole'
    BY <1>1, <1>4 DEF IInv, EndedFilesAreWhole
  <2>4. HeadersFresh'
    BY <1>1, <1>4, <1>5 DEF IInv, HeadersFresh
  <2>5. LastFileAwaited'
    BY <1>1 DEF LastFileAwaited
  <2>6. QED
    BY <1>6, <2>1, <2>2, <2>3, <2>4, <2>5 DEF Files
<1>8. Short' /\ Lockstep' /\ InStep'
  <2>1. /\ s' \in {"send", "chunks", "last"} \cup Over /\ s' # "err"
        /\ link = "up" => r \in LateReceiver
    BY <1>1 DEF IInv, Lockstep, LateReceiver
  <2>2. \A i \in 1 .. Len(to_s') : to_s'[i].kind = "response"
    BY <1>1 DEF IInv, Short
  <2>3. to_r' \in Seq(Message) /\ to_s' \in Seq(Message)
    BY <1>2 DEF TypeOK
  <2>4. QED
    BY <1>1, <1>4, <1>6, <2>1, <2>2, <2>3, LateSenderTogether
<1>9. QED
  BY <1>2, <1>3, <1>7, <1>8, LatePreserves

LEMMA ReadLastPreserves ==
  ASSUME IInv, ReadLast
  PROVE  IInv'
<1>1. /\ s = "last" /\ s' = "ok" /\ to_s # <<>> /\ SenderReads(1) /\ read' = Append(read, Head(to_s))
      /\ UNCHANGED <<r, fnVars, s_status, r_status, to_r, pinVars, file_map, handed, sending,
                     chunks, fileVars>>
  BY DEF ReadLast
<1>2. to_s \in Seq(Message) /\ Head(to_s) \in Message
  BY <1>1, TailQueue DEF IInv, TypeOK
<1>3. to_s' = Tail(to_s) /\ UNCHANGED <<link, r_acked>> /\ s_acked' = After(1, s_acked)
  BY <1>1, <1>2, TailQueue DEF SenderReads
<1>4. /\ to_s' \in Seq(Message) /\ Len(to_s') = Len(to_s) - 1
      /\ \A i \in 1 .. Len(to_s') : i + 1 \in 1 .. Len(to_s) /\ to_s'[i] = to_s[i + 1]
      /\ Head(to_s) = to_s[1] /\ 1 \in 1 .. Len(to_s) /\ Len(to_s) \in Nat
  BY <1>1, <1>2, <1>3, TailQueue
<1>5. TypeOK' /\ TriesRemain'
  <2>1. s_acked' \in 0 .. Len(to_s')
    BY <1>3, <1>4 DEF IInv, TypeOK, After
  <2>2. read' \in Seq(Message)
    BY <1>1, <1>2 DEF IInv, TypeOK
  <2>3. TypeOK'
    BY <1>1, <1>3, <1>4, <2>1, <2>2, ZenonT(40) DEF IInv, TypeOK, fnVars, pinVars, fileVars, SenderAt, Over
  <2>4. TriesRemain'
    BY <1>1 DEF IInv, TriesRemain, pinVars
  <2>5. QED
    BY <2>3, <2>4
<1>6. PinsTold' /\ PinsComeFirst'
  <2>1. s' \in Late => s \in Late
    BY <1>1 DEF Late
  <2>2. QED
    BY <1>1, <1>4, <1>5, <2>1, PinsKept DEF pinVars, TypeOK
<1>7. UNCHANGED <<file_state, next_file, received, ended>> /\ Sent' = Sent
  BY <1>1 DEF fileVars, Sent
<1>8. Stream' /\ StreamEnd'
  <2>1. \A i \in 1 .. Len(to_r) + 1 : OpenAt(i)' = OpenAt(i) /\ CountAt(i)' = CountAt(i)
    BY <1>1, <1>7, SameOpen
  <2>2. Len(to_r) \in Nat
    BY DEF IInv, TypeOK
  <2>3. Stream'
    BY <1>1, <1>7, <2>1, <2>2 DEF IInv, Stream, Streaming
  <2>4. StreamEnd'
    BY <1>1 DEF StreamEnd
  <2>5. QED
    BY <2>3, <2>4
<1>9. LastFileAwaited'
  <2>1. to_s[1].kind = "response" /\ to_s[1].file \in ended
    BY <1>1, <1>4 DEF IInv, Short, EndedFilesAreWhole
  <2>2. to_s[1].file \in Sent /\ Sent \in SUBSET File
    BY <2>1 DEF IInv, TypeOK, FileOrder, Sent
  <2>3. IsFiniteSet(Sent)
    BY <2>2, FS_Subset, WebRtcAssumption
  <2>4. Cardinality(Sent) = 1 => \E x : Sent = {x}
    BY <2>3, FS_Singleton
  <2>5. Cardinality(Sent) = 1 => Sent \subseteq ended
    BY <2>1, <2>2, <2>4
  <2>6. QED
    BY <1>1, <1>7, <2>5 DEF LastFileAwaited
<1>10. Files'
  <2>1. FileOrder'
    BY <1>1, <1>7 DEF IInv, FileOrder, Over
  <2>2. FilePrefixes' /\ EndedWhole'
    BY <1>1, <1>7 DEF IInv, FilePrefixes, EndedWhole
  <2>3. EndedFilesAreWhole'
    <3>1. \A i \in DOMAIN to_s' : to_s'[i].kind = "response" => to_s'[i].file \in ended'
      <4>1. DOMAIN to_s' = 1 .. Len(to_s') /\ DOMAIN to_s = 1 .. Len(to_s)
        BY <1>2, <1>4
      <4>2. \A i \in 1 .. Len(to_s) : to_s[i].kind = "response" => to_s[i].file \in ended
        BY <4>1 DEF IInv, EndedFilesAreWhole
      <4>3. QED
        BY <1>4, <1>7, <4>1, <4>2
    <3>2. QED
      BY <1>1, <1>7, <3>1 DEF IInv, EndedFilesAreWhole
  <2>4. HeadersFresh'
    BY <1>1, <1>7 DEF IInv, HeadersFresh
  <2>5. QED
    BY <1>8, <1>9, <2>1, <2>2, <2>3, <2>4 DEF Files
<1>11. Short' /\ Lockstep' /\ InStep'
  <2>1. /\ s' \in {"send", "chunks", "last"} \cup Over /\ s' # "err"
        /\ s' \notin {"send", "chunks", "last"}
        /\ link = "up" => r \in LateReceiver
    BY <1>1 DEF IInv, Lockstep, LateReceiver, Over
  <2>2. to_r' \in Seq(Message)
    BY <1>5 DEF TypeOK
  <2>3. QED
    BY <1>1, <1>3, <1>4, <1>7, <1>8, <2>1, <2>2, LateSenderTogether
<1>12. QED
  BY <1>5, <1>6, <1>10, <1>11, LatePreserves

\* The sender appends a message to the stream, or loses it.
LEMMA Appended ==
  ASSUME IInv, NEW m \in Message, to_r' = IF link = "up" THEN Append(to_r, m) ELSE to_r
  PROVE  /\ to_r' \in Seq(Message) /\ Len(to_r) \in Nat /\ r_acked \in 0 .. Len(to_r')
         /\ \A j \in 1 .. Len(to_r) : to_r'[j] = to_r[j]
         /\ \/ link = "up" /\ Len(to_r') = Len(to_r) + 1 /\ to_r'[Len(to_r) + 1] = m
            \/ link # "up" /\ to_r' = to_r
         /\ \A i \in 1 .. Len(to_r') :
              \/ i \in 1 .. Len(to_r) /\ to_r'[i] = to_r[i]
              \/ link = "up" /\ i = Len(to_r) + 1 /\ to_r'[i] = m
<1>1. to_r \in Seq(Message) /\ Len(to_r) \in Nat /\ r_acked \in 0 .. Len(to_r)
  BY DEF IInv, TypeOK
<1>2. CASE link = "up"
  <2>1. to_r' = to_r \o <<m>>
    BY <1>1, <1>2, SayOne
  <2>2. /\ to_r' \in Seq(Message) /\ Len(to_r') = Len(to_r) + 1
        /\ \A i \in 1 .. Len(to_r) : to_r'[i] = to_r[i]
        /\ to_r'[Len(to_r) + 1] = m
    BY <1>1, <2>1, SayOne
  <2>3. \A i \in 1 .. Len(to_r') : i \in 1 .. Len(to_r) \/ i = Len(to_r) + 1
    BY <1>1, <2>2
  <2>4. r_acked \in 0 .. Len(to_r')
    BY <1>1, <2>2
  <2>5. QED
    BY <1>1, <1>2, <2>2, <2>3, <2>4
<1>3. CASE link # "up"
  BY <1>1, <1>3
<1>4. QED
  BY <1>2, <1>3

\* A message that continues the stream keeps it a stream.
LEMMA AppendStream ==
  ASSUME IInv, NEW m \in Message, to_r' = IF link = "up" THEN Append(to_r, m) ELSE to_r,
         s \in {"send", "chunks"},
         UNCHANGED <<r, link, file_state, next_file, received, file_map>>,
         Streaming => \A i \in 1 .. Len(to_r) :
           to_r[i].kind # "chunk" /\ OpenAt(i) # NoFile =>
             OpenAt(i) # sending' /\ chunks'[OpenAt(i)] = CountAt(i),
         Streaming /\ link = "up" =>
           LET n == Len(to_r) + 1 IN
           /\ m.kind \in {"header", "chunk", "delimiter"}
           /\ m.kind = "chunk" =>
                OpenAt(n) # NoFile /\ m.file = OpenAt(n) /\ m.index = CountAt(n) + 1
           /\ m.kind # "chunk" /\ OpenAt(n) # NoFile =>
                OpenAt(n) # sending' /\ chunks'[OpenAt(n)] = CountAt(n)
           /\ m.kind = "delimiter" =>
                s' \in {"last", "ok"} /\ (OpenAt(n) # NoFile \/ Sent' = {})
  PROVE  Stream'
<1> DEFINE n == Len(to_r) + 1
<1>1. /\ Len(to_r) \in Nat
      /\ \A j \in 1 .. Len(to_r) : to_r'[j] = to_r[j]
      /\ \/ link = "up" /\ Len(to_r') = n
         \/ link # "up" /\ to_r' = to_r
      /\ \A i \in 1 .. Len(to_r') :
              \/ i \in 1 .. Len(to_r) /\ to_r'[i] = to_r[i]
              \/ link = "up" /\ i = n /\ to_r'[i] = m
  BY Appended
<1>2. \A i \in 1 .. Len(to_r) + 1 : OpenAt(i)' = OpenAt(i) /\ CountAt(i)' = CountAt(i)
  BY <1>1, SameOpen
<1>3. SUFFICES ASSUME Streaming' PROVE Stream!2'
  BY DEF Stream
<1>4. Streaming /\ Stream
  BY <1>3 DEF Streaming, IInv
<1>5. ~(r' = "result" /\ next_file' = NoFile)
  BY <1>4 DEF Stream
<1>6. ASSUME NEW i \in 1 .. Len(to_r')
      PROVE  /\ to_r'[i].kind \in {"header", "chunk", "delimiter"}
             /\ to_r'[i].kind = "chunk" =>
                  OpenAt(i)' # NoFile /\ to_r'[i].file = OpenAt(i)' /\ to_r'[i].index = CountAt(i)' + 1
             /\ to_r'[i].kind # "chunk" /\ OpenAt(i)' # NoFile =>
                  OpenAt(i)' # sending' /\ chunks'[OpenAt(i)'] = CountAt(i)'
             /\ to_r'[i].kind = "delimiter" =>
                  /\ i = Len(to_r')
                  /\ s' \in {"last", "ok"}
                  /\ OpenAt(i)' # NoFile \/ Sent' = {}
  <2>1. CASE i \in 1 .. Len(to_r) /\ to_r'[i] = to_r[i]
    <3>1. OpenAt(i)' = OpenAt(i) /\ CountAt(i)' = CountAt(i)
      BY <1>1, <1>2, <2>1
    <3>2. /\ to_r[i].kind \in {"header", "chunk"}
          /\ to_r[i].kind = "chunk" =>
               OpenAt(i) # NoFile /\ to_r[i].file = OpenAt(i) /\ to_r[i].index = CountAt(i) + 1
      BY <1>4, <2>1 DEF Stream
    <3>3. QED
      BY <1>4, <2>1, <3>1, <3>2
  <2>2. CASE link = "up" /\ i = n /\ to_r'[i] = m
    <3>1. OpenAt(i)' = OpenAt(n) /\ CountAt(i)' = CountAt(n)
      BY <1>1, <1>2, <2>2
    <3>2. i = Len(to_r')
      BY <1>1, <2>2
    <3>3. QED
      BY <1>4, <2>2, <3>1, <3>2
  <2>3. QED
    BY <1>1, <2>1, <2>2
<1>7. QED
  BY <1>5, <1>6

LEMMA SendChunkPreserves ==
  ASSUME IInv, SendChunk
  PROVE  IInv'
<1> DEFINE m == Chunk(sending, chunks[sending] + 1)
<1>1. /\ s = "chunks" /\ chunks[sending] < Chunks
      /\ to_r' = IF link = "up" THEN Append(to_r, m) ELSE to_r
      /\ chunks' = [chunks EXCEPT ![sending] = @ + 1]
      /\ UNCHANGED <<taskVars, fnVars, s_status, r_status, to_s, linkVars, pinVars,
                     file_map, handed, sending, read, fileVars>>
  BY DEF SendChunk
<1>2. sending \in Sent /\ sending \in File
  BY <1>1 DEF IInv, TypeOK, FileOrder, Sent
<1>3. chunks[sending] + 1 \in 1 .. Chunks /\ chunks[sending] \in Nat
      /\ chunks' \in [File -> 0 .. Chunks]
  BY <1>1, <1>2, WebRtcAssumption, SMTT(30) DEF IInv, TypeOK
<1>4. /\ m \in Message /\ m.kind = "chunk" /\ m.file = sending
      /\ m.index = chunks[sending] + 1
  BY <1>2, <1>3, MessageKinds
<1> HIDE DEF m
<1>5. /\ to_r' \in Seq(Message) /\ Len(to_r) \in Nat /\ r_acked \in 0 .. Len(to_r')
      /\ \A j \in 1 .. Len(to_r) : to_r'[j] = to_r[j]
      /\ \/ link = "up" /\ Len(to_r') = Len(to_r) + 1 /\ to_r'[Len(to_r) + 1] = m
         \/ link # "up" /\ to_r' = to_r
      /\ \A i \in 1 .. Len(to_r') :
           \/ i \in 1 .. Len(to_r) /\ to_r'[i] = to_r[i]
           \/ link = "up" /\ i = Len(to_r) + 1 /\ to_r'[i] = m
  BY <1>1, <1>4, Appended
<1>6. UNCHANGED <<s, r, link, file_state, next_file, received, ended>> /\ Sent' = Sent
  BY <1>1 DEF taskVars, linkVars, fileVars, Sent
<1>7. TypeOK' /\ TriesRemain'
  <2>1. TypeOK'
    BY <1>1, <1>3, <1>5, SMTT(30) DEF IInv, TypeOK, taskVars, fnVars, linkVars, pinVars, fileVars
  <2>2. TriesRemain'
    BY <1>1, <1>6 DEF IInv, TriesRemain, pinVars
  <2>3. QED
    BY <2>1, <2>2
<1>8. PinsTold' /\ PinsComeFirst'
  BY <1>1, <1>4, <1>5, <1>6, PinsKept DEF pinVars
<1>9. \A f \in File : f # sending => chunks'[f] = chunks[f]
  BY <1>1 DEF IInv, TypeOK
<1>10. chunks'[sending] = chunks[sending] + 1
  BY <1>1, <1>2 DEF IInv, TypeOK
<1>11. Streaming /\ link = "up" =>
         /\ OpenAt(Len(to_r) + 1) = sending /\ sending # NoFile
         /\ CountAt(Len(to_r) + 1) = chunks[sending]
  BY <1>1, <1>2, WebRtcAssumption DEF IInv, StreamEnd
<1>12. Stream'
  <2>1. Streaming => \A i \in 1 .. Len(to_r) :
           to_r[i].kind # "chunk" /\ OpenAt(i) # NoFile =>
             OpenAt(i) # sending' /\ chunks'[OpenAt(i)] = CountAt(i)
    <3> SUFFICES ASSUME Streaming, NEW i \in 1 .. Len(to_r), to_r[i].kind # "chunk", OpenAt(i) # NoFile
                 PROVE  OpenAt(i) # sending' /\ chunks'[OpenAt(i)] = CountAt(i)
      OBVIOUS
    <3>1. OpenAt(i) # sending /\ chunks[OpenAt(i)] = CountAt(i)
      BY DEF IInv, Stream
    <3>2. i \in 1 .. Len(to_r) + 1
      BY <1>5
    <3>3. OpenAt(i) \in File
      BY <1>1, <3>2, OpenHanded DEF IInv, TypeOK, Sent
    <3>4. QED
      BY <1>1, <1>9, <3>1, <3>3
  <2>2. Streaming /\ link = "up" =>
           LET n == Len(to_r) + 1 IN
           /\ m.kind \in {"header", "chunk", "delimiter"}
           /\ m.kind = "chunk" =>
                OpenAt(n) # NoFile /\ m.file = OpenAt(n) /\ m.index = CountAt(n) + 1
           /\ m.kind # "chunk" /\ OpenAt(n) # NoFile =>
                OpenAt(n) # sending' /\ chunks'[OpenAt(n)] = CountAt(n)
           /\ m.kind = "delimiter" =>
                s' \in {"last", "ok"} /\ (OpenAt(n) # NoFile \/ Sent' = {})
    BY <1>4, <1>11
  <2>3. QED
    BY <1>1, <1>4, <1>6, <2>1, <2>2, AppendStream
<1>13. StreamEnd'
  <2> SUFFICES ASSUME Streaming', link' = "up"
               PROVE  /\ OpenAt(Len(to_r) + 1)' = sending /\ CountAt(Len(to_r) + 1)' = chunks'[sending]
    BY <1>1, <1>2, <1>6, WebRtcAssumption DEF StreamEnd
  <2>1. Len(to_r') + 1 # 1 /\ (Len(to_r') + 1) - 1 = Len(to_r) + 1 /\ to_r'[Len(to_r) + 1] = m
    BY <1>5, <1>6
  <2>2. QED
    BY <1>4, <1>10, <2>1 DEF OpenAt, CountAt
<1>14. Files'
  <2>1. FileOrder'
    BY <1>1, <1>6 DEF IInv, FileOrder
  <2>2. sending \notin ended
    BY DEF IInv, EndedWhole
  <2>3. FilePrefixes'
    BY <1>1, <1>2, <1>6, <1>9 DEF IInv, FilePrefixes, Sent
  <2>4. EndedWhole'
    BY <1>1, <1>6, <1>9, <2>2 DEF IInv, TypeOK, EndedWhole
  <2>5. EndedFilesAreWhole'
    BY <1>1, <1>6, <1>7, <2>3, <2>4, WholeFromPrefixes DEF TypeOK, IInv, EndedFilesAreWhole
  <2>6. HeadersFresh'
    <3>1. \A i \in 1 .. Len(to_r') : to_r'[i].kind = "header" => i \in 1 .. Len(to_r) /\ to_r'[i] = to_r[i]
      BY <1>4, <1>5
    <3>2. \A i \in 1 .. Len(to_r') : to_r'[i].kind \in {"header", "chunk"} => to_r'[i].file \in Sent
      BY <1>2, <1>4, <1>5 DEF IInv, HeadersFresh
    <3>3. QED
      BY <1>6, <3>1, <3>2 DEF IInv, HeadersFresh
  <2>7. LastFileAwaited'
    BY <1>1, <1>6 DEF LastFileAwaited
  <2>8. QED
    BY <1>12, <1>13, <2>1, <2>3, <2>4, <2>5, <2>6, <2>7 DEF Files
<1>15. Short' /\ Lockstep' /\ InStep'
  <2>1. /\ s' \in {"send", "chunks", "last"} \cup Over /\ s' # "err"
        /\ link = "up" => r \in LateReceiver
    BY <1>1, <1>6 DEF IInv, Lockstep, LateReceiver
  <2>2. \A i \in 1 .. Len(to_s') : to_s'[i].kind = "response"
    BY <1>1 DEF IInv, Short
  <2>3. to_s' \in Seq(Message) /\ (to_r' = to_r \/ link = "up")
    BY <1>5, <1>7 DEF TypeOK
  <2>4. QED
    BY <1>5, <1>6, <1>12, <2>1, <2>2, <2>3, LateSenderTogether
<1>16. QED
  BY <1>7, <1>8, <1>14, <1>15, LatePreserves

\* A file with a token: its header goes into the stream.
LEMMA HandGrantedFilePreserves ==
  ASSUME IInv, NEW f \in File, HandFile(f), f \in file_map, s' = "chunks", sending' = f,
         to_r' = IF link = "up" THEN Append(to_r, Header(f)) ELSE to_r
  PROVE  IInv'
<1> DEFINE m == Header(f)
<1>1. /\ s = "send" /\ f \notin handed /\ handed' = handed \cup {f}
      /\ UNCHANGED <<r, fnVars, s_status, r_status, to_s, linkVars, pinVars, file_map,
                     chunks, read, fileVars>>
  BY DEF HandFile
<1>2. UNCHANGED <<r, link, file_state, next_file, received, ended>>
  BY <1>1 DEF linkVars, fileVars
<1>3. /\ Sent \subseteq Sent' /\ f \in Sent' /\ f \notin Sent /\ f # NoFile
      /\ ended \subseteq Sent /\ f \notin ended \cup {file_state, next_file}
      /\ chunks[f] = 0 /\ sending = NoFile
  BY <1>1, WebRtcAssumption DEF IInv, Sent, FileOrder, FilePrefixes
<1>4. m \in Message /\ m.kind = "header" /\ m.file = f
  BY MessageKinds
<1> HIDE DEF m
<1>5. /\ to_r' \in Seq(Message) /\ Len(to_r) \in Nat /\ r_acked \in 0 .. Len(to_r')
      /\ \A j \in 1 .. Len(to_r) : to_r'[j] = to_r[j]
      /\ \/ link = "up" /\ Len(to_r') = Len(to_r) + 1 /\ to_r'[Len(to_r) + 1] = m
         \/ link # "up" /\ to_r' = to_r
      /\ \A i \in 1 .. Len(to_r') :
           \/ i \in 1 .. Len(to_r) /\ to_r'[i] = to_r[i]
           \/ link = "up" /\ i = Len(to_r) + 1 /\ to_r'[i] = m
  BY <1>4, Appended DEF m
<1>6. TypeOK' /\ TriesRemain'
  <2>1. s' \in SenderAt
    BY DEF SenderAt
  <2>2. TypeOK'
    BY <1>1, <1>5, <2>1, ZenonT(40) DEF IInv, TypeOK, fnVars, linkVars, pinVars, fileVars
  <2>3. TriesRemain'
    BY <1>1, <1>2 DEF IInv, TriesRemain, pinVars
  <2>4. QED
    BY <2>2, <2>3
<1>7. PinsTold' /\ PinsComeFirst'
  <2>1. (s' \in Late => s \in Late) /\ s' # "check_pin"
    BY <1>1 DEF Late
  <2>2. QED
    BY <1>1, <1>2, <1>4, <1>5, <2>1, PinsKept DEF pinVars
<1>8. Stream'
  <2>1. Streaming => \A i \in 1 .. Len(to_r) + 1 : OpenAt(i) # f
    BY <1>1, <1>3, OpenHanded
  <2>2. Streaming => \A i \in 1 .. Len(to_r) :
           to_r[i].kind # "chunk" /\ OpenAt(i) # NoFile =>
             OpenAt(i) # sending' /\ chunks'[OpenAt(i)] = CountAt(i)
    BY <1>1, <1>5, <2>1 DEF IInv, Stream
  <2>3. Streaming /\ link = "up" =>
           LET n == Len(to_r) + 1 IN
           /\ m.kind \in {"header", "chunk", "delimiter"}
           /\ m.kind = "chunk" =>
                OpenAt(n) # NoFile /\ m.file = OpenAt(n) /\ m.index = CountAt(n) + 1
           /\ m.kind # "chunk" /\ OpenAt(n) # NoFile =>
                OpenAt(n) # sending' /\ chunks'[OpenAt(n)] = CountAt(n)
           /\ m.kind = "delimiter" =>
                s' \in {"last", "ok"} /\ (OpenAt(n) # NoFile \/ Sent' = {})
    <3>1. Len(to_r) + 1 \in 1 .. Len(to_r) + 1
      BY <1>5
    <3>2. QED
      BY <1>1, <1>4, <2>1, <3>1 DEF IInv, StreamEnd
  <2>4. to_r' = IF link = "up" THEN Append(to_r, m) ELSE to_r
    BY DEF m
  <2>5. QED
    BY <1>1, <1>2, <1>4, <2>2, <2>3, <2>4, AppendStream
<1>9. StreamEnd'
  <2> SUFFICES ASSUME Streaming', link' = "up"
               PROVE  OpenAt(Len(to_r) + 1)' = f /\ CountAt(Len(to_r) + 1)' = 0
    BY <1>1, <1>3 DEF StreamEnd
  <2>1. Len(to_r') + 1 # 1 /\ (Len(to_r') + 1) - 1 = Len(to_r) + 1 /\ to_r'[Len(to_r) + 1] = m
    BY <1>2, <1>5
  <2>2. QED
    BY <1>4, <2>1 DEF OpenAt, CountAt
<1>10. Files'
  <2>1. FileOrder'
    BY <1>1, <1>2, <1>3 DEF IInv, FileOrder
  <2>2. FilePrefixes' /\ EndedWhole'
    BY <1>1, <1>2, <1>3 DEF IInv, FilePrefixes, EndedWhole
  <2>3. EndedFilesAreWhole'
    BY <1>1, <1>2 DEF IInv, EndedFilesAreWhole
  <2>4. HeadersFresh'
    <3>1. \A i \in 1 .. Len(to_r) :
            /\ to_r[i].kind \in {"header", "chunk"} => to_r[i].file \in Sent
            /\ to_r[i].kind = "header" => to_r[i].file # f
      BY <1>3 DEF IInv, HeadersFresh
    <3>2. \A i \in 1 .. Len(to_r') : to_r'[i].kind \in {"header", "chunk"} => to_r'[i].file \in Sent'
      BY <1>3, <1>4, <1>5, <3>1
    <3>3. \A i \in 1 .. Len(to_r') : to_r'[i].kind = "header" =>
            to_r'[i].file \notin ended' \cup {file_state', next_file'}
      BY <1>2, <1>3, <1>4, <1>5 DEF IInv, HeadersFresh
    <3>4. ASSUME NEW i \in 1 .. Len(to_r'), NEW j \in 1 .. Len(to_r'), to_r'[i].kind = "header",
                 to_r'[j].kind = "header", to_r'[j].file = to_r'[i].file
          PROVE  i = j
      <4>1. CASE to_r'[i].file = f
        BY <1>5, <3>1, <3>4, <4>1
      <4>2. CASE to_r'[i].file # f
        <5>1. /\ i \in 1 .. Len(to_r) /\ to_r'[i] = to_r[i]
              /\ j \in 1 .. Len(to_r) /\ to_r'[j] = to_r[j]
          BY <1>4, <1>5, <3>4, <4>2
        <5>2. QED
          BY <3>4, <5>1 DEF IInv, HeadersFresh
      <4>3. QED
        BY <4>1, <4>2
    <3>5. QED
      BY <3>2, <3>3, <3>4 DEF HeadersFresh
  <2>5. LastFileAwaited'
    BY DEF LastFileAwaited
  <2>6. QED
    BY <1>8, <1>9, <2>1, <2>2, <2>3, <2>4, <2>5 DEF Files
<1>11. Short' /\ Lockstep' /\ InStep'
  <2>1. /\ s' \in {"send", "chunks", "last"} \cup Over /\ s' # "err"
        /\ link = "up" => r \in LateReceiver
    BY <1>1 DEF IInv, Lockstep, LateReceiver
  <2>2. \A i \in 1 .. Len(to_s') : to_s'[i].kind = "response"
    BY <1>1 DEF IInv, Short
  <2>3. to_s' \in Seq(Message) /\ (to_r' = to_r \/ link = "up")
    BY <1>5, <1>6 DEF TypeOK
  <2>4. QED
    BY <1>2, <1>5, <1>8, <2>1, <2>2, <2>3, LateSenderTogether
<1>12. QED
  BY <1>6, <1>7, <1>10, <1>11, LatePreserves

\* A file without a token, or one whose header is not sent any more.
LEMMA HandFilePreserves ==
  ASSUME IInv, NEW f \in File, HandFile(f)
  PROVE  IInv'
<1>1. CASE /\ f \in file_map /\ s' = "chunks" /\ sending' = f
           /\ to_r' = IF link = "up" THEN Append(to_r, Header(f)) ELSE to_r
  BY <1>1, HandGrantedFilePreserves
<1>2. CASE (f \notin file_map \/ link # "up") /\ UNCHANGED <<s, sending, to_r>>
  <2>1. /\ s = "send" /\ f \notin handed /\ handed' = handed \cup {f}
        /\ UNCHANGED <<r, fnVars, s_status, r_status, to_s, linkVars, pinVars, file_map,
                       chunks, read, fileVars>>
    BY DEF HandFile
  <2>2. UNCHANGED <<r, link, file_state, next_file, received, ended>>
    BY <2>1 DEF linkVars, fileVars
  <2>3. /\ Sent \subseteq Sent' /\ (link = "up" => Sent' = Sent)
    BY <1>2, <2>1 DEF Sent
  <2>4. TypeOK' /\ TriesRemain'
    <3>1. TypeOK'
      BY <1>2, <2>1, SMTT(30) DEF IInv, TypeOK, fnVars, linkVars, pinVars, fileVars
    <3>2. TriesRemain'
      BY <1>2, <2>1 DEF IInv, TriesRemain, pinVars
    <3>3. QED
      BY <3>1, <3>2
  <2>5. PinsTold' /\ PinsComeFirst'
    BY <1>2, <2>1, <2>4, PinsKept DEF pinVars, TypeOK
  <2>6. Stream' /\ StreamEnd'
    <3>1. \A i \in 1 .. Len(to_r) + 1 : OpenAt(i)' = OpenAt(i) /\ CountAt(i)' = CountAt(i)
      BY <1>2, <2>1, <2>2, SameOpen
    <3>2. Len(to_r) \in Nat
      BY DEF IInv, TypeOK
    <3>3. Stream'
      BY <1>2, <2>1, <2>2, <3>1, <3>2 DEF IInv, Stream, Streaming
    <3>4. StreamEnd'
      BY <1>2, <2>1, <2>2, <2>3, <3>1, <3>2 DEF IInv, StreamEnd, Streaming
    <3>5. QED
      BY <3>3, <3>4
  <2>7. Files'
    <3>1. FileOrder'
      BY <1>2, <2>1, <2>2, <2>3 DEF IInv, FileOrder
    <3>2. FilePrefixes' /\ EndedWhole'
      BY <1>2, <2>1, <2>2 DEF IInv, FilePrefixes, EndedWhole
    <3>3. EndedFilesAreWhole'
      BY <2>1, <2>2 DEF IInv, EndedFilesAreWhole
    <3>4. HeadersFresh'
      BY <1>2, <2>2, <2>3 DEF IInv, HeadersFresh
    <3>5. LastFileAwaited'
      BY <1>2, <2>1 DEF LastFileAwaited
    <3>6. QED
      BY <2>6, <3>1, <3>2, <3>3, <3>4, <3>5 DEF Files
  <2>8. Short' /\ Lockstep' /\ InStep'
    <3>1. /\ s' \in {"send", "chunks", "last"} \cup Over /\ s' # "err"
          /\ link = "up" => r \in LateReceiver
      BY <1>2, <2>1 DEF IInv, Lockstep, LateReceiver
    <3>2. \A i \in 1 .. Len(to_s') : to_s'[i].kind = "response"
      BY <2>1 DEF IInv, Short
    <3>3. to_s' \in Seq(Message) /\ to_r' \in Seq(Message)
      BY <2>4 DEF TypeOK
    <3>4. QED
      BY <1>2, <2>2, <2>6, <3>1, <3>2, <3>3, LateSenderTogether
  <2>9. QED
    BY <2>4, <2>5, <2>7, <2>8, LatePreserves
<1>3. QED
  BY <1>1, <1>2 DEF HandFile

LEMMA SendDelimiterPreserves ==
  ASSUME IInv, SendDelimiter
  PROVE  IInv'
<1> DEFINE m == Plain("delimiter")
<1>1. /\ s = "send"
      /\ r_acked' = IF link = "up" THEN Len(to_r) ELSE r_acked
      /\ SenderSays(<<m>>, "last")
      /\ UNCHANGED <<r, fnVars, s_status, r_status, to_s, link, s_acked, pinVars, sendVars,
                     fileVars>>
  BY DEF SendDelimiter
<1>2. UNCHANGED <<r, link, file_state, next_file, received, ended, file_map, handed, sending, chunks>>
      /\ Sent' = Sent
  BY <1>1 DEF sendVars, fileVars, Sent
<1>3. m \in Message /\ m.kind = "delimiter"
  BY MessageKinds
<1> HIDE DEF m
<1>4. /\ to_r' = IF link = "up" THEN Append(to_r, m) ELSE to_r
      /\ s' \in {"last", "err"} /\ (s' = "err" => link # "up")
  BY <1>1, <1>3, SayOne, SMTT(30) DEF SenderSays, IInv, TypeOK
<1>5. /\ to_r' \in Seq(Message) /\ Len(to_r) \in Nat /\ r_acked \in 0 .. Len(to_r')
      /\ \/ link = "up" /\ Len(to_r') = Len(to_r) + 1 /\ to_r'[Len(to_r) + 1] = m
         \/ link # "up" /\ to_r' = to_r
      /\ \A i \in 1 .. Len(to_r') :
           \/ i \in 1 .. Len(to_r) /\ to_r'[i] = to_r[i]
           \/ link = "up" /\ i = Len(to_r) + 1 /\ to_r'[i] = m
  BY <1>3, <1>4, Appended
<1>6. TypeOK' /\ TriesRemain'
  <2>1. s' \in SenderAt
    BY <1>4 DEF SenderAt, Over
  <2>2. r_acked' \in 0 .. Len(to_r')
    BY <1>1, <1>5
  <2>3. TypeOK'
    BY <1>1, <1>5, <2>1, <2>2, SMTT(30) DEF IInv, TypeOK, fnVars, pinVars, sendVars, fileVars
  <2>4. TriesRemain'
    BY <1>1, <1>4 DEF IInv, TriesRemain, pinVars
  <2>5. QED
    BY <2>3, <2>4
<1>7. PinsTold' /\ PinsComeFirst'
  <2>1. (s' \in Late => s \in Late) /\ s' # "check_pin"
    BY <1>1, <1>4 DEF Late
  <2>2. QED
    BY <1>1, <1>2, <1>3, <1>5, <2>1, PinsKept DEF pinVars
<1>8. Stream'
  <2>1. sending = NoFile
    BY <1>1 DEF IInv, FileOrder
  <2>2. Streaming => \A i \in 1 .. Len(to_r) :
           to_r[i].kind # "chunk" /\ OpenAt(i) # NoFile =>
             OpenAt(i) # sending' /\ chunks'[OpenAt(i)] = CountAt(i)
    BY <1>2 DEF IInv, Stream
  <2>3. Streaming /\ link = "up" =>
           LET n == Len(to_r) + 1 IN
           /\ m.kind \in {"header", "chunk", "delimiter"}
           /\ m.kind = "chunk" =>
                OpenAt(n) # NoFile /\ m.file = OpenAt(n) /\ m.index = CountAt(n) + 1
           /\ m.kind # "chunk" /\ OpenAt(n) # NoFile =>
                OpenAt(n) # sending' /\ chunks'[OpenAt(n)] = CountAt(n)
           /\ m.kind = "delimiter" =>
                s' \in {"last", "ok"} /\ (OpenAt(n) # NoFile \/ Sent' = {})
    <3>1. Streaming /\ link = "up" =>
            /\ OpenAt(Len(to_r) + 1) # NoFile =>
                 chunks[OpenAt(Len(to_r) + 1)] = CountAt(Len(to_r) + 1)
            /\ OpenAt(Len(to_r) + 1) = NoFile => Sent = {}
      BY <1>1 DEF IInv, StreamEnd
    <3>2. QED
      BY <1>2, <1>3, <1>4, <2>1, <3>1
  <2>4. QED
    BY <1>1, <1>2, <1>3, <1>4, <2>2, <2>3, AppendStream
<1>9. Files'
  <2>1. StreamEnd' /\ LastFileAwaited'
    BY <1>4 DEF StreamEnd, LastFileAwaited
  <2>2. FileOrder'
    BY <1>1, <1>2, <1>4 DEF IInv, FileOrder, Over
  <2>3. FilePrefixes' /\ EndedWhole'
    BY <1>2 DEF IInv, FilePrefixes, EndedWhole
  <2>4. EndedFilesAreWhole'
    BY <1>1, <1>2 DEF IInv, EndedFilesAreWhole
  <2>5. HeadersFresh'
    <3>1. \A i \in 1 .. Len(to_r') : to_r'[i].kind \in {"header", "chunk"} =>
            i \in 1 .. Len(to_r) /\ to_r'[i] = to_r[i]
      BY <1>3, <1>5
    <3>2. QED
      BY <1>2, <3>1 DEF IInv, HeadersFresh
  <2>6. QED
    BY <1>8, <2>1, <2>2, <2>3, <2>4, <2>5 DEF Files
<1>10. Short' /\ Lockstep' /\ InStep'
  <2>1. /\ s' \in {"send", "chunks", "last"} \cup Over /\ (s' = "err" => link # "up")
        /\ link = "up" => r \in LateReceiver
    BY <1>1, <1>4 DEF IInv, Lockstep, LateReceiver, Over
  <2>2. \A i \in 1 .. Len(to_s') : to_s'[i].kind = "response"
    BY <1>1 DEF IInv, Short
  <2>3. to_s' \in Seq(Message) /\ (to_r' = to_r \/ link = "up")
    BY <1>5, <1>6 DEF TypeOK
  <2>4. QED
    BY <1>2, <1>5, <1>8, <2>1, <2>2, <2>3, LateSenderTogether
<1>11. QED
  BY <1>6, <1>7, <1>9, <1>10, LatePreserves

\* The receiver takes one message off the stream.
LEMMA Takes ==
  ASSUME IInv, r = "receive", to_r # <<>>, ReceiverReads(1)
  PROVE  /\ to_r' = Tail(to_r) /\ to_r' \in Seq(Message) /\ Len(to_r') = Len(to_r) - 1
         /\ \A i \in 1 .. Len(to_r') : i + 1 \in 1 .. Len(to_r) /\ to_r'[i] = to_r[i + 1]
         /\ Len(to_r) \in Nat /\ 1 \in 1 .. Len(to_r) /\ Head(to_r) = to_r[1] /\ to_r[1] \in Message
         /\ UNCHANGED <<link, s_acked>> /\ r_acked' \in 0 .. Len(to_r')
         /\ to_r[1].kind \in {"header", "chunk", "delimiter"}
         /\ link = "up" => s \in {"send", "chunks", "last", "ok"}
<1>1. to_r \in Seq(Message) /\ r_acked \in 0 .. Len(to_r)
  BY DEF IInv, TypeOK
<1>2. /\ to_r' = Tail(to_r) /\ to_r' \in Seq(Message) /\ Len(to_r') = Len(to_r) - 1
      /\ \A i \in 1 .. Len(to_r') : i + 1 \in 1 .. Len(to_r) /\ to_r'[i] = to_r[i + 1]
      /\ Len(to_r) \in Nat /\ 1 \in 1 .. Len(to_r) /\ Head(to_r) = to_r[1] /\ to_r[1] \in Message
  <2>1. SubSeq(to_r, 1 + 1, Len(to_r)) = Tail(to_r) /\ Len(to_r) \in Nat
    BY <1>1, TailQueue
  <2>2. to_r' = Tail(to_r)
    BY <2>1 DEF ReceiverReads
  <2>3. QED
    BY <1>1, <2>1, <2>2, TailQueue
<1>3. UNCHANGED <<link, s_acked>> /\ r_acked' \in 0 .. Len(to_r')
  BY <1>1, <1>2 DEF ReceiverReads, After
<1>4. to_r[1].kind \in {"header", "chunk", "delimiter"}
  BY <1>2 DEF IInv, Stream, Streaming
<1>5. link = "up" => s \in {"send", "chunks", "last", "ok"}
  BY DEF IInv, TypeOK, SenderAt, Over, Lockstep
<1>6. QED
  BY <1>2, <1>3, <1>4, <1>5

\* The pins and the handshake after such a step.
LEMMA TakesRest ==
  ASSUME IInv, r = "receive", to_r # <<>>, ReceiverReads(1), r' \in LateReceiver \ {"drain"},
         UNCHANGED <<s, to_s, pinVars, file_map>>, Stream'
  PROVE  /\ TriesRemain'
         /\ PinsTold' /\ PinsComeFirst'
         /\ Short' /\ Lockstep' /\ InStep'
<1>1. /\ to_r' \in Seq(Message)
      /\ \A i \in 1 .. Len(to_r') : i + 1 \in 1 .. Len(to_r) /\ to_r'[i] = to_r[i + 1]
      /\ UNCHANGED link
      /\ link = "up" => s \in {"send", "chunks", "last", "ok"}
  BY Takes
<1>2. TriesRemain'
  BY DEF IInv, TriesRemain, pinVars, LateReceiver, Over
<1>3. PinsTold' /\ PinsComeFirst'
  <2>1. r \in LateRead
    BY DEF LateRead
  <2>2. QED
    BY <1>1, <2>1, PinsKept DEF pinVars
<1>4. Short' /\ Lockstep' /\ InStep'
  <2>1. to_s' \in Seq(Message)
    BY DEF IInv, TypeOK
  <2>2. QED
    BY <1>1, <2>1, LateReceiverTogether
<1>5. QED
  BY <1>2, <1>3, <1>4

\* A file's content grows by its next chunk.
LEMMA NextChunk ==
  ASSUME NEW f \in File, NEW q \in Seq(File \X (1 .. Chunks)),
         q = [i \in 1 .. Len(q) |-> <<f, i>>]
  PROVE  LET t == Append(q, <<f, Len(q) + 1>>) IN
         Len(t) = Len(q) + 1 /\ t = [i \in 1 .. Len(t) |-> <<f, i>>]
<1> DEFINE t == Append(q, <<f, Len(q) + 1>>)
           u == [i \in 1 .. Len(q) + 1 |-> <<f, i>>]
<1>1. Len(q) \in Nat
  OBVIOUS
<1>2. /\ Len(t) = Len(q) + 1 /\ DOMAIN t = 1 .. Len(q) + 1
      /\ \A i \in 1 .. Len(q) : t[i] = q[i]
      /\ t[Len(q) + 1] = <<f, Len(q) + 1>>
  OBVIOUS
<1>3. \A i \in 1 .. Len(q) + 1 : t[i] = <<f, i>>
  BY <1>1, <1>2
<1>4. QED
  BY <1>2, <1>3

LEMMA ReceiveChunkPreserves ==
  ASSUME IInv, ReceiveChunk
  PROVE  IInv'
<1>1. /\ r = "receive" /\ to_r # <<>> /\ Head(to_r).kind = "chunk" /\ ReceiverReads(1)
      /\ file_state # NoFile
      /\ UNCHANGED <<s, fnVars, s_status, r_status, to_s, pinVars, sendVars, file_state,
                     next_file, ended, app>>
  BY DEF ReceiveChunk
<1>2. /\ to_r' = Tail(to_r) /\ to_r' \in Seq(Message) /\ Len(to_r') = Len(to_r) - 1
      /\ \A i \in 1 .. Len(to_r') : i + 1 \in 1 .. Len(to_r) /\ to_r'[i] = to_r[i + 1]
      /\ Len(to_r) \in Nat /\ 1 \in 1 .. Len(to_r) /\ Head(to_r) = to_r[1] /\ to_r[1] \in Message
      /\ UNCHANGED <<link, s_acked>> /\ r_acked' \in 0 .. Len(to_r')
  BY <1>1, Takes
<1>3. /\ UNCHANGED <<file_map, handed, sending, chunks, read>> /\ Sent' = Sent
      /\ file_state \in File /\ file_state \notin ended /\ next_file = NoFile
  BY <1>1 DEF sendVars, Sent, IInv, TypeOK, FileOrder
<1>4. /\ to_r[1].file = file_state /\ to_r[1].index = Len(received[file_state]) + 1
      /\ to_r[1].index \in 1 .. Chunks
  BY <1>1, <1>2, MessageFields DEF IInv, Stream, Streaming, OpenAt, CountAt, Cur
<1>5. HeadersFresh'
  BY <1>1, <1>2, <1>3 DEF IInv, HeadersFresh
<1>6. CASE /\ app = "reads" /\ UNCHANGED r
           /\ received' = [received EXCEPT ![file_state] =
                             Append(@, <<Head(to_r).file, Head(to_r).index>>)]
  <2> DEFINE q == received[file_state]
  <2>1. q \in Seq(File \X (1 .. Chunks)) /\ q = [i \in 1 .. Len(q) |-> <<file_state, i>>]
    BY <1>3 DEF IInv, TypeOK, FilePrefixes
  <2>2. /\ received' = [received EXCEPT ![file_state] = Append(q, <<file_state, Len(q) + 1>>)]
        /\ Append(q, <<file_state, Len(q) + 1>>) \in Seq(File \X (1 .. Chunks))
    <3>1. <<file_state, Len(q) + 1>> \in File \X (1 .. Chunks)
      BY <1>3, <1>4
    <3>2. Append(q, <<file_state, Len(q) + 1>>) \in Seq(File \X (1 .. Chunks))
      BY <2>1, <3>1
    <3>3. <<Head(to_r).file, Head(to_r).index>> = <<file_state, Len(q) + 1>>
      BY <1>2, <1>4
    <3>4. QED
      BY <1>6, <3>2, <3>3
  <2>3. /\ Len(Append(q, <<file_state, Len(q) + 1>>)) = Len(q) + 1
        /\ Append(q, <<file_state, Len(q) + 1>>) =
             [i \in 1 .. Len(Append(q, <<file_state, Len(q) + 1>>)) |-> <<file_state, i>>]
    BY <1>3, <2>1, NextChunk
  <2>4. /\ received'[file_state] = Append(q, <<file_state, Len(q) + 1>>)
        /\ \A f \in File : f # file_state => received'[f] = received[f]
        /\ received' \in [File -> Seq(File \X (1 .. Chunks))]
    BY <1>3, <2>2 DEF IInv, TypeOK
  <2>5. TypeOK'
    BY <1>1, <1>2, <1>3, <1>6, <2>4 DEF IInv, TypeOK, fnVars, pinVars
  <2>6. Stream' /\ StreamEnd'
    <3>1. Cur' = file_state /\ Streaming /\ r' = "receive"
      BY <1>1, <1>6 DEF Cur, Streaming
    <3>2. Len(received[Cur])' = CountAt(2)
      BY <1>1, <1>2, <1>4, <2>3, <2>4, <3>1 DEF CountAt
    <3>3. QED
      BY <1>1, <1>2, <1>3, <1>4, <3>1, <3>2, ReadsStream
  <2>7. FilePrefixes'
    BY <1>1, <1>3, <2>3, <2>4, ZenonT(40) DEF IInv, FilePrefixes
  <2>8. EndedWhole'
    BY <1>1, <1>3, <2>4 DEF IInv, TypeOK, EndedWhole
  <2>9. EndedFilesAreWhole'
    BY <1>1, <2>5, <2>7, <2>8, WholeFromPrefixes DEF TypeOK, IInv, EndedFilesAreWhole
  <2>10. FileOrder' /\ LastFileAwaited'
    BY <1>1, <1>3, <1>6 DEF IInv, FileOrder, LastFileAwaited
  <2>11. r' \in LateReceiver \ {"drain"}
    BY <1>1, <1>6 DEF LateReceiver, Over
  <2>12. QED
    BY <1>1, <1>3, <1>5, <2>5, <2>6, <2>7, <2>8, <2>9, <2>10, <2>11, TakesRest, LatePreserves
    DEF Files
<1>7. CASE r' = "err" /\ UNCHANGED received
  <2>1. Stream' /\ StreamEnd'
    BY <1>7 DEF Stream, StreamEnd, Streaming
  <2>2. TypeOK'
    BY <1>1, <1>2, <1>3, <1>7, SMTT(30) DEF IInv, TypeOK, fnVars, pinVars, ReceiverAt, Over
  <2>3. FilePrefixes' /\ EndedWhole' /\ FileOrder' /\ LastFileAwaited'
    BY <1>1, <1>3, <1>7 DEF IInv, FilePrefixes, EndedWhole, FileOrder, LastFileAwaited
  <2>4. EndedFilesAreWhole'
    BY <1>1, <1>3, <1>7 DEF IInv, EndedFilesAreWhole
  <2>5. r' \in LateReceiver \ {"drain"}
    BY <1>7 DEF LateReceiver, Over
  <2>6. QED
    BY <1>1, <1>3, <1>5, <2>1, <2>2, <2>3, <2>4, <2>5, TakesRest, LatePreserves DEF Files
<1>8. QED
  BY <1>6, <1>7 DEF ReceiveChunk

LEMMA DelimiterAsHeaderPreserves ==
  ASSUME IInv, DelimiterAsHeader
  PROVE  IInv'
<1>1. /\ r = "receive" /\ to_r # <<>> /\ ReceiverReads(1) /\ r' = "err"
      /\ UNCHANGED <<s, fnVars, s_status, r_status, to_s, pinVars, sendVars, fileVars>>
  BY DEF DelimiterAsHeader
<1>2. /\ to_r' \in Seq(Message)
      /\ \A i \in 1 .. Len(to_r') : i + 1 \in 1 .. Len(to_r) /\ to_r'[i] = to_r[i + 1]
      /\ Len(to_r') = Len(to_r) - 1 /\ Len(to_r) \in Nat
      /\ UNCHANGED <<link, s_acked>> /\ r_acked' \in 0 .. Len(to_r')
  BY <1>1, Takes
<1>3. /\ UNCHANGED <<file_map, handed, sending, chunks, file_state, next_file, received, ended>>
      /\ Sent' = Sent
  BY <1>1 DEF sendVars, fileVars, Sent
<1>4. HeadersFresh'
  <2>0. HeadersFresh
    BY DEF IInv
  <2>1. ASSUME NEW i \in 1 .. Len(to_r')
        PROVE  /\ to_r'[i].kind \in {"header", "chunk"} => to_r'[i].file \in Sent'
               /\ to_r'[i].kind = "header" =>
                    to_r'[i].file \notin ended' \cup {file_state', next_file'}
    <3>1. i + 1 \in 1 .. Len(to_r) /\ to_r'[i] = to_r[i + 1]
      BY <1>2
    <3>2. QED BY <1>3, <2>0, <3>1 DEF HeadersFresh
  <2>2. ASSUME NEW i \in 1 .. Len(to_r'), NEW j \in 1 .. Len(to_r'),
               to_r'[i].kind = "header", to_r'[j].kind = "header", to_r'[j].file = to_r'[i].file
        PROVE  i = j
    <3>1. /\ i + 1 \in 1 .. Len(to_r) /\ to_r'[i] = to_r[i + 1]
          /\ j + 1 \in 1 .. Len(to_r) /\ to_r'[j] = to_r[j + 1]
      BY <1>2
    <3>2. i + 1 = j + 1
      BY <2>0, <2>2, <3>1 DEF HeadersFresh
    <3>3. i \in Int /\ j \in Int
      BY <1>2
    <3>4. QED BY <3>2, <3>3
  <2>3. QED BY <2>1, <2>2 DEF HeadersFresh
<1>5. Stream' /\ StreamEnd'
  BY <1>1 DEF Stream, StreamEnd, Streaming
<1>6. TypeOK'
  BY <1>1, <1>2, ZenonT(40) DEF IInv, TypeOK, fnVars, pinVars, sendVars, fileVars, ReceiverAt, Over
<1>7. FilePrefixes' /\ EndedWhole' /\ FileOrder' /\ LastFileAwaited'
  BY <1>1, <1>3 DEF IInv, FilePrefixes, EndedWhole, FileOrder, LastFileAwaited
<1>8. EndedFilesAreWhole'
  BY <1>1, <1>3 DEF IInv, EndedFilesAreWhole
<1>9. r' \in LateReceiver \ {"drain"}
  BY <1>1 DEF LateReceiver, Over
<1>10. QED
  BY <1>1, <1>3, <1>4, <1>5, <1>6, <1>7, <1>8, <1>9, TakesRest, LatePreserves DEF Files

LEMMA FirstHeaderPreserves ==
  ASSUME IInv, FirstHeader
  PROVE  IInv'
<1>1. /\ r = "receive" /\ to_r # <<>> /\ Head(to_r).kind = "header" /\ ReceiverReads(1)
      /\ file_state = NoFile /\ file_state' = Head(to_r).file
      /\ UNCHANGED <<taskVars, fnVars, s_status, r_status, to_s, pinVars, sendVars, next_file,
                     received, ended, app>>
  BY DEF FirstHeader
<1>2. /\ to_r' = Tail(to_r) /\ to_r' \in Seq(Message) /\ Len(to_r') = Len(to_r) - 1
      /\ \A i \in 1 .. Len(to_r') : i + 1 \in 1 .. Len(to_r) /\ to_r'[i] = to_r[i + 1]
      /\ Len(to_r) \in Nat /\ 1 \in 1 .. Len(to_r) /\ Head(to_r) = to_r[1] /\ to_r[1] \in Message
      /\ UNCHANGED <<link, s_acked>> /\ r_acked' \in 0 .. Len(to_r')
  BY <1>1, Takes
<1>3. /\ UNCHANGED <<s, r, file_map, handed, sending, chunks, read>> /\ Sent' = Sent
      /\ next_file = NoFile
  BY <1>1 DEF taskVars, sendVars, Sent, IInv, FileOrder
<1>4. /\ file_state' = to_r[1].file /\ file_state' \in File /\ file_state' # NoFile
      /\ file_state' \in Sent /\ file_state' \notin ended
      /\ received[file_state'] = <<>>
  <2>1. file_state' = to_r[1].file /\ to_r[1].file \in Sent /\ to_r[1].file \notin ended
    BY <1>1, <1>2 DEF IInv, HeadersFresh
  <2>2. to_r[1].file \in File /\ to_r[1].file # NoFile
    BY <1>1, <1>2, MessageFields, WebRtcAssumption
  <2>3. QED
    BY <1>1, <2>1, <2>2 DEF IInv, FilePrefixes
<1>5. HeadersFresh'
  <2>1. \A i \in 1 .. Len(to_r') : to_r'[i].kind = "header" => to_r'[i].file # file_state'
    <3>1. ASSUME NEW i \in 1 .. Len(to_r'), to_r'[i].kind = "header", to_r'[i].file = file_state'
          PROVE  FALSE
      <4>1. i + 1 \in 1 .. Len(to_r) /\ to_r[i + 1].kind = "header" /\ to_r[i + 1].file = to_r[1].file
        BY <1>2, <1>4, <3>1
      <4>2. i + 1 = 1
        BY <1>1, <1>2, <4>1 DEF IInv, HeadersFresh
      <4>3. QED
        BY <4>2
    <3>2. QED
      BY <3>1
  <2>2. QED
    BY <1>1, <1>2, <1>3, <2>1 DEF IInv, HeadersFresh
<1>6. Stream' /\ StreamEnd'
  <2>1. Cur' = file_state' /\ Streaming /\ r' = "receive"
    BY <1>1, <1>3 DEF Cur, Streaming
  <2>2. Len(received[Cur])' = CountAt(2)
    BY <1>1, <1>2, <1>4, <2>1 DEF CountAt
  <2>3. QED
    BY <1>1, <1>2, <1>3, <1>4, <2>1, <2>2, ReadsStream
<1>7. TypeOK'
  BY <1>1, <1>2, <1>3, <1>4, ZenonT(40) DEF IInv, TypeOK, fnVars, pinVars
<1>8. FileOrder' /\ LastFileAwaited'
  BY <1>1, <1>3, <1>4 DEF IInv, FileOrder, LastFileAwaited
<1>9. FilePrefixes' /\ EndedWhole'
  BY <1>1, <1>3, WebRtcAssumption DEF IInv, FilePrefixes, EndedWhole
<1>10. EndedFilesAreWhole'
  BY <1>1, <1>3 DEF IInv, EndedFilesAreWhole
<1>11. r' \in LateReceiver \ {"drain"}
  BY <1>1, <1>3 DEF LateReceiver, Over
<1>12. QED
  BY <1>1, <1>3, <1>5, <1>6, <1>7, <1>8, <1>9, <1>10, <1>11, TakesRest, LatePreserves DEF Files

LEMMA EndFilePreserves ==
  ASSUME IInv, EndFile
  PROVE  IInv'
<1>1. /\ r = "receive" /\ file_state # NoFile /\ to_r # <<>> /\ IsString(Head(to_r))
      /\ ReceiverReads(1) /\ r' = "result"
      /\ next_file' = IF Head(to_r).kind = "header" THEN Head(to_r).file ELSE NoFile
      /\ ended' = ended \cup {file_state}
      /\ UNCHANGED <<s, fnVars, s_status, r_status, to_s, pinVars, sendVars, file_state,
                     received, app>>
  BY DEF EndFile
<1>2. /\ to_r' = Tail(to_r) /\ to_r' \in Seq(Message) /\ Len(to_r') = Len(to_r) - 1
      /\ \A i \in 1 .. Len(to_r') : i + 1 \in 1 .. Len(to_r) /\ to_r'[i] = to_r[i + 1]
      /\ Len(to_r) \in Nat /\ 1 \in 1 .. Len(to_r) /\ Head(to_r) = to_r[1] /\ to_r[1] \in Message
      /\ UNCHANGED <<link, s_acked>> /\ r_acked' \in 0 .. Len(to_r')
      /\ to_r[1].kind \in {"header", "chunk", "delimiter"}
  BY <1>1, Takes
<1>3. /\ UNCHANGED <<file_map, handed, sending, chunks, read>> /\ Sent' = Sent
      /\ file_state \in File /\ file_state \in Sent
  BY <1>1 DEF sendVars, Sent, IInv, TypeOK, FileOrder
<1>4. to_r[1].kind \in {"header", "delimiter"}
  BY <1>1, <1>2 DEF IsString, Binary
<1>5. file_state # sending /\ chunks[file_state] = Len(received[file_state])
  BY <1>1, <1>2, <1>4 DEF IInv, Stream, Streaming, OpenAt, CountAt, Cur
<1>6. to_r[1].kind = "header" =>
        /\ next_file' = to_r[1].file /\ next_file' \in Sent /\ next_file' \in File
        /\ next_file' \notin ended /\ next_file' # file_state /\ next_file' # NoFile
        /\ received[next_file'] = <<>>
  <2>1. to_r[1].kind = "header" =>
          /\ next_file' = to_r[1].file /\ to_r[1].file \in Sent
          /\ to_r[1].file \notin ended \cup {file_state}
    BY <1>1, <1>2 DEF IInv, HeadersFresh
  <2>2. to_r[1].kind = "header" => to_r[1].file \in File /\ to_r[1].file # NoFile
    BY <1>2, MessageFields, WebRtcAssumption
  <2>3. QED
    BY <2>1, <2>2 DEF IInv, FilePrefixes
<1>7. to_r[1].kind = "delimiter" =>
        next_file' = NoFile /\ Len(to_r') = 0 /\ to_r' = <<>> /\ s \in {"last", "ok"}
  <2>1. to_r[1].kind = "delimiter" => 1 = Len(to_r) /\ s \in {"last", "ok"}
    BY <1>1, <1>2 DEF IInv, Stream, Streaming
  <2>2. to_r[1].kind = "delimiter" => next_file' = NoFile
    BY <1>1, <1>2
  <2>3. QED
    BY <1>2, <2>1, <2>2
<1>8. HeadersFresh'
  <2>1. \A i \in 1 .. Len(to_r') : to_r'[i].kind = "header" =>
           to_r'[i].file # file_state /\ to_r'[i].file # next_file'
    <3>1. ASSUME NEW i \in 1 .. Len(to_r'), to_r'[i].kind = "header"
          PROVE  to_r'[i].file # file_state /\ to_r'[i].file # next_file'
      <4>1. i + 1 \in 1 .. Len(to_r) /\ to_r[i + 1] = to_r'[i] /\ to_r[i + 1].kind = "header"
        BY <1>2, <3>1
      <4>2. to_r[i + 1].file \notin {file_state}
        BY <4>1 DEF IInv, HeadersFresh
      <4>3. CASE to_r[1].kind = "header"
        <5>1. to_r[i + 1].file # to_r[1].file
          <6>1. to_r[i + 1].file = to_r[1].file => i + 1 = 1
            BY <1>2, <4>1, <4>3 DEF IInv, HeadersFresh
          <6>2. i + 1 # 1
            BY <1>2
          <6>3. QED
            BY <6>1, <6>2
        <5>2. QED
          BY <1>6, <4>1, <4>2, <4>3, <5>1
      <4>4. CASE to_r[1].kind = "delimiter"
        BY <1>7, <4>4
      <4>5. QED
        BY <1>4, <4>3, <4>4
    <3>2. QED
      BY <3>1
  <2>2. QED
    BY <1>1, <1>2, <1>3, <2>1 DEF IInv, HeadersFresh
<1>9. Stream' /\ StreamEnd'
  <2>1. CASE to_r[1].kind = "header"
    <3>1. Cur' = next_file' /\ Streaming
      BY <1>1 DEF Cur, Streaming
    <3>2. Len(received[Cur])' = CountAt(2)
      BY <1>1, <1>2, <1>6, <2>1, <3>1 DEF CountAt
    <3>3. QED
      BY <1>1, <1>2, <1>3, <1>6, <2>1, <3>1, <3>2, ReadsStream
  <2>2. CASE to_r[1].kind = "delimiter"
    <3>1. Stream'
      BY <1>1, <1>7, <2>2 DEF Stream
    <3>2. StreamEnd'
      BY <1>1, <1>7, <2>2 DEF StreamEnd
    <3>3. QED
      BY <3>1, <3>2
  <2>3. QED
    BY <1>4, <2>1, <2>2
<1>10. next_file' \in Sent \cup {NoFile} /\ next_file' \in File \cup {NoFile}
       /\ next_file' \notin ended' /\ next_file' # file_state
  <2>1. NoFile \notin ended
    BY WebRtcAssumption DEF IInv, TypeOK
  <2>2. QED
    BY <1>1, <1>4, <1>6, <1>7, <2>1
<1>11. TypeOK'
  BY <1>1, <1>2, <1>3, <1>10 DEF IInv, TypeOK, fnVars, pinVars, ReceiverAt
<1>12. FileOrder'
  BY <1>1, <1>3, <1>10 DEF IInv, FileOrder
<1>13. FilePrefixes' /\ EndedWhole' /\ LastFileAwaited'
  BY <1>1, <1>3, <1>5 DEF IInv, FilePrefixes, EndedWhole, LastFileAwaited
<1>14. EndedFilesAreWhole'
  BY <1>1, <1>11, <1>13, WholeFromPrefixes DEF TypeOK, IInv, EndedFilesAreWhole
<1>15. r' \in LateReceiver \ {"drain"}
  BY <1>1 DEF LateReceiver, Over
<1>16. QED
  BY <1>1, <1>3, <1>8, <1>9, <1>11, <1>12, <1>13, <1>14, <1>15, TakesRest, LatePreserves DEF Files

LEMMA FileResultPreserves ==
  ASSUME IInv, FileResult
  PROVE  IInv'
<1>1. /\ r = "result" /\ file_state' = next_file /\ next_file' = NoFile
      /\ app' \in {"reads", app}
      /\ UNCHANGED <<s, fnVars, s_status, r_status, to_r, linkVars, pinVars, sendVars,
                     received, ended>>
  BY DEF FileResult, FileAfter
<1>2. PICK ok \in BOOLEAN :
        ReceiverSays(<<Response(file_state, ok)>>,
                     IF next_file = NoFile THEN "drain" ELSE "receive")
  BY DEF FileResult
<1> DEFINE m == Response(file_state, ok)
           loc == IF next_file = NoFile THEN "drain" ELSE "receive"
<1>3. /\ UNCHANGED <<link, s_acked, r_acked, file_map, handed, sending, chunks, read>>
      /\ Sent' = Sent
      /\ file_state \in ended /\ file_state \in File /\ next_file \notin ended
  BY <1>1 DEF linkVars, sendVars, Sent, IInv, TypeOK, FileOrder
<1>4. m \in Message /\ m.kind = "response" /\ m.file = file_state
  BY <1>3, MessageKinds
<1> HIDE DEF m
<1>5. /\ to_s' = IF link = "up" THEN to_s \o <<m>> ELSE to_s
      /\ r' \in {loc, "err"}
  BY <1>2 DEF ReceiverSays, m
<1>6. /\ to_s \in Seq(Message) /\ to_s' \in Seq(Message) /\ s_acked \in 0 .. Len(to_s')
      /\ \A i \in 1 .. Len(to_s') : \/ i \in 1 .. Len(to_s) /\ to_s'[i] = to_s[i]
                                    \/ to_s'[i] = m
      /\ to_s' = to_s \/ link = "up"
  <2>1. to_s \in Seq(Message) /\ s_acked \in 0 .. Len(to_s) /\ Len(to_s) \in Nat
    BY DEF IInv, TypeOK
  <2>2. CASE link = "up"
    <3>1. /\ to_s' \in Seq(Message) /\ Len(to_s') = Len(to_s) + 1
          /\ \A i \in 1 .. Len(to_s) : to_s'[i] = to_s[i]
          /\ to_s'[Len(to_s) + 1] = m
      BY <1>4, <1>5, <2>1, <2>2, SayOne
    <3>2. \A i \in 1 .. Len(to_s') : i \in 1 .. Len(to_s) \/ i = Len(to_s) + 1
      BY <2>1, <3>1
    <3>3. s_acked \in 0 .. Len(to_s')
      BY <2>1, <3>1
    <3>4. QED
      BY <2>1, <2>2, <3>1, <3>2, <3>3
  <2>3. CASE link # "up"
    BY <1>5, <2>1, <2>3
  <2>4. QED
    BY <2>2, <2>3
<1>7. r' \in {"drain", "receive", "err"} /\ (r' = "receive" => next_file # NoFile)
  BY <1>5
<1>8. r' \in ReceiverAt /\ r' \in LateReceiver
  BY <1>7 DEF ReceiverAt, LateReceiver, Over
<1>9. TypeOK' /\ TriesRemain'
  <2>1. TypeOK'
    BY <1>1, <1>3, <1>6, <1>8, SMTT(30) DEF IInv, TypeOK, fnVars, pinVars
  <2>2. TriesRemain'
    BY <1>1, <1>7 DEF IInv, TriesRemain, pinVars
  <2>3. QED
    BY <2>1, <2>2
<1>10. PinsTold' /\ PinsComeFirst'
  <2>1. r \in LateRead
    BY <1>1 DEF LateRead
  <2>2. QED
    BY <1>1, <1>4, <1>6, <1>9, <2>1, PinsKept DEF pinVars, TypeOK
<1>11. Stream' /\ StreamEnd'
  <2>1. CASE r' = "receive"
    <3>1. Cur' = Cur /\ Streaming /\ next_file # NoFile
      BY <1>1, <1>7, <2>1 DEF Cur, Streaming
    <3>2. \A i : OpenAt(i)' = OpenAt(i) /\ CountAt(i)' = CountAt(i)
      BY <1>1, <3>1 DEF OpenAt, CountAt
    <3>3. Stream'
      BY <1>1, <1>3, <2>1, <3>1, <3>2 DEF IInv, Stream, Streaming
    <3>4. StreamEnd'
      BY <1>1, <1>3, <2>1, <3>1, <3>2 DEF IInv, StreamEnd, Streaming
    <3>5. QED
      BY <3>3, <3>4
  <2>2. CASE r' # "receive"
    BY <1>7, <2>2 DEF Stream, StreamEnd, Streaming
  <2>3. QED
    BY <2>1, <2>2
<1>12. Files'
  <2>1. FileOrder'
    BY <1>1, <1>3, <1>7 DEF IInv, FileOrder
  <2>2. FilePrefixes' /\ EndedWhole' /\ LastFileAwaited'
    BY <1>1, <1>3 DEF IInv, FilePrefixes, EndedWhole, LastFileAwaited
  <2>3. EndedFilesAreWhole'
    <3>1. \A i \in 1 .. Len(to_s) : to_s[i].kind = "response" => to_s[i].file \in ended
      BY <1>6 DEF IInv, EndedFilesAreWhole
    <3>2. \A i \in 1 .. Len(to_s') : to_s'[i].kind = "response" => to_s'[i].file \in ended
      BY <1>3, <1>4, <1>6, <3>1
    <3>3. \A i \in DOMAIN to_s' : to_s'[i].kind = "response" => to_s'[i].file \in ended'
      BY <1>1, <1>6, <3>2
    <3>4. QED
      BY <1>1, <1>9, <2>2, <3>3, WholeFromPrefixes DEF TypeOK
  <2>4. HeadersFresh'
    <3>1. \A i \in 1 .. Len(to_r) : to_r[i].kind = "header" => to_r[i].file # NoFile
      <4>1. \A i \in 1 .. Len(to_r) : to_r[i] \in Message
        BY DEF IInv, TypeOK
      <4>2. QED
        BY <4>1, MessageFields, WebRtcAssumption
    <3>2. QED
      BY <1>1, <1>3, <3>1 DEF IInv, HeadersFresh
  <2>5. QED
    BY <1>11, <2>1, <2>2, <2>3, <2>4 DEF Files
<1>13. Short' /\ Lockstep' /\ InStep'
  <2>1. link = "up" => s \in {"send", "chunks", "last", "ok"}
    BY <1>1 DEF IInv, TypeOK, SenderAt, Over, Lockstep
  <2>2. to_r' \in Seq(Message)
    BY <1>9 DEF TypeOK
  <2>3. QED
    BY <1>1, <1>3, <1>4, <1>6, <1>8, <1>11, <2>1, <2>2, LateReceiverTogether
<1>14. QED
  BY <1>9, <1>10, <1>12, <1>13, LatePreserves

LEMMA DrainPreserves ==
  ASSUME IInv, Drain
  PROVE  IInv'
<1>1. /\ r = "drain" /\ r' = "ok"
      /\ s_acked' \in {s_acked, IF link = "up" THEN Len(to_s) ELSE s_acked}
      /\ UNCHANGED <<s, fnVars, s_status, r_status, to_r, to_s, link, r_acked, pinVars,
                     sendVars, fileVars>>
  BY DEF Drain
<1>2. /\ UNCHANGED <<file_map, handed, sending, chunks, file_state, next_file, received, ended>>
      /\ Sent' = Sent
  BY <1>1 DEF sendVars, fileVars, Sent
<1>3. TypeOK' /\ TriesRemain'
  <2>1. s_acked' \in 0 .. Len(to_s')
    BY <1>1 DEF IInv, TypeOK
  <2>2. r' \in ReceiverAt
    BY <1>1 DEF ReceiverAt, Over
  <2>3. TypeOK'
    BY <1>1, <2>1, <2>2, SMTT(30) DEF IInv, TypeOK, fnVars, pinVars, sendVars, fileVars
  <2>4. TriesRemain'
    BY <1>1 DEF IInv, TriesRemain, pinVars
  <2>5. QED
    BY <2>3, <2>4
<1>4. PinsTold' /\ PinsComeFirst'
  <2>1. r \in LateRead
    BY <1>1 DEF LateRead
  <2>2. QED
    BY <1>1, <1>3, <2>1, PinsKept DEF pinVars, TypeOK
<1>5. Files'
  <2>1. Stream' /\ StreamEnd'
    BY <1>1 DEF Stream, StreamEnd, Streaming
  <2>2. FileOrder' /\ FilePrefixes' /\ EndedWhole' /\ LastFileAwaited'
    BY <1>1, <1>2 DEF IInv, FileOrder, FilePrefixes, EndedWhole, LastFileAwaited
  <2>3. EndedFilesAreWhole' /\ HeadersFresh'
    BY <1>1, <1>2 DEF IInv, EndedFilesAreWhole, HeadersFresh
  <2>4. QED
    BY <2>1, <2>2, <2>3 DEF Files
<1>6. Short' /\ Lockstep' /\ InStep'
  <2>1. link = "up" => s \in {"send", "chunks", "last", "ok"}
    BY <1>1 DEF IInv, TypeOK, SenderAt, Over, Lockstep
  <2>2. r' \in LateReceiver /\ to_r' \in Seq(Message) /\ to_s' \in Seq(Message)
    BY <1>1, <1>3 DEF LateReceiver, Over, TypeOK
  <2>3. QED
    BY <1>1, <1>2, <1>5, <2>1, <2>2, LateReceiverTogether DEF Files
<1>7. QED
  BY <1>3, <1>4, <1>5, <1>6, LatePreserves

-----------------------------------------------------------------------------
\* The functions around the tasks, and the network.

\* The connection is lost, with a part of what was on its way.
LEMMA DisconnectPreserves ==
  ASSUME IInv, Disconnect, UNCHANGED <<taskVars, pinVars, sendVars, fileVars>>,
         s_fn' \in {"run", "finished", "error"}, r_fn' \in {"run", "finished", "error"},
         s_status' \in SUBSET Status, r_status' \in SUBSET Status
  PROVE  IInv'
<1>1. link' = "closed" /\ UNCHANGED <<r_acked, s_acked>>
  BY DEF Disconnect
<1>2. UNCHANGED <<s, r, file_map, file_state>>
  BY DEF taskVars, sendVars, fileVars
<1>3. PICK n \in r_acked .. Len(to_r) : to_r' = SubSeq(to_r, 1, n)
  BY DEF Disconnect
<1>4. PICK k \in s_acked .. Len(to_s) : to_s' = SubSeq(to_s, 1, k)
  BY DEF Disconnect
<1>5. /\ to_r \in Seq(Message) /\ n \in 0 .. Len(to_r) /\ r_acked \in 0 .. n
      /\ to_s \in Seq(Message) /\ k \in 0 .. Len(to_s) /\ s_acked \in 0 .. k
  BY DEF IInv, TypeOK
<1>6. /\ to_r' \in Seq(Message) /\ Len(to_r') = n /\ Len(to_r') <= Len(to_r)
      /\ \A i \in 1 .. Len(to_r') : i \in 1 .. Len(to_r) /\ to_r'[i] = to_r[i]
  BY <1>3, <1>5, CutQueue
<1>7. /\ to_s' \in Seq(Message) /\ Len(to_s') = k /\ Len(to_s') <= Len(to_s)
      /\ \A i \in 1 .. Len(to_s') : i \in 1 .. Len(to_s) /\ to_s'[i] = to_s[i]
  BY <1>4, <1>5, CutQueue
<1>8. TypeOK' /\ TriesRemain'
  <2>1. r_acked' \in 0 .. Len(to_r') /\ s_acked' \in 0 .. Len(to_s')
    BY <1>1, <1>5, <1>6, <1>7
  <2>2. TypeOK'
    BY <1>1, <1>6, <1>7, <2>1 DEF IInv, TypeOK, taskVars, pinVars, sendVars, fileVars
  <2>3. TriesRemain'
    BY <1>2 DEF IInv, TriesRemain, pinVars
  <2>4. QED
    BY <2>2, <2>3
<1>9. PinsTold' /\ PinsComeFirst'
  BY <1>2, <1>6, <1>7, PinsKept DEF pinVars
<1>10. Short' /\ Lockstep' /\ InStep'
  BY <1>1, <1>2, <1>6, <1>7, LinkTogether DEF sendVars, Sent
<1>11. Files'
  BY <1>1, <1>2, <1>6, <1>7, LinkFiles
<1>12. QED
  BY <1>8, <1>9, <1>10, <1>11, LatePreserves

\* Neither the tasks nor the channel move.
LEMMA AsidePreserves ==
  ASSUME IInv, UNCHANGED <<taskVars, to_r, to_s, linkVars, pinVars, sendVars,
                           file_state, next_file, received, ended>>,
         s_fn' \in {"run", "finished", "error"}, r_fn' \in {"run", "finished", "error"},
         s_status' \in SUBSET Status, r_status' \in SUBSET Status, app' \in {"reads", "gone"}
  PROVE  IInv'
<1>1. UNCHANGED <<s, r, link, s_pin, r_pin, s_try, r_try, proved, file_map, handed, sending, chunks>>
  BY DEF taskVars, linkVars, pinVars, sendVars
<1>2. TypeOK' /\ TriesRemain'
  <2>1. TypeOK'
    BY DEF IInv, TypeOK, taskVars, linkVars, pinVars, sendVars
  <2>2. TriesRemain'
    BY <1>1 DEF IInv, TriesRemain
  <2>3. QED
    BY <2>1, <2>2
<1>3. PinsTold' /\ PinsComeFirst'
  BY <1>1 DEF IInv, PinsTold, PinsComeFirst
<1>4. Short' /\ Lockstep' /\ InStep'
  BY <1>1 DEF IInv, Short, Lockstep, InStep, IfAny, Sent
<1>5. Files'
  <2>1. Sent' = Sent /\ Cur' = Cur /\ Streaming' = Streaming
    BY <1>1 DEF Sent, Cur, Streaming
  <2>2. \A i : OpenAt(i)' = OpenAt(i) /\ CountAt(i)' = CountAt(i)
    BY <1>1, <2>1 DEF OpenAt, CountAt
  <2>3. Stream'
    BY <1>1, <2>1, <2>2 DEF IInv, Stream
  <2>4. StreamEnd'
    BY <1>1, <2>1, <2>2 DEF IInv, StreamEnd
  <2>5. FileOrder' /\ FilePrefixes' /\ EndedWhole' /\ LastFileAwaited'
    BY <1>1, <2>1 DEF IInv, FileOrder, FilePrefixes, EndedWhole, LastFileAwaited
  <2>6. EndedFilesAreWhole' /\ HeadersFresh'
    BY <1>1, <2>1 DEF IInv, EndedFilesAreWhole, HeadersFresh
  <2>7. QED
    BY <2>3, <2>4, <2>5, <2>6 DEF Files
<1>6. QED
  BY <1>2, <1>3, <1>4, <1>5, LatePreserves

LEMMA SendOfferReturnsPreserves ==
  ASSUME IInv, SendOfferReturns
  PROVE  IInv'
<1>1. UNCHANGED <<taskVars, r_fn, r_status, pinVars, sendVars, fileVars>>
  BY DEF SendOfferReturns
<1>2. /\ s_fn' \in {"run", "finished", "error"} /\ s_status' \in SUBSET Status
      /\ r_fn' \in {"run", "finished", "error"} /\ r_status' \in SUBSET Status
      /\ app' \in {"reads", "gone"}
  BY <1>1 DEF SendOfferReturns, SenderTold, Status, IInv, TypeOK, fileVars
<1>3. CASE Disconnect
  BY <1>1, <1>2, <1>3, DisconnectPreserves
<1>4. CASE UNCHANGED <<to_r, to_s, linkVars>>
  BY <1>1, <1>2, <1>4, AsidePreserves DEF fileVars
<1>5. QED
  BY <1>3, <1>4 DEF SendOfferReturns, Close, StaysClosed

LEMMA AcceptOfferReturnsPreserves ==
  ASSUME IInv, AcceptOfferReturns
  PROVE  IInv'
<1>1. UNCHANGED <<taskVars, s_fn, s_status, pinVars, sendVars, fileVars>>
  BY DEF AcceptOfferReturns
<1>2. /\ r_fn' \in {"run", "finished", "error"} /\ r_status' \in SUBSET Status
      /\ s_fn' \in {"run", "finished", "error"} /\ s_status' \in SUBSET Status
      /\ app' \in {"reads", "gone"}
  BY <1>1 DEF AcceptOfferReturns, ReceiverTold, Status, IInv, TypeOK, fileVars
<1>3. CASE Disconnect
  BY <1>1, <1>2, <1>3, DisconnectPreserves
<1>4. CASE UNCHANGED <<to_r, to_s, linkVars>>
  BY <1>1, <1>2, <1>4, AsidePreserves DEF fileVars
<1>5. QED
  BY <1>3, <1>4 DEF AcceptOfferReturns, Close, StaysClosed

LEMMA AppStopsReadingPreserves ==
  ASSUME IInv, AppStopsReading
  PROVE  IInv'
<1>1. /\ app' \in {"reads", "gone"}
      /\ UNCHANGED <<taskVars, fnVars, s_status, r_status, to_r, to_s, linkVars, pinVars,
                     sendVars, file_state, next_file, received, ended>>
  BY DEF AppStopsReading
<1>2. /\ s_fn' \in {"run", "finished", "error"} /\ s_status' \in SUBSET Status
      /\ r_fn' \in {"run", "finished", "error"} /\ r_status' \in SUBSET Status
  BY <1>1 DEF IInv, TypeOK, fnVars
<1>3. QED
  BY <1>1, <1>2, AsidePreserves

LEMMA ConnectionBreaksPreserves ==
  ASSUME IInv, ConnectionBreaks
  PROVE  IInv'
<1>1. /\ Disconnect
      /\ UNCHANGED <<taskVars, fnVars, s_status, r_status, pinVars, sendVars, fileVars>>
  BY DEF ConnectionBreaks
<1>2. /\ s_fn' \in {"run", "finished", "error"} /\ s_status' \in SUBSET Status
      /\ r_fn' \in {"run", "finished", "error"} /\ r_status' \in SUBSET Status
  BY <1>1 DEF IInv, TypeOK, fnVars
<1>3. QED
  BY <1>1, <1>2, DisconnectPreserves

LEMMA StutteringPreserves ==
  ASSUME IInv, UNCHANGED vars
  PROVE  IInv'
<1>1. UNCHANGED <<taskVars, fnVars, s_status, r_status, to_r, to_s, linkVars, pinVars,
                  sendVars, fileVars>>
  BY DEF vars
<1>2. /\ s_fn' \in {"run", "finished", "error"} /\ s_status' \in SUBSET Status
      /\ r_fn' \in {"run", "finished", "error"} /\ r_status' \in SUBSET Status
      /\ app' \in {"reads", "gone"}
  BY <1>1 DEF IInv, TypeOK, fnVars, fileVars
<1>3. QED
  BY <1>1, <1>2, AsidePreserves DEF fileVars

-----------------------------------------------------------------------------
\* The theorems.

\* A session starts with both channels empty and nothing handed over.
LEMMA InitHolds ==
  Init => IInv
<1> SUFFICES ASSUME Init PROVE IInv
  OBVIOUS
<1>1. /\ to_r = <<>> /\ to_s = <<>> /\ Len(to_r) = 0 /\ Len(to_s) = 0
      /\ to_r \in Seq(Message) /\ to_s \in Seq(Message) /\ read \in Seq(Message)
  BY DEF Init
<1>2. /\ chunks \in [File -> 0 .. Chunks]
      /\ received \in [File -> Seq(File \X (1 .. Chunks))]
      /\ \A f \in File : received[f] = <<>> /\ chunks[f] = 0
  BY WebRtcAssumption DEF Init
<1>3. TypeOK
  BY <1>1, <1>2, WebRtcAssumption DEF Init, TypeOK, SenderAt, ReceiverAt
<1>4. TriesRemain
  BY WebRtcAssumption DEF Init, TriesRemain
<1>5. PinsTold /\ PinsComeFirst
  BY <1>1 DEF Init, PinsTold, PinsComeFirst
<1>6. Short /\ Lockstep /\ InStep
  BY <1>1 DEF Init, Short, Lockstep, InStep, Over
<1>7. FileOrder /\ EndedWhole /\ EndedFilesAreWhole /\ LastFileAwaited
  BY <1>1 DEF Init, FileOrder, EndedWhole, EndedFilesAreWhole, LastFileAwaited, Sent
<1>8. FilePrefixes
  <2>1. \A f \in File : received[f] = [i \in 1 .. Len(received[f]) |-> <<f, i>>]
    BY <1>2
  <2>2. QED
    BY <1>2, <2>1 DEF FilePrefixes
<1>9. HeadersFresh /\ Stream /\ StreamEnd
  BY <1>1 DEF Init, HeadersFresh, Stream, StreamEnd, Streaming
<1>10. QED
  BY <1>3, <1>4, <1>5, <1>6, <1>7, <1>8, <1>9 DEF IInv

\* Every step of either task, of the functions around them and of the network
\* preserves the inductive invariant.
LEMMA NextPreserves ==
  IInv /\ [Next]_vars => IInv'
<1> SUFFICES ASSUME IInv, [Next]_vars PROVE IInv'
  OBVIOUS
<1>1. CASE SendTask
  BY <1>1, SendNoncePreserves, SendTokenPreserves, TokenResponsePreserves, EntersPinPreserves,
     PinAnsweredPreserves, ChecksPinPreserves, ReceiveSelectionPreserves, HandFilePreserves,
     SendChunkPreserves, FileSentPreserves, SendDelimiterPreserves, ReadLastPreserves
  DEF SendTask
<1>2. CASE ReceiveTask
  BY <1>2, SendNonceBackPreserves, AnswerTokenPreserves, ReceiverChecksPinPreserves,
     ReadPinStatusPreserves, ReceiverEntersPinPreserves, ChoosePreserves,
     ReceiveChunkPreserves, EndFilePreserves, FileResultPreserves, FirstHeaderPreserves,
     DelimiterAsHeaderPreserves, DrainPreserves
  DEF ReceiveTask
<1>3. CASE SendOfferReturns \/ AcceptOfferReturns
  BY <1>3, SendOfferReturnsPreserves, AcceptOfferReturnsPreserves
<1>4. CASE AppStopsReading \/ ConnectionBreaks
  BY <1>4, AppStopsReadingPreserves, ConnectionBreaksPreserves
<1>5. CASE UNCHANGED vars
  BY <1>5, StutteringPreserves
<1>6. QED
  BY <1>1, <1>2, <1>3, <1>4, <1>5 DEF Next

\* The inductive invariant holds throughout every session of webrtc.rs, for
\* every set of files, chunk number and PIN, and wherever the connection is
\* lost.
THEOREM Invariant ==
  Spec => []IInv
BY InitHolds, NextPreserves, PTL DEF Spec

\* Every variable keeps its type, and neither side's verify_pin tries more
\* PINs than PinConfig.max_tries allows.
THEOREM TypeCorrect ==
  Spec => []TypeOK
<1>1. IInv => TypeOK
  BY DEF IInv
<1>2. QED
  BY <1>1, Invariant, PTL

\* The two tasks of send_offer and accept_offer never get out of step: what a
\* task reads next is something it can parse there.
THEOREM AlwaysInStep ==
  Spec => []InStep
<1>1. IInv => InStep
  BY DEF IInv
<1>2. QED
  BY <1>1, Invariant, PTL

\* Neither the file list nor a file leaves the sender before each side has
\* entered the PIN that the other side's verify_pin asks for.
THEOREM PinsAlwaysComeFirst ==
  Spec => []PinsComeFirst
<1>1. IInv => PinsComeFirst
  BY DEF IInv
<1>2. QED
  BY <1>1, Invariant, PTL

\* A file whose stream accept_offer has ended holds exactly the chunks that
\* send_offer sent for it, in order; only such files are answered.
THEOREM EndedFilesAlwaysWhole ==
  Spec => []EndedFilesAreWhole
<1>1. IInv => EndedFilesAreWhole
  BY DEF IInv
<1>2. QED
  BY <1>1, Invariant, PTL

\* A sender that is done with a single file has waited for the receiver to
\* end it.
THEOREM LastFileAlwaysAwaited ==
  Spec => []LastFileAwaited
<1>1. IInv => LastFileAwaited
  BY DEF IInv
<1>2. QED
  BY <1>1, Invariant, PTL

=============================================================================
