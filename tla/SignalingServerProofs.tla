------------------------ MODULE SignalingServerProofs ------------------------
(***************************************************************************)
(* What TLAPS proves of SignalingServer for every set of connections,      *)
(* every assignment to groups and every value of the limits.               *)
(***************************************************************************)
EXTENDS SignalingServer, SequenceTheorems, FiniteSetTheorems, TLAPS

\* Collecting a set of senders (values().collect()) yields a vector of its
\* members in which every member occurs.
LEMMA ReceiversElements ==
  ASSUME NEW S, IsFiniteSet(S), NEW tx \in Receivers(S)
  PROVE  /\ tx \in Seq(S)
         /\ \A x \in S : \E i \in DOMAIN tx : tx[i] = x
<1> DEFINE n == Cardinality(S)
<1>1. n \in Nat
  BY FS_CardinalityType
<1>2. tx \in [1..n -> S] /\ \A i, j \in 1..n : i # j => tx[i] # tx[j]
  BY DEF Receivers, SetToSeqs
<1>3. tx \in Seq(S)
  BY <1>1, <1>2, SeqDef
<1>4. tx \in Injection(1..n, S)
  BY <1>2 DEF Injection, IsInjective
<1>5. Cardinality(1..n) = n
  BY <1>1, FS_Interval
<1>6. tx \in Surjection(1..n, S)
  BY <1>4, <1>5, FS_Injection
<1>7. \A x \in S : \E i \in 1..n : tx[i] = x
  BY <1>6 DEF Surjection
<1>8. QED
  BY <1>2, <1>3, <1>7

LEMMA ReceiversProperties ==
  ASSUME NEW S, NEW T, IsFiniteSet(S), S \subseteq T,
         NEW tx \in Receivers(S)
  PROVE  tx \in Seq(T)
<1>1. tx \in Seq(S)
  BY ReceiversElements
<1>2. Len(tx) \in Nat /\ tx \in [1..Len(tx) -> T]
  BY <1>1, LenProperties
<1>3. QED BY <1>2, SeqDef

\* The messages the server builds are WsServerMessages.
LEMMA MessageTypes ==
  ASSUME NEW c \in Conn
  PROVE  /\ \A list \in PeerList : Hello(c, list) \in WsServerMessage
         /\ Join(c) \in WsServerMessage
         /\ \A info \in Info : Update(c, info) \in WsServerMessage
         /\ Left(c) \in WsServerMessage
         /\ \A kind \in {"Offer", "Answer"} : Sdp(kind, c) \in WsServerMessage
         /\ TooManyRequests \in WsServerMessage
BY ConstantsAssumption
   DEF Hello, Join, Update, Left, Sdp, TooManyRequests, WsServerMessage

\* Sending a message keeps the channels well typed and within capacity.
LEMMA SendToType ==
  ASSUME NEW t \in Conn, NEW msg \in WsServerMessage,
         channel \in [Conn -> Seq(WsServerMessage)],
         SendTo(t, msg)
  PROVE  channel' \in [Conn -> Seq(WsServerMessage)]
BY DEF SendTo, ChannelOpen

\* What is needed of the broadcast loops for typing: a loop that is being
\* executed has a receiver left, and a request is there to be worked on.
LoopsOK ==
    \A c \in Conn :
      /\ handler[c] \in {"join", "left"} => peers_tx[c] # <<>>
      /\ recv_task[c] = "fan_out" => fan_out[c] # <<>>
      /\ recv_task[c] \in {"update", "relay", "fan_out"} => request[c] \in WsClientMessage
      /\ recv_task[c] = "update" => request[c].type = "Update"
      /\ recv_task[c] = "relay" => request[c].type # "Update"

LEMMA GroupType == \A c \in Conn : GroupOf[c] \in IpGroup
BY ConstantsAssumption

LEMMA CountRequestType ==
  ASSUME NEW g \in IpGroup, CountRequest(g), TypeOK
  PROVE  request_count' \in [IpGroup -> Nat] /\ hour' \in Nat
BY DEF CountRequest, TypeOK

LEMMA LocalMapFinite ==
  ASSUME TypeOK, NEW g
  PROVE  /\ LocalMap(g) \subseteq Conn
         /\ IsFiniteSet(LocalMap(g))
BY ConstantsAssumption, FS_Subset DEF TypeOK, LocalMap

LEMMA OthersFinite ==
  ASSUME TypeOK, NEW c
  PROVE  /\ Others(c) \subseteq Conn
         /\ IsFiniteSet(Others(c))
BY ConstantsAssumption, FS_Subset DEF TypeOK, LocalMap, Others

LEMMA OutgoingType ==
  ASSUME NEW c \in Conn, request[c] \in WsClientMessage
  PROVE  Outgoing(c) \in WsServerMessage
BY MessageTypes DEF Outgoing, WsClientMessage

LEMMA ApplyType ==
  ASSUME NEW v \in DeviceMap, NEW msg \in WsServerMessage
  PROVE  Apply(v, msg) \in DeviceMap
<1>1. CASE msg.type = "Hello"
  <2>1. msg.peers \in PeerList
    BY <1>1 DEF WsServerMessage, TooManyRequests
  <2>2. QED BY <1>1, <2>1 DEF Apply, RegisterDevice, DeviceMap, PeerList
<1>2. CASE msg.type \in {"Join", "Update"}
  <2>1. msg.peer \in Conn /\ msg.info \in Info
    BY <1>2 DEF WsServerMessage, TooManyRequests
  <2>2. QED BY <1>2, <2>1 DEF Apply, RegisterDevice, DeviceMap
<1>3. CASE msg.type \notin {"Hello", "Join", "Update"}
  BY <1>3 DEF Apply, DeviceMap
<1>4. QED BY <1>1, <1>2, <1>3

\* Typing and the shape of the broadcast loops, by induction on the steps.
LEMMA TypeInit == Init => TypeOK /\ LoopsOK
BY ConstantsAssumption, EmptySeq DEF Init, TypeOK, LoopsOK, PeerList, DeviceMap, Nobody

LEMMA TypeStep == TypeOK /\ LoopsOK /\ [Next]_vars => TypeOK' /\ LoopsOK'
<1> SUFFICES ASSUME TypeOK, LoopsOK, [Next]_vars
             PROVE  TypeOK' /\ LoopsOK'
  OBVIOUS
<1> USE DEF txMapVars, countVars, handlerVars, recvVars, clientVars
<1>0. CASE UNCHANGED vars
  BY <1>0 DEF vars, TypeOK, LoopsOK
<1>1. CASE ClearRequestCounts
  BY <1>1 DEF ClearRequestCounts, TypeOK, LoopsOK
<1>2. ASSUME NEW c \in Conn, HandleSocket(c)
      PROVE  TypeOK' /\ LoopsOK'
  <2>1. CASE Register(c)
    <3> DEFINE g == GroupOf[c]
    <3>1. PICK tx \in Receivers(LocalMap(g)) :
             /\ peers_tx' = [peers_tx EXCEPT ![c] = tx]
             /\ handler' = [handler EXCEPT ![c] =
                              IF tx = <<>> THEN "hello" ELSE "join"]
      BY <2>1 DEF Register
    <3>2. tx \in Seq(Conn)
      BY <3>1, LocalMapFinite, ReceiversProperties
    <3>3. peers' \in [Conn -> PeerList]
      BY <2>1 DEF Register, TypeOK, PeerList
    <3>4. request_count' \in [IpGroup -> Nat] /\ hour' \in Nat
      BY <2>1, GroupType, CountRequestType DEF Register
    <3>5. registered' \in SUBSET Conn /\ group_keys' \in SUBSET IpGroup
      <4>1. registered' = registered \cup {c} /\ group_keys' = group_keys \cup {g}
        BY <2>1 DEF Register
      <4>2. QED BY <4>1, GroupType DEF TypeOK
    <3>6. client' \in [Conn -> Info]
      BY <2>1, ConstantsAssumption DEF Register, TypeOK
    <3>7. TypeOK'
      BY <2>1, <3>1, <3>2, <3>3, <3>4, <3>5, <3>6 DEF Register, TypeOK
    <3>8. LoopsOK'
      BY <2>1, <3>1 DEF Register, TypeOK, LoopsOK
    <3>9. QED BY <3>7, <3>8
  <2>2. CASE Reject(c)
    <3>1. /\ group_keys' = group_keys \cup {GroupOf[c]}
          /\ handler' = [handler EXCEPT ![c] = "rejected"]
          /\ socket' = [socket EXCEPT ![c] = "closed"]
          /\ UNCHANGED <<registered, client, request_count, hour, channel, peers, peers_tx,
                         ended_by, recv_task, request, fan_out, send_task, view, greeted>>
      BY <2>2 DEF Reject
    <3>2. group_keys' \in SUBSET IpGroup
      BY <3>1, GroupType DEF TypeOK
    <3>3. TypeOK'
      BY <3>1, <3>2 DEF TypeOK
    <3>4. LoopsOK'
      BY <3>1 DEF TypeOK, LoopsOK
    <3>5. QED BY <3>3, <3>4
  <2>3. CASE SendJoin(c)
    <3>1. Head(peers_tx[c]) \in Conn /\ Tail(peers_tx[c]) \in Seq(Conn)
      BY <2>3, HeadTailProperties DEF SendJoin, LoopsOK, TypeOK
    <3>2. channel' \in [Conn -> Seq(WsServerMessage)]
      BY <2>3, <3>1, SendToType, MessageTypes DEF SendJoin, TypeOK
    <3>3. QED
      BY <2>3, <3>1, <3>2 DEF SendJoin, TypeOK, LoopsOK
  <2>4. CASE SendHello(c)
    <3>1. channel' \in [Conn -> Seq(WsServerMessage)]
      BY <2>4, SendToType, MessageTypes DEF SendHello, TypeOK
    <3>2. QED
      BY <2>4, <3>1 DEF SendHello, TypeOK, LoopsOK
  <2>5. CASE TaskEnded(c)
    BY <2>5 DEF TaskEnded, TypeOK, LoopsOK
  <2>6. CASE Unregister(c)
    <3>1. PICK tx \in Receivers(Others(c)) :
             /\ peers_tx' = [peers_tx EXCEPT ![c] = tx]
             /\ handler' = [handler EXCEPT ![c] =
                              IF tx = <<>> THEN "done" ELSE "left"]
      BY <2>6 DEF Unregister
    <3>2. tx \in Seq(Conn)
      BY <3>1, OthersFinite, ReceiversProperties
    <3>3. QED
      BY <2>6, <3>1, <3>2, ConstantsAssumption
         DEF Unregister, GroupsWithout, TypeOK, LoopsOK
  <2>7. CASE SendLeft(c)
    <3>1. Head(peers_tx[c]) \in Conn /\ Tail(peers_tx[c]) \in Seq(Conn)
      BY <2>7, HeadTailProperties DEF SendLeft, LoopsOK, TypeOK
    <3>2. channel' \in [Conn -> Seq(WsServerMessage)]
      BY <2>7, <3>1, SendToType, MessageTypes DEF SendLeft, TypeOK
    <3>3. QED
      BY <2>7, <3>1, <3>2 DEF SendLeft, TypeOK, LoopsOK
  <2>8. QED
    BY <1>2, <2>1, <2>2, <2>3, <2>4, <2>5, <2>6, <2>7 DEF HandleSocket
<1>3. ASSUME NEW c \in Conn, RecvTask(c)
      PROVE  TypeOK' /\ LoopsOK'
  <2>1. CASE ReadRequest(c)
    <3>1. PICK r \in Requests[c] :
             /\ request' = [request EXCEPT ![c] = r]
             /\ recv_task' = [recv_task EXCEPT ![c] =
                                IF r.type = "Update" THEN "update" ELSE "relay"]
      BY <2>1 DEF ReadRequest
    <3>2. r \in WsClientMessage
      BY <3>1, RequestsAssumption
    <3>3. request_count' \in [IpGroup -> Nat] /\ hour' \in Nat
      BY <2>1, GroupType, CountRequestType DEF ReadRequest
    <3>4. request' \in [Conn -> WsClientMessage \cup {NoRequest}]
      BY <3>1, <3>2 DEF TypeOK
    <3>5. TypeOK'
      BY <2>1, <3>1, <3>3, <3>4 DEF ReadRequest, TypeOK
    <3>6. LoopsOK'
      BY <2>1, <3>1, <3>2 DEF ReadRequest, TypeOK, LoopsOK
    <3>7. QED BY <3>5, <3>6
  <2>2. CASE ReadOverLimit(c)
    BY <2>2 DEF ReadOverLimit, TypeOK, LoopsOK
  <2>3. CASE SendError(c)
    <3>1. channel' \in [Conn -> Seq(WsServerMessage)]
      BY <2>3, SendToType, MessageTypes DEF SendError, TypeOK
    <3>2. QED
      BY <2>3, <3>1 DEF SendError, TypeOK, LoopsOK
  <2>4. CASE ReadEnd(c)
    BY <2>4 DEF ReadEnd, TypeOK, LoopsOK
  <2>5. CASE StoreUpdate(c)
    <3>1. client' \in [Conn -> Info]
      BY <2>5 DEF StoreUpdate, LoopsOK, WsClientMessage, TypeOK
    <3>2. PICK tx \in Seq(Conn) : BeginFanOut(c, tx)
      BY <2>5, OthersFinite, ReceiversProperties, EmptySeq DEF StoreUpdate
    <3>3. TypeOK'
      BY <2>5, <3>1, <3>2 DEF StoreUpdate, BeginFanOut, TypeOK
    <3>4. LoopsOK'
      BY <2>5, <3>2 DEF StoreUpdate, BeginFanOut, TypeOK, LoopsOK
    <3>5. QED BY <3>3, <3>4
  <2>6. CASE LookupTarget(c)
    <3> DEFINE target == request[c].target
               to == IF target \in LocalMap(GroupOf[c]) THEN <<target>> ELSE <<>>
    <3>0. to \in Seq(Conn)
      BY EmptySeq DEF LocalMap, TypeOK
    <3>1. PICK tx \in Seq(Conn) : BeginFanOut(c, tx)
      BY <2>6, <3>0 DEF LookupTarget
    <3>2. TypeOK'
      <4>1. UNCHANGED <<txMapVars, countVars, channel, handlerVars, send_task, clientVars>>
        BY <2>6 DEF LookupTarget
      <4>2. /\ fan_out' \in [Conn -> Seq(Conn)]
            /\ request' \in [Conn -> WsClientMessage \cup {NoRequest}]
            /\ recv_task' \in [Conn -> {"off", "recv", "update", "relay", "fan_out",
                                        "error", "ended"}]
        BY <3>1 DEF BeginFanOut, TypeOK
      <4>3. QED BY <4>1, <4>2 DEF TypeOK
    <3>3. LoopsOK'
      BY <2>6, <3>1 DEF LookupTarget, BeginFanOut, TypeOK, LoopsOK
    <3>4. QED BY <3>2, <3>3
  <2>7. CASE FanOut(c)
    <3>1. Head(fan_out[c]) \in Conn /\ Tail(fan_out[c]) \in Seq(Conn)
      BY <2>7, HeadTailProperties DEF FanOut, LoopsOK, TypeOK
    <3>2. channel' \in [Conn -> Seq(WsServerMessage)]
      BY <2>7, <3>1, SendToType, OutgoingType DEF FanOut, TypeOK, LoopsOK
    <3>3. TypeOK'
      BY <2>7, <3>1, <3>2 DEF FanOut, BeginFanOut, TypeOK
    <3>4. LoopsOK'
      BY <2>7, <3>1 DEF FanOut, BeginFanOut, TypeOK, LoopsOK
    <3>5. QED BY <3>3, <3>4
  <2>8. CASE AbortRecv(c)
    BY <2>8, EmptySeq DEF AbortRecv, TypeOK, LoopsOK
  <2>9. QED
    BY <1>3, <2>1, <2>2, <2>3, <2>4, <2>5, <2>6, <2>7, <2>8 DEF RecvTask
<1>4. ASSUME NEW c \in Conn, SendTask(c)
      PROVE  TypeOK' /\ LoopsOK'
  <2>1. CASE Deliver(c)
    <3>1. Head(channel[c]) \in WsServerMessage /\ Tail(channel[c]) \in Seq(WsServerMessage)
      BY <2>1, HeadTailProperties DEF Deliver, TypeOK
    <3>2. view' \in [Conn -> DeviceMap]
      <4>1. Apply(view[c], Head(channel[c])) \in DeviceMap
        BY <3>1, ApplyType DEF TypeOK
      <4>2. view' = view \/ view' = [view EXCEPT ![c] = Apply(view[c], Head(channel[c]))]
        BY <2>1 DEF Deliver
      <4>3. view \in [Conn -> DeviceMap]
        BY DEF TypeOK
      <4>4. QED BY <4>1, <4>2, <4>3
    <3>3. greeted' \in [Conn -> BOOLEAN]
      BY <2>1 DEF Deliver, TypeOK
    <3>4. TypeOK'
      BY <2>1, <3>1, <3>2, <3>3 DEF Deliver, TypeOK
    <3>5. LoopsOK'
      BY <2>1 DEF Deliver, LoopsOK
    <3>6. QED BY <3>4, <3>5
  <2>2. CASE EndSend(c)
    BY <2>2, EmptySeq DEF EndSend, TypeOK, LoopsOK
  <2>3. QED
    BY <1>4, <2>1, <2>2 DEF SendTask
<1>5. ASSUME NEW c \in Conn, CloseSocket(c)
      PROVE  TypeOK' /\ LoopsOK'
  BY <1>5 DEF CloseSocket, TypeOK, LoopsOK
<1>6. QED
  BY <1>0, <1>1, <1>2, <1>3, <1>4, <1>5 DEF Next

\* Every variable keeps its type in every behaviour of the server.
THEOREM TypeCorrect == Spec => []TypeOK
<1>1. TypeOK /\ LoopsOK /\ [Next]_vars => (TypeOK /\ LoopsOK)'
  BY TypeStep
<1>2. QED
  BY TypeInit, <1>1, PTL DEF Spec

------------------------------------------------------------------------------
\* Mutual discovery.

\* tx_map follows the handlers; a Left is only ever queued for a peer that
\* has been removed from tx_map.
RegisteredInv ==
    registered = {c \in Conn : handler[c] \in {"join", "hello", "run", "close"}}

LeftInv ==
    \A c \in Conn : \A i \in DOMAIN channel[c] :
      channel[c][i].type = "Left" => handler[channel[c][i].peer] \in {"left", "done"}

\* The send task does not run before the Hello is queued.
NotSpawned ==
    \A c \in Conn : handler[c] \in {"idle", "join", "hello"} => send_task[c] = "off"

\* NoMissedPeer is not inductive alone: delivering a queued Left of a peer
\* that is still registered would make the client forget it, and a Hello
\* queued after the send task ended would be lost.
RoomInv ==
    TypeOK /\ LoopsOK /\ RegisteredInv /\ LeftInv /\ NotSpawned /\ NoMissedPeer

\* Sending appends one message to one channel and keeps all others.
LEMMA SendToElements ==
  ASSUME NEW t \in Conn, NEW msg,
         channel \in [Conn -> Seq(WsServerMessage)],
         msg \in WsServerMessage, SendTo(t, msg)
  PROVE  /\ \A x \in Conn : \A i \in DOMAIN channel'[x] :
              \/ i \in DOMAIN channel[x] /\ channel'[x][i] = channel[x][i]
              \/ x = t /\ channel'[x][i] = msg
         /\ \A x \in Conn : \A i \in DOMAIN channel[x] :
              i \in DOMAIN channel'[x] /\ channel'[x][i] = channel[x][i]
         /\ ChannelOpen(t) => \E i \in DOMAIN channel'[t] : channel'[t][i] = msg
<1>1. CASE ~ChannelOpen(t)
  BY <1>1 DEF SendTo
<1>2. CASE ChannelOpen(t)
  <2>1. channel' = [channel EXCEPT ![t] = Append(channel[t], msg)]
    BY <1>2 DEF SendTo
  <2>2. /\ Append(channel[t], msg) \in Seq(WsServerMessage)
        /\ DOMAIN Append(channel[t], msg) = 1 .. Len(channel[t]) + 1
        /\ \A i \in 1 .. Len(channel[t]) : Append(channel[t], msg)[i] = channel[t][i]
        /\ Append(channel[t], msg)[Len(channel[t]) + 1] = msg
        /\ DOMAIN channel[t] = 1 .. Len(channel[t])
        /\ Len(channel[t]) \in Nat
    BY AppendProperties, LenProperties
  <2>3. channel'[t] = Append(channel[t], msg) /\ \A x \in Conn : x # t => channel'[x] = channel[x]
    BY <2>1
  <2>4. \A i \in DOMAIN channel'[t] :
           \/ i \in DOMAIN channel[t] /\ channel'[t][i] = channel[t][i]
           \/ channel'[t][i] = msg
    BY <2>2, <2>3
  <2>5. \A i \in DOMAIN channel[t] :
           i \in DOMAIN channel'[t] /\ channel'[t][i] = channel[t][i]
    BY <2>2, <2>3
  <2>6. \E i \in DOMAIN channel'[t] : channel'[t][i] = msg
    BY <2>2, <2>3
  <2>7. QED BY <2>3, <2>4, <2>5, <2>6
<1>3. QED BY <1>1, <1>2

\* Delivering removes the head.
LEMMA TailElements ==
  ASSUME NEW S, NEW q \in Seq(S), q # <<>>
  PROVE  /\ Tail(q) \in Seq(S)
         /\ \A i \in DOMAIN Tail(q) : i + 1 \in DOMAIN q /\ Tail(q)[i] = q[i + 1]
         /\ \A i \in DOMAIN q : q[i] = Head(q) \/ (i - 1 \in DOMAIN Tail(q) /\ Tail(q)[i - 1] = q[i])
         /\ Head(q) = q[1] /\ 1 \in DOMAIN q
<1>1. /\ Len(q) \in Nat /\ Len(q) # 0 /\ DOMAIN q = 1 .. Len(q)
  BY LenProperties, EmptySeq
<1>2. /\ Tail(q) \in Seq(S)
      /\ Len(Tail(q)) = Len(q) - 1
      /\ \A i \in 1 .. Len(Tail(q)) : Tail(q)[i] = q[i + 1]
  BY <1>1, HeadTailProperties
<1>3. DOMAIN Tail(q) = 1 .. Len(q) - 1
  BY <1>2, LenProperties
<1>4. Head(q) = q[1]
  OBVIOUS
<1>5. \A i \in DOMAIN Tail(q) : i + 1 \in DOMAIN q /\ Tail(q)[i] = q[i + 1]
  BY <1>1, <1>2, <1>3
<1>6. ASSUME NEW i \in DOMAIN q
      PROVE  q[i] = Head(q) \/ (i - 1 \in DOMAIN Tail(q) /\ Tail(q)[i - 1] = q[i])
  <2>1. CASE i = 1
    BY <2>1, <1>4
  <2>2. CASE i # 1
    <3>1. i - 1 \in 1 .. Len(q) - 1 /\ (i - 1) + 1 = i
      BY <2>2, <1>1
    <3>2. QED BY <3>1, <1>2, <1>3
  <2>3. QED BY <2>1, <2>2
<1>7. QED
  BY <1>1, <1>2, <1>4, <1>5, <1>6

LEMMA RegisteredStep ==
  ASSUME TypeOK, LoopsOK, RegisteredInv, [Next]_vars
  PROVE  RegisteredInv'
<1> USE DEF txMapVars, countVars, handlerVars, recvVars, clientVars
<1>0. CASE UNCHANGED vars
  BY <1>0 DEF vars, RegisteredInv
<1>1. CASE ClearRequestCounts
  BY <1>1 DEF ClearRequestCounts, RegisteredInv
<1>2. ASSUME NEW c \in Conn, HandleSocket(c) PROVE RegisteredInv'
  <2>1. CASE Register(c)
    <3>1. /\ registered' = registered \cup {c}
          /\ handler' = [handler EXCEPT ![c] = "hello"] \/ handler' = [handler EXCEPT ![c] = "join"]
      BY <2>1 DEF Register
    <3>2. QED BY <3>1 DEF RegisteredInv, TypeOK
  <2>2. CASE Unregister(c)
    <3>1. /\ registered' = registered \ {c}
          /\ handler' = [handler EXCEPT ![c] = "done"] \/ handler' = [handler EXCEPT ![c] = "left"]
      BY <2>2 DEF Unregister
    <3>2. QED BY <3>1 DEF RegisteredInv, TypeOK
  <2>3. CASE Reject(c) \/ SendJoin(c) \/ SendHello(c) \/ TaskEnded(c) \/ SendLeft(c)
    <3> DEFINE In == {"join", "hello", "run", "close"}
    <3>0. DOMAIN handler = Conn
      BY DEF TypeOK
    <3>1. /\ registered' = registered
          /\ handler'[c] \in In <=> handler[c] \in In
          /\ \A x \in Conn : x # c => handler'[x] = handler[x]
      <4>1. CASE Reject(c)
        BY <3>0, <4>1 DEF Reject
      <4>2. CASE SendJoin(c)
        BY <3>0, <4>2 DEF SendJoin
      <4>3. CASE SendHello(c)
        BY <3>0, <4>3 DEF SendHello
      <4>4. CASE TaskEnded(c)
        BY <3>0, <4>4 DEF TaskEnded
      <4>5. CASE SendLeft(c)
        BY <3>0, <4>5 DEF SendLeft
      <4>6. QED BY <2>3, <4>1, <4>2, <4>3, <4>4, <4>5
    <3>2. \A x \in Conn : handler'[x] \in In <=> handler[x] \in In
      BY <3>1
    <3>3. QED BY <3>1, <3>2 DEF RegisteredInv
  <2>4. QED BY <1>2, <2>1, <2>2, <2>3 DEF HandleSocket
<1>3. ASSUME NEW c \in Conn, RecvTask(c) \/ SendTask(c) \/ CloseSocket(c)
      PROVE  RegisteredInv'
  BY <1>3 DEF RecvTask, ReadRequest, ReadOverLimit, SendError, ReadEnd, StoreUpdate,
              LookupTarget, FanOut, AbortRecv, SendTask, Deliver, EndSend,
              CloseSocket, RegisteredInv
<1>4. QED
  BY <1>0, <1>1, <1>2, <1>3 DEF Next

LEMMA NotSpawnedStep ==
  ASSUME TypeOK, NotSpawned, [Next]_vars
  PROVE  NotSpawned'
<1> USE DEF txMapVars, countVars, handlerVars, recvVars, clientVars
<1>0. CASE ClearRequestCounts \/ UNCHANGED vars
  BY <1>0 DEF vars, ClearRequestCounts, NotSpawned
<1>1. ASSUME NEW c \in Conn, HandleSocket(c) PROVE NotSpawned'
  <2>1. CASE Register(c)
    <3>1. /\ handler[c] = "idle" /\ UNCHANGED send_task
          /\ \E h \in {"hello", "join"} : handler' = [handler EXCEPT ![c] = h]
      BY <2>1 DEF Register
    <3>2. QED BY <3>1 DEF NotSpawned, TypeOK
  <2>2. CASE Unregister(c)
    <3>1. /\ UNCHANGED send_task
          /\ \E h \in {"done", "left"} : handler' = [handler EXCEPT ![c] = h]
      BY <2>2 DEF Unregister
    <3>2. QED BY <3>1 DEF NotSpawned, TypeOK
  <2>3. CASE Reject(c) \/ SendJoin(c) \/ SendHello(c) \/ TaskEnded(c) \/ SendLeft(c)
    <3>1. CASE Reject(c) \/ TaskEnded(c) \/ SendLeft(c)
      BY <3>1 DEF Reject, TaskEnded, SendLeft, NotSpawned, TypeOK
    <3>2. CASE SendJoin(c)
      BY <3>2 DEF SendJoin, NotSpawned, TypeOK
    <3>3. CASE SendHello(c)
      BY <3>3 DEF SendHello, NotSpawned, TypeOK
    <3>4. QED BY <2>3, <3>1, <3>2, <3>3
  <2>4. QED BY <1>1, <2>1, <2>2, <2>3 DEF HandleSocket
<1>2. ASSUME NEW c \in Conn, RecvTask(c) \/ SendTask(c) \/ CloseSocket(c)
      PROVE  NotSpawned'
  BY <1>2 DEF RecvTask, ReadRequest, ReadOverLimit, SendError, ReadEnd, StoreUpdate,
              LookupTarget, FanOut, AbortRecv, SendTask, Deliver, EndSend,
              CloseSocket, NotSpawned, TypeOK
<1>3. QED
  BY <1>0, <1>1, <1>2 DEF Next

\* A Left is queued by SendLeft only, when its peer's handler has already
\* removed the peer; a handler never leaves "left" and "done" again.
LEMMA LeftStep ==
  ASSUME TypeOK, LoopsOK, LeftInv, [Next]_vars
  PROVE  LeftInv'
<1> USE DEF txMapVars, countVars, handlerVars, recvVars, clientVars
<1> DEFINE Gone(h, msg) == msg.type = "Left" => h[msg.peer] \in {"left", "done"}
<1>1. \A p \in Conn : handler[p] \in {"left", "done"} => handler'[p] \in {"left", "done"}
  <2>1. ASSUME NEW c \in Conn, HandleSocket(c)
        PROVE  \A p \in Conn : handler[p] \in {"left", "done"} => handler'[p] \in {"left", "done"}
    <3>1. CASE Register(c) \/ Reject(c)
      BY <3>1 DEF Register, Reject, TypeOK
    <3>2. CASE SendJoin(c) \/ SendHello(c) \/ TaskEnded(c) \/ Unregister(c) \/ SendLeft(c)
      BY <3>2 DEF SendJoin, SendHello, TaskEnded, Unregister, SendLeft, TypeOK
    <3>3. QED BY <2>1, <3>1, <3>2 DEF HandleSocket
  <2>2. ASSUME NEW c \in Conn, RecvTask(c) \/ SendTask(c) \/ CloseSocket(c)
        PROVE  UNCHANGED handler
    BY <2>2 DEF RecvTask, ReadRequest, ReadOverLimit, SendError, ReadEnd, StoreUpdate,
                LookupTarget, FanOut, AbortRecv, SendTask, Deliver, EndSend, CloseSocket
  <2>3. CASE ClearRequestCounts \/ UNCHANGED vars
    BY <2>3 DEF ClearRequestCounts, vars
  <2>4. QED BY <2>1, <2>2, <2>3 DEF Next
<1>2. \A c \in Conn : \A i \in DOMAIN channel[c] :
        channel[c][i] \in WsServerMessage /\ (channel[c][i].type = "Left" => channel[c][i].peer \in Conn)
  BY ElementOfSeq DEF TypeOK, WsServerMessage, TooManyRequests
<1>3. SUFFICES \A c \in Conn : \A i \in DOMAIN channel'[c] :
                  \/ \E j \in DOMAIN channel[c] : channel'[c][i] = channel[c][j]
                  \/ channel'[c][i].type # "Left"
                  \/ channel'[c][i].peer \in Conn /\ handler'[channel'[c][i].peer] \in {"left", "done"}
  BY <1>1, <1>2 DEF LeftInv
<1>4. ASSUME NEW t \in Conn, NEW msg \in WsServerMessage, SendTo(t, msg),
             \/ msg.type # "Left"
             \/ msg.peer \in Conn /\ handler'[msg.peer] \in {"left", "done"}
      PROVE  \A c \in Conn : \A i \in DOMAIN channel'[c] :
                  \/ \E j \in DOMAIN channel[c] : channel'[c][i] = channel[c][j]
                  \/ channel'[c][i].type # "Left"
                  \/ channel'[c][i].peer \in Conn /\ handler'[channel'[c][i].peer] \in {"left", "done"}
  <2>1. \A x \in Conn : \A i \in DOMAIN channel'[x] :
              \/ i \in DOMAIN channel[x] /\ channel'[x][i] = channel[x][i]
              \/ x = t /\ channel'[x][i] = msg
    <3>1. channel \in [Conn -> Seq(WsServerMessage)]
      BY DEF TypeOK
    <3>2. QED BY <1>4, <3>1, SendToElements
  <2>2. ASSUME NEW c \in Conn, NEW i \in DOMAIN channel'[c]
        PROVE  \/ \E j \in DOMAIN channel[c] : channel'[c][i] = channel[c][j]
               \/ channel'[c][i].type # "Left"
               \/ channel'[c][i].peer \in Conn /\ handler'[channel'[c][i].peer] \in {"left", "done"}
    <3>1. CASE i \in DOMAIN channel[c] /\ channel'[c][i] = channel[c][i]
      BY <3>1
    <3>2. CASE channel'[c][i] = msg
      BY <1>4, <3>2
    <3>3. QED BY <2>1, <3>1, <3>2
  <2>3. QED BY <2>2
<1>5. ASSUME NEW c \in Conn, SendJoin(c) \/ SendHello(c) \/ SendError(c) \/ FanOut(c) \/ SendLeft(c)
      PROVE  \E t \in Conn, msg \in WsServerMessage :
               /\ SendTo(t, msg)
               /\ \/ msg.type # "Left"
                  \/ msg.peer \in Conn /\ handler'[msg.peer] \in {"left", "done"}
  <2>1. CASE SendJoin(c)
    <3>1. Head(peers_tx[c]) \in Conn
      BY <2>1, HeadTailProperties DEF SendJoin, LoopsOK, TypeOK
    <3>2. Join(c).type # "Left"
      BY DEF Join
    <3>3. QED BY <2>1, <3>1, <3>2, MessageTypes DEF SendJoin
  <2>2. CASE SendHello(c)
    <3>1. Hello(c, peers[c]) \in WsServerMessage /\ Hello(c, peers[c]).type # "Left"
      BY MessageTypes DEF Hello, TypeOK
    <3>2. QED BY <2>2, <3>1 DEF SendHello
  <2>3. CASE SendError(c)
    <3>1. TooManyRequests \in WsServerMessage /\ TooManyRequests.type # "Left"
      BY MessageTypes DEF TooManyRequests
    <3>2. QED BY <2>3, <3>1 DEF SendError
  <2>4. CASE FanOut(c)
    <3>1. Head(fan_out[c]) \in Conn
      BY <2>4, HeadTailProperties DEF FanOut, LoopsOK, TypeOK
    <3>2. Outgoing(c) \in WsServerMessage
      BY <2>4, OutgoingType DEF FanOut, LoopsOK
    <3>3. Outgoing(c).type # "Left"
      BY <2>4 DEF Outgoing, Update, Sdp, FanOut, LoopsOK, WsClientMessage
    <3>4. QED BY <2>4, <3>1, <3>2, <3>3 DEF FanOut
  <2>5. CASE SendLeft(c)
    <3>1. Head(peers_tx[c]) \in Conn
      BY <2>5, HeadTailProperties DEF SendLeft, LoopsOK, TypeOK
    <3>2. Left(c).peer = c /\ handler'[c] \in {"left", "done"}
      BY <2>5 DEF SendLeft, Left, TypeOK
    <3>3. QED BY <2>5, <3>1, <3>2, MessageTypes DEF SendLeft
  <2>6. QED BY <1>5, <2>1, <2>2, <2>3, <2>4, <2>5
<1>6. ASSUME NEW c \in Conn, Deliver(c)
      PROVE  \A x \in Conn : \A i \in DOMAIN channel'[x] :
               \E j \in DOMAIN channel[x] : channel'[x][i] = channel[x][j]
  <2>1. channel' = [channel EXCEPT ![c] = Tail(channel[c])] /\ channel[c] # <<>>
    BY <1>6 DEF Deliver
  <2>2. channel[c] \in Seq(WsServerMessage)
    BY DEF TypeOK
  <2>3. \A i \in DOMAIN Tail(channel[c]) :
           i + 1 \in DOMAIN channel[c] /\ Tail(channel[c])[i] = channel[c][i + 1]
    BY <2>1, <2>2, TailElements
  <2>4. QED BY <2>1, <2>3 DEF TypeOK
<1>7. ASSUME NEW c \in Conn, EndSend(c)
      PROVE  \A x \in Conn : \A i \in DOMAIN channel'[x] :
               \E j \in DOMAIN channel[x] : channel'[x][i] = channel[x][j]
  BY <1>7 DEF EndSend, TypeOK
<1>8. ASSUME NEW c \in Conn,
             \/ Register(c) \/ Reject(c) \/ TaskEnded(c) \/ Unregister(c)
             \/ ReadRequest(c) \/ ReadOverLimit(c) \/ ReadEnd(c) \/ StoreUpdate(c)
             \/ LookupTarget(c) \/ AbortRecv(c) \/ CloseSocket(c)
      PROVE  UNCHANGED channel
  BY <1>8 DEF Register, Reject, TaskEnded, Unregister, ReadRequest, ReadOverLimit,
              ReadEnd, StoreUpdate, LookupTarget, AbortRecv, CloseSocket
<1>9. CASE ClearRequestCounts \/ UNCHANGED vars
  BY <1>9 DEF ClearRequestCounts, vars
<1>10. CASE \E c \in Conn : HandleSocket(c) \/ RecvTask(c) \/ SendTask(c) \/ CloseSocket(c)
  BY <1>4, <1>5, <1>6, <1>7, <1>8, <1>10 DEF HandleSocket, RecvTask, SendTask
<1>11. QED BY <1>9, <1>10 DEF Next

\* Delivering an announcement of p makes p known; delivering anything but
\* a Left of p does not make p unknown.
LEMMA ApplyKnows ==
  ASSUME NEW v \in DeviceMap, NEW msg \in WsServerMessage, NEW p \in Conn
  PROVE  /\ Announces(msg, p) => Apply(v, msg)[p] # {}
         /\ v[p] # {} /\ ~(msg.type = "Left" /\ msg.peer = p) => Apply(v, msg)[p] # {}
<1> USE DEF RegisterDevice
<1>1. CASE msg.type = "Hello"
  BY <1>1 DEF Apply, Announces
<1>2. CASE msg.type \in {"Join", "Update"}
  BY <1>2 DEF Apply, Announces, DeviceMap
<1>3. CASE msg.type = "Left"
  BY <1>3 DEF Apply, Announces, DeviceMap, WsServerMessage, TooManyRequests
<1>4. CASE msg.type \in {"Offer", "Answer", "Error"}
  BY <1>4 DEF Apply, Announces
<1>5. QED
  BY <1>1, <1>2, <1>3, <1>4 DEF WsServerMessage, TooManyRequests

\* What keeps Told true for two peers that were registered before.
LEMMA ToldFrame ==
  ASSUME NEW c \in Conn, NEW p \in Conn, Told(c, p),
         view'[c][p] = view[c][p],
         \A i \in DOMAIN channel[c] : \E j \in DOMAIN channel'[c] : channel'[c][j] = channel[c][i],
         handler[p] = "join" => handler'[p] = "join" /\ peers_tx'[p] = peers_tx[p],
         handler[c] \in {"join", "hello"} => handler'[c] \in {"join", "hello"},
         peers'[c] = peers[c]
  PROVE  Told(c, p)'
BY DEF Told, Announces

LEMMA NoMissedStep ==
  ASSUME RoomInv, [Next]_vars, TypeOK'
  PROVE  NoMissedPeer'
<1> USE DEF txMapVars, countVars, handlerVars, recvVars, clientVars
<1> SUFFICES ASSUME NEW c \in Conn, NEW p \in Conn, c \in registered', p \in registered',
                    c # p, GroupOf[c] = GroupOf[p], Served(c)'
             PROVE  Told(c, p)'
  BY DEF NoMissedPeer, TypeOK
<1>0. TypeOK /\ LoopsOK /\ RegisteredInv /\ LeftInv /\ NotSpawned /\ NoMissedPeer
  BY DEF RoomInv
<1>1. c \in registered /\ p \in registered /\ Served(c) => Told(c, p)
  BY <1>0 DEF NoMissedPeer
<1>2. CASE ClearRequestCounts \/ UNCHANGED vars
  <2>1. UNCHANGED <<registered, channel, handler, peers, peers_tx, send_task, socket, view>>
    BY <1>2 DEF ClearRequestCounts, vars
  <2>2. Served(c)
    BY <2>1 DEF Served
  <2>3. QED BY <1>1, <2>1, <2>2, ToldFrame
<1>3. ASSUME NEW x \in Conn, HandleSocket(x) PROVE Told(c, p)'
  <2>1. CASE Register(x)
    <3>1. PICK tx \in Receivers(LocalMap(GroupOf[x])) :
             /\ peers_tx' = [peers_tx EXCEPT ![x] = tx]
             /\ handler' = [handler EXCEPT ![x] = IF tx = <<>> THEN "hello" ELSE "join"]
      BY <2>1 DEF Register
    <3>2. /\ handler[x] = "idle"
          /\ registered' = registered \cup {x}
          /\ peers' = [peers EXCEPT ![x] =
               [q \in Conn |-> IF q \in LocalMap(GroupOf[x]) THEN client[q] ELSE NoInfo]]
          /\ UNCHANGED <<channel, send_task, socket, view>>
      BY <2>1 DEF Register
    <3>3. CASE x = c
      <4>1. p \in LocalMap(GroupOf[c])
        BY <3>2, <3>3 DEF LocalMap
      <4>2. peers'[c][p] = client[p]
        BY <3>2, <3>3, <4>1, <1>0 DEF TypeOK
      <4>3. client[p] # NoInfo
        BY <1>0, ConstantsAssumption DEF TypeOK
      <4>4. handler'[c] \in {"join", "hello"}
        BY <3>1, <3>3, <1>0 DEF TypeOK
      <4>5. QED BY <4>2, <4>3, <4>4 DEF Told
    <3>4. CASE x = p
      <4>1. c \in LocalMap(GroupOf[p])
        BY <3>2, <3>4 DEF LocalMap
      <4>2. \E i \in DOMAIN tx : tx[i] = c
        <5>1. LocalMap(GroupOf[x]) \subseteq Conn /\ IsFiniteSet(LocalMap(GroupOf[x]))
          BY <1>0, LocalMapFinite
        <5>2. \A q \in LocalMap(GroupOf[x]) : \E i \in DOMAIN tx : tx[i] = q
          <6> DEFINE S == LocalMap(GroupOf[x])
          <6>1. tx \in Receivers(S) /\ S \subseteq Conn /\ IsFiniteSet(S)
            BY <5>1
          <6> HIDE DEF S
          <6>2. \A q \in S : \E i \in DOMAIN tx : tx[i] = q
            BY <6>1, ReceiversElements
          <6>3. QED BY <6>2 DEF S
        <5>3. QED BY <3>4, <4>1, <5>2
      <4>3. tx # <<>>
        BY <4>2
      <4>4. handler'[p] = "join" /\ peers_tx'[p] = tx
        BY <3>1, <3>4, <4>3, <1>0 DEF TypeOK
      <4>5. QED BY <4>2, <4>4 DEF Told
    <3>5. CASE x # c /\ x # p
      <4>1. /\ handler'[c] = handler[c] /\ handler'[p] = handler[p]
            /\ peers_tx'[p] = peers_tx[p] /\ peers'[c] = peers[c]
        BY <3>1, <3>2, <3>5, <1>0 DEF TypeOK
      <4>2. c \in registered /\ p \in registered /\ Served(c)
        BY <3>2, <3>5, <4>1 DEF Served
      <4>3. QED BY <1>1, <3>2, <4>1, <4>2, ToldFrame
    <3>6. QED BY <3>3, <3>4, <3>5
  <2>2. CASE Reject(x) \/ TaskEnded(x)
    <3>1. /\ handler[x] \in {"idle", "run"}
          /\ \E h \in {"rejected", "close"} : handler' = [handler EXCEPT ![x] = h]
          /\ UNCHANGED <<registered, channel, peers, peers_tx, send_task, view>>
          /\ socket'[c] = "open" => socket[c] = "open"
      BY <2>2, <1>0 DEF Reject, TaskEnded, TypeOK
    <3>2. x # c
      BY <3>1, <1>0 DEF Served, TypeOK
    <3>3. /\ handler'[c] = handler[c]
          /\ handler[p] = "join" => handler'[p] = "join"
      BY <3>1, <3>2, <1>0 DEF TypeOK
    <3>4. Served(c)
      BY <3>1, <3>3 DEF Served
    <3>5. QED BY <1>1, <3>1, <3>3, <3>4, ToldFrame
  <2>3. CASE SendJoin(x)
    <3>1. Head(peers_tx[x]) \in Conn /\ peers_tx[x] \in Seq(Conn) /\ peers_tx[x] # <<>>
      BY <2>3, <1>0, HeadTailProperties DEF SendJoin, LoopsOK, TypeOK
    <3>2. /\ handler[x] = "join"
          /\ handler' = [handler EXCEPT ![x] = IF Tail(peers_tx[x]) = <<>> THEN "hello" ELSE "join"]
          /\ peers_tx' = [peers_tx EXCEPT ![x] = Tail(peers_tx[x])]
          /\ SendTo(Head(peers_tx[x]), Join(x))
          /\ UNCHANGED <<registered, peers, send_task, socket, view>>
      BY <2>3 DEF SendJoin
    <3>3. Served(c)
      BY <3>2, <1>0 DEF Served, TypeOK
    <3>4. Told(c, p)
      BY <1>1, <3>2, <3>3
    <3>5. \A i \in DOMAIN channel[c] : i \in DOMAIN channel'[c] /\ channel'[c][i] = channel[c][i]
      BY <3>1, <3>2, <1>0, MessageTypes, SendToElements DEF TypeOK
    <3>6. CASE x = p /\ \E i \in DOMAIN peers_tx[p] : peers_tx[p][i] = c
      <4>1. CASE Head(peers_tx[p]) = c
        <5>1. ChannelOpen(c)
          BY <3>3 DEF Served, ChannelOpen
        <5>2. \E i \in DOMAIN channel'[c] : channel'[c][i] = Join(p)
          <6>1. SendTo(c, Join(p))
            BY <3>2, <3>6, <4>1
          <6>2. Join(p) \in WsServerMessage
            BY MessageTypes
          <6>3. channel \in [Conn -> Seq(WsServerMessage)]
            BY <1>0 DEF TypeOK
          <6>4. QED BY <5>1, <6>1, <6>2, <6>3, SendToElements
        <5>3. Announces(Join(p), p)
          BY DEF Announces, Join
        <5>4. QED BY <5>2, <5>3 DEF Told, Announces
      <4>2. CASE Head(peers_tx[p]) # c
        <5>1. \E i \in DOMAIN Tail(peers_tx[p]) : Tail(peers_tx[p])[i] = c
          <6>1. PICK i \in DOMAIN peers_tx[p] : peers_tx[p][i] = c
            BY <3>6
          <6>2. peers_tx[p] \in Seq(Conn) /\ peers_tx[p] # <<>>
            BY <3>1, <3>6
          <6>3. \/ peers_tx[p][i] = Head(peers_tx[p])
                \/ i - 1 \in DOMAIN Tail(peers_tx[p]) /\ Tail(peers_tx[p])[i - 1] = peers_tx[p][i]
            BY <6>1, <6>2, TailElements
          <6>4. QED BY <4>2, <6>1, <6>3
        <5>2. Tail(peers_tx[p]) # <<>>
          BY <5>1
        <5>3. handler'[p] = "join" /\ peers_tx'[p] = Tail(peers_tx[p])
          BY <3>2, <3>6, <5>2, <1>0 DEF TypeOK
        <5>4. QED BY <5>1, <5>3 DEF Told
      <4>3. QED BY <4>1, <4>2
    <3>7. CASE ~(x = p /\ \E i \in DOMAIN peers_tx[p] : peers_tx[p][i] = c)
      <4>1. handler[c] \in {"join", "hello"} => handler'[c] \in {"join", "hello"}
        BY <3>2, <1>0 DEF TypeOK
      <4>2. x # p => handler'[p] = handler[p] /\ peers_tx'[p] = peers_tx[p]
        BY <3>2, <1>0 DEF TypeOK
      <4>3. QED BY <3>2, <3>4, <3>5, <3>7, <4>1, <4>2 DEF Told, Announces
    <3>8. QED BY <3>6, <3>7
  <2>4. CASE SendHello(x)
    <3>1. /\ handler[x] = "hello"
          /\ handler' = [handler EXCEPT ![x] = "run"]
          /\ send_task' = [send_task EXCEPT ![x] = "drain"]
          /\ SendTo(x, Hello(x, peers[x]))
          /\ UNCHANGED <<registered, peers, peers_tx, socket, view>>
      BY <2>4 DEF SendHello
    <3>2. Hello(x, peers[x]) \in WsServerMessage
      BY <1>0, MessageTypes DEF TypeOK
    <3>3. \A i \in DOMAIN channel[c] : i \in DOMAIN channel'[c] /\ channel'[c][i] = channel[c][i]
      BY <3>1, <3>2, <1>0, SendToElements DEF TypeOK
    <3>4. handler[p] = "join" => handler'[p] = "join" /\ peers_tx'[p] = peers_tx[p]
      BY <3>1, <1>0 DEF TypeOK
    <3>5. CASE x = c
      <4>1. send_task[c] = "ended" \/ Served(c)
        BY <3>1, <3>5, <1>0 DEF Served, TypeOK
      <4>2. send_task[c] # "ended"
        BY <3>1, <3>5, <1>0 DEF NotSpawned
      <4>3. Told(c, p)
        BY <1>1, <3>1, <4>1, <4>2
      <4>4. CASE peers[c][p] # NoInfo
        <5>1. \E i \in DOMAIN channel'[c] : channel'[c][i] = Hello(c, peers[c])
          <6>1. SendTo(c, Hello(c, peers[c])) /\ Hello(c, peers[c]) \in WsServerMessage
            BY <3>1, <3>2, <3>5
          <6>2. channel \in [Conn -> Seq(WsServerMessage)] /\ ChannelOpen(c)
            BY <4>2, <1>0 DEF TypeOK, ChannelOpen
          <6>3. QED BY <6>1, <6>2, SendToElements
        <5>2. Announces(Hello(c, peers[c]), p)
          BY <4>4 DEF Announces, Hello
        <5>3. QED BY <5>1, <5>2 DEF Told, Announces
      <4>5. CASE peers[c][p] = NoInfo
        BY <4>3, <4>5, <3>1, <3>3, <3>4 DEF Told, Announces
      <4>6. QED BY <4>4, <4>5
    <3>6. CASE x # c
      <4>1. handler'[c] = handler[c] /\ send_task'[c] = send_task[c]
        BY <3>1, <3>6, <1>0 DEF TypeOK
      <4>2. Served(c)
        BY <3>1, <4>1 DEF Served
      <4>3. QED BY <1>1, <3>1, <3>3, <3>4, <4>1, <4>2, ToldFrame
    <3>7. QED BY <3>5, <3>6
  <2>5. CASE Unregister(x)
    <3>1. /\ handler[x] = "close"
          /\ \E h \in {"done", "left"} : handler' = [handler EXCEPT ![x] = h]
          /\ \E tx : peers_tx' = [peers_tx EXCEPT ![x] = tx]
          /\ registered' = registered \ {x}
          /\ UNCHANGED <<channel, peers, send_task, socket, view>>
      BY <2>5 DEF Unregister
    <3>2. /\ handler'[c] = handler[c] /\ handler'[p] = handler[p]
          /\ peers_tx'[p] = peers_tx[p]
      BY <3>1, <1>0 DEF TypeOK
    <3>3. Served(c)
      BY <3>1, <3>2 DEF Served
    <3>4. QED BY <1>1, <3>1, <3>2, <3>3, ToldFrame
  <2>6. CASE SendLeft(x)
    <3>1. Head(peers_tx[x]) \in Conn
      BY <2>6, <1>0, HeadTailProperties DEF SendLeft, LoopsOK, TypeOK
    <3>2. /\ handler[x] = "left"
          /\ \E h \in {"done", "left"} : handler' = [handler EXCEPT ![x] = h]
          /\ peers_tx' = [peers_tx EXCEPT ![x] = Tail(peers_tx[x])]
          /\ SendTo(Head(peers_tx[x]), Left(x))
          /\ UNCHANGED <<registered, peers, send_task, socket, view>>
      BY <2>6 DEF SendLeft
    <3>3. \A i \in DOMAIN channel[c] : i \in DOMAIN channel'[c] /\ channel'[c][i] = channel[c][i]
      BY <3>1, <3>2, <1>0, MessageTypes, SendToElements DEF TypeOK
    <3>4. x # c /\ x # p
      BY <3>2, <1>0 DEF RegisteredInv
    <3>5. /\ handler'[c] = handler[c] /\ handler'[p] = handler[p]
          /\ peers_tx'[p] = peers_tx[p]
      BY <3>2, <3>4, <1>0 DEF TypeOK
    <3>6. Served(c)
      BY <3>2, <3>5 DEF Served
    <3>7. QED BY <1>1, <3>2, <3>3, <3>5, <3>6, ToldFrame
  <2>7. QED BY <1>3, <2>1, <2>2, <2>3, <2>4, <2>5, <2>6 DEF HandleSocket
<1>4. ASSUME NEW x \in Conn, RecvTask(x) PROVE Told(c, p)'
  <2>1. UNCHANGED <<registered, handler, peers, peers_tx, send_task, socket, view>>
    BY <1>4 DEF RecvTask, ReadRequest, ReadOverLimit, SendError, ReadEnd, StoreUpdate,
                LookupTarget, FanOut, AbortRecv
  <2>2. \A i \in DOMAIN channel[c] : i \in DOMAIN channel'[c] /\ channel'[c][i] = channel[c][i]
    <3>1. CASE SendError(x)
      BY <3>1, <1>0, MessageTypes, SendToElements DEF SendError, TypeOK
    <3>2. CASE FanOut(x)
      <4>1. Head(fan_out[x]) \in Conn
        BY <3>2, <1>0, HeadTailProperties DEF FanOut, LoopsOK, TypeOK
      <4>2. Outgoing(x) \in WsServerMessage
        BY <3>2, <1>0, OutgoingType DEF FanOut, LoopsOK
      <4>3. QED BY <3>2, <4>1, <4>2, <1>0, SendToElements DEF FanOut, TypeOK
    <3>3. CASE \/ ReadRequest(x) \/ ReadOverLimit(x) \/ ReadEnd(x) \/ StoreUpdate(x)
               \/ LookupTarget(x) \/ AbortRecv(x)
      BY <3>3 DEF ReadRequest, ReadOverLimit, ReadEnd, StoreUpdate, LookupTarget, AbortRecv
    <3>4. QED BY <1>4, <3>1, <3>2, <3>3 DEF RecvTask
  <2>3. Served(c)
    BY <2>1 DEF Served
  <2>4. QED BY <1>1, <2>1, <2>2, <2>3, ToldFrame
<1>5. ASSUME NEW x \in Conn, SendTask(x) PROVE Told(c, p)'
  <2>1. UNCHANGED <<registered, handler, peers, peers_tx, socket>>
    BY <1>5 DEF SendTask, Deliver, EndSend
  <2>2. Served(c)
    BY <1>5, <2>1, <1>0 DEF Served, SendTask, Deliver, EndSend, TypeOK
  <2>3. CASE x = c /\ Deliver(c)
    <3> DEFINE msg == Head(channel[c])
    <3>1. channel[c] \in Seq(WsServerMessage) /\ channel[c] # <<>>
      BY <2>3, <1>0 DEF Deliver, TypeOK
    <3>2. /\ channel'[c] = Tail(channel[c])
          /\ view'[c] = Apply(view[c], msg)
      BY <2>2, <2>3, <1>0 DEF Deliver, Served, TypeOK
    <3>3. msg \in WsServerMessage
      BY <3>1, HeadTailProperties
    <3>4. ~(msg.type = "Left" /\ msg.peer = p)
      <4>1. 1 \in DOMAIN channel[c] /\ msg = channel[c][1]
        BY <3>1, TailElements
      <4>2. handler[p] \notin {"left", "done"}
        BY <2>1, <1>0 DEF RegisteredInv
      <4>3. QED BY <4>1, <4>2, <1>0 DEF LeftInv
    <3>5. Told(c, p)
      BY <1>1, <2>1, <2>2
    <3>6. view[c] \in DeviceMap
      BY <1>0 DEF TypeOK
    <3>7. CASE view[c][p] # {}
      BY <3>2, <3>3, <3>4, <3>6, <3>7, ApplyKnows DEF Told
    <3>8. CASE \E i \in DOMAIN channel[c] : Announces(channel[c][i], p)
      <4>1. PICK i \in DOMAIN channel[c] : Announces(channel[c][i], p)
        BY <3>8
      <4>2. channel[c][i] = msg \/ (i - 1 \in DOMAIN Tail(channel[c]) /\ Tail(channel[c])[i - 1] = channel[c][i])
        BY <3>1, TailElements
      <4>3. CASE channel[c][i] = msg
        BY <4>1, <4>3, <3>2, <3>3, <3>6, ApplyKnows DEF Told
      <4>4. CASE i - 1 \in DOMAIN Tail(channel[c]) /\ Tail(channel[c])[i - 1] = channel[c][i]
        BY <4>1, <4>4, <3>2 DEF Told, Announces
      <4>5. QED BY <4>2, <4>3, <4>4
    <3>9. CASE \/ handler[p] = "join" /\ \E i \in DOMAIN peers_tx[p] : peers_tx[p][i] = c
               \/ handler[c] \in {"join", "hello"} /\ peers[c][p] # NoInfo
      BY <3>9, <2>1 DEF Told
    <3>10. QED BY <3>5, <3>7, <3>8, <3>9 DEF Told
  <2>4. CASE x = c /\ EndSend(c)
    BY <2>4, <1>0 DEF EndSend, Served, TypeOK
  <2>5. CASE x # c
    <3>1. channel'[c] = channel[c] /\ view'[c] = view[c]
      BY <1>5, <2>5, <1>0 DEF SendTask, Deliver, EndSend, TypeOK
    <3>2. QED BY <1>1, <2>1, <2>2, <3>1, ToldFrame
  <2>6. QED BY <1>5, <2>3, <2>4, <2>5 DEF SendTask
<1>6. ASSUME NEW x \in Conn, CloseSocket(x) PROVE Told(c, p)'
  <2>1. x # c
    BY <1>6, <1>0 DEF CloseSocket, Served, TypeOK
  <2>2. /\ UNCHANGED <<registered, channel, handler, peers, peers_tx, send_task>>
        /\ socket'[c] = socket[c] /\ view'[c] = view[c]
    BY <1>6, <2>1, <1>0 DEF CloseSocket, TypeOK
  <2>3. Served(c)
    BY <2>2 DEF Served
  <2>4. QED BY <1>1, <2>2, <2>3, ToldFrame
<1>7. QED
  BY <1>2, <1>3, <1>4, <1>5, <1>6 DEF Next

\* Two peers of a group that are registered at the same time never miss each
\* other: whatever the order of the locked blocks and the awaited sends of
\* handle_socket, each one is known to the other or is still going to be
\* announced to it (ws_controller.rs, handle_socket).
THEOREM NoMissedPeerHolds == Spec => []NoMissedPeer
<1>1. Init => RoomInv
  <2>1. ASSUME Init PROVE RegisteredInv /\ LeftInv /\ NotSpawned /\ NoMissedPeer
    BY <2>1 DEF Init, RegisteredInv, LeftInv, NotSpawned, NoMissedPeer
  <2>2. QED BY <2>1, TypeInit DEF RoomInv
<1>2. RoomInv /\ [Next]_vars => RoomInv'
  <2>1. SUFFICES ASSUME RoomInv, [Next]_vars PROVE RoomInv'
    OBVIOUS
  <2>2. TypeOK' /\ LoopsOK'
    BY <2>1, TypeStep DEF RoomInv
  <2>3. RegisteredInv' /\ LeftInv' /\ NotSpawned'
    BY <2>1, RegisteredStep, LeftStep, NotSpawnedStep DEF RoomInv
  <2>4. NoMissedPeer'
    BY <2>1, <2>2, NoMissedStep
  <2>5. QED BY <2>2, <2>3, <2>4 DEF RoomInv
<1>3. RoomInv => NoMissedPeer
  BY DEF RoomInv
<1>4. QED BY <1>1, <1>2, <1>3, PTL DEF Spec

------------------------------------------------------------------------------
\* The limits and the rooms.

\* SendTo waits for a free slot.
LEMMA SendToLength ==
  ASSUME NEW t \in Conn, NEW msg \in WsServerMessage,
         channel \in [Conn -> Seq(WsServerMessage)],
         \A x \in Conn : Len(channel[x]) <= ChannelCapacity,
         SendTo(t, msg)
  PROVE  \A x \in Conn : Len(channel'[x]) <= ChannelCapacity
<1>1. CASE ~ChannelOpen(t)
  BY <1>1 DEF SendTo
<1>2. CASE ChannelOpen(t)
  <2>1. /\ channel' = [channel EXCEPT ![t] = Append(channel[t], msg)]
        /\ Len(channel[t]) < ChannelCapacity
    BY <1>2 DEF SendTo, CanSend
  <2>2. Len(Append(channel[t], msg)) = Len(channel[t]) + 1 /\ Len(channel[t]) \in Nat
    BY AppendProperties, LenProperties
  <2>3. Len(channel'[t]) <= ChannelCapacity
    BY <2>1, <2>2, ConstantsAssumption
  <2>4. \A x \in Conn : x # t => channel'[x] = channel[x]
    BY <2>1
  <2>5. QED BY <2>3, <2>4
<1>3. QED BY <1>1, <1>2

ChannelsBounded == \A c \in Conn : Len(channel[c]) <= ChannelCapacity

LEMMA ChannelsStep ==
  ASSUME TypeOK, LoopsOK, ChannelsBounded, [Next]_vars
  PROVE  ChannelsBounded'
<1> USE DEF txMapVars, countVars, handlerVars, recvVars, clientVars
<1>0. channel \in [Conn -> Seq(WsServerMessage)]
  BY DEF TypeOK
<1>1. ASSUME channel' = channel PROVE ChannelsBounded'
  BY <1>1 DEF ChannelsBounded
<1>2. ASSUME NEW t \in Conn, NEW msg \in WsServerMessage, SendTo(t, msg)
      PROVE  ChannelsBounded'
  BY <1>0, <1>2, SendToLength DEF ChannelsBounded
<1>3. ASSUME NEW c \in Conn, SendJoin(c) \/ SendLeft(c) PROVE ChannelsBounded'
  <2>1. Head(peers_tx[c]) \in Conn
    BY <1>3, HeadTailProperties DEF SendJoin, SendLeft, LoopsOK, TypeOK
  <2>2. QED BY <1>2, <1>3, <2>1, MessageTypes DEF SendJoin, SendLeft
<1>4. ASSUME NEW c \in Conn, SendHello(c) PROVE ChannelsBounded'
  <2>1. peers[c] \in PeerList
    BY DEF TypeOK
  <2>2. QED BY <1>2, <1>4, <2>1, MessageTypes DEF SendHello
<1>5. ASSUME NEW c \in Conn, SendError(c) PROVE ChannelsBounded'
  BY <1>2, <1>5, MessageTypes DEF SendError
<1>6. ASSUME NEW c \in Conn, FanOut(c) PROVE ChannelsBounded'
  <2>1. Head(fan_out[c]) \in Conn
    BY <1>6, HeadTailProperties DEF FanOut, LoopsOK, TypeOK
  <2>2. Outgoing(c) \in WsServerMessage
    BY <1>6, OutgoingType DEF FanOut, LoopsOK
  <2>3. QED BY <1>2, <1>6, <2>1, <2>2 DEF FanOut
<1>7. ASSUME NEW c \in Conn, Deliver(c) PROVE ChannelsBounded'
  <2>1. channel' = [channel EXCEPT ![c] = Tail(channel[c])] /\ channel[c] # <<>>
    BY <1>7 DEF Deliver
  <2>2. Len(Tail(channel[c])) = Len(channel[c]) - 1 /\ Len(channel[c]) \in Nat
    BY <1>0, <2>1, HeadTailProperties, LenProperties
  <2>3. Len(channel[c]) <= ChannelCapacity /\ ChannelCapacity \in Nat
    BY ConstantsAssumption DEF ChannelsBounded
  <2>4. Len(channel'[c]) <= ChannelCapacity
    BY <1>0, <2>1, <2>2, <2>3
  <2>5. \A x \in Conn : x # c => channel'[x] = channel[x]
    BY <1>0, <2>1
  <2>6. QED BY <2>4, <2>5 DEF ChannelsBounded
<1>8. ASSUME NEW c \in Conn, EndSend(c) PROVE ChannelsBounded'
  <2>1. channel' = [channel EXCEPT ![c] = <<>>]
    BY <1>8 DEF EndSend
  <2>2. Len(<<>>) = 0
    OBVIOUS
  <2>3. QED BY <1>0, <2>1, <2>2, ConstantsAssumption DEF ChannelsBounded
<1>9. ASSUME NEW c \in Conn,
             \/ Register(c) \/ Reject(c) \/ TaskEnded(c) \/ Unregister(c) \/ ReadRequest(c)
             \/ ReadOverLimit(c) \/ ReadEnd(c) \/ StoreUpdate(c) \/ LookupTarget(c)
             \/ AbortRecv(c) \/ CloseSocket(c)
      PROVE  ChannelsBounded'
  BY <1>1, <1>9 DEF Register, Reject, TaskEnded, Unregister, ReadRequest, ReadOverLimit,
                    ReadEnd, StoreUpdate, LookupTarget, AbortRecv, CloseSocket
<1>10. CASE ClearRequestCounts \/ UNCHANGED vars
  BY <1>1, <1>10 DEF ClearRequestCounts, vars
<1>11. QED
  BY <1>3, <1>4, <1>5, <1>6, <1>7, <1>8, <1>9, <1>10
     DEF Next, HandleSocket, RecvTask, SendTask

RoomsBounded == \A g \in IpGroup : Cardinality(LocalMap(g)) <= MAX_CONNECTIONS

LEMMA RoomsStep ==
  ASSUME TypeOK, RoomsBounded, [Next]_vars
  PROVE  RoomsBounded'
<1> USE DEF txMapVars, countVars, handlerVars, recvVars, clientVars
<1>1. ASSUME registered' = registered PROVE RoomsBounded'
  BY <1>1 DEF RoomsBounded, LocalMap
<1>2. ASSUME NEW c \in Conn, Register(c) PROVE RoomsBounded'
  <2> SUFFICES ASSUME NEW g \in IpGroup PROVE Cardinality(LocalMap(g)') <= MAX_CONNECTIONS
    BY DEF RoomsBounded
  <2>1. registered' = registered \cup {c} /\ HasRoom(GroupOf[c])
    BY <1>2 DEF Register
  <2>2. IsFiniteSet(LocalMap(g)) /\ Cardinality(LocalMap(g)) \in Nat
    BY LocalMapFinite, FS_CardinalityType
  <2>3. CASE g = GroupOf[c]
    <3>1. LocalMap(g)' = LocalMap(g) \cup {c}
      BY <2>1, <2>3 DEF LocalMap
    <3>2. Cardinality(LocalMap(g) \cup {c}) <= Cardinality(LocalMap(g)) + 1
      <4>1. \/ Cardinality(LocalMap(g) \cup {c}) = Cardinality(LocalMap(g))
            \/ Cardinality(LocalMap(g) \cup {c}) = Cardinality(LocalMap(g)) + 1
        BY <2>2, FS_AddElement
      <4>2. QED BY <2>2, <4>1
    <3>3. Cardinality(LocalMap(g) \cup {c}) \in Nat
      BY <2>2, FS_AddElement, FS_CardinalityType
    <3>4. Cardinality(LocalMap(g)) < MAX_CONNECTIONS
      BY <2>1, <2>3 DEF HasRoom
    <3>5. QED BY <2>2, <3>1, <3>2, <3>3, <3>4, ConstantsAssumption
  <2>4. CASE g # GroupOf[c]
    <3>1. LocalMap(g)' = LocalMap(g)
      BY <2>1, <2>4 DEF LocalMap
    <3>2. QED BY <3>1 DEF RoomsBounded
  <2>5. QED BY <2>3, <2>4
<1>3. ASSUME NEW c \in Conn, Unregister(c) PROVE RoomsBounded'
  <2> SUFFICES ASSUME NEW g \in IpGroup PROVE Cardinality(LocalMap(g)') <= MAX_CONNECTIONS
    BY DEF RoomsBounded
  <2>1. LocalMap(g)' \subseteq LocalMap(g)
    BY <1>3 DEF Unregister, LocalMap
  <2>2. IsFiniteSet(LocalMap(g)) /\ Cardinality(LocalMap(g)) \in Nat
    BY LocalMapFinite, FS_CardinalityType
  <2>3. /\ Cardinality(LocalMap(g)') <= Cardinality(LocalMap(g))
        /\ Cardinality(LocalMap(g)') \in Nat
    BY <2>1, <2>2, FS_Subset, FS_CardinalityType
  <2>4. Cardinality(LocalMap(g)) <= MAX_CONNECTIONS
    BY DEF RoomsBounded
  <2>5. QED BY <2>2, <2>3, <2>4, ConstantsAssumption
<1>4. ASSUME NEW c \in Conn,
             \/ Reject(c) \/ SendJoin(c) \/ SendHello(c) \/ TaskEnded(c) \/ SendLeft(c)
             \/ RecvTask(c) \/ SendTask(c) \/ CloseSocket(c)
      PROVE  RoomsBounded'
  <2>1. registered' = registered
    BY <1>4 DEF Reject, SendJoin, SendHello, TaskEnded, SendLeft, RecvTask, ReadRequest,
                ReadOverLimit, SendError, ReadEnd, StoreUpdate, LookupTarget, FanOut,
                AbortRecv, SendTask, Deliver, EndSend, CloseSocket
  <2>2. QED BY <1>1, <2>1
<1>5. CASE ClearRequestCounts \/ UNCHANGED vars
  BY <1>1, <1>5 DEF ClearRequestCounts, vars
<1>6. QED
  BY <1>2, <1>3, <1>4, <1>5 DEF Next, HandleSocket

RequestsBounded == \A g \in IpGroup : request_count[g] <= MAX_REQUESTS

LEMMA RequestsStep ==
  ASSUME TypeOK, RequestsBounded, [Next]_vars
  PROVE  RequestsBounded'
<1> USE DEF txMapVars, countVars, handlerVars, recvVars, clientVars
<1>1. ASSUME request_count' = request_count PROVE RequestsBounded'
  BY <1>1 DEF RequestsBounded
<1>2. ASSUME NEW c \in Conn, Register(c) \/ ReadRequest(c) PROVE RequestsBounded'
  <2>1. /\ request_count' = [request_count EXCEPT ![GroupOf[c]] = request_count[GroupOf[c]] + 1]
        /\ request_count[GroupOf[c]] < MAX_REQUESTS
    BY <1>2 DEF Register, ReadRequest, CountRequest, UnderRequestLimit
  <2>2. request_count \in [IpGroup -> Nat] /\ MAX_REQUESTS \in Nat /\ GroupOf[c] \in IpGroup
    BY GroupType, ConstantsAssumption DEF TypeOK
  <2>3. QED BY <2>1, <2>2 DEF RequestsBounded
<1>3. CASE ClearRequestCounts
  BY <1>3, ConstantsAssumption DEF ClearRequestCounts, RequestsBounded
<1>4. ASSUME NEW c \in Conn,
             \/ Reject(c) \/ SendJoin(c) \/ SendHello(c) \/ TaskEnded(c) \/ Unregister(c)
             \/ SendLeft(c) \/ ReadOverLimit(c) \/ SendError(c) \/ ReadEnd(c)
             \/ StoreUpdate(c) \/ LookupTarget(c) \/ FanOut(c) \/ AbortRecv(c)
             \/ SendTask(c) \/ CloseSocket(c)
      PROVE  RequestsBounded'
  <2>1. request_count' = request_count
    BY <1>4 DEF Reject, SendJoin, SendHello, TaskEnded, Unregister, SendLeft,
                ReadOverLimit, SendError, ReadEnd, StoreUpdate, LookupTarget, FanOut,
                AbortRecv, SendTask, Deliver, EndSend, CloseSocket
  <2>2. QED BY <1>1, <2>1
<1>5. CASE UNCHANGED vars
  BY <1>1, <1>5 DEF vars
<1>6. QED
  BY <1>2, <1>3, <1>4, <1>5 DEF Next, HandleSocket, RecvTask

\* No interleaving of handlers, tasks and the hourly job exceeds a limit:
\* the peers of a group, the counted requests of a group and the messages in
\* a channel stay within what ws_controller.rs allows, because each limit is
\* checked in the locked block (or the awaited send) that uses it up.
THEOREM LimitsAlwaysHold == Spec => []LimitsHold
<1> DEFINE Inv == TypeOK /\ LoopsOK /\ ChannelsBounded /\ RoomsBounded /\ RequestsBounded
<1>1. Init => Inv
  <2>1. ASSUME Init PROVE ChannelsBounded /\ RoomsBounded /\ RequestsBounded
    <3>1. \A g : LocalMap(g) = {}
      BY <2>1 DEF Init, LocalMap
    <3>2. RoomsBounded
      BY <3>1, FS_EmptySet, ConstantsAssumption DEF RoomsBounded
    <3>3. Len(<<>>) = 0
      OBVIOUS
    <3>4. ChannelsBounded /\ RequestsBounded
      BY <2>1, <3>3, ConstantsAssumption DEF Init, ChannelsBounded, RequestsBounded
    <3>5. QED BY <3>2, <3>4
  <2>2. QED BY <2>1, TypeInit
<1>2. Inv /\ [Next]_vars => Inv'
  BY TypeStep, ChannelsStep, RoomsStep, RequestsStep
<1>3. Inv => LimitsHold
  BY DEF LimitsHold, ChannelsBounded, RoomsBounded, RequestsBounded
<1>4. QED BY <1>1, <1>2, <1>3, PTL DEF Spec

\* A group's map exists while it has a peer, and is empty only after a
\* rejected connection.
KeysInv ==
    /\ \A c \in registered : GroupOf[c] \in group_keys
    /\ \A g \in group_keys :
         LocalMap(g) # {} \/ \E c \in Conn : GroupOf[c] = g /\ handler[c] = "rejected"

LEMMA KeysStep ==
  ASSUME TypeOK, RegisteredInv, KeysInv, [Next]_vars
  PROVE  KeysInv'
<1> USE DEF txMapVars, countVars, handlerVars, recvVars, clientVars
<1>0. /\ handler \in [Conn -> {"idle", "rejected", "join", "hello", "run", "close",
                              "left", "done"}]
      /\ registered \subseteq Conn
  BY DEF TypeOK
<1>1. ASSUME registered' = registered, group_keys' = group_keys,
             \A x \in Conn : handler[x] = "rejected" => handler'[x] = "rejected"
      PROVE  KeysInv'
  BY <1>1 DEF KeysInv, LocalMap
<1>2. ASSUME NEW c \in Conn, Register(c) PROVE KeysInv'
  <2>1. /\ registered' = registered \cup {c}
        /\ group_keys' = group_keys \cup {GroupOf[c]}
        /\ \A x \in Conn : handler[x] = "rejected" => handler'[x] = "rejected"
    BY <1>0, <1>2 DEF Register
  <2>2. \A g : LocalMap(g) \subseteq LocalMap(g)'
    BY <2>1 DEF LocalMap
  <2>3. c \in LocalMap(GroupOf[c])'
    BY <2>1 DEF LocalMap
  <2>4. QED BY <2>1, <2>2, <2>3 DEF KeysInv
<1>3. ASSUME NEW c \in Conn, Reject(c) PROVE KeysInv'
  <2>1. /\ registered' = registered
        /\ group_keys' = group_keys \cup {GroupOf[c]}
        /\ handler'[c] = "rejected"
        /\ \A x \in Conn : handler[x] = "rejected" => handler'[x] = "rejected"
    BY <1>0, <1>3 DEF Reject
  <2>2. \A g : LocalMap(g)' = LocalMap(g)
    BY <2>1 DEF LocalMap
  <2>3. QED BY <2>1, <2>2 DEF KeysInv
<1>4. ASSUME NEW c \in Conn, Unregister(c) PROVE KeysInv'
  <2>1. /\ handler[c] = "close"
        /\ registered' = registered \ {c}
        /\ group_keys' = GroupsWithout(c)
        /\ \A x \in Conn : handler[x] = "rejected" => handler'[x] = "rejected"
    BY <1>0, <1>4 DEF Unregister
  <2>2. \A g : LocalMap(g)' = LocalMap(g) \ {c}
    BY <2>1 DEF LocalMap
  <2>3. CASE Others(c) = {}
    <3>1. group_keys' = group_keys \ {GroupOf[c]}
      BY <2>1, <2>3 DEF GroupsWithout
    <3>2. \A x \in registered' : GroupOf[x] # GroupOf[c]
      BY <2>1, <2>3 DEF Others, LocalMap
    <3>3. \A g \in group_keys' : LocalMap(g)' = LocalMap(g)
      BY <2>2, <3>1 DEF LocalMap
    <3>4. QED BY <2>1, <3>1, <3>2, <3>3 DEF KeysInv
  <2>4. CASE Others(c) # {}
    <3>1. group_keys' = group_keys
      BY <2>1, <2>4 DEF GroupsWithout
    <3>2. LocalMap(GroupOf[c])' # {}
      BY <2>2, <2>4 DEF Others
    <3>3. \A g : g # GroupOf[c] => LocalMap(g)' = LocalMap(g)
      BY <2>2 DEF LocalMap
    <3>4. QED BY <2>1, <3>1, <3>2, <3>3 DEF KeysInv
  <2>5. QED BY <2>3, <2>4
<1>5. ASSUME NEW c \in Conn, SendJoin(c) \/ SendHello(c) \/ TaskEnded(c) \/ SendLeft(c)
      PROVE  KeysInv'
  BY <1>0, <1>1, <1>5 DEF SendJoin, SendHello, TaskEnded, SendLeft
<1>6. ASSUME NEW c \in Conn, RecvTask(c) \/ SendTask(c) \/ CloseSocket(c)
      PROVE  KeysInv'
  <2>1. registered' = registered /\ group_keys' = group_keys /\ handler' = handler
    BY <1>6 DEF RecvTask, ReadRequest, ReadOverLimit, SendError, ReadEnd, StoreUpdate,
                LookupTarget, FanOut, AbortRecv, SendTask, Deliver, EndSend, CloseSocket
  <2>2. QED BY <1>1, <2>1
<1>7. CASE ClearRequestCounts \/ UNCHANGED vars
  BY <1>1, <1>7 DEF ClearRequestCounts, vars
<1>8. QED
  BY <1>2, <1>3, <1>4, <1>5, <1>6, <1>7 DEF Next, HandleSocket

\* tx_map never leaks: on every path through handle_socket the entry of a
\* peer is there exactly between the two locked blocks, the room of a
\* registered peer exists, and only a rejected connection can leave an empty
\* room behind.
THEOREM TxMapAlwaysFollows == Spec => []TxMapFollowsHandlers
<1> DEFINE Inv == TypeOK /\ LoopsOK /\ RegisteredInv /\ KeysInv
<1>1. Init => Inv
  BY TypeInit DEF Init, RegisteredInv, KeysInv
<1>2. Inv /\ [Next]_vars => Inv'
  BY TypeStep, RegisteredStep, KeysStep
<1>3. Inv => TxMapFollowsHandlers
  BY DEF TxMapFollowsHandlers, RegisteredInv, KeysInv
<1>4. QED BY <1>1, <1>2, <1>3, PTL DEF Spec

------------------------------------------------------------------------------
\* Isolation of the groups.

\* A message says nothing of a peer of another group than g.
Own(msg, g) ==
    msg.type # "Error" =>
      /\ GroupOf[msg.peer] = g
      /\ msg.type = "Hello" =>
           \A p \in Conn : msg.peers[p] # NoInfo => GroupOf[p] = g

\* The senders that handle_socket and recv_task have collected are of the
\* client's own group.
TargetsOwn ==
    \A c \in Conn :
      /\ \A i \in DOMAIN peers_tx[c] : GroupOf[peers_tx[c][i]] = GroupOf[c]
      /\ \A i \in DOMAIN fan_out[c] : GroupOf[fan_out[c][i]] = GroupOf[c]

SnapshotsOwn ==
    \A c, p \in Conn : peers[c][p] # NoInfo => GroupOf[p] = GroupOf[c]

ChannelsOwn ==
    \A c \in Conn : \A i \in DOMAIN channel[c] : Own(channel[c][i], GroupOf[c])

ViewsOwn ==
    \A c, p \in Conn : view[c][p] # {} => GroupOf[p] = GroupOf[c]

\* GroupIsolation is not inductive alone: a message is put into the channel of
\* a sender that was collected earlier, and a Hello brings a whole snapshot.
IsolationInv ==
    TypeOK /\ LoopsOK /\ TargetsOwn /\ SnapshotsOwn /\ ChannelsOwn /\ ViewsOwn

\* What is collected from the map of a group is of that group.
LEMMA ReceiversOwn ==
  ASSUME NEW S, NEW g, IsFiniteSet(S), \A x \in S : GroupOf[x] = g,
         NEW tx \in Receivers(S)
  PROVE  \A i \in DOMAIN tx : GroupOf[tx[i]] = g
<1>1. tx \in Seq(S)
  BY ReceiversElements
<1>2. \A i \in DOMAIN tx : tx[i] \in S
  BY <1>1, ElementOfSeq, LenProperties
<1>3. QED BY <1>2

\* The tail of a list of own senders, and its head, are own senders.
LEMMA TailOwn ==
  ASSUME NEW q \in Seq(Conn), q # <<>>, NEW g, \A i \in DOMAIN q : GroupOf[q[i]] = g
  PROVE  /\ \A i \in DOMAIN Tail(q) : GroupOf[Tail(q)[i]] = g
         /\ Head(q) \in Conn /\ GroupOf[Head(q)] = g
<1>1. /\ \A i \in DOMAIN Tail(q) : i + 1 \in DOMAIN q /\ Tail(q)[i] = q[i + 1]
      /\ Head(q) = q[1] /\ 1 \in DOMAIN q
  BY TailElements
<1>2. Head(q) \in Conn
  BY HeadTailProperties
<1>3. QED BY <1>1, <1>2

LEMMA BeginFanOutOwn ==
  ASSUME TypeOK, TargetsOwn, NEW c \in Conn, NEW tx, BeginFanOut(c, tx),
         \A i \in DOMAIN tx : GroupOf[tx[i]] = GroupOf[c],
         UNCHANGED peers_tx
  PROVE  TargetsOwn'
BY DEF BeginFanOut, TypeOK, TargetsOwn

\* Both loops collect their receivers from the map of the client's own group.
LEMMA TargetsStep ==
  ASSUME TypeOK, LoopsOK, TargetsOwn, [Next]_vars
  PROVE  TargetsOwn'
<1> USE DEF txMapVars, countVars, handlerVars, recvVars, clientVars
<1>0. \A c \in Conn : /\ IsFiniteSet(LocalMap(GroupOf[c])) /\ IsFiniteSet(Others(c))
                      /\ \A x \in LocalMap(GroupOf[c]) : GroupOf[x] = GroupOf[c]
                      /\ \A x \in Others(c) : GroupOf[x] = GroupOf[c]
  BY LocalMapFinite, OthersFinite DEF LocalMap, Others
<1>1. ASSUME NEW c \in Conn, HandleSocket(c) PROVE TargetsOwn'
  <2>1. CASE Register(c) \/ Unregister(c)
    <3>1. PICK tx : /\ tx \in Receivers(LocalMap(GroupOf[c])) \/ tx \in Receivers(Others(c))
                    /\ peers_tx' = [peers_tx EXCEPT ![c] = tx]
      BY <2>1 DEF Register, Unregister
    <3>2. \A i \in DOMAIN tx : GroupOf[tx[i]] = GroupOf[c]
      <4>1. CASE tx \in Receivers(LocalMap(GroupOf[c]))
        <5>1. IsFiniteSet(LocalMap(GroupOf[c])) /\ \A x \in LocalMap(GroupOf[c]) : GroupOf[x] = GroupOf[c]
          BY <1>0
        <5>2. QED BY ONLY <4>1, <5>1, ReceiversOwn
      <4>2. CASE tx \in Receivers(Others(c))
        <5>1. IsFiniteSet(Others(c)) /\ \A x \in Others(c) : GroupOf[x] = GroupOf[c]
          BY <1>0
        <5>2. QED BY ONLY <4>2, <5>1, ReceiversOwn
      <4>3. QED BY <3>1, <4>1, <4>2
    <3>3. UNCHANGED fan_out
      BY <2>1 DEF Register, Unregister
    <3>4. QED BY <3>1, <3>2, <3>3 DEF TargetsOwn, TypeOK
  <2>2. CASE SendJoin(c) \/ SendLeft(c)
    <3>1. /\ peers_tx' = [peers_tx EXCEPT ![c] = Tail(peers_tx[c])]
          /\ UNCHANGED fan_out /\ peers_tx[c] # <<>> /\ peers_tx[c] \in Seq(Conn)
      BY <2>2 DEF SendJoin, SendLeft, LoopsOK, TypeOK
    <3>2. \A i \in DOMAIN Tail(peers_tx[c]) : GroupOf[Tail(peers_tx[c])[i]] = GroupOf[c]
      BY <3>1, TailOwn DEF TargetsOwn
    <3>3. QED BY <3>1, <3>2, ZenonT(40) DEF TargetsOwn, TypeOK
  <2>3. CASE Reject(c) \/ SendHello(c) \/ TaskEnded(c)
    BY <2>3 DEF Reject, SendHello, TaskEnded, TargetsOwn
  <2>4. QED BY <1>1, <2>1, <2>2, <2>3 DEF HandleSocket
<1>2. ASSUME NEW c \in Conn, RecvTask(c) PROVE TargetsOwn'
  <2>1. CASE StoreUpdate(c)
    <3>1. PICK tx : /\ tx \in Receivers(Others(c)) \/ tx = <<>>
                    /\ BeginFanOut(c, tx)
      BY <2>1 DEF StoreUpdate
    <3>2. \A i \in DOMAIN tx : GroupOf[tx[i]] = GroupOf[c]
      <4>1. CASE tx \in Receivers(Others(c))
        <5>1. IsFiniteSet(Others(c)) /\ \A x \in Others(c) : GroupOf[x] = GroupOf[c]
          BY <1>0
        <5>2. QED BY ONLY <4>1, <5>1, ReceiversOwn
      <4>2. CASE tx = <<>>
        BY <4>2
      <4>3. QED BY <3>1, <4>1, <4>2
    <3>3. QED BY <2>1, <3>1, <3>2, BeginFanOutOwn DEF StoreUpdate
  <2>2. CASE LookupTarget(c)
    <3> DEFINE t == request[c].target
               tx == IF t \in LocalMap(GroupOf[c]) THEN <<t>> ELSE <<>>
    <3>1. BeginFanOut(c, tx) /\ UNCHANGED peers_tx
      BY <2>2 DEF LookupTarget
    <3>2. \A i \in DOMAIN tx : GroupOf[tx[i]] = GroupOf[c]
      BY <1>0
    <3>3. QED BY <3>1, <3>2, BeginFanOutOwn
  <2>3. CASE FanOut(c)
    <3>1. BeginFanOut(c, Tail(fan_out[c])) /\ UNCHANGED peers_tx /\ fan_out[c] # <<>>
          /\ fan_out[c] \in Seq(Conn)
      BY <2>3 DEF FanOut, LoopsOK, TypeOK
    <3>2. \A i \in DOMAIN Tail(fan_out[c]) : GroupOf[Tail(fan_out[c])[i]] = GroupOf[c]
      BY <3>1, TailOwn DEF TargetsOwn
    <3>3. QED BY <3>1, <3>2, BeginFanOutOwn
  <2>4. CASE AbortRecv(c)
    <3>1. fan_out' = [fan_out EXCEPT ![c] = <<>>] /\ UNCHANGED peers_tx
      BY <2>4 DEF AbortRecv
    <3>2. \A x \in Conn : fan_out'[x] = fan_out[x] \/ fan_out'[x] = <<>>
      BY <3>1 DEF TypeOK
    <3>3. QED BY <3>1, <3>2 DEF TargetsOwn
  <2>5. CASE ReadRequest(c) \/ ReadOverLimit(c) \/ SendError(c) \/ ReadEnd(c)
    BY <2>5 DEF ReadRequest, ReadOverLimit, SendError, ReadEnd, TargetsOwn
  <2>6. QED BY <1>2, <2>1, <2>2, <2>3, <2>4, <2>5 DEF RecvTask
<1>3. ASSUME NEW c \in Conn, SendTask(c) \/ CloseSocket(c) PROVE TargetsOwn'
  BY <1>3 DEF SendTask, Deliver, EndSend, CloseSocket, TargetsOwn
<1>4. CASE ClearRequestCounts \/ UNCHANGED vars
  BY <1>4 DEF ClearRequestCounts, vars, TargetsOwn
<1>5. QED BY <1>1, <1>2, <1>3, <1>4 DEF Next

\* The snapshot of a Hello is taken from the map of the client's own group.
LEMMA SnapshotsStep ==
  ASSUME TypeOK, SnapshotsOwn, [Next]_vars
  PROVE  SnapshotsOwn'
<1> USE DEF txMapVars, countVars, handlerVars, recvVars, clientVars
<1>1. ASSUME NEW c \in Conn, Register(c) PROVE SnapshotsOwn'
  <2>1. peers' = [peers EXCEPT ![c] = [p \in Conn |->
                    IF p \in LocalMap(GroupOf[c]) THEN client[p] ELSE NoInfo]]
    BY <1>1 DEF Register
  <2>2. ASSUME NEW p \in Conn, peers'[c][p] # NoInfo PROVE GroupOf[p] = GroupOf[c]
    BY <2>1, <2>2 DEF TypeOK, LocalMap
  <2>3. \A x \in Conn : x # c => peers'[x] = peers[x]
    BY <2>1 DEF TypeOK
  <2>4. QED BY <2>2, <2>3 DEF SnapshotsOwn
<1>2. ASSUME NEW c \in Conn, HandleSocket(c), ~Register(c) PROVE UNCHANGED peers
  BY <1>2 DEF HandleSocket, Reject, SendJoin, SendHello, TaskEnded, Unregister, SendLeft
<1>3. ASSUME NEW c \in Conn, RecvTask(c) \/ SendTask(c) \/ CloseSocket(c) PROVE UNCHANGED peers
  BY <1>3 DEF RecvTask, ReadRequest, ReadOverLimit, SendError, ReadEnd, StoreUpdate,
              LookupTarget, FanOut, AbortRecv, SendTask, Deliver, EndSend, CloseSocket
<1>4. CASE ClearRequestCounts \/ UNCHANGED vars
  BY <1>4 DEF ClearRequestCounts, vars, SnapshotsOwn
<1>5. CASE UNCHANGED peers
  BY <1>5 DEF SnapshotsOwn
<1>6. QED BY <1>1, <1>2, <1>3, <1>4, <1>5 DEF Next

\* A message of c that is sent to a peer of c's group keeps the channels own.
LEMMA SendOwn ==
  ASSUME TypeOK, ChannelsOwn, NEW t \in Conn, NEW msg \in WsServerMessage,
         SendTo(t, msg), Own(msg, GroupOf[t])
  PROVE  ChannelsOwn'
<1>1. \A x \in Conn : \A i \in DOMAIN channel'[x] :
         \/ i \in DOMAIN channel[x] /\ channel'[x][i] = channel[x][i]
         \/ x = t /\ channel'[x][i] = msg
  BY SendToElements, ZenonT(40) DEF TypeOK
<1>2. ASSUME NEW x \in Conn, NEW i \in DOMAIN channel'[x]
      PROVE  Own(channel'[x][i], GroupOf[x])
  <2>1. CASE i \in DOMAIN channel[x] /\ channel'[x][i] = channel[x][i]
    BY <2>1 DEF ChannelsOwn
  <2>2. CASE x = t /\ channel'[x][i] = msg
    BY <2>2
  <2>3. QED BY <1>1, <2>1, <2>2
<1>3. ChannelsOwn' <=> \A x \in Conn : \A i \in DOMAIN channel'[x] : Own(channel'[x][i], GroupOf[x])
  BY DEF ChannelsOwn, Own
<1>4. QED BY <1>2, <1>3

\* Everything that is queued for a client is of its group.
LEMMA ChannelsOwnStep ==
  ASSUME TypeOK, LoopsOK, TargetsOwn, SnapshotsOwn, ChannelsOwn, [Next]_vars
  PROVE  ChannelsOwn'
<1> USE DEF txMapVars, countVars, handlerVars, recvVars, clientVars
<1>1. ASSUME NEW c \in Conn, SendJoin(c) \/ SendLeft(c) PROVE ChannelsOwn'
  <2> DEFINE t == Head(peers_tx[c])
  <2>1. peers_tx[c] # <<>> /\ peers_tx[c] \in Seq(Conn)
    BY <1>1 DEF SendJoin, SendLeft, LoopsOK, TypeOK
  <2>2. t \in Conn /\ GroupOf[t] = GroupOf[c]
    BY <2>1, TailOwn DEF TargetsOwn
  <2>3. /\ Join(c) \in WsServerMessage /\ Own(Join(c), GroupOf[t])
        /\ Left(c) \in WsServerMessage /\ Own(Left(c), GroupOf[t])
    BY <2>2, MessageTypes DEF Join, Left, Own
  <2>4. SendTo(t, Join(c)) \/ SendTo(t, Left(c))
    BY <1>1 DEF SendJoin, SendLeft
  <2>5. QED BY <2>2, <2>3, <2>4, SendOwn
<1>2. ASSUME NEW c \in Conn, SendHello(c) PROVE ChannelsOwn'
  <2>1. Hello(c, peers[c]) \in WsServerMessage
    BY MessageTypes DEF TypeOK
  <2>2. Own(Hello(c, peers[c]), GroupOf[c])
    BY DEF Hello, Own, SnapshotsOwn
  <2>3. QED BY <1>2, <2>1, <2>2, SendOwn DEF SendHello
<1>3. ASSUME NEW c \in Conn, SendError(c) PROVE ChannelsOwn'
  <2>1. TooManyRequests \in WsServerMessage /\ Own(TooManyRequests, GroupOf[c])
    BY MessageTypes DEF TooManyRequests, Own
  <2>2. QED BY <1>3, <2>1, SendOwn DEF SendError
<1>4. ASSUME NEW c \in Conn, FanOut(c) PROVE ChannelsOwn'
  <2> DEFINE t == Head(fan_out[c])
  <2>1. fan_out[c] # <<>> /\ fan_out[c] \in Seq(Conn) /\ request[c] \in WsClientMessage
    BY <1>4 DEF FanOut, LoopsOK, TypeOK
  <2>2. t \in Conn /\ GroupOf[t] = GroupOf[c]
    BY <2>1, TailOwn DEF TargetsOwn
  <2>3. Outgoing(c) \in WsServerMessage
    BY <2>1, OutgoingType
  <2>4. Outgoing(c).peer = c /\ Outgoing(c).type # "Hello"
    BY <2>1 DEF Outgoing, Update, Sdp, WsClientMessage
  <2>5. Own(Outgoing(c), GroupOf[t])
    BY <2>2, <2>4 DEF Own
  <2>6. QED BY <1>4, <2>2, <2>3, <2>5, SendOwn DEF FanOut
<1>5. ASSUME NEW c \in Conn, Deliver(c) PROVE ChannelsOwn'
  <2>1. channel' = [channel EXCEPT ![c] = Tail(channel[c])] /\ channel[c] # <<>>
    BY <1>5 DEF Deliver
  <2>2. channel[c] \in Seq(WsServerMessage)
    BY DEF TypeOK
  <2>3. \A i \in DOMAIN Tail(channel[c]) :
           i + 1 \in DOMAIN channel[c] /\ Tail(channel[c])[i] = channel[c][i + 1]
    BY <2>1, <2>2, TailElements
  <2>4. \A x \in Conn : x # c => channel'[x] = channel[x]
    BY <2>1 DEF TypeOK
  <2>5. channel'[c] = Tail(channel[c])
    BY <2>1 DEF TypeOK
  <2>6. ASSUME NEW x \in Conn, NEW i \in DOMAIN channel'[x]
        PROVE  Own(channel'[x][i], GroupOf[x])
    BY <2>3, <2>4, <2>5, ZenonT(40) DEF ChannelsOwn
  <2>7. ChannelsOwn' <=> \A x \in Conn : \A i \in DOMAIN channel'[x] : Own(channel'[x][i], GroupOf[x])
    BY DEF ChannelsOwn, Own
  <2>8. QED BY <2>6, <2>7
<1>6. ASSUME NEW c \in Conn, EndSend(c) PROVE ChannelsOwn'
  BY <1>6 DEF EndSend, TypeOK, ChannelsOwn, Own
<1>7. ASSUME NEW c \in Conn,
             \/ Register(c) \/ Reject(c) \/ TaskEnded(c) \/ Unregister(c)
             \/ ReadRequest(c) \/ ReadOverLimit(c) \/ ReadEnd(c) \/ StoreUpdate(c)
             \/ LookupTarget(c) \/ AbortRecv(c) \/ CloseSocket(c)
      PROVE  UNCHANGED channel
  BY <1>7 DEF Register, Reject, TaskEnded, Unregister, ReadRequest, ReadOverLimit,
              ReadEnd, StoreUpdate, LookupTarget, AbortRecv, CloseSocket
<1>8. ASSUME ClearRequestCounts \/ UNCHANGED vars PROVE UNCHANGED channel
  BY <1>8 DEF ClearRequestCounts, vars
<1>9. CASE UNCHANGED channel
  BY <1>9 DEF ChannelsOwn, Own
<1>10. QED BY <1>1, <1>2, <1>3, <1>4, <1>5, <1>6, <1>7, <1>8, <1>9
           DEF Next, HandleSocket, RecvTask, SendTask

\* A client that folds a message of its own group learns of its group only.
LEMMA ApplyOwn ==
  ASSUME NEW v \in DeviceMap, NEW msg \in WsServerMessage, NEW g, Own(msg, g),
         \A p \in Conn : v[p] # {} => GroupOf[p] = g
  PROVE  \A p \in Conn : Apply(v, msg)[p] # {} => GroupOf[p] = g
<1>1. CASE msg.type = "Hello"
  BY <1>1 DEF Apply, Own
<1>2. CASE msg.type \in {"Join", "Update", "Left"}
  <2>1. GroupOf[msg.peer] = g
    BY <1>2 DEF Own
  <2>2. QED BY <1>2, <2>1 DEF Apply, DeviceMap
<1>3. CASE msg.type \notin {"Hello", "Join", "Update", "Left"}
  BY <1>3 DEF Apply
<1>4. QED BY <1>1, <1>2, <1>3

LEMMA ViewsStep ==
  ASSUME TypeOK, ChannelsOwn, ViewsOwn, [Next]_vars
  PROVE  ViewsOwn'
<1> USE DEF txMapVars, countVars, handlerVars, recvVars, clientVars
<1>1. ASSUME NEW c \in Conn, Deliver(c) PROVE ViewsOwn'
  <2> DEFINE msg == Head(channel[c])
  <2>1. /\ channel[c] # <<>> /\ channel[c] \in Seq(WsServerMessage)
        /\ \/ view' = [view EXCEPT ![c] = Apply(view[c], msg)]
           \/ UNCHANGED view
    BY <1>1 DEF Deliver, TypeOK
  <2>2. msg = channel[c][1] /\ 1 \in DOMAIN channel[c]
    BY <2>1, TailElements
  <2>3. msg \in WsServerMessage
    BY <2>1, HeadTailProperties
  <2>4. Own(msg, GroupOf[c])
    BY <2>2 DEF ChannelsOwn
  <2>5. view[c] \in DeviceMap
    BY DEF TypeOK
  <2>6. \A p \in Conn : Apply(view[c], msg)[p] # {} => GroupOf[p] = GroupOf[c]
    BY <2>3, <2>4, <2>5, ApplyOwn DEF ViewsOwn
  <2> HIDE DEF msg
  <2>7. QED BY <2>1, <2>6, ZenonT(40) DEF ViewsOwn, TypeOK
<1>2. ASSUME NEW c \in Conn, CloseSocket(c) PROVE UNCHANGED view
  BY <1>2 DEF CloseSocket
<1>3. ASSUME NEW c \in Conn, HandleSocket(c) \/ RecvTask(c) \/ EndSend(c) PROVE UNCHANGED view
  BY <1>3 DEF HandleSocket, Register, Reject, SendJoin, SendHello, TaskEnded, Unregister,
              SendLeft, RecvTask, ReadRequest, ReadOverLimit, SendError, ReadEnd,
              StoreUpdate, LookupTarget, FanOut, AbortRecv, EndSend
<1>4. ASSUME ClearRequestCounts \/ UNCHANGED vars PROVE UNCHANGED view
  BY <1>4 DEF ClearRequestCounts, vars
<1>5. CASE UNCHANGED view
  BY <1>5 DEF ViewsOwn
<1>6. QED BY <1>1, <1>2, <1>3, <1>4, <1>5 DEF Next, SendTask

\* Nothing about a peer reaches a client of another group, whoever asks for
\* it: both lookups of ws_controller.rs are made in the map of the client's
\* own group, and what was collected there is all that is sent to later.
THEOREM GroupIsolationHolds == Spec => []GroupIsolation
<1>1. Init => IsolationInv
  <2>1. ASSUME Init PROVE TargetsOwn /\ SnapshotsOwn /\ ChannelsOwn /\ ViewsOwn
    BY <2>1 DEF Init, TargetsOwn, SnapshotsOwn, ChannelsOwn, ViewsOwn, Nobody
  <2>2. QED BY <2>1, TypeInit DEF IsolationInv
<1>2. IsolationInv /\ [Next]_vars => IsolationInv'
  BY TypeStep, TargetsStep, SnapshotsStep, ChannelsOwnStep, ViewsStep DEF IsolationInv
<1>3. IsolationInv => GroupIsolation
  BY DEF IsolationInv, SnapshotsOwn, ChannelsOwn, ViewsOwn, Own, GroupIsolation
<1>4. QED BY <1>1, <1>2, <1>3, PTL DEF Spec

------------------------------------------------------------------------------
\* Tracking of later peers.

\* What a message about p makes a client show that had nothing, it makes
\* every client show; any other message leaves what it has of p.
LEMMA ApplyAbout ==
  ASSUME NEW u \in DeviceMap, NEW msg \in WsServerMessage, NEW p \in Conn
  PROVE  /\ About(msg, p) => \A v : Shows(Apply(Nobody, msg)[p], v)
                                      => Shows(Apply(u, msg)[p], v)
         /\ ~About(msg, p) => Apply(u, msg)[p] = u[p]
<1> USE DEF About, Announces
<1>1. \A info, v : Shows(RegisterDevice({}, info), v) => Shows(RegisterDevice(u[p], info), v)
  <2> SUFFICES ASSUME NEW info, NEW v, Shows(RegisterDevice({}, info), v)
               PROVE  Shows(RegisterDevice(u[p], info), v)
    OBVIOUS
  <2>1. RegisterDevice({}, info) = {info}
    BY DEF RegisterDevice
  <2>2. v # NoInfo /\ v = info
    BY <2>1 DEF Shows
  <2>3. QED BY <2>2 DEF Shows, RegisterDevice
<1>2. CASE msg.type = "Hello"
  BY <1>1, <1>2 DEF Apply, Nobody
<1>3. CASE msg.type \in {"Join", "Update"}
  <2>1. msg.peer = p => /\ Apply(Nobody, msg)[p] = RegisterDevice({}, msg.info)
                        /\ Apply(u, msg)[p] = RegisterDevice(u[p], msg.info)
    BY <1>3 DEF Apply, Nobody, DeviceMap
  <2>2. msg.peer # p => Apply(u, msg)[p] = u[p]
    BY <1>3 DEF Apply, DeviceMap
  <2>3. QED BY <1>1, <1>3, <2>1, <2>2
<1>4. CASE msg.type = "Left"
  BY <1>4 DEF Apply, Nobody, DeviceMap, WsServerMessage, TooManyRequests
<1>5. CASE msg.type \in {"Offer", "Answer", "Error"}
  BY <1>5 DEF Apply
<1>6. QED
  BY <1>2, <1>3, <1>4, <1>5 DEF WsServerMessage, TooManyRequests

\* A Join or an Update makes a client show its info, a Left nothing.
LEMMA NewsShown ==
  ASSUME NEW p \in Conn, NEW info \in Info
  PROVE  /\ Shows(Apply(Nobody, Join(p))[p], InitialInfo)
         /\ Shows(Apply(Nobody, Update(p, info))[p], info)
         /\ Shows(Apply(Nobody, Left(p))[p], NoInfo)
<1>1. \A i \in Info : Shows({i}, i)
  BY ConstantsAssumption DEF Shows
<1>2. \A i : RegisterDevice({}, i) = {i}
  BY DEF RegisterDevice
<1>3. /\ Apply(Nobody, Join(p))[p] = RegisterDevice({}, InitialInfo)
      /\ Apply(Nobody, Update(p, info))[p] = RegisterDevice({}, info)
  BY DEF Apply, Nobody, Join, Update
<1>4. Apply(Nobody, Left(p))[p] = {}
  BY DEF Apply, Nobody, Left
<1>5. QED BY <1>1, <1>2, <1>3, <1>4, ConstantsAssumption DEF Shows

\* A message at the end of a channel decides if it is about p, and changes
\* nothing if it is not.
LEMMA EndsAppend ==
  ASSUME NEW u, NEW ch \in Seq(WsServerMessage), NEW msg \in WsServerMessage,
         NEW p, NEW v
  PROVE  /\ About(msg, p) /\ Shows(Apply(Nobody, msg)[p], v) => Ends(u, Append(ch, msg), p, v)
         /\ ~About(msg, p) /\ Ends(u, ch, p, v) => Ends(u, Append(ch, msg), p, v)
<1> DEFINE new == Append(ch, msg)
           n == Len(ch) + 1
<1>1. /\ DOMAIN ch = 1 .. Len(ch) /\ Len(ch) \in Nat
      /\ DOMAIN new = 1 .. n /\ new[n] = msg
      /\ \A i \in 1 .. Len(ch) : new[i] = ch[i]
  BY AppendProperties, LenProperties
<1> HIDE DEF new
<1>2. n \in DOMAIN new /\ \A i \in DOMAIN new : ~(i > n) /\ (i \in DOMAIN ch \/ i = n)
  BY <1>1
<1>3. \A i \in DOMAIN ch : i \in DOMAIN new /\ new[i] = ch[i]
  BY <1>1
<1>4. new[n] = msg
  BY <1>1
<1> HIDE DEF n
<1>5. ASSUME About(msg, p), Shows(Apply(Nobody, msg)[p], v) PROVE Ends(u, new, p, v)
  BY <1>2, <1>4, <1>5 DEF Ends
<1>6. ASSUME ~About(msg, p), Ends(u, ch, p, v) PROVE Ends(u, new, p, v)
  BY <1>2, <1>3, <1>4, <1>6 DEF Ends
<1>7. QED BY <1>5, <1>6 DEF new

\* Delivering the head of a channel does not change how it ends.
LEMMA EndsDeliver ==
  ASSUME NEW u \in DeviceMap, NEW ch \in Seq(WsServerMessage), ch # <<>>,
         NEW p \in Conn, NEW v, Ends(u, ch, p, v)
  PROVE  Ends(Apply(u, Head(ch)), Tail(ch), p, v)
<1> DEFINE h == Head(ch)
           t == Tail(ch)
           w == Apply(u, h)
<1>1. h \in WsServerMessage /\ t \in Seq(WsServerMessage)
  BY HeadTailProperties
<1>2. /\ \A i \in DOMAIN t : i + 1 \in DOMAIN ch /\ t[i] = ch[i + 1]
      /\ 1 \in DOMAIN ch /\ h = ch[1]
  BY TailElements
<1>3. /\ \A i \in DOMAIN ch : ch[i] \in WsServerMessage /\ i \in Nat /\ i >= 1
      /\ \A i \in DOMAIN t : i \in Nat /\ i >= 1
  BY <1>1, ElementOfSeq, LenProperties
<1>4. w \in DeviceMap
  BY <1>1, ApplyType
<1>5. \A i \in DOMAIN ch : i # 1 => i - 1 \in DOMAIN t /\ t[i - 1] = ch[i]
  <2>1. DOMAIN ch = 1 .. Len(ch) /\ DOMAIN t = 1 .. Len(ch) - 1 /\ Len(ch) \in Nat
    <3>1. Len(ch) # 0
      BY EmptySeq, LenProperties
    <3>2. QED BY <1>1, <3>1, HeadTailProperties, LenProperties
  <2>2. \A i \in 1 .. Len(ch) : i # 1 => i - 1 \in 1 .. Len(ch) - 1 /\ (i - 1) + 1 = i
    BY <2>1
  <2>3. QED BY <2>1, <2>2, <1>2
<1> HIDE DEF h, t, w
<1>6. CASE Shows(u[p], v) /\ \A i \in DOMAIN ch : ~About(ch[i], p)
  <2>1. Shows(w[p], v)
    BY <1>6, <1>1, <1>2, ApplyAbout DEF w
  <2>2. \A i \in DOMAIN t : ~About(t[i], p)
    BY <1>6, <1>2
  <2>3. QED BY <2>1, <2>2 DEF Ends, h, t, w
<1>7. ASSUME NEW i \in DOMAIN ch, About(ch[i], p), Shows(Apply(Nobody, ch[i])[p], v),
             \A j \in DOMAIN ch : j > i => ~About(ch[j], p)
      PROVE  Ends(w, t, p, v)
  <2>1. CASE i = 1
    <3>1. Shows(w[p], v)
      BY <1>7, <2>1, <1>1, <1>2, ApplyAbout DEF w
    <3>2. \A j \in DOMAIN t : ~About(t[j], p)
      <4>1. \A j \in DOMAIN t : j + 1 > 1
        BY <1>3
      <4>2. QED BY <4>1, <1>2, <1>7, <2>1
    <3>3. QED BY <3>1, <3>2 DEF Ends
  <2>2. CASE i # 1
    <3>1. i - 1 \in DOMAIN t /\ t[i - 1] = ch[i]
      BY <2>2, <1>5
    <3>3. ASSUME NEW j \in DOMAIN t, j > i - 1 PROVE ~About(t[j], p)
      <4>1. j + 1 > i
        BY <3>3, <1>3
      <4>2. QED BY <4>1, <1>2, <1>7
    <3>4. QED BY <3>1, <3>3, <1>7 DEF Ends
  <2>3. QED BY <2>1, <2>2
<1>8. QED BY <1>6, <1>7 DEF Ends, h, t, w

\* Sending appends to the channel of one receiver that is still there.
LEMMA SendToChannel ==
  ASSUME NEW t \in Conn, NEW msg, channel \in [Conn -> Seq(WsServerMessage)],
         SendTo(t, msg)
  PROVE  \A x \in Conn : /\ x # t => channel'[x] = channel[x]
                         /\ x = t /\ ChannelOpen(t) => channel'[x] = Append(channel[x], msg)
                         /\ \/ channel'[x] = channel[x]
                            \/ x = t /\ channel'[x] = Append(channel[x], msg)
<1>1. CASE ChannelOpen(t)
  BY <1>1 DEF SendTo
<1>2. CASE ~ChannelOpen(t)
  BY <1>2 DEF SendTo
<1>3. QED BY <1>1, <1>2

\* A connection nobody knows of yet: nothing is queued for it, nothing has
\* been delivered, and nobody has collected its sender.
QuietInv ==
    \A c \in Conn : handler[c] = "idle" =>
      channel[c] = <<>> /\ \A p \in Conn : view[c][p] = {}

StartedInv ==
    \A c \in Conn :
      /\ \A i \in DOMAIN peers_tx[c] : handler[peers_tx[c][i]] # "idle"
      /\ \A i \in DOMAIN fan_out[c] : handler[fan_out[c][i]] # "idle"

\* How the phases of handle_socket and its receive task go together, and what
\* tx_map holds of the peer meanwhile.
PhaseInv ==
    \A c \in Conn :
      /\ handler[c] \in {"idle", "join", "hello"} => recv_task[c] = "off"
      /\ handler[c] \in {"idle", "join", "hello", "run"} => ended_by[c] = "none"
      /\ ended_by[c] = "recv" => recv_task[c] = "ended"
      /\ handler[c] \in {"join", "hello"} => client[c] = InitialInfo
      /\ handler[c] = "run" /\ recv_task[c] = "fan_out" /\ request[c].type = "Update"
           => client[c] = request[c].info

\* A handler that has begun has begun for good.
LEMMA StaysStarted ==
  ASSUME TypeOK, [Next]_vars, NEW x \in Conn, handler[x] # "idle"
  PROVE  handler'[x] # "idle"
<1> USE DEF txMapVars, countVars, handlerVars, recvVars, clientVars
<1>1. ASSUME NEW c \in Conn, HandleSocket(c) PROVE handler'[x] # "idle"
  <2>1. \E h \in {"rejected", "join", "hello", "run", "close", "left", "done"} :
           handler' = [handler EXCEPT ![c] = h]
    BY <1>1 DEF HandleSocket, Register, Reject, SendJoin, SendHello, TaskEnded,
                Unregister, SendLeft
  <2>2. QED BY <2>1 DEF TypeOK
<1>2. ASSUME NEW c \in Conn, RecvTask(c) \/ SendTask(c) \/ CloseSocket(c)
      PROVE  handler' = handler
  BY <1>2 DEF RecvTask, ReadRequest, ReadOverLimit, SendError, ReadEnd, StoreUpdate,
              LookupTarget, FanOut, AbortRecv, SendTask, Deliver, EndSend, CloseSocket
<1>3. CASE ClearRequestCounts \/ UNCHANGED vars
  BY <1>3 DEF ClearRequestCounts, vars
<1>4. QED BY <1>1, <1>2, <1>3 DEF Next

\* What is collected from tx_map has begun.
LEMMA ReceiversMembers ==
  ASSUME NEW S, IsFiniteSet(S), NEW tx \in Receivers(S)
  PROVE  \A i \in DOMAIN tx : tx[i] \in S
BY ReceiversElements, ElementOfSeq, LenProperties

LEMMA StartedStep ==
  ASSUME TypeOK, LoopsOK, RegisteredInv, StartedInv, [Next]_vars
  PROVE  StartedInv'
<1> USE DEF txMapVars, countVars, handlerVars, recvVars, clientVars
<1> DEFINE Fine(q) == \A i \in DOMAIN q : handler[q[i]] # "idle" /\ q[i] \in Conn
<1>1. \A c \in Conn : /\ IsFiniteSet(LocalMap(GroupOf[c])) /\ IsFiniteSet(Others(c))
                      /\ \A x \in LocalMap(GroupOf[c]) : handler[x] # "idle" /\ x \in Conn
                      /\ \A x \in Others(c) : handler[x] # "idle" /\ x \in Conn
  BY LocalMapFinite, OthersFinite DEF LocalMap, Others, RegisteredInv
<1>2. \A c \in Conn : \A tx :
         tx \in Receivers(LocalMap(GroupOf[c])) \/ tx \in Receivers(Others(c)) => Fine(tx)
  <2> SUFFICES ASSUME NEW c \in Conn, NEW tx,
                      tx \in Receivers(LocalMap(GroupOf[c])) \/ tx \in Receivers(Others(c))
               PROVE  Fine(tx)
    OBVIOUS
  <2>1. ASSUME tx \in Receivers(LocalMap(GroupOf[c])) PROVE \A i \in DOMAIN tx : tx[i] \in LocalMap(GroupOf[c])
    <3>1. IsFiniteSet(LocalMap(GroupOf[c]))
      BY <1>1
    <3>2. QED BY ONLY <3>1, <2>1, ReceiversMembers
  <2>2. ASSUME tx \in Receivers(Others(c)) PROVE \A i \in DOMAIN tx : tx[i] \in Others(c)
    <3>1. IsFiniteSet(Others(c))
      BY <1>1
    <3>2. QED BY ONLY <3>1, <2>2, ReceiversMembers
  <2>3. QED BY <1>1, <2>1, <2>2
<1>3. \A c \in Conn : Fine(peers_tx[c]) /\ Fine(fan_out[c])
  <2>1. \A q \in Seq(Conn) : \A i \in DOMAIN q : q[i] \in Conn
    BY ElementOfSeq, LenProperties
  <2>2. QED BY <2>1 DEF TypeOK, StartedInv
<1>4. \A q \in Seq(Conn) : q # <<>> /\ Fine(q) => Fine(Tail(q))
  BY TailElements
<1>5. Fine(<<>>)
  OBVIOUS
<1>6. \A c \in Conn : Fine(<<c>>) <=> handler[c] # "idle"
  OBVIOUS
<1> HIDE DEF Fine
<1>7. \A c \in Conn : Fine(peers_tx'[c])
  <2>1. ASSUME NEW c \in Conn, Register(c) \/ Unregister(c)
        PROVE  \A y \in Conn : Fine(peers_tx'[y])
    <3>1. \E tx : /\ tx \in Receivers(LocalMap(GroupOf[c])) \/ tx \in Receivers(Others(c))
                  /\ peers_tx' = [peers_tx EXCEPT ![c] = tx]
      BY <2>1 DEF Register, Unregister
    <3>2. QED BY <3>1, <1>2, <1>3 DEF TypeOK
  <2>2. ASSUME NEW c \in Conn, SendJoin(c) \/ SendLeft(c)
        PROVE  \A y \in Conn : Fine(peers_tx'[y])
    <3>1. peers_tx' = [peers_tx EXCEPT ![c] = Tail(peers_tx[c])]
          /\ peers_tx[c] # <<>> /\ peers_tx[c] \in Seq(Conn)
      BY <2>2 DEF SendJoin, SendLeft, LoopsOK, TypeOK
    <3>2. Fine(Tail(peers_tx[c]))
      BY <3>1, <1>3, <1>4
    <3>3. QED BY <3>1, <3>2, <1>3 DEF TypeOK
  <2>3. ASSUME NEW c \in Conn,
               \/ Reject(c) \/ SendHello(c) \/ TaskEnded(c)
               \/ RecvTask(c) \/ SendTask(c) \/ CloseSocket(c)
        PROVE  peers_tx' = peers_tx
    BY <2>3 DEF Reject, SendHello, TaskEnded, RecvTask, ReadRequest, ReadOverLimit,
                SendError, ReadEnd, StoreUpdate, LookupTarget, FanOut, AbortRecv,
                SendTask, Deliver, EndSend, CloseSocket
  <2>4. ASSUME ClearRequestCounts \/ UNCHANGED vars PROVE peers_tx' = peers_tx
    BY <2>4 DEF ClearRequestCounts, vars
  <2>5. CASE peers_tx' = peers_tx
    BY <2>5, <1>3
  <2>6. QED BY <2>1, <2>2, <2>3, <2>4, <2>5 DEF Next, HandleSocket
<1>8. \A c \in Conn : Fine(fan_out'[c])
  <2>1. ASSUME NEW c \in Conn, NEW tx, Fine(tx), BeginFanOut(c, tx)
        PROVE  \A y \in Conn : Fine(fan_out'[y])
    BY <2>1, <1>3 DEF BeginFanOut, TypeOK
  <2>2. ASSUME NEW c \in Conn, StoreUpdate(c) \/ LookupTarget(c) \/ FanOut(c)
        PROVE  \E tx : Fine(tx) /\ BeginFanOut(c, tx)
    <3>1. CASE StoreUpdate(c)
      BY <3>1, <1>2, <1>5 DEF StoreUpdate
    <3>2. CASE LookupTarget(c)
      <4> DEFINE t == request[c].target
                 tx == IF t \in LocalMap(GroupOf[c]) THEN <<t>> ELSE <<>>
      <4>1. BeginFanOut(c, tx)
        BY <3>2 DEF LookupTarget
      <4>2. Fine(tx)
        BY <1>1, <1>5, <1>6
      <4>3. QED BY <4>1, <4>2
    <3>3. CASE FanOut(c)
      <4>1. fan_out[c] # <<>> /\ fan_out[c] \in Seq(Conn) /\ BeginFanOut(c, Tail(fan_out[c]))
        BY <3>3 DEF FanOut, LoopsOK, TypeOK
      <4>2. QED BY <4>1, <1>3, <1>4
    <3>4. QED BY <2>2, <3>1, <3>2, <3>3
  <2>3. ASSUME NEW c \in Conn, AbortRecv(c) PROVE \A y \in Conn : Fine(fan_out'[y])
    BY <2>3, <1>3, <1>5 DEF AbortRecv, TypeOK
  <2>4. ASSUME NEW c \in Conn,
               \/ HandleSocket(c) \/ SendTask(c) \/ CloseSocket(c)
               \/ ReadRequest(c) \/ ReadOverLimit(c) \/ SendError(c) \/ ReadEnd(c)
        PROVE  fan_out' = fan_out
    BY <2>4 DEF HandleSocket, Register, Reject, SendJoin, SendHello, TaskEnded, Unregister,
                SendLeft, ReadRequest, ReadOverLimit, SendError, ReadEnd,
                SendTask, Deliver, EndSend, CloseSocket
  <2>5. ASSUME ClearRequestCounts \/ UNCHANGED vars PROVE fan_out' = fan_out
    BY <2>5 DEF ClearRequestCounts, vars
  <2>6. CASE fan_out' = fan_out
    BY <2>6, <1>3
  <2>7. QED BY <2>1, <2>2, <2>3, <2>4, <2>5, <2>6 DEF Next, RecvTask
<1>9. QED
  <2>1. \A q : Fine(q) => \A i \in DOMAIN q : handler'[q[i]] # "idle"
    BY StaysStarted DEF Fine
  <2>2. QED BY <2>1, <1>7, <1>8 DEF StartedInv

\* Nothing is sent to a connection before it is in tx_map.
LEMMA QuietStep ==
  ASSUME TypeOK, LoopsOK, StartedInv, PhaseInv, QuietInv, [Next]_vars
  PROVE  QuietInv'
<1> USE DEF txMapVars, countVars, handlerVars, recvVars, clientVars
<1> SUFFICES ASSUME NEW x \in Conn, handler[x] = "idle"
             PROVE  channel'[x] = <<>> /\ \A p \in Conn : view'[x][p] = {}
  BY StaysStarted DEF QuietInv
<1>1. channel[x] = <<>> /\ \A p \in Conn : view[x][p] = {}
  BY DEF QuietInv
<1>2. ASSUME NEW t \in Conn, NEW msg, SendTo(t, msg), handler[t] # "idle"
      PROVE  channel'[x] = channel[x]
  BY <1>2, SendToChannel DEF TypeOK
<1>3. \A c \in Conn : /\ peers_tx[c] # <<>> => Head(peers_tx[c]) \in Conn /\ handler[Head(peers_tx[c])] # "idle"
                      /\ fan_out[c] # <<>> => Head(fan_out[c]) \in Conn /\ handler[Head(fan_out[c])] # "idle"
  <2>1. \A q \in Seq(Conn) : q # <<>> => Head(q) \in Conn /\ Head(q) = q[1] /\ 1 \in DOMAIN q
    BY TailElements, HeadTailProperties
  <2>2. QED BY <2>1 DEF StartedInv, TypeOK
<1>4. ASSUME NEW c \in Conn, HandleSocket(c) PROVE channel'[x] = channel[x] /\ UNCHANGED view
  <2>1. CASE SendJoin(c) \/ SendLeft(c)
    BY <2>1, <1>2, <1>3 DEF SendJoin, SendLeft, LoopsOK
  <2>2. CASE SendHello(c)
    BY <2>2, <1>2 DEF SendHello
  <2>3. CASE Register(c) \/ Reject(c) \/ TaskEnded(c) \/ Unregister(c)
    BY <2>3 DEF Register, Reject, TaskEnded, Unregister
  <2>4. QED BY <1>4, <2>1, <2>2, <2>3 DEF HandleSocket
<1>5. ASSUME NEW c \in Conn, RecvTask(c) PROVE channel'[x] = channel[x] /\ UNCHANGED view
  <2>1. CASE FanOut(c)
    BY <2>1, <1>2, <1>3 DEF FanOut, LoopsOK
  <2>2. CASE SendError(c)
    BY <2>2, <1>2 DEF SendError, PhaseInv
  <2>3. CASE ReadRequest(c) \/ ReadOverLimit(c) \/ ReadEnd(c) \/ StoreUpdate(c)
             \/ LookupTarget(c) \/ AbortRecv(c)
    BY <2>3 DEF ReadRequest, ReadOverLimit, ReadEnd, StoreUpdate, LookupTarget, AbortRecv
  <2>4. QED BY <1>5, <2>1, <2>2, <2>3 DEF RecvTask
<1>6. ASSUME NEW c \in Conn, Deliver(c) PROVE channel'[x] = channel[x] /\ view'[x] = view[x]
  <2>1. c # x
    BY <1>1, <1>6 DEF Deliver
  <2>2. QED BY <2>1, <1>6 DEF Deliver, TypeOK
<1>7. ASSUME NEW c \in Conn, EndSend(c) PROVE channel'[x] = <<>> /\ UNCHANGED view
  BY <1>1, <1>7 DEF EndSend, TypeOK
<1>8. ASSUME NEW c \in Conn, CloseSocket(c)
      PROVE  channel'[x] = channel[x] /\ \A p \in Conn : view'[x][p] = {}
  BY <1>1, <1>8 DEF CloseSocket, TypeOK
<1>9. CASE ClearRequestCounts \/ UNCHANGED vars
  BY <1>1, <1>9 DEF ClearRequestCounts, vars
<1>10. QED
  BY <1>1, <1>4, <1>5, <1>6, <1>7, <1>8, <1>9 DEF Next, SendTask

\* recv_task is spawned after the Hello is queued, select! takes its branch
\* when it has returned, and only it changes the entry of tx_map.
LEMMA PhaseStep ==
  ASSUME TypeOK, LoopsOK, PhaseInv, [Next]_vars
  PROVE  PhaseInv'
<1> USE DEF txMapVars, countVars, handlerVars, recvVars, clientVars
<1>1. ASSUME NEW c \in Conn, HandleSocket(c) PROVE PhaseInv'
  <2>1. CASE Register(c)
    <3>1. /\ handler[c] = "idle"
          /\ \E h \in {"hello", "join"} : handler' = [handler EXCEPT ![c] = h]
          /\ client' = [client EXCEPT ![c] = InitialInfo]
          /\ UNCHANGED <<recv_task, ended_by, request>>
      BY <2>1 DEF Register
    <3>2. QED BY <3>1 DEF PhaseInv, TypeOK
  <2>2. CASE Unregister(c)
    <3>1. /\ handler[c] = "close"
          /\ \E h \in {"done", "left"} : handler' = [handler EXCEPT ![c] = h]
          /\ client' = [client EXCEPT ![c] = InitialInfo]
          /\ UNCHANGED <<recv_task, ended_by, request>>
      BY <2>2 DEF Unregister
    <3>2. QED BY <3>1 DEF PhaseInv, TypeOK
  <2>3. CASE TaskEnded(c)
    <3>1. /\ handler' = [handler EXCEPT ![c] = "close"]
          /\ \/ ended_by' = [ended_by EXCEPT ![c] = "send"]
             \/ recv_task[c] = "ended" /\ ended_by' = [ended_by EXCEPT ![c] = "recv"]
          /\ UNCHANGED <<recv_task, client, request>>
      BY <2>3 DEF TaskEnded
    <3>2. QED BY <3>1 DEF PhaseInv, TypeOK
  <2>4. CASE SendHello(c)
    <3>1. /\ handler[c] = "hello"
          /\ handler' = [handler EXCEPT ![c] = "run"]
          /\ recv_task' = [recv_task EXCEPT ![c] = "recv"]
          /\ UNCHANGED <<ended_by, client, request>>
      BY <2>4 DEF SendHello
    <3>2. QED BY <3>1 DEF PhaseInv, TypeOK
  <2>5. CASE Reject(c) \/ SendJoin(c) \/ SendLeft(c)
    <3>1. /\ \/ \E h \in {"done", "left", "rejected"} : handler' = [handler EXCEPT ![c] = h]
             \/ handler[c] = "join" /\ \E h \in {"join", "hello"} : handler' = [handler EXCEPT ![c] = h]
          /\ UNCHANGED <<recv_task, ended_by, client, request>>
      BY <2>5 DEF Reject, SendJoin, SendLeft
    <3>2. QED BY <3>1 DEF PhaseInv, TypeOK
  <2>6. QED BY <1>1, <2>1, <2>2, <2>3, <2>4, <2>5 DEF HandleSocket
<1>2. ASSUME NEW c \in Conn, RecvTask(c) PROVE PhaseInv'
  <2>1. UNCHANGED handler /\ UNCHANGED ended_by
    BY <1>2 DEF RecvTask, ReadRequest, ReadOverLimit, SendError, ReadEnd, StoreUpdate,
                LookupTarget, FanOut, AbortRecv
  <2>2. CASE StoreUpdate(c)
    <3>1. PICK tx : BeginFanOut(c, tx)
      BY <2>2 DEF StoreUpdate
    <3>2. /\ recv_task[c] = "update"
          /\ \/ client' = [client EXCEPT ![c] = request[c].info]
             \/ UNCHANGED client /\ recv_task' = [recv_task EXCEPT ![c] = "recv"]
      BY <2>2 DEF StoreUpdate, BeginFanOut
    <3>3. /\ \A x \in Conn : x # c => recv_task'[x] = recv_task[x] /\ request'[x] = request[x]
                                      /\ client'[x] = client[x]
          /\ recv_task'[c] \in {"recv", "fan_out"}
          /\ recv_task'[c] = "fan_out" => request'[c] = request[c] /\ client'[c] = request[c].info
      BY <3>1, <3>2 DEF BeginFanOut, TypeOK
    <3>4. QED BY <2>1, <3>2, <3>3 DEF PhaseInv
  <2>3. CASE LookupTarget(c)
    <3>1. PICK tx : BeginFanOut(c, tx)
      BY <2>3 DEF LookupTarget
    <3>2. recv_task[c] = "relay" /\ UNCHANGED client /\ request[c].type # "Update"
      BY <2>3 DEF LookupTarget, LoopsOK
    <3>3. /\ \A x \in Conn : x # c => recv_task'[x] = recv_task[x] /\ request'[x] = request[x]
          /\ recv_task'[c] \in {"recv", "fan_out"}
          /\ recv_task'[c] = "fan_out" => request'[c] = request[c]
      BY <3>1 DEF BeginFanOut, TypeOK
    <3>4. QED BY <2>1, <3>2, <3>3 DEF PhaseInv
  <2>4. CASE FanOut(c)
    <3>1. BeginFanOut(c, Tail(fan_out[c])) /\ recv_task[c] = "fan_out" /\ UNCHANGED client
      BY <2>4 DEF FanOut
    <3>2. /\ \A x \in Conn : x # c => recv_task'[x] = recv_task[x] /\ request'[x] = request[x]
          /\ recv_task'[c] \in {"recv", "fan_out"}
          /\ recv_task'[c] = "fan_out" => request'[c] = request[c]
      BY <3>1 DEF BeginFanOut, TypeOK
    <3>3. QED BY <2>1, <3>1, <3>2 DEF PhaseInv
  <2>5. CASE ReadRequest(c)
    <3>1. /\ recv_task[c] = "recv" /\ UNCHANGED client
          /\ \E s \in {"update", "relay"} : recv_task' = [recv_task EXCEPT ![c] = s]
          /\ \E r \in Requests[c] : request' = [request EXCEPT ![c] = r]
      BY <2>5 DEF ReadRequest
    <3>2. QED BY <2>1, <3>1 DEF PhaseInv, TypeOK
  <2>6. CASE AbortRecv(c)
    <3>1. /\ ended_by[c] = "send" /\ UNCHANGED client
          /\ recv_task' = [recv_task EXCEPT ![c] = "ended"]
          /\ request' = [request EXCEPT ![c] = NoRequest]
      BY <2>6 DEF AbortRecv
    <3>2. QED BY <2>1, <3>1 DEF PhaseInv, TypeOK
  <2>7. CASE ReadOverLimit(c) \/ SendError(c) \/ ReadEnd(c)
    <3>1. /\ recv_task[c] \in {"recv", "error"} /\ UNCHANGED <<client, request>>
          /\ \E s \in {"error", "ended"} : recv_task' = [recv_task EXCEPT ![c] = s]
      BY <2>7 DEF ReadOverLimit, SendError, ReadEnd
    <3>2. QED BY <2>1, <3>1 DEF PhaseInv, TypeOK
  <2>8. QED BY <1>2, <2>2, <2>3, <2>4, <2>5, <2>6, <2>7 DEF RecvTask
<1>3. ASSUME NEW c \in Conn, SendTask(c) \/ CloseSocket(c) PROVE PhaseInv'
  BY <1>3 DEF SendTask, Deliver, EndSend, CloseSocket, PhaseInv
<1>4. CASE ClearRequestCounts \/ UNCHANGED vars
  BY <1>4 DEF ClearRequestCounts, vars, PhaseInv
<1>5. QED BY <1>1, <1>2, <1>3, <1>4 DEF Next

\* p's own tasks still have news of p for c.
Pending(p, c) ==
    \/ handler[p] \in {"join", "left"} /\ \E i \in DOMAIN peers_tx[p] : peers_tx[p][i] = c
    \/ /\ recv_task[p] = "fan_out" /\ request[p].type = "Update"
       /\ \E i \in DOMAIN fan_out[p] : fan_out[p][i] = c

\* LaterPeersTracked with an offer in flight too, and while a Left is on its
\* way to others: what it claims in the states between.
Tracked(c, p) ==
    c # p /\ Served(c) /\ peers[c][p] = NoInfo /\ ~Pending(p, c) =>
      /\ handler[p] \in {"join", "hello", "run"} /\ GroupOf[p] = GroupOf[c]
           => Learns(c, p, client[p])
      /\ handler[p] \in {"left", "done"} /\ ended_by[p] = "recv" => Learns(c, p, NoInfo)

TrackedInv == \A c, p \in Conn : Tracked(c, p)

\* What the tasks of another connection than p queue for c says nothing of p.
LEMMA OthersSay ==
  ASSUME TypeOK, LoopsOK, NEW c \in Conn, NEW p \in Conn, NEW x \in Conn, x # p,
         peers[c][p] = NoInfo, HandleSocket(x) \/ RecvTask(x), NEW v
  PROVE  Ends(view[c], channel[c], p, v) => Ends(view[c], channel'[c], p, v)
<1> USE DEF txMapVars, countVars, handlerVars, recvVars, clientVars
<1>1. ASSUME NEW t \in Conn, NEW msg \in WsServerMessage, SendTo(t, msg),
             t = c => ~About(msg, p)
      PROVE  Ends(view[c], channel[c], p, v) => Ends(view[c], channel'[c], p, v)
  <2>1. \/ channel'[c] = channel[c]
        \/ t = c /\ channel'[c] = Append(channel[c], msg)
    BY <1>1, SendToChannel DEF TypeOK
  <2>2. channel[c] \in Seq(WsServerMessage)
    BY DEF TypeOK
  <2>3. QED BY <1>1, <2>1, <2>2, EndsAppend
<1>2. \A q \in Seq(Conn) : q # <<>> => Head(q) \in Conn
  BY HeadTailProperties
<1>3. CASE SendJoin(x) \/ SendLeft(x)
  <2>1. peers_tx[x] \in Seq(Conn) /\ peers_tx[x] # <<>>
    BY <1>3 DEF SendJoin, SendLeft, LoopsOK, TypeOK
  <2>2. /\ Join(x) \in WsServerMessage /\ ~About(Join(x), p)
        /\ Left(x) \in WsServerMessage /\ ~About(Left(x), p)
    BY MessageTypes DEF Join, Left, About, Announces
  <2>3. SendTo(Head(peers_tx[x]), Join(x)) \/ SendTo(Head(peers_tx[x]), Left(x))
    BY <1>3 DEF SendJoin, SendLeft
  <2>4. QED BY <1>1, <1>2, <2>1, <2>2, <2>3
<1>4. CASE SendHello(x)
  <2>1. Hello(x, peers[x]) \in WsServerMessage
    BY MessageTypes DEF TypeOK
  <2>2. x = c => ~About(Hello(x, peers[x]), p)
    BY DEF Hello, About, Announces
  <2>3. QED BY <1>1, <1>4, <2>1, <2>2 DEF SendHello
<1>5. CASE SendError(x)
  <2>1. TooManyRequests \in WsServerMessage /\ ~About(TooManyRequests, p)
    BY MessageTypes DEF TooManyRequests, About, Announces
  <2>2. QED BY <1>1, <1>5, <2>1 DEF SendError
<1>6. CASE FanOut(x)
  <2>1. fan_out[x] \in Seq(Conn) /\ fan_out[x] # <<>> /\ request[x] \in WsClientMessage
    BY <1>6 DEF FanOut, LoopsOK, TypeOK
  <2>2. Outgoing(x) \in WsServerMessage
    BY <2>1, OutgoingType
  <2>3. ~About(Outgoing(x), p)
    BY <2>1 DEF Outgoing, Update, Sdp, WsClientMessage, About, Announces
  <2>4. QED BY <1>1, <1>2, <1>6, <2>1, <2>2, <2>3 DEF FanOut
<1>7. CASE \/ Register(x) \/ Reject(x) \/ TaskEnded(x) \/ Unregister(x)
           \/ ReadRequest(x) \/ ReadOverLimit(x) \/ ReadEnd(x) \/ StoreUpdate(x)
           \/ LookupTarget(x) \/ AbortRecv(x)
  BY <1>7 DEF Register, Reject, TaskEnded, Unregister, ReadRequest, ReadOverLimit,
              ReadEnd, StoreUpdate, LookupTarget, AbortRecv
<1>8. QED BY <1>3, <1>4, <1>5, <1>6, <1>7 DEF HandleSocket, RecvTask

\* A step of one connection changes nothing of another one's tasks.
LEMMA TasksFrame ==
  ASSUME TypeOK, NEW x \in Conn, HandleSocket(x) \/ RecvTask(x), NEW y \in Conn, y # x
  PROVE  /\ handler'[y] = handler[y] /\ peers_tx'[y] = peers_tx[y]
         /\ peers'[y] = peers[y] /\ ended_by'[y] = ended_by[y]
         /\ recv_task'[y] = recv_task[y] /\ request'[y] = request[y]
         /\ fan_out'[y] = fan_out[y] /\ client'[y] = client[y]
         /\ send_task'[y] = send_task[y] /\ socket'[y] = socket[y]
<1> USE DEF txMapVars, countVars, handlerVars, recvVars, clientVars
<1>1. CASE Register(x) \/ Reject(x) \/ TaskEnded(x) \/ Unregister(x)
  BY <1>1 DEF Register, Reject, TaskEnded, Unregister, TypeOK
<1>2. CASE SendJoin(x) \/ SendHello(x) \/ SendLeft(x)
  BY <1>2 DEF SendJoin, SendHello, SendLeft, TypeOK
<1>3. CASE ReadRequest(x) \/ ReadOverLimit(x) \/ ReadEnd(x) \/ AbortRecv(x) \/ SendError(x)
  BY <1>3 DEF ReadRequest, ReadOverLimit, ReadEnd, AbortRecv, SendError, TypeOK
<1>4. CASE StoreUpdate(x) \/ LookupTarget(x) \/ FanOut(x)
  BY <1>4 DEF StoreUpdate, LookupTarget, FanOut, BeginFanOut, TypeOK
<1>5. QED BY <1>1, <1>2, <1>3, <1>4 DEF HandleSocket, RecvTask

\* handle_socket and recv_task leave what the clients have received.
LEMMA ViewFrame ==
  ASSUME NEW x \in Conn, HandleSocket(x) \/ RecvTask(x)
  PROVE  UNCHANGED view
BY DEF HandleSocket, Register, Reject, SendJoin, SendHello, TaskEnded, Unregister, SendLeft,
       RecvTask, ReadRequest, ReadOverLimit, SendError, ReadEnd, StoreUpdate, LookupTarget,
       FanOut, AbortRecv, txMapVars, countVars, handlerVars, recvVars, clientVars

\* A step that leaves p alone and is no news of p to c.
LEMMA TrackedFrame ==
  ASSUME NEW c \in Conn, NEW p \in Conn, Tracked(c, p),
         Served(c), peers[c][p] = NoInfo,
         handler'[p] = handler[p] /\ peers_tx'[p] = peers_tx[p] /\ ended_by'[p] = ended_by[p],
         recv_task'[p] = recv_task[p] /\ request'[p] = request[p] /\ fan_out'[p] = fan_out[p],
         client'[p] = client[p],
         \A v : Ends(view[c], channel[c], p, v) => Ends(view'[c], channel'[c], p, v)
  PROVE  Tracked(c, p)'
BY DEF Tracked, Pending, Learns

\* A step of a third connection.
LEMMA TrackedOther ==
  ASSUME TypeOK, LoopsOK, NEW c \in Conn, NEW p \in Conn, Tracked(c, p),
         NEW x \in Conn, x # p, x # c, HandleSocket(x) \/ RecvTask(x)
  PROVE  Tracked(c, p)'
<1> SUFFICES ASSUME Served(c)', peers'[c][p] = NoInfo
             PROVE  Tracked(c, p)'
  BY DEF Tracked
<1>1. Served(c) /\ peers[c][p] = NoInfo
  BY TasksFrame DEF Served
<1>2. \A v : Ends(view[c], channel[c], p, v) => Ends(view'[c], channel'[c], p, v)
  <2>1. \A v : Ends(view[c], channel[c], p, v) => Ends(view[c], channel'[c], p, v)
    BY <1>1, OthersSay
  <2>2. view'[c] = view[c]
    BY ViewFrame
  <2>3. QED BY <2>1, <2>2
<1>3. /\ handler'[p] = handler[p] /\ peers_tx'[p] = peers_tx[p] /\ ended_by'[p] = ended_by[p]
      /\ recv_task'[p] = recv_task[p] /\ request'[p] = request[p] /\ fan_out'[p] = fan_out[p]
      /\ client'[p] = client[p]
  BY TasksFrame
<1>4. QED BY <1>1, <1>2, <1>3, TrackedFrame

\* A step of c: when it registers, every peer that it does not take into its
\* snapshot is not in tx_map, or is of another group.
LEMMA TrackedClient ==
  ASSUME TypeOK, LoopsOK, RegisteredInv, NotSpawned, QuietInv,
         NEW c \in Conn, NEW p \in Conn, c # p, Tracked(c, p),
         HandleSocket(c) \/ RecvTask(c)
  PROVE  Tracked(c, p)'
<1> USE DEF txMapVars, countVars, handlerVars, recvVars, clientVars
<1> SUFFICES ASSUME Served(c)', peers'[c][p] = NoInfo
             PROVE  Tracked(c, p)'
  BY DEF Tracked
<1>1. /\ handler'[p] = handler[p] /\ peers_tx'[p] = peers_tx[p] /\ ended_by'[p] = ended_by[p]
      /\ recv_task'[p] = recv_task[p] /\ request'[p] = request[p] /\ fan_out'[p] = fan_out[p]
      /\ client'[p] = client[p]
  BY TasksFrame
<1>2. view' = view
  BY ViewFrame
<1>3. CASE Register(c)
  <2>1. /\ handler[c] = "idle" /\ UNCHANGED channel
        /\ peers' = [peers EXCEPT ![c] =
             [q \in Conn |-> IF q \in LocalMap(GroupOf[c]) THEN client[q] ELSE NoInfo]]
    BY <1>3 DEF Register
  <2>2. p \notin LocalMap(GroupOf[c])
    BY <2>1, ConstantsAssumption DEF TypeOK
  <2>3. ~(handler'[p] \in {"join", "hello", "run"} /\ GroupOf[p] = GroupOf[c])
    BY <1>1, <2>2 DEF LocalMap, RegisteredInv
  <2>4. Ends(view'[c], channel'[c], p, NoInfo)
    <3>1. channel[c] = <<>> /\ Shows(view[c][p], NoInfo)
      BY <2>1 DEF QuietInv, Shows
    <3>2. QED BY <1>2, <2>1, <3>1 DEF Ends
  <2>5. QED BY <2>3, <2>4 DEF Tracked, Learns
<1>4. CASE ~Register(c)
  <2>1. Served(c) /\ peers[c][p] = NoInfo
    <3>1. CASE SendJoin(c) \/ SendHello(c)
      BY <3>1 DEF SendJoin, SendHello, Served, NotSpawned, TypeOK
    <3>2. CASE Reject(c) \/ TaskEnded(c) \/ Unregister(c) \/ SendLeft(c)
      <4>1. \E h \in {"rejected", "close", "left", "done"} :
               handler' = [handler EXCEPT ![c] = h]
        BY <3>2 DEF Reject, TaskEnded, Unregister, SendLeft
      <4>2. QED BY <4>1 DEF Served, TypeOK
    <3>3. CASE RecvTask(c)
      <4>1. UNCHANGED <<handler, send_task, socket, peers>>
        BY <3>3 DEF RecvTask, ReadRequest, ReadOverLimit, SendError, ReadEnd, StoreUpdate,
                    LookupTarget, FanOut, AbortRecv
      <4>2. QED BY <4>1 DEF Served
    <3>4. QED BY <1>4, <3>1, <3>2, <3>3 DEF HandleSocket
  <2>2. \A v : Ends(view[c], channel[c], p, v) => Ends(view'[c], channel'[c], p, v)
    <3>1. \A v : Ends(view[c], channel[c], p, v) => Ends(view[c], channel'[c], p, v)
      BY <2>1, OthersSay
    <3>2. QED BY <3>1, <1>2
  <2>3. QED BY <1>1, <2>1, <2>2, TrackedFrame
<1>5. QED BY <1>3, <1>4

\* What is listed behind the head is listed in the tail.
LEMMA ListedInTail ==
  ASSUME NEW q \in Seq(Conn), q # <<>>, NEW c, Head(q) # c, \E i \in DOMAIN q : q[i] = c
  PROVE  \E i \in DOMAIN Tail(q) : Tail(q)[i] = c
<1>1. PICK i \in DOMAIN q : q[i] = c
  OBVIOUS
<1>2. \/ q[i] = Head(q)
      \/ i - 1 \in DOMAIN Tail(q) /\ Tail(q)[i - 1] = q[i]
  BY TailElements
<1>3. QED BY <1>1, <1>2

\* A step of p's handler: what it sends next is what c then has for p.
LEMMA TrackedHandler ==
  ASSUME TypeOK, LoopsOK, RegisteredInv, PhaseInv, ChannelsOwn, ViewsOwn,
         NEW c \in Conn, NEW p \in Conn, c # p, Tracked(c, p), HandleSocket(p)
  PROVE  Tracked(c, p)'
<1> USE DEF txMapVars, countVars, handlerVars, recvVars, clientVars
<1> SUFFICES ASSUME Served(c)', peers'[c][p] = NoInfo, ~Pending(p, c)'
             PROVE  Tracked(c, p)'
  BY DEF Tracked
<1>1. Served(c) /\ peers[c][p] = NoInfo
  BY TasksFrame DEF Served
<1>2. view' = view
  BY ViewFrame
<1>3. c \in registered /\ ChannelOpen(c)
  BY <1>1 DEF Served, RegisteredInv, ChannelOpen
<1>4. channel[c] \in Seq(WsServerMessage) /\ view[c] \in DeviceMap
  BY DEF TypeOK
<1>5. /\ ~Pending(p, c) /\ handler[p] \in {"join", "hello", "run"} /\ GroupOf[p] = GroupOf[c]
           => Ends(view[c], channel[c], p, client[p])
      /\ ~Pending(p, c) /\ handler[p] \in {"left", "done"} /\ ended_by[p] = "recv"
           => Ends(view[c], channel[c], p, NoInfo)
  BY <1>1 DEF Tracked, Learns
<1>6. CASE Register(p)
  <2>1. PICK tx \in Receivers(LocalMap(GroupOf[p])) :
           /\ peers_tx' = [peers_tx EXCEPT ![p] = tx]
           /\ handler' = [handler EXCEPT ![p] = IF tx = <<>> THEN "hello" ELSE "join"]
    BY <1>6 DEF Register
  <2>2. GroupOf[p] # GroupOf[c]
    <3> SUFFICES ASSUME GroupOf[p] = GroupOf[c] PROVE FALSE
      OBVIOUS
    <3> DEFINE S == LocalMap(GroupOf[p])
    <3>1. c \in S /\ IsFiniteSet(S)
      BY <1>3, LocalMapFinite DEF LocalMap
    <3> HIDE DEF S
    <3>2. \E i \in DOMAIN tx : tx[i] = c
      BY <2>1, <3>1, ReceiversElements DEF S
    <3>3. tx # <<>>
      BY <3>2
    <3>4. handler'[p] = "join" /\ peers_tx'[p] = tx
      BY <2>1, <3>3 DEF TypeOK
    <3>5. QED BY <3>2, <3>4 DEF Pending
  <2>3. handler'[p] \in {"hello", "join"}
    BY <2>1 DEF TypeOK
  <2>4. QED BY <2>2, <2>3 DEF Tracked
<1>7. CASE SendJoin(p)
  <2> DEFINE q == peers_tx[p]
  <2>1. q \in Seq(Conn) /\ q # <<>> /\ Head(q) \in Conn
    BY <1>7, HeadTailProperties DEF SendJoin, LoopsOK, TypeOK
  <2>2. /\ handler[p] = "join" /\ client[p] = InitialInfo /\ client' = client
        /\ SendTo(Head(q), Join(p))
        /\ peers_tx'[p] = Tail(q)
        /\ handler'[p] = IF Tail(q) = <<>> THEN "hello" ELSE "join"
    BY <1>7 DEF SendJoin, PhaseInv, TypeOK
  <2>3. CASE Head(q) = c
    <3>1. channel'[c] = Append(channel[c], Join(p))
      BY <1>3, <2>2, <2>3, SendToChannel DEF TypeOK
    <3>2. /\ Join(p) \in WsServerMessage /\ About(Join(p), p)
      BY MessageTypes DEF Join, About, Announces
    <3>3. Ends(view[c], Append(channel[c], Join(p)), p, InitialInfo)
      BY <1>4, <3>2, EndsAppend, NewsShown, ConstantsAssumption
    <3>4. QED BY <1>2, <2>2, <3>1, <3>3 DEF Tracked, Learns
  <2>4. CASE Head(q) # c
    <3>1. channel'[c] = channel[c]
      BY <2>1, <2>2, <2>4, SendToChannel DEF TypeOK
    <3>2. ~\E i \in DOMAIN q : q[i] = c
      <4> SUFFICES ASSUME \E i \in DOMAIN q : q[i] = c PROVE FALSE
        OBVIOUS
      <4>1. \E i \in DOMAIN Tail(q) : Tail(q)[i] = c
        BY <2>1, <2>4, ListedInTail
      <4>2. Tail(q) # <<>>
        BY <4>1
      <4>3. QED BY <2>2, <4>1, <4>2 DEF Pending
    <3>3. ~Pending(p, c)
      BY <2>2, <3>2 DEF Pending, PhaseInv
    <3>4. QED BY <1>2, <1>5, <2>2, <3>1, <3>3 DEF Tracked, Learns
  <2>5. QED BY <2>3, <2>4
<1>8. CASE SendHello(p)
  <2>1. /\ handler[p] = "hello" /\ handler'[p] = "run" /\ client' = client
        /\ SendTo(p, Hello(p, peers[p]))
    BY <1>8 DEF SendHello, TypeOK
  <2>2. channel'[c] = channel[c]
    BY <2>1, SendToChannel DEF TypeOK
  <2>3. ~Pending(p, c)
    BY <2>1 DEF Pending, PhaseInv
  <2>4. QED BY <1>2, <1>5, <2>1, <2>2, <2>3 DEF Tracked, Learns
<1>9. CASE Unregister(p)
  <2>1. PICK tx \in Receivers(Others(p)) :
           /\ peers_tx' = [peers_tx EXCEPT ![p] = tx]
           /\ handler' = [handler EXCEPT ![p] = IF tx = <<>> THEN "done" ELSE "left"]
    BY <1>9 DEF Unregister
  <2>2. GroupOf[p] # GroupOf[c]
    <3> SUFFICES ASSUME GroupOf[p] = GroupOf[c] PROVE FALSE
      OBVIOUS
    <3> DEFINE S == Others(p)
    <3>1. c \in S /\ IsFiniteSet(S)
      BY <1>3, OthersFinite DEF Others, LocalMap
    <3> HIDE DEF S
    <3>2. \E i \in DOMAIN tx : tx[i] = c
      BY <2>1, <3>1, ReceiversElements DEF S
    <3>3. tx # <<>>
      BY <3>2
    <3>4. handler'[p] = "left" /\ peers_tx'[p] = tx
      BY <2>1, <3>3 DEF TypeOK
    <3>5. QED BY <3>2, <3>4 DEF Pending
  <2>3. \A i \in DOMAIN channel[c] : ~About(channel[c][i], p)
    <3>1. \A i \in DOMAIN channel[c] : Own(channel[c][i], GroupOf[c])
      BY DEF ChannelsOwn
    <3>2. \A i \in DOMAIN channel[c] : channel[c][i] \in WsServerMessage
      BY <1>4, ElementOfSeq, LenProperties
    <3>3. \A msg \in WsServerMessage : Own(msg, GroupOf[c]) => ~About(msg, p)
      BY <2>2 DEF Own, About, Announces
    <3>4. QED BY <3>1, <3>2, <3>3
  <2>4. Shows(view[c][p], NoInfo)
    BY <2>2 DEF ViewsOwn, Shows
  <2>5. handler'[p] \in {"left", "done"} /\ channel' = channel
    BY <1>9, <2>1 DEF Unregister, TypeOK
  <2>6. Ends(view'[c], channel'[c], p, NoInfo)
    BY <1>2, <2>3, <2>4, <2>5 DEF Ends
  <2>7. QED BY <2>5, <2>6 DEF Tracked, Learns
<1>10. CASE SendLeft(p)
  <2> DEFINE q == peers_tx[p]
  <2>1. q \in Seq(Conn) /\ q # <<>> /\ Head(q) \in Conn
    BY <1>10, HeadTailProperties DEF SendLeft, LoopsOK, TypeOK
  <2>2. /\ handler[p] = "left" /\ ended_by' = ended_by /\ UNCHANGED <<recv_task, request, fan_out>>
        /\ SendTo(Head(q), Left(p))
        /\ peers_tx'[p] = Tail(q)
        /\ handler'[p] = IF Tail(q) = <<>> THEN "done" ELSE "left"
    BY <1>10 DEF SendLeft, TypeOK
  <2>3. CASE Head(q) = c
    <3>1. channel'[c] = Append(channel[c], Left(p))
      BY <1>3, <2>2, <2>3, SendToChannel DEF TypeOK
    <3>2. /\ Left(p) \in WsServerMessage /\ About(Left(p), p)
      BY MessageTypes DEF Left, About, Announces
    <3>3. Ends(view[c], Append(channel[c], Left(p)), p, NoInfo)
      BY <1>4, <3>2, EndsAppend, NewsShown, ConstantsAssumption
    <3>4. QED BY <1>2, <2>2, <3>1, <3>3 DEF Tracked, Learns
  <2>4. CASE Head(q) # c
    <3>1. channel'[c] = channel[c]
      BY <2>1, <2>2, <2>4, SendToChannel DEF TypeOK
    <3>2. ~\E i \in DOMAIN q : q[i] = c
      <4> SUFFICES ASSUME \E i \in DOMAIN q : q[i] = c PROVE FALSE
        OBVIOUS
      <4>1. \E i \in DOMAIN Tail(q) : Tail(q)[i] = c
        BY <2>1, <2>4, ListedInTail
      <4>2. Tail(q) # <<>>
        BY <4>1
      <4>3. QED BY <2>2, <4>1, <4>2 DEF Pending
    <3>3. ~Pending(p, c)
      BY <2>2, <3>2 DEF Pending
    <3>4. QED BY <1>2, <1>5, <2>2, <3>1, <3>3 DEF Tracked, Learns
  <2>5. QED BY <2>3, <2>4
<1>11. CASE Reject(p) \/ TaskEnded(p)
  <2>1. handler'[p] \in {"rejected", "close"}
    BY <1>11 DEF Reject, TaskEnded, TypeOK
  <2>2. QED BY <2>1 DEF Tracked
<1>12. QED
  BY <1>6, <1>7, <1>8, <1>9, <1>10, <1>11 DEF HandleSocket

\* A step of p's receive task: an Update says what tx_map has of p.
LEMMA TrackedRecv ==
  ASSUME TypeOK, LoopsOK, RegisteredInv, PhaseInv,
         NEW c \in Conn, NEW p \in Conn, c # p, Tracked(c, p), RecvTask(p)
  PROVE  Tracked(c, p)'
<1> USE DEF txMapVars, countVars, handlerVars, recvVars, clientVars
<1> SUFFICES ASSUME Served(c)', peers'[c][p] = NoInfo, ~Pending(p, c)'
             PROVE  Tracked(c, p)'
  BY DEF Tracked
<1>1. Served(c) /\ peers[c][p] = NoInfo
  BY TasksFrame DEF Served
<1>2. view' = view
  BY ViewFrame
<1>3. c \in registered /\ ChannelOpen(c)
  BY <1>1 DEF Served, RegisteredInv, ChannelOpen
<1>4. channel[c] \in Seq(WsServerMessage) /\ view[c] \in DeviceMap
  BY DEF TypeOK
<1>5. /\ ~Pending(p, c) /\ handler[p] \in {"join", "hello", "run"} /\ GroupOf[p] = GroupOf[c]
           => Ends(view[c], channel[c], p, client[p])
      /\ ~Pending(p, c) /\ handler[p] \in {"left", "done"} /\ ended_by[p] = "recv"
           => Ends(view[c], channel[c], p, NoInfo)
  BY <1>1 DEF Tracked, Learns
<1>6. UNCHANGED <<handler, peers_tx, ended_by>>
  BY DEF RecvTask, ReadRequest, ReadOverLimit, SendError, ReadEnd, StoreUpdate,
         LookupTarget, FanOut, AbortRecv
<1>7. CASE ReadRequest(p) \/ ReadOverLimit(p) \/ ReadEnd(p) \/ SendError(p) \/ LookupTarget(p)
  <2>1. recv_task[p] \in {"recv", "error", "relay"} /\ client' = client
    BY <1>7 DEF ReadRequest, ReadOverLimit, ReadEnd, SendError, LookupTarget
  <2>2. channel'[c] = channel[c]
    <3>1. CASE SendError(p)
      BY <3>1, SendToChannel DEF SendError, TypeOK
    <3>2. CASE ReadRequest(p) \/ ReadOverLimit(p) \/ ReadEnd(p) \/ LookupTarget(p)
      BY <3>2 DEF ReadRequest, ReadOverLimit, ReadEnd, LookupTarget
    <3>3. QED BY <1>7, <3>1, <3>2
  <2>3. ~Pending(p, c)
    BY <1>6, <2>1 DEF Pending
  <2>4. QED BY <1>2, <1>5, <1>6, <2>1, <2>2, <2>3 DEF Tracked, Learns
<1>8. CASE AbortRecv(p)
  BY <1>6, <1>8 DEF AbortRecv, PhaseInv, Tracked
<1>9. CASE StoreUpdate(p)
  <2>1. /\ recv_task[p] = "update" /\ request[p].type = "Update"
        /\ ended_by[p] # "recv" /\ handler[p] \notin {"join", "hello"}
    BY <1>9 DEF StoreUpdate, LoopsOK, PhaseInv
  <2>2. ~(handler[p] = "run" /\ GroupOf[p] = GroupOf[c])
    <3> SUFFICES ASSUME handler[p] = "run", GroupOf[p] = GroupOf[c] PROVE FALSE
      OBVIOUS
    <3> DEFINE S == Others(p)
    <3>1. p \in registered
      BY DEF RegisteredInv
    <3>2. PICK tx \in Receivers(S) : BeginFanOut(p, tx)
      BY <1>9, <3>1 DEF StoreUpdate
    <3>3. c \in S /\ IsFiniteSet(S)
      BY <1>3, OthersFinite DEF Others, LocalMap
    <3> HIDE DEF S
    <3>4. \E i \in DOMAIN tx : tx[i] = c
      BY <3>2, <3>3, ReceiversElements
    <3>5. tx # <<>>
      BY <3>4
    <3>6. recv_task'[p] = "fan_out" /\ request'[p] = request[p] /\ fan_out'[p] = tx
      BY <3>2, <3>5 DEF BeginFanOut, TypeOK
    <3>7. QED BY <2>1, <3>4, <3>6 DEF Pending
  <2>3. QED BY <1>6, <2>1, <2>2 DEF Tracked
<1>10. CASE FanOut(p)
  <2> DEFINE q == fan_out[p]
  <2>1. q \in Seq(Conn) /\ q # <<>> /\ Head(q) \in Conn /\ request[p] \in WsClientMessage
    BY <1>10, HeadTailProperties DEF FanOut, LoopsOK, TypeOK
  <2>2. /\ recv_task[p] = "fan_out" /\ client' = client
        /\ SendTo(Head(q), Outgoing(p)) /\ BeginFanOut(p, Tail(q))
        /\ ended_by[p] # "recv" /\ handler[p] \notin {"join", "hello"}
    BY <1>10 DEF FanOut, PhaseInv
  <2>3. Tail(q) # <<>> => recv_task'[p] = "fan_out" /\ request'[p] = request[p]
                          /\ fan_out'[p] = Tail(q)
    BY <2>2 DEF BeginFanOut, TypeOK
  <2>4. SUFFICES ASSUME handler[p] = "run", GroupOf[p] = GroupOf[c]
                 PROVE  Ends(view[c], channel'[c], p, client[p])
    BY <1>2, <1>6, <2>2 DEF Tracked, Learns
  <2>5. CASE request[p].type = "Update" /\ Head(q) = c
    <3>1. channel'[c] = Append(channel[c], Outgoing(p))
      BY <1>3, <2>2, <2>5, SendToChannel DEF TypeOK
    <3>2. client[p] = request[p].info
      BY <2>2, <2>4, <2>5 DEF PhaseInv
    <3>3. Outgoing(p) \in WsServerMessage
      BY <2>1, OutgoingType
    <3>4. About(Outgoing(p), p) /\ Shows(Apply(Nobody, Outgoing(p))[p], request[p].info)
      <4>1. Outgoing(p) = Update(p, request[p].info) /\ request[p].info \in Info
        BY <2>1, <2>5 DEF Outgoing, WsClientMessage
      <4>2. About(Update(p, request[p].info), p)
        BY DEF Update, About
      <4>3. QED BY <4>1, <4>2, NewsShown
    <3>5. QED BY <1>4, <3>1, <3>2, <3>3, <3>4, EndsAppend
  <2>6. CASE request[p].type = "Update" /\ Head(q) # c
    <3>1. channel'[c] = channel[c]
      BY <2>1, <2>2, <2>6, SendToChannel DEF TypeOK
    <3>2. ~\E i \in DOMAIN q : q[i] = c
      <4> SUFFICES ASSUME \E i \in DOMAIN q : q[i] = c PROVE FALSE
        OBVIOUS
      <4>1. \E i \in DOMAIN Tail(q) : Tail(q)[i] = c
        BY <2>1, <2>6, ListedInTail
      <4>2. Tail(q) # <<>>
        BY <4>1
      <4>3. QED BY <2>3, <2>6, <4>1, <4>2 DEF Pending
    <3>3. ~Pending(p, c)
      BY <2>4, <3>2 DEF Pending
    <3>4. QED BY <1>5, <2>4, <3>1, <3>3
  <2>7. CASE request[p].type # "Update"
    <3>1. ~Pending(p, c)
      BY <2>4, <2>7 DEF Pending
    <3>2. Outgoing(p) \in WsServerMessage /\ ~About(Outgoing(p), p)
      <4>1. Outgoing(p) \in WsServerMessage
        BY <2>1, OutgoingType
      <4>2. QED BY <2>1, <2>7, <4>1 DEF Outgoing, Sdp, WsClientMessage, About, Announces
    <3>3. channel'[c] = channel[c] \/ channel'[c] = Append(channel[c], Outgoing(p))
      <4>1. PICK t \in Conn : SendTo(t, Outgoing(p))
        BY <2>1, <2>2
      <4>2. channel \in [Conn -> Seq(WsServerMessage)]
        BY DEF TypeOK
      <4>3. QED BY <4>1, <4>2, SendToChannel
    <3>4. QED BY <1>4, <1>5, <2>4, <3>1, <3>2, <3>3, EndsAppend
  <2>8. QED BY <2>5, <2>6, <2>7
<1>11. QED
  BY <1>7, <1>8, <1>9, <1>10 DEF RecvTask

\* Sending to the socket, and closing it.
LEMMA TrackedSend ==
  ASSUME TypeOK, NEW c \in Conn, NEW p \in Conn, Tracked(c, p),
         NEW x \in Conn, SendTask(x) \/ CloseSocket(x)
  PROVE  Tracked(c, p)'
<1> USE DEF txMapVars, countVars, handlerVars, recvVars, clientVars
<1> SUFFICES ASSUME Served(c)', peers'[c][p] = NoInfo
             PROVE  Tracked(c, p)'
  BY DEF Tracked
<1>1. UNCHANGED <<handler, peers, peers_tx, ended_by, recv_task, request, fan_out, client>>
  BY DEF SendTask, Deliver, EndSend, CloseSocket
<1>2. Served(c) /\ peers[c][p] = NoInfo
  BY <1>1 DEF SendTask, Deliver, EndSend, CloseSocket, Served, TypeOK
<1>3. \A v : Ends(view[c], channel[c], p, v) => Ends(view'[c], channel'[c], p, v)
  <2>1. CASE x # c
    BY <2>1 DEF SendTask, Deliver, EndSend, CloseSocket, TypeOK
  <2>2. CASE Deliver(c)
    <3>1. /\ channel[c] \in Seq(WsServerMessage) /\ channel[c] # <<>> /\ view[c] \in DeviceMap
          /\ channel'[c] = Tail(channel[c])
          /\ view'[c] = Apply(view[c], Head(channel[c]))
      BY <1>2, <2>2 DEF Deliver, Served, TypeOK
    <3>2. QED BY <3>1, EndsDeliver
  <2>3. CASE EndSend(c) \/ CloseSocket(c)
    BY <2>3 DEF EndSend, CloseSocket, Served, TypeOK
  <2>4. QED BY <2>1, <2>2, <2>3 DEF SendTask
<1>4. QED BY <1>1, <1>2, <1>3, TrackedFrame

LEMMA TrackedStep ==
  ASSUME TypeOK, LoopsOK, RegisteredInv, NotSpawned, QuietInv, PhaseInv,
         ChannelsOwn, ViewsOwn, TrackedInv, [Next]_vars
  PROVE  TrackedInv'
<1> SUFFICES ASSUME NEW c \in Conn, NEW p \in Conn PROVE Tracked(c, p)'
  BY DEF TrackedInv
<1>1. CASE c = p
  BY <1>1 DEF Tracked
<1>2. Tracked(c, p)
  BY DEF TrackedInv
<1>3. ASSUME c # p, NEW x \in Conn, HandleSocket(x) PROVE Tracked(c, p)'
  <2>1. CASE x = c
    BY <1>2, <1>3, <2>1, TrackedClient
  <2>2. CASE x = p
    BY <1>2, <1>3, <2>2, TrackedHandler
  <2>3. CASE x # c /\ x # p
    BY <1>2, <1>3, <2>3, TrackedOther
  <2>4. QED BY <2>1, <2>2, <2>3
<1>4. ASSUME c # p, NEW x \in Conn, RecvTask(x) PROVE Tracked(c, p)'
  <2>1. CASE x = c
    BY <1>2, <1>4, <2>1, TrackedClient
  <2>2. CASE x = p
    BY <1>2, <1>4, <2>2, TrackedRecv
  <2>3. CASE x # c /\ x # p
    BY <1>2, <1>4, <2>3, TrackedOther
  <2>4. QED BY <2>1, <2>2, <2>3
<1>5. ASSUME NEW x \in Conn, SendTask(x) \/ CloseSocket(x) PROVE Tracked(c, p)'
  BY <1>2, <1>5, TrackedSend
<1>6. ASSUME ClearRequestCounts \/ UNCHANGED vars PROVE Tracked(c, p)'
  <2>1. UNCHANGED <<handler, peers, peers_tx, ended_by, recv_task, request, fan_out,
                    client, channel, view, send_task, socket>>
    BY <1>6 DEF ClearRequestCounts, vars, txMapVars, handlerVars, recvVars, clientVars
  <2>2. CASE Served(c) /\ peers[c][p] = NoInfo
    BY <1>2, <2>1, <2>2, TrackedFrame
  <2>3. CASE ~(Served(c) /\ peers[c][p] = NoInfo)
    BY <2>1, <2>3 DEF Tracked, Served
  <2>4. QED BY <2>2, <2>3
<1>7. QED
  BY <1>1, <1>3, <1>4, <1>5, <1>6 DEF Next

\* LaterPeersTracked is not inductive alone.  A peer that registers must be
\* unknown to those before it (QuietInv, StartedInv), one of another group to
\* everybody (IsolationInv), an Update says what tx_map has only while the
\* entry is this peer's (PhaseInv), and what is claimed once nothing is owed
\* has to be claimed while an offer is still being relayed (TrackedInv).
LaterInv ==
    /\ IsolationInv
    /\ RegisteredInv /\ NotSpawned
    /\ StartedInv /\ QuietInv /\ PhaseInv
    /\ TrackedInv

\* What c shows of a peer that came after it, once its channel is drained, is
\* what tx_map has of the peer, alone under that token, and nothing once the
\* peer has left: Join, Updates and Left are queued by the peer's own tasks in
\* this order (ws_controller.rs, handle_socket and
\* send_update_to_other_peers_with_lock).  Entries under a token the peer has
\* given up may stay beside it (RegisterSignalingDeviceAction).
THEOREM LaterPeersTrackedHolds == Spec => []LaterPeersTracked
<1>1. Init => LaterInv
  <2> SUFFICES ASSUME Init PROVE LaterInv
    OBVIOUS
  <2>1. TargetsOwn /\ SnapshotsOwn /\ ChannelsOwn /\ ViewsOwn
    BY DEF Init, TargetsOwn, SnapshotsOwn, ChannelsOwn, ViewsOwn, Nobody
  <2>2. RegisteredInv /\ NotSpawned /\ StartedInv /\ QuietInv /\ PhaseInv
    BY DEF Init, RegisteredInv, NotSpawned, StartedInv, QuietInv, PhaseInv, Nobody
  <2>3. \A c \in Conn : ~Served(c)
    BY DEF Init, Served
  <2>4. TrackedInv
    BY <2>3 DEF TrackedInv, Tracked
  <2>5. QED BY <2>1, <2>2, <2>4, TypeInit DEF LaterInv, IsolationInv
<1>2. LaterInv /\ [Next]_vars => LaterInv'
  <2> SUFFICES ASSUME LaterInv, [Next]_vars PROVE LaterInv'
    OBVIOUS
  <2>1. IsolationInv'
    BY TypeStep, TargetsStep, SnapshotsStep, ChannelsOwnStep, ViewsStep DEF LaterInv, IsolationInv
  <2>2. RegisteredInv' /\ NotSpawned'
    BY RegisteredStep, NotSpawnedStep DEF LaterInv, IsolationInv
  <2>3. StartedInv' /\ PhaseInv' /\ QuietInv'
    BY StartedStep, PhaseStep, QuietStep DEF LaterInv, IsolationInv
  <2>4. TrackedInv'
    BY TrackedStep DEF LaterInv, IsolationInv
  <2>5. QED BY <2>1, <2>2, <2>3, <2>4 DEF LaterInv
<1>3. LaterInv => LaterPeersTracked
  <2> SUFFICES ASSUME LaterInv, NEW c \in Conn, NEW p \in Conn,
                      c # p, Served(c), peers[c][p] = NoInfo, ~Owes(p, c)
               PROVE  /\ handler[p] \in {"join", "hello", "run"} /\ GroupOf[p] = GroupOf[c]
                           => Learns(c, p, client[p])
                      /\ handler[p] = "done" /\ ended_by[p] = "recv" => Learns(c, p, NoInfo)
    BY DEF LaterPeersTracked
  <2>1. ~Pending(p, c)
    BY DEF Pending, Owes
  <2>2. QED BY <2>1 DEF LaterInv, TrackedInv, Tracked
<1>4. QED BY <1>1, <1>2, <1>3, PTL DEF Spec

=============================================================================
