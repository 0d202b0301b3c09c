--------------------------- MODULE SignalingServer ---------------------------
(***************************************************************************)
(* The WebRTC signaling server (server/src/controller/ws_controller.rs).   *)
(*                                                                         *)
(* Every websocket is served by handle_socket, which registers the peer    *)
(* in tx_map, announces it with Join, queues its Hello, and only then      *)
(* spawns a send_task (channel -> socket) and a recv_task (socket ->       *)
(* requests).  When one of the two tasks ends the handler aborts the other,*)
(* removes the peer and broadcasts Left.  The handlers of all connections  *)
(* and their tasks run concurrently; what is done under the tx_map mutex   *)
(* is one step, every awaited channel send is a step of its own.           *)
(*                                                                         *)
(* A connection identifier stands for the Uuid that ws_handler draws for   *)
(* one websocket, so it is never used twice.                               *)
(***************************************************************************)
EXTENDS Integers, FiniteSets, SequencesExt

CONSTANTS
    Conn,             \* websockets (the peer's Uuid)
    IpGroup,          \* keys of tx_map, as get_ip_group computes them
    GroupOf,          \* the group of each websocket's remote address
    Info,             \* ClientInfoWithoutId values
    InitialInfo,      \* the info a client registers with
    NoInfo,           \* "this peer is not in the map"
    TokenOf,          \* the token in each info: the app's fingerprint of the peer
    MAX_CONNECTIONS,  \* per group
    MAX_REQUESTS,     \* per group and hour
    ChannelCapacity,  \* of mpsc::channel(4)
    Requests,         \* bound of the model: what each client may send
    Leavers,          \* bound of the model: the clients that disconnect
    MaxHours          \* bound of the model: how often the hourly job runs

ASSUME ConstantsAssumption ==
    /\ IsFiniteSet(Conn)
    /\ GroupOf \in [Conn -> IpGroup]
    /\ InitialInfo \in Info
    /\ NoInfo \notin Info
    /\ DOMAIN TokenOf = Info
    /\ MAX_CONNECTIONS \in Nat
    /\ MAX_REQUESTS \in Nat
    /\ ChannelCapacity \in Nat \ {0}
    /\ Leavers \subseteq Conn
    /\ MaxHours \in Nat

VARIABLES
    registered,     \* tx_map: the peers with an entry in their group's map
    client,         \* tx_map: ClientState.client of each registered peer
    group_keys,     \* tx_map: the groups that have a (possibly empty) map
    request_count,  \* request_count_map (a missing key is 0)
    hour,           \* how often request_count_map was cleared
    channel,        \* the mpsc channel behind each peer's tx
    handler,        \* where handle_socket is
    peers,          \* the snapshot of tx_map that goes into the Hello
    peers_tx,       \* receivers handle_socket still has to send Join / Left to
    ended_by,       \* the branch tokio::select! took
    recv_task,      \* where the receive task is
    request,        \* the client message the receive task works on
    fan_out,        \* receivers the receive task still has to send to
    send_task,      \* where the send task is
    socket,         \* the websocket as the client left it
    view,           \* the signaling devices the client's app shows of each peer
    greeted         \* whether the client has been sent its Hello

txMapVars   == <<registered, client, group_keys>>
handlerVars == <<handler, peers, peers_tx, ended_by>>
recvVars    == <<recv_task, request, fan_out>>
clientVars  == <<socket, view, greeted>>
countVars   == <<request_count, hour>>
vars == <<txMapVars, countVars, channel, handlerVars, recvVars,
          send_task, clientVars>>

------------------------------------------------------------------------------
\* Messages.

PeerList == [Conn -> Info \cup {NoInfo}]

\* nearbyDevicesProvider.signalingDevices: what the app has of every peer.
DeviceMap == [Conn -> SUBSET Info]
Nobody    == [p \in Conn |-> {}]

Hello(c, list)   == [type |-> "Hello", peer |-> c, info |-> InitialInfo,
                     peers |-> list]
Join(c)          == [type |-> "Join", peer |-> c, info |-> InitialInfo]
Update(c, info)  == [type |-> "Update", peer |-> c, info |-> info]
LeftAnonymous(c) == [type |-> "Left"]                                 \* mutant
Left(c)          == [type |-> "Left", peer |-> c]
\* Offer and Answer carry the info the origin registered with: recv_task
\* clones the `peer` handle_socket was called with.
Sdp(kind, c)     == [type |-> kind, peer |-> c, info |-> InitialInfo]
TooManyRequests  == [type |-> "Error"]

WsServerMessage ==
    [type : {"Hello"}, peer : Conn, info : Info, peers : PeerList]
    \cup [type : {"Join", "Update", "Offer", "Answer"}, peer : Conn, info : Info]
    \cup [type : {"Left"}, peer : Conn]
    \cup {TooManyRequests}

WsClientMessage ==
    [type : {"Update"}, info : Info]
    \cup [type : {"Offer", "Answer"}, target : Conn]

NoRequest == [type |-> "None"]

ASSUME RequestsAssumption == Requests \in [Conn -> SUBSET WsClientMessage]

------------------------------------------------------------------------------
\* Helpers.

LocalMapOfAll(g) == registered                                        \* mutant
LocalMap(g) == {c \in registered : GroupOf[c] = g}

Others(c) == LocalMap(GroupOf[c]) \ {c}

ChannelOpen(c) == send_task[c] # "ended"

\* tx.send(msg).await: waits for capacity, and returns an error that every
\* caller ignores once the receiver is gone.
CanSendOneLess(t) == ChannelOpen(t) => Len(channel[t]) + 1 < ChannelCapacity \* mutant
CanSend(t) == ChannelOpen(t) => Len(channel[t]) < ChannelCapacity

TrySendTo(t, msg) ==                                                  \* mutant
    channel' = IF ChannelOpen(t) /\ Len(channel[t]) < ChannelCapacity
                 THEN [channel EXCEPT ![t] = Append(@, msg)]
                 ELSE channel

SendTo(t, msg) ==
    /\ CanSend(t)
    /\ channel' = IF ChannelOpen(t)
                    THEN [channel EXCEPT ![t] = Append(@, msg)]
                    ELSE channel

\* A HashMap's values() come in an arbitrary order, fixed when collected.
Receivers(S) == SetToSeqs(S)

HasRoomForOneMore(g) == Cardinality(LocalMap(g)) <= MAX_CONNECTIONS    \* mutant
HasRoom(g) == Cardinality(LocalMap(g)) < MAX_CONNECTIONS

\* protect_ddos_request_count
UnderRequestLimit(g) == request_count[g] < MAX_REQUESTS
CountRequest(g) ==
    /\ request_count' = [request_count EXCEPT ![g] = @ + 1]
    /\ UNCHANGED hour

Init ==
    /\ registered = {}
    /\ client = [c \in Conn |-> InitialInfo]
    /\ group_keys = {}
    /\ request_count = [g \in IpGroup |-> 0]
    /\ hour = 0
    /\ channel = [c \in Conn |-> <<>>]
    /\ handler = [c \in Conn |-> "idle"]
    /\ peers = [c \in Conn |-> [p \in Conn |-> NoInfo]]
    /\ peers_tx = [c \in Conn |-> <<>>]
    /\ ended_by = [c \in Conn |-> "none"]
    /\ recv_task = [c \in Conn |-> "off"]
    /\ request = [c \in Conn |-> NoRequest]
    /\ fan_out = [c \in Conn |-> <<>>]
    /\ send_task = [c \in Conn |-> "off"]
    /\ socket = [c \in Conn |-> "open"]
    /\ view = [c \in Conn |-> Nobody]
    /\ greeted = [c \in Conn |-> FALSE]

------------------------------------------------------------------------------
\* handle_socket.

\* The block under the lock, when both limits leave room.
Register(c) ==
    LET g == GroupOf[c] IN
    /\ handler[c] = "idle"
    /\ HasRoom(g)
    /\ UnderRequestLimit(g)
    /\ CountRequest(g)
    /\ \E tx \in Receivers(LocalMap(g)) :
         /\ peers_tx' = [peers_tx EXCEPT ![c] = tx]
         /\ handler' = [handler EXCEPT ![c] =
                          IF tx = <<>> THEN "hello" ELSE "join"]
    /\ peers' = [peers EXCEPT ![c] =
                   [p \in Conn |-> IF p \in LocalMap(g) THEN client[p] ELSE NoInfo]]
    /\ registered' = registered \cup {c}
    /\ client' = [client EXCEPT ![c] = InitialInfo]
    /\ group_keys' = group_keys \cup {g}
    /\ UNCHANGED <<channel, ended_by, recvVars, send_task, clientVars>>

\* The block under the lock, when a limit is reached: the group's map has
\* been created by or_insert_with all the same.  The client is told "Limit
\* reached" and disconnected.
Reject(c) ==
    LET g == GroupOf[c] IN
    /\ handler[c] = "idle"
    /\ ~HasRoom(g) \/ ~UnderRequestLimit(g)
    /\ group_keys' = group_keys \cup {g}
    /\ handler' = [handler EXCEPT ![c] = "rejected"]
    /\ socket' = [socket EXCEPT ![c] = "closed"]
    /\ UNCHANGED <<registered, client, countVars, channel, peers, peers_tx,
                   ended_by, recvVars, send_task, view, greeted>>

SendJoin(c) ==
    /\ handler[c] = "join"
    /\ SendTo(Head(peers_tx[c]), Join(c))
    /\ peers_tx' = [peers_tx EXCEPT ![c] = Tail(@)]
    /\ handler' = [handler EXCEPT ![c] =
                     IF Tail(peers_tx[c]) = <<>> THEN "hello" ELSE "join"]
    /\ UNCHANGED <<txMapVars, countVars, peers, ended_by, recvVars,
                   send_task, clientVars>>

\* The Hello is queued while nobody drains the channel yet; then both tasks
\* are spawned.
SendHello(c) ==
    /\ handler[c] = "hello"
    /\ SendTo(c, Hello(c, peers[c]))
    /\ handler' = [handler EXCEPT ![c] = "run"]
    /\ recv_task' = [recv_task EXCEPT ![c] = "recv"]
    /\ send_task' = [send_task EXCEPT ![c] = "drain"]
    /\ UNCHANGED <<txMapVars, countVars, peers, peers_tx, ended_by, request,
                   fan_out, clientVars>>

TaskEndedSendOnly(c) ==                                               \* mutant
    /\ handler[c] = "run"
    /\ send_task[c] = "ended"
    /\ ended_by' = [ended_by EXCEPT ![c] = "send"]
    /\ handler' = [handler EXCEPT ![c] = "close"]
    /\ UNCHANGED <<txMapVars, countVars, channel, peers, peers_tx, recvVars,
                   send_task, clientVars>>

\* tokio::select!: one task has ended, the other one is aborted.
TaskEnded(c) ==
    /\ handler[c] = "run"
    /\ \/ /\ send_task[c] = "ended"
          /\ ended_by' = [ended_by EXCEPT ![c] = "send"]
       \/ /\ recv_task[c] = "ended"
          /\ ended_by' = [ended_by EXCEPT ![c] = "recv"]
    /\ handler' = [handler EXCEPT ![c] = "close"]
    /\ UNCHANGED <<txMapVars, countVars, channel, peers, peers_tx, recvVars,
                   send_task, clientVars>>

GroupsAlwaysDropped(c) == group_keys \ {GroupOf[c]}                    \* mutant
GroupsWithout(c) ==
    IF Others(c) = {} THEN group_keys \ {GroupOf[c]} ELSE group_keys

\* The second block under the lock.
Unregister(c) ==
    /\ handler[c] = "close"
    /\ registered' = registered \ {c}
    /\ client' = [client EXCEPT ![c] = InitialInfo]
    /\ group_keys' = GroupsWithout(c)
    /\ \E tx \in Receivers(Others(c)) :
         /\ peers_tx' = [peers_tx EXCEPT ![c] = tx]
         /\ handler' = [handler EXCEPT ![c] =
                          IF tx = <<>> THEN "done" ELSE "left"]
    /\ UNCHANGED <<countVars, channel, peers, ended_by, recvVars, send_task,
                   clientVars>>

SendLeft(c) ==
    /\ handler[c] = "left"
    /\ SendTo(Head(peers_tx[c]), Left(c))
    /\ peers_tx' = [peers_tx EXCEPT ![c] = Tail(@)]
    /\ handler' = [handler EXCEPT ![c] =
                     IF Tail(peers_tx[c]) = <<>> THEN "done" ELSE "left"]
    /\ UNCHANGED <<txMapVars, countVars, peers, ended_by, recvVars,
                   send_task, clientVars>>

------------------------------------------------------------------------------
\* recv_task.

\* A client message is read and counted.
ReadRequest(c) ==
    /\ recv_task[c] = "recv"
    /\ socket[c] = "open"
    /\ UnderRequestLimit(GroupOf[c])
    /\ CountRequest(GroupOf[c])
    /\ \E r \in Requests[c] :
         /\ request' = [request EXCEPT ![c] = r]
         /\ recv_task' = [recv_task EXCEPT ![c] =
                            IF r.type = "Update" THEN "update" ELSE "relay"]
    /\ UNCHANGED <<txMapVars, channel, handlerVars, fan_out, send_task, clientVars>>

\* A client message is read and the hourly limit is reached.
ReadOverLimit(c) ==
    /\ recv_task[c] = "recv"
    /\ socket[c] = "open"
    /\ Requests[c] # {}
    /\ ~UnderRequestLimit(GroupOf[c])
    /\ recv_task' = [recv_task EXCEPT ![c] = "error"]
    /\ UNCHANGED <<txMapVars, countVars, channel, handlerVars, request,
                   fan_out, send_task, clientVars>>

SendError(c) ==
    /\ recv_task[c] = "error"
    /\ SendTo(c, TooManyRequests)
    /\ recv_task' = [recv_task EXCEPT ![c] = "ended"]
    /\ UNCHANGED <<txMapVars, countVars, handlerVars, request, fan_out,
                   send_task, clientVars>>

\* receiver.next() yields None or an error.
ReadEnd(c) ==
    /\ recv_task[c] = "recv"
    /\ socket[c] = "closed"
    /\ recv_task' = [recv_task EXCEPT ![c] = "ended"]
    /\ UNCHANGED <<txMapVars, countVars, channel, handlerVars, request,
                   fan_out, send_task, clientVars>>

BeginFanOut(c, tx) ==
    /\ fan_out' = [fan_out EXCEPT ![c] = tx]
    /\ request' = [request EXCEPT ![c] = IF tx = <<>> THEN NoRequest ELSE @]
    /\ recv_task' = [recv_task EXCEPT ![c] =
                       IF tx = <<>> THEN "recv" ELSE "fan_out"]

\* send_update_to_other_peers_with_lock, the part under the lock.
StoreUpdate(c) ==
    /\ recv_task[c] = "update"
    /\ \/ /\ c \in registered
          /\ client' = [client EXCEPT ![c] = request[c].info]
          /\ \E tx \in Receivers(Others(c)) : BeginFanOut(c, tx)
       \/ /\ c \notin registered
          /\ BeginFanOut(c, <<>>)
          /\ UNCHANGED client
    /\ UNCHANGED <<registered, group_keys, countVars, channel, handlerVars,
                   send_task, clientVars>>

\* send_to_peer_with_lock, the part under the lock.
LookupTarget(c) ==
    LET target == request[c].target IN
    /\ recv_task[c] = "relay"
    /\ BeginFanOut(c, IF target \in LocalMap(GroupOf[c]) THEN <<target>> ELSE <<>>)
    /\ UNCHANGED <<txMapVars, countVars, channel, handlerVars, send_task,
                   clientVars>>

OutgoingAsRegistered(c) ==                                            \* mutant
    IF request[c].type = "Update" THEN Update(c, InitialInfo)
                                  ELSE Sdp(request[c].type, c)

Outgoing(c) ==
    IF request[c].type = "Update" THEN Update(c, request[c].info)
                                  ELSE Sdp(request[c].type, c)

\* The sends of both functions, after the lock is released.
FanOut(c) ==
    /\ recv_task[c] = "fan_out"
    /\ SendTo(Head(fan_out[c]), Outgoing(c))
    /\ BeginFanOut(c, Tail(fan_out[c]))
    /\ UNCHANGED <<txMapVars, countVars, handlerVars, send_task, clientVars>>

\* abort() does not wait: a receive task that is running on another worker
\* goes on until its next await that has to wait.
AbortRecv(c) ==
    /\ ended_by[c] = "send"
    /\ recv_task[c] # "ended"
    /\ recv_task' = [recv_task EXCEPT ![c] = "ended"]
    /\ request' = [request EXCEPT ![c] = NoRequest]
    /\ fan_out' = [fan_out EXCEPT ![c] = <<>>]
    /\ UNCHANGED <<txMapVars, countVars, channel, handlerVars, send_task,
                   clientVars>>

------------------------------------------------------------------------------
\* send_task.

\* RegisterSignalingDeviceAction: the devices of a peer are kept apart by
\* token, and only the one with the same token is replaced.
RegisterDevice(devices, info) ==
    {d \in devices : TokenOf[d] # TokenOf[info]} \cup {info}

\* How the app folds the stream into the devices it shows.
\* UnregisterSignalingDeviceAction removes a peer under every token.
Apply(v, msg) ==
    CASE msg.type = "Hello" ->
           [p \in Conn |-> IF msg.peers[p] # NoInfo
                             THEN RegisterDevice(v[p], msg.peers[p]) ELSE v[p]]
      [] msg.type \in {"Join", "Update"} ->
           [v EXCEPT ![msg.peer] = RegisterDevice(@, msg.info)]
      [] msg.type = "Left" -> [v EXCEPT ![msg.peer] = {}]
      [] OTHER -> v

Deliver(c) ==
    LET msg == Head(channel[c]) IN
    /\ send_task[c] = "drain"
    /\ channel[c] # <<>>
    /\ channel' = [channel EXCEPT ![c] = Tail(@)]
    /\ \/ /\ socket[c] = "open"
          /\ view' = [view EXCEPT ![c] = Apply(@, msg)]
          /\ greeted' = [greeted EXCEPT ![c] = @ \/ msg.type = "Hello"]
       \/ /\ socket[c] = "closed"      \* still buffered, never received
          /\ UNCHANGED <<view, greeted>>
    /\ UNCHANGED <<txMapVars, countVars, handlerVars, recvVars, send_task,
                   socket>>

\* The write fails, or the task is aborted: it ends and drops the receiver.
EndSend(c) ==
    /\ send_task[c] = "drain"
    /\ \/ channel[c] # <<>> /\ socket[c] = "closed"
       \/ ended_by[c] = "recv"
    /\ send_task' = [send_task EXCEPT ![c] = "ended"]
    /\ channel' = [channel EXCEPT ![c] = <<>>]
    /\ UNCHANGED <<txMapVars, countVars, handlerVars, recvVars, clientVars>>

------------------------------------------------------------------------------
\* The client and the hourly job.

CloseSocket(c) ==
    /\ c \in Leavers
    /\ socket[c] = "open"
    /\ handler[c] # "idle"
    /\ socket' = [socket EXCEPT ![c] = "closed"]
    /\ UNCHANGED <<txMapVars, countVars, channel, handlerVars, recvVars,
                   send_task, view, greeted>>

\* scheduler.rs: request_count_map.clear() at every full hour.
ClearRequestCounts ==
    /\ hour < MaxHours
    /\ hour' = hour + 1
    /\ request_count' = [g \in IpGroup |-> 0]
    /\ UNCHANGED <<txMapVars, channel, handlerVars, recvVars, send_task, clientVars>>

HandleSocket(c) ==
    \/ Register(c) \/ Reject(c) \/ SendJoin(c) \/ SendHello(c)
    \/ TaskEnded(c) \/ Unregister(c) \/ SendLeft(c)

RecvTask(c) ==
    \/ ReadRequest(c) \/ ReadOverLimit(c) \/ SendError(c) \/ ReadEnd(c)
    \/ StoreUpdate(c) \/ LookupTarget(c) \/ FanOut(c) \/ AbortRecv(c)

SendTask(c) == Deliver(c) \/ EndSend(c)

Next ==
    \/ \E c \in Conn : HandleSocket(c) \/ RecvTask(c) \/ SendTask(c) \/ CloseSocket(c)
    \/ ClearRequestCounts

Spec == Init /\ [][Next]_vars


\* Registering and sending requests is the clients' choice; every task that
\* has started goes on, and clients read their socket.  tokio serves the
\* senders that wait for a channel in order, hence strong fairness.
HandlerStep(c) ==
    SendJoin(c) \/ SendHello(c) \/ TaskEnded(c) \/ Unregister(c) \/ SendLeft(c)

RecvStep(c) ==
    \/ SendError(c) \/ ReadEnd(c) \/ StoreUpdate(c) \/ LookupTarget(c)
    \/ FanOut(c) \/ AbortRecv(c)

Fairness ==
    \A c \in Conn : /\ SF_vars(HandlerStep(c))
                    /\ SF_vars(RecvStep(c))
                    /\ WF_vars(SendTask(c))

FairSpec == Spec /\ Fairness

------------------------------------------------------------------------------
\* Properties.

\* The type of every variable.
TypeOK ==
    /\ registered \in SUBSET Conn
    /\ client \in [Conn -> Info]
    /\ group_keys \in SUBSET IpGroup
    /\ request_count \in [IpGroup -> Nat]
    /\ hour \in Nat
    /\ channel \in [Conn -> Seq(WsServerMessage)]
    /\ handler \in [Conn -> {"idle", "rejected", "join", "hello", "run",
                             "close", "left", "done"}]
    /\ peers \in [Conn -> PeerList]
    /\ peers_tx \in [Conn -> Seq(Conn)]
    /\ ended_by \in [Conn -> {"none", "send", "recv"}]
    /\ recv_task \in [Conn -> {"off", "recv", "update", "relay", "fan_out",
                               "error", "ended"}]
    /\ request \in [Conn -> WsClientMessage \cup {NoRequest}]
    /\ fan_out \in [Conn -> Seq(Conn)]
    /\ send_task \in [Conn -> {"off", "drain", "ended"}]
    /\ socket \in [Conn -> {"open", "closed"}]
    /\ view \in [Conn -> DeviceMap]
    /\ greeted \in [Conn -> BOOLEAN]

\* The limits hold however connects, requests and disconnects interleave:
\* at most MAX_CONNECTIONS peers per group, at most MAX_REQUESTS counted
\* requests, at most ChannelCapacity queued messages, because each limit is
\* checked and used up under one lock.
LimitsHold ==
    /\ \A g \in IpGroup : /\ Cardinality(LocalMap(g)) <= MAX_CONNECTIONS
                          /\ request_count[g] <= MAX_REQUESTS
    /\ \A c \in Conn : Len(channel[c]) <= ChannelCapacity

\* tx_map holds exactly the peers whose handler is between its two locked
\* blocks: no exit path of handle_socket leaves an entry behind, and the
\* group of a registered peer is never dropped by another one leaving.
\* A group's map can be empty only after a rejected connection.
TxMapFollowsHandlers ==
    /\ registered = {c \in Conn : handler[c] \in {"join", "hello", "run", "close"}}
    /\ \A c \in registered : GroupOf[c] \in group_keys
    /\ \A g \in group_keys :
         LocalMap(g) # {} \/ \E c \in Conn : GroupOf[c] = g /\ handler[c] = "rejected"

\* Nothing about a peer reaches a client of another group: not in a queued
\* message, not in the list of a Hello, not in what the client has folded.
GroupIsolation ==
    \A c \in Conn :
      /\ \A i \in DOMAIN channel[c] :
           channel[c][i].type # "Error" => GroupOf[channel[c][i].peer] = GroupOf[c]
      /\ \A p \in Conn : peers[c][p] # NoInfo \/ view[c][p] # {}
                           => GroupOf[p] = GroupOf[c]

\* A connection that is still being served.
Served(c) ==
    /\ handler[c] \in {"join", "hello", "run"}
    /\ send_task[c] # "ended"
    /\ socket[c] = "open"

Announces(msg, p) ==
    \/ msg.type = "Join" /\ msg.peer = p
    \/ msg.type = "Hello" /\ msg.peers[p] # NoInfo

\* p is known to c, or c is going to be told of p.
Told(c, p) ==
    \/ view[c][p] # {}
    \/ \E i \in DOMAIN channel[c] : Announces(channel[c][i], p)
    \/ handler[p] = "join" /\ \E i \in DOMAIN peers_tx[p] : peers_tx[p][i] = c
    \/ handler[c] \in {"join", "hello"} /\ peers[c][p] # NoInfo

\* Two registered peers of a group never miss each other, whatever the order
\* in which their handlers run: the later one has the earlier one in its
\* snapshot, and sends it a Join.
NoMissedPeer ==
    \A c, p \in registered :
      c # p /\ GroupOf[c] = GroupOf[p] /\ Served(c) => Told(c, p)

About(msg, p) ==
    \/ Announces(msg, p)
    \/ msg.type \in {"Update", "Left"} /\ msg.peer = p

\* An app that has these devices of a peer shows v, and nothing else under
\* the token of v; or shows nothing of the peer at all.
Shows(devices, v) ==
    IF v = NoInfo THEN devices = {}
                  ELSE {d \in devices : TokenOf[d] = TokenOf[v]} = {v}

\* A client that has the devices u shows v for p once it has received the
\* messages of ch: the last one about p says so, or there is none and it
\* does already.
Ends(u, ch, p, v) ==
    \/ Shows(u[p], v) /\ \A i \in DOMAIN ch : ~About(ch[i], p)
    \/ \E i \in DOMAIN ch :
         /\ About(ch[i], p) /\ Shows(Apply(Nobody, ch[i])[p], v)
         /\ \A j \in DOMAIN ch : j > i => ~About(ch[j], p)

\* What c will show of p once its channel is drained.
Learns(c, p, v) == Ends(view[c], channel[c], p, v)

\* p still has something to send to c.
Owes(p, c) ==
    \/ handler[p] \in {"join", "left"} /\ \E i \in DOMAIN peers_tx[p] : peers_tx[p][i] = c
    \/ recv_task[p] = "fan_out" /\ \E i \in DOMAIN fan_out[p] : fan_out[p][i] = c

\* A peer that came after c is tracked by c: Join, the Updates and Left of
\* one peer are queued by its own tasks in that order, so that once c has
\* received what is on its way it shows the info tx_map has of the peer, as
\* the only one under that token, and nothing of the peer once it has left.
\* What it showed under a token the peer has given up since stays beside it:
\* the app keys its devices by token and never moves one.  The exception is
\* a peer whose receive task is aborted: an Update may reach only some of the
\* others, and may still be queued behind the Left.
LaterPeersTracked ==
    \A c, p \in Conn :
      c # p /\ Served(c) /\ peers[c][p] = NoInfo /\ ~Owes(p, c) =>
        /\ handler[p] \in {"join", "hello", "run"} /\ GroupOf[p] = GroupOf[c]
             => Learns(c, p, client[p])
        /\ handler[p] = "done" /\ ended_by[p] = "recv" => Learns(c, p, NoInfo)

\* signaling.rs, WsServerMessage::Hello: "The initial message sent to the client
\* that has just connected."  Every client that has been registered gets its
\* Hello, unless its connection is being torn down.
HelloArrives ==
    \A c \in Conn :
      c \in registered ~> greeted[c] \/ handler[c] \in {"close", "left", "done"}

\* The channel of x is full while handle_socket has not spawned the task that
\* drains it: x can never queue its Hello.
Filled(x) ==
    handler[x] \in {"join", "hello"} /\ Len(channel[x]) = ChannelCapacity

\* c is such a connection, or its handler or its receive task waits to send
\* to one.
WaitsForFilled(c) ==
    \E x \in Conn :
      /\ Filled(x)
      /\ \/ x = c
         \/ handler[c] = "join" /\ Head(peers_tx[c]) = x
         \/ recv_task[c] = "fan_out" /\ Head(fan_out[c]) = x

\* A registered client gets its Hello although handlers and tasks wait for each
\* other's full channels, unless its connection is being torn down or it waits
\* for a channel that filled up before a Hello: nothing else keeps one back.
HelloUnlessFilled ==
    \A c \in Conn :
      c \in registered ~>
        greeted[c] \/ handler[c] \in {"close", "left", "done"} \/ WaitsForFilled(c)

\* A peer whose socket is closed leaves tx_map, whatever its tasks were doing
\* and whichever full channel they were waiting for, except for a channel
\* that filled up before its Hello: who has one, or waits for one, stays.
ClosedPeersLeave ==
    \A c \in Conn : socket[c] = "closed" ~> c \notin registered \/ WaitsForFilled(c)

==============================================================================
