------------------------------- MODULE HttpCore -------------------------------
(***************************************************************************)
(* The HTTP server and the HTTP clients of the core (core/src/http), with  *)
(* the API that Dart has of the clients (app/rust/src/api/http.rs).        *)
(*                                                                         *)
(* A call goes to one address.  Which device has that address is found out *)
(* when the connection is made: this server, or another device, which      *)
(* answers as it likes.  A device is named by its public key.  A nonce is  *)
(* named by the call in whose exchange it was generated, so an entry of a  *)
(* nonce map is an identifier and a call.                                  *)
(*                                                                         *)
(* A call in "half" is handled by this server, which has stored the first  *)
(* nonce of two and holds the mutex of the first map; a call in "storing"  *)
(* is at that point in its client, after the answer.                       *)
(***************************************************************************)
EXTENDS Integers, SequencesExt

CONSTANTS
    Client,      \* the clients, by their public keys
    Core,        \* the device this server runs on
    Other,       \* other devices that may have the address
    Call,        \* the calls
    Ip,          \* the address of each client
    Address,     \* the address that is called
    Versions,    \* the versions that the clients may be created for
    Mix,         \* bound of the model: the sets of operations that are called side by side
    NonceLength, \* lengths of the nonces that clients send
    Capacity,    \* of each nonce map, 200
    MaxChunks,   \* bound of the model: chunks of an upload
    None

ASSUME HttpAssumption ==
    /\ Capacity \in Nat \ {0}
    /\ MaxChunks \in Nat
    /\ Core \notin Other
    /\ Versions \subseteq [Client -> {"v2", "v3"}]
    /\ NonceLength \subseteq Nat
    /\ None \notin Client \cup {"ok"}

VARIABLES
    tls, legacy,         \* the configuration of the server
    ipv4, ipv6, task,    \* the two listeners and the task that selects on them
    stop,                \* whether stop_tx has been used or dropped
    version,             \* of each client
    mix,                 \* the operations that are called
    call,                \* where each call is, and what is known of it
    stream,              \* the body of each upload
    received, generated, \* the nonce maps of the server
    theirs, ours,        \* the received and generated nonce maps of each client
    overlapped,          \* history variable: clients with two nonce exchanges at once
    cut                  \* history variable: a handler was dropped between its two maps

configVars == <<tls, legacy, version, mix>>
serverVars == <<ipv4, ipv6, task, stop>>
mapVars    == <<received, generated, theirs, ours>>
history    == <<overlapped, cut>>
vars == <<configVars, serverVars, call, stream, mapVars, history>>

Device == Other \cup {Core}

Idle == [at |-> "idle", client |-> None, op |-> None, pin |-> None, len |-> 0,
         dev |-> None, status |-> 0, parses |-> FALSE, res |-> None, key |-> None]

\* mpsc::channel(1): the sink, the slot, what was added and what reqwest has taken.
create_stream == [sink |-> "open", slot |-> <<>>, added |-> <<>>, taken |-> <<>>]

Init ==
    /\ tls \in BOOLEAN /\ legacy \in BOOLEAN
    /\ ipv4 = "binding" /\ ipv6 = "binding" /\ task = "running" /\ stop = FALSE
    /\ version \in Versions /\ mix \in Mix
    /\ call = [k \in Call |-> Idle]
    /\ stream = [k \in Call |-> create_stream]
    /\ received = <<>> /\ generated = <<>>
    /\ theirs = [c \in Client |-> <<>>] /\ ours = [c \in Client |-> <<>>]
    /\ overlapped = {} /\ cut = FALSE

V3(k) == version[call[k].client] = "v3"

-------------------------------------------------------------------------------
\* The LRU caches: the entry that was put last comes first.

\* The list without the entry of id, if there is one.
Detach(cache, id) ==
    LET at == {i \in DOMAIN cache : cache[i].id = id}
    IN  IF at = {} THEN cache ELSE RemoveAt(cache, CHOOSE i \in at : TRUE)

Put(cache, id, k) ==
    LET all == <<[id |-> id, of |-> k]>> \o Detach(cache, id)
    IN  SubSeq(all, 1, IF Len(all) > Capacity THEN Capacity ELSE Len(all))

\* A nonce of this client has 32 bytes, another implementation may send any.
validate_nonce(len) == len >= 16 /\ len <= 128

\* RequestClientInfo: the key of the client's certificate, or its address.
identifier(c) == IF tls THEN c ELSE Ip[c]

\* crypto::cert::verify_cert_from_cert; valid: in time and with a right signature.
verify_cert(key, pin, valid) == valid /\ (pin # None => key = pin)

-------------------------------------------------------------------------------
\* start_with_port: two listeners and the stop signal in one select!.

listenerRest == <<configVars, call, stream, mapVars, history>>

Serve4 ==
    /\ ipv4 = "binding" /\ task = "running"
    /\ ipv4' = "serving"
    /\ UNCHANGED <<ipv6, task, stop, listenerRest>>

Serve6 ==
    /\ ipv6 = "binding" /\ task = "running"
    /\ ipv6' = "serving"
    /\ UNCHANGED <<ipv4, task, stop, listenerRest>>

\* A listener ends when its port is taken, its certificate cannot be read or accept fails.
\* The end of the first one ends the select! and drops the other one.
Fail4 ==
    /\ ipv4 \in {"binding", "serving"} /\ task = "running"
    /\ ipv4' = "ended" /\ ipv6' = "ended" /\ task' = "over"
    /\ UNCHANGED <<stop, listenerRest>>

Fail6Ends ==  \* mutant: without the sleep
    /\ ipv6 \in {"binding", "serving"} /\ task = "running"
    /\ ipv6' = "ended" /\ ipv4' = "dropped" /\ task' = "over"
    /\ UNCHANGED <<stop, listenerRest>>

Fail6 ==
    /\ ipv6 \in {"binding", "serving"} /\ task = "running"
    /\ ipv6' = "sleeping"
    /\ UNCHANGED <<ipv4, task, stop, listenerRest>>

Stop ==
    /\ task = "running"
    /\ stop' = TRUE /\ task' = "over" /\ ipv4' = "dropped" /\ ipv6' = "ended"
    /\ UNCHANGED listenerRest

-------------------------------------------------------------------------------
\* Starting a call.

callRest == <<configVars, serverVars, mapVars>>

Begin(k, c, op, pin, len) ==
    /\ call[k].at = "idle"
    /\ op \in mix
    /\ call' = [call EXCEPT ![k] = [Idle EXCEPT !.at = "sent", !.client = c, !.op = op,
                                                !.pin = pin, !.len = len]]
    /\ UNCHANGED <<callRest, stream, cut>>

Direct(k, c, op, len) == Begin(k, c, op, None, len)

\* The keys that the answers to register gave this client.
Known(c) == {call[j].key : j \in {j \in Call : call[j].client = c /\ call[j].res = "ok"}}
              \cup {None}

NonceOpen(c) == \E j \in Call : /\ call[j].client = c /\ call[j].op = "nonce"
                                /\ call[j].at # "done"

BeginNonce(k) ==
    \E c \in Client, len \in NonceLength :
      /\ version[c] = "v3"
      /\ Direct(k, c, "nonce", len)
      /\ overlapped' = IF NonceOpen(c) THEN overlapped \cup {c} ELSE overlapped

\* The methods of RsHttpClient borrow the client shared, so they run side by side.
RsHttpClient_register(k) ==
    \E c \in Client : Direct(k, c, "register", 0) /\ UNCHANGED overlapped

RsHttpClient_prepare_upload(k) ==
    \E c \in Client : \E pin \in Known(c) :
      Begin(k, c, "prepare_upload", pin, 0) /\ UNCHANGED overlapped

RsHttpClient_upload(k) ==
    \E c \in Client : \E pin \in Known(c) :
      Begin(k, c, "upload", pin, 0) /\ UNCHANGED overlapped

RsHttpClient_cancel(k) ==
    \E c \in Client : Direct(k, c, "cancel", 0) /\ UNCHANGED overlapped

\* The operations that only LsHttpClientV2 has.
BeginV2(k) ==
    \E c \in Client, op \in {"info", "prepare_download", "download"} :
      version[c] = "v2" /\ Direct(k, c, op, 0) /\ UNCHANGED overlapped

-------------------------------------------------------------------------------
\* The body of an upload.

streamRest == <<configVars, serverVars, call, mapVars, history>>

Uploading(k) == call[k].op = "upload" /\ call[k].at \in {"sent", "accepted", "answered"}

NextChunk(k) == Len(stream[k].added) + 1

\* add waits for the slot; it fails, and adds nothing, when the call is over.
Add(k) ==
    /\ Uploading(k)
    /\ stream[k].sink = "open" /\ Len(stream[k].added) < MaxChunks
    /\ stream[k].slot = <<>>
    /\ stream' = [stream EXCEPT ![k].slot = <<NextChunk(k)>>,
                                ![k].added = Append(@, NextChunk(k))]
    /\ UNCHANGED streamRest

\* Dart drops the sink: the body ends here, whether the file does or not.
DropSink(k) ==
    /\ Uploading(k) /\ stream[k].sink = "open"
    /\ stream' = [stream EXCEPT ![k].sink = "dropped"]
    /\ UNCHANGED streamRest

\* ReceiverStream: reqwest takes the next chunk for the connection.
TakeChunk(k) ==
    /\ Uploading(k) /\ call[k].at = "accepted"
    /\ stream[k].slot # <<>>
    /\ stream' = [stream EXCEPT ![k].slot = <<>>, ![k].taken = @ \o stream[k].slot]
    /\ UNCHANGED streamRest

BodyEnded(k) == stream[k].slot = <<>> /\ stream[k].sink = "dropped"

-------------------------------------------------------------------------------
\* The connection.

Moves(k, at) == call' = [call EXCEPT ![k].at = at]

Answer(k, status, parses) ==
    call' = [call EXCEPT ![k].at = "answered", ![k].status = status, ![k].parses = parses]

\* A call that fails drops its body, and what is still in the slot with it.
Ends(k, res, key) ==
    /\ call' = [call EXCEPT ![k] = [@ EXCEPT !.at = "done", !.res = res, !.key = key,
                                             !.len = 0, !.status = 0, !.parses = FALSE]]
    /\ stream' = IF res = "ok" THEN stream ELSE [stream EXCEPT ![k] = create_stream]

\* One of the listeners accepts, and hands the connection to a task of its own,
\* which outlives them.
Accepting == "serving" \in {ipv4, ipv6}

ConnectHere(k) ==
    /\ call[k].at = "sent" /\ Accepting
    /\ call' = [call EXCEPT ![k].at = "accepted", ![k].dev = Core]
    /\ UNCHANGED <<callRest, stream, history>>

\* With TLS a client has to show a certificate, any that is valid.
verify_client_cert(c, valid) == verify_cert(c, None, valid)

HandshakeFails(k) ==
    /\ call[k].at = "sent" /\ Accepting /\ tls
    /\ \E valid \in BOOLEAN : ~verify_client_cert(call[k].client, valid)
    /\ Ends(k, "reqwest", None)
    /\ UNCHANGED <<callRest, history>>

ConnectElsewhere(k) ==
    /\ call[k].at = "sent"
    /\ \E d \in Other : call' = [call EXCEPT ![k].at = "accepted", ![k].dev = d]
    /\ UNCHANGED <<callRest, stream, history>>

\* No connection, or one that breaks before the answer is there: send().await
\* fails.  hyper drops the handler with the connection.
Breaks(k) ==
    /\ call[k].at \in {"sent", "accepted", "half", "answered"}
    /\ Ends(k, "reqwest", None)
    /\ cut' = (cut \/ call[k].at = "half")
    /\ UNCHANGED <<callRest, overlapped>>

-------------------------------------------------------------------------------
\* handle_request of this server.

AtCore(k, op, v3) ==
    /\ call[k].at = "accepted" /\ call[k].dev = Core
    /\ call[k].op = op /\ V3(k) = v3

handlerRest == <<configVars, serverVars, stream, history>>

Refuse(k, status) ==
    Answer(k, status, FALSE) /\ UNCHANGED <<handlerRest, mapVars>>

LegacyRoute(k) ==
    \E op \in {"register", "prepare_upload", "upload", "cancel"} : AtCore(k, op, FALSE)

LegacyOff(k) == LegacyRoute(k) /\ ~legacy /\ Refuse(k, 404)

\* All four legacy routes parse the body as the RegisterDto of version 3, which
\* the client of version 2 does not send.  An upload is read to its end for it.
legacy_register(k) ==
    /\ LegacyRoute(k) /\ legacy
    /\ call[k].op = "upload" => BodyEnded(k)
    /\ Refuse(k, 400)

NotFound(k) ==
    /\ \/ \E op \in {"prepare_upload", "upload", "cancel"} : AtCore(k, op, TRUE)
       \/ \E op \in {"info", "prepare_download", "download"} : AtCore(k, op, FALSE)
    /\ Refuse(k, 404)

register(k) ==
    /\ AtCore(k, "register", TRUE)
    /\ Answer(k, 200, TRUE)
    /\ UNCHANGED <<handlerRest, mapVars>>

InvalidNonce(k) ==
    /\ AtCore(k, "nonce", TRUE) /\ ~validate_nonce(call[k].len)
    /\ Refuse(k, 400)

\* received_nonce_map is locked by a handler that is in "half".
ReceivedFree == \A j \in Call : ~(call[j].at = "half")

PutReceivedUnlocks(k) ==  \* mutant: the guard is dropped before the second lock
    /\ AtCore(k, "nonce", TRUE) /\ validate_nonce(call[k].len)
    /\ received' = Put(received, identifier(call[k].client), k)
    /\ Moves(k, "half")
    /\ UNCHANGED <<handlerRest, generated, theirs, ours>>

PutReceived(k) ==
    /\ AtCore(k, "nonce", TRUE) /\ validate_nonce(call[k].len)
    /\ ReceivedFree
    /\ received' = Put(received, identifier(call[k].client), k)
    /\ Moves(k, "half")
    /\ UNCHANGED <<handlerRest, generated, theirs, ours>>

PutGenerated(k) ==
    /\ call[k].at = "half"
    /\ generated' = Put(generated, identifier(call[k].client), k)
    /\ Answer(k, 200, TRUE)
    /\ UNCHANGED <<handlerRest, received, theirs, ours>>

\* Another device.  It reads an upload to its end before it says that it has it.
ElsewhereAnswers(k) ==
    /\ call[k].at = "accepted" /\ call[k].dev \in Other
    /\ \E status \in {200, 204, 403}, parses \in BOOLEAN :
         /\ parses => status = 200
         /\ (call[k].op = "upload" /\ status = 200) => BodyEnded(k)
         /\ Answer(k, status, parses)
    /\ UNCHANGED <<handlerRest, mapVars>>

-------------------------------------------------------------------------------
\* What the clients check of an answer, in order: <<whether it holds, the error>>.

\* Without TLS there is nothing to verify.
Verified(k, valid) == <<tls => verify_cert(call[k].dev, call[k].pin, valid), "other">>
Ok200(k)           == <<call[k].status = 200, "status">>
Below400(k)        == <<call[k].status < 400, "status">>
Parsed(k)          == <<call[k].parses, "reqwest">>
Written(k)         == <<call[k].parses, "reqwest">>
NoContent(k)       == call[k].status = 204

v3_nonce(k, valid)    == <<Ok200(k), Verified(k, valid), Parsed(k)>>
v3_register(k, valid) == <<Verified(k, valid), Parsed(k)>>
v2_register(k, valid) == <<Ok200(k), Verified(k, valid), Parsed(k)>>

NoContentFirst(k, valid) ==  \* mutant: 204 is returned before the certificate is looked at
    IF NoContent(k) THEN <<>> ELSE <<Verified(k, valid), Below400(k), Parsed(k)>>

v3_prepare_upload(k, valid) ==
    <<Verified(k, valid), Below400(k)>> \o (IF NoContent(k) THEN <<>> ELSE <<Parsed(k)>>)

v2_prepare_upload(k, valid) ==
    <<Verified(k, valid), Below400(k)>> \o (IF NoContent(k) THEN <<>> ELSE <<Parsed(k)>>)

v3_upload(k, valid) == <<Verified(k, valid), Ok200(k)>>
v2_upload(k, valid) == <<Verified(k, valid), Ok200(k)>>

v3_cancel(k) == <<>>
v2_cancel(k) == <<>>

v2_info(k)             == <<Ok200(k), Parsed(k)>>
v2_prepare_download(k) == <<Ok200(k), Parsed(k)>>
v2_download(k)         == <<Ok200(k)>>

\* The body of a download is written while it arrives, and may break off.
v2_download_to_writer(k) == v2_download(k) \o <<Written(k)>>

\* LsHttpClient: the client of the version it was created for.
LsHttpClient_register(k, valid) ==
    IF V3(k) THEN v3_register(k, valid) ELSE v2_register(k, valid)

LsHttpClient_prepare_upload(k, valid) ==
    IF V3(k) THEN v3_prepare_upload(k, valid) ELSE v2_prepare_upload(k, valid)

LsHttpClient_upload(k, valid) ==
    IF V3(k) THEN v3_upload(k, valid) ELSE v2_upload(k, valid)

LsHttpClient_cancel(k) == IF V3(k) THEN v3_cancel(k) ELSE v2_cancel(k)

Checks(k, valid) ==
    CASE call[k].op = "nonce"            -> v3_nonce(k, valid)
      [] call[k].op = "register"         -> LsHttpClient_register(k, valid)
      [] call[k].op = "prepare_upload"   -> LsHttpClient_prepare_upload(k, valid)
      [] call[k].op = "upload"           -> LsHttpClient_upload(k, valid)
      [] call[k].op = "cancel"           -> LsHttpClient_cancel(k)
      [] call[k].op = "info"             -> v2_info(k)
      [] call[k].op = "prepare_download" -> v2_prepare_download(k)
      [] call[k].op = "download"         -> v2_download_to_writer(k)

\* The first check that fails names the error.
Outcome(checks) ==
    LET failed == {i \in DOMAIN checks : ~checks[i][1]}
    IN  IF failed = {} THEN "ok" ELSE checks[Min(failed)][2]

KeyOf(k) == IF call[k].op = "register" /\ tls THEN call[k].dev ELSE None

Returns(k) ==
    /\ call[k].at = "answered"
    /\ \E valid \in BOOLEAN :
         LET res == Outcome(Checks(k, valid)) IN
         /\ ~(call[k].op = "nonce" /\ res = "ok")
         /\ Ends(k, res, IF res = "ok" THEN KeyOf(k) ELSE None)
    /\ UNCHANGED <<callRest, history>>

AddresseeIdentifier(k) ==  \* mutant: the device that was meant, not the one that answered
    IF tls THEN Core ELSE Address

\* to_identifier: the key of the server's certificate, or the address.
to_identifier(k) == IF tls THEN call[k].dev ELSE Address

TheirsFree(c) == \A j \in Call : ~(call[j].at = "storing" /\ call[j].client = c)

StoreTheirs(k) ==
    LET c == call[k].client IN
    /\ call[k].at = "answered" /\ call[k].op = "nonce"
    /\ Outcome(v3_nonce(k, TRUE)) = "ok"
    /\ TheirsFree(c)
    /\ theirs' = [theirs EXCEPT ![c] = Put(@, to_identifier(k), k)]
    /\ Moves(k, "storing")
    /\ UNCHANGED <<handlerRest, received, generated, ours>>

StoreOurs(k) ==
    LET c == call[k].client IN
    /\ call[k].at = "storing"
    /\ ours' = [ours EXCEPT ![c] = Put(@, to_identifier(k), k)]
    /\ Ends(k, "ok", None)
    /\ UNCHANGED <<configVars, serverVars, history, received, generated, theirs>>

-------------------------------------------------------------------------------
Next ==
    \/ Serve4 \/ Serve6 \/ Fail4 \/ Fail6 \/ Stop
    \/ \E k \in Call :
         \/ BeginNonce(k) \/ RsHttpClient_register(k) \/ RsHttpClient_prepare_upload(k)
         \/ RsHttpClient_upload(k) \/ RsHttpClient_cancel(k) \/ BeginV2(k)
         \/ Add(k) \/ DropSink(k) \/ TakeChunk(k)
         \/ ConnectHere(k) \/ ConnectElsewhere(k) \/ HandshakeFails(k) \/ Breaks(k)
         \/ LegacyOff(k) \/ legacy_register(k) \/ NotFound(k) \/ register(k)
         \/ InvalidNonce(k) \/ PutReceived(k) \/ PutGenerated(k)
         \/ ElsewhereAnswers(k)
         \/ Returns(k) \/ StoreTheirs(k) \/ StoreOurs(k)

Spec == Init /\ [][Next]_vars

-------------------------------------------------------------------------------
\* A nonce map keeps its capacity and has one entry per identifier.
IsCache(cache) ==
    /\ Len(cache) <= Capacity
    /\ \A i, j \in DOMAIN cache : cache[i].id = cache[j].id => i = j

\* While nobody holds the lock, the two nonce maps of a server, and those of a
\* client, hold the nonces of the same exchanges in the same order, however many
\* exchanges run at once: the guard of the first map in nonce_exchange and in
\* nonce is alive until the second map is written.  Only a connection that breaks
\* exactly there can separate the two maps of the server.
Paired ==
    /\ IsCache(received)
    /\ (ReceivedFree /\ ~cut) => received = generated
    /\ \A c \in Client : IsCache(theirs[c]) /\ (TheirsFree(c) => theirs[c] = ours[c])

NonceCalls(c) == {k \in Call : call[k].client = c /\ call[k].op = "nonce"}

\* After nonce exchanges of a client that came one after the other and all
\* succeeded, the client and this server have stored the nonces of the same one,
\* the last one, unless one side has evicted it: put in nonce_exchange and in
\* nonce replaces the entry of the peer.
SequentialAgree ==
    \A c \in Client \ overlapped :
      (tls /\ \A k \in NonceCalls(c) : call[k].res = "ok") =>
        \A i \in DOMAIN theirs[c], j \in DOMAIN received :
          (theirs[c][i].id = Core /\ received[j].id = c) =>
            theirs[c][i].of = received[j].of

\* A client that passes the key it got from register to prepare_upload or upload
\* gets an Ok only from the device that answered register, whichever device has
\* the address by then (verify_cert_from_res comes before every Ok).
SameDevice ==
    \A k \in Call :
      (tls /\ call[k].res = "ok" /\ call[k].pin # None) =>
        \E j \in Call : /\ call[j].op = "register" /\ call[j].client = call[k].client
                        /\ call[j].dev = call[k].dev

\* The server stops only when it is told to or when its IPv4 listener ends: a
\* failure of IPv6 leaves IPv4 working (the sleep in start_with_port).
Ipv4KeepsServing == task = "over" => stop \/ ipv4 = "ended"

===============================================================================
