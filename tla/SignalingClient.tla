--------------------------- MODULE SignalingClient ---------------------------
(***************************************************************************)
(* The client of the signaling server (core/src/webrtc/signaling.rs) and   *)
(* the exchange of session descriptions over it (send_offer and            *)
(* accept_offer of core/src/webrtc/webrtc.rs up to SdpExchanged).          *)
(*                                                                         *)
(* connect spawns a write task and a read task and waits for the Hello;    *)
(* start_listener spawns a third task, which calls the handler of an       *)
(* answer and passes every message on.  The tasks are joined by bounded    *)
(* channels, and every awaited send or receive is a step.                  *)
(*                                                                         *)
(* The application is one of two: the bridge to Dart (connect in           *)
(* app/rust/src/api/webrtc.rs) always reads the next message ("stream");   *)
(* webrtc_test in core/src/main.rs runs the whole transfer before it reads *)
(* the next message ("inline").                                            *)
(***************************************************************************)
EXTENDS Integers, SequencesExt

CONSTANTS
    Session,           \* the session ids of this client's offers
    Consumer,          \* the applications to consider: "stream", "inline"
    ReceiveCapacity,   \* of mpsc::channel(1) between read task and listener
    ListenerCapacity,  \* of mpsc::channel(16) between listener and application
    MaxEarly,          \* bound of the model: messages the server sends before the Hello
    MaxMessages        \* bound of the model: messages other than Hello and Answer

ASSUME ClientAssumption ==
    /\ Consumer \subseteq {"stream", "inline"}
    /\ ReceiveCapacity \in Nat \ {0}
    /\ ListenerCapacity \in Nat \ {0}
    /\ MaxEarly \in Nat
    /\ MaxMessages \in Nat

VARIABLES
    consumer,   \* which application this is
    socket,     \* the websocket, as the server and the network see it
    sent,       \* history variable: what the server has sent
    incoming,   \* what the read task has not read yet
    reader,     \* where the read task is, and the message it holds
    greeting,   \* whether the client_tx channel holds the client
    receive_q,  \* the channel receive_tx
    connect,    \* SignalingConnection::connect
    listener,   \* where the listener task is, and the message it holds
    listen_q,   \* the channel between listener and application
    got,        \* the messages the application has received
    app,        \* what the application does
    accepting,  \* how many accept_offer wait to send their answer
    send_q,     \* the channel of one slot to the write task
    writer,     \* where the write task is, and the message it holds
    offered,    \* the sessions whose offer has reached the server
    offer,      \* where send_offer is, for each session
    on_answer,  \* the sessions with a handler in the on_answer map
    answers     \* the sessions whose tx_answer has been used

serverVars == <<socket, sent, incoming>>
readVars   == <<reader, greeting, receive_q, connect>>
listenVars == <<listener, listen_q>>
appVars    == <<consumer, got, app, accepting>>
writeVars  == <<send_q, writer, offered>>
offerVars  == <<offer, on_answer, answers>>
vars == <<serverVars, readVars, listenVars, appVars, writeVars, offerVars>>

------------------------------------------------------------------------------
\* Messages of the server.  Update, Left and Error are passed on like Join.

Hello     == [type |-> "Hello"]
Join      == [type |-> "Join"]
Offer     == [type |-> "Offer"]
Answer(s) == [type |-> "Answer", session |-> s]

WsServerMessage == {Hello, Join, Offer} \cup {Answer(s) : s \in Session}

\* Messages of the client.
OfferTo(s) == [type |-> "Offer", session |-> s]
AnswerBack == [type |-> "Answer"]
Update     == [type |-> "Update"]

At(where)           == [at |-> where, msg |-> <<>>]
Holding(where, m)   == [at |-> where, msg |-> <<m>>]

Init ==
    /\ consumer \in Consumer
    /\ socket = "open" /\ sent = <<>> /\ incoming = <<>>
    /\ reader = At("read") /\ greeting = FALSE /\ receive_q = <<>> /\ connect = "waiting"
    /\ listener = At("off") /\ listen_q = <<>>
    /\ got = <<>> /\ app = "connecting" /\ accepting = 0
    /\ send_q = <<>> /\ writer = At("idle") /\ offered = {}
    /\ offer = [s \in Session |-> "idle"] /\ on_answer = {} /\ answers = {}

------------------------------------------------------------------------------
\* The server and the peers behind it.

Sends(m) ==
    /\ socket = "open"
    /\ sent' = Append(sent, m)
    /\ incoming' = Append(incoming, m)
    /\ UNCHANGED <<socket, readVars, listenVars, appVars, writeVars, offerVars>>

Others == SelectSeq(sent, LAMBDA m : m.type \in {"Join", "Offer"})

Greeted == Contains(sent, Hello)

\* A message of another peer can overtake the Hello (SignalingServer).
ServerSends ==
    \E m \in {Join, Offer} :
      /\ Len(Others) < MaxMessages
      /\ ~Greeted => Len(sent) < MaxEarly
      /\ Sends(m)

ServerGreets == ~Greeted /\ Sends(Hello)

PeerAnswers ==
    \E s \in offered : ~Contains(sent, Answer(s)) /\ Sends(Answer(s))

SocketCloses ==
    /\ socket = "open"
    /\ socket' = "closed"
    /\ UNCHANGED <<sent, incoming, readVars, listenVars, appVars, writeVars, offerVars>>

------------------------------------------------------------------------------
\* The read task and connect.

\* Whether anybody can still take messages out of receive_q.
ReceiverAlive == listener.at # "panicked"

\* The Hello goes to connect first, every message to the listener.
ReaderReads ==
    /\ reader.at = "read"
    /\ incoming # <<>>
    /\ LET m == Head(incoming) IN
         reader' = IF m = Hello THEN Holding("client", m) ELSE Holding("receive", m)
    /\ incoming' = Tail(incoming)
    /\ UNCHANGED <<socket, sent, greeting, receive_q, connect, listenVars, appVars,
                   writeVars, offerVars>>

ReaderGreetsLast == \* mutant
    /\ reader.at = "client"
    /\ Len(receive_q) < ReceiveCapacity
    /\ receive_q' = receive_q \o reader.msg
    /\ greeting' = TRUE
    /\ reader' = At("read")
    /\ UNCHANGED <<serverVars, connect, listenVars, appVars, writeVars, offerVars>>

ReaderGreets ==
    /\ reader.at = "client"
    /\ greeting' = TRUE
    /\ reader' = [reader EXCEPT !.at = "receive"]
    /\ UNCHANGED <<serverVars, receive_q, connect, listenVars, appVars, writeVars, offerVars>>

ReaderTriesToForward == \* mutant
    /\ reader.at = "receive"
    /\ receive_q' = IF Len(receive_q) < ReceiveCapacity THEN receive_q \o reader.msg ELSE receive_q
    /\ reader' = At("read")
    /\ UNCHANGED <<serverVars, greeting, connect, listenVars, appVars, writeVars, offerVars>>

\* A message that nobody can receive any more is dropped.
ReaderForwards ==
    /\ reader.at = "receive"
    /\ ReceiverAlive => Len(receive_q) < ReceiveCapacity
    /\ receive_q' = IF ReceiverAlive THEN receive_q \o reader.msg ELSE receive_q
    /\ reader' = At("read")
    /\ UNCHANGED <<serverVars, greeting, connect, listenVars, appVars, writeVars, offerVars>>

ReaderEnds ==
    /\ reader.at = "read"
    /\ incoming = <<>> /\ socket = "closed"
    /\ reader' = At("ended")
    /\ UNCHANGED <<serverVars, greeting, receive_q, connect, listenVars, appVars,
                   writeVars, offerVars>>

\* connect returns and start_listener is called without an await between.
ConnectReturns ==
    /\ connect = "waiting" /\ greeting
    /\ connect' = "returned"
    /\ listener' = At("recv")
    /\ app' = IF consumer = "stream" THEN "callback" ELSE "recv"
    /\ UNCHANGED <<serverVars, reader, greeting, receive_q, listen_q, consumer, got,
                   accepting, writeVars, offerVars>>

\* client_rx.recv().await.unwrap() when the socket ends without a Hello.
ConnectPanics ==
    /\ connect = "waiting" /\ ~greeting
    /\ reader.at = "ended"
    /\ connect' = "panicked"
    /\ UNCHANGED <<serverVars, reader, greeting, receive_q, listenVars, appVars, writeVars,
                   offerVars>>

------------------------------------------------------------------------------
\* The listener task.

CallHandlerUnheard(m) == \* mutant
    /\ on_answer' = on_answer \ {s \in on_answer : m = Answer(s)}
    /\ UNCHANGED answers

\* A handler is removed when it is called; an answer without one is not kept.
CallHandler(m) ==
    LET called == {s \in on_answer : m = Answer(s)} IN
    /\ on_answer' = on_answer \ called
    /\ answers' = answers \cup called

ListenerReceives ==
    /\ listener.at = "recv"
    /\ receive_q # <<>>
    /\ CallHandler(Head(receive_q))
    /\ listener' = Holding("send", Head(receive_q))
    /\ receive_q' = Tail(receive_q)
    /\ UNCHANGED <<serverVars, reader, greeting, connect, listen_q, appVars, writeVars, offer>>

ListenerForwards ==
    /\ listener.at = "send"
    /\ app # "ended"
    /\ Len(listen_q) < ListenerCapacity
    /\ listen_q' = listen_q \o listener.msg
    /\ listener' = At("recv")
    /\ UNCHANGED <<serverVars, readVars, appVars, writeVars, offerVars>>

\* tx.send(message).await.unwrap() when the application has dropped rx.
ListenerPanics ==
    /\ listener.at = "send"
    /\ app = "ended"
    /\ listener' = At("panicked")
    /\ UNCHANGED <<serverVars, readVars, listen_q, appVars, writeVars, offerVars>>

ListenerKeepsPolling == \* mutant
    /\ listener.at = "recv"
    /\ receive_q = <<>> /\ reader.at = "ended"
    /\ UNCHANGED vars

ListenerEnds ==
    /\ listener.at = "recv"
    /\ receive_q = <<>> /\ reader.at = "ended"
    /\ listener' = At("ended")
    /\ UNCHANGED <<serverVars, readVars, listen_q, appVars, writeVars, offerVars>>

------------------------------------------------------------------------------
\* The application.

\* The stream of the bridge goes on at once; webrtc_test first runs
\* send_handler for a peer that joins and receive_handler for an offer.
Handle(m) ==
    /\ accepting' = IF m = Offer THEN accepting + 1 ELSE accepting
    /\ IF consumer = "inline" /\ m = Join
       THEN \E s \in Session :
              /\ offer[s] = "idle"
              /\ offer' = [offer EXCEPT ![s] = "offering"]
              /\ app' = "sending"
       ELSE /\ app' = IF consumer = "inline" /\ m = Offer THEN "receiving" ELSE "recv"
            /\ UNCHANGED offer

\* on_connection(..).await of the bridge.
CallbackReturns ==
    /\ app = "callback"
    /\ app' = "recv"
    /\ UNCHANGED <<serverVars, readVars, listenVars, consumer, got, accepting, writeVars,
                   offerVars>>

AppReceives ==
    /\ app = "recv"
    /\ listen_q # <<>>
    /\ Handle(Head(listen_q))
    /\ got' = Append(got, Head(listen_q))
    /\ listen_q' = Tail(listen_q)
    /\ UNCHANGED <<serverVars, readVars, listener, consumer, writeVars, on_answer, answers>>

AppEnds ==
    /\ app = "recv"
    /\ listen_q = <<>> /\ listener.at = "ended"
    /\ app' = "ended"
    /\ UNCHANGED <<serverVars, readVars, listenVars, consumer, got, accepting, writeVars,
                   offerVars>>

\* receive_handler goes on with the loop, send_handler ends webrtc_test.
HandlerReturns ==
    /\ \/ app = "receiving" /\ accepting = 0 /\ app' = "recv"
       \/ /\ app = "sending"
          /\ \A s \in Session : offer[s] \in {"idle", "exchanged", "failed"}
          /\ app' = "ended"
    /\ UNCHANGED <<serverVars, readVars, listenVars, consumer, got, accepting, writeVars,
                   offerVars>>

\* LsSignalingConnection::send_offer, called by the user of the bridge.
SendOffer(s) ==
    /\ consumer = "stream" /\ connect = "returned"
    /\ offer[s] = "idle"
    /\ offer' = [offer EXCEPT ![s] = "offering"]
    /\ UNCHANGED <<serverVars, readVars, listenVars, appVars, writeVars, on_answer, answers>>

------------------------------------------------------------------------------
\* send_offer and accept_offer, up to RTCStatus::SdpExchanged.

\* tx.send fails once the write task has dropped its receiver.
CanQueue == writer.at # "ended" /\ send_q = <<>>

update_info ==
    /\ CanQueue
    /\ send_q' = <<Update>>
    /\ UNCHANGED <<serverVars, readVars, listenVars, appVars, writer, offered, offerVars>>

\* Dart has the connection from the callback on.
LsSignalingConnection_update_info == consumer = "stream" /\ connect = "returned" /\ update_info

OfferQueued(s) ==
    /\ offer[s] = "offering"
    /\ CanQueue
    /\ send_q' = <<OfferTo(s)>>
    /\ offer' = [offer EXCEPT ![s] = "registering"]
    /\ UNCHANGED <<serverVars, readVars, listenVars, appVars, writer, offered, on_answer,
                   answers>>

\* No session description could be made, or tx.send fails.
OfferFails(s) ==
    /\ offer[s] = "offering"
    /\ offer' = [offer EXCEPT ![s] = "failed"]
    /\ UNCHANGED <<serverVars, readVars, listenVars, appVars, writeVars, on_answer, answers>>

\* The handler is registered after the offer is on its way.
RegisterHandler(s) ==
    /\ offer[s] = "registering"
    /\ on_answer' = on_answer \cup {s}
    /\ offer' = [offer EXCEPT ![s] = "waiting"]
    /\ UNCHANGED <<serverVars, readVars, listenVars, appVars, writeVars, answers>>

OfferAnswered(s) ==
    /\ offer[s] = "waiting"
    /\ s \in answers
    /\ offer' = [offer EXCEPT ![s] = "exchanged"]
    /\ UNCHANGED <<serverVars, readVars, listenVars, appVars, writeVars, on_answer, answers>>

AnswerQueued ==
    /\ accepting > 0
    /\ CanQueue
    /\ send_q' = <<AnswerBack>>
    /\ accepting' = accepting - 1
    /\ UNCHANGED <<serverVars, readVars, listenVars, consumer, got, app, writer, offered,
                   offerVars>>

AnswerFails ==
    /\ accepting > 0
    /\ accepting' = accepting - 1
    /\ UNCHANGED <<serverVars, readVars, listenVars, consumer, got, app, writeVars, offerVars>>

------------------------------------------------------------------------------
\* The write task: one message at a time, a ping after two minutes of silence.

WriterTakes ==
    /\ writer.at = "idle"
    /\ send_q # <<>>
    /\ writer' = Holding("write", Head(send_q))
    /\ send_q' = Tail(send_q)
    /\ UNCHANGED <<serverVars, readVars, listenVars, appVars, offered, offerVars>>

WriterWrites ==
    /\ writer.at = "write"
    /\ socket = "open"
    /\ offered' = offered \cup {s \in Session : writer.msg = <<OfferTo(s)>>}
    /\ writer' = At("idle")
    /\ UNCHANGED <<serverVars, readVars, listenVars, appVars, send_q, offerVars>>

\* The two minutes run out while a message that was taken waits for the
\* socket: the message is gone, and the ping that follows succeeds.
WriteTimesOut ==
    /\ writer.at = "write"
    /\ socket = "open"
    /\ writer' = At("idle")
    /\ UNCHANGED <<serverVars, readVars, listenVars, appVars, send_q, offered, offerVars>>

\* A write or a ping on a closed socket.
WriterEnds ==
    /\ writer.at # "ended"
    /\ socket = "closed"
    /\ writer' = At("ended")
    /\ send_q' = <<>>
    /\ UNCHANGED <<serverVars, readVars, listenVars, appVars, offered, offerVars>>

\* send_rx.recv() is None: webrtc_test has dropped the connection.
WriterUnused ==
    /\ writer.at = "idle" /\ send_q = <<>>
    /\ consumer = "inline" /\ app = "ended"
    /\ writer' = At("ended")
    /\ UNCHANGED <<serverVars, readVars, listenVars, appVars, send_q, offered, offerVars>>

------------------------------------------------------------------------------

Read   == ReaderReads \/ ReaderGreets \/ ReaderForwards \/ ReaderEnds
Listen == ListenerReceives \/ ListenerForwards \/ ListenerPanics \/ ListenerEnds
Run    == CallbackReturns \/ AppReceives \/ AppEnds
Write  == WriterTakes \/ WriterWrites \/ WriteTimesOut \/ WriterEnds \/ WriterUnused
Offering(s) == OfferQueued(s) \/ OfferFails(s) \/ RegisterHandler(s) \/ OfferAnswered(s)
Accepting   == AnswerQueued \/ AnswerFails

Next ==
    \/ ServerSends \/ ServerGreets \/ PeerAnswers \/ SocketCloses
    \/ Read \/ ConnectReturns \/ ConnectPanics \/ Listen \/ Run \/ HandlerReturns \/ Write
    \/ LsSignalingConnection_update_info
    \/ \E s \in Session : SendOffer(s) \/ Offering(s)
    \/ Accepting

Spec == Init /\ [][Next]_vars

\* Every spawned task runs; nothing is assumed of the server, of the peers,
\* of the user and of the length of a transfer.
Fairness ==
    /\ WF_vars(Read) /\ WF_vars(ConnectReturns \/ ConnectPanics)
    /\ WF_vars(Listen) /\ WF_vars(Run) /\ WF_vars(Write)
    /\ \A s \in Session : WF_vars(Offering(s))
    /\ WF_vars(Accepting)

FairSpec == Spec /\ Fairness

------------------------------------------------------------------------------
\* Properties.

\* What is in the pipeline between the socket and the application.
Pipeline == listen_q \o listener.msg \o receive_q \o reader.msg \o incoming

\* No message is lost, duplicated or reordered between the socket and the
\* application, whatever the three tasks and their channels do, until
\* webrtc_test stops listening; the stream of the bridge ends with everything
\* delivered.
InOrder ==
    (ReceiverAlive /\ (consumer = "inline" => app # "ended")) => got \o Pipeline = sent

\* Messages on their way to the listener, and those it must pass on before it
\* takes m.
ToListener == receive_q \o reader.msg \o incoming
Before(m)  ==
    listen_q \o listener.msg \o SubSeq(ToListener, 1, SelectInSeq(ToListener, LAMBDA x : x = m) - 1)

\* An answer the listener has not taken when the handler is registered reaches
\* the waiting send_offer: always when the application keeps reading, and in
\* webrtc_test, which reads nothing while send_handler runs, when what comes
\* before the answer fits into the channel to the application.
AnswerWillReach(s) ==
    /\ s \in on_answer
    /\ Contains(ToListener, Answer(s))
    /\ consumer = "inline" => Len(Before(Answer(s))) <= ListenerCapacity

AnsweredOfferGoesOn ==
    \A s \in Session : AnswerWillReach(s) ~> offer[s] = "exchanged"

\* connect returns once the server has greeted, although up to
\* ReceiveCapacity messages came before the Hello and nobody reads them yet.
GreetedReturns ==
    (\E i \in 1..(ReceiveCapacity + 1) : i \in DOMAIN sent /\ sent[i] = Hello)
        ~> connect = "returned"

\* When the socket closes, the end goes through all three tasks and the stream
\* of the bridge ends, with every message in front of it delivered (InOrder).
ClosedEnds ==
    (consumer = "stream" /\ connect = "returned" /\ socket = "closed") ~> app = "ended"
==============================================================================
