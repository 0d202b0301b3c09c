------------------------ MODULE SignalingClientProofs ------------------------
(***************************************************************************)
(* What TLAPS proves of SignalingClient for every set of sessions, every   *)
(* capacity of the channels and every number of messages.                  *)
(***************************************************************************)
EXTENDS SignalingClient, SequenceTheorems, TLAPS

Msgs == Seq(WsServerMessage)

\* Where the read task and the listener task are, and the message each holds.
Where == {"read", "client", "receive", "off", "recv", "send", "ended", "panicked"}

Held == [at : Where, msg : Msgs]

TypeOK ==
    /\ sent \in Msgs /\ incoming \in Msgs
    /\ receive_q \in Msgs /\ listen_q \in Msgs /\ got \in Msgs
    /\ reader \in Held /\ listener \in Held
    /\ offered \subseteq Session

\* Before connect returns nobody listens and the application does nothing.
Shape ==
    /\ reader.at = "read" => reader.msg = <<>>
    /\ listener.at = "recv" => listener.msg = <<>>
    /\ connect = "waiting" => app = "connecting" /\ listener = At("off")

IInv == TypeOK /\ Shape /\ InOrder

-----------------------------------------------------------------------------
\* Sequences.

LEMMA HeadFirst ==
  ASSUME NEW S, NEW s \in Seq(S), s # <<>>
  PROVE  Head(s) \in S /\ Tail(s) \in Seq(S) /\ <<Head(s)>> \o Tail(s) = s
<1>1. Head(s) \in S /\ Tail(s) \in Seq(S)
  BY HeadTailProperties
<1> DEFINE t == Tail(s)
           h == <<Head(s)>>
<1>2. /\ Len(s) \in Nat \ {0} /\ Len(t) = Len(s) - 1
      /\ \A i \in 1 .. Len(t) : t[i] = s[i + 1]
  BY HeadTailProperties, LenProperties, EmptySeq
<1>3. h \in Seq(S) /\ Len(h) = 1 /\ h[1] = s[1]
  BY <1>1
<1> HIDE DEF t, h
<1>4. t \in Seq(S)
  BY <1>1 DEF t
<1>5. /\ h \o t \in Seq(S) /\ Len(h \o t) = Len(h) + Len(t)
      /\ \A i \in 1 .. Len(h) + Len(t) : (h \o t)[i] = IF i <= Len(h) THEN h[i] ELSE t[i - Len(h)]
  BY <1>3, <1>4, ConcatProperties
<1>6. Len(h \o t) = Len(s)
  BY <1>2, <1>3, <1>5
<1>7. \A i \in 1 .. Len(s) : (h \o t)[i] = s[i]
  <2> SUFFICES ASSUME NEW i \in 1 .. Len(s) PROVE (h \o t)[i] = s[i]
    OBVIOUS
  <2>1. CASE i = 1
    BY <2>1, <1>2, <1>3, <1>5
  <2>2. CASE i # 1
    <3>1. i - 1 \in 1 .. Len(t) /\ i \in 1 .. Len(h) + Len(t) /\ ~(i <= Len(h)) /\ i - 1 + 1 = i
      BY <2>2, <1>2, <1>3
    <3>2. (h \o t)[i] = t[i - 1]
      BY <3>1, <1>3, <1>5
    <3>3. t[i - 1] = s[i]
      BY <3>1, <1>2
    <3>4. QED BY <3>2, <3>3
  <2>3. QED BY <2>1, <2>2
<1>8. h \o t = s
  BY <1>5, <1>6, <1>7, SeqEqual
<1>9. QED BY <1>1, <1>8 DEF h, t

\* Concatenation, as something the provers know only these facts of.
Cat(x, y) == x \o y

LEMMA CatAssociative ==
  ASSUME NEW x \in Msgs, NEW y \in Msgs, NEW z \in Msgs
  PROVE  Cat(Cat(x, y), z) = Cat(x, Cat(y, z))
BY ConcatAssociative DEF Cat, Msgs

LEMMA CatFacts ==
         /\ <<>> \in Msgs
         /\ \A x, y \in Msgs : Cat(x, y) \in Msgs
         /\ \A x \in Msgs : Cat(x, <<>>) = x /\ Cat(<<>>, x) = x
         /\ \A x, y, z \in Msgs : Cat(Cat(x, y), z) = Cat(x, Cat(y, z))
<1>1. <<>> \in Msgs
  BY EmptySeq DEF Msgs
<1>2. \A x, y \in Msgs : Cat(x, y) \in Msgs
  BY ConcatProperties DEF Cat, Msgs
<1>3. \A x \in Msgs : Cat(x, <<>>) = x /\ Cat(<<>>, x) = x
  BY ConcatEmptySeq DEF Cat, Msgs
<1>4. QED BY <1>1, <1>2, <1>3, CatAssociative

\* Everything between the server and the application, in the order of arrival.
Line(g, a, b, c, d, e) == Cat(g, Cat(a, Cat(b, Cat(c, Cat(d, e)))))

LEMMA FlowRead ==
  ASSUME NEW g, NEW a, NEW b, NEW c, NEW u \in Msgs, NEW e \in Msgs
  PROVE  Line(g, a, b, c, u, e) = Line(g, a, b, c, <<>>, Cat(u, e))
<1>1. Cat(<<>>, Cat(u, e)) = Cat(u, e)
  BY CatFacts
<1>2. QED BY <1>1 DEF Line

LEMMA FlowForward ==
  ASSUME NEW g, NEW a, NEW b, NEW c \in Msgs, NEW d \in Msgs, NEW e \in Msgs
  PROVE  Line(g, a, b, Cat(c, d), <<>>, e) = Line(g, a, b, c, d, e)
<1>1. Cat(Cat(c, d), e) = Cat(c, Cat(d, e)) /\ Cat(<<>>, e) = e
  BY CatFacts
<1>2. QED BY <1>1 DEF Line

LEMMA FlowTake ==
  ASSUME NEW g, NEW a, NEW u \in Msgs, NEW c \in Msgs, NEW d \in Msgs, NEW e \in Msgs
  PROVE  Line(g, a, u, c, d, e) = Line(g, a, <<>>, Cat(u, c), d, e)
<1> DEFINE r == Cat(d, e)
<1>1. r \in Msgs /\ Cat(c, r) \in Msgs /\ Cat(u, Cat(c, r)) \in Msgs
  BY CatFacts
<1> HIDE DEF r
<1>2. Cat(Cat(u, c), r) = Cat(u, Cat(c, r)) /\ Cat(<<>>, Cat(u, Cat(c, r))) = Cat(u, Cat(c, r))
  BY <1>1, CatFacts
<1>3. QED BY <1>2 DEF Line, r

LEMMA FlowOut ==
  ASSUME NEW g, NEW a \in Msgs, NEW b \in Msgs, NEW c \in Msgs, NEW d \in Msgs,
         NEW e \in Msgs
  PROVE  Line(g, Cat(a, b), <<>>, c, d, e) = Line(g, a, b, c, d, e)
<1> DEFINE r == Cat(c, Cat(d, e))
<1>1. r \in Msgs
  BY CatFacts
<1> HIDE DEF r
<1>2. Cat(Cat(a, b), r) = Cat(a, Cat(b, r)) /\ Cat(<<>>, r) = r
  BY <1>1, CatFacts
<1>3. QED BY <1>2 DEF Line, r

-----------------------------------------------------------------------------
\* The steps.

\* The listener is there, and webrtc_test has not stopped listening.
Listening == ReceiverAlive /\ (consumer = "inline" => app # "ended")

Now == Line(got, listen_q, listener.msg, receive_q, reader.msg, incoming)

LEMMA HeldType == \A h \in Held : h.msg \in Msgs
BY DEF Held

LEMMA AtType ==
  \A at \in Where : At(at) \in Held /\ At(at).at = at /\ At(at).msg = <<>>
<1>1. <<>> \in Msgs
  BY CatFacts
<1>2. QED BY <1>1 DEF At, Held

LEMMA One == \A m \in WsServerMessage : <<m>> \in Msgs
BY DEF Msgs

LEMMA HoldingType ==
  \A at \in Where, m \in WsServerMessage :
    Holding(at, m) \in Held /\ Holding(at, m).at = at /\ Holding(at, m).msg = <<m>>
BY One DEF Holding, Held

LEMMA Places ==
  /\ "read" \in Where /\ "client" \in Where /\ "receive" \in Where /\ "off" \in Where
  /\ "recv" \in Where /\ "send" \in Where /\ "ended" \in Where /\ "panicked" \in Where
BY DEF Where

LEMMA GreetsType ==
  ASSUME NEW h \in Held, NEW n, n = [h EXCEPT !.at = "receive"]
  PROVE  n \in Held /\ n.at = "receive" /\ n.msg = h.msg
BY Places DEF Held

LEMMA OnTheLine == TypeOK => (InOrder <=> (Listening => Now = sent))
<1> SUFFICES ASSUME TypeOK PROVE InOrder <=> (Listening => Now = sent)
  OBVIOUS
<1>1. /\ got \in Msgs /\ listen_q \in Msgs /\ listener.msg \in Msgs
      /\ receive_q \in Msgs /\ reader.msg \in Msgs /\ incoming \in Msgs
  BY HeldType DEF TypeOK
<1>2. got \o (listen_q \o listener.msg \o receive_q \o reader.msg \o incoming) = Now
  <2> DEFINE l == listener.msg
             r == reader.msg
  <2>1. l \in Msgs /\ r \in Msgs
    BY <1>1
  <2> HIDE DEF l, r
  <2>2. Cat(listen_q, l) \in Msgs /\ Cat(r, incoming) \in Msgs
    BY <1>1, <2>1, CatFacts
  <2>3. Cat(Cat(listen_q, l), receive_q) \in Msgs /\ Cat(receive_q, Cat(r, incoming)) \in Msgs
    BY <1>1, <2>2, CatFacts
  <2>4. Cat(Cat(Cat(Cat(listen_q, l), receive_q), r), incoming)
          = Cat(Cat(Cat(listen_q, l), receive_q), Cat(r, incoming))
    BY <1>1, <2>1, <2>3, CatFacts
  <2>5. Cat(Cat(Cat(listen_q, l), receive_q), Cat(r, incoming))
          = Cat(Cat(listen_q, l), Cat(receive_q, Cat(r, incoming)))
    BY <1>1, <2>2, CatFacts
  <2>6. Cat(Cat(listen_q, l), Cat(receive_q, Cat(r, incoming)))
          = Cat(listen_q, Cat(l, Cat(receive_q, Cat(r, incoming))))
    BY <1>1, <2>1, <2>3, CatFacts
  <2>7. got \o (listen_q \o l \o receive_q \o r \o incoming)
          = Cat(got, Cat(Cat(Cat(Cat(listen_q, l), receive_q), r), incoming))
    BY Zenon DEF Cat
  <2>8. QED BY <2>4, <2>5, <2>6, <2>7, Zenon DEF Line, Now, l, r
<1>3. got \o Pipeline = Now
  BY <1>2, Zenon DEF Pipeline
<1>4. QED BY <1>3, Zenon DEF InOrder, Listening

\* What a step has to show.
Good == TypeOK' /\ Shape' /\ (Listening' => Listening) /\ (Listening' => Now' = sent')

LEMMA SendsStep ==
  ASSUME TypeOK, Shape, Listening => Now = sent, NEW m \in WsServerMessage, Sends(m)
  PROVE  Good
<1>1. /\ sent' = Append(sent, m) /\ incoming' = Append(incoming, m)
      /\ UNCHANGED <<got, listen_q, listener, receive_q, reader, connect, app, consumer, offered>>
  BY DEF Sends, readVars, listenVars, appVars, writeVars
<1>2. sent' \in Msgs /\ incoming' \in Msgs
  BY <1>1, AppendProperties DEF TypeOK, Msgs
<1>3. TypeOK' /\ Shape' /\ (Listening' => Listening)
  BY <1>1, <1>2 DEF TypeOK, Shape, Listening, ReceiverAlive
<1>4. /\ got \in Msgs /\ listen_q \in Msgs /\ listener.msg \in Msgs
      /\ receive_q \in Msgs /\ reader.msg \in Msgs /\ incoming \in Msgs
      /\ sent \in Msgs /\ <<m>> \in Msgs
  BY One, HeldType DEF TypeOK
<1>5. sent' = Cat(sent, <<m>>) /\ incoming' = Cat(incoming, <<m>>)
  BY <1>1, <1>4, AppendIsConcat DEF Cat, Msgs
<1>6. Line(got, listen_q, listener.msg, receive_q, reader.msg, Cat(incoming, <<m>>)) = Cat(Now, <<m>>)
  <2> DEFINE l == listener.msg
             r == reader.msg
             u == <<m>>
  <2>1. l \in Msgs /\ r \in Msgs /\ u \in Msgs
    BY <1>4
  <2> HIDE DEF l, r, u
  <2> DEFINE e1 == Cat(r, incoming)
             e2 == Cat(receive_q, e1)
             e3 == Cat(l, e2)
             e4 == Cat(listen_q, e3)
  <2>2. e1 \in Msgs
    BY <1>4, <2>1, CatFacts
  <2>3. Cat(r, Cat(incoming, u)) = Cat(e1, u)
    BY <1>4, <2>1, CatFacts
  <2> HIDE DEF e1
  <2>4. e2 \in Msgs
    BY <1>4, <2>2, CatFacts
  <2>5. Cat(receive_q, Cat(e1, u)) = Cat(e2, u)
    BY <1>4, <2>1, <2>2, CatFacts
  <2> HIDE DEF e2
  <2>6. e3 \in Msgs
    BY <2>1, <2>4, CatFacts
  <2>7. Cat(l, Cat(e2, u)) = Cat(e3, u)
    BY <2>1, <2>4, CatFacts
  <2> HIDE DEF e3
  <2>8. e4 \in Msgs
    BY <1>4, <2>6, CatFacts
  <2>9. Cat(listen_q, Cat(e3, u)) = Cat(e4, u)
    BY <1>4, <2>1, <2>6, CatFacts
  <2> HIDE DEF e4
  <2>10. Cat(got, Cat(e4, u)) = Cat(Cat(got, e4), u)
    BY <1>4, <2>1, <2>8, CatFacts
  <2>11. Line(got, listen_q, l, receive_q, r, Cat(incoming, u)) = Cat(got, Cat(e4, u))
    BY <2>3, <2>5, <2>7, <2>9, Zenon DEF Line
  <2>12. Line(got, listen_q, l, receive_q, r, incoming) = Cat(got, e4)
    BY Zenon DEF Line, e1, e2, e3, e4
  <2>13. QED BY <2>10, <2>11, <2>12, Zenon DEF Now, l, r, u
<1>7. Now' = Cat(Now, <<m>>)
  BY <1>1, <1>5, <1>6 DEF Now
<1>8. QED BY <1>3, <1>5, <1>7 DEF Good

LEMMA ReaderReadsStep ==
  ASSUME TypeOK, Shape, Listening => Now = sent, ReaderReads
  PROVE  Good
<1> DEFINE m == Head(incoming)
           t == Tail(incoming)
<1>1. /\ incoming # <<>> /\ reader.at = "read" /\ incoming' = t
      /\ reader' = Holding("client", m) \/ reader' = Holding("receive", m)
      /\ UNCHANGED <<got, listen_q, listener, receive_q, connect, app, consumer, offered, sent>>
  BY DEF ReaderReads, listenVars, appVars, writeVars
<1>2. incoming \in Msgs /\ reader.msg = <<>>
  BY <1>1 DEF TypeOK, Shape
<1>3. m \in WsServerMessage /\ t \in Msgs /\ Cat(<<m>>, t) = incoming
  BY <1>1, <1>2, HeadFirst DEF Cat, Msgs
<1>4. reader' \in Held /\ reader'.msg = <<m>> /\ reader'.at # "read"
  BY <1>1, <1>3, HoldingType, Places
<1>5. TypeOK' /\ Shape' /\ (Listening' => Listening)
  BY <1>1, <1>3, <1>4 DEF TypeOK, Shape, Listening, ReceiverAlive
<1>6. /\ got \in Msgs /\ listen_q \in Msgs /\ listener.msg \in Msgs
      /\ receive_q \in Msgs /\ <<m>> \in Msgs
  BY <1>3, One, HeldType DEF TypeOK
<1> HIDE DEF m, t
<1>7. Line(got, listen_q, listener.msg, receive_q, <<m>>, t)
        = Line(got, listen_q, listener.msg, receive_q, <<>>, Cat(<<m>>, t))
  BY <1>3, <1>6, FlowRead
<1>8. Now' = Now
  BY <1>1, <1>2, <1>3, <1>4, <1>7 DEF Now
<1>9. QED BY <1>1, <1>5, <1>8 DEF Good

LEMMA ReaderStep ==
  ASSUME TypeOK, Shape, Listening => Now = sent, ReaderGreets \/ ReaderForwards \/ ReaderEnds
  PROVE  Good
<1>0. /\ got \in Msgs /\ listen_q \in Msgs /\ listener.msg \in Msgs
      /\ receive_q \in Msgs /\ reader.msg \in Msgs /\ incoming \in Msgs /\ reader \in Held
  BY HeldType DEF TypeOK
<1>1. UNCHANGED <<got, listen_q, listener, incoming, connect, app, consumer, offered, sent>>
  BY DEF ReaderGreets, ReaderForwards, ReaderEnds, serverVars, listenVars, appVars, writeVars
<1>2. Listening' = Listening
  BY <1>1 DEF Listening, ReceiverAlive
<1>3. CASE ReaderGreets
  <2>1. reader' = [reader EXCEPT !.at = "receive"] /\ receive_q' = receive_q
    BY <1>3 DEF ReaderGreets
  <2>2. reader' \in Held /\ reader'.msg = reader.msg /\ reader'.at # "read"
    BY <1>0, <2>1, GreetsType
  <2>3. TypeOK' /\ Shape'
    BY <1>1, <2>1, <2>2 DEF TypeOK, Shape
  <2>4. Now' = Now
    BY <1>1, <2>1, <2>2 DEF Now
  <2>5. QED BY <1>1, <1>2, <2>3, <2>4 DEF Good
<1>4. CASE ReaderForwards
  <2>1. /\ reader' = At("read")
        /\ receive_q' = IF ReceiverAlive THEN Cat(receive_q, reader.msg) ELSE receive_q
    BY <1>4 DEF ReaderForwards, Cat
  <2>2. reader' \in Held /\ reader'.msg = <<>>
    BY <2>1, AtType, Places
  <2>3. Cat(receive_q, reader.msg) \in Msgs
    BY <1>0, CatFacts
  <2>4. TypeOK' /\ Shape'
    BY <1>1, <2>1, <2>2, <2>3 DEF TypeOK, Shape
  <2>5. Line(got, listen_q, listener.msg, Cat(receive_q, reader.msg), <<>>, incoming) = Now
    BY <1>0, FlowForward DEF Now
  <2>6. ReceiverAlive => Now' = Now
    BY <1>1, <2>1, <2>2, <2>5 DEF Now
  <2>7. Listening => ReceiverAlive
    BY DEF Listening
  <2>8. QED BY <1>1, <1>2, <2>4, <2>6, <2>7 DEF Good
<1>5. CASE ReaderEnds
  <2>1. reader.at = "read" /\ reader' = At("ended") /\ receive_q' = receive_q
    BY <1>5 DEF ReaderEnds
  <2>2. reader' \in Held /\ reader'.msg = <<>> /\ reader.msg = <<>>
    BY <2>1, AtType, Places DEF Shape
  <2>3. TypeOK' /\ Shape'
    BY <1>1, <2>1, <2>2 DEF TypeOK, Shape
  <2>4. Now' = Now
    BY <1>1, <2>1, <2>2 DEF Now
  <2>5. QED BY <1>1, <1>2, <2>3, <2>4 DEF Good
<1>6. QED BY <1>3, <1>4, <1>5

LEMMA ListenerReceivesStep ==
  ASSUME TypeOK, Shape, Listening => Now = sent, ListenerReceives
  PROVE  Good
<1> DEFINE m == Head(receive_q)
           t == Tail(receive_q)
<1>1. /\ receive_q # <<>> /\ listener.at = "recv" /\ receive_q' = t
      /\ listener' = Holding("send", m)
      /\ UNCHANGED <<got, listen_q, reader, incoming, connect, app, consumer, offered, sent>>
  BY DEF ListenerReceives, serverVars, appVars, writeVars
<1>2. receive_q \in Msgs /\ listener.msg = <<>>
  BY <1>1 DEF TypeOK, Shape
<1>3. m \in WsServerMessage /\ t \in Msgs /\ Cat(<<m>>, t) = receive_q
  BY <1>1, <1>2, HeadFirst DEF Cat, Msgs
<1>4. listener' \in Held /\ listener'.msg = <<m>> /\ listener'.at = "send"
  BY <1>1, <1>3, HoldingType, Places
<1>5. connect # "waiting"
  BY <1>1 DEF Shape, At
<1>6. TypeOK' /\ Shape' /\ (Listening' => Listening)
  BY <1>1, <1>3, <1>4, <1>5 DEF TypeOK, Shape, Listening, ReceiverAlive
<1>7. /\ got \in Msgs /\ listen_q \in Msgs
      /\ reader.msg \in Msgs /\ incoming \in Msgs /\ <<m>> \in Msgs /\ <<>> \in Msgs
  BY <1>3, One, HeldType, CatFacts DEF TypeOK
<1> HIDE DEF m, t
<1>8. Line(got, listen_q, <<m>>, t, reader.msg, incoming)
        = Line(got, listen_q, <<>>, Cat(<<m>>, t), reader.msg, incoming)
  BY <1>3, <1>7, FlowTake
<1>9. Now' = Now
  BY <1>1, <1>2, <1>3, <1>4, <1>8 DEF Now
<1>10. QED BY <1>1, <1>6, <1>9 DEF Good

LEMMA ListenerStep ==
  ASSUME TypeOK, Shape, Listening => Now = sent,
         ListenerForwards \/ ListenerPanics \/ ListenerEnds \/ ConnectReturns
  PROVE  Good
<1>0. /\ got \in Msgs /\ listen_q \in Msgs /\ listener.msg \in Msgs
      /\ receive_q \in Msgs /\ reader.msg \in Msgs /\ incoming \in Msgs
  BY HeldType DEF TypeOK
<1>1. UNCHANGED <<got, reader, receive_q, incoming, consumer, offered, sent>>
  BY DEF ListenerForwards, ListenerPanics, ListenerEnds, ConnectReturns, serverVars, readVars,
         appVars, writeVars
<1>2. CASE ListenerForwards
  <2>1. /\ listener.at = "send" /\ listener' = At("recv") /\ listen_q' = Cat(listen_q, listener.msg)
        /\ UNCHANGED <<connect, app>>
    BY <1>2 DEF ListenerForwards, Cat, readVars, appVars
  <2>2. listener' \in Held /\ listener'.msg = <<>> /\ listener'.at = "recv"
    BY <2>1, AtType, Places
  <2>3. Cat(listen_q, listener.msg) \in Msgs
    BY <1>0, CatFacts
  <2>4. connect # "waiting"
    BY <2>1 DEF Shape, At
  <2>5. TypeOK' /\ Shape' /\ (Listening' => Listening)
    BY <1>1, <2>1, <2>2, <2>3, <2>4 DEF TypeOK, Shape, Listening, ReceiverAlive
  <2>6. Line(got, Cat(listen_q, listener.msg), <<>>, receive_q, reader.msg, incoming) = Now
    BY <1>0, FlowOut DEF Now
  <2>7. Now' = Now
    BY <1>1, <2>1, <2>2, <2>6 DEF Now
  <2>8. QED BY <1>1, <2>5, <2>7 DEF Good
<1>3. CASE ListenerPanics
  <2>1. listener.at = "send" /\ listener' = At("panicked") /\ UNCHANGED <<connect, app, listen_q>>
    BY <1>3 DEF ListenerPanics, readVars, appVars
  <2>2. listener' \in Held /\ listener'.at = "panicked"
    BY <2>1, AtType, Places
  <2>3. connect # "waiting"
    BY <2>1 DEF Shape, At
  <2>4. TypeOK' /\ Shape' /\ ~Listening'
    BY <1>1, <2>1, <2>2, <2>3 DEF TypeOK, Shape, Listening, ReceiverAlive
  <2>5. QED BY <2>4 DEF Good
<1>4. CASE ListenerEnds
  <2>1. listener.at = "recv" /\ listener' = At("ended") /\ UNCHANGED <<connect, app, listen_q>>
    BY <1>4 DEF ListenerEnds, readVars, appVars
  <2>2. listener' \in Held /\ listener'.at = "ended" /\ listener'.msg = <<>> /\ listener.msg = <<>>
    BY <2>1, AtType, Places DEF Shape
  <2>3. connect # "waiting"
    BY <2>1 DEF Shape, At
  <2>4. TypeOK' /\ Shape' /\ (Listening' => Listening)
    BY <1>1, <2>1, <2>2, <2>3 DEF TypeOK, Shape, Listening, ReceiverAlive
  <2>5. Now' = Now
    BY <1>1, <2>1, <2>2 DEF Now
  <2>6. QED BY <1>1, <2>4, <2>5 DEF Good
<1>5. CASE ConnectReturns
  <2>1. /\ connect = "waiting" /\ connect' = "returned" /\ listener' = At("recv")
        /\ UNCHANGED listen_q
    BY <1>5 DEF ConnectReturns
  <2>2. /\ listener' \in Held /\ listener'.at = "recv" /\ listener'.msg = <<>>
        /\ listener.at = "off" /\ listener.msg = <<>> /\ app = "connecting"
    BY <2>1, AtType, Places DEF Shape
  <2>3. TypeOK' /\ Shape' /\ Listening
    BY <1>1, <2>1, <2>2 DEF TypeOK, Shape, Listening, ReceiverAlive
  <2>4. Now' = Now
    BY <1>1, <2>1, <2>2 DEF Now
  <2>5. QED BY <1>1, <2>3, <2>4 DEF Good
<1>6. QED BY <1>2, <1>3, <1>4, <1>5

LEMMA AppReceivesStep ==
  ASSUME TypeOK, Shape, Listening => Now = sent, AppReceives
  PROVE  Good
<1> DEFINE m == Head(listen_q)
           t == Tail(listen_q)
<1>1. /\ listen_q # <<>> /\ app = "recv" /\ listen_q' = t /\ got' = Append(got, m)
      /\ UNCHANGED <<listener, receive_q, reader, incoming, connect, consumer, offered, sent>>
  BY DEF AppReceives, serverVars, readVars, writeVars
<1>2. listen_q \in Msgs /\ got \in Msgs
  BY DEF TypeOK
<1>3. m \in WsServerMessage /\ t \in Msgs /\ Cat(<<m>>, t) = listen_q
  BY <1>1, <1>2, HeadFirst DEF Cat, Msgs
<1>4. got' \in Msgs /\ got' = Cat(got, <<m>>)
  BY <1>1, <1>2, <1>3, AppendProperties, AppendIsConcat DEF Cat, Msgs
<1>5. connect # "waiting"
  BY <1>1 DEF Shape
<1>6. TypeOK' /\ Shape' /\ (Listening' => Listening)
  BY <1>1, <1>3, <1>4, <1>5 DEF TypeOK, Shape, Listening, ReceiverAlive
<1>7. /\ listener.msg \in Msgs /\ receive_q \in Msgs /\ reader.msg \in Msgs
      /\ incoming \in Msgs /\ <<m>> \in Msgs
  BY <1>3, One, HeldType DEF TypeOK
<1> HIDE DEF m, t
<1>8. Line(Cat(got, <<m>>), t, listener.msg, receive_q, reader.msg, incoming)
        = Line(got, Cat(<<m>>, t), listener.msg, receive_q, reader.msg, incoming)
  <2> DEFINE l == listener.msg
             r == reader.msg
             u == <<m>>
  <2>1. l \in Msgs /\ r \in Msgs /\ u \in Msgs
    BY <1>7
  <2> HIDE DEF l, r, u
  <2>2. Cat(r, incoming) \in Msgs
    BY <1>7, <2>1, CatFacts
  <2>3. Cat(receive_q, Cat(r, incoming)) \in Msgs
    BY <1>7, <2>2, CatFacts
  <2> DEFINE k == Cat(l, Cat(receive_q, Cat(r, incoming)))
  <2>4. k \in Msgs
    BY <2>1, <2>3, CatFacts
  <2> HIDE DEF k
  <2>5. Cat(t, k) \in Msgs
    BY <1>3, <2>4, CatFacts
  <2>6. Cat(Cat(got, u), Cat(t, k)) = Cat(got, Cat(u, Cat(t, k)))
    BY <1>2, <2>1, <2>5, CatFacts
  <2>7. Cat(u, Cat(t, k)) = Cat(Cat(u, t), k)
    BY <1>3, <2>1, <2>4, CatFacts
  <2>8. QED BY <2>6, <2>7, Zenon DEF Line, k, l, r, u
<1>9. Now' = Now
  BY <1>1, <1>3, <1>4, <1>8 DEF Now
<1>10. QED BY <1>1, <1>6, <1>9 DEF Good

\* The other steps change nothing that is on the line.
LEMMA OtherStep ==
  ASSUME TypeOK, Shape, Listening => Now = sent,
         UNCHANGED <<got, listen_q, listener, receive_q, reader, incoming, consumer, sent>>,
         offered' \subseteq Session,
         connect' = "waiting" => connect = "waiting" /\ app' = app,
         app = "ended" => app' = "ended"
  PROVE  Good
<1>1. TypeOK' /\ Shape' /\ (Listening' => Listening)
  BY DEF TypeOK, Shape, Listening, ReceiverAlive
<1>2. Now' = Now
  BY DEF Now
<1>3. QED BY <1>1, <1>2 DEF Good

LEMMA InvInit == Init => IInv
<1> SUFFICES ASSUME Init PROVE IInv
  OBVIOUS
<1>1. /\ sent = <<>> /\ incoming = <<>> /\ receive_q = <<>> /\ listen_q = <<>> /\ got = <<>>
      /\ reader = At("read") /\ listener = At("off") /\ offered = {}
      /\ app = "connecting" /\ <<>> \in Msgs
  BY CatFacts DEF Init
<1>2. /\ At("read") \in Held /\ At("off") \in Held /\ At("read").msg = <<>>
      /\ At("off").msg = <<>> /\ At("off").at = "off"
  BY AtType, Places
<1>3. TypeOK /\ Shape
  BY <1>1, <1>2 DEF TypeOK, Shape
<1>4. Cat(<<>>, <<>>) = <<>>
  BY CatFacts
<1>5. Now = sent
  BY <1>1, <1>2, <1>4 DEF Now, Line
<1>6. QED BY <1>3, <1>5, OnTheLine DEF IInv

\* What the application, send_offer, accept_offer and the write task leave alone.
Others_Next ==
    \/ SocketCloses \/ ConnectPanics \/ CallbackReturns \/ AppEnds \/ HandlerReturns \/ Write
    \/ LsSignalingConnection_update_info
    \/ \E s \in Session : SendOffer(s) \/ Offering(s)
    \/ Accepting

LEMMA OthersStep ==
  ASSUME TypeOK, Shape, Listening => Now = sent, Others_Next
  PROVE  Good
<1>1. UNCHANGED <<got, listen_q, listener, receive_q, reader, incoming, consumer, sent>>
  <2>1. CASE SocketCloses
    BY <2>1 DEF SocketCloses, readVars, listenVars, appVars
  <2>2. CASE ConnectPanics
    BY <2>2 DEF ConnectPanics, serverVars, listenVars, appVars
  <2>3. CASE CallbackReturns \/ AppEnds \/ HandlerReturns
    BY <2>3 DEF CallbackReturns, AppEnds, HandlerReturns, serverVars, readVars, listenVars
  <2>4. CASE Write
    BY <2>4 DEF Write, WriterTakes, WriterWrites, WriteTimesOut, WriterEnds, WriterUnused,
                serverVars, readVars, listenVars, appVars
  <2>5. CASE LsSignalingConnection_update_info
    BY <2>5 DEF LsSignalingConnection_update_info, update_info, serverVars, readVars, listenVars,
                appVars
  <2>6. ASSUME NEW s \in Session, SendOffer(s) \/ Offering(s)
        PROVE  UNCHANGED <<got, listen_q, listener, receive_q, reader, incoming, consumer, sent>>
    BY <2>6 DEF SendOffer, Offering, OfferQueued, OfferFails, RegisterHandler, OfferAnswered,
                serverVars, readVars, listenVars, appVars
  <2>7. CASE Accepting
    BY <2>7 DEF Accepting, AnswerQueued, AnswerFails, serverVars, readVars, listenVars
  <2>8. QED BY <2>1, <2>2, <2>3, <2>4, <2>5, <2>6, <2>7 DEF Others_Next
<1>2. offered' \subseteq Session
  <2>1. CASE WriterWrites
    BY <2>1 DEF WriterWrites, TypeOK
  <2>2. CASE SocketCloses \/ ConnectPanics \/ CallbackReturns \/ AppEnds \/ HandlerReturns
    BY <2>2 DEF SocketCloses, ConnectPanics, CallbackReturns, AppEnds, HandlerReturns, writeVars,
                TypeOK
  <2>3. CASE WriterTakes \/ WriteTimesOut \/ WriterEnds \/ WriterUnused
    BY <2>3 DEF WriterTakes, WriteTimesOut, WriterEnds, WriterUnused, TypeOK
  <2>4. CASE LsSignalingConnection_update_info
    BY <2>4 DEF LsSignalingConnection_update_info, update_info, TypeOK
  <2>5. ASSUME NEW s \in Session, SendOffer(s) \/ Offering(s)
        PROVE  offered' \subseteq Session
    BY <2>5 DEF SendOffer, Offering, OfferQueued, OfferFails, RegisterHandler, OfferAnswered,
                writeVars, TypeOK
  <2>6. CASE Accepting
    BY <2>6 DEF Accepting, AnswerQueued, AnswerFails, writeVars, TypeOK
  <2>7. QED BY <2>1, <2>2, <2>3, <2>4, <2>5, <2>6 DEF Others_Next, Write
<1>3. /\ connect' = "waiting" => connect = "waiting" /\ app' = app
      /\ app = "ended" => app' = "ended"
  <2>1. CASE CallbackReturns \/ AppEnds \/ HandlerReturns
    BY <2>1 DEF CallbackReturns, AppEnds, HandlerReturns, readVars, Shape
  <2>2. CASE SocketCloses \/ ConnectPanics
    BY <2>2 DEF SocketCloses, ConnectPanics, readVars, appVars
  <2>3. CASE Write
    BY <2>3 DEF Write, WriterTakes, WriterWrites, WriteTimesOut, WriterEnds, WriterUnused,
                readVars, appVars
  <2>4. CASE LsSignalingConnection_update_info
    BY <2>4 DEF LsSignalingConnection_update_info, update_info, readVars, appVars
  <2>5. ASSUME NEW s \in Session, SendOffer(s) \/ Offering(s)
        PROVE  connect' = connect /\ app' = app
    BY <2>5 DEF SendOffer, Offering, OfferQueued, OfferFails, RegisterHandler, OfferAnswered,
                readVars, appVars
  <2>6. CASE Accepting
    BY <2>6 DEF Accepting, AnswerQueued, AnswerFails, readVars
  <2>7. QED BY <2>1, <2>2, <2>3, <2>4, <2>5, <2>6 DEF Others_Next
<1>4. QED BY <1>1, <1>2, <1>3, OtherStep

LEMMA InvStep == IInv /\ [Next]_vars => IInv'
<1> SUFFICES ASSUME IInv, [Next]_vars PROVE IInv'
  OBVIOUS
<1>1. TypeOK /\ Shape /\ (Listening => Now = sent)
  BY OnTheLine DEF IInv
<1>2. /\ Hello \in WsServerMessage /\ Join \in WsServerMessage /\ Offer \in WsServerMessage
      /\ \A s \in Session : Answer(s) \in WsServerMessage
  BY DEF WsServerMessage
<1>3. Good
  <2>1. CASE ServerSends \/ ServerGreets \/ PeerAnswers
    <3>1. PICK m \in WsServerMessage : Sends(m)
      BY <1>1, <1>2, <2>1 DEF ServerSends, ServerGreets, PeerAnswers, TypeOK
    <3>2. QED BY <1>1, <3>1, SendsStep
  <2>2. CASE ReaderReads
    BY <1>1, <2>2, ReaderReadsStep
  <2>3. CASE ReaderGreets \/ ReaderForwards \/ ReaderEnds
    BY <1>1, <2>3, ReaderStep
  <2>4. CASE ListenerReceives
    BY <1>1, <2>4, ListenerReceivesStep
  <2>5. CASE ListenerForwards \/ ListenerPanics \/ ListenerEnds \/ ConnectReturns
    BY <1>1, <2>5, ListenerStep
  <2>6. CASE AppReceives
    BY <1>1, <2>6, AppReceivesStep
  <2>7. CASE Others_Next
    BY <1>1, <2>7, OthersStep
  <2>8. CASE UNCHANGED vars
    <3>1. /\ UNCHANGED <<got, listen_q, listener, receive_q, reader, incoming, consumer, sent>>
          /\ UNCHANGED <<offered, connect, app>>
      BY <2>8 DEF vars, serverVars, readVars, listenVars, appVars, writeVars
    <3>2. /\ offered' \subseteq Session
          /\ connect' = "waiting" => connect = "waiting" /\ app' = app
          /\ app = "ended" => app' = "ended"
      BY <1>1, <3>1 DEF TypeOK
    <3>3. QED BY <1>1, <3>1, <3>2, OtherStep
  <2>9. QED
    BY <2>1, <2>2, <2>3, <2>4, <2>5, <2>6, <2>7, <2>8 DEF Next, Read, Listen, Run, Others_Next
<1>4. (TypeOK => (InOrder <=> (Listening => Now = sent)))'
  BY OnTheLine, PTL
<1>5. QED BY <1>3, <1>4 DEF Good, IInv

\* No message is lost, doubled or reordered on the way from the socket through
\* the read task, the listener task and their channels to the application.
THEOREM InOrderHolds == Spec => []InOrder
<1>1. IInv => InOrder
  BY DEF IInv
<1>2. QED BY <1>1, InvInit, InvStep, PTL DEF Spec

=============================================================================
