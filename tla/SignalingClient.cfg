SPECIFICATION FairSpec
CONSTANTS
  Session = {s1}
  Consumer = {"stream", "inline"}
  ReceiveCapacity = 1
  ListenerCapacity = 1
  MaxEarly = 2
  MaxMessages = 2
INVARIANTS InOrder
PROPERTIES AnsweredOfferGoesOn GreetedReturns ClosedEnds
CHECK_DEADLOCK FALSE
