-------------------------- MODULE MCSignalingServer --------------------------
(***************************************************************************)
(* Instances of SignalingServer for TLC.                                   *)
(***************************************************************************)
EXTENDS SignalingServer

CONSTANTS c1, c2, c3, g1, g2, i1, i2, i3

TwoConns   == {c1, c2}
ThreeConns == {c1, c2, c3}

\* All connections come from one address.
OneGroup == [c \in Conn |-> g1]

\* c3 comes from another address than c1 and c2.
TwoGroups == [c \in Conn |-> IF c = c3 THEN g2 ELSE g1]

\* Clients that only listen.
Silent == [c \in Conn |-> {}]

\* c1 changes its info back and forth, c2 offers to c1, c3 only listens.
Mixed == [c \in Conn |->
    IF c = c1 THEN [type : {"Update"}, info : Info]
    ELSE IF c = c2 THEN {[type |-> "Offer", target |-> c1]}
    ELSE {}]

\* c1 sends Updates that change nothing, the others only listen.
Repeated == [c \in Conn |->
    IF c = c1 THEN {[type |-> "Update", info |-> i1]} ELSE {}]

\* c1 changes its info and its token, and c1 and c3 address each other across the groups.
CrossGroup == [c \in Conn |->
    IF c = c1 THEN [type : {"Update"}, info : {i2, i3}] \cup {[type |-> "Offer", target |-> c3]}
    ELSE IF c = c2 THEN {[type |-> "Offer", target |-> c1]}
    ELSE {[type |-> "Update", info |-> i2], [type |-> "Answer", target |-> c1]}]

\* i1 and i2 carry one token, i3 another one.
Tokens == [i \in Info |-> IF i = i3 THEN 2 ELSE 1]

Interchangeable == Permutations(Conn)

==============================================================================
