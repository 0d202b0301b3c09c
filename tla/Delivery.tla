------------------------------ MODULE Delivery ------------------------------
(***************************************************************************)
(* What a transfer promises to the two users, without saying how: the      *)
(* receiver's user grants some of the files that were offered, only        *)
(* granted files are stored, and the sender is told of a file only after   *)
(* it is stored.                                                           *)
(***************************************************************************)
CONSTANT File

VARIABLES
    granted,    \* the files the receiver's user has accepted
    stored,     \* the files on the receiver's disk
    reported    \* the files the sender counts as sent

vars == <<granted, stored, reported>>

Init ==
    /\ granted = {}
    /\ stored = {}
    /\ reported = {}

Grant(selection) ==
    /\ granted = {}
    /\ selection # {}
    /\ granted' = selection
    /\ UNCHANGED <<stored, reported>>

Store(f) ==
    /\ f \in granted \ stored
    /\ stored' = stored \cup {f}
    /\ UNCHANGED <<granted, reported>>

Report(f) ==
    /\ f \in stored \ reported
    /\ reported' = reported \cup {f}
    /\ UNCHANGED <<granted, stored>>

Next ==
    \/ \E selection \in SUBSET File : Grant(selection)
    \/ \E f \in File : Store(f) \/ Report(f)

Spec == Init /\ [][Next]_vars

==============================================================================
