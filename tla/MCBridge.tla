------------------------------ MODULE MCBridge ------------------------------
(***************************************************************************)
(* Instances of Bridge for TLC.                                            *)
(***************************************************************************)
EXTENDS Bridge
CONSTANTS f1, f2

MCFile == {f1, f2}

Plan(methods, repeats, some, pins, errors) ==
    [calls |-> methods, repeats |-> repeats, files |-> some, pins |-> pins, errors |-> errors]

\* Two listeners and two PINs; a PIN and both decisions; the results of two
\* files; the bytes of one; everything a sender may call; the other streams
\* and one-shots of both sides.
P1 == {Plan({"listen_status", "send_pin"}, 2, {}, 2, 0)}
P2 == {Plan({"listen_status", "send_pin", "send_selection", "decline"}, 1, {}, 1, 0)}
P3 == {Plan({"listen_status", "send_selection", "listen_receiving", "send_file_status"}, 1, {f1, f2}, 0, 0)}
P4 == {Plan({"listen_status", "send_selection", "listen_receiving", "send_file_status", "receive"}, 1, {f1}, 0, 0)}
P5 == {Plan({"listen_status", "send_file", "send_pin", "listen_selected_files"}, 1, {f1, f2}, 1, 0)}
P6 == {Plan({"listen_status", "listen_error", "listen_files", "send_file", "send_selection"}, 1, {f1}, 0, 2)}
MCPlans == P1 \cup P2 \cup P3 \cup P4 \cup P5 \cup P6

=============================================================================
