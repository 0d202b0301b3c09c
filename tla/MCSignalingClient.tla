------------------------- MODULE MCSignalingClient -------------------------
(***************************************************************************)
(* Instances of SignalingClient for TLC.                                   *)
(***************************************************************************)
EXTENDS SignalingClient

=============================================================================
