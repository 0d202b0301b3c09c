-------------------------- MODULE MCWebRtcTransfer --------------------------
(***************************************************************************)
(* Instances of WebRtcTransfer for TLC.                                    *)
(***************************************************************************)
EXTENDS WebRtcTransfer

==============================================================================
