--------------------------- MODULE MCSendSession ---------------------------
(***************************************************************************)
(* Instances of SendSession for TLC.                                       *)
(***************************************************************************)
EXTENDS SendSession

==============================================================================
