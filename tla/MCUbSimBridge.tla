--------------------------- MODULE MCUbSimBridge ---------------------------
(***************************************************************************)
(* Instances of UbSimBridge for TLC.                                       *)
(***************************************************************************)
EXTENDS UbSimBridge
=============================================================================
