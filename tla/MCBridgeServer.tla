--------------------------- MODULE MCBridgeServer ---------------------------
(***************************************************************************)
(* Bounds for BridgeServer: two connections, of which either may be        *)
(* accepted around a cancellation, and two frames in a behaviour, so that  *)
(* one can be sent ahead of the response to the other.                     *)
(***************************************************************************)
EXTENDS BridgeServer
=============================================================================
