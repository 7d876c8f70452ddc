---------------------------- MODULE MCSocketSend ----------------------------
(***************************************************************************)
(* SocketSend with a few messages of two or three units each.              *)
(***************************************************************************)
EXTENDS SocketSend
=============================================================================
