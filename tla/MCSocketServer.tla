--------------------------- MODULE MCSocketServer ---------------------------
(***************************************************************************)
(* SocketServer with two slots, so that ids come back to the same slot.    *)
(***************************************************************************)
EXTENDS SocketServer, TLC

\* The calling threads are interchangeable.
ClientSymmetry == Permutations(Client)
=============================================================================
