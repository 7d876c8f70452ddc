------------------------------ MODULE MCRwLock ------------------------------
(***************************************************************************)
(* RwLock with four threads, each free to call either lock forever.        *)
(***************************************************************************)
EXTENDS RwLock
=============================================================================
