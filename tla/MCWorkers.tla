------------------------------ MODULE MCWorkers ------------------------------
(***************************************************************************)
(* Workers with three workers and two services.                            *)
(***************************************************************************)
EXTENDS Workers
=============================================================================
