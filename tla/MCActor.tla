------------------------------- MODULE MCActor -------------------------------
(***************************************************************************)
(* Actor with a few threads and services; the cfg files choose which       *)
(* commands are in play.                                                   *)
(***************************************************************************)
EXTENDS Actor, TLC

\* The worker threads are interchangeable (used in safety runs only).
ThreadSymmetry == Permutations(Worker)
=============================================================================
