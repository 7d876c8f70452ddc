----------------------------- MODULE MCSessions -----------------------------
(***************************************************************************)
(* Sessions with two coroutines that sleep, wait and call another service. *)
(***************************************************************************)
EXTENDS Sessions, TLC

\* Coroutines are interchangeable.
CoSymmetry == Permutations(Co)
=============================================================================
