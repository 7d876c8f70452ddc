---------------------------- MODULE MCSprotoPack ----------------------------
(***************************************************************************)
(* SprotoPack with the constants of the code, on short messages: up to two *)
(* segments without zeros and a tail.                                      *)
(***************************************************************************)
EXTENDS SprotoPack

Ones(n) == [i \in 1 .. n |-> 1]
MCPackInputs == {Ones(n) : n \in 0 .. 3 * SEG}
=============================================================================
