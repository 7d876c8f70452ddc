------------------------------- MODULE MCTimer -------------------------------
(***************************************************************************)
(* Timer with two near slots and four rings of two slots: W = 32.         *)
(***************************************************************************)
EXTENDS Timer, TLC

\* Nodes are interchangeable.
NodeSymmetry == Permutations(Node)
=============================================================================
