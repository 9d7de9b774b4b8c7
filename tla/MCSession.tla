------------------------------ MODULE MCSession ------------------------------
(* Session on small instances.                                             *)
EXTENDS Session, TLC

Symmetry == Permutations(Players) \cup Permutations(Conns)
=============================================================================
