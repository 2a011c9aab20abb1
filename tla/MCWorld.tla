------------------------------ MODULE MCWorld -------------------------------
(* Model-checking instance of World, with a registry and a store of a few  *)
(* slots: the constants are given in the configurations.  No value of the  *)
(* dense component is told from another.                                   *)
EXTENDS World, TLC

CONSTANTS a, b

MCValues == {a, b}

AnyValues == Permutations(MCValues)
=============================================================================
