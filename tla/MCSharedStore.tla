--------------------------- MODULE MCSharedStore ----------------------------
(* Model-checking instance of SharedStore: the constants are given in the  *)
(* configurations.  nan stands for a value that is not equal to itself.    *)
EXTENDS SharedStore
=============================================================================
