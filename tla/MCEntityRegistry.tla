-------------------------- MODULE MCEntityRegistry --------------------------
(* Model-checking values for EntityRegistry.                               *)
EXTENDS EntityRegistry

(* Identifiers made up, or read back from somewhere, that may be those of  *)
(* an entity: its generation is odd.                                       *)
SomeComposed == {[index |-> 0, generation |-> 3], [index |-> 1, generation |-> 1]}

=============================================================================
