----------------------------- MODULE DenseStore -----------------------------
(***************************************************************************)
(* denseStore (ecs/storage/dense.go): a slot for each index, with the      *)
(* generation of the entity the value in it was set for.  The store has no *)
(* lock: its operations are single steps as long as one goroutine at a     *)
(* time works on it.                                                       *)
(***************************************************************************)
EXTENDS Integers, Sequences, FiniteSets

CONSTANTS
  Uint32,    (* the number of values of a uint32                            *)
  Values,    (* values of the component                                     *)
  NoValue    (* nil                                                         *)

Indices  == 0 .. Uint32 - 1
EntityID == [index : Indices, generation : 0 .. Uint32 - 1]

VARIABLES
  dense,    (* the slice slots; index i is its element i + 1                *)
  count     (* the number of occupied slots                                 *)

Slot == [generation : 0 .. Uint32 - 1, value : Values \cup {NoValue},
         occupied : BOOLEAN]

NewSlot == [generation |-> 0, value |-> NoValue, occupied |-> FALSE]

Init == dense = <<>> /\ count = 0

-----------------------------------------------------------------------------
Zero == [index |-> 0, generation |-> 0]

(* Defective variant: the generation is not compared.                      *)
HasAny(id) == id.index < Len(dense) /\ dense[id.index + 1].occupied

Has(id) ==
  /\ id.index < Len(dense)
  /\ dense[id.index + 1].occupied
  /\ dense[id.index + 1].generation = id.generation

(* Defective variant: the slots there were are not copied.                 *)
GrownAnew(index) ==
  IF index < Len(dense) THEN dense ELSE [i \in 1 .. index + 1 |-> NewSlot]

(* ensureCapacity: as long as the index needs, and no longer.              *)
Grown(index) ==
  IF index < Len(dense) THEN dense
  ELSE dense \o [i \in 1 .. index + 1 - Len(dense) |-> NewSlot]

(* Defective variant: a value that replaces an earlier tenant's counts.    *)
SetCountsTwice(id, value) ==
  /\ id # Zero
  /\ count' = IF Has(id) THEN count ELSE count + 1
  /\ dense' = [Grown(id.index) EXCEPT ![id.index + 1] =
                 [generation |-> id.generation, value |-> value, occupied |-> TRUE]]

Set(id, value) ==
  /\ id # Zero
  /\ LET grown == Grown(id.index)
     IN  /\ count' = IF grown[id.index + 1].occupied THEN count ELSE count + 1
         /\ dense' = [grown EXCEPT ![id.index + 1] =
                        [generation |-> id.generation, value |-> value,
                         occupied |-> TRUE]]

Remove(id) ==
  /\ Has(id)
  /\ dense' = [dense EXCEPT ![id.index + 1].occupied = FALSE,
                            ![id.index + 1].value = NoValue]
  /\ count' = count - 1

Clear ==
  /\ dense' = [i \in DOMAIN dense |-> NewSlot]
  /\ count' = 0

-----------------------------------------------------------------------------
TypeOK ==
  /\ dense \in Seq(Slot)
  /\ count \in Nat

(* Len is the number of values there are to visit; a slot without a value  *)
(* holds on to none.                                                       *)
CountIsExact ==
  /\ count = Cardinality({i \in DOMAIN dense : dense[i].occupied})
  /\ \A i \in DOMAIN dense : dense[i].occupied <=> dense[i].value # NoValue

(* What Iterate visits: the occupied slots, each under the identifier that *)
(* its value was set for.                                                  *)
IdOf(i) == [index |-> i - 1, generation |-> dense[i].generation]

Visited == {IdOf(i) : i \in {j \in DOMAIN dense : dense[j].occupied}}

Contents == [id \in Visited |-> dense[id.index + 1].value]

(* The other identifiers of a slot.                                        *)
Rivals == [id \in EntityID |-> {x \in EntityID : x.index = id.index /\ x # id}]

Promise == INSTANCE ComponentStore WITH Ids <- EntityID, contents <- Contents

(* The store is a map in which an identifier evicts the value of the other *)
(* identifiers of its slot, and no operation changes any other value.      *)
StoreIsAMap == Promise!Spec
=============================================================================
