--------------------------- MODULE EntityRegistry --------------------------
(***************************************************************************)
(* EntityRegistry (entity.go): it hands out identifiers of an index and a  *)
(* generation, and recycles the index of a destroyed entity.  The          *)
(* generation of a slot is odd while an entity lives in it and even while  *)
(* it is free.  Every method runs under the lock of the registry from its  *)
(* first access to its last, so each is one step, whoever calls it.        *)
(***************************************************************************)
EXTENDS Integers, Sequences, FiniteSets

CONSTANTS
  Uint32,      (* the number of values of a uint32                          *)
  Composed,    (* identifiers made with EntityIDFromParts, not by Create    *)
  MaxCreates   (* bound: calls of Create                                    *)

Indices  == 0 .. Uint32 - 1
EntityID == [index : Indices, generation : 0 .. Uint32 - 1]

ASSUME EntityRegistryAssumption ==
  /\ Uint32 \in Nat \ {0}
  /\ Uint32 % 2 = 0
  /\ Composed \subseteq EntityID
  /\ MaxCreates \in 0 .. Uint32

VARIABLES
  slots,        (* the length of the slice generations                      *)
  generations,  (* its elements, and zeros beyond its length                *)
  free,         (* the indices to recycle, the last one first               *)
  alive,        (* the counter of live entities                             *)
  creates,      (* how often Create was called                              *)
  live,         (* history: the identifiers Create returned, less those     *)
  retired       (* history: for which Destroy returned true                 *)

vars == <<slots, generations, free, alive, creates, live, retired>>

Init ==
  /\ slots = 0
  /\ generations = [i \in Indices |-> 0]
  /\ free = <<>>
  /\ alive = 0
  /\ creates = 0
  /\ live = {}
  /\ retired = {}

-----------------------------------------------------------------------------
Zero == [index |-> 0, generation |-> 0]

(* What a caller may hold: an identifier it was handed at some time, the   *)
(* zero value of a variable that was never assigned one, and one composed.  *)
Known == live \cup retired \cup {Zero} \cup Composed

(* Defective variant: the generation is not compared.                      *)
IndexInUse(id) == id.index < slots /\ generations[id.index] % 2 = 1

IsAliveLocked(id) == id.index < slots /\ generations[id.index] = id.generation

IsAlive(id) == id # Zero /\ IsAliveLocked(id)

Bump(index) == (generations[index] + 1) % Uint32

Allocate(index) ==
  /\ creates < MaxCreates
  /\ creates' = creates + 1
  /\ generations' = [generations EXCEPT ![index] = Bump(index)]
  /\ live' = live \cup {[index |-> index, generation |-> Bump(index)]}
  /\ alive' = (alive + 1) % Uint32
  /\ UNCHANGED retired

(* Defective variant: the index stays in the free list.                    *)
RecycleTwice ==
  /\ free # <<>>
  /\ Allocate(free[Len(free)])
  /\ UNCHANGED <<slots, free>>

CreateRecycled ==
  /\ free # <<>>
  /\ Allocate(free[Len(free)])
  /\ free' = SubSeq(free, 1, Len(free) - 1)
  /\ UNCHANGED slots

CreateFresh ==
  /\ free = <<>>
  /\ Allocate(slots)
  /\ slots' = slots + 1
  /\ UNCHANGED free

(* Defective variant: the generation is put into the free list.            *)
FreeGeneration(id) == Append(free, id.generation)

FreeIndex(id) == Append(free, id.index)

(* Destroy that returns true.                                              *)
Destroy(id) ==
  /\ IsAlive(id)
  /\ alive' = (alive - 1) % Uint32
  /\ generations' = [generations EXCEPT ![id.index] = Bump(id.index)]
  /\ free' = FreeIndex(id)
  /\ live' = live \ {id}
  /\ retired' = retired \cup {id}
  /\ UNCHANGED <<slots, creates>>

(* Destroy that returns false.                                             *)
DestroyRefused(id) ==
  /\ ~IsAlive(id)
  /\ UNCHANGED vars

Next ==
  \/ CreateRecycled
  \/ CreateFresh
  \/ \E id \in Known : Destroy(id) \/ DestroyRefused(id)

Spec == Init /\ [][Next]_vars

-----------------------------------------------------------------------------
TypeOK ==
  /\ slots \in 0 .. Uint32
  /\ generations \in [Indices -> 0 .. Uint32 - 1]
  /\ free \in Seq(0 .. slots - 1)
  /\ alive \in 0 .. Uint32 - 1
  /\ creates \in 0 .. MaxCreates
  /\ live \subseteq EntityID
  /\ retired \subseteq EntityID

(* Among all identifiers that Create ever returned, whatever slots they    *)
(* share, IsAlive tells those of the entities there are; and none of them  *)
(* is the zero value, which stands for no entity everywhere else.          *)
LookupIsExact ==
  /\ Zero \notin live
  /\ \A id \in live \cup retired : IsAlive(id) <=> id \in live

(* A slot is in the free list once if no entity lives in it and not at all *)
(* otherwise, no two entities share a slot, and Count counts the entities. *)
FreeListIsExact ==
  /\ \A k, l \in DOMAIN free : free[k] = free[l] => k = l
  /\ \A i \in 0 .. slots - 1 :
       (\E k \in DOMAIN free : free[k] = i) <=> ~\E id \in live : id.index = i
  /\ \A id1, id2 \in live : id1.index = id2.index => id1 = id2
  /\ alive = Cardinality(live)

Promise == INSTANCE EntityHandles WITH Handles <- EntityID

(* An identifier is issued once and is stale for ever once its entity was  *)
(* destroyed.  Also what README.md:351 says, without a limit: "Generation  *)
(* tracking prevents stale handles".                                       *)
HandlesAreKept == Promise!Spec

=============================================================================
