----------------------- MODULE EntityRegistryProofs ------------------------
(***************************************************************************)
(* Theorems about EntityRegistry, for any number of slots and calls.  They *)
(* hold until a generation may have wrapped around, and as long as no      *)
(* caller makes up an identifier with the even generation of a free slot,  *)
(* which isAliveLocked takes for that of an entity.  Without either of the *)
(* two hypotheses they fail.                                               *)
(***************************************************************************)
EXTENDS EntityRegistry, FiniteSetTheorems, TLAPS

NoWrap == 2 * MaxCreates < Uint32
OddComposed == \A id \in Composed : id.generation % 2 = 1

IsFree(index) == \E k \in DOMAIN free : free[k] = index

(* No generation has wrapped around, nor the counter.                      *)
BoundInv ==
  /\ slots <= creates
  /\ \A i \in Indices : /\ generations[i] <= 2 * creates
                        /\ i >= slots => generations[i] = 0

(* A slot is lived in while its generation is odd, and free while it is    *)
(* even.                                                                   *)
LiveInv ==
  \A id \in EntityID :
    id \in live <=> /\ generations[id.index] = id.generation
                    /\ id.generation % 2 = 1

FreeInv ==
  /\ \A k, l \in DOMAIN free : free[k] = free[l] => k = l
  /\ \A i \in Indices : IsFree(i) <=> i < slots /\ generations[i] % 2 = 0

(* A destroyed entity's slot has moved past its generation.                *)
RetiredInv ==
  \A id \in retired : /\ id.generation < generations[id.index]
                      /\ id.generation % 2 = 1

CountInv ==
  /\ IsFiniteSet(live)
  /\ alive = Cardinality(live)
  /\ Cardinality(live) <= creates

IInv == TypeOK /\ BoundInv /\ LiveInv /\ FreeInv /\ RetiredInv /\ CountInv

-----------------------------------------------------------------------------
LEMMA InitInv == Init => IInv
  <1> SUFFICES ASSUME Init PROVE IInv
    OBVIOUS
  <1> USE EntityRegistryAssumption
  <1>1. TypeOK
    BY DEF Init, TypeOK
  <1>2. BoundInv /\ FreeInv /\ RetiredInv
    BY DEF Init, BoundInv, FreeInv, IsFree, RetiredInv
  <1>3. LiveInv
    BY DEF Init, LiveInv, EntityID
  <1>4. CountInv
    BY FS_EmptySet DEF Init, CountInv
  <1> QED
    BY <1>1, <1>2, <1>3, <1>4 DEF IInv

LEMMA ModSmall ==
  ASSUME NEW n \in Nat, NEW x \in 0 .. n - 1
  PROVE  x % n = x
  OBVIOUS

LEMMA Parity ==
  ASSUME NEW x \in Nat
  PROVE  /\ x % 2 = 0 => (x + 1) % 2 = 1
         /\ x % 2 = 1 => (x + 1) % 2 = 0
         /\ x % 2 \in {0, 1}
         /\ \A m \in Nat : x % 2 = 1 /\ x <= 2 * m => x + 1 <= 2 * m
  OBVIOUS

(* What the type invariant and the bounds say of one slot.                 *)
LEMMA SlotFacts ==
  ASSUME IInv, NEW i \in Indices
  PROVE  /\ i \in Nat /\ generations[i] \in Nat /\ generations[i] \in 0 .. Uint32 - 1
         /\ creates \in Nat /\ slots \in Nat /\ generations[i] <= 2 * creates
         /\ MaxCreates \in Nat /\ Uint32 \in Nat
  BY EntityRegistryAssumption DEF IInv, TypeOK, BoundInv, Indices

(* A slot that nobody lives in, recycled or fresh, is allocated: the       *)
(* identifier is new, and the invariant is kept but for the free list.     *)
LEMMA AllocateKeepsInv ==
  ASSUME NoWrap, IInv, NEW index \in Indices, Allocate(index),
         generations[index] % 2 = 0
  PROVE  LET id == [index |-> index, generation |-> generations[index] + 1]
         IN  /\ id \in EntityID /\ id \notin live \cup retired
             /\ live' = live \cup {id}
             /\ generations' = [generations EXCEPT ![index] = id.generation]
             /\ \A i \in Indices : generations'[i] <= 2 * creates'
             /\ generations' \in [Indices -> 0 .. Uint32 - 1]
             /\ LiveInv' /\ RetiredInv' /\ CountInv'
             /\ alive' \in 0 .. Uint32 - 1 /\ creates' \in 0 .. MaxCreates
             /\ live' \subseteq EntityID /\ retired' \subseteq EntityID
  <1> DEFINE gen == generations[index] + 1
             id  == [index |-> index, generation |-> gen]
  <1>1. /\ IInv /\ NoWrap /\ Allocate(index) /\ generations[index] % 2 = 0
        /\ TypeOK /\ BoundInv /\ LiveInv /\ RetiredInv /\ CountInv
    BY DEF IInv
  <1>2. /\ generations[index] \in Nat /\ generations[index] <= 2 * creates
        /\ creates \in Nat /\ MaxCreates \in Nat /\ Uint32 \in Nat
        /\ creates < MaxCreates
    BY <1>1, SlotFacts DEF Allocate
  <1>3. gen \in 0 .. Uint32 - 1 /\ gen \in Nat /\ gen <= 2 * creates + 1
    BY <1>1, <1>2 DEF NoWrap
  <1>4. gen % 2 = 1
    BY <1>1, <1>2, Parity
  <1>5. Bump(index) = gen
    BY <1>2, <1>3, ModSmall DEF Bump
  <1>6. /\ generations' = [generations EXCEPT ![index] = gen]
        /\ live' = live \cup {id} /\ alive' = (alive + 1) % Uint32
        /\ creates' = creates + 1 /\ retired' = retired
    BY <1>1, <1>5 DEF Allocate
  <1>7. generations[index] = gen - 1
    BY <1>2
  <1> HIDE DEF gen
  <1>8. id \in EntityID
    BY <1>3 DEF EntityID
  <1>9. /\ generations' \in [Indices -> 0 .. Uint32 - 1]
        /\ \A i \in Indices : generations'[i] = IF i = index THEN gen ELSE generations[i]
    BY <1>1, <1>3, <1>6 DEF TypeOK
  <1>10. id \notin live
    BY <1>1, <1>3, <1>7, <1>8 DEF LiveInv
  <1>11. id \notin retired
    BY <1>1, <1>3, <1>7 DEF RetiredInv
  <1>12. \A i \in Indices : generations'[i] <= 2 * creates'
    BY <1>1, <1>2, <1>3, <1>6, <1>9, SlotFacts
  <1>13. LiveInv'
    <2> SUFFICES ASSUME NEW x \in EntityID
                 PROVE  x \in live' <=> /\ generations'[x.index] = x.generation
                                        /\ x.generation % 2 = 1
      BY DEF LiveInv
    <2>1. x.index \in Indices
      BY DEF EntityID
    <2>2. x \in live <=> generations[x.index] = x.generation /\ x.generation % 2 = 1
      BY <1>1 DEF LiveInv
    <2>3. CASE x.index = index
      <3>1. x = id <=> x.generation = gen
        BY <2>3 DEF EntityID
      <3>2. x \notin live
        BY <1>1, <2>2, <2>3
      <3>3. generations'[x.index] = gen
        BY <1>9, <2>1, <2>3
      <3> QED
        BY <1>4, <1>6, <3>1, <3>2, <3>3
    <2>4. CASE x.index # index
      <3>1. x # id
        BY <2>4
      <3>2. generations'[x.index] = generations[x.index]
        BY <1>9, <2>1, <2>4
      <3> QED
        BY <1>6, <2>2, <3>1, <3>2
    <2> QED
      BY <2>3, <2>4
  <1>14. RetiredInv'
    <2> SUFFICES ASSUME NEW x \in retired
                 PROVE  /\ x.generation < generations'[x.index]
                        /\ x.generation % 2 = 1
      BY <1>6 DEF RetiredInv
    <2>1. x.index \in Indices /\ x.generation \in Nat
      BY <1>1 DEF TypeOK, EntityID
    <2>2. x.generation < generations[x.index] /\ x.generation % 2 = 1
      BY <1>1 DEF RetiredInv
    <2>3. generations[x.index] \in Nat
      BY <1>1, <2>1, SlotFacts
    <2>4. generations'[x.index] >= generations[x.index]
      BY <1>3, <1>7, <1>9, <2>1, <2>3
    <2>5. generations'[x.index] \in Nat
      BY <1>3, <1>9, <2>1, <2>3
    <2> QED
      BY <2>1, <2>2, <2>3, <2>4, <2>5
  <1>15. CountInv' /\ alive' \in 0 .. Uint32 - 1
    <2>1. IsFiniteSet(live') /\ Cardinality(live') = Cardinality(live) + 1
      BY <1>1, <1>6, <1>10, FS_AddElement DEF CountInv
    <2>2. Cardinality(live) \in Nat
      BY <1>1, FS_CardinalityType DEF CountInv
    <2>3. alive = Cardinality(live) /\ Cardinality(live) <= creates
      BY <1>1 DEF CountInv
    <2>4. alive + 1 \in 0 .. Uint32 - 1
      BY <1>1, <1>2, <2>2, <2>3 DEF NoWrap
    <2>5. alive' = alive + 1
      BY <1>2, <1>6, <2>4, ModSmall
    <2> QED
      BY <1>2, <1>6, <2>1, <2>2, <2>3, <2>4, <2>5 DEF CountInv
  <1>16. /\ creates' \in 0 .. MaxCreates
         /\ live' \subseteq EntityID /\ retired' \subseteq EntityID
    BY <1>1, <1>2, <1>6, <1>8 DEF TypeOK
  <1> QED
    BY <1>6, <1>8, <1>9, <1>10, <1>11, <1>12, <1>13, <1>14, <1>15, <1>16 DEF gen

LEMMA RecycledKeepsInv ==
  ASSUME NoWrap, IInv, CreateRecycled
  PROVE  IInv' /\ \E id \in EntityID : Promise!Issue(id)
  <1> DEFINE index == free[Len(free)]
             id == [index |-> index, generation |-> generations[index] + 1]
  <1>1. /\ free # <<>> /\ Allocate(index) /\ slots' = slots
        /\ free' = SubSeq(free, 1, Len(free) - 1)
    BY DEF CreateRecycled
  <1>2. /\ free \in Seq(0 .. slots - 1) /\ slots \in 0 .. Uint32 /\ Uint32 \in Nat
        /\ FreeInv /\ BoundInv
    BY EntityRegistryAssumption DEF IInv, TypeOK
  <1>3. /\ Len(free) \in Nat /\ Len(free) >= 1 /\ Len(free) \in DOMAIN free
        /\ DOMAIN free = 1 .. Len(free)
    BY <1>1, <1>2
  <1>4. index \in 0 .. slots - 1
    BY <1>2, <1>3
  <1>5. index \in Indices /\ index < slots
    BY <1>2, <1>4 DEF Indices
  <1>6. IsFree(index)
    BY <1>3 DEF IsFree
  <1>7. generations[index] % 2 = 0
    BY <1>2, <1>5, <1>6 DEF FreeInv
  <1>8. /\ id \in EntityID /\ id \notin live \cup retired
        /\ live' = live \cup {id} /\ retired' = retired
        /\ generations' = [generations EXCEPT ![index] = id.generation]
        /\ \A i \in Indices : generations'[i] <= 2 * creates'
        /\ generations' \in [Indices -> 0 .. Uint32 - 1]
        /\ LiveInv' /\ RetiredInv' /\ CountInv'
        /\ alive' \in 0 .. Uint32 - 1 /\ creates' \in 0 .. MaxCreates
        /\ live' \subseteq EntityID /\ retired' \subseteq EntityID
    BY <1>1, <1>5, <1>7, AllocateKeepsInv DEF Allocate
  <1>9. /\ free' \in Seq(0 .. slots - 1) /\ DOMAIN free' = 1 .. Len(free) - 1
        /\ \A k \in 1 .. Len(free) - 1 : free'[k] = free[k]
    BY <1>1, <1>2, <1>3
  <1>10. TypeOK'
    BY <1>1, <1>2, <1>8, <1>9 DEF TypeOK
  <1>11. BoundInv'
    <2>1. creates' = creates + 1 /\ creates \in Nat
      BY <1>1, <1>5, SlotFacts DEF Allocate
    <2>2. slots <= creates'
      BY <1>2, <2>1 DEF BoundInv
    <2>3. \A i \in Indices : i >= slots => generations'[i] = 0
      BY <1>2, <1>5, <1>8 DEF BoundInv, Indices
    <2> QED
      BY <1>1, <1>8, <2>2, <2>3 DEF BoundInv
  <1> HIDE DEF index
  <1>12. FreeInv'
    <2>a. \A k, l \in 1 .. Len(free) : free[k] = free[l] => k = l
      BY <1>2, <1>3 DEF FreeInv
    <2>b. \A k \in 1 .. Len(free) - 1 : k \in 1 .. Len(free) /\ k # Len(free)
      <3>1. \A n \in Nat : \A k \in 1 .. n - 1 : k \in 1 .. n /\ k # n
        OBVIOUS
      <3> QED
        BY <1>3, <3>1
    <2>1. \A k, l \in DOMAIN free' : free'[k] = free'[l] => k = l
      <3> SUFFICES ASSUME NEW k \in 1 .. Len(free) - 1, NEW l \in 1 .. Len(free) - 1,
                          free'[k] = free'[l]
                   PROVE  k = l
        BY <1>9
      <3>1. free[k] = free[l]
        BY <1>9
      <3> QED
        BY <2>a, <2>b, <3>1
    <2>2. \A i \in Indices : IsFree(i)' <=> IsFree(i) /\ i # index
      <3>a. \A k \in 1 .. Len(free) - 1 : free[k] # index
        BY <1>3, <2>a, <2>b DEF index
      <3>1. \A i \in Indices : IsFree(i)' => IsFree(i) /\ i # index
        BY <1>3, <1>9, <2>b, <3>a DEF IsFree
      <3>2. \A k \in 1 .. Len(free) : free[k] # index => k \in 1 .. Len(free) - 1
        BY <1>3 DEF index
      <3>3. \A i \in Indices : IsFree(i) /\ i # index => IsFree(i)'
        BY <1>3, <1>9, <3>2 DEF IsFree
      <3> QED
        BY <3>1, <3>3
    <2>3. generations'[index] % 2 = 1
      <3>1. generations[index] \in Nat
        BY <1>5, SlotFacts
      <3>2. generations'[index] = generations[index] + 1
        BY <1>5, <1>8 DEF IInv, TypeOK
      <3> QED
        BY <1>7, <3>1, <3>2, Parity
    <2>4. \A i \in Indices : i # index => generations'[i] = generations[i]
      BY <1>8 DEF IInv, TypeOK
    <2>5. \A i \in Indices : IsFree(i)' <=> i < slots /\ generations'[i] % 2 = 0
      BY <1>2, <1>5, <2>2, <2>3, <2>4 DEF FreeInv
    <2> QED
      BY <1>1, <2>1, <2>5 DEF FreeInv
  <1>13. Promise!Issue(id)
    BY <1>8 DEF Promise!Issue
  <1> QED
    BY <1>8, <1>10, <1>11, <1>12, <1>13 DEF IInv

LEMMA FreshKeepsInv ==
  ASSUME NoWrap, IInv, CreateFresh
  PROVE  IInv' /\ \E id \in EntityID : Promise!Issue(id)
  <1> DEFINE id == [index |-> slots, generation |-> generations[slots] + 1]
  <1>1. /\ free = <<>> /\ Allocate(slots) /\ slots' = slots + 1 /\ free' = free
    BY DEF CreateFresh
  <1>2. /\ slots \in 0 .. Uint32 /\ Uint32 \in Nat /\ FreeInv /\ BoundInv
        /\ creates \in 0 .. MaxCreates /\ MaxCreates \in Nat /\ creates < MaxCreates
    BY <1>1, EntityRegistryAssumption DEF IInv, TypeOK, Allocate
  <1>3. slots \in Indices
    BY <1>2 DEF NoWrap, BoundInv, Indices
  <1>4. generations[slots] = 0 /\ generations[slots] % 2 = 0
    BY <1>2, <1>3 DEF BoundInv
  <1>5. /\ id \in EntityID /\ id \notin live \cup retired
        /\ live' = live \cup {id} /\ retired' = retired /\ creates' = creates + 1
        /\ generations' = [generations EXCEPT ![slots] = id.generation]
        /\ \A i \in Indices : generations'[i] <= 2 * creates'
        /\ generations' \in [Indices -> 0 .. Uint32 - 1]
        /\ LiveInv' /\ RetiredInv' /\ CountInv'
        /\ alive' \in 0 .. Uint32 - 1 /\ creates' \in 0 .. MaxCreates
        /\ live' \subseteq EntityID /\ retired' \subseteq EntityID
    BY <1>1, <1>3, <1>4, AllocateKeepsInv DEF Allocate
  <1>6. slots' \in 0 .. Uint32
    BY <1>1, <1>2, <1>3 DEF Indices
  <1>7. TypeOK'
    <2>1. free' \in Seq(0 .. slots' - 1)
      BY <1>1
    <2> QED
      BY <1>5, <1>6, <2>1 DEF TypeOK
  <1>8. \A i \in Indices :
          generations'[i] = IF i = slots THEN 1 ELSE generations[i]
    BY <1>3, <1>4, <1>5 DEF IInv, TypeOK
  <1>9. BoundInv'
    <2>1. slots' <= creates'
      BY <1>1, <1>2, <1>5 DEF BoundInv
    <2>2. \A i \in Indices : i >= slots' => generations'[i] = 0
      BY <1>1, <1>2, <1>8 DEF BoundInv, Indices
    <2> QED
      BY <1>5, <2>1, <2>2 DEF BoundInv
  <1>10. FreeInv'
    <2>1. \A i \in Indices : ~IsFree(i)'
      BY <1>1 DEF IsFree
    <2>2. \A i \in Indices : i < slots => generations[i] % 2 # 0
      BY <1>1, <1>2 DEF FreeInv, IsFree
    <2>3. \A i \in Indices : i < slots' => i < slots \/ i = slots
      BY <1>1, <1>2 DEF Indices
    <2>4. \A i \in Indices : i < slots' => generations'[i] % 2 # 0
      BY <1>8, <2>2, <2>3
    <2> QED
      BY <1>1, <2>1, <2>4 DEF FreeInv
  <1>11. Promise!Issue(id)
    BY <1>5 DEF Promise!Issue
  <1> QED
    BY <1>5, <1>7, <1>9, <1>10, <1>11 DEF IInv

LEMMA DestroyKeepsInv ==
  ASSUME NoWrap, OddComposed, IInv, NEW id \in Known, Destroy(id)
  PROVE  IInv' /\ id \in EntityID /\ Promise!Retire(id)
  <1> DEFINE index == id.index
             gen   == generations[index] + 1
  <1>0. TypeOK /\ BoundInv /\ LiveInv /\ FreeInv /\ RetiredInv /\ CountInv
    BY DEF IInv
  <1>1. id \in EntityID
    BY <1>0, EntityRegistryAssumption DEF Known, Zero, EntityID, Indices, TypeOK
  <1>2. index \in Indices /\ id.generation \in Nat
    BY <1>1 DEF EntityID
  <1>3. /\ id # Zero /\ index < slots /\ generations[index] = id.generation
        /\ alive' = (alive - 1) % Uint32
        /\ generations' = [generations EXCEPT ![index] = Bump(index)]
        /\ free' = Append(free, index)
        /\ live' = live \ {id} /\ retired' = retired \cup {id}
        /\ slots' = slots /\ creates' = creates
    BY DEF Destroy, IsAlive, IsAliveLocked, FreeIndex
  <1>4. id \in live /\ id.generation % 2 = 1
    <2>1. CASE id \in live
      BY <1>0, <1>1, <2>1 DEF LiveInv
    <2>2. CASE id \in retired
      BY <1>0, <1>2, <1>3, <2>2 DEF RetiredInv
    <2>3. CASE id \in Composed
      BY <1>0, <1>1, <1>3, <2>3 DEF OddComposed, LiveInv
    <2> QED
      BY <1>3, <2>1, <2>2, <2>3 DEF Known
  <1>5. /\ generations[index] \in Nat /\ generations[index] <= 2 * creates
        /\ creates \in Nat /\ MaxCreates \in Nat /\ Uint32 \in Nat /\ slots \in Nat
        /\ creates <= MaxCreates
    BY <1>0, <1>2, SlotFacts DEF TypeOK
  <1>6. gen <= 2 * creates /\ gen % 2 = 0 /\ gen \in 0 .. Uint32 - 1 /\ gen \in Nat
    <2>1. gen <= 2 * creates /\ gen % 2 = 0
      BY <1>3, <1>4, <1>5, Parity
    <2> QED
      BY <1>5, <2>1 DEF NoWrap
  <1>7. Bump(index) = gen
    BY <1>5, <1>6, ModSmall DEF Bump
  <1>d. gen = id.generation + 1
    BY <1>3
  <1> HIDE DEF gen
  <1>8. /\ generations' \in [Indices -> 0 .. Uint32 - 1]
        /\ \A i \in Indices : generations'[i] = IF i = index THEN gen ELSE generations[i]
    BY <1>0, <1>3, <1>6, <1>7 DEF TypeOK
  <1>9. IsFiniteSet(live') /\ Cardinality(live') = Cardinality(live) - 1
        /\ Cardinality(live) \in Nat /\ Cardinality(live') \in Nat
    BY <1>0, <1>3, <1>4, FS_RemoveElement, FS_CardinalityType DEF CountInv
  <1>10. CountInv' /\ alive' \in 0 .. Uint32 - 1
    <2>1. alive - 1 \in 0 .. Uint32 - 1
      BY <1>0, <1>5, <1>9 DEF CountInv, NoWrap
    <2>2. alive' = alive - 1
      BY <1>3, <1>5, <2>1, ModSmall
    <2> QED
      BY <1>0, <1>3, <1>5, <1>9, <2>1, <2>2 DEF CountInv
  <1>11. index \in 0 .. slots - 1
    BY <1>2, <1>3, <1>5 DEF Indices
  <1>12. free \in Seq(0 .. slots - 1)
    BY <1>0 DEF TypeOK
  <1>13. /\ free' \in Seq(0 .. slots - 1)
         /\ DOMAIN free = 1 .. Len(free) /\ Len(free) \in Nat
         /\ DOMAIN free' = 1 .. Len(free) + 1
         /\ free'[Len(free) + 1] = index
         /\ \A k \in 1 .. Len(free) : free'[k] = free[k]
    BY <1>3, <1>11, <1>12
  <1>14. TypeOK'
    BY <1>0, <1>1, <1>3, <1>8, <1>10, <1>13 DEF TypeOK
  <1>15. BoundInv'
    <2>1. \A i \in Indices : i >= slots => i # index
      BY <1>3, <1>5 DEF Indices
    <2> QED
      BY <1>0, <1>3, <1>6, <1>8, <2>1 DEF BoundInv
  <1>16. LiveInv'
    <2> SUFFICES ASSUME NEW x \in EntityID
                 PROVE  x \in live' <=> /\ generations'[x.index] = x.generation
                                        /\ x.generation % 2 = 1
      BY DEF LiveInv
    <2>1. x.index \in Indices
      BY DEF EntityID
    <2>2. x \in live <=> generations[x.index] = x.generation /\ x.generation % 2 = 1
      BY <1>0 DEF LiveInv
    <2>3. CASE x.index = index
      <3>1. x = id <=> x.generation = id.generation
        BY <1>1, <2>3 DEF EntityID
      <3>2. generations'[x.index] = gen
        BY <1>8, <2>1, <2>3
      <3>3. x \notin live'
        BY <1>3, <2>2, <2>3, <3>1
      <3> QED
        BY <1>6, <3>2, <3>3
    <2>4. CASE x.index # index
      <3>1. x # id
        BY <2>4
      <3>2. generations'[x.index] = generations[x.index]
        BY <1>8, <2>1, <2>4
      <3> QED
        BY <1>3, <2>2, <3>1, <3>2
    <2> QED
      BY <2>3, <2>4
  <1>17. RetiredInv'
    <2> SUFFICES ASSUME NEW x \in retired'
                 PROVE  /\ x.generation < generations'[x.index]
                        /\ x.generation % 2 = 1
      BY DEF RetiredInv
    <2>1. CASE x = id
      BY <1>2, <1>4, <1>8, <1>d, <2>1
    <2>2. CASE x \in retired
      <3>1. x.index \in Indices /\ x.generation \in Nat
        BY <1>0, <2>2 DEF TypeOK, EntityID
      <3>2. x.generation < generations[x.index] /\ x.generation % 2 = 1
        BY <1>0, <2>2 DEF RetiredInv
      <3>3. CASE x.index = index
        BY <1>2, <1>3, <1>d, <1>8, <3>1, <3>2, <3>3
      <3>4. CASE x.index # index
        BY <1>8, <3>1, <3>2, <3>4
      <3> QED
        BY <3>3, <3>4
    <2> QED
      BY <1>3, <2>1, <2>2
  <1> HIDE DEF index
  <1>18. FreeInv'
    <2>1. ~IsFree(index)
      BY <1>0, <1>2, <1>3, <1>4 DEF FreeInv
    <2>2. \A k, l \in DOMAIN free' : free'[k] = free'[l] => k = l
      <3>1. \A k \in 1 .. Len(free) : free'[k] # index
        BY <1>13, <2>1 DEF IsFree
      <3>2. \A k \in DOMAIN free' : k \in 1 .. Len(free) \/ k = Len(free) + 1
        BY <1>13
      <3> QED
        BY <1>0, <1>13, <3>1, <3>2 DEF FreeInv
    <2>3. \A i \in Indices : IsFree(i)' <=> IsFree(i) \/ i = index
      <3>1. IsFree(index)'
        <4>1. Len(free) + 1 \in DOMAIN free'
          BY <1>13
        <4> QED
          BY <1>13, <4>1 DEF IsFree
      <3>2. \A i \in Indices : IsFree(i) => IsFree(i)'
        <4>1. \A k \in 1 .. Len(free) : k \in DOMAIN free'
          BY <1>13
        <4> QED
          BY <1>13, <4>1 DEF IsFree
      <3>3. \A i \in Indices : IsFree(i)' => IsFree(i) \/ i = index
        <4>1. \A k \in DOMAIN free' : k \in 1 .. Len(free) \/ k = Len(free) + 1
          BY <1>13
        <4> QED
          BY <1>13, <4>1 DEF IsFree
      <3> QED
        BY <3>1, <3>2, <3>3
    <2>4. \A i \in Indices : IsFree(i)' <=> i < slots /\ generations'[i] % 2 = 0
      BY <1>0, <1>2, <1>3, <1>6, <1>8, <2>3 DEF FreeInv
    <2> QED
      BY <1>3, <2>2, <2>4 DEF FreeInv
  <1>19. Promise!Retire(id)
    BY <1>3, <1>4 DEF Promise!Retire
  <1> QED
    BY <1>1, <1>10, <1>14, <1>15, <1>16, <1>17, <1>18, <1>19 DEF IInv

LEMMA StepInv ==
  ASSUME NoWrap, OddComposed, IInv, [Next]_vars
  PROVE  IInv' /\ [Promise!Next]_(Promise!handleVars)
  <1>1. CASE CreateRecycled
    BY <1>1, RecycledKeepsInv DEF Promise!Next
  <1>2. CASE CreateFresh
    BY <1>2, FreshKeepsInv DEF Promise!Next
  <1>3. CASE \E id \in Known : Destroy(id)
    BY <1>3, DestroyKeepsInv DEF Promise!Next
  <1>4. CASE UNCHANGED vars
    BY <1>4 DEF vars, IInv, TypeOK, BoundInv, LiveInv, FreeInv, IsFree, RetiredInv,
                CountInv, Promise!handleVars
  <1> QED
    BY <1>1, <1>2, <1>3, <1>4 DEF Next, DestroyRefused

(* The variables of the registry keep their types.                         *)
THEOREM TypeCorrect ==
  ASSUME NoWrap, OddComposed
  PROVE  Spec => []TypeOK
  <1>1. IInv => TypeOK
    BY DEF IInv
  <1>2. IInv /\ [Next]_vars => IInv'
    BY StepInv
  <1> QED
    BY <1>1, <1>2, InitInv, PTL DEF Spec

(* The registry never takes one entity for another: of all identifiers it  *)
(* ever handed out, exactly those of the entities there are are alive.     *)
THEOREM LookupIsAlwaysExact ==
  ASSUME NoWrap, OddComposed
  PROVE  Spec => []LookupIsExact
  <1>1. IInv => LookupIsExact
    <2> SUFFICES ASSUME IInv PROVE LookupIsExact
      OBVIOUS
    <2>1. TypeOK /\ LiveInv /\ RetiredInv /\ BoundInv
      BY DEF IInv
    <2>2. Zero \notin live
      BY <2>1 DEF TypeOK, LiveInv, Zero
    <2>3. ASSUME NEW id \in live PROVE IsAlive(id)
      <3>1. id \in EntityID
        BY <2>1 DEF TypeOK
      <3>2. id.index \in Indices /\ id.generation \in Nat
        BY <3>1 DEF EntityID
      <3>3. generations[id.index] = id.generation /\ id.generation % 2 = 1
        BY <2>1, <3>1 DEF LiveInv
      <3>4. ~(id.index >= slots)
        BY <2>1, <3>2, <3>3 DEF BoundInv
      <3>5. id.index < slots
        BY <2>1, <3>2, <3>4, EntityRegistryAssumption DEF TypeOK, Indices
      <3> QED
        BY <2>2, <3>3, <3>5 DEF IsAlive, IsAliveLocked
    <2>4. ASSUME NEW id \in retired PROVE ~IsAlive(id) /\ id \notin live
      <3>1. id \in EntityID /\ id.generation < generations[id.index]
        BY <2>1 DEF TypeOK, RetiredInv
      <3>2. generations[id.index] # id.generation
        BY <3>1, SlotFacts DEF EntityID
      <3> QED
        BY <2>1, <3>1, <3>2 DEF IsAlive, IsAliveLocked, LiveInv
    <2> QED
      BY <2>2, <2>3, <2>4 DEF LookupIsExact
  <1>2. IInv /\ [Next]_vars => IInv'
    BY StepInv
  <1> QED
    BY <1>1, <1>2, InitInv, PTL DEF Spec

(* The free list has each free slot once and no other, no two entities     *)
(* share a slot, and Count counts the entities.                            *)
THEOREM FreeListIsAlwaysExact ==
  ASSUME NoWrap, OddComposed
  PROVE  Spec => []FreeListIsExact
  <1>1. IInv => FreeListIsExact
    <2> SUFFICES ASSUME IInv PROVE FreeListIsExact
      OBVIOUS
    <2>1. TypeOK /\ LiveInv /\ FreeInv /\ CountInv /\ BoundInv
      BY DEF IInv
    <2>2. ASSUME NEW i \in 0 .. slots - 1
          PROVE  IsFree(i) <=> ~\E id \in live : id.index = i
      <3>1. i \in Indices /\ i < slots /\ generations[i] \in 0 .. Uint32 - 1
        BY <2>1, EntityRegistryAssumption DEF TypeOK, Indices
      <3>2. IsFree(i) <=> generations[i] % 2 = 0
        BY <2>1, <3>1 DEF FreeInv
      <3>3. generations[i] % 2 \in {0, 1}
        BY <3>1, EntityRegistryAssumption
      <3>4. ASSUME NEW id \in live, id.index = i PROVE generations[i] % 2 = 1
        <4>1. id \in EntityID
          BY <2>1 DEF TypeOK
        <4> QED
          BY <2>1, <3>4, <4>1 DEF LiveInv
      <3>5. ASSUME generations[i] % 2 = 1 PROVE \E id \in live : id.index = i
        <4> DEFINE tenant == [index |-> i, generation |-> generations[i]]
        <4>1. tenant \in EntityID
          BY <3>1 DEF EntityID
        <4>2. tenant \in live
          BY <2>1, <3>5, <4>1 DEF LiveInv
        <4> QED
          BY <4>2
      <3> QED
        BY <3>2, <3>3, <3>4, <3>5
    <2>3. ASSUME NEW id1 \in live, NEW id2 \in live, id1.index = id2.index
          PROVE  id1 = id2
      <3>1. id1 \in EntityID /\ id2 \in EntityID
        BY <2>1 DEF TypeOK
      <3>2. id1.generation = id2.generation
        BY <2>1, <2>3, <3>1 DEF LiveInv
      <3> QED
        BY <2>3, <3>1, <3>2 DEF EntityID
    <2> QED
      BY <2>1, <2>2, <2>3 DEF FreeListIsExact, FreeInv, IsFree, CountInv
  <1>2. IInv /\ [Next]_vars => IInv'
    BY StepInv
  <1> QED
    BY <1>1, <1>2, InitInv, PTL DEF Spec

(* An identifier is issued once and is stale for ever once its entity was  *)
(* destroyed: the registry implements EntityHandles.                       *)
THEOREM HandlesAreAlwaysKept ==
  ASSUME NoWrap, OddComposed
  PROVE  Spec => HandlesAreKept
  <1>1. IInv /\ [Next]_vars => IInv' /\ [Promise!Next]_(Promise!handleVars)
    BY StepInv
  <1>2. Init => Promise!Init
    BY DEF Init, Promise!Init
  <1> QED
    BY <1>1, <1>2, InitInv, PTL DEF Spec, HandlesAreKept, Promise!Spec
=============================================================================
