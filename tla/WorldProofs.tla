---------------------------- MODULE WorldProofs -----------------------------
(***************************************************************************)
(* Theorems about World, for any number of slots, calls and commands, also *)
(* when generations wrap: the dense store counts what it has and is a map, *)
(* and Get only ever returns what was added to that very identifier.       *)
(***************************************************************************)
EXTENDS World, FiniteSetTheorems, TLAPS

Ids == Registry!EntityID

LEMMA SameIds ==
  /\ Store!EntityID = Ids /\ Store!Zero = Registry!Zero
  /\ Registry!Indices = 0 .. Uint32 - 1
  /\ Registry!Zero \in Ids
  BY WorldAssumption DEF Ids, Store!EntityID, Store!Indices, Store!Zero,
     Registry!EntityID, Registry!Indices, Registry!Zero

-----------------------------------------------------------------------------
(* The dense store.                                                        *)
Occupied == {i \in DOMAIN dense : dense[i].occupied}

DenseInv ==
  /\ Store!TypeOK
  /\ Store!CountIsExact
  /\ DOMAIN dense \subseteq 1 .. Uint32

(* The slots but that of an identifier are left as they are; those that    *)
(* are new are free.                                                       *)
OnlySlotOf(id) ==
  /\ dense' \in Seq(Store!Slot)
  /\ DOMAIN dense \subseteq DOMAIN dense'
  /\ \A i \in DOMAIN dense' :
       i # id.index + 1 =>
         \/ i \in DOMAIN dense /\ dense'[i] = dense[i]
         \/ i \notin DOMAIN dense /\ dense'[i] = Store!NewSlot

LEMMA SameCardinality == \A S : Store!Cardinality(S) = Cardinality(S)
  BY DEF Store!Cardinality, Cardinality

LEMMA NewSlotIsFree ==
  Store!NewSlot \in Store!Slot /\ ~Store!NewSlot.occupied /\ Store!NewSlot.value = NoValue
  BY WorldAssumption DEF Store!NewSlot, Store!Slot

LEMMA GrownFacts ==
  ASSUME Store!TypeOK, NEW index \in Nat
  PROVE  LET grown == Store!Grown(index)
         IN  /\ grown \in Seq(Store!Slot)
             /\ index + 1 \in DOMAIN grown
             /\ DOMAIN grown \subseteq DOMAIN dense \cup 1 .. index + 1
             /\ DOMAIN dense \subseteq DOMAIN grown
             /\ \A i \in DOMAIN dense : grown[i] = dense[i]
             /\ \A i \in DOMAIN grown \ DOMAIN dense : grown[i] = Store!NewSlot
  <1> DEFINE more == [i \in 1 .. index + 1 - Len(dense) |-> Store!NewSlot]
  <1>1. dense \in Seq(Store!Slot) /\ Len(dense) \in Nat /\ DOMAIN dense = 1 .. Len(dense)
    BY DEF Store!TypeOK
  <1>2. CASE index < Len(dense)
    BY <1>1, <1>2 DEF Store!Grown
  <1>3. CASE ~(index < Len(dense))
    <2>1. index + 1 - Len(dense) \in Nat
      BY <1>1, <1>3
    <2>2. /\ more \in Seq(Store!Slot) /\ Len(more) = index + 1 - Len(dense)
          /\ \A i \in 1 .. Len(more) : more[i] = Store!NewSlot
      BY <2>1, NewSlotIsFree
    <2>3. Store!Grown(index) = dense \o more
      BY <1>3 DEF Store!Grown
    <2> HIDE DEF more
    <2>4. /\ dense \o more \in Seq(Store!Slot)
          /\ Len(dense \o more) = index + 1
          /\ DOMAIN (dense \o more) = 1 .. index + 1
      BY <1>1, <2>1, <2>2
    <2>5. \A i \in 1 .. index + 1 :
            (dense \o more)[i] = IF i <= Len(dense) THEN dense[i] ELSE more[i - Len(dense)]
      BY <1>1, <2>1, <2>2, <2>4
    <2>6. \A i \in 1 .. index + 1 : ~(i <= Len(dense)) => i - Len(dense) \in 1 .. Len(more)
      BY <1>1, <2>1, <2>2
    <2> QED
      BY <1>1, <1>3, <2>2, <2>3, <2>4, <2>5, <2>6
  <1> QED
    BY <1>2, <1>3

LEMMA OccupiedIsFinite ==
  ASSUME Store!TypeOK
  PROVE  IsFiniteSet(Occupied)
  <1>1. IsFiniteSet(1 .. Len(dense)) /\ Occupied \subseteq 1 .. Len(dense)
    BY FS_Interval DEF Store!TypeOK, Occupied
  <1> QED
    BY <1>1, FS_Subset

LEMMA SetOccupies ==
  ASSUME DenseInv, NEW id \in Ids, NEW value \in Values, Store!Set(id, value)
  PROVE  /\ OnlySlotOf(id)
         /\ id.index + 1 \in DOMAIN dense'
         /\ dense'[id.index + 1] =
              [generation |-> id.generation, value |-> value, occupied |-> TRUE]
         /\ DenseInv'
  <1> DEFINE slot  == id.index + 1
             grown == Store!Grown(id.index)
             new   == [generation |-> id.generation, value |-> value, occupied |-> TRUE]
  <1>1. id.index \in Nat /\ id.generation \in 0 .. Uint32 - 1
    BY WorldAssumption DEF Ids, Registry!EntityID, Registry!Indices
  <1>2. Store!TypeOK /\ Store!CountIsExact
    BY DEF DenseInv
  <1>3. /\ grown \in Seq(Store!Slot) /\ slot \in DOMAIN grown
        /\ DOMAIN dense \subseteq DOMAIN grown
        /\ DOMAIN grown \subseteq DOMAIN dense \cup 1 .. slot
        /\ \A i \in DOMAIN dense : grown[i] = dense[i]
        /\ \A i \in DOMAIN grown \ DOMAIN dense : grown[i] = Store!NewSlot
    BY <1>1, <1>2, GrownFacts
  <1>4. /\ count' = IF grown[slot].occupied THEN count ELSE count + 1
        /\ dense' = [grown EXCEPT ![slot] = new]
    BY DEF Store!Set
  <1>5. new \in Store!Slot
    BY <1>1 DEF Store!Slot
  <1> HIDE DEF grown
  <1>6. /\ dense' \in Seq(Store!Slot) /\ DOMAIN dense' = DOMAIN grown
        /\ \A i \in DOMAIN grown : dense'[i] = IF i = slot THEN new ELSE grown[i]
    BY <1>3, <1>4, <1>5
  <1>7. OnlySlotOf(id)
    BY <1>3, <1>6 DEF OnlySlotOf
  <1>8. slot \in DOMAIN dense' /\ dense'[slot] = new
    BY <1>3, <1>6
  <1>9. Occupied' = Occupied \cup {slot}
    <2>1. \A i \in DOMAIN dense' : i # slot =>
            (dense'[i].occupied <=> i \in DOMAIN dense /\ dense[i].occupied)
      BY <1>7, NewSlotIsFree DEF OnlySlotOf
    <2>2. DOMAIN dense \subseteq DOMAIN dense' /\ dense'[slot].occupied
      BY <1>3, <1>6, <1>8
    <2> QED
      BY <1>8, <2>1, <2>2 DEF Occupied
  <1>10. slot \in Occupied <=> grown[slot].occupied
    BY <1>3, NewSlotIsFree DEF Occupied
  <1>11. IsFiniteSet(Occupied) /\ count = Cardinality(Occupied)
    BY <1>2, OccupiedIsFinite, SameCardinality DEF Store!CountIsExact, Occupied
  <1>12. count' = Cardinality(Occupied')
    <2>1. CASE slot \in Occupied
      <3>1. Occupied' = Occupied
        BY <1>9, <2>1
      <3> QED
        BY <1>4, <1>10, <1>11, <2>1, <3>1
    <2>2. CASE slot \notin Occupied
      BY <1>4, <1>9, <1>10, <1>11, <2>2, FS_AddElement
    <2> QED
      BY <2>1, <2>2
  <1>13. \A i \in DOMAIN dense' : dense'[i].occupied <=> dense'[i].value # NoValue
    <2>1. value # NoValue
      BY WorldAssumption
    <2> QED
      BY <1>2, <1>3, <1>6, <2>1, NewSlotIsFree DEF Store!CountIsExact
  <1>14. count' \in Nat
    BY <1>2, <1>4 DEF Store!TypeOK
  <1>15. DOMAIN dense' \subseteq 1 .. Uint32
    <2>1. slot \in 1 .. Uint32
      BY WorldAssumption DEF Ids, Registry!EntityID, Registry!Indices
    <2> QED
      BY <1>1, <1>3, <1>6, <2>1, WorldAssumption DEF DenseInv
  <1> QED
    BY <1>6, <1>7, <1>8, <1>12, <1>13, <1>14, <1>15, SameCardinality
    DEF DenseInv, Store!TypeOK, Store!CountIsExact, Occupied

LEMMA RemoveFrees ==
  ASSUME DenseInv, NEW id \in Ids, Store!Remove(id)
  PROVE  /\ OnlySlotOf(id)
         /\ DOMAIN dense' = DOMAIN dense
         /\ id.index + 1 \in DOMAIN dense /\ dense[id.index + 1].occupied
         /\ dense[id.index + 1].generation = id.generation
         /\ ~dense'[id.index + 1].occupied
         /\ DenseInv'
  <1> DEFINE slot == id.index + 1
             old  == [dense[slot] EXCEPT !.occupied = FALSE, !.value = NoValue]
  <1>1. id.index \in Nat
    BY WorldAssumption DEF Ids, Registry!EntityID, Registry!Indices
  <1>2. /\ Store!TypeOK /\ Store!CountIsExact
        /\ dense \in Seq(Store!Slot) /\ count \in Nat
    BY DEF DenseInv, Store!TypeOK
  <1>3. slot \in DOMAIN dense /\ dense[slot].occupied
        /\ dense[slot].generation = id.generation
    BY <1>1, <1>2 DEF Store!Remove, Store!Has
  <1>4. dense[slot] \in Store!Slot
    BY <1>2, <1>3
  <1>5. old \in Store!Slot /\ ~old.occupied /\ old.value = NoValue
    BY <1>4 DEF Store!Slot
  <1>6. dense' = [dense EXCEPT ![slot] = old] /\ count' = count - 1
    BY <1>2, <1>3, <1>4 DEF Store!Remove, Store!Slot
  <1> HIDE DEF old
  <1>7. /\ dense' \in Seq(Store!Slot) /\ DOMAIN dense' = DOMAIN dense
        /\ \A i \in DOMAIN dense : dense'[i] = IF i = slot THEN old ELSE dense[i]
    BY <1>2, <1>3, <1>5, <1>6
  <1>8. OnlySlotOf(id)
    BY <1>7 DEF OnlySlotOf
  <1>9. Occupied' = Occupied \ {slot} /\ slot \in Occupied
    BY <1>3, <1>5, <1>7 DEF Occupied
  <1>10. IsFiniteSet(Occupied) /\ count = Cardinality(Occupied)
    BY <1>2, OccupiedIsFinite, SameCardinality DEF Store!CountIsExact, Occupied
  <1>11. count' = Cardinality(Occupied')
    BY <1>6, <1>9, <1>10, FS_RemoveElement
  <1>12. \A i \in DOMAIN dense' : dense'[i].occupied <=> dense'[i].value # NoValue
    BY <1>2, <1>5, <1>7 DEF Store!CountIsExact
  <1>13. count' \in Nat
    BY <1>9, <1>10, <1>11, FS_RemoveElement, FS_CardinalityType
  <1> QED
    BY <1>3, <1>5, <1>7, <1>8, <1>11, <1>12, <1>13, SameCardinality
    DEF DenseInv, Store!TypeOK, Store!CountIsExact, Occupied

LEMMA ClearEmpties ==
  ASSUME DenseInv, Store!Clear
  PROVE  DenseInv' /\ \A i \in DOMAIN dense' : ~dense'[i].occupied
  <1>1. dense \in Seq(Store!Slot) /\ DOMAIN dense = 1 .. Len(dense) /\ Len(dense) \in Nat
    BY DEF DenseInv, Store!TypeOK
  <1>2. dense' = [i \in 1 .. Len(dense) |-> Store!NewSlot] /\ count' = 0
    BY <1>1 DEF Store!Clear
  <1>3. /\ dense' \in Seq(Store!Slot) /\ DOMAIN dense' = 1 .. Len(dense)
        /\ \A i \in DOMAIN dense' : dense'[i] = Store!NewSlot
    BY <1>1, <1>2, NewSlotIsFree
  <1>4. \A i \in DOMAIN dense' : ~dense'[i].occupied /\ dense'[i].value = NoValue
    BY <1>3, NewSlotIsFree
  <1>5. {i \in DOMAIN dense' : dense'[i].occupied} = {}
    BY <1>4
  <1>6. DOMAIN dense' \subseteq 1 .. Uint32
    BY <1>1, <1>3 DEF DenseInv
  <1> QED
    BY <1>2, <1>3, <1>4, <1>5, <1>6, FS_EmptySet, SameCardinality
    DEF DenseInv, Store!TypeOK, Store!CountIsExact

-----------------------------------------------------------------------------
(* The map that the dense store is.                                        *)
LEMMA HasIsOfSlot ==
  ASSUME dense \in Seq(Store!Slot), NEW id \in Ids
  PROVE  Store!Has(id) <=> /\ id.index + 1 \in DOMAIN dense
                           /\ dense[id.index + 1].occupied
                           /\ dense[id.index + 1].generation = id.generation
  <1>1. id.index \in Nat
    BY WorldAssumption DEF Ids, Registry!EntityID, Registry!Indices
  <1> QED
    BY <1>1 DEF Store!Has

LEMMA VisitedIsHad ==
  ASSUME DenseInv
  PROVE  Store!Visited = {id \in Ids : Store!Has(id)}
  <1>1. dense \in Seq(Store!Slot) /\ DOMAIN dense \subseteq 1 .. Uint32
    BY DEF DenseInv, Store!TypeOK
  <1>2. ASSUME NEW i \in DOMAIN dense, dense[i].occupied
        PROVE  Store!IdOf(i) \in Ids /\ Store!Has(Store!IdOf(i))
    <2>1. /\ i \in 1 .. Uint32 /\ dense[i] \in Store!Slot
          /\ i - 1 \in 0 .. Uint32 - 1 /\ i - 1 + 1 = i
      BY <1>1, WorldAssumption
    <2>2. Store!IdOf(i) \in Ids
      BY <2>1 DEF Store!IdOf, Store!Slot, Ids, Registry!EntityID, Registry!Indices
    <2>3. Store!IdOf(i).index + 1 = i /\ Store!IdOf(i).generation = dense[i].generation
      BY <2>1 DEF Store!IdOf
    <2> QED
      BY <1>1, <1>2, <2>2, <2>3, HasIsOfSlot
  <1>3. ASSUME NEW id \in Ids, Store!Has(id)
        PROVE  \E i \in DOMAIN dense : dense[i].occupied /\ id = Store!IdOf(i)
    <2>1. PICK i \in DOMAIN dense : /\ i = id.index + 1 /\ dense[i].occupied
                                    /\ dense[i].generation = id.generation
      BY <1>1, <1>3, HasIsOfSlot
    <2>2. id = [index |-> i - 1, generation |-> id.generation]
      BY <2>1, WorldAssumption DEF Ids, Registry!EntityID, Registry!Indices
    <2>3. id = Store!IdOf(i)
      BY <2>1, <2>2 DEF Store!IdOf
    <2> QED
      BY <2>1, <2>3
  <1> QED
    BY <1>2, <1>3 DEF Store!Visited

(* Which identifiers have a value, and which value.                        *)
Value(id) == dense[id.index + 1].value

LEMMA OtherSlotsAreKept ==
  ASSUME DenseInv, NEW id \in Ids, OnlySlotOf(id), NEW x \in Ids, x.index # id.index
  PROVE  /\ Store!Has(x)' <=> Store!Has(x)
         /\ Store!Has(x) => Value(x)' = Value(x)
  <1>1. dense \in Seq(Store!Slot) /\ dense' \in Seq(Store!Slot)
    BY DEF DenseInv, Store!TypeOK, OnlySlotOf
  <1>2. x.index + 1 # id.index + 1
    BY WorldAssumption DEF Ids, Registry!EntityID, Registry!Indices
  <1>3. Store!Has(x) <=> /\ x.index + 1 \in DOMAIN dense
                         /\ dense[x.index + 1].occupied
                         /\ dense[x.index + 1].generation = x.generation
    BY <1>1, HasIsOfSlot
  <1>4. Store!Has(x)' <=> /\ x.index + 1 \in DOMAIN dense'
                          /\ dense'[x.index + 1].occupied
                          /\ dense'[x.index + 1].generation = x.generation
    <2>1. x.index \in Nat
      BY WorldAssumption DEF Ids, Registry!EntityID, Registry!Indices
    <2> QED
      BY <1>1, <2>1 DEF Store!Has
  <1> QED
    BY <1>2, <1>3, <1>4, NewSlotIsFree DEF OnlySlotOf, Value

Had == {id \in Ids : Store!Has(id)}

ContentsAreHad == Store!Contents = [id \in Had |-> Value(id)]

LEMMA ContentsAreValues == DenseInv => ContentsAreHad
  BY VisitedIsHad DEF Store!Contents, Value, Had, ContentsAreHad

LEMMA ContentsAreValuesNext == DenseInv' => ContentsAreHad'
  BY ContentsAreValues, PTL

LEMMA RivalsShareSlot ==
  ASSUME NEW id \in Ids
  PROVE  Store!Rivals[id] = {x \in Ids : x.index = id.index /\ x # id}
  BY SameIds DEF Store!Rivals

LEMMA SetIsOfMap ==
  ASSUME DenseInv, NEW id \in Ids, NEW value \in Values, Store!Set(id, value)
  PROVE  /\ DenseInv'
         /\ Had' = (Had \ Store!Rivals[id]) \cup {id}
         /\ \A x \in Had' : Value(x)' = IF x = id THEN value ELSE Value(x)
         /\ Store!Promise!Set(id, value)
  <1>1. /\ DenseInv' /\ OnlySlotOf(id) /\ id.index + 1 \in DOMAIN dense'
        /\ dense'[id.index + 1] =
             [generation |-> id.generation, value |-> value, occupied |-> TRUE]
    BY SetOccupies
  <1>2. \A x \in Ids : x.index = id.index =>
          (Store!Has(x)' <=> x = id) /\ Value(id)' = value
    <2> SUFFICES ASSUME NEW x \in Ids, x.index = id.index
                 PROVE  (Store!Has(x)' <=> x = id) /\ Value(id)' = value
      OBVIOUS
    <2>1. x.index \in Nat /\ dense' \in Seq(Store!Slot)
      BY <1>1, WorldAssumption
      DEF Ids, Registry!EntityID, Registry!Indices, OnlySlotOf
    <2>2. Store!Has(x)' <=> x.generation = id.generation
      BY <1>1, <2>1 DEF Store!Has
    <2>3. x = id <=> x.generation = id.generation
      BY DEF Ids, Registry!EntityID
    <2> QED
      BY <1>1, <2>2, <2>3 DEF Value
  <1>3. \A x \in Ids : x.index # id.index =>
          /\ Store!Has(x)' <=> Store!Has(x)
          /\ Store!Has(x) => Value(x)' = Value(x)
    BY <1>1, OtherSlotsAreKept
  <1>4. Had' = (Had \ Store!Rivals[id]) \cup {id}
    BY <1>2, <1>3, RivalsShareSlot DEF Had
  <1>5. \A x \in Had' : Value(x)' = IF x = id THEN value ELSE Value(x)
    BY <1>2, <1>3 DEF Had
  <1>6. \A x \in Had \ Store!Rivals[id] : x = id \/ Store!Contents[x] = Value(x)
    BY ContentsAreValues DEF ContentsAreHad
  <1>7. Store!Contents' =
          [x \in (DOMAIN Store!Contents \ Store!Rivals[id]) \cup {id} |->
             IF x = id THEN value ELSE Store!Contents[x]]
    BY <1>1, <1>4, <1>5, <1>6, ContentsAreValues, ContentsAreValuesNext DEF ContentsAreHad
  <1> QED
    BY <1>1, <1>4, <1>5, <1>7 DEF Store!Promise!Set

LEMMA RemoveIsOfMap ==
  ASSUME DenseInv, NEW id \in Ids, Store!Remove(id)
  PROVE  /\ DenseInv'
         /\ Had' = Had \ {id}
         /\ \A x \in Had' : Value(x)' = Value(x)
         /\ Store!Promise!Remove(id)
  <1>1. /\ DenseInv' /\ OnlySlotOf(id) /\ DOMAIN dense' = DOMAIN dense
        /\ id.index + 1 \in DOMAIN dense /\ dense[id.index + 1].occupied
        /\ dense[id.index + 1].generation = id.generation
        /\ ~dense'[id.index + 1].occupied
    BY RemoveFrees
  <1>2. dense \in Seq(Store!Slot)
    BY DEF DenseInv, Store!TypeOK
  <1>3. \A x \in Ids : x.index = id.index => ~Store!Has(x)' /\ (Store!Has(x) <=> x = id)
    <2> SUFFICES ASSUME NEW x \in Ids, x.index = id.index
                 PROVE  ~Store!Has(x)' /\ (Store!Has(x) <=> x = id)
      OBVIOUS
    <2>1. ~Store!Has(x)'
      BY <1>1 DEF Store!Has
    <2>2. Store!Has(x) <=> x.generation = id.generation
      BY <1>1, <1>2, HasIsOfSlot
    <2> QED
      BY <2>1, <2>2 DEF Ids, Registry!EntityID
  <1>4. \A x \in Ids : x.index # id.index =>
          /\ Store!Has(x)' <=> Store!Has(x)
          /\ Store!Has(x) => Value(x)' = Value(x)
    BY <1>1, OtherSlotsAreKept
  <1>5. Had' = Had \ {id} /\ id \in Had
    BY <1>3, <1>4 DEF Had
  <1>6. \A x \in Had' : Value(x)' = Value(x)
    BY <1>3, <1>4 DEF Had
  <1>7. /\ id \in DOMAIN Store!Contents
        /\ Store!Contents' = [x \in DOMAIN Store!Contents \ {id} |-> Store!Contents[x]]
    BY <1>1, <1>5, <1>6, ContentsAreValues, ContentsAreValuesNext DEF ContentsAreHad
  <1> QED
    BY <1>1, <1>5, <1>6, <1>7 DEF Store!Promise!Remove

LEMMA ClearIsOfMap ==
  ASSUME DenseInv, Store!Clear
  PROVE  DenseInv' /\ Had' = {} /\ Store!Promise!Clear
  <1>1. DenseInv' /\ \A i \in DOMAIN dense' : ~dense'[i].occupied
    BY ClearEmpties
  <1>2. dense' \in Seq(Store!Slot)
    BY <1>1 DEF DenseInv, Store!TypeOK
  <1>3. \A x \in Ids : ~Store!Has(x)'
    <2>1. \A x \in Ids : x.index \in Nat
      BY WorldAssumption DEF Ids, Registry!EntityID, Registry!Indices
    <2> QED
      BY <1>1, <1>2, <2>1 DEF Store!Has
  <1>4. Had' = {}
    BY <1>3 DEF Had
  <1>5. Store!Contents' = [x \in {} |-> x]
    BY <1>1, <1>4, ContentsAreValuesNext DEF ContentsAreHad
  <1> QED
    BY <1>1, <1>4, <1>5 DEF Store!Promise!Clear

-----------------------------------------------------------------------------
(* The registry never runs out of indices: it has no more slots than calls *)
(* of Create.                                                              *)
RegistryInv == Registry!TypeOK /\ slots <= creates

LEMMA ModBound ==
  ASSUME NEW n \in Nat \ {0}, NEW x \in Int
  PROVE  x % n \in 0 .. n - 1
  OBVIOUS

LEMMA AllocateTypes ==
  ASSUME RegistryInv, NEW index \in 0 .. Uint32 - 1, Registry!Allocate(index)
  PROVE  /\ creates' = creates + 1 /\ creates' \in 0 .. MaxCreates
         /\ generations' \in [Registry!Indices -> 0 .. Uint32 - 1]
         /\ alive' \in 0 .. Uint32 - 1
         /\ live' \subseteq Ids /\ retired' \subseteq Ids
  <1>1. /\ Uint32 \in Nat \ {0} /\ MaxCreates \in 0 .. Uint32
        /\ Registry!Indices = 0 .. Uint32 - 1
    BY WorldAssumption, SameIds
  <1>2. /\ creates \in 0 .. MaxCreates /\ alive \in 0 .. Uint32 - 1
        /\ generations \in [Registry!Indices -> 0 .. Uint32 - 1]
        /\ live \subseteq Ids /\ retired \subseteq Ids
    BY DEF RegistryInv, Registry!TypeOK, Ids
  <1>3. Registry!Bump(index) \in 0 .. Uint32 - 1
    <2>1. generations[index] + 1 \in Int
      BY <1>1, <1>2
    <2> QED
      BY <1>1, <2>1, ModBound DEF Registry!Bump
  <1>4. [index |-> index, generation |-> Registry!Bump(index)] \in Ids
    BY <1>1, <1>3 DEF Ids, Registry!EntityID
  <1>5. (alive + 1) % Uint32 \in 0 .. Uint32 - 1
    BY <1>1, <1>2
  <1>6. /\ creates < MaxCreates /\ creates' = creates + 1 /\ retired' = retired
        /\ generations' = [generations EXCEPT ![index] = Registry!Bump(index)]
        /\ live' = live \cup {[index |-> index, generation |-> Registry!Bump(index)]}
        /\ alive' = (alive + 1) % Uint32
    BY DEF Registry!Allocate
  <1>7. creates' \in 0 .. MaxCreates
    BY <1>1, <1>2, <1>6
  <1>8. generations' \in [Registry!Indices -> 0 .. Uint32 - 1]
    BY <1>2, <1>3, <1>6
  <1>9. live' \subseteq Ids /\ retired' \subseteq Ids
    BY <1>2, <1>4, <1>6
  <1> QED
    BY <1>5, <1>6, <1>7, <1>8, <1>9

LEMMA CreateKeepsRegistry ==
  ASSUME RegistryInv, Create
  PROVE  RegistryInv'
  <1>1. /\ Uint32 \in Nat \ {0} /\ MaxCreates \in 0 .. Uint32
        /\ slots \in 0 .. Uint32 /\ creates \in 0 .. MaxCreates /\ slots <= creates
        /\ free \in Seq(0 .. slots - 1)
    BY WorldAssumption DEF RegistryInv, Registry!TypeOK
  <1>2. CASE Registry!CreateRecycled
    <2> DEFINE index == free[Len(free)]
    <2>1. /\ free # <<>> /\ Registry!Allocate(index)
          /\ free' = SubSeq(free, 1, Len(free) - 1) /\ slots' = slots
      BY <1>2 DEF Registry!CreateRecycled
    <2>2. index \in 0 .. slots - 1 /\ free' \in Seq(0 .. slots - 1)
      BY <1>1, <2>1
    <2>3. index \in 0 .. Uint32 - 1
      BY <1>1, <2>2
    <2> HIDE DEF index
    <2> QED
      BY <1>1, <2>1, <2>2, <2>3, AllocateTypes DEF RegistryInv, Registry!TypeOK, Ids
  <1>3. CASE Registry!CreateFresh
    <2>1. /\ Registry!Allocate(slots) /\ slots' = slots + 1
          /\ free' = <<>> /\ creates < MaxCreates
      BY <1>3 DEF Registry!CreateFresh, Registry!Allocate
    <2>2. slots \in 0 .. Uint32 - 1
      BY <1>1, <2>1
    <2>3. free' \in Seq(0 .. slots' - 1) /\ slots' \in 0 .. Uint32
      BY <1>1, <2>1, <2>2
    <2> QED
      BY <1>1, <2>1, <2>2, <2>3, AllocateTypes DEF RegistryInv, Registry!TypeOK, Ids
  <1> QED
    BY <1>2, <1>3 DEF Create

LEMMA DestroyKeepsRegistry ==
  ASSUME RegistryInv, NEW id \in Ids, Registry!Destroy(id)
  PROVE  RegistryInv'
  <1>1. /\ Uint32 \in Nat \ {0} /\ MaxCreates \in 0 .. Uint32
        /\ Registry!Indices = 0 .. Uint32 - 1
        /\ slots \in 0 .. Uint32 /\ creates \in 0 .. MaxCreates /\ slots <= creates
        /\ free \in Seq(0 .. slots - 1) /\ alive \in 0 .. Uint32 - 1
        /\ generations \in [Registry!Indices -> 0 .. Uint32 - 1]
        /\ live \subseteq Ids /\ retired \subseteq Ids
    BY WorldAssumption, SameIds DEF RegistryInv, Registry!TypeOK, Ids
  <1>2. id.index \in 0 .. Uint32 - 1
    BY <1>1 DEF Ids, Registry!EntityID
  <1>3. /\ id.index < slots /\ alive' = (alive - 1) % Uint32
        /\ generations' = [generations EXCEPT ![id.index] = Registry!Bump(id.index)]
        /\ free' = Append(free, id.index)
        /\ live' = live \ {id} /\ retired' = retired \cup {id}
        /\ slots' = slots /\ creates' = creates
    BY DEF Registry!Destroy, Registry!IsAlive, Registry!IsAliveLocked, Registry!FreeIndex
  <1>4. Registry!Bump(id.index) \in 0 .. Uint32 - 1
    <2>1. generations[id.index] + 1 \in Int
      BY <1>1, <1>2
    <2> QED
      BY <1>1, <2>1, ModBound DEF Registry!Bump
  <1>5. (alive - 1) % Uint32 \in 0 .. Uint32 - 1
    BY <1>1
  <1>6. free' \in Seq(0 .. slots - 1)
    BY <1>1, <1>2, <1>3
  <1> QED
    BY <1>1, <1>3, <1>4, <1>5, <1>6 DEF RegistryInv, Registry!TypeOK, Ids

LEMMA KnownAreIds == RegistryInv => Registry!Known \subseteq Ids
  BY SameIds DEF RegistryInv, Registry!TypeOK, Registry!Known, Ids

-----------------------------------------------------------------------------
(* The stores, and the history of what was added to them.                  *)
OwnInv ==
  \A id \in Had : id \in DOMAIN written["dense"] /\ Value(id) = written["dense"][id]

SharedInv ==
  /\ contents = written["shared"]
  /\ contents = [id \in DOMAIN contents |-> contents[id]]
  /\ DOMAIN contents \subseteq Ids \ {Registry!Zero}

WrittenInv ==
  /\ written = [type \in Types |-> written[type]]
  /\ \A type \in Types : \A id \in DOMAIN written[type] :
       id \in Ids /\ written[type][id] \in ValuesOf(type)

StoresInv == DenseInv /\ OwnInv /\ SharedInv /\ WrittenInv

(* A step of each store, seen as a map, or none.                           *)
DenseStep  == Store!Promise!Next \/ UNCHANGED Store!Contents
SharedStep == Shared!Next \/ UNCHANGED contents

LEMMA DenseIsKept ==
  ASSUME DenseInv, UNCHANGED <<dense, count>>
  PROVE  DenseInv' /\ Had' = Had /\ (\A id \in Ids : Value(id)' = Value(id)) /\ DenseStep
  <1>1. dense' = dense /\ count' = count
    OBVIOUS
  <1>2. DenseInv'
    BY <1>1 DEF DenseInv, Store!TypeOK, Store!CountIsExact
  <1>3. Had' = Had /\ \A id \in Ids : Value(id)' = Value(id)
    BY <1>1 DEF Had, Store!Has, Value
  <1>4. Store!Contents' = Store!Contents
    BY <1>1 DEF Store!Contents, Store!Visited, Store!IdOf
  <1> QED
    BY <1>2, <1>3, <1>4 DEF DenseStep

LEMMA StoresAreKept ==
  ASSUME StoresInv, UNCHANGED <<storeVars, written>>
  PROVE  StoresInv' /\ DenseStep /\ SharedStep
  <1>1. UNCHANGED <<dense, count>> /\ contents' = contents /\ written' = written
    BY DEF storeVars
  <1>2. DenseInv' /\ Had' = Had /\ (\A id \in Ids : Value(id)' = Value(id)) /\ DenseStep
    BY <1>1, DenseIsKept DEF StoresInv
  <1>3. OwnInv'
    BY <1>1, <1>2 DEF StoresInv, OwnInv, Had
  <1>4. SharedInv' /\ WrittenInv'
    BY <1>1 DEF StoresInv, SharedInv, WrittenInv
  <1> QED
    BY <1>1, <1>2, <1>3, <1>4 DEF StoresInv, SharedStep

(* The history, when a value is added to one entity or taken from one.     *)
LEMMA WrittenIsTyped ==
  ASSUME WrittenInv, NEW type \in Types, NEW ids, NEW values,
         written' = [written EXCEPT ![type] = values],
         values = [id \in ids |-> values[id]],
         \A id \in ids : id \in Ids /\ values[id] \in ValuesOf(type)
  PROVE  /\ WrittenInv'
         /\ written'[type] = values
         /\ \A other \in Types \ {type} : written'[other] = written[other]
  <1>1. \A other \in Types : written'[other] = IF other = type THEN values ELSE written[other]
    BY DEF WrittenInv
  <1>2. written' = [other \in Types |-> written'[other]]
    BY DEF WrittenInv
  <1>3. DOMAIN values = ids
    OBVIOUS
  <1>4. \A other \in Types : \A id \in DOMAIN written'[other] :
          id \in Ids /\ written'[other][id] \in ValuesOf(other)
    BY <1>1, <1>3 DEF WrittenInv
  <1> QED
    BY <1>1, <1>2, <1>4 DEF WrittenInv, ValuesOf, Ids, Registry!EntityID, Registry!Indices

LEMMA AddKeepsStores ==
  ASSUME StoresInv, NEW type \in Types, NEW id \in Ids, id # Registry!Zero,
         NEW value \in ValuesOf(type),
         \/ type = "dense" /\ Store!Set(id, value) /\ UNCHANGED contents
         \/ type = "shared" /\ Shared!Set(id, value) /\ UNCHANGED <<dense, count>>,
         written' = [written EXCEPT ![type] =
                       [x \in DOMAIN @ \cup {id} |-> IF x = id THEN value ELSE @[x]]]
  PROVE  StoresInv' /\ DenseStep /\ SharedStep
  <1> DEFINE old == written[type]
             new == [x \in DOMAIN old \cup {id} |-> IF x = id THEN value ELSE old[x]]
  <1>1. DenseInv /\ OwnInv /\ SharedInv /\ WrittenInv
    BY DEF StoresInv
  <1>2. written' = [written EXCEPT ![type] = new]
    BY <1>1 DEF WrittenInv
  <1>3. /\ WrittenInv' /\ written'[type] = new
        /\ \A other \in Types \ {type} : written'[other] = written[other]
    <2>1. \A x \in DOMAIN old \cup {id} : x \in Ids /\ new[x] \in ValuesOf(type)
      BY <1>1 DEF WrittenInv
    <2>2. new = [x \in DOMAIN old \cup {id} |-> new[x]]
      OBVIOUS
    <2> HIDE DEF old, new
    <2> QED
      BY <1>1, <1>2, <2>1, <2>2, WrittenIsTyped
  <1>4. CASE type = "dense"
    <2>1. Store!Set(id, value) /\ contents' = contents /\ value \in Values
      BY <1>4 DEF ValuesOf
    <2>2. /\ DenseInv' /\ Had' = (Had \ Store!Rivals[id]) \cup {id}
          /\ \A x \in Had' : Value(x)' = IF x = id THEN value ELSE Value(x)
          /\ Store!Promise!Set(id, value)
      BY <1>1, <2>1, SetIsOfMap
    <2>3. OwnInv'
      <3>1. written'["dense"] = new
        BY <1>3, <1>4
      <3>2. \A x \in Had' : x \in DOMAIN new /\ Value(x)' = new[x]
        BY <1>1, <1>4, <2>2 DEF OwnInv
      <3> HIDE DEF new
      <3> QED
        BY <3>1, <3>2 DEF OwnInv
    <2>4. written'["shared"] = written["shared"]
      BY <1>3, <1>4 DEF Types
    <2>5. SharedInv'
      BY <1>1, <2>1, <2>4 DEF SharedInv
    <2>6. DenseStep
      BY <2>1, <2>2, SameIds DEF DenseStep, Store!Promise!Next
    <2> QED
      BY <1>3, <2>1, <2>2, <2>3, <2>5, <2>6 DEF StoresInv, SharedStep
  <1>5. CASE type = "shared"
    <2>1. Shared!Set(id, value) /\ UNCHANGED <<dense, count>> /\ value \in SharedValues
      BY <1>5 DEF ValuesOf
    <2>2. contents' = [x \in DOMAIN contents \cup {id} |->
                         IF x = id THEN value ELSE contents[x]]
      BY <2>1 DEF Shared!Set, Ids
    <2>3. written'["shared"] = contents'
      BY <1>1, <1>3, <1>5, <2>2 DEF SharedInv
    <2>4. SharedInv'
      BY <1>1, <2>2, <2>3 DEF SharedInv
    <2>5. DenseInv' /\ Had' = Had /\ (\A x \in Ids : Value(x)' = Value(x)) /\ DenseStep
      BY <1>1, <2>1, DenseIsKept
    <2>6. written'["dense"] = written["dense"]
      BY <1>3, <1>5 DEF Types
    <2>7. OwnInv'
      BY <1>1, <2>5, <2>6 DEF OwnInv, Had
    <2>8. SharedStep
      BY <2>1 DEF SharedStep, Shared!Next, Ids
    <2> QED
      BY <1>3, <2>4, <2>5, <2>7, <2>8 DEF StoresInv
  <1> QED
    BY <1>4, <1>5 DEF Types

LEMMA RemoveKeepsStores ==
  ASSUME StoresInv, NEW type \in Types, NEW id \in Ids, id # Registry!Zero,
         \/ type = "dense" /\ Store!Remove(id) /\ UNCHANGED contents
         \/ type = "shared" /\ Shared!Remove(id) /\ UNCHANGED <<dense, count>>
         \/ ~Stored(type, id) /\ UNCHANGED storeVars,
         written' = [written EXCEPT ![type] = [x \in DOMAIN @ \ {id} |-> @[x]]]
  PROVE  StoresInv' /\ DenseStep /\ SharedStep
  <1> DEFINE old == written[type]
             new == [x \in DOMAIN old \ {id} |-> old[x]]
  <1>1. DenseInv /\ OwnInv /\ SharedInv /\ WrittenInv
    BY DEF StoresInv
  <1>2. written' = [written EXCEPT ![type] = new]
    BY <1>1 DEF WrittenInv
  <1>3. /\ WrittenInv' /\ written'[type] = new
        /\ \A other \in Types \ {type} : written'[other] = written[other]
    <2>1. \A x \in DOMAIN old \ {id} : x \in Ids /\ new[x] \in ValuesOf(type)
      BY <1>1 DEF WrittenInv
    <2>2. new = [x \in DOMAIN old \ {id} |-> new[x]]
      OBVIOUS
    <2> HIDE DEF old, new
    <2> QED
      BY <1>1, <1>2, <2>1, <2>2, WrittenIsTyped
  <1>4. CASE type = "dense"
    <2>1. contents' = contents /\ written'["shared"] = written["shared"]
      BY <1>3, <1>4 DEF Types, storeVars
    <2>2. SharedInv' /\ SharedStep
      BY <1>1, <2>1 DEF SharedInv, SharedStep
    <2>3. /\ DenseInv' /\ DenseStep /\ Had' = Had \ {id}
          /\ \A x \in Had' : Value(x)' = Value(x)
      <3>1. CASE Store!Remove(id)
        BY <1>1, <3>1, RemoveIsOfMap, SameIds DEF DenseStep, Store!Promise!Next
      <3>2. CASE ~Store!Has(id) /\ UNCHANGED <<dense, count>>
        <4>1. id \notin Had /\ \A x \in Had : x \in Ids
          BY <3>2 DEF Had
        <4> QED
          BY <1>1, <3>2, <4>1, DenseIsKept
      <3> QED
        BY <1>4, <3>1, <3>2 DEF Stored, storeVars
    <2>4. OwnInv'
      <3>1. written'["dense"] = new
        BY <1>3, <1>4
      <3>2. \A x \in Had' : x \in DOMAIN new /\ Value(x)' = new[x]
        BY <1>1, <1>4, <2>3 DEF OwnInv
      <3> HIDE DEF new
      <3> QED
        BY <3>1, <3>2 DEF OwnInv
    <2> QED
      BY <1>3, <2>2, <2>3, <2>4 DEF StoresInv
  <1>5. CASE type = "shared"
    <2>1. UNCHANGED <<dense, count>> /\ written'["dense"] = written["dense"]
      BY <1>3, <1>5 DEF Types, storeVars
    <2>2. DenseInv' /\ Had' = Had /\ (\A x \in Ids : Value(x)' = Value(x)) /\ DenseStep
      BY <1>1, <2>1, DenseIsKept
    <2>3. OwnInv'
      BY <1>1, <2>1, <2>2 DEF OwnInv, Had
    <2>4. SharedStep
      BY <1>5 DEF SharedStep, Shared!Next, Ids, storeVars
    <2>5. contents' = [x \in DOMAIN contents \ {id} |-> contents[x]]
      <3>1. CASE Shared!Remove(id)
        BY <3>1 DEF Shared!Remove
      <3>2. CASE id \notin DOMAIN contents /\ contents' = contents
        BY <1>1, <3>2 DEF SharedInv
      <3> QED
        BY <1>5, <3>1, <3>2 DEF Stored, storeVars
    <2>6. SharedInv'
      <3>1. written'["shared"] = contents'
        BY <1>1, <1>3, <1>5, <2>5 DEF SharedInv
      <3> QED
        BY <1>1, <2>5, <3>1 DEF SharedInv
    <2> QED
      BY <1>3, <2>2, <2>3, <2>4, <2>6 DEF StoresInv
  <1> QED
    BY <1>4, <1>5 DEF Types

LEMMA ClearKeepsStores ==
  ASSUME StoresInv, NEW type \in Types, OthersClear(type)
  PROVE  StoresInv' /\ DenseStep /\ SharedStep
  <1>1. DenseInv /\ OwnInv /\ SharedInv /\ WrittenInv
    BY DEF StoresInv
  <1>2. /\ \/ type = "dense" /\ Store!Clear /\ contents' = contents
           \/ type = "shared" /\ Shared!Clear /\ UNCHANGED <<dense, count>>
        /\ written' = [written EXCEPT ![type] = NothingWritten]
    BY DEF OthersClear
  <1>3. /\ WrittenInv' /\ written'[type] = NothingWritten
        /\ \A other \in Types \ {type} : written'[other] = written[other]
    <2> DEFINE none == {}
    <2>1. NothingWritten = [x \in none |-> NothingWritten[x]]
      BY DEF NothingWritten
    <2>2. \A x \in none : x \in Ids /\ NothingWritten[x] \in ValuesOf(type)
      OBVIOUS
    <2>3. WrittenInv /\ written' = [written EXCEPT ![type] = NothingWritten]
      BY <1>1, <1>2
    <2> HIDE DEF none
    <2> QED
      BY <2>1, <2>2, <2>3, WrittenIsTyped
  <1>4. CASE type = "dense"
    <2>1. DenseInv' /\ Had' = {} /\ DenseStep
      BY <1>1, <1>2, <1>4, ClearIsOfMap DEF DenseStep, Store!Promise!Next
    <2>2. OwnInv'
      BY <2>1 DEF OwnInv
    <2>3. SharedInv' /\ SharedStep
      <3>1. contents' = contents /\ written'["shared"] = written["shared"]
        BY <1>2, <1>3, <1>4 DEF Types
      <3> QED
        BY <1>1, <3>1 DEF SharedInv, SharedStep
    <2> QED
      BY <1>3, <2>1, <2>2, <2>3 DEF StoresInv
  <1>5. CASE type = "shared"
    <2>1. DenseInv' /\ Had' = Had /\ (\A x \in Ids : Value(x)' = Value(x)) /\ DenseStep
      BY <1>1, <1>2, <1>5, DenseIsKept
    <2>2. OwnInv'
      <3>1. written'["dense"] = written["dense"]
        BY <1>3, <1>5 DEF Types
      <3> QED
        BY <1>1, <2>1, <3>1 DEF OwnInv, Had
    <2>3. contents' = [x \in {} |-> x]
      BY <1>2, <1>5 DEF Shared!Clear
    <2>4. contents' = written'["shared"]
      BY <1>3, <1>5, <2>3 DEF NothingWritten
    <2>5. SharedInv' /\ SharedStep
      BY <1>2, <1>5, <2>3, <2>4 DEF SharedInv, SharedStep, Shared!Next
    <2> QED
      BY <1>3, <2>1, <2>2, <2>5 DEF StoresInv
  <1> QED
    BY <1>4, <1>5 DEF Types

-----------------------------------------------------------------------------
(* The commands name identifiers that are typed, whatever became of them.  *)
CommandsInv ==
  /\ registered \subseteq Types
  /\ pc \in {"run", "apply"}
  /\ commands \in Seq(CommandsOf(Ids))
  /\ pc = "apply" => commands # <<>>

WorldInv == RegistryInv /\ CommandsInv /\ StoresInv

LEMMA CommandIsTyped ==
  ASSUME CommandsInv, pc = "apply"
  PROVE  /\ Command \in CommandsOf(Ids)
         /\ Command.op \in {"destroy", "add", "remove"} => Command.entity \in Ids
         /\ Command.op \in {"add", "remove"} => Command.type \in Types
         /\ Command.op = "add" => Command.value \in ValuesOf(Command.type)
  <1>1. Command \in CommandsOf(Ids)
    BY DEF CommandsInv, Command
  <1> QED
    BY <1>1 DEF CommandsOf

LEMMA ProceedKeepsCommands ==
  ASSUME CommandsInv, pc = "apply", Proceed \/ Stop
  PROVE  CommandsInv'
  <1>1. commands \in Seq(CommandsOf(Ids)) /\ commands # <<>> /\ registered \subseteq Types
    BY DEF CommandsInv
  <1>2. Tail(commands) \in Seq(CommandsOf(Ids))
    BY <1>1
  <1>3. /\ commands' \in Seq(CommandsOf(Ids)) /\ registered' = registered
        /\ pc' \in {"run", "apply"}
        /\ pc' = "apply" => commands' # <<>>
    <2> DEFINE rest == Tail(commands)
    <2>1. \/ /\ commands' = rest /\ registered' = registered
             /\ pc' = IF rest = <<>> THEN "run" ELSE "apply"
          \/ commands' = <<>> /\ registered' = registered /\ pc' = "run"
      BY DEF Proceed, Stop
    <2>2. rest \in Seq(CommandsOf(Ids)) /\ <<>> \in Seq(CommandsOf(Ids))
      BY <1>2
    <2> HIDE DEF rest
    <2> QED
      BY <2>1, <2>2
  <1> QED
    BY <1>1, <1>3 DEF CommandsInv

LEMMA InitWorldInv ==
  Init => WorldInv /\ Store!Promise!Init /\ Shared!Init
  <1> SUFFICES ASSUME Init PROVE WorldInv /\ Store!Promise!Init /\ Shared!Init
    OBVIOUS
  <1> USE WorldAssumption
  <1>1. RegistryInv
    BY SameIds DEF Init, Registry!Init, RegistryInv, Registry!TypeOK
  <1>2. CommandsInv
    BY DEF Init, CommandsInv
  <1>3. dense = <<>> /\ count = 0
    BY DEF Init, Store!Init
  <1>4. {i \in DOMAIN dense : dense[i].occupied} = {}
    BY <1>3
  <1>5. DenseInv
    BY <1>3, <1>4, FS_EmptySet, SameCardinality
    DEF DenseInv, Store!TypeOK, Store!CountIsExact
  <1>6. Had = {}
    BY <1>3 DEF Had, Store!Has, Ids, Registry!EntityID, Registry!Indices
  <1>7. OwnInv
    BY <1>6 DEF OwnInv
  <1>8. /\ written = [type \in Types |-> NothingWritten]
        /\ contents = [x \in {} |-> x]
    BY DEF Init, Shared!Init
  <1>9. WrittenInv
    BY <1>8 DEF WrittenInv, NothingWritten
  <1>10. SharedInv
    BY <1>8 DEF SharedInv, NothingWritten, Types
  <1>11. Store!Promise!Init
    BY <1>5, <1>6, ContentsAreValues DEF ContentsAreHad, Store!Promise!Init
  <1> QED
    BY <1>1, <1>2, <1>5, <1>7, <1>8, <1>9, <1>10, <1>11
    DEF WorldInv, StoresInv, Shared!Init

LEMMA NextWorldInv ==
  ASSUME WorldInv, [Next]_vars
  PROVE  WorldInv' /\ DenseStep /\ SharedStep
  <1>1. RegistryInv /\ CommandsInv /\ StoresInv
    BY DEF WorldInv
  <1>2. Registry!Known \subseteq Ids
    BY <1>1, KnownAreIds
  <1>3. ASSUME UNCHANGED registryVars PROVE RegistryInv'
    BY <1>1, <1>3 DEF RegistryInv, registryVars, Registry!TypeOK
  <1>4. ASSUME UNCHANGED <<registered, pc, commands>> PROVE CommandsInv'
    BY <1>1, <1>4 DEF CommandsInv
  <1>5. ASSUME UNCHANGED <<storeVars, written>>
        PROVE  StoresInv' /\ DenseStep /\ SharedStep
    BY <1>1, <1>5, StoresAreKept
  <1>6. ASSUME pc = "apply", Proceed \/ Stop PROVE CommandsInv'
    BY <1>1, <1>6, ProceedKeepsCommands
  <1>7. ASSUME NEW type \in Types, RegisterComponent(type)
        PROVE  WorldInv' /\ DenseStep /\ SharedStep
    <2>1. CommandsInv'
      BY <1>1, <1>7 DEF RegisterComponent, CommandsInv
    <2> QED
      BY <1>3, <1>5, <1>7, <2>1 DEF RegisterComponent, WorldInv
  <1>8. ASSUME NEW type \in Types, OthersClear(type)
        PROVE  WorldInv' /\ DenseStep /\ SharedStep
    BY <1>1, <1>3, <1>4, <1>8, ClearKeepsStores DEF OthersClear, WorldInv
  <1>9. ASSUME NEW cmd \in CommandsOf(Entities), Defer(cmd)
        PROVE  WorldInv' /\ DenseStep /\ SharedStep
    <2>1. cmd \in CommandsOf(Ids)
      BY <1>2 DEF CommandsOf, Entities
    <2>2. pc = "run" /\ pc' = pc /\ registered' = registered
          /\ commands' = Append(commands, cmd)
      BY <1>9 DEF Defer
    <2>3. CommandsInv'
      BY <1>1, <2>1, <2>2 DEF CommandsInv
    <2> QED
      BY <1>3, <1>5, <1>9, <2>3 DEF Defer, WorldInv
  <1>10. ASSUME ApplyCommands PROVE WorldInv' /\ DenseStep /\ SharedStep
    <2>1. CommandsInv'
      BY <1>1, <1>10 DEF ApplyCommands, CommandsInv
    <2> QED
      BY <1>3, <1>5, <1>10, <2>1 DEF ApplyCommands, WorldInv
  <1>11. ASSUME OthersCreate PROVE WorldInv' /\ DenseStep /\ SharedStep
    BY <1>1, <1>4, <1>5, <1>11, CreateKeepsRegistry DEF OthersCreate, WorldInv
  <1>12. ASSUME NEW id \in Entities, OthersDestroy(id)
         PROVE  WorldInv' /\ DenseStep /\ SharedStep
    BY <1>1, <1>2, <1>4, <1>5, <1>12, DestroyKeepsRegistry
    DEF OthersDestroy, Entities, WorldInv
  <1>13. ASSUME ApplyCreate PROVE WorldInv' /\ DenseStep /\ SharedStep
    BY <1>1, <1>5, <1>6, <1>13, CreateKeepsRegistry DEF ApplyCreate, Applying, WorldInv
  <1>14. ASSUME ApplyDestroy PROVE WorldInv' /\ DenseStep /\ SharedStep
    <2>1. pc = "apply" /\ Command.op = "destroy"
      BY <1>14 DEF ApplyDestroy, Applying
    <2>2. Command.entity \in Ids
      BY <1>1, <2>1, CommandIsTyped
    <2> QED
      BY <1>1, <1>5, <1>6, <1>14, <2>1, <2>2, DestroyKeepsRegistry DEF ApplyDestroy, WorldInv
  <1>15. ASSUME ApplyDestroyFails \/ ApplyFails PROVE WorldInv' /\ DenseStep /\ SharedStep
    BY <1>3, <1>5, <1>6, <1>15 DEF ApplyDestroyFails, ApplyFails, Applying, WorldInv
  <1>16. ASSUME ApplyAdd PROVE WorldInv' /\ DenseStep /\ SharedStep
    <2>1. /\ pc = "apply" /\ Command.op = "add" /\ Proceed /\ UNCHANGED registryVars
          /\ Command.entity # Registry!Zero
      BY <1>16 DEF ApplyAdd, Applying, ViewFails
    <2>2. /\ Command.entity \in Ids /\ Command.type \in Types
          /\ Command.value \in ValuesOf(Command.type)
      BY <1>1, <2>1, CommandIsTyped
    <2>3. StoresInv' /\ DenseStep /\ SharedStep
      BY <1>1, <1>16, <2>1, <2>2, AddKeepsStores DEF ApplyAdd
    <2> QED
      BY <1>3, <1>6, <2>1, <2>3 DEF WorldInv
  <1>17. ASSUME ApplyRemove PROVE WorldInv' /\ DenseStep /\ SharedStep
    <2>1. /\ pc = "apply" /\ Command.op = "remove" /\ Proceed /\ UNCHANGED registryVars
          /\ Command.entity # Registry!Zero
      BY <1>17 DEF ApplyRemove, Applying, ViewFails
    <2>2. Command.entity \in Ids /\ Command.type \in Types
      BY <1>1, <2>1, CommandIsTyped
    <2>3. StoresInv' /\ DenseStep /\ SharedStep
      BY <1>1, <1>17, <2>2, <2>1, RemoveKeepsStores DEF ApplyRemove, Removes
    <2> QED
      BY <1>3, <1>6, <2>1, <2>3 DEF WorldInv
  <1>18. ASSUME UNCHANGED vars PROVE WorldInv' /\ DenseStep /\ SharedStep
    BY <1>3, <1>4, <1>5, <1>18 DEF vars, WorldInv
  <1> QED
    BY <1>7, <1>8, <1>9, <1>10, <1>11, <1>12, <1>13, <1>14, <1>15, <1>16, <1>17, <1>18
    DEF Next

LEMMA AlwaysWorldInv == Spec => []WorldInv
  <1>1. WorldInv /\ [Next]_vars => WorldInv'
    BY NextWorldInv
  <1> QED
    BY <1>1, InitWorldInv, PTL DEF Spec

(* The variables of the world keep their types.                            *)
THEOREM TypeCorrect == Spec => []TypeOK
  <1>1. WorldInv => TypeOK
    BY DEF WorldInv, RegistryInv, CommandsInv, StoresInv, DenseInv, SharedInv, WrittenInv,
           TypeOK, Ids, Types, ValuesOf
  <1> QED
    BY <1>1, AlwaysWorldInv, PTL

(* Len is the number of values the dense store has, and it holds on to no  *)
(* other.                                                                  *)
THEOREM CountIsAlwaysExact == Spec => []CountIsExact
  <1>1. WorldInv => CountIsExact
    BY DEF WorldInv, StoresInv, DenseInv, CountIsExact
  <1> QED
    BY <1>1, AlwaysWorldInv, PTL

(* Get and Iterate only ever return what was added to that very entity, and *)
(* that last, whoever had its slot before or has it now.                    *)
THEOREM ComponentsAreAlwaysOwn == Spec => []ComponentsAreOwn
  <1>1. WorldInv => ComponentsAreOwn
    <2> SUFFICES ASSUME WorldInv PROVE ComponentsAreOwn
      OBVIOUS
    <2>1. DenseInv /\ OwnInv /\ SharedInv /\ RegistryInv
      BY DEF WorldInv, StoresInv
    <2>2. Store!Visited = Had /\ Store!Contents = [id \in Had |-> Value(id)]
      BY <2>1, VisitedIsHad, ContentsAreValues DEF Had, ContentsAreHad
    <2>3. live \cup retired \subseteq Ids
      BY <2>1 DEF RegistryInv, Registry!TypeOK, Ids
    <2> QED
      BY <2>1, <2>2, <2>3 DEF ComponentsAreOwn, Had, OwnInv, SharedInv
  <1> QED
    BY <1>1, AlwaysWorldInv, PTL

(* The commands, and whoever else uses them, use both stores as maps, the  *)
(* dense one as a map in which a slot has one value.                       *)
THEOREM StoreIsAlwaysAMap == Spec => StoreIsAMap
  <1>1. WorldInv /\ [Next]_vars =>
          [Store!Promise!Next]_(Store!Contents) /\ [Shared!Next]_contents
    BY NextWorldInv DEF DenseStep, SharedStep
  <1> QED
    BY <1>1, AlwaysWorldInv, InitWorldInv, PTL
    DEF Spec, StoreIsAMap, Store!StoreIsAMap, Store!Promise!Spec, Shared!Spec
=============================================================================
