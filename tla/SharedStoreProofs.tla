-------------------------- MODULE SharedStoreProofs -------------------------
(***************************************************************************)
(* Theorems about SharedStore, for any entities, values, writers and       *)
(* readers: as long as nextValueID has not wrapped around, its reference   *)
(* counts are exact and no value is kept twice, and Iterate visits one     *)
(* state of the store whoever calls it meanwhile.                          *)
(***************************************************************************)
EXTENDS SharedStore, FiniteSetTheorems, TLAPS

NoWrap == MaxWrites + 1 < Uint32

(* The references of an entity to value identifier (f) are those that the  *)
(* entries (values) count.                                                 *)
RefsOf(f, id) == {x \in DOMAIN f : f[x] = id}

Entry(f, values, id) ==
  /\ values[id].refCount = Cardinality(RefsOf(f, id))
  /\ values[id].refCount > 0

Counted(f, values) ==
  /\ \A x \in DOMAIN f : f[x] \in DOMAIN values
  /\ \A id \in DOMAIN values : Entry(f, values, id)

Shared(values) ==
  \A id1, id2 \in DOMAIN values :
    DeepEqual(values[id1].data, values[id2].data) => id1 = id2

Values_OK(values) ==
  /\ DOMAIN values \subseteq ValueIDs
  /\ \A id \in DOMAIN values : values[id] \in [data : Values, refCount : Nat]

StoreOK ==
  /\ DOMAIN entityToValue \subseteq Entities
  /\ \A e \in DOMAIN entityToValue : entityToValue[e] \in ValueIDs
  /\ Values_OK(valueToData)
  /\ nextValueID \in ValueIDs
  /\ count \in Nat

IdsBelowNext == \A id \in DOMAIN valueToData : id < nextValueID

(* Each call makes at most one entry, and those under way have made none.  *)
Pending == {w \in Writers : writer[w] # NoCall}

IdsInv ==
  /\ IdsBelowNext
  /\ IsFiniteSet(Pending)
  /\ nextValueID + Cardinality(Pending) <= writes + 1

LoopInv ==
  \A r \in Readers : Iterating(r) \/ Waiting(r) =>
    reader[r].left \subseteq DOMAIN entityToValue

StoreInv ==
  /\ Counted(entityToValue, valueToData)
  /\ Shared(valueToData)
  /\ count = Cardinality(DOMAIN entityToValue)

IInv == TypeOK /\ StoreInv /\ IdsInv /\ LoopInv /\ IterateIsSnapshot

-----------------------------------------------------------------------------
(* The maps: what becomes of the references when one is taken away from an *)
(* entity, and when one is given to an entity that has none.               *)

LEMMA RefsAreFinite ==
  ASSUME NEW f, DOMAIN f \subseteq Entities, NEW id
  PROVE  IsFiniteSet(RefsOf(f, id))
  <1>1. RefsOf(f, id) \subseteq Entities
    BY DEF RefsOf
  <1> QED
    BY <1>1, FS_Subset, SharedStoreAssumption

LEMMA RefsWithout ==
  ASSUME NEW f, NEW e, NEW id
  PROVE  RefsOf(Without(f, e), id) = RefsOf(f, id) \ {e}
  BY DEF RefsOf, Without

LEMMA RefsWith ==
  ASSUME NEW f, NEW e, e \notin DOMAIN f, NEW new, NEW id
  PROVE  RefsOf(With(f, e, new), id) =
           IF id = new THEN RefsOf(f, id) \cup {e} ELSE RefsOf(f, id)
  BY DEF RefsOf, With

(* decrementRefCountLocked, for an entity that refers to the value.        *)
LEMMA DecrementIsExact ==
  ASSUME NEW f, DOMAIN f \subseteq Entities, NEW values, Values_OK(values),
         Counted(f, values), Shared(values), NEW e \in DOMAIN f
  PROVE  /\ Values_OK(DecrementRefCount(values, f[e]))
         /\ Shared(DecrementRefCount(values, f[e]))
         /\ Counted(Without(f, e), DecrementRefCount(values, f[e]))
         /\ DOMAIN DecrementRefCount(values, f[e]) \subseteq DOMAIN values
         /\ \A id \in DOMAIN DecrementRefCount(values, f[e]) :
              DecrementRefCount(values, f[e])[id].data = values[id].data
  <1> DEFINE id == f[e]
             rest == Without(f, e)
             less == DecrementRefCount(values, id)
  <1>1. id \in DOMAIN values /\ values[id].refCount \in Nat \ {0}
    BY DEF Counted, Entry, Values_OK
  <1>2. e \in RefsOf(f, id)
    BY DEF RefsOf
  <1>3. Cardinality(RefsOf(rest, id)) = values[id].refCount - 1
        /\ IsFiniteSet(RefsOf(rest, id))
    BY <1>1, <1>2, RefsAreFinite, RefsWithout, FS_RemoveElement DEF Counted, Entry
  <1>4. \A other : other # id => RefsOf(rest, other) = RefsOf(f, other)
    BY DEF RefsOf, Without
  <1>5. \A x \in DOMAIN rest : x \in DOMAIN f /\ rest[x] = f[x]
    BY DEF Without
  <1>6. CASE values[id].refCount = 1
    <2>1. less = Without(values, id)
      BY <1>1, <1>6 DEF DecrementRefCount
    <2>2. RefsOf(rest, id) = {}
      BY <1>3, <1>6, FS_EmptySet
    <2>3. /\ DOMAIN less = DOMAIN values \ {id}
          /\ \A other \in DOMAIN less : less[other] = values[other]
      BY <2>1 DEF Without
    <2> HIDE DEF less, rest, id
    <2>4. \A x \in DOMAIN rest : rest[x] \in DOMAIN less
      BY <1>5, <2>2, <2>3 DEF Counted, RefsOf
    <2>5. \A other \in DOMAIN less : Entry(rest, less, other)
      BY <1>4, <2>3 DEF Counted, Entry
    <2>6. Values_OK(less) /\ Shared(less)
      BY <2>3 DEF Values_OK, Shared
    <2> QED
      BY <2>3, <2>4, <2>5, <2>6 DEF Counted, id, less, rest
  <1>7. CASE values[id].refCount > 1
    <2>1. less = [values EXCEPT ![id].refCount = @ - 1]
      BY <1>1, <1>7 DEF DecrementRefCount
    <2>2. /\ DOMAIN less = DOMAIN values
          /\ \A other \in DOMAIN values : less[other] =
               IF other = id THEN [values[id] EXCEPT !.refCount = @ - 1]
                             ELSE values[other]
      BY <2>1
    <2>3. values[id] \in [data : Values, refCount : Nat]
      BY <1>1 DEF Values_OK
    <2>4. /\ less[id] \in [data : Values, refCount : Nat]
          /\ less[id].data = values[id].data
          /\ less[id].refCount = values[id].refCount - 1
      BY <1>1, <1>7, <2>2, <2>3
    <2> HIDE DEF less, rest, id
    <2>5. \A x \in DOMAIN rest : rest[x] \in DOMAIN less
      BY <1>5, <2>2 DEF Counted
    <2>6. \A other \in DOMAIN less : Entry(rest, less, other)
      <3>1. Entry(rest, less, id)
        BY <1>1, <1>3, <1>7, <2>4 DEF Entry
      <3>2. \A other \in DOMAIN less : other # id => Entry(rest, less, other)
        BY <1>4, <2>2 DEF Counted, Entry
      <3> QED
        BY <3>1, <3>2
    <2>7. \A other \in DOMAIN values : less[other].data = values[other].data
      BY <2>2, <2>4
    <2>8. Values_OK(less) /\ Shared(less)
      BY <2>2, <2>4, <2>7 DEF Values_OK, Shared
    <2> QED
      BY <2>2, <2>5, <2>6, <2>7, <2>8 DEF Counted, id, less, rest
  <1> QED
    BY <1>1, <1>6, <1>7

(* findOrCreateValueLocked, for an entity that has no value.               *)
LEMMA FoundIsExact ==
  ASSUME NEW f, DOMAIN f \subseteq Entities, NEW values, Values_OK(values),
         Counted(f, values), Shared(values),
         NEW e \in Entities, e \notin DOMAIN f,
         NEW value \in Values, nextValueID \in ValueIDs,
         \A id \in DOMAIN values : id < nextValueID, nextValueID + 1 < Uint32,
         NEW found \in FindOrCreateValue(values, value)
  PROVE  /\ found.id \in DOMAIN found.values
         /\ Values_OK(found.values) /\ Shared(found.values)
         /\ Counted(With(f, e, found.id), found.values)
         /\ found.next \in {nextValueID, nextValueID + 1}
         /\ \A id \in DOMAIN found.values : id < found.next
         /\ DOMAIN found.values = DOMAIN values \cup {found.id}
         /\ \A id \in DOMAIN values : found.values[id].data = values[id].data
         /\ found.values[found.id].data = value
  <1> DEFINE new == found.id
             more == found.values
             with == With(f, e, new)
  <1>0. /\ DOMAIN with = DOMAIN f \cup {e}
        /\ with[e] = new
        /\ \A x \in DOMAIN f : with[x] = f[x]
    BY DEF With
  <1>1. \A id : IF id = new THEN /\ RefsOf(with, id) = RefsOf(f, id) \cup {e}
                                 /\ Cardinality(RefsOf(with, id)) =
                                      Cardinality(RefsOf(f, id)) + 1
                            ELSE RefsOf(with, id) = RefsOf(f, id)
    <2>1. e \notin RefsOf(f, new)
      BY DEF RefsOf
    <2> QED
      BY <2>1, RefsWith, RefsAreFinite, FS_AddElement
  <1>2. CASE found \in FoundValues(values, value)
    <2>1. /\ new \in DOMAIN values
          /\ DeepEqual(values[new].data, value)
          /\ found.next = nextValueID
          /\ more = [values EXCEPT ![new].refCount = @ + 1]
      BY <1>2 DEF FoundValues
    <2>2. values[new] \in [data : Values, refCount : Nat]
      BY <2>1 DEF Values_OK
    <2>3. /\ DOMAIN more = DOMAIN values
          /\ \A id \in DOMAIN values : id # new => more[id] = values[id]
          /\ more[new] \in [data : Values, refCount : Nat]
          /\ more[new].data = values[new].data
          /\ more[new].refCount = values[new].refCount + 1
      BY <2>1, <2>2
    <2>4. more[new].data = value
      BY <2>1, <2>3 DEF DeepEqual
    <2> HIDE DEF new, more, with
    <2>5. \A id \in DOMAIN values : more[id].data = values[id].data
      BY <2>3
    <2>6. Values_OK(more) /\ Shared(more)
      BY <2>3, <2>5 DEF Values_OK, Shared
    <2>7. \A x \in DOMAIN with : with[x] \in DOMAIN more
      BY <1>0, <2>1, <2>3 DEF Counted
    <2>8. \A id \in DOMAIN more : Entry(with, more, id)
      <3>1. Entry(with, more, new)
        BY <1>1, <2>1, <2>2, <2>3 DEF Counted, Entry
      <3>2. \A id \in DOMAIN more : id # new => Entry(with, more, id)
        BY <1>1, <2>3 DEF Counted, Entry
      <3> QED
        BY <3>1, <3>2
    <2>9. Counted(with, more)
      BY <2>7, <2>8 DEF Counted
    <2>10. DOMAIN more = DOMAIN values \cup {new} /\ new \in DOMAIN more
      BY <2>1, <2>3
    <2>11. \A id \in DOMAIN more : id < found.next
      BY <2>1, <2>3
    <2> QED
      BY <2>1, <2>4, <2>5, <2>6, <2>9, <2>10, <2>11 DEF new, more, with
  <1>3. CASE found = CreatedValue(values, value) /\ FoundValues(values, value) = {}
    <2>1. /\ new = nextValueID
          /\ found.next = (nextValueID + 1) % Uint32
          /\ more = With(values, new, [data |-> value, refCount |-> 1])
      BY <1>3 DEF CreatedValue
    <2>2. found.next = nextValueID + 1
      BY <2>1, SharedStoreAssumption DEF ValueIDs
    <2>3. /\ DOMAIN more = DOMAIN values \cup {new}
          /\ \A id \in DOMAIN values : id # new => more[id] = values[id]
          /\ more[new] = [data |-> value, refCount |-> 1]
      BY <2>1 DEF With
    <2>4. \A id \in DOMAIN values : ~DeepEqual(values[id].data, value)
      BY <1>3 DEF FoundValues
    <2>5. new \notin DOMAIN values
      BY <2>1 DEF ValueIDs
    <2>6. RefsOf(f, new) = {}
      BY <2>5 DEF Counted, RefsOf
    <2>7. Cardinality(RefsOf(with, new)) = 1
      BY <1>1, <2>6, FS_EmptySet
    <2>8. \A id \in DOMAIN values : id \in Int
      BY DEF Values_OK, ValueIDs
    <2> HIDE DEF new, more, with
    <2>9. Values_OK(more)
      BY <2>1, <2>3 DEF Values_OK
    <2>10. Shared(more)
      BY <2>3, <2>4, <2>5 DEF Shared, DeepEqual
    <2>11. \A x \in DOMAIN with : with[x] \in DOMAIN more
      BY <1>0, <2>3 DEF Counted
    <2>12. \A id \in DOMAIN more : Entry(with, more, id)
      <3>1. Entry(with, more, new)
        BY <2>3, <2>7 DEF Entry
      <3>2. \A id \in DOMAIN values : Entry(with, more, id)
        BY <1>1, <2>3, <2>5 DEF Counted, Entry
      <3> QED
        BY <2>3, <3>1, <3>2
    <2>13. \A id \in DOMAIN more : id < found.next
      BY <2>1, <2>2, <2>3, <2>8 DEF ValueIDs
    <2>14. \A id \in DOMAIN values : more[id].data = values[id].data
      BY <2>3, <2>5
    <2> QED
      BY <2>2, <2>3, <2>9, <2>10, <2>11, <2>12, <2>13, <2>14 DEF Counted, new, more, with
  <1> QED
    BY <1>2, <1>3 DEF FindOrCreateValue

-----------------------------------------------------------------------------
(* The operations of the store keep it exact, and do to what it contains   *)
(* what those of a map do.                                                 *)

LEMMA EntitiesAreFinite ==
  ASSUME StoreOK
  PROVE  IsFiniteSet(DOMAIN entityToValue)
  BY FS_Subset, SharedStoreAssumption DEF StoreOK

LEMMA ContentsIsTotal ==
  ASSUME Counted(entityToValue, valueToData)
  PROVE  Contents = [e \in DOMAIN entityToValue |-> valueToData[entityToValue[e]].data]
  BY DEF Contents, Counted

LEMMA ReleasedIsExact ==
  ASSUME StoreOK, StoreInv, NEW e \in Entities
  PROVE  /\ Values_OK(Released(e)) /\ Shared(Released(e))
         /\ Counted(Without(entityToValue, e), Released(e))
         /\ DOMAIN Released(e) \subseteq DOMAIN valueToData
         /\ \A id \in DOMAIN Released(e) : Released(e)[id].data = valueToData[id].data
  <1>1. CASE HasValue(e)
    BY <1>1, DecrementIsExact DEF StoreOK, StoreInv, Released, HasValue
  <1>2. CASE ~HasValue(e)
    <2> DEFINE rest == Without(entityToValue, e)
    <2>1. Released(e) = valueToData /\ e \notin DOMAIN entityToValue
      BY <1>2 DEF Released, HasValue
    <2>2. /\ DOMAIN rest = DOMAIN entityToValue
          /\ \A x \in DOMAIN rest : rest[x] = entityToValue[x]
      BY <2>1 DEF Without
    <2>3. \A id : RefsOf(rest, id) = RefsOf(entityToValue, id)
      BY <2>2 DEF RefsOf
    <2> HIDE DEF rest
    <2>4. Counted(rest, valueToData)
      BY <2>2, <2>3 DEF StoreInv, Counted, Entry
    <2> QED
      BY <2>1, <2>4 DEF StoreOK, StoreInv, rest
  <1> QED
    BY <1>1, <1>2

LEMMA SetIsExact ==
  ASSUME StoreOK, StoreInv, IdsBelowNext, nextValueID + 1 < Uint32,
         NEW e \in Entities, NEW value \in Values, Set(e, value)
  PROVE  /\ StoreOK' /\ StoreInv' /\ IdsBelowNext'
         /\ nextValueID' \in {nextValueID, nextValueID + 1}
         /\ Promise!Set(e, value)
  <1> DEFINE released == Released(e)
             rest == Without(entityToValue, e)
  <1>1. PICK found \in FindOrCreateValue(released, value) :
          /\ valueToData' = found.values
          /\ nextValueID' = found.next
          /\ entityToValue' = With(entityToValue, e, found.id)
    BY DEF Set
  <1>2. /\ Values_OK(released) /\ Shared(released) /\ Counted(rest, released)
        /\ DOMAIN released \subseteq DOMAIN valueToData
        /\ \A id \in DOMAIN released : released[id].data = valueToData[id].data
    BY ReleasedIsExact
  <1>3. /\ DOMAIN rest = DOMAIN entityToValue \ {e}
        /\ \A x \in DOMAIN rest : rest[x] = entityToValue[x]
    BY DEF Without
  <1>4. With(entityToValue, e, found.id) = With(rest, e, found.id)
    BY <1>3 DEF With
  <1>5. /\ DOMAIN rest \subseteq Entities /\ e \notin DOMAIN rest
        /\ \A id \in DOMAIN released : id < nextValueID
        /\ nextValueID \in ValueIDs
    BY <1>2, <1>3 DEF StoreOK, IdsBelowNext
  <1> HIDE DEF released, rest
  <1>6. /\ found.id \in DOMAIN found.values
        /\ Values_OK(found.values) /\ Shared(found.values)
        /\ Counted(With(rest, e, found.id), found.values)
        /\ found.next \in {nextValueID, nextValueID + 1}
        /\ \A id \in DOMAIN found.values : id < found.next
        /\ \A id \in DOMAIN released : found.values[id].data = released[id].data
        /\ found.values[found.id].data = value
    BY <1>2, <1>5, FoundIsExact
  <1>7. /\ DOMAIN entityToValue' = DOMAIN entityToValue \cup {e}
        /\ entityToValue'[e] = found.id
        /\ \A x \in DOMAIN entityToValue : x # e => entityToValue'[x] = entityToValue[x]
    BY <1>1 DEF With
  <1>8. count' \in Nat /\ count' = Cardinality(DOMAIN entityToValue')
    BY <1>7, EntitiesAreFinite, FS_AddElement DEF Set, HasValue, StoreInv, StoreOK
  <1>9. StoreOK'
    <2>1. found.id \in ValueIDs
      BY <1>6 DEF Values_OK
    <2>2. nextValueID' \in ValueIDs
      BY <1>1, <1>5, <1>6, SharedStoreAssumption DEF ValueIDs
    <2> QED
      BY <1>1, <1>6, <1>7, <1>8, <2>1, <2>2 DEF StoreOK
  <1>10. StoreInv'
    BY <1>1, <1>4, <1>6, <1>8 DEF StoreInv
  <1>11. Promise!Set(e, value)
    <2>1. Contents = [x \in DOMAIN entityToValue |-> valueToData[entityToValue[x]].data]
      BY ContentsIsTotal DEF StoreInv
    <2>2. Contents' = [x \in DOMAIN entityToValue' |->
                         valueToData'[entityToValue'[x]].data]
      BY <1>10, ContentsIsTotal DEF StoreInv, Contents, Counted
    <2>3. \A x \in DOMAIN entityToValue : x # e =>
            valueToData'[entityToValue'[x]].data = valueToData[entityToValue[x]].data
      <3> SUFFICES ASSUME NEW x \in DOMAIN entityToValue, x # e
                   PROVE  found.values[entityToValue[x]].data =
                            valueToData[entityToValue[x]].data
        BY <1>1, <1>7
      <3>1. entityToValue[x] \in DOMAIN released
        BY <1>2, <1>3 DEF Counted
      <3> QED
        BY <3>1, <1>2, <1>6
    <2>4. valueToData'[entityToValue'[e]].data = value
      BY <1>1, <1>6, <1>7
    <2>5. Contents' = [x \in DOMAIN Contents \cup {e} |->
                         IF x = e THEN value ELSE Contents[x]]
      BY <1>7, <2>1, <2>2, <2>3, <2>4
    <2> QED
      BY <2>5 DEF Promise!Set
  <1> QED
    BY <1>1, <1>6, <1>9, <1>10, <1>11 DEF IdsBelowNext

LEMMA RemoveIsExact ==
  ASSUME StoreOK, StoreInv, IdsBelowNext, NEW e \in Entities, HasValue(e), Remove(e)
  PROVE  /\ StoreOK' /\ StoreInv' /\ IdsBelowNext' /\ nextValueID' = nextValueID
         /\ Promise!Remove(e)
  <1>1. /\ valueToData' = Released(e)
        /\ entityToValue' = Without(entityToValue, e)
        /\ count' = count - 1
        /\ nextValueID' = nextValueID
    BY DEF Remove
  <1>2. /\ Values_OK(valueToData') /\ Shared(valueToData')
        /\ Counted(entityToValue', valueToData')
        /\ DOMAIN valueToData' \subseteq DOMAIN valueToData
        /\ \A id \in DOMAIN valueToData' : valueToData'[id].data = valueToData[id].data
    BY <1>1, ReleasedIsExact
  <1>3. /\ e \in DOMAIN entityToValue
        /\ DOMAIN entityToValue' = DOMAIN entityToValue \ {e}
        /\ \A x \in DOMAIN entityToValue' : entityToValue'[x] = entityToValue[x]
    BY <1>1 DEF Without, HasValue
  <1>4. count' \in Nat /\ count' = Cardinality(DOMAIN entityToValue')
    <2>1. IsFiniteSet(DOMAIN entityToValue)
      BY EntitiesAreFinite
    <2>2. Cardinality(DOMAIN entityToValue) # 0
      BY <1>3, <2>1, FS_EmptySet
    <2>3. Cardinality(DOMAIN entityToValue \ {e}) = Cardinality(DOMAIN entityToValue) - 1
      BY <1>3, <2>1, FS_RemoveElement
    <2>4. count \in Nat /\ count = Cardinality(DOMAIN entityToValue)
      BY DEF StoreInv, StoreOK
    <2> QED
      BY <1>1, <1>3, <2>2, <2>3, <2>4
  <1>5. Promise!Remove(e)
    <2>1. Contents = [x \in DOMAIN entityToValue |-> valueToData[entityToValue[x]].data]
      BY ContentsIsTotal DEF StoreInv
    <2>2. Contents' = [x \in DOMAIN entityToValue' |->
                         valueToData'[entityToValue'[x]].data]
      BY <1>2 DEF Contents, Counted
    <2>3. \A x \in DOMAIN entityToValue' :
            valueToData'[entityToValue'[x]].data = valueToData[entityToValue[x]].data
      BY <1>2, <1>3 DEF Counted
    <2>4. Contents' = [x \in DOMAIN Contents \ {e} |-> Contents[x]]
      BY <1>3, <2>1, <2>2, <2>3
    <2> QED
      BY <1>3, <2>1, <2>4 DEF Promise!Remove
  <1> QED
    BY <1>1, <1>2, <1>3, <1>4, <1>5 DEF StoreOK, StoreInv, IdsBelowNext

LEMMA ClearIsExact ==
  ASSUME StoreOK, Clear
  PROVE  /\ StoreOK' /\ StoreInv' /\ IdsBelowNext' /\ nextValueID' = nextValueID
         /\ Promise!Clear
  <1>1. /\ DOMAIN entityToValue' = {} /\ DOMAIN valueToData' = {}
        /\ count' = 0 /\ nextValueID' = nextValueID
    BY DEF Clear
  <1>2. StoreOK' /\ IdsBelowNext'
    BY <1>1 DEF StoreOK, Values_OK, IdsBelowNext
  <1>3. StoreInv'
    BY <1>1, FS_EmptySet DEF StoreInv, Counted, Shared
  <1>4. Promise!Clear
    <2>1. {d \in DOMAIN entityToValue' : entityToValue'[d] \in DOMAIN valueToData'} = {}
      BY <1>1
    <2> QED
      BY <2>1 DEF Promise!Clear, Contents
  <1> QED
    BY <1>1, <1>2, <1>3, <1>4

-----------------------------------------------------------------------------
LEMMA InitInv == Init => IInv
  <1> SUFFICES ASSUME Init PROVE IInv
    OBVIOUS
  <1>1. TypeOK
    BY SharedStoreAssumption DEF Init, TypeOK, ValueIDs, Idle
  <1>2. StoreInv
    BY FS_EmptySet DEF Init, StoreInv, Counted, Shared
  <1>3. IdsInv
    <2>1. Pending = {}
      BY DEF Init, Pending
    <2> QED
      BY <2>1, FS_EmptySet DEF Init, IdsInv, IdsBelowNext
  <1>4. LoopInv /\ IterateIsSnapshot
    BY DEF Init, LoopInv, IterateIsSnapshot, Iterating, Waiting, Idle
  <1> QED
    BY <1>1, <1>2, <1>3, <1>4 DEF IInv

LEMMA TypesOfStore ==
  ASSUME TypeOK
  PROVE  StoreOK
  BY DEF TypeOK, StoreOK, Values_OK

(* A call that is not over yet made no entry, so one more can be made.     *)
LEMMA RoomForOne ==
  ASSUME IInv, NoWrap, NEW w \in Writers, writer[w] # NoCall
  PROVE  /\ nextValueID + Cardinality(Pending \ {w}) <= writes
         /\ IsFiniteSet(Pending \ {w})
         /\ nextValueID + 1 < Uint32
  <1>1. w \in Pending /\ IsFiniteSet(Pending)
    BY DEF Pending, IInv, IdsInv
  <1>2. /\ IsFiniteSet(Pending \ {w})
        /\ Cardinality(Pending \ {w}) = Cardinality(Pending) - 1
    BY <1>1, FS_RemoveElement
  <1>3. Cardinality(Pending) \in Nat /\ Cardinality(Pending \ {w}) \in Nat
    BY <1>1, <1>2, FS_CardinalityType
  <1>4. nextValueID \in Nat /\ writes \in 0 .. MaxWrites
    BY SharedStoreAssumption DEF IInv, TypeOK, ValueIDs
  <1> QED
    BY <1>2, <1>3, <1>4, SharedStoreAssumption DEF IInv, IdsInv, NoWrap

(* A Write does one of the operations, or removes nothing.                 *)
LEMMA WriteIsExact ==
  ASSUME IInv, NoWrap, NEW w \in Writers, writer[w] # NoCall, Write(w)
  PROVE  /\ StoreOK' /\ StoreInv' /\ IdsBelowNext'
         /\ nextValueID' \in {nextValueID, nextValueID + 1}
         /\ [Promise!Next]_Contents
  <1>1. StoreOK /\ StoreInv /\ IdsBelowNext /\ nextValueID + 1 < Uint32
    BY TypesOfStore, RoomForOne DEF IInv, IdsInv
  <1>2. writer[w] \in Calls
    BY DEF IInv, TypeOK
  <1>3. CASE writer[w].op = "set" /\ Set(writer[w].entity, writer[w].value)
    <2>1. writer[w].entity \in Entities /\ writer[w].value \in Values
      BY <1>2, <1>3 DEF Calls
    <2>2. Promise!Set(writer[w].entity, writer[w].value)
      BY <1>1, <1>3, <2>1, SetIsExact
    <2> QED
      BY <1>1, <1>3, <2>1, <2>2, SetIsExact DEF Promise!Next
  <1>4. CASE writer[w].op = "remove" /\ Remove(writer[w].entity)
    <2>1. writer[w].entity \in Entities
      BY <1>2, <1>4 DEF Calls
    <2>2. CASE HasValue(writer[w].entity)
      <3>1. Promise!Remove(writer[w].entity)
        BY <1>1, <1>4, <2>1, <2>2, RemoveIsExact
      <3> QED
        BY <1>1, <1>4, <2>1, <2>2, <3>1, RemoveIsExact DEF Promise!Next
    <2>3. CASE ~HasValue(writer[w].entity)
      <3>1. UNCHANGED store
        BY <1>4, <2>3 DEF Remove
      <3> QED
        BY <1>1, <3>1 DEF store, StoreOK, StoreInv, IdsBelowNext, Contents
    <2> QED
      BY <2>2, <2>3
  <1>5. CASE writer[w].op = "clear" /\ Clear
    BY <1>1, <1>5, ClearIsExact DEF Promise!Next
  <1> QED
    BY <1>3, <1>4, <1>5 DEF Write

LEMMA WriteKeepsIInv ==
  ASSUME IInv, NoWrap, NEW w \in Writers, writer[w] # NoCall, Write(w)
  PROVE  IInv'
  <1>1. /\ StoreOK' /\ StoreInv' /\ IdsBelowNext'
        /\ nextValueID' \in {nextValueID, nextValueID + 1}
    BY WriteIsExact
  <1>2. /\ writer' = [writer EXCEPT ![w] = NoCall]
        /\ announced' = NoWriter /\ writes' = writes
        /\ reader' = Woken /\ NoReaders
    BY DEF Write, Unlock
  <1>3. \A r \in Readers :
          /\ reader'[r] = IF reader[r].pc = "called"
                            THEN [pc |-> "iterating", left |-> DOMAIN entityToValue',
                                  seen |-> {}]
                            ELSE reader[r]
          /\ reader[r].pc \notin {"iterating", "reading", "storing"}
    <2>1. [Enter EXCEPT !.left = DOMAIN entityToValue'] =
            [pc |-> "iterating", left |-> DOMAIN entityToValue', seen |-> {}]
      BY DEF Enter
    <2>2. \A r \in Readers : reader'[r] =
            IF reader[r].pc = "called" THEN [Enter EXCEPT !.left = DOMAIN entityToValue']
                                       ELSE reader[r]
      BY <1>2 DEF Woken
    <2> QED
      BY <1>2, <2>1, <2>2 DEF NoReaders, Iterating, Waiting
  <1>4. TypeOK'
    <2>1. writer' \in [Writers -> Calls \cup {NoCall}]
      BY <1>2 DEF IInv, TypeOK
    <2>2. reader' \in [Readers -> [pc : {"idle", "called", "iterating", "reading", "storing"},
                                   left : SUBSET Entities,
                                   seen : SUBSET (Entities \X Values)]]
      BY <1>1, <1>2, <1>3 DEF IInv, TypeOK, Woken, StoreOK
    <2> QED
      BY <1>1, <1>2, <2>1, <2>2 DEF IInv, TypeOK, StoreOK, Values_OK
  <1>5. IdsInv'
    <2>1. Pending' = Pending \ {w}
      BY <1>2 DEF Pending, IInv, TypeOK
    <2>2. /\ nextValueID + Cardinality(Pending \ {w}) <= writes
          /\ IsFiniteSet(Pending \ {w})
      BY RoomForOne
    <2>3. Cardinality(Pending \ {w}) \in Nat /\ nextValueID \in Nat /\ writes \in Nat
      BY <2>2, FS_CardinalityType, SharedStoreAssumption DEF IInv, TypeOK, ValueIDs
    <2> QED
      BY <1>1, <1>2, <2>1, <2>2, <2>3 DEF IdsInv
  <1>6. LoopInv'
    BY <1>3 DEF LoopInv, Iterating, Waiting
  <1>7. IterateIsSnapshot'
    <2>1. DOMAIN Contents' \subseteq DOMAIN entityToValue'
      BY DEF Contents
    <2> QED
      BY <1>3, <2>1 DEF IterateIsSnapshot, Iterating, Waiting
  <1> QED
    BY <1>1, <1>4, <1>5, <1>6, <1>7 DEF IInv

-----------------------------------------------------------------------------
(* The other steps leave the store alone.                                  *)
LEMMA StoreUnchanged ==
  ASSUME UNCHANGED store, TypeOK, StoreInv, IdsBelowNext
  PROVE  /\ StoreOK' /\ StoreInv' /\ IdsBelowNext' /\ Contents' = Contents
  BY TypesOfStore DEF store, StoreOK, StoreInv, IdsBelowNext, Contents

LEMMA CallKeepsIInv ==
  ASSUME IInv, NEW w \in Writers, NEW call \in Calls, Call(w, call)
  PROVE  IInv'
  <1>1. /\ writer[w] = NoCall /\ writes < MaxWrites
        /\ writer' = [writer EXCEPT ![w] = call] /\ writes' = writes + 1
        /\ UNCHANGED <<store, announced, reader>>
    BY DEF Call
  <1>2. call # NoCall
    BY DEF Calls, NoCall
  <1>3. TypeOK'
    <2>1. writer' \in [Writers -> Calls \cup {NoCall}]
      BY <1>1 DEF IInv, TypeOK
    <2>2. writes' \in 0 .. MaxWrites
      BY <1>1, SharedStoreAssumption DEF IInv, TypeOK
    <2> QED
      BY <1>1, <2>1, <2>2 DEF IInv, TypeOK, store
  <1>4. IdsInv'
    <2>1. Pending' = Pending \cup {w} /\ w \notin Pending
      BY <1>1, <1>2 DEF Pending, IInv, TypeOK
    <2>2. /\ IsFiniteSet(Pending \cup {w})
          /\ Cardinality(Pending \cup {w}) = Cardinality(Pending) + 1
      BY <2>1, FS_AddElement DEF IInv, IdsInv
    <2>3. Cardinality(Pending) \in Nat /\ nextValueID \in Nat /\ writes \in Nat
      BY FS_CardinalityType, SharedStoreAssumption DEF IInv, IdsInv, TypeOK, ValueIDs
    <2> QED
      BY <1>1, <2>1, <2>2, <2>3 DEF IInv, IdsInv, IdsBelowNext, store
  <1>5. StoreInv' /\ Contents' = Contents
    BY <1>1, StoreUnchanged DEF IInv, IdsInv
  <1>6. LoopInv' /\ IterateIsSnapshot'
    BY <1>1, <1>5 DEF IInv, LoopInv, IterateIsSnapshot, Iterating, Waiting, store
  <1> QED
    BY <1>3, <1>4, <1>5, <1>6 DEF IInv

(* A step of a reader, of which it is left to show what it makes of it.    *)
LEMMA ReaderKeepsIInv ==
  ASSUME IInv, NEW r \in Readers, UNCHANGED <<store, writer, writes>>,
         announced' \in {announced, r},
         NEW state, reader' = [reader EXCEPT ![r] = state],
         state \in [pc : {"idle", "called", "iterating", "reading", "storing"},
                    left : SUBSET Entities, seen : SUBSET (Entities \X Values)],
         state.pc \in {"iterating", "reading", "storing"} =>
           /\ state.left \subseteq DOMAIN entityToValue
           /\ \A e \in DOMAIN Contents \ state.left : <<e, Contents[e]>> \in state.seen
           /\ \A visit \in state.seen : /\ visit[1] \in DOMAIN Contents \ state.left
                                        /\ visit[2] = Contents[visit[1]]
  PROVE  IInv'
  <1>1. StoreInv' /\ IdsBelowNext' /\ Contents' = Contents
    BY StoreUnchanged DEF IInv, IdsInv
  <1>2. /\ reader' \in [Readers -> [pc : {"idle", "called", "iterating", "reading", "storing"},
                                    left : SUBSET Entities,
                                    seen : SUBSET (Entities \X Values)]]
        /\ \A q \in Readers : reader'[q] = IF q = r THEN state ELSE reader[q]
    BY DEF IInv, TypeOK
  <1>3. TypeOK'
    BY <1>2 DEF IInv, TypeOK, store
  <1>4. IdsInv'
    BY <1>1 DEF IInv, IdsInv, Pending, store
  <1>5. LoopInv'
    BY <1>2 DEF IInv, LoopInv, Iterating, Waiting, store
  <1>6. IterateIsSnapshot'
    BY <1>1, <1>2 DEF IInv, IterateIsSnapshot, Iterating, Waiting
  <1> QED
    BY <1>1, <1>3, <1>4, <1>5, <1>6 DEF IInv

LEMMA ReaderStepKeepsIInv ==
  ASSUME IInv, NEW r \in Readers,
         CallIterate(r) \/ ReaderStep(r) \/ CallbackReads(r) \/ CallbackStores(r)
  PROVE  IInv'
  <1> DEFINE ReaderRecord ==
               [pc : {"idle", "called", "iterating", "reading", "storing"},
                left : SUBSET Entities, seen : SUBSET (Entities \X Values)]
  <1>1. /\ reader[r] \in ReaderRecord
        /\ Iterating(r) => reader[r].left \subseteq DOMAIN entityToValue
        /\ DOMAIN entityToValue \subseteq Entities
    BY DEF IInv, TypeOK, LoopInv
  <1>2. Iterating(r) =>
          /\ \A e \in DOMAIN Contents \ reader[r].left :
               <<e, Contents[e]>> \in reader[r].seen
          /\ \A visit \in reader[r].seen :
               /\ visit[1] \in DOMAIN Contents \ reader[r].left
               /\ visit[2] = Contents[visit[1]]
    BY DEF IInv, IterateIsSnapshot
  <1>3. /\ DOMAIN Contents = DOMAIN entityToValue
        /\ \A e \in DOMAIN Contents :
             /\ entityToValue[e] \in DOMAIN valueToData
             /\ Contents[e] = valueToData[entityToValue[e]].data
             /\ Contents[e] \in Values
    <2>1. Contents = [e \in DOMAIN entityToValue |-> valueToData[entityToValue[e]].data]
      BY ContentsIsTotal DEF IInv, StoreInv
    <2>2. \A e \in DOMAIN entityToValue :
            /\ entityToValue[e] \in DOMAIN valueToData
            /\ valueToData[entityToValue[e]].data \in Values
      BY DEF IInv, StoreInv, Counted, TypeOK
    <2> QED
      BY <2>1, <2>2
  <1>4. CASE CallIterate(r)
    <2> DEFINE state == IF announced = NoWriter THEN Enter ELSE [Idle EXCEPT !.pc = "called"]
    <2>1. reader' = [reader EXCEPT ![r] = state]
          /\ UNCHANGED <<store, writer, announced, writes>>
      BY <1>4 DEF CallIterate, OnlyReader
    <2>2. CASE announced = NoWriter
      <3>1. state = [pc |-> "iterating", left |-> DOMAIN entityToValue, seen |-> {}]
        BY <2>2 DEF Enter
      <3> QED
        BY <1>1, <1>3, <2>1, <3>1, ReaderKeepsIInv
    <2>3. CASE announced # NoWriter
      <3>1. state = [pc |-> "called", left |-> {}, seen |-> {}]
        BY <2>3 DEF Idle
      <3> QED
        BY <2>1, <3>1, ReaderKeepsIInv
    <2> QED
      BY <2>2, <2>3
  <1>5. CASE IterateReturns(r)
    <2>1. /\ reader' = [reader EXCEPT ![r] = Idle]
          /\ UNCHANGED <<store, writer, announced, writes>>
      BY <1>5 DEF IterateReturns, OnlyReader
    <2>2. Idle = [pc |-> "idle", left |-> {}, seen |-> {}]
      BY DEF Idle
    <2> QED
      BY <2>1, <2>2, ReaderKeepsIInv
  <1>6. ASSUME NEW e \in Entities, Visit(r, e) PROVE IInv'
    <2> DEFINE seen == reader[r].seen \cup {<<e, Contents[e]>>}
               state == [reader[r] EXCEPT !.left = @ \ {e}, !.seen = seen]
    <2>1. /\ Iterating(r) /\ e \in reader[r].left /\ e \in DOMAIN Contents
          /\ UNCHANGED <<store, writer, announced, writes>>
      BY <1>1, <1>3, <1>6 DEF Visit, OnlyReader
    <2>2. reader' = [reader EXCEPT ![r] = state]
      <3>1. reader' = [reader EXCEPT ![r].left = @ \ {e}, ![r].seen = seen]
        BY <1>3, <1>6, <2>1 DEF Visit
      <3>2. reader \in [Readers -> ReaderRecord]
        BY DEF IInv, TypeOK
      <3> HIDE DEF seen
      <3> QED
        BY <3>1, <3>2
    <2>3. seen \subseteq Entities \X Values
      BY <1>1, <1>3, <2>1
    <2>4. state \in ReaderRecord /\ state.left = reader[r].left \ {e} /\ state.seen = seen
      <3> HIDE DEF seen
      <3> QED
        BY <1>1, <2>3
    <2>5. state.left \subseteq DOMAIN entityToValue
      BY <1>1, <2>1, <2>4
    <2>6. \A x \in DOMAIN Contents \ state.left : <<x, Contents[x]>> \in state.seen
      BY <1>2, <2>1, <2>4
    <2>7. \A visit \in state.seen : /\ visit[1] \in DOMAIN Contents \ state.left
                                    /\ visit[2] = Contents[visit[1]]
      BY <1>2, <2>1, <2>4
    <2> HIDE DEF state
    <2> QED
      BY <2>1, <2>2, <2>4, <2>5, <2>6, <2>7, ReaderKeepsIInv
  <1>7. CASE CallbackReads(r)
    <2> DEFINE state == [reader[r] EXCEPT !.pc = "reading"]
    <2>1. /\ Iterating(r) /\ reader' = [reader EXCEPT ![r] = state]
          /\ UNCHANGED <<store, writer, announced, writes>>
      BY <1>7 DEF CallbackReads, OnlyReader
    <2>2. /\ state \in ReaderRecord
          /\ state.left = reader[r].left /\ state.seen = reader[r].seen
      BY <1>1
    <2> HIDE DEF state
    <2> QED
      BY <1>1, <1>2, <2>1, <2>2, ReaderKeepsIInv
  <1>8. CASE CallbackStores(r)
    <2> DEFINE state == [reader[r] EXCEPT !.pc = "storing"]
    <2>1. /\ Iterating(r) /\ reader' = [reader EXCEPT ![r] = state]
          /\ announced' \in {announced, r}
          /\ UNCHANGED <<store, writer, writes>>
      BY <1>8 DEF CallbackStores
    <2>2. /\ state \in ReaderRecord
          /\ state.left = reader[r].left /\ state.seen = reader[r].seen
      BY <1>1
    <2> HIDE DEF state
    <2> QED
      BY <1>1, <1>2, <2>1, <2>2, ReaderKeepsIInv
  <1> QED
    BY <1>4, <1>5, <1>6, <1>7, <1>8 DEF ReaderStep

LEMMA NextInv == IInv /\ NoWrap /\ [Next]_vars => IInv'
  <1> SUFFICES ASSUME IInv, NoWrap, [Next]_vars PROVE IInv'
    OBVIOUS
  <1>1. CASE UNCHANGED vars
    BY <1>1 DEF vars, store, IInv, TypeOK, StoreInv, IdsInv, IdsBelowNext, Pending, LoopInv,
                IterateIsSnapshot, Iterating, Waiting, Contents
  <1>2. ASSUME NEW w \in Writers, Announce(w) PROVE IInv'
    BY <1>2 DEF Announce, store, IInv, TypeOK, StoreInv, IdsInv, IdsBelowNext, Pending,
                LoopInv, IterateIsSnapshot, Iterating, Waiting, Contents
  <1>3. ASSUME NEW w \in Writers, Write(w) PROVE IInv'
    <2>1. writer[w] # NoCall
      BY <1>3 DEF Write, NoCall
    <2> QED
      BY <1>3, <2>1, WriteKeepsIInv
  <1> QED
    BY <1>1, <1>2, <1>3, CallKeepsIInv, ReaderStepKeepsIInv DEF Next, WriterStep

LEMMA Inductive ==
  ASSUME NoWrap
  PROVE  Spec => []IInv
  <1>1. IInv /\ [Next]_vars => IInv'
    BY NextInv
  <1> QED
    BY <1>1, InitInv, PTL DEF Spec

(* The variables of the store keep their types as long as nextValueID does *)
(* not wrap around.                                                        *)
THEOREM TypeCorrect ==
  ASSUME NoWrap
  PROVE  Spec => []TypeOK
  <1>1. IInv => TypeOK
    BY DEF IInv
  <1> QED
    BY <1>1, Inductive, PTL

(* A value is kept for exactly as long as an entity refers to it, whatever *)
(* is set, removed and cleared in which order.                             *)
THEOREM RefCountsAreAlwaysExact ==
  ASSUME NoWrap
  PROVE  Spec => []RefCountsAreExact
  <1>1. IInv => RefCountsAreExact
    BY DEF IInv, StoreInv, Counted, Entry, RefsOf, RefCountsAreExact, References
  <1> QED
    BY <1>1, Inductive, PTL

(* Equal values are kept once.                                             *)
THEOREM ValuesAreAlwaysShared ==
  ASSUME NoWrap
  PROVE  Spec => []ValuesAreShared
  <1>1. IInv => ValuesAreShared
    BY DEF IInv, StoreInv, Shared, ValuesAreShared
  <1> QED
    BY <1>1, Inductive, PTL

(* Iterate visits one state of the store, whoever wants to change it.      *)
THEOREM IterateIsAlwaysSnapshot ==
  ASSUME NoWrap
  PROVE  Spec => []IterateIsSnapshot
  <1>1. IInv => IterateIsSnapshot
    BY DEF IInv
  <1> QED
    BY <1>1, Inductive, PTL

-----------------------------------------------------------------------------
LEMMA StepsOfAMap == IInv /\ NoWrap /\ [Next]_vars => [Promise!Next]_Contents
  <1> SUFFICES ASSUME IInv, NoWrap, [Next]_vars PROVE [Promise!Next]_Contents
    OBVIOUS
  <1>1. ASSUME UNCHANGED store PROVE [Promise!Next]_Contents
    BY <1>1 DEF store, Contents
  <1>2. ASSUME NEW w \in Writers, Write(w) PROVE [Promise!Next]_Contents
    <2>1. writer[w] # NoCall
      BY <1>2 DEF Write, NoCall
    <2> QED
      BY <1>2, <2>1, WriteIsExact
  <1>3. CASE UNCHANGED vars
    BY <1>1, <1>3 DEF vars
  <1>4. ASSUME NEW w \in Writers, Announce(w) \/ \E call \in Calls : Call(w, call)
        PROVE  [Promise!Next]_Contents
    BY <1>1, <1>4 DEF Announce, Call
  <1>5. ASSUME NEW r \in Readers,
               ReaderStep(r) \/ CallIterate(r) \/ CallbackReads(r) \/ CallbackStores(r)
        PROVE  [Promise!Next]_Contents
    BY <1>1, <1>5
    DEF ReaderStep, Visit, IterateReturns, CallIterate, CallbackReads, CallbackStores, OnlyReader
  <1> QED
    BY <1>2, <1>3, <1>4, <1>5 DEF Next, WriterStep

(* The deduplicated store implements the map that ComponentStore is.       *)
THEOREM StoreIsAlwaysAMap ==
  ASSUME NoWrap
  PROVE  Spec => StoreIsAMap
  <1>1. IInv /\ [Next]_vars => [Promise!Next]_Contents
    BY StepsOfAMap
  <1>2. Init => Promise!Init
    BY DEF Init, Promise!Init, Contents
  <1> QED
    BY <1>1, <1>2, Inductive, PTL DEF Spec, StoreIsAMap, Promise!Spec
=============================================================================
