---------------------------- MODULE SharedStore ----------------------------
(***************************************************************************)
(* sharedStore (ecs/storage/shared.go): entities with equal values share   *)
(* one value ID and one reference-counted copy of the value.               *)
(*                                                                         *)
(* Every method runs under the store's RWMutex.  Set, Remove and Clear     *)
(* hold it exclusively and are one step once they have it; Iterate holds   *)
(* it shared from its first call of the callback to its last, so other     *)
(* goroutines move between those.  Has, Get, Len and Stats change nothing. *)
(* They matter only within a callback of Iterate: the lock is not          *)
(* reentrant, and a callback that calls its store may wait for itself.     *)
(***************************************************************************)
EXTENDS Integers, FiniteSets

CONSTANTS
  Entities,      (* the identifiers of entities, but for the zero value     *)
  Values,        (* values of the component                                 *)
  Incomparable,  (* those reflect.DeepEqual tells even from themselves: NaN *)
  Uint32,        (* the number of values of a uint32                        *)
  Writers,       (* goroutines that call Set, Remove and Clear              *)
  Readers,       (* goroutines that call Iterate                            *)
  NoWriter,      (* stands for no writer                                    *)
  MaxWrites      (* bound: calls of Set, Remove and Clear                   *)

ASSUME SharedStoreAssumption ==
  /\ IsFiniteSet(Entities)
  /\ Incomparable \subseteq Values
  /\ Uint32 \in Nat \ {0, 1}
  /\ NoWriter \notin Writers \cup Readers
  /\ MaxWrites \in Nat

VARIABLES
  entityToValue,  (* the value ID of each entity that has the component     *)
  valueToData,    (* the value and the reference count of each value ID     *)
  nextValueID,    (* the value ID to give out next                          *)
  count,          (* the number of entities with the component              *)
  writer,         (* the call each writer is in                             *)
  announced,      (* whose Lock keeps new readers out                       *)
  reader,         (* where each call of Iterate is                          *)
  writes          (* how many calls of the writers there were               *)

store == <<entityToValue, valueToData, nextValueID, count>>
vars == <<store, writer, announced, reader, writes>>

ValueIDs == 0 .. Uint32 - 1

NoCall == [op |-> "none"]
Calls == [op : {"set"}, entity : Entities, value : Values]
           \cup [op : {"remove"}, entity : Entities]
           \cup [op : {"clear"}]

(* A reader: what its loop has yet to visit, and what the callback saw.    *)
Idle == [pc |-> "idle", left |-> {}, seen |-> {}]

Init ==
  /\ entityToValue = [e \in {} |-> 0]
  /\ valueToData = [id \in {} |-> 0]
  /\ nextValueID = 1
  /\ count = 0
  /\ writer = [w \in Writers |-> NoCall]
  /\ announced = NoWriter
  /\ reader = [r \in Readers |-> Idle]
  /\ writes = 0

-----------------------------------------------------------------------------
(* The maps of the store.                                                  *)

Without(f, x) == [y \in DOMAIN f \ {x} |-> f[y]]
With(f, x, z) == [y \in DOMAIN f \cup {x} |-> IF y = x THEN z ELSE f[y]]

(* Defective variant: an entry goes with the first of its references.      *)
DropFirst(values, id) == Without(values, id)

(* Defective variant: an entry outlives the last of its references.        *)
KeepLast(values, id) ==
  IF id \in DOMAIN values THEN [values EXCEPT ![id].refCount = @ - 1]
                          ELSE values

DecrementRefCount(values, id) ==
  CASE id \notin DOMAIN values -> values
    [] id \in DOMAIN values /\ values[id].refCount <= 1 -> Without(values, id)
    [] OTHER -> [values EXCEPT ![id].refCount = @ - 1]

DeepEqual(a, b) == a = b /\ a \notin Incomparable

(* What findOrCreateValueLocked may return - the order of a range over a   *)
(* map is arbitrary - and what it makes of the maps.                       *)
FoundValues(values, value) ==
  {[id |-> id, next |-> nextValueID,
    values |-> [values EXCEPT ![id].refCount = @ + 1]] :
     id \in {v \in DOMAIN values : DeepEqual(values[v].data, value)}}

CreatedValue(values, value) ==
  [id |-> nextValueID, next |-> (nextValueID + 1) % Uint32,
   values |-> With(values, nextValueID, [data |-> value, refCount |-> 1])]

(* Defective variant: the value is not searched for.                       *)
AlwaysCreate(values, value) == {CreatedValue(values, value)}

FindOrCreateValue(values, value) ==
  IF FoundValues(values, value) # {} THEN FoundValues(values, value)
                                     ELSE {CreatedValue(values, value)}

-----------------------------------------------------------------------------
(* Set, Remove and Clear, by a writer that holds the lock.                 *)

HasValue(e) == e \in DOMAIN entityToValue

Released(e) ==
  IF HasValue(e) THEN DecrementRefCount(valueToData, entityToValue[e])
                 ELSE valueToData

Set(e, value) ==
  /\ count' = IF HasValue(e) THEN count ELSE count + 1
  /\ \E found \in FindOrCreateValue(Released(e), value) :
       /\ valueToData' = found.values
       /\ nextValueID' = found.next
       /\ entityToValue' = With(entityToValue, e, found.id)

(* Defective variant: the lookup is not checked.                           *)
RemoveUnchecked(e) ==
  /\ valueToData' = Released(e)
  /\ entityToValue' = Without(entityToValue, e)
  /\ count' = count - 1
  /\ UNCHANGED nextValueID

Remove(e) ==
  \/ /\ ~HasValue(e)
     /\ UNCHANGED store
  \/ /\ HasValue(e)
     /\ valueToData' = Released(e)
     /\ entityToValue' = Without(entityToValue, e)
     /\ count' = count - 1
     /\ UNCHANGED nextValueID

Clear ==
  /\ entityToValue' = [e \in {} |-> 0]
  /\ valueToData' = [id \in {} |-> 0]
  /\ count' = 0
  /\ UNCHANGED nextValueID

-----------------------------------------------------------------------------
(* sync.RWMutex: a Lock that waits keeps new readers out, and the Unlock   *)
(* lets in those that came meanwhile, before the next Lock.                *)

Iterating(r) == reader[r].pc = "iterating"

(* A callback that waits for the lock, to read or to write its own store.  *)
Waiting(r) == reader[r].pc \in {"reading", "storing"}

Entangled == \E r \in Readers : Waiting(r)

Enter == [pc |-> "iterating", left |-> DOMAIN entityToValue, seen |-> {}]

Call(w, call) ==
  /\ writer[w] = NoCall
  /\ writes < MaxWrites
  /\ writer' = [writer EXCEPT ![w] = call]
  /\ writes' = writes + 1
  /\ UNCHANGED <<store, announced, reader>>

Announce(w) ==
  /\ writer[w] # NoCall
  /\ announced = NoWriter
  /\ announced' = w
  /\ UNCHANGED <<store, writer, reader, writes>>

(* Defective variant: Iterate does not take the lock.                      *)
AnyReaders == TRUE

(* Iterate has the lock until it returns.                                  *)
NoReaders == \A r \in Readers : ~Iterating(r) /\ ~Waiting(r)

Woken == [r \in Readers |->
            IF reader[r].pc = "called"
              THEN [Enter EXCEPT !.left = DOMAIN entityToValue']
              ELSE reader[r]]

(* Defective variant: an early return keeps the lock.                      *)
KeptWhenAbsent(w) ==
  IF writer[w].op = "remove" /\ ~HasValue(writer[w].entity) THEN w ELSE NoWriter

(* Who has the lock when the call of w has returned.                       *)
Unlock(w) == NoWriter

Write(w) ==
  /\ announced = w
  /\ NoReaders
  /\ \/ writer[w].op = "set" /\ Set(writer[w].entity, writer[w].value)
     \/ writer[w].op = "remove" /\ Remove(writer[w].entity)
     \/ writer[w].op = "clear" /\ Clear
  /\ writer' = [writer EXCEPT ![w] = NoCall]
  /\ announced' = Unlock(w)
  /\ reader' = Woken
  /\ UNCHANGED writes

OnlyReader == UNCHANGED <<store, writer, announced, writes>>

CallIterate(r) ==
  /\ reader[r].pc = "idle"
  /\ reader' = [reader EXCEPT ![r] =
                  IF announced = NoWriter THEN Enter ELSE [Idle EXCEPT !.pc = "called"]]
  /\ OnlyReader

(* An entity whose value ID is unknown is passed over.                     *)
Visit(r, e) ==
  /\ Iterating(r)
  /\ e \in reader[r].left
  /\ reader' = [reader EXCEPT
       ![r].left = @ \ {e},
       ![r].seen = IF entityToValue[e] \in DOMAIN valueToData
                     THEN @ \cup {<<e, valueToData[entityToValue[e]].data>>}
                     ELSE @]
  /\ OnlyReader

(* A callback that calls Get, Has, Len or Iterate gets the lock at once,   *)
(* unless a Lock waits: for the very Iterate the callback is part of.      *)
CallbackReads(r) ==
  /\ Iterating(r)
  /\ announced # NoWriter
  /\ reader' = [reader EXCEPT ![r].pc = "reading"]
  /\ OnlyReader

(* A callback that calls Set, Remove or Clear is kept out by its own       *)
(* Iterate, and as long as it waits it keeps out everybody else.           *)
CallbackStores(r) ==
  /\ Iterating(r)
  /\ reader' = [reader EXCEPT ![r].pc = "storing"]
  /\ announced' = IF announced = NoWriter THEN r ELSE announced
  /\ UNCHANGED <<store, writer, writes>>

(* Nothing is left, or the callback returned false.                        *)
IterateReturns(r) ==
  /\ Iterating(r)
  /\ reader' = [reader EXCEPT ![r] = Idle]
  /\ OnlyReader

-----------------------------------------------------------------------------
WriterStep(w) == Announce(w) \/ Write(w)
ReaderStep(r) == (\E e \in Entities : Visit(r, e)) \/ IterateReturns(r)

Next ==
  \/ \E w \in Writers : WriterStep(w) \/ \E call \in Calls : Call(w, call)
  \/ \E r \in Readers : ReaderStep(r) \/ CallIterate(r)
  \/ \E r \in Readers : CallbackReads(r) \/ CallbackStores(r)
  \/ Entangled /\ UNCHANGED vars

Spec == Init /\ [][Next]_vars

(* Callbacks that do not wait return, and the mutex of the writers is handed*)
(* to the one that has waited for long.  Nobody has to call anything.      *)
Fairness ==
  /\ \A w \in Writers : SF_vars(Announce(w)) /\ WF_vars(Write(w))
  /\ \A r \in Readers : WF_vars(IterateReturns(r))

FairSpec == Spec /\ Fairness

-----------------------------------------------------------------------------
TypeOK ==
  /\ DOMAIN entityToValue \subseteq Entities
  /\ \A e \in DOMAIN entityToValue : entityToValue[e] \in ValueIDs
  /\ DOMAIN valueToData \subseteq ValueIDs
  /\ \A id \in DOMAIN valueToData :
       valueToData[id] \in [data : Values, refCount : Nat]
  /\ nextValueID \in ValueIDs
  /\ count \in Nat
  /\ writer \in [Writers -> Calls \cup {NoCall}]
  /\ announced \in Writers \cup Readers \cup {NoWriter}
  /\ reader \in [Readers -> [pc : {"idle", "called", "iterating", "reading", "storing"},
                             left : SUBSET Entities,
                             seen : SUBSET (Entities \X Values)]]
  /\ writes \in 0 .. MaxWrites

References(id) == {e \in DOMAIN entityToValue : entityToValue[e] = id}

(* A value is kept for exactly as long as an entity refers to it - that    *)
(* none is missing is said by shared.go:82 -, its reference count is the   *)
(* number of those entities, and Len is that of all.                       *)
RefCountsAreExact ==
  /\ \A e \in DOMAIN entityToValue : entityToValue[e] \in DOMAIN valueToData
  /\ \A id \in DOMAIN valueToData :
       /\ valueToData[id].refCount = Cardinality(References(id))
       /\ valueToData[id].refCount > 0
  /\ count = Cardinality(DOMAIN entityToValue)

(* No value is kept twice, whatever was set over what and in which order.  *)
ValuesAreShared ==
  \A id1, id2 \in DOMAIN valueToData :
    DeepEqual(valueToData[id1].data, valueToData[id2].data) => id1 = id2

(* What Get returns for each entity for which it returns something.        *)
Contents ==
  [e \in {d \in DOMAIN entityToValue : entityToValue[d] \in DOMAIN valueToData} |->
     valueToData[entityToValue[e]].data]

Promise == INSTANCE ComponentStore
  WITH Ids <- Entities,
       Rivals <- [e \in Entities |-> {}],
       contents <- Contents

(* Sharing is transparent: the store is a map, in which a Set or a Remove  *)
(* changes the value of one entity only.                                   *)
StoreIsAMap == Promise!Spec

(* Iterate visits the store as it is at one moment, each entity once, even *)
(* while Set, Remove and Clear are being called.                           *)
IterateIsSnapshot ==
  \A r \in Readers : Iterating(r) \/ Waiting(r) =>
    LET unseen == reader[r].left
    IN  /\ \A e \in DOMAIN Contents \ unseen : <<e, Contents[e]>> \in reader[r].seen
        /\ \A visit \in reader[r].seen :
             /\ visit[1] \in DOMAIN Contents \ unseen
             /\ visit[2] = Contents[visit[1]]

(* Every call returns, whoever else reads and writes, but for one cause:   *)
(* a callback of Iterate that calls its own store, to write, or to read    *)
(* while somebody waits to write.                                          *)
EveryCallReturns ==
  /\ \A w \in Writers : writer[w] # NoCall ~> (writer[w] = NoCall \/ Entangled)
  /\ \A r \in Readers : reader[r].pc # "idle" ~> (reader[r].pc = "idle" \/ Entangled)

=============================================================================
