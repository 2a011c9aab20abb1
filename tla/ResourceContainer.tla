------------------------- MODULE ResourceContainer -------------------------
(***************************************************************************)
(* resourceMap (resource_container.go): named resources in one map under   *)
(* an RWMutex.  Set and Delete hold it exclusively and are one step once   *)
(* they have it; Get holds it shared for one lookup, Range from its first  *)
(* call of the callback to its last.  The lock is not reentrant, and a     *)
(* callback that calls its container may wait for itself.                  *)
(***************************************************************************)
CONSTANTS
  Names,       (* names of resources                                        *)
  Values,      (* what may be stored under a name                           *)
  NoValue,     (* what Get returns for a name that is not there             *)
  Goroutines,  (* those that use the container                              *)
  NoOne        (* stands for none of them                                   *)

VARIABLES
  values,     (* the map                                                    *)
  calls,      (* the call each goroutine is in                              *)
  holders,    (* those that hold the lock to read                           *)
  loop,       (* what each Range has yet to visit                           *)
  stuck,      (* those whose callback waits for the lock                    *)
  announced   (* whose Lock keeps new readers out                           *)

vars == <<values, calls, holders, loop, stuck, announced>>

NoCall == [op |-> "none"]
Calls == [op : {"set"}, name : Names, value : Values]
           \cup [op : {"delete", "get"}, name : Names]
           \cup [op : {"range"}]

Reads(call)  == call.op \in {"get", "range"}
Writes(call) == call.op \in {"set", "delete"}

Init ==
  /\ values = [n \in {} |-> NoValue]
  /\ calls = [g \in Goroutines |-> NoCall]
  /\ holders = {}
  /\ loop = [g \in Goroutines |-> {}]
  /\ stuck = {}
  /\ announced = NoOne

With(f, x, z) == [y \in DOMAIN f \cup {x} |-> IF y = x THEN z ELSE f[y]]
Without(f, x) == [y \in DOMAIN f \ {x} |-> f[y]]

Lookup(n) == IF n \in DOMAIN values THEN values[n] ELSE NoValue

-----------------------------------------------------------------------------
(* The loop of Range, when the lock has just been taken for the call.      *)
Begun(call, contents) ==
  IF call.op = "range" THEN DOMAIN contents ELSE {}

(* RLock succeeds at once unless a Lock waits or is held.                  *)
Call(g, call) ==
  LET enters == Reads(call) /\ announced = NoOne
  IN  /\ calls[g] = NoCall
      /\ calls' = [calls EXCEPT ![g] = call]
      /\ holders' = IF enters THEN holders \cup {g} ELSE holders
      /\ loop' = IF enters THEN [loop EXCEPT ![g] = Begun(call, values)] ELSE loop
      /\ UNCHANGED <<values, stuck, announced>>

Announce(g) ==
  /\ Writes(calls[g])
  /\ announced = NoOne
  /\ announced' = g
  /\ UNCHANGED <<values, calls, holders, loop, stuck>>

NoReaders == holders = {}

Deleted(call) == Without(values, call.name)

Written(call) ==
  IF call.op = "set" THEN With(values, call.name, call.value) ELSE Deleted(call)

(* The Unlock lets in the readers that came meanwhile, before the next     *)
(* Lock.                                                                   *)
Write(g) ==
  LET woken == {h \in Goroutines \ holders : Reads(calls[h])}
  IN  /\ announced = g
      /\ Writes(calls[g])
      /\ NoReaders
      /\ values' = Written(calls[g])
      /\ calls' = [calls EXCEPT ![g] = NoCall]
      /\ announced' = NoOne
      /\ holders' = holders \cup woken
      /\ loop' = [h \in Goroutines |->
                    IF h \in woken THEN Begun(calls[h], values') ELSE loop[h]]
      /\ UNCHANGED stuck

Runs(g, op) == g \in holders \ stuck /\ calls[g].op = op

Returns(g) ==
  /\ calls' = [calls EXCEPT ![g] = NoCall]
  /\ holders' = holders \ {g}
  /\ loop' = [loop EXCEPT ![g] = {}]
  /\ UNCHANGED <<values, stuck, announced>>

(* The result is Lookup of its name.                                       *)
GetReturns(g) == Runs(g, "get") /\ Returns(g)

(* The callback is given the name and its Lookup.                          *)
Visit(g, n) ==
  /\ Runs(g, "range")
  /\ n \in loop[g]
  /\ loop' = [loop EXCEPT ![g] = @ \ {n}]
  /\ UNCHANGED <<values, calls, holders, stuck, announced>>

(* Nothing is left, or the callback returned false.                        *)
RangeReturns(g) == Runs(g, "range") /\ Returns(g)

(* A callback that calls Get or Range gets the lock at once, unless a Lock *)
(* waits: for the very Range the callback is part of.                      *)
CallbackReads(g) ==
  /\ Runs(g, "range")
  /\ announced # NoOne
  /\ stuck' = stuck \cup {g}
  /\ UNCHANGED <<values, calls, holders, loop, announced>>

(* A callback that calls Set or Delete is kept out by its own Range, and   *)
(* as long as it waits it keeps out everybody else.                        *)
CallbackWrites(g) ==
  /\ Runs(g, "range")
  /\ stuck' = stuck \cup {g}
  /\ announced' = IF announced = NoOne THEN g ELSE announced
  /\ UNCHANGED <<values, calls, holders, loop>>

-----------------------------------------------------------------------------
Step(g) ==
  \/ Announce(g) \/ Write(g)
  \/ GetReturns(g)
  \/ (\E n \in Names : Visit(g, n)) \/ RangeReturns(g)
  \/ CallbackReads(g) \/ CallbackWrites(g)

Entangled == stuck # {}

Next ==
  \/ \E g \in Goroutines : Step(g) \/ \E call \in Calls : Call(g, call)
  \/ Entangled /\ UNCHANGED vars

Spec == Init /\ [][Next]_vars
=============================================================================
