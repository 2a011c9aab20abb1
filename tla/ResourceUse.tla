---------------------------- MODULE ResourceUse -----------------------------
(***************************************************************************)
(* What the validation of RegisterWorkGroup is for: the systems of the     *)
(* registered groups use the resource container of the world while other   *)
(* groups run on other goroutines.  Tick runs the synchronized groups one  *)
(* at a time on its own goroutine, and the async ones too if there is no   *)
(* pool; the pool's workers run the async ones at any time, in a later     *)
(* Tick if the one that dispatched them was abandoned.                     *)
(*                                                                         *)
(* Nothing keeps a system from using what it has not declared: that it     *)
(* does not is assumed here (DeclaredCalls).                               *)
(***************************************************************************)
EXTENDS Registration

CONSTANTS
  Values,   (* values of resources                                          *)
  NoValue,  (* what Get returns for a resource that is not there            *)
  Ticker,   (* the goroutine that calls Tick                                *)
  Workers,  (* the goroutines of the pools                                  *)
  NoOne,    (* none of these                                                *)
  Unread    (* of a resource a run of a group has not used                  *)

Goroutines == {Ticker} \cup Workers

ASSUME UseAssumption ==
  /\ Ticker \notin Workers
  /\ NoOne \notin Goroutines
  /\ NoValue \notin Values
  /\ Unread \notin Values \cup {NoValue}

VARIABLES
  values, calls, holders, loop, stuck, announced,  (* the container         *)
  running,  (* the group each goroutine runs                                *)
  known     (* what that run last read from or wrote to each resource       *)

container == <<values, calls, holders, loop, stuck, announced>>
useVars == <<vars, container, running, known>>

Container == INSTANCE ResourceContainer WITH Names <- Resources

NothingKnown == [r \in Resources |-> Unread]

UseInit ==
  /\ Init
  /\ Container!Init
  /\ running = [p \in Goroutines |-> NoGroup]
  /\ known = [p \in Goroutines |-> NothingKnown]

-----------------------------------------------------------------------------
Busy == {p \in Workers : running[p] # NoGroup}

(* The pool is replaced once its workers have left.                        *)
OtherCall ==
  \/ \E cfg \in Configs : RegisterRefused(cfg)
  \/ \E ids \in SyncOrders : WithSyncOrder(ids)
  \/ Busy = {} /\ \E count \in WorkerCounts : WithAsyncWorkers(count)
  \/ \E w \in Worlds \cup {NoWorld} : Build(w)

Configure ==
  /\ \/ \E cfg \in Configs : Register(cfg)
     \/ \E pair \in ErrorPolicies : WithErrorPolicy(pair[1], pair[2])
     \/ OtherCall
  /\ UNCHANGED <<container, running, known>>

RunsOn(p, g) ==
  \/ p = Ticker /\ (groupStates[g].async => asyncPool = 0)
  \/ p \in Workers /\ groupStates[g].async /\ Cardinality(Busy) < asyncPool

RunWorkGroup(p, g) ==
  /\ running[p] = NoGroup
  /\ RunsOn(p, g)
  /\ running' = [running EXCEPT ![p] = g]
  /\ UNCHANGED <<vars, container, known>>

(* After any of its systems: the later ones may be passed over.            *)
RunEnds(p) ==
  /\ running[p] # NoGroup
  /\ calls[p] = Container!NoCall
  /\ running' = [running EXCEPT ![p] = NoGroup]
  /\ known' = [known EXCEPT ![p] = NothingKnown]
  /\ UNCHANGED <<vars, container>>

(* A callback of Range may pass over what its system has not declared.     *)
DeclaredCalls(g) ==
  {call \in Container!Calls :
     /\ call.op = "get" => call.name \in groupStates[g].resourceReads
     /\ Container!Writes(call) => call.name \in groupStates[g].resourceWrites}

CallResources(p, call) ==
  /\ running[p] # NoGroup
  /\ call \in DeclaredCalls(running[p])
  /\ Container!Call(p, call)
  /\ UNCHANGED <<vars, running, known>>

Learn(p, r, value) == known' = [known EXCEPT ![p][r] = value]

Get(p) ==
  /\ Container!GetReturns(p)
  /\ Learn(p, calls[p].name, Container!Lookup(calls[p].name))
  /\ UNCHANGED <<vars, running>>

SetOrDelete(p) ==
  /\ Container!Write(p)
  /\ Learn(p, calls[p].name, IF calls[p].op = "set" THEN calls[p].value ELSE NoValue)
  /\ UNCHANGED <<vars, running>>

RangeVisits(p, r) ==
  /\ Container!Visit(p, r)
  /\ \/ r \in groupStates[running[p]].resourceReads /\ Learn(p, r, Container!Lookup(r))
     \/ r \notin groupStates[running[p]].resourceReads /\ UNCHANGED known
  /\ UNCHANGED <<vars, running>>

(* The other steps of a call.                                              *)
LockStep(p) ==
  /\ \/ Container!Announce(p)
     \/ Container!RangeReturns(p)
     \/ Container!CallbackReads(p) \/ Container!CallbackWrites(p)
  /\ UNCHANGED <<vars, running, known>>

UseStep ==
  \/ \E p \in Goroutines :
       \/ \E g \in DOMAIN groupStates : RunWorkGroup(p, g)
       \/ RunEnds(p)
       \/ \E call \in Container!Calls : CallResources(p, call)
       \/ \E r \in Resources : RangeVisits(p, r)
       \/ Get(p) \/ SetOrDelete(p) \/ LockStep(p)
  \/ Container!Entangled /\ UNCHANGED useVars

UseNext == Configure \/ UseStep

UseSpec == UseInit /\ [][UseNext]_useVars

-----------------------------------------------------------------------------
(* Goroutines run registered groups, and without one they call nothing and *)
(* know nothing.                                                           *)
UseTypeOK ==
  /\ running \in [Goroutines -> Registered \cup {NoGroup}]
  /\ known \in [Goroutines -> [Resources -> Values \cup {NoValue, Unread}]]
  /\ \A p \in Goroutines : running[p] = NoGroup =>
       calls[p] = Container!NoCall /\ known[p] = NothingKnown

(* What a running group has read of resources, or has written, is true as  *)
(* long as it runs: of each, and so of all of them at once, whatever other *)
(* groups run meanwhile.                                                   *)
ReadsStayTrue ==
  \A p \in Goroutines : \A r \in Resources :
    known[p][r] # Unread => known[p][r] = Container!Lookup(r)
=============================================================================
