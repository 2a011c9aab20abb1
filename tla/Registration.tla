---------------------------- MODULE Registration ----------------------------
(***************************************************************************)
(* The configuration of a scheduler (scheduler_impl.go): RegisterWorkGroup,*)
(* which validates what the systems of a group say they access, against    *)
(* each other and against the groups registered before, and the builder's  *)
(* WithSyncOrder, WithAsyncWorkers, WithErrorPolicy and Build; its         *)
(* WithInstrumentation is in Observability.  Each call holds the lock of   *)
(* the scheduler, so each is one step, in any order, at any time.          *)
(***************************************************************************)
EXTENDS Integers, Sequences, FiniteSets

CONSTANTS
  Groups,        (* identifiers of work groups, but for the empty one       *)
  NoGroup,       (* the empty identifier                                    *)
  NoSystem,      (* nil, in a list of systems                               *)
  Worlds,        (* worlds of the callers                                   *)
  OwnWorld,      (* the one NewScheduler makes when it is given none        *)
  NoWorld,       (* nil                                                     *)
  Components,    (* component types                                         *)
  Resources,     (* names of resources                                      *)
  NoName,        (* the empty name of a resource                            *)
  Configs,       (* the WorkGroupConfigs RegisterWorkGroup may be given     *)
  SyncOrders,    (* the orders WithSyncOrder may be given                   *)
  WorkerCounts,  (* the counts WithAsyncWorkers may be given                *)
  ErrorPolicies, (* the pairs WithErrorPolicy may be given                  *)
  NumCPU         (* runtime.NumCPU()                                        *)

Policies == {"Abort", "Continue", "Retry"}

ResourceAccess == [name : Resources \cup {NoName}, mode : {"read", "write"}]

SystemDescriptor == [asyncAllowed : BOOLEAN, reads : Seq(Components),
                     writes : Seq(Components), resources : Seq(ResourceAccess)]

WorkGroupConfig == [id : Groups \cup {NoGroup}, async : BOOLEAN, policy : Policies,
                    systems : Seq(SystemDescriptor \cup {NoSystem})]

(* Who owns what no group writes.                                         *)
Nobody == "nobody"

ASSUME RegistrationAssumption ==
  /\ NoName \notin Resources
  /\ NoGroup \notin Groups
  /\ Nobody \notin Groups
  /\ NoSystem \notin SystemDescriptor
  /\ NoWorld \notin Worlds \cup {OwnWorld}
  /\ Configs \subseteq WorkGroupConfig
  /\ SyncOrders \subseteq Seq(Groups)
  /\ WorkerCounts \subseteq Int
  /\ ErrorPolicies \subseteq Groups \X Policies
  /\ NumCPU \in Nat

VARIABLES
  groupStates,        (* the workGroupState of each registered group        *)
  registrationOrder,  (* the groups in the order of their registration      *)
  syncOrder,          (* the order last given to WithSyncOrder              *)
  orderedGroups,      (* the order in which Tick visits the groups          *)
  errorPolicies,      (* the policies WithErrorPolicy has recorded          *)
  asyncWorkers,       (* how many workers the pool is to have               *)
  asyncPool,          (* how many it has; 0 stands for no pool              *)
  componentOwners,    (* the group that writes each component, if any       *)
  resourceOwners,     (* the group that writes each resource, if any        *)
  resourceReaders,    (* the groups that read each resource                 *)
  world               (* the world later Ticks work on                      *)

order  == <<registrationOrder, syncOrder, orderedGroups>>
owners == <<componentOwners, resourceOwners, resourceReaders>>
pool   == <<asyncWorkers, asyncPool>>
vars   == <<groupStates, order, errorPolicies, pool, owners, world>>

NoMap == [x \in {} |-> Nobody]

Init ==
  /\ groupStates = NoMap
  /\ registrationOrder = <<>>
  /\ syncOrder = <<>>
  /\ orderedGroups = <<>>
  /\ errorPolicies = NoMap
  /\ asyncWorkers = 0
  /\ asyncPool = 0
  /\ componentOwners = [c \in Components |-> Nobody]
  /\ resourceOwners = [r \in Resources |-> Nobody]
  /\ resourceReaders = [r \in Resources |-> {}]
  /\ world \in Worlds \cup {OwnWorld}

With(f, x, z) == [y \in DOMAIN f \cup {x} |-> IF y = x THEN z ELSE f[y]]
Elements(s) == {s[i] : i \in DOMAIN s}

(* What of s is in chosen, in its order: a loop that appends or continues. *)
Chosen(s, chosen) ==
  LET kept[n \in 0 .. Len(s)] ==
        IF n = 0 THEN <<>>
        ELSE IF s[n] \in chosen THEN Append(kept[n - 1], s[n]) ELSE kept[n - 1]
  IN  kept[Len(s)]

-----------------------------------------------------------------------------
(* validateSystemsAccess: what the systems of a group access, and whether  *)
(* they may.  Systems that are nil have been left out.                     *)

SystemsOf(cfg) == Chosen(cfg.systems, Elements(cfg.systems) \ {NoSystem})

ReadsOf(sys)  == Elements(sys.reads)
WritesOf(sys) == Elements(sys.writes)

AccessesOf(sys, mode) ==
  {sys.resources[k].name : k \in {l \in DOMAIN sys.resources :
                                    sys.resources[l].mode = mode}}

ResourcesOf(sys, mode) == AccessesOf(sys, mode) \ {NoName}

AsyncSystemAllowed(sys) ==
  /\ sys.asyncAllowed
  /\ sys.writes = <<>>
  /\ AccessesOf(sys, "write") = {}

(* A system may not list a write twice.                                    *)
ListsOnce(sys) ==
  /\ \A k, l \in DOMAIN sys.writes : sys.writes[k] = sys.writes[l] => k = l
  /\ \A k, l \in DOMAIN sys.resources :
       /\ sys.resources[k] = sys.resources[l]
       /\ sys.resources[k].mode = "write"
       /\ sys.resources[k].name # NoName
       => k = l

SystemsAllowed(cfg) ==
  LET systems == SystemsOf(cfg)
  IN  /\ \A k \in DOMAIN systems :
           /\ cfg.async => AsyncSystemAllowed(systems[k])
           /\ ListsOnce(systems[k])
      /\ \A k, l \in DOMAIN systems : k # l =>
           /\ WritesOf(systems[k]) \cap WritesOf(systems[l]) = {}
           /\ ResourcesOf(systems[k], "write") \cap ResourcesOf(systems[l], "write") = {}

OverSystems(cfg, Of(_)) == UNION {Of(sys) : sys \in Elements(SystemsOf(cfg))}

(* The state of a group; what it writes it also reads, of resources.       *)
StateOf(cfg, policy) ==
  LET written(sys) == ResourcesOf(sys, "write")
      accessed(sys) == ResourcesOf(sys, "read") \cup ResourcesOf(sys, "write")
  IN  [async |-> cfg.async,
       policy |-> policy,
       readSet |-> OverSystems(cfg, ReadsOf),
       writeSet |-> OverSystems(cfg, WritesOf),
       resourceReads |-> OverSystems(cfg, accessed),
       resourceWrites |-> OverSystems(cfg, written)]

(* Defective variant: the readers of what a group writes are overlooked.   *)
OwnersOnly(id, state) ==
  /\ \A c \in state.writeSet : componentOwners[c] \in {Nobody, id}
  /\ \A r \in state.resourceReads \cup state.resourceWrites :
       resourceOwners[r] \in {Nobody, id}

(* checkCrossGroupConflicts finds none.                                    *)
NoCrossGroupConflict(id, state) ==
  /\ \A c \in state.writeSet : componentOwners[c] \in {Nobody, id}
  /\ \A r \in state.resourceWrites :
       /\ resourceOwners[r] \in {Nobody, id}
       /\ resourceReaders[r] \subseteq {id}
  /\ \A r \in state.resourceReads : resourceOwners[r] \in {Nobody, id}

-----------------------------------------------------------------------------
(* ErrorPolicyAbort is the zero value, which asks for the recorded one.    *)
ResolvePolicy(recorded, id, supplied) ==
  IF supplied = "Abort" /\ id \in DOMAIN recorded THEN recorded[id] ELSE supplied

(* Defective variant: a group of the sync order is not left out of the rest.*)
OrderedTwice(sync, registered, states) ==
  Chosen(sync, DOMAIN states) \o Chosen(registered, DOMAIN states)

(* rebuildOrder, for the groups in states.                                 *)
Ordered(sync, registered, states) ==
  Chosen(sync, DOMAIN states) \o Chosen(registered, DOMAIN states \ Elements(sync))

RebuildOrder == orderedGroups' = Ordered(syncOrder', registrationOrder', groupStates')

(* An async group needs a pool; it is made before the group is validated,  *)
(* and stays when that fails.                                              *)
EnsurePool(async) ==
  IF async /\ asyncPool = 0
    THEN LET workers == IF asyncWorkers > 0 THEN asyncWorkers
                        ELSE IF NumCPU > 0 THEN NumCPU ELSE 1
         IN  asyncWorkers' = workers /\ asyncPool' = workers
    ELSE UNCHANGED pool

(* Defective variant: what the group writes is recorded before the check.  *)
RefusedLate(cfg) ==
  /\ cfg.id \notin DOMAIN groupStates \cup {NoGroup}
  /\ SystemsAllowed(cfg)
  /\ ~NoCrossGroupConflict(cfg.id, StateOf(cfg, cfg.policy))
  /\ EnsurePool(cfg.async)
  /\ componentOwners' = [c \in Components |->
       IF c \in StateOf(cfg, cfg.policy).writeSet /\ componentOwners[c] = Nobody
         THEN cfg.id ELSE componentOwners[c]]
  /\ UNCHANGED <<groupStates, order, errorPolicies, resourceOwners, resourceReaders, world>>

RegisterRefused(cfg) ==
  /\ \/ cfg.id \in DOMAIN groupStates \cup {NoGroup} /\ UNCHANGED pool
     \/ /\ cfg.id \notin DOMAIN groupStates \cup {NoGroup}
        /\ ~SystemsAllowed(cfg)
             \/ ~NoCrossGroupConflict(cfg.id, StateOf(cfg, cfg.policy))
        /\ EnsurePool(cfg.async)
  /\ UNCHANGED <<groupStates, order, errorPolicies, owners, world>>

Register(cfg) ==
  LET state == StateOf(cfg, ResolvePolicy(errorPolicies, cfg.id, cfg.policy))
  IN  /\ cfg.id \notin DOMAIN groupStates \cup {NoGroup}
      /\ SystemsAllowed(cfg)
      /\ NoCrossGroupConflict(cfg.id, state)
      /\ EnsurePool(cfg.async)
      /\ groupStates' = With(groupStates, cfg.id, state)
      /\ registrationOrder' = Append(registrationOrder, cfg.id)
      /\ componentOwners' = [c \in Components |->
           IF c \in state.writeSet THEN cfg.id ELSE componentOwners[c]]
      /\ resourceOwners' = [r \in Resources |->
           IF r \in state.resourceWrites THEN cfg.id ELSE resourceOwners[r]]
      /\ resourceReaders' = [r \in Resources |->
           IF r \in state.resourceReads THEN resourceReaders[r] \cup {cfg.id}
                                        ELSE resourceReaders[r]]
      /\ UNCHANGED <<syncOrder, errorPolicies, world>>
      /\ RebuildOrder

WithSyncOrder(ids) ==
  /\ syncOrder' = ids
  /\ UNCHANGED <<groupStates, registrationOrder, errorPolicies, pool, owners, world>>
  /\ RebuildOrder

WithAsyncWorkers(count) ==
  /\ asyncWorkers' = IF count < 0 THEN 0 ELSE count
  /\ asyncPool' = asyncWorkers'
  /\ UNCHANGED <<groupStates, order, errorPolicies, owners, world>>

(* Defective variant: the zero value is recorded like any other.           *)
RecordedAlways(id, policy) == With(errorPolicies, id, policy)

(* The zero value takes the record away.                                   *)
Recorded(id, policy) ==
  IF policy = "Abort"
    THEN [x \in DOMAIN errorPolicies \ {id} |-> errorPolicies[x]]
    ELSE With(errorPolicies, id, policy)

(* Defective variant: the group that is registered already is left alone.  *)
RecordPolicy(id, policy) ==
  /\ errorPolicies' = Recorded(id, policy)
  /\ UNCHANGED <<groupStates, order, pool, owners, world>>

(* A registered group resolves its policy anew, from the one it has.       *)
WithErrorPolicy(id, policy) ==
  /\ errorPolicies' = Recorded(id, policy)
  /\ groupStates' = [g \in DOMAIN groupStates |->
       IF g = id
         THEN [groupStates[g] EXCEPT !.policy = ResolvePolicy(errorPolicies', id, @)]
         ELSE groupStates[g]]
  /\ UNCHANGED <<order, pool, owners, world>>

(* The scheduler has had a world since NewScheduler.                       *)
Build(w) ==
  /\ world' = IF w = NoWorld THEN world ELSE w
  /\ UNCHANGED <<groupStates, order, errorPolicies, pool, owners>>

Next ==
  \/ \E cfg \in Configs : Register(cfg) \/ RegisterRefused(cfg)
  \/ \E ids \in SyncOrders : WithSyncOrder(ids)
  \/ \E count \in WorkerCounts : WithAsyncWorkers(count)
  \/ \E pair \in ErrorPolicies : WithErrorPolicy(pair[1], pair[2])
  \/ \E w \in Worlds \cup {NoWorld} : Build(w)

Spec == Init /\ [][Next]_vars

-----------------------------------------------------------------------------
Registered == DOMAIN groupStates

Writers(c) == {g \in Registered : c \in groupStates[g].writeSet}
ResourceWriters(r) == {g \in Registered : r \in groupStates[g].resourceWrites}
ResourceReaders(r) == {g \in Registered : r \in groupStates[g].resourceReads}

WorkGroupState == [async : BOOLEAN, policy : Policies,
                   readSet : SUBSET Components, writeSet : SUBSET Components,
                   resourceReads : SUBSET Resources,
                   resourceWrites : SUBSET Resources]

TypeOK ==
  /\ Registered \subseteq Groups
  /\ \A g \in Registered : groupStates[g] \in WorkGroupState
  /\ registrationOrder \in Seq(Registered)
  /\ syncOrder \in Seq(Groups)
  /\ orderedGroups \in Seq(Registered)
  /\ DOMAIN errorPolicies \subseteq Groups
  /\ \A g \in DOMAIN errorPolicies : errorPolicies[g] \in Policies \ {"Abort"}
  /\ asyncWorkers \in Nat
  /\ asyncPool \in Nat
  /\ componentOwners \in [Components -> Groups \cup {Nobody}]
  /\ resourceOwners \in [Resources -> Groups \cup {Nobody}]
  /\ resourceReaders \in [Resources -> SUBSET Groups]
  /\ world \in Worlds \cup {OwnWorld}

(* In whatever order groups were registered: a component has one group     *)
(* that writes it, a resource that some group writes is not accessed by    *)
(* any other, and async groups write nothing at all.                       *)
NoWriteConflict ==
  /\ \A c \in Components : Cardinality(Writers(c)) <= 1
  /\ \A r \in Resources : \A g \in ResourceWriters(r) : ResourceReaders(r) = {g}
  /\ \A g \in Registered : groupStates[g].async =>
       groupStates[g].writeSet = {} /\ groupStates[g].resourceWrites = {}

(* The tables conflicts are looked up in say of every registered group     *)
(* what it accesses, and have no trace of one that was refused.            *)
TablesAreExact ==
  /\ \A c \in Components :
       Writers(c) = {componentOwners[c]} \ {Nobody}
  /\ \A r \in Resources :
       /\ ResourceWriters(r) = {resourceOwners[r]} \ {Nobody}
       /\ ResourceReaders(r) = resourceReaders[r]

(* Whenever groups are registered and the sync order is given, Tick visits *)
(* every registered group and no other; each once, unless the sync order   *)
(* repeats it; those of the sync order first and in its order, the others  *)
(* in the order of their registration.                                     *)
Position(g) == CHOOSE k \in DOMAIN registrationOrder : registrationOrder[k] = g

Times(g, s) == Cardinality({k \in DOMAIN s : s[k] = g})

OrderIsComplete ==
  LET first == Elements(syncOrder)
  IN  /\ \A g \in Registered :
           Times(g, orderedGroups) = IF g \in first THEN Times(g, syncOrder) ELSE 1
      /\ \A k, l \in DOMAIN orderedGroups : k < l =>
           LET g == orderedGroups[k]
               h == orderedGroups[l]
           IN  /\ h \in first => g \in first /\ \E i, j \in DOMAIN syncOrder :
                                 i < j /\ syncOrder[i] = g /\ syncOrder[j] = h
               /\ g \notin first /\ h \notin first => Position(g) < Position(h)

(* Once a group has another policy than Abort it keeps it: a later call of *)
(* WithErrorPolicy changes nothing for it.                                 *)
PolicyIsKept ==
  [][\A g \in Registered : groupStates[g].policy # "Abort" =>
       groupStates'[g].policy = groupStates[g].policy]_vars

(* Said by README.md:25, "validation of component/resource read/write      *)
(* conflicts": no async group reads a component another group writes, just *)
(* as it may not read a resource another group writes.                     *)
NoReadWriteConflict ==
  \A g, h \in Registered :
    g # h /\ groupStates[g].async =>
      groupStates[g].readSet \cap groupStates[h].writeSet = {}
=============================================================================
