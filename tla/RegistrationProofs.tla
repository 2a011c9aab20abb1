------------------------- MODULE RegistrationProofs -------------------------
(***************************************************************************)
(* Theorems about Registration, for any groups, configurations and calls:  *)
(* the tables in which conflicts are looked up are exact, so no two groups *)
(* that are registered conflict; a group has the first policy it is        *)
(* offered, whichever of the calls came first; and rebuildOrder orders     *)
(* every group, whatever the sync order says.  And about ResourceUse: as   *)
(* long as systems use what they declare, what a group has read of the     *)
(* resources stays true as long as it runs.                                *)
(***************************************************************************)
EXTENDS PolicyHistory, FiniteSetTheorems, SequenceTheorems,
        WellFoundedInduction, TLAPS

(* What a group writes of resources it also reads, and an async group      *)
(* writes nothing.                                                         *)
AccessInv ==
  /\ Registered \subseteq Groups
  /\ \A g \in Registered :
       /\ groupStates[g].resourceWrites \subseteq groupStates[g].resourceReads
       /\ groupStates[g].async =>
            groupStates[g].writeSet = {} /\ groupStates[g].resourceWrites = {}

(* Nobody else accesses what a group writes of resources.                  *)
ExclusiveInv ==
  \A r \in Resources : \A g \in ResourceWriters(r) : ResourceReaders(r) = {g}

ConflictInv == AccessInv /\ TablesAreExact /\ ExclusiveInv

Others == <<groupStates, owners>>

-----------------------------------------------------------------------------
LEMMA IdIsGroup ==
  ASSUME NEW cfg \in Configs, cfg.id # NoGroup
  PROVE  cfg.id \in Groups
  BY RegistrationAssumption DEF WorkGroupConfig

(* What validateSystemsAccess makes of a group it allows.                  *)
LEMMA StateIsSound ==
  ASSUME NEW cfg, NEW policy, SystemsAllowed(cfg)
  PROVE  LET state == StateOf(cfg, policy)
         IN  /\ state.resourceWrites \subseteq state.resourceReads
             /\ state.async => state.writeSet = {} /\ state.resourceWrites = {}
  <1> DEFINE state == StateOf(cfg, policy)
             systems == SystemsOf(cfg)
  <1>1. state.resourceWrites \subseteq state.resourceReads
    BY DEF StateOf, OverSystems
  <1>2. ASSUME state.async PROVE state.writeSet = {} /\ state.resourceWrites = {}
    <2>1. cfg.async
      BY <1>2 DEF StateOf
    <2>2. \A sys \in Elements(systems) :
            WritesOf(sys) = {} /\ ResourcesOf(sys, "write") = {}
      <3> SUFFICES ASSUME NEW k \in DOMAIN systems
                   PROVE  /\ WritesOf(systems[k]) = {}
                          /\ ResourcesOf(systems[k], "write") = {}
        BY DEF Elements
      <3>1. AsyncSystemAllowed(systems[k])
        BY <2>1 DEF SystemsAllowed
      <3>2. systems[k].writes = <<>> /\ AccessesOf(systems[k], "write") = {}
        BY <3>1 DEF AsyncSystemAllowed
      <3> QED
        BY <3>2 DEF WritesOf, Elements, ResourcesOf
    <2> QED
      BY <2>2 DEF StateOf, OverSystems
  <1> QED
    BY <1>1, <1>2

-----------------------------------------------------------------------------
LEMMA InitConflict == Init => ConflictInv
  BY DEF Init, ConflictInv, AccessInv, TablesAreExact, ExclusiveInv, NoMap,
         Registered, Writers, ResourceWriters, ResourceReaders

(* The invariant reads nothing but the groups and the tables.              *)
LEMMA OthersConflict ==
  ASSUME ConflictInv, UNCHANGED Others
  PROVE  ConflictInv'
  BY DEF ConflictInv, AccessInv, TablesAreExact, ExclusiveInv, Others, owners,
         Registered, Writers, ResourceWriters, ResourceReaders

LEMMA RegisterConflict ==
  ASSUME ConflictInv, NEW cfg \in Configs, Register(cfg)
  PROVE  ConflictInv'
  <1> DEFINE id == cfg.id
             state == StateOf(cfg, ResolvePolicy(errorPolicies, cfg.id, cfg.policy))
  <1>1. /\ id \notin Registered
        /\ id \in Groups /\ id # Nobody
        /\ SystemsAllowed(cfg) /\ NoCrossGroupConflict(id, state)
    BY IdIsGroup, RegistrationAssumption DEF Register, Registered
  <1>2. /\ state.resourceWrites \subseteq state.resourceReads
        /\ state.async => state.writeSet = {} /\ state.resourceWrites = {}
    BY <1>1, StateIsSound
  <1>3. /\ Registered' = Registered \cup {id}
        /\ groupStates'[id] = state
        /\ \A g \in Registered : groupStates'[g] = groupStates[g]
    BY <1>1 DEF Register, With, Registered
  <1>4. /\ componentOwners' = [c \in Components |->
             IF c \in state.writeSet THEN id ELSE componentOwners[c]]
        /\ resourceOwners' = [r \in Resources |->
             IF r \in state.resourceWrites THEN id ELSE resourceOwners[r]]
        /\ resourceReaders' = [r \in Resources |->
             IF r \in state.resourceReads THEN resourceReaders[r] \cup {id}
                                          ELSE resourceReaders[r]]
    BY DEF Register
  <1> HIDE DEF id, state
  <1>5. AccessInv'
    BY <1>1, <1>2, <1>3 DEF ConflictInv, AccessInv
  <1>6. \A c \in Components :
          Writers(c)' = IF c \in state.writeSet THEN Writers(c) \cup {id} ELSE Writers(c)
    BY <1>1, <1>3 DEF Writers
  <1>7. \A r \in Resources :
          /\ ResourceWriters(r)' = IF r \in state.resourceWrites
                                     THEN ResourceWriters(r) \cup {id}
                                     ELSE ResourceWriters(r)
          /\ ResourceReaders(r)' = IF r \in state.resourceReads
                                     THEN ResourceReaders(r) \cup {id}
                                     ELSE ResourceReaders(r)
    BY <1>1, <1>3 DEF ResourceWriters, ResourceReaders
  <1>8. \A c \in Components : c \in state.writeSet => Writers(c) = {}
    <2> SUFFICES ASSUME NEW c \in Components, c \in state.writeSet
                 PROVE  Writers(c) = {}
      OBVIOUS
    <2>1. componentOwners[c] \in {Nobody, id}
      BY <1>1 DEF NoCrossGroupConflict
    <2>2. id \notin Writers(c)
      BY <1>1 DEF Writers
    <2> QED
      BY <2>1, <2>2 DEF ConflictInv, TablesAreExact
  <1>9. \A r \in Resources : r \in state.resourceWrites =>
          ResourceWriters(r) = {} /\ ResourceReaders(r) = {}
    <2> SUFFICES ASSUME NEW r \in Resources, r \in state.resourceWrites
                 PROVE  ResourceWriters(r) = {} /\ ResourceReaders(r) = {}
      OBVIOUS
    <2>1. resourceOwners[r] \in {Nobody, id} /\ resourceReaders[r] \subseteq {id}
      BY <1>1 DEF NoCrossGroupConflict
    <2>2. id \notin ResourceWriters(r) /\ id \notin ResourceReaders(r)
      BY <1>1 DEF ResourceWriters, ResourceReaders
    <2> QED
      BY <2>1, <2>2 DEF ConflictInv, TablesAreExact
  <1>10. \A r \in Resources : r \in state.resourceReads => ResourceWriters(r) = {}
    <2> SUFFICES ASSUME NEW r \in Resources, r \in state.resourceReads
                 PROVE  ResourceWriters(r) = {}
      OBVIOUS
    <2>1. resourceOwners[r] \in {Nobody, id}
      BY <1>1 DEF NoCrossGroupConflict
    <2>2. id \notin ResourceWriters(r)
      BY <1>1 DEF ResourceWriters
    <2> QED
      BY <2>1, <2>2 DEF ConflictInv, TablesAreExact
  <1>11. TablesAreExact'
    <2>1. \A c \in Components : Writers(c)' = {componentOwners'[c]} \ {Nobody}
      BY <1>1, <1>4, <1>6, <1>8 DEF ConflictInv, TablesAreExact
    <2>2. \A r \in Resources : ResourceWriters(r)' = {resourceOwners'[r]} \ {Nobody}
      BY <1>1, <1>4, <1>7, <1>9 DEF ConflictInv, TablesAreExact
    <2>3. \A r \in Resources : ResourceReaders(r)' = resourceReaders'[r]
      BY <1>4, <1>7 DEF ConflictInv, TablesAreExact
    <2> QED
      BY <2>1, <2>2, <2>3 DEF TablesAreExact
  <1>12. ExclusiveInv'
    <2> SUFFICES ASSUME NEW r \in Resources, NEW g \in ResourceWriters(r)'
                 PROVE  ResourceReaders(r)' = {g}
      BY DEF ExclusiveInv
    <2>1. CASE r \in state.resourceWrites
      <3>1. ResourceWriters(r)' = {id} /\ ResourceReaders(r)' = {id}
        BY <2>1, <1>2, <1>7, <1>9
      <3> QED
        BY <3>1
    <2>2. CASE r \notin state.resourceWrites
      <3>1. g \in ResourceWriters(r)
        BY <2>2, <1>7
      <3>2. r \notin state.resourceReads
        BY <3>1, <1>10
      <3> QED
        BY <3>1, <3>2, <1>7 DEF ConflictInv, ExclusiveInv
    <2> QED
      BY <2>1, <2>2
  <1> QED
    BY <1>5, <1>11, <1>12 DEF ConflictInv

(* WithErrorPolicy changes the policy of a group and nothing else of it.   *)
LEMMA PolicyConflict ==
  ASSUME ConflictInv, NEW id, NEW policy, WithErrorPolicy(id, policy)
  PROVE  ConflictInv'
  <1>1. /\ Registered' = Registered
        /\ \A g \in Registered :
             /\ groupStates'[g].async = groupStates[g].async
             /\ groupStates'[g].writeSet = groupStates[g].writeSet
             /\ groupStates'[g].resourceReads = groupStates[g].resourceReads
             /\ groupStates'[g].resourceWrites = groupStates[g].resourceWrites
    BY DEF WithErrorPolicy, Registered
  <1>2. UNCHANGED owners
    BY DEF WithErrorPolicy
  <1> QED
    BY <1>1, <1>2 DEF ConflictInv, AccessInv, TablesAreExact, ExclusiveInv, owners,
                      Writers, ResourceWriters, ResourceReaders

LEMMA NextConflict == ConflictInv /\ [Next]_vars => ConflictInv'
  <1> SUFFICES ASSUME ConflictInv, [Next]_vars PROVE ConflictInv'
    OBVIOUS
  <1>1. CASE UNCHANGED vars
    BY <1>1, OthersConflict DEF vars, Others
  <1>2. ASSUME NEW cfg \in Configs, Register(cfg) PROVE ConflictInv'
    BY <1>2, RegisterConflict
  <1>3. ASSUME NEW cfg \in Configs, RegisterRefused(cfg) PROVE ConflictInv'
    BY <1>3, OthersConflict DEF RegisterRefused, Others
  <1>4. ASSUME NEW ids \in SyncOrders, WithSyncOrder(ids) PROVE ConflictInv'
    BY <1>4, OthersConflict DEF WithSyncOrder, Others
  <1>5. ASSUME NEW n \in WorkerCounts, WithAsyncWorkers(n) PROVE ConflictInv'
    BY <1>5, OthersConflict DEF WithAsyncWorkers, Others
  <1>6. ASSUME NEW pair \in ErrorPolicies, WithErrorPolicy(pair[1], pair[2])
        PROVE  ConflictInv'
    BY <1>6, PolicyConflict
  <1>7. ASSUME NEW w \in Worlds \cup {NoWorld}, Build(w) PROVE ConflictInv'
    BY <1>7, OthersConflict DEF Build, Others
  <1> QED
    BY <1>1, <1>2, <1>3, <1>4, <1>5, <1>6, <1>7 DEF Next

LEMMA AlwaysConflict == Spec => []ConflictInv
  BY InitConflict, NextConflict, PTL DEF Spec

(* The tables in which RegisterWorkGroup looks up conflicts say of every   *)
(* registered group what it accesses, and nothing of one it refused.       *)
THEOREM TablesAreAlwaysExact == Spec => []TablesAreExact
  <1>1. ConflictInv => TablesAreExact
    BY DEF ConflictInv
  <1> QED
    BY <1>1, AlwaysConflict, PTL

(* No two registered groups write a component, none accesses a resource    *)
(* another one writes, and async groups write nothing.                     *)
THEOREM NoWriteConflictEver == Spec => []NoWriteConflict
  <1>1. ConflictInv => NoWriteConflict
    <2> SUFFICES ASSUME ConflictInv PROVE NoWriteConflict
      OBVIOUS
    <2>1. \A c \in Components : Cardinality(Writers(c)) <= 1
      <3> SUFFICES ASSUME NEW c \in Components PROVE Cardinality(Writers(c)) <= 1
        OBVIOUS
      <3>1. Writers(c) = {} \/ Writers(c) = {componentOwners[c]}
        BY DEF ConflictInv, TablesAreExact
      <3>2. Cardinality(Writers(c)) \in {0, 1}
        BY <3>1, FS_EmptySet, FS_Singleton
      <3> QED
        BY <3>2
    <2>2. \A r \in Resources : \A g \in ResourceWriters(r) : ResourceReaders(r) = {g}
      BY DEF ConflictInv, ExclusiveInv
    <2>3. \A g \in Registered : groupStates[g].async =>
            groupStates[g].writeSet = {} /\ groupStates[g].resourceWrites = {}
      BY DEF ConflictInv, AccessInv
    <2> QED
      BY <2>1, <2>2, <2>3 DEF NoWriteConflict
  <1> QED
    BY <1>1, AlwaysConflict, PTL

-----------------------------------------------------------------------------
(* What is recorded for a group is the last policy it was given, if that   *)
(* is one; and a group that is registered has the first it was offered.    *)
Latest(g) == given[g][Len(given[g])]

HistoryTypes ==
  /\ Registered \subseteq Groups
  /\ given \in [Groups -> Seq(Policies)]
  /\ since \in [Groups -> Nat]
  /\ own \in [Groups -> Policies]
  /\ \A g \in Groups : since[g] <= Len(given[g])

RecordIsLatest ==
  \A g \in Groups :
    IF given[g] # <<>> /\ Latest(g) # "Abort"
      THEN g \in DOMAIN errorPolicies /\ errorPolicies[g] = Latest(g)
      ELSE g \notin DOMAIN errorPolicies

HistoryInv == HistoryTypes /\ RecordIsLatest /\ PolicyIsFirstOffered

(* The property for one group; for those a step does not concern it stays. *)
FirstOffered(g) ==
  \/ Taken(g) = {} /\ groupStates[g].policy = "Abort"
  \/ \E k \in Taken(g) : /\ \A l \in Taken(g) : k <= l
                         /\ groupStates[g].policy = Offered(g, k)

LEMMA HistoryInitInv == HistoryInit => HistoryInv
  BY DEF HistoryInit, UseInit, Init, HistoryInv, HistoryTypes, RecordIsLatest,
         PolicyIsFirstOffered, Policies, NoMap, Registered

LEMMA SameOffers ==
  ASSUME NEW g, given'[g] = given[g], since'[g] = since[g], own'[g] = own[g],
         groupStates'[g].policy = groupStates[g].policy, FirstOffered(g)
  PROVE  FirstOffered(g)'
  BY DEF FirstOffered, Taken, Offers, Offered

LEMMA OtherStepInv == HistoryInv /\ OtherStep => HistoryInv'
  <1> SUFFICES ASSUME HistoryInv, OtherStep PROVE HistoryInv'
    OBVIOUS
  <1>1. UNCHANGED <<groupStates, errorPolicies, given, since, own>>
    BY DEF OtherStep, OtherCall, UseStep, vars, useVars, history, RegisterRefused,
       WithSyncOrder, WithAsyncWorkers, Build, RunWorkGroup, RunEnds, CallResources,
       Get, SetOrDelete, RangeVisits, LockStep
  <1> QED
    BY <1>1 DEF HistoryInv, HistoryTypes, RecordIsLatest, Latest,
       PolicyIsFirstOffered, Taken, Offers, Offered, Registered

LEMMA RegisterGroupInv ==
  ASSUME HistoryInv, NEW cfg \in Configs, RegisterGroup(cfg)
  PROVE  HistoryInv'
  <1> DEFINE id == cfg.id
             policy == ResolvePolicy(errorPolicies, id, cfg.policy)
  <1>t. HistoryTypes /\ RecordIsLatest
    BY DEF HistoryInv
  <1>1. id \in Groups /\ id \notin Registered /\ cfg.policy \in Policies
    BY IdIsGroup, RegistrationAssumption
    DEF RegisterGroup, Register, Registered, WorkGroupConfig
  <1>2. /\ groupStates' = With(groupStates, id, StateOf(cfg, policy))
        /\ UNCHANGED <<given, errorPolicies>>
        /\ since' = [since EXCEPT ![id] = Len(given[id])]
        /\ own' = [own EXCEPT ![id] = cfg.policy]
    BY DEF RegisterGroup, Register
  <1>3. /\ Registered' = Registered \cup {id}
        /\ groupStates'[id].policy = policy
        /\ \A g \in Registered : groupStates'[g] = groupStates[g]
    BY <1>1, <1>2 DEF With, Registered, StateOf
  <1>4. given[id] \in Seq(Policies) /\ Len(given[id]) \in Nat
    BY <1>1, <1>t DEF HistoryTypes
  <1> PICK last \in Nat : last = Len(given[id])
    BY <1>4
  <1>5. since'[id] = Len(given[id]) /\ own'[id] = cfg.policy
    BY <1>1, <1>2, <1>t DEF HistoryTypes
  <1>6. HistoryTypes'
    BY <1>1, <1>2, <1>3, <1>4, <1>t DEF HistoryTypes
  <1>7. RecordIsLatest'
    BY <1>2, <1>t DEF RecordIsLatest, Latest
  <1>8. FirstOffered(id)'
    <2>1. Offers(id)' = {0} \cup (IF given[id] = <<>> THEN {} ELSE {last})
      BY <1>2, <1>4, <1>5 DEF Offers
    <2>2. \A k : Offered(id, k)' = IF k = 0 THEN cfg.policy ELSE given[id][k]
      BY <1>2, <1>5 DEF Offered
    <2>3. /\ Taken(id)' = {k \in Offers(id)' : Offered(id, k)' # "Abort"}
          /\ given[id] # <<>> => last # 0 /\ given[id][last] = Latest(id)
      BY <1>4 DEF Taken, Latest
    <2>4. CASE cfg.policy # "Abort"
      <3>1. 0 \in Taken(id)' /\ \A l \in Taken(id)' : 0 <= l
        BY <2>1, <2>2, <2>3, <2>4
      <3>2. groupStates'[id].policy = Offered(id, 0)'
        BY <1>3, <2>2, <2>4 DEF ResolvePolicy
      <3> QED
        BY <3>1, <3>2 DEF FirstOffered
    <2>5. CASE cfg.policy = "Abort" /\ given[id] # <<>> /\ Latest(id) # "Abort"
      <3>1. Taken(id)' = {last} /\ Offered(id, last)' = Latest(id)
        BY <2>1, <2>2, <2>3, <2>5
      <3>2. groupStates'[id].policy = Latest(id)
        BY <1>1, <1>3, <1>t, <2>5 DEF ResolvePolicy, RecordIsLatest
      <3> QED
        BY <3>1, <3>2 DEF FirstOffered
    <2>6. CASE cfg.policy = "Abort" /\ (given[id] = <<>> \/ Latest(id) = "Abort")
      <3>1. Taken(id)' = {}
        BY <2>1, <2>2, <2>3, <2>6
      <3>2. groupStates'[id].policy = "Abort"
        BY <1>1, <1>3, <1>t, <2>6 DEF ResolvePolicy, RecordIsLatest
      <3> QED
        BY <3>1, <3>2 DEF FirstOffered
    <2> QED
      BY <2>4, <2>5, <2>6
  <1>9. ASSUME NEW g \in Registered PROVE FirstOffered(g)'
    <2>1. FirstOffered(g) /\ g # id /\ g \in Groups
      BY <1>1, <1>t DEF HistoryInv, PolicyIsFirstOffered, FirstOffered, HistoryTypes
    <2>2. given'[g] = given[g] /\ since'[g] = since[g] /\ own'[g] = own[g]
      BY <1>2, <1>t, <2>1 DEF HistoryTypes
    <2> QED
      BY <1>3, <2>1, <2>2, SameOffers
  <1> QED
    BY <1>3, <1>6, <1>7, <1>8, <1>9 DEF HistoryInv, PolicyIsFirstOffered, FirstOffered

LEMMA GivePolicyInv ==
  ASSUME HistoryInv, NEW id \in Groups, NEW policy \in Policies,
         GivePolicy(id, policy)
  PROVE  HistoryInv'
  <1>t. HistoryTypes /\ RecordIsLatest
    BY DEF HistoryInv
  <1>1. /\ given' = [given EXCEPT ![id] = Append(@, policy)]
        /\ errorPolicies' = Recorded(id, policy)
        /\ UNCHANGED <<since, own>>
    BY DEF GivePolicy, WithErrorPolicy
  <1>2. /\ Registered' = Registered
        /\ \A g \in Registered : groupStates'[g].policy =
             IF g = id THEN ResolvePolicy(errorPolicies', id, groupStates[g].policy)
                       ELSE groupStates[g].policy
    BY DEF GivePolicy, WithErrorPolicy, Registered
  <1>3. given[id] \in Seq(Policies) /\ Len(given[id]) \in Nat
    BY <1>t DEF HistoryTypes
  <1> PICK new \in Nat : new = Len(given[id]) + 1
    BY <1>3
  <1>4. /\ given'[id] = Append(given[id], policy)
        /\ Len(given'[id]) = new
        /\ given'[id][new] = policy
        /\ \A k \in 1 .. Len(given[id]) : given'[id][k] = given[id][k]
        /\ \A g \in Groups : g # id => given'[g] = given[g]
    BY <1>1, <1>3, <1>t DEF HistoryTypes
  <1>5. HistoryTypes'
    <2>1. given' \in [Groups -> Seq(Policies)]
      BY <1>1, <1>3, <1>t DEF HistoryTypes
    <2>2. \A g \in Groups : since'[g] <= Len(given'[g])
      BY <1>1, <1>3, <1>4, <1>t DEF HistoryTypes
    <2> QED
      BY <1>1, <1>2, <1>t, <2>1, <2>2 DEF HistoryTypes
  <1>6. /\ \A g \in Groups : g # id =>
             /\ g \in DOMAIN errorPolicies' <=> g \in DOMAIN errorPolicies
             /\ g \in DOMAIN errorPolicies => errorPolicies'[g] = errorPolicies[g]
        /\ IF policy # "Abort"
             THEN id \in DOMAIN errorPolicies' /\ errorPolicies'[id] = policy
             ELSE id \notin DOMAIN errorPolicies'
    BY <1>1 DEF Recorded, With
  <1>7. RecordIsLatest'
    <2>1. ASSUME NEW g \in Groups, g # id
          PROVE  IF given'[g] # <<>> /\ Latest(g)' # "Abort"
                   THEN g \in DOMAIN errorPolicies' /\ errorPolicies'[g] = Latest(g)'
                   ELSE g \notin DOMAIN errorPolicies'
      <3>1. given'[g] = given[g] /\ Latest(g)' = Latest(g)
        BY <1>4, <2>1 DEF Latest
      <3> QED
        BY <1>6, <1>t, <2>1, <3>1 DEF RecordIsLatest
    <2>2. given'[id] # <<>> /\ Latest(id)' = policy
      <3>1. Latest(id)' = given'[id][Len(given'[id])]
        BY DEF Latest
      <3>2. given'[id] # <<>>
        <4>1. Len(<<>>) = 0
          OBVIOUS
        <4>2. Len(given'[id]) # 0
          BY <1>3, <1>4
        <4> QED
          BY <4>1, <4>2
      <3> QED
        BY <1>4, <3>1, <3>2
    <2> QED
      BY <1>6, <2>1, <2>2 DEF RecordIsLatest
  <1>8. ASSUME NEW g \in Registered, g # id PROVE FirstOffered(g)'
    <2>1. FirstOffered(g) /\ g \in Groups
      BY <1>t DEF HistoryInv, PolicyIsFirstOffered, FirstOffered, HistoryTypes
    <2> QED
      BY <1>1, <1>2, <1>4, <1>8, <2>1, SameOffers
  <1>9. ASSUME id \in Registered PROVE FirstOffered(id)'
    <2>1. FirstOffered(id)
      BY <1>9 DEF HistoryInv, PolicyIsFirstOffered, FirstOffered
    <2>2. Offers(id)' = Offers(id) \cup {new} /\ \A k \in Offers(id) : k < new
      <3>1. DOMAIN given'[id] = DOMAIN given[id] \cup {new}
        BY <1>3, <1>4
      <3>2. new >= since[id] /\ since[id] \in Nat
        BY <1>3, <1>t DEF HistoryTypes
      <3> QED
        BY <1>1, <1>3, <3>1, <3>2 DEF Offers
    <2>3. /\ \A k \in Offers(id) : Offered(id, k)' = Offered(id, k)
          /\ Offered(id, new)' = policy
      BY <1>1, <1>3, <1>4 DEF Offers, Offered
    <2>4. Taken(id)' = Taken(id) \cup (IF policy = "Abort" THEN {} ELSE {new})
      BY <2>2, <2>3 DEF Taken
    <2>5. CASE Taken(id) = {}
      <3>1. groupStates[id].policy = "Abort"
        BY <2>1, <2>5 DEF FirstOffered
      <3>2. groupStates'[id].policy = policy
        BY <1>2, <1>6, <1>9, <3>1 DEF ResolvePolicy
      <3> QED
        BY <1>3, <2>3, <2>4, <2>5, <3>2 DEF FirstOffered
    <2>6. CASE Taken(id) # {}
      <3>1. PICK k \in Taken(id) : /\ \A l \in Taken(id) : k <= l
                                   /\ groupStates[id].policy = Offered(id, k)
        BY <2>1, <2>6 DEF FirstOffered
      <3>2. k \in Offers(id) /\ Offered(id, k) # "Abort"
        BY DEF Taken
      <3>3. groupStates'[id].policy = Offered(id, k)'
        BY <1>2, <1>9, <2>3, <3>1, <3>2 DEF ResolvePolicy
      <3>4. k <= new
        BY <1>3, <2>2, <3>2 DEF Offers
      <3> QED
        BY <2>4, <3>1, <3>3, <3>4 DEF FirstOffered
    <2> QED
      BY <2>5, <2>6
  <1> QED
    BY <1>2, <1>5, <1>7, <1>8, <1>9 DEF HistoryInv, PolicyIsFirstOffered, FirstOffered

(* A group ends with the first policy it was offered, however the calls of *)
(* WithErrorPolicy and RegisterWorkGroup are ordered.                      *)
THEOREM PolicyIsAlwaysFirstOffered == HistorySpec => []PolicyIsFirstOffered
  <1>1. HistoryInv /\ [HistoryNext]_historyVars => HistoryInv'
    <2> SUFFICES ASSUME HistoryInv, [HistoryNext]_historyVars PROVE HistoryInv'
      OBVIOUS
    <2>1. ASSUME UNCHANGED historyVars PROVE HistoryInv'
      BY <2>1 DEF historyVars, useVars, vars, history, HistoryInv, HistoryTypes,
         RecordIsLatest, Latest, PolicyIsFirstOffered, Taken, Offers, Offered,
         Registered
    <2>2. ASSUME NEW pair \in ErrorPolicies, GivePolicy(pair[1], pair[2])
          PROVE  HistoryInv'
      <3>1. pair[1] \in Groups /\ pair[2] \in Policies
        BY RegistrationAssumption
      <3> QED
        BY <2>2, <3>1, GivePolicyInv
    <2> QED
      BY <2>1, <2>2, RegisterGroupInv, OtherStepInv DEF HistoryNext
  <1>2. HistoryInv => PolicyIsFirstOffered
    BY DEF HistoryInv
  <1> QED
    BY <1>1, <1>2, HistoryInitInv, PTL DEF HistorySpec

(* A group that has another policy than Abort keeps it for good.           *)
THEOREM PolicyIsAlwaysKept == Spec => PolicyIsKept
  <1> DEFINE Kept == \A g \in Registered : groupStates[g].policy # "Abort" =>
                       groupStates'[g].policy = groupStates[g].policy
  <1>1. [Next]_vars => [Kept]_vars
    <2> SUFFICES ASSUME Next PROVE Kept
      OBVIOUS
    <2>1. ASSUME UNCHANGED groupStates PROVE Kept
      BY <2>1
    <2>2. ASSUME NEW cfg \in Configs, Register(cfg) PROVE Kept
      <3>1. \A g \in Registered : groupStates'[g] = groupStates[g]
        BY <2>2 DEF Register, With, Registered
      <3> QED
        BY <3>1
    <2>3. ASSUME NEW id, NEW policy, WithErrorPolicy(id, policy)
          PROVE  Kept
      <3>1. \A g \in Registered : groupStates'[g].policy =
              IF g = id THEN ResolvePolicy(errorPolicies', id, groupStates[g].policy)
                        ELSE groupStates[g].policy
        BY <2>3 DEF WithErrorPolicy, Registered
      <3> QED
        BY <3>1 DEF ResolvePolicy
    <2> HIDE DEF Kept
    <2> QED
      BY <2>1, <2>2, <2>3
      DEF Next, RegisterRefused, WithSyncOrder, WithAsyncWorkers, Build
  <1> QED
    BY <1>1, PTL DEF Spec, PolicyIsKept

-----------------------------------------------------------------------------
(* Induction on the natural numbers, for sets of them: what is not in a set*)
(* has a least element.                                                    *)

LessThan == {pair \in Nat \X Nat : pair[1] < pair[2]}

LEMMA LessThanIsWellFounded == IsWellFoundedOn(LessThan, Nat)
  BY NatLessThanWellFounded, Zenon DEF LessThan, OpToRel

LEMMA SetInduction ==
  ASSUME NEW S, 0 \in S, \A n \in Nat : n \in S => n + 1 \in S
  PROVE  Nat \subseteq S
  <1> DEFINE Rest == Nat \ S
  <1> SUFFICES ASSUME Rest # {} PROVE FALSE
    OBVIOUS
  <1>1. Rest \subseteq Nat
    OBVIOUS
  <1> HIDE DEF Rest
  <1>2. PICK n \in Rest : \A m \in Rest : ~ (<<m, n>> \in LessThan)
    BY <1>1, LessThanIsWellFounded, WFMin
  <1>3. n \in Nat /\ n \notin S
    BY DEF Rest
  <1>4. n - 1 \in Nat
    BY <1>3
  <1>5. <<n - 1, n>> \in LessThan
    BY <1>3, <1>4 DEF LessThan
  <1>6. n - 1 \in S
    BY <1>2, <1>4, <1>5 DEF Rest
  <1>7. (n - 1) + 1 \in S
    BY <1>4, <1>6
  <1> QED
    BY <1>3, <1>7

-----------------------------------------------------------------------------
(* What Chosen makes of a sequence.                                        *)

IsKept(kept, s, chosen, length) ==
  kept = [n \in 0 .. length |->
            IF n = 0 THEN <<>>
            ELSE IF s[n] \in chosen THEN Append(kept[n - 1], s[n]) ELSE kept[n - 1]]

LEMMA KeptExists ==
  ASSUME NEW s, NEW chosen
  PROVE  \A length \in Nat : \E kept : IsKept(kept, s, chosen, length)
  <1> DEFINE S == {length \in Nat : \E kept : IsKept(kept, s, chosen, length)}
  <1>1. 0 \in S
    <2>1. IsKept([n \in 0 .. 0 |-> <<>>], s, chosen, 0)
      BY DEF IsKept
    <2> QED
      BY <2>1
  <1>2. ASSUME NEW length \in Nat, length \in S PROVE length + 1 \in S
    <2>1. PICK kept : IsKept(kept, s, chosen, length)
      BY <1>2
    <2> DEFINE last == IF s[length + 1] \in chosen THEN Append(kept[length], s[length + 1])
                                                   ELSE kept[length]
               longer == [n \in 0 .. length + 1 |-> IF n = length + 1 THEN last ELSE kept[n]]
    <2>2. \A n \in 0 .. length :
            kept[n] = IF n = 0 THEN <<>>
                      ELSE IF s[n] \in chosen THEN Append(kept[n - 1], s[n]) ELSE kept[n - 1]
      BY <2>1 DEF IsKept
    <2> HIDE DEF last
    <2>3. ASSUME NEW n \in 0 .. length + 1
          PROVE  longer[n] = IF n = 0 THEN <<>>
                             ELSE IF s[n] \in chosen THEN Append(longer[n - 1], s[n])
                                                     ELSE longer[n - 1]
      <3>1. CASE n = length + 1
        <4>1. n # 0 /\ longer[n] = last /\ longer[n - 1] = kept[length]
          BY <3>1
        <4> HIDE DEF longer
        <4> QED
          BY <3>1, <4>1 DEF last
      <3>2. CASE n \in 1 .. length
        <4>1. n # 0 /\ longer[n] = kept[n] /\ longer[n - 1] = kept[n - 1]
          BY <3>2
        <4> HIDE DEF longer
        <4> QED
          BY <2>2, <3>2, <4>1
      <3>3. CASE n = 0
        BY <2>2, <3>3
      <3> QED
        BY <3>1, <3>2, <3>3
    <2>4. IsKept(longer, s, chosen, length + 1)
      BY <2>3 DEF IsKept
    <2> QED
      BY <2>4
  <1> HIDE DEF S
  <1>3. Nat \subseteq S
    BY <1>1, <1>2, SetInduction
  <1> QED
    BY <1>3 DEF S

(* The elements of out are those of s, up to n, that are chosen; from says *)
(* where each of them comes from.                                          *)
Selects(out, from, s, chosen, n) ==
  /\ out \in Seq(chosen) /\ from \in Seq(Nat) /\ Len(out) = Len(from)
  /\ \A k \in 1 .. Len(from) :
       from[k] \in 1 .. n /\ s[from[k]] \in chosen /\ out[k] = s[from[k]]
  /\ \A k, l \in 1 .. Len(from) : k < l => from[k] < from[l]
  /\ \A i \in 1 .. n : s[i] \in chosen => \E k \in 1 .. Len(from) : from[k] = i

LEMMA SelectsOne ==
  ASSUME NEW s, NEW chosen, NEW n \in Nat, NEW out, NEW from,
         Selects(out, from, s, chosen, n), s[n + 1] \in chosen
  PROVE  Selects(Append(out, s[n + 1]), Append(from, n + 1), s, chosen, n + 1)
  <1> DEFINE more == Append(out, s[n + 1])
             also == Append(from, n + 1)
             m == Len(from)
  <1>1. out \in Seq(chosen) /\ from \in Seq(Nat) /\ Len(out) = m /\ m \in Nat
    BY DEF Selects
  <1>2. /\ more \in Seq(chosen) /\ Len(more) = m + 1 /\ more[m + 1] = s[n + 1]
        /\ \A k \in 1 .. m : more[k] = out[k]
    BY <1>1, AppendProperties
  <1>3. /\ also \in Seq(Nat) /\ Len(also) = m + 1 /\ also[m + 1] = n + 1
        /\ \A k \in 1 .. m : also[k] = from[k]
    BY <1>1, AppendProperties
  <1> HIDE DEF more, also
  <1>4. /\ \A k \in 1 .. m :
             from[k] \in 1 .. n /\ s[from[k]] \in chosen /\ out[k] = s[from[k]]
        /\ \A k, l \in 1 .. m : k < l => from[k] < from[l]
        /\ \A i \in 1 .. n : s[i] \in chosen => \E k \in 1 .. m : from[k] = i
    BY DEF Selects
  <1> HIDE DEF m
  <1>5. ASSUME NEW k \in 1 .. m + 1
        PROVE  also[k] \in 1 .. n + 1 /\ s[also[k]] \in chosen /\ more[k] = s[also[k]]
    <2>1. CASE k = m + 1
      BY <1>2, <1>3, <2>1
    <2>2. CASE k # m + 1
      <3>1. k \in 1 .. m
        BY <1>1, <2>2
      <3> QED
        BY <1>2, <1>3, <1>4, <3>1
    <2> QED
      BY <2>1, <2>2
  <1>6. ASSUME NEW k \in 1 .. m + 1, NEW l \in 1 .. m + 1, k < l
        PROVE  also[k] < also[l]
    <2>1. k \in 1 .. m
      BY <1>1, <1>6
    <2>2. CASE l = m + 1
      BY <1>3, <1>4, <2>1, <2>2
    <2>3. CASE l # m + 1
      <3>1. l \in 1 .. m
        BY <1>1, <2>3
      <3> QED
        BY <1>3, <1>4, <1>6, <2>1, <3>1
    <2> QED
      BY <2>2, <2>3
  <1>7. ASSUME NEW i \in 1 .. n + 1, s[i] \in chosen
        PROVE  \E k \in 1 .. m + 1 : also[k] = i
    <2>1. CASE i = n + 1
      BY <1>1, <1>3, <2>1
    <2>2. CASE i # n + 1
      <3>1. i \in 1 .. n
        BY <2>2
      <3>2. PICK k \in 1 .. m : from[k] = i
        BY <1>4, <1>7, <3>1
      <3> QED
        BY <1>1, <1>3, <3>2
    <2> QED
      BY <2>1, <2>2
  <1> QED
    BY <1>2, <1>3, <1>5, <1>6, <1>7 DEF Selects, more, also

LEMMA SelectsNone ==
  ASSUME NEW s, NEW chosen, NEW n \in Nat, NEW out, NEW from,
         Selects(out, from, s, chosen, n), s[n + 1] \notin chosen
  PROVE  Selects(out, from, s, chosen, n + 1)
  <1>1. \A i \in 1 .. n + 1 : i = n + 1 \/ i \in 1 .. n
    OBVIOUS
  <1>2. \A i \in 1 .. n : i \in 1 .. n + 1
    OBVIOUS
  <1> QED
    BY <1>1, <1>2, Zenon DEF Selects

(* Chosen keeps the chosen elements, all of them and in their order.       *)
LEMMA ChosenSelects ==
  ASSUME NEW T, NEW s \in Seq(T), NEW chosen
  PROVE  \E from : Selects(Chosen(s, chosen), from, s, chosen, Len(s))
  <1> DEFINE kept == CHOOSE kept : IsKept(kept, s, chosen, Len(s))
             S == {n \in Nat : n <= Len(s) => \E from : Selects(kept[n], from, s, chosen, n)}
  <1>1. Len(s) \in Nat
    OBVIOUS
  <1>2. IsKept(kept, s, chosen, Len(s))
    BY <1>1, KeptExists
  <1>3. Chosen(s, chosen) = kept[Len(s)]
    BY DEF Chosen, IsKept
  <1> HIDE DEF kept
  <1>4. \A n \in 0 .. Len(s) :
          kept[n] = IF n = 0 THEN <<>>
                    ELSE IF s[n] \in chosen THEN Append(kept[n - 1], s[n]) ELSE kept[n - 1]
    BY <1>2 DEF IsKept
  <1>5. 0 \in S
    <2>1. kept[0] = <<>>
      BY <1>1, <1>4
    <2>2. Selects(<<>>, <<>>, s, chosen, 0)
      BY DEF Selects
    <2> QED
      BY <2>1, <2>2
  <1>6. ASSUME NEW n \in Nat, n \in S PROVE n + 1 \in S
    <2> SUFFICES ASSUME n + 1 <= Len(s)
                 PROVE  \E from : Selects(kept[n + 1], from, s, chosen, n + 1)
      OBVIOUS
    <2>1. PICK from : Selects(kept[n], from, s, chosen, n)
      BY <1>1, <1>6
    <2>2. n + 1 \in 0 .. Len(s) /\ n + 1 # 0 /\ (n + 1) - 1 = n
      BY <1>1
    <2>3. kept[n + 1] = IF s[n + 1] \in chosen THEN Append(kept[n], s[n + 1]) ELSE kept[n]
      BY <1>4, <2>2
    <2>4. CASE s[n + 1] \in chosen
      BY <2>1, <2>3, <2>4, SelectsOne
    <2>5. CASE s[n + 1] \notin chosen
      BY <2>1, <2>3, <2>5, SelectsNone
    <2> QED
      BY <2>4, <2>5
  <1> HIDE DEF S
  <1>7. Nat \subseteq S
    BY <1>5, <1>6, SetInduction
  <1> QED
    BY <1>1, <1>3, <1>7 DEF S

LEMMA ChosenElements ==
  ASSUME NEW T, NEW s \in Seq(T), NEW chosen
  PROVE  /\ Chosen(s, chosen) \in Seq(chosen)
         /\ Elements(Chosen(s, chosen)) = Elements(s) \cap chosen
  <1> DEFINE out == Chosen(s, chosen)
  <1>1. PICK from : Selects(out, from, s, chosen, Len(s))
    BY ChosenSelects
  <1>2. /\ out \in Seq(chosen) /\ from \in Seq(Nat) /\ Len(out) = Len(from)
        /\ \A k \in 1 .. Len(from) :
             from[k] \in 1 .. Len(s) /\ s[from[k]] \in chosen /\ out[k] = s[from[k]]
        /\ \A i \in 1 .. Len(s) : s[i] \in chosen => \E k \in 1 .. Len(from) : from[k] = i
    BY <1>1 DEF Selects
  <1> HIDE DEF out
  <1>3. DOMAIN out = 1 .. Len(from) /\ DOMAIN s = 1 .. Len(s)
    BY <1>2
  <1>4. ASSUME NEW x PROVE x \in Elements(out) <=> x \in Elements(s) \cap chosen
    <2>1. x \in Elements(out) <=> \E k \in 1 .. Len(from) : s[from[k]] = x
      <3>1. x \in Elements(out) <=> \E k \in 1 .. Len(from) : out[k] = x
        BY <1>3 DEF Elements
      <3>2. \A k \in 1 .. Len(from) : out[k] = s[from[k]]
        BY <1>2
      <3> QED
        BY <3>1, <3>2, Zenon
    <2>2. x \in Elements(s) \cap chosen <=> \E i \in 1 .. Len(s) : s[i] = x /\ s[i] \in chosen
      BY <1>3 DEF Elements
    <2> QED
      BY <1>2, <2>1, <2>2
  <1>5. Elements(out) = Elements(s) \cap chosen
    BY <1>4
  <1> QED
    BY <1>2, <1>5 DEF out

LEMMA ChosenTimes ==
  ASSUME NEW T, NEW s \in Seq(T), NEW chosen, NEW g \in chosen
  PROVE  Times(g, Chosen(s, chosen)) = Times(g, s)
  <1> DEFINE out == Chosen(s, chosen)
             old == {i \in DOMAIN s : s[i] = g}
             new == {k \in DOMAIN out : out[k] = g}
  <1>1. PICK from : Selects(out, from, s, chosen, Len(s))
    BY ChosenSelects
  <1>2. /\ out \in Seq(chosen) /\ from \in Seq(Nat) /\ Len(out) = Len(from)
        /\ \A k \in 1 .. Len(from) :
             from[k] \in 1 .. Len(s) /\ s[from[k]] \in chosen /\ out[k] = s[from[k]]
        /\ \A k, l \in 1 .. Len(from) : k < l => from[k] < from[l]
        /\ \A i \in 1 .. Len(s) : s[i] \in chosen => \E k \in 1 .. Len(from) : from[k] = i
    BY <1>1 DEF Selects
  <1> HIDE DEF out
  <1>3. DOMAIN out = 1 .. Len(from) /\ DOMAIN s = 1 .. Len(s) /\ Len(from) \in Nat
    BY <1>2
  <1>4. \A k, l \in 1 .. Len(from) : from[k] = from[l] => k = l
    BY <1>2, <1>3
  <1> DEFINE map == [k \in new |-> from[k]]
  <1>5. map \in [new -> old]
    BY <1>2, <1>3
  <1>6. \A k, l \in new : map[k] = map[l] => k = l
    BY <1>3, <1>4
  <1>7. \A i \in old : \E k \in new : map[k] = i
    <2> SUFFICES ASSUME NEW i \in old PROVE \E k \in new : map[k] = i
      OBVIOUS
    <2>1. PICK k \in 1 .. Len(from) : from[k] = i
      BY <1>2, <1>3
    <2>2. out[k] = g
      BY <1>2, <2>1
    <2> QED
      BY <1>3, <2>1, <2>2
  <1>8. IsFiniteSet(new)
    <2>1. IsFiniteSet(1 .. Len(from))
      BY <1>3, FS_Interval
    <2>2. new \subseteq 1 .. Len(from)
      BY <1>3
    <2> QED
      BY <2>1, <2>2, FS_Subset
  <1> HIDE DEF map, new, old
  <1>9. map \in Bijection(new, old)
    BY <1>5, <1>6, <1>7 DEF Bijection, Injection, Surjection, IsInjective
  <1>10. Cardinality(new) = Cardinality(old)
    BY <1>8, <1>9, FS_Bijection DEF ExistsBijection
  <1> QED
    BY <1>10 DEF Times, new, old, out

-----------------------------------------------------------------------------
(* The order of the groups.                                                *)

(* A group is registered once, and Tick visits the groups in the order     *)
(* rebuildOrder made last.                                                 *)
OrderInv ==
  /\ Registered \subseteq Groups
  /\ registrationOrder \in Seq(Registered)
  /\ Elements(registrationOrder) = Registered
  /\ \A k, l \in DOMAIN registrationOrder :
       registrationOrder[k] = registrationOrder[l] => k = l
  /\ syncOrder \in Seq(Groups)
  /\ orderedGroups = Ordered(syncOrder, registrationOrder, groupStates)

LEMMA OrderIsTyped ==
  ASSUME OrderInv
  PROVE  orderedGroups \in Seq(Registered)
  <1> DEFINE first == Elements(syncOrder)
             a == Chosen(syncOrder, Registered)
             b == Chosen(registrationOrder, Registered \ first)
  <1>1. orderedGroups = a \o b
    BY DEF OrderInv, Ordered, Registered
  <1>2. a \in Seq(Registered) /\ b \in Seq(Registered \ first)
    BY ChosenElements DEF OrderInv
  <1>3. b \in Seq(Registered)
    BY <1>2, SeqMonotonic
  <1> QED
    BY <1>1, <1>2, <1>3

LEMMA OrderHolds ==
  ASSUME OrderInv
  PROVE  OrderIsComplete
  <1> DEFINE first == Elements(syncOrder)
             rest == Registered \ first
             a == Chosen(syncOrder, Registered)
             b == Chosen(registrationOrder, rest)
             all == orderedGroups
  <1>1. /\ syncOrder \in Seq(Groups) /\ registrationOrder \in Seq(Registered)
        /\ Elements(registrationOrder) = Registered
        /\ \A k, l \in DOMAIN registrationOrder :
             registrationOrder[k] = registrationOrder[l] => k = l
        /\ all = a \o b
    BY DEF OrderInv, Ordered, Registered
  <1>2. /\ a \in Seq(Registered) /\ b \in Seq(rest)
        /\ Elements(a) = first \cap Registered /\ Elements(b) = Registered \cap rest
    BY <1>1, ChosenElements
  <1>3. PICK i : Selects(a, i, syncOrder, Registered, Len(syncOrder))
    BY <1>1, ChosenSelects
  <1>4. PICK j : Selects(b, j, registrationOrder, rest, Len(registrationOrder))
    BY <1>1, ChosenSelects
  <1>5. \A g \in Registered : Times(g, a) = Times(g, syncOrder)
    BY <1>1, ChosenTimes
  <1>6. \A g \in rest : Times(g, b) = Times(g, registrationOrder)
    BY <1>1, ChosenTimes
  <1> DEFINE m == Len(a)
             n == Len(b)
  <1>7. /\ m \in Nat /\ n \in Nat /\ DOMAIN a = 1 .. m /\ DOMAIN b = 1 .. n
        /\ DOMAIN all = 1 .. m + n
        /\ \A k \in 1 .. m : all[k] = a[k]
        /\ \A k \in 1 .. n : all[m + k] = b[k]
        /\ \A k \in m + 1 .. m + n : all[k] = b[k - m]
    <2> HIDE DEF a, b
    <2> QED
      BY <1>1, <1>2
  <1> HIDE DEF a, b, all, m, n
  <1>8. /\ \A k \in 1 .. m : a[k] \in first /\ a[k] \in Registered
        /\ \A k \in 1 .. n : b[k] \in rest /\ b[k] \in Registered /\ b[k] \notin first
    BY <1>2, <1>7 DEF Elements
  <1>9. ASSUME NEW g \in Registered
        PROVE  Times(g, all) = IF g \in first THEN Times(g, syncOrder) ELSE 1
    <2>1. CASE g \in first
      <3>1. {k \in DOMAIN all : all[k] = g} = {k \in DOMAIN a : a[k] = g}
        <4>1. \A k \in DOMAIN all : all[k] = g => k \in 1 .. m
          BY <1>7, <1>8, <2>1
        <4> QED
          BY <1>7, <4>1
      <3> QED
        BY <1>5, <2>1, <3>1 DEF Times
    <2>2. CASE g \notin first
      <3>1. PICK p \in DOMAIN registrationOrder : registrationOrder[p] = g
        BY <1>1 DEF Elements
      <3>2. PICK k \in 1 .. n : b[k] = g
        BY <1>2, <1>7, <2>2 DEF Elements
      <3>3. \A l \in 1 .. n : b[l] = g => l = k
        <4> SUFFICES ASSUME NEW l \in 1 .. n, b[l] = g PROVE l = k
          OBVIOUS
        <4>1. /\ j \in Seq(Nat) /\ Len(j) = n
              /\ \A q \in 1 .. n : j[q] \in 1 .. Len(registrationOrder)
                                   /\ b[q] = registrationOrder[j[q]]
              /\ \A q, r \in 1 .. n : q < r => j[q] < j[r]
          BY <1>4 DEF Selects, n
        <4>2. j[l] = j[k]
          <5>1. /\ registrationOrder[j[l]] = registrationOrder[j[k]]
                /\ j[l] \in DOMAIN registrationOrder /\ j[k] \in DOMAIN registrationOrder
            BY <1>1, <3>2, <4>1
          <5> QED
            BY <1>1, <5>1, Zenon
        <4> QED
          BY <1>7, <4>1, <4>2
      <3>4. {l \in DOMAIN all : all[l] = g} = {m + k}
        <4>1. m + k \in DOMAIN all /\ all[m + k] = g
          BY <1>7, <3>2
        <4>2. ASSUME NEW l \in DOMAIN all, all[l] = g PROVE l = m + k
          <5>1. l \notin 1 .. m
            BY <1>7, <1>8, <2>2, <4>2
          <5>2. l - m \in 1 .. n /\ b[l - m] = g
            <6>1. l \in m + 1 .. m + n
              BY <1>7, <5>1
            <6> QED
              BY <1>7, <4>2, <6>1
          <5>3. l - m = k
            BY <3>3, <5>2
          <5>4. l \in Int /\ m \in Int
            BY <1>7
          <5> QED
            BY <5>3, <5>4
        <4> QED
          BY <4>1, <4>2
      <3> QED
        BY <2>2, <3>4, FS_Singleton DEF Times
    <2> QED
      BY <2>1, <2>2
  <1>10. \A p \in DOMAIN registrationOrder : Position(registrationOrder[p]) = p
    BY <1>1 DEF Position
  <1>11. ASSUME NEW k \in DOMAIN all, NEW l \in DOMAIN all, k < l
         PROVE  LET g == all[k]
                    h == all[l]
                IN  /\ h \in first => g \in first /\ \E p, q \in DOMAIN syncOrder :
                                      p < q /\ syncOrder[p] = g /\ syncOrder[q] = h
                    /\ g \notin first /\ h \notin first => Position(g) < Position(h)
    <2>1. CASE l \in 1 .. m
      <3>1. k \in 1 .. m
        BY <1>7, <1>11, <2>1
      <3>2. all[k] = a[k] /\ all[l] = a[l] /\ a[k] \in first /\ a[l] \in first
        BY <1>7, <1>8, <2>1, <3>1
      <3>3. /\ i[k] \in 1 .. Len(syncOrder) /\ i[l] \in 1 .. Len(syncOrder)
            /\ a[k] = syncOrder[i[k]] /\ a[l] = syncOrder[i[l]] /\ i[k] < i[l]
        BY <1>3, <1>11, <2>1, <3>1 DEF Selects, m
      <3>4. DOMAIN syncOrder = 1 .. Len(syncOrder)
        BY <1>1
      <3> QED
        BY <3>2, <3>3, <3>4
    <2>2. CASE l \notin 1 .. m
      <3>1. l - m \in 1 .. n /\ all[l] = b[l - m]
        <4>1. l \in m + 1 .. m + n
          BY <1>7, <2>2
        <4> QED
          BY <1>7, <4>1
      <3>2. all[l] \notin first
        BY <1>8, <3>1
      <3>3. CASE k \in 1 .. m
        BY <1>7, <1>8, <3>2, <3>3
      <3>4. CASE k \notin 1 .. m
        <4>1. k - m \in 1 .. n /\ all[k] = b[k - m] /\ k - m < l - m
          <5>1. k \in m + 1 .. m + n /\ l \in m + 1 .. m + n
            BY <1>7, <2>2, <3>4
          <5> QED
            BY <1>7, <1>11, <5>1
        <4> DEFINE p == j[k - m]
                   q == j[l - m]
        <4>2. /\ p \in 1 .. Len(registrationOrder) /\ q \in 1 .. Len(registrationOrder)
              /\ b[k - m] = registrationOrder[p] /\ b[l - m] = registrationOrder[q]
              /\ p < q
          BY <1>4, <3>1, <4>1 DEF Selects, n
        <4> HIDE DEF p, q
        <4>3. Position(all[k]) = p /\ Position(all[l]) = q
          BY <1>1, <1>10, <3>1, <4>1, <4>2
        <4> QED
          BY <3>2, <4>2, <4>3
      <3> QED
        BY <3>3, <3>4
    <2> QED
      BY <2>1, <2>2
  <1> QED
    BY <1>9, <1>11 DEF OrderIsComplete, first, all

LEMMA ChosenOfNothing ==
  ASSUME NEW chosen
  PROVE  Chosen(<<>>, chosen) = <<>>
  <1>1. PICK from : Selects(Chosen(<<>>, chosen), from, <<>>, chosen, 0)
    BY ChosenSelects, EmptySeq
  <1>2. /\ Chosen(<<>>, chosen) \in Seq(chosen) /\ from \in Seq(Nat)
        /\ Len(Chosen(<<>>, chosen)) = Len(from)
        /\ \A k \in 1 .. Len(from) : from[k] \in 1 .. 0
    BY <1>1 DEF Selects
  <1>3. Len(from) = 0
    BY <1>2
  <1> QED
    BY <1>2, <1>3, EmptySeq

LEMMA InitOrder == Init => OrderInv
  <1> SUFFICES ASSUME Init PROVE OrderInv
    OBVIOUS
  <1>1. /\ registrationOrder = <<>> /\ syncOrder = <<>> /\ orderedGroups = <<>>
        /\ Registered = {}
    BY DEF Init, NoMap, Registered
  <1>2. Elements(<<>>) = {}
    BY DEF Elements
  <1>3. Ordered(<<>>, <<>>, groupStates) = <<>>
    BY ChosenOfNothing DEF Ordered
  <1> QED
    BY <1>1, <1>2, <1>3 DEF OrderInv

(* The invariant reads nothing of the groups but which there are.          *)
LEMMA OthersOrder ==
  ASSUME OrderInv, UNCHANGED order, Registered' = Registered
  PROVE  OrderInv'
  BY DEF OrderInv, order, Ordered, Registered

LEMMA RegisterOrder ==
  ASSUME OrderInv, NEW cfg \in Configs, Register(cfg)
  PROVE  OrderInv'
  <1> DEFINE id == cfg.id
             m == Len(registrationOrder)
             longer == Append(registrationOrder, id)
  <1>1. /\ id \notin Registered /\ id \in Groups
        /\ registrationOrder' = longer /\ syncOrder' = syncOrder
        /\ orderedGroups' = Ordered(syncOrder', registrationOrder', groupStates')
    BY IdIsGroup DEF Register, Registered, RebuildOrder
  <1>2. Registered' = Registered \cup {id}
    BY DEF Register, With, Registered
  <1>3. /\ Registered \subseteq Groups /\ registrationOrder \in Seq(Registered)
        /\ Elements(registrationOrder) = Registered
        /\ \A k, l \in DOMAIN registrationOrder :
             registrationOrder[k] = registrationOrder[l] => k = l
        /\ syncOrder \in Seq(Groups)
    BY DEF OrderInv
  <1> HIDE DEF id
  <1>4. registrationOrder \in Seq(Registered')
    BY <1>2, <1>3, SeqMonotonic
  <1>5. /\ longer \in Seq(Registered')
        /\ m \in Nat /\ DOMAIN registrationOrder = 1 .. m /\ DOMAIN longer = 1 .. m + 1
        /\ longer[m + 1] = id
        /\ \A k \in 1 .. m : longer[k] = registrationOrder[k]
    BY <1>2, <1>4, AppendProperties
  <1> HIDE DEF longer, m
  <1>6. \A k \in 1 .. m : registrationOrder[k] \in Registered
    BY <1>3, <1>5
  <1>7. Elements(longer) = Registered'
    <2>1. \A k \in 1 .. m + 1 : k = m + 1 \/ k \in 1 .. m
      BY <1>5
    <2>2. m + 1 \in 1 .. m + 1 /\ \A k \in 1 .. m : k \in 1 .. m + 1
      BY <1>5
    <2>3. \A x \in Registered : \E k \in 1 .. m : registrationOrder[k] = x
      BY <1>3, <1>5 DEF Elements
    <2>4. \A x : x \in Elements(longer) <=> \E k \in 1 .. m + 1 : longer[k] = x
      BY <1>5 DEF Elements
    <2>5. ASSUME NEW x \in Elements(longer) PROVE x \in Registered'
      BY <1>2, <1>5, <1>6, <2>1, <2>4
    <2>6. ASSUME NEW x \in Registered' PROVE x \in Elements(longer)
      <3>1. CASE x = id
        BY <1>5, <2>2, <2>4, <3>1
      <3>2. CASE x \in Registered
        BY <1>5, <2>2, <2>3, <2>4, <3>2
      <3> QED
        BY <1>2, <3>1, <3>2
    <2> QED
      BY <2>5, <2>6
  <1>8. ASSUME NEW k \in DOMAIN longer, NEW l \in DOMAIN longer, longer[k] = longer[l]
        PROVE  k = l
    BY <1>1, <1>3, <1>5, <1>6, <1>8
  <1> QED
    BY <1>1, <1>2, <1>3, <1>5, <1>7, <1>8 DEF OrderInv

LEMMA NextOrder == OrderInv /\ [Next]_vars => OrderInv'
  <1> SUFFICES ASSUME OrderInv, [Next]_vars PROVE OrderInv'
    OBVIOUS
  <1>1. ASSUME UNCHANGED <<groupStates, order>> PROVE OrderInv'
    BY <1>1, OthersOrder DEF Registered
  <1>2. ASSUME NEW cfg \in Configs, Register(cfg) PROVE OrderInv'
    BY <1>2, RegisterOrder
  <1>3. ASSUME NEW ids \in SyncOrders, WithSyncOrder(ids) PROVE OrderInv'
    <2>1. ids \in Seq(Groups)
      BY RegistrationAssumption
    <2>2. /\ syncOrder' = ids /\ UNCHANGED <<groupStates, registrationOrder>>
          /\ orderedGroups' = Ordered(syncOrder', registrationOrder', groupStates')
      BY <1>3 DEF WithSyncOrder, RebuildOrder
    <2> QED
      BY <2>1, <2>2 DEF OrderInv, Registered
  <1>4. ASSUME NEW pair \in ErrorPolicies, WithErrorPolicy(pair[1], pair[2])
        PROVE  OrderInv'
    <2>1. Registered' = Registered /\ UNCHANGED order
      BY <1>4 DEF WithErrorPolicy, Registered
    <2> QED
      BY <2>1, OthersOrder
  <1> QED
    BY <1>1, <1>2, <1>3, <1>4
    DEF Next, vars, RegisterRefused, WithAsyncWorkers, Build

LEMMA AlwaysOrder == Spec => []OrderInv
  BY InitOrder, NextOrder, PTL DEF Spec

(* Whenever groups are registered and the sync order is given, Tick visits *)
(* every registered group and no other, each once unless the sync order    *)
(* repeats it, those of the sync order first and in its order, the others  *)
(* in the order of their registration.                                     *)
THEOREM OrderIsAlwaysComplete == Spec => []OrderIsComplete
  BY AlwaysOrder, OrderHolds, PTL

-----------------------------------------------------------------------------
(* The types of what is configured.                                        *)
SettingsInv ==
  /\ \A g \in Registered : groupStates[g] \in WorkGroupState
  /\ DOMAIN errorPolicies \subseteq Groups
  /\ \A g \in DOMAIN errorPolicies : errorPolicies[g] \in Policies \ {"Abort"}
  /\ asyncWorkers \in Nat /\ asyncPool \in Nat
  /\ componentOwners \in [Components -> Groups \cup {Nobody}]
  /\ resourceOwners \in [Resources -> Groups \cup {Nobody}]
  /\ resourceReaders \in [Resources -> SUBSET Groups]
  /\ world \in Worlds \cup {OwnWorld}

LEMMA StateIsTyped ==
  ASSUME NEW cfg \in Configs, NEW policy \in Policies
  PROVE  StateOf(cfg, policy) \in WorkGroupState
  <1>1. cfg.async \in BOOLEAN /\ cfg.systems \in Seq(SystemDescriptor \cup {NoSystem})
    BY RegistrationAssumption DEF WorkGroupConfig
  <1>2. \A i \in DOMAIN cfg.systems : cfg.systems[i] \in SystemDescriptor \cup {NoSystem}
    BY <1>1
  <1>3. Elements(SystemsOf(cfg)) \subseteq SystemDescriptor
    <2>1. Elements(SystemsOf(cfg)) \subseteq Elements(cfg.systems) \ {NoSystem}
      BY <1>1, ChosenElements DEF SystemsOf
    <2> QED
      BY <1>2, <2>1 DEF Elements
  <1>4. ASSUME NEW sys \in SystemDescriptor
        PROVE  /\ ReadsOf(sys) \subseteq Components /\ WritesOf(sys) \subseteq Components
               /\ ResourcesOf(sys, "read") \subseteq Resources
               /\ ResourcesOf(sys, "write") \subseteq Resources
    <2>1. /\ sys.reads \in Seq(Components) /\ sys.writes \in Seq(Components)
          /\ sys.resources \in Seq(ResourceAccess)
      BY DEF SystemDescriptor
    <2>2. /\ \A i \in DOMAIN sys.reads : sys.reads[i] \in Components
          /\ \A i \in DOMAIN sys.writes : sys.writes[i] \in Components
          /\ \A i \in DOMAIN sys.resources : sys.resources[i] \in ResourceAccess
      BY <2>1
    <2>3. \A i \in DOMAIN sys.resources : sys.resources[i].name \in Resources \cup {NoName}
      BY <2>2 DEF ResourceAccess
    <2> QED
      BY <2>2, <2>3 DEF ReadsOf, WritesOf, Elements, ResourcesOf, AccessesOf
  <1> DEFINE state == StateOf(cfg, policy)
  <1>5. /\ state.readSet \subseteq Components /\ state.writeSet \subseteq Components
        /\ state.resourceReads \subseteq Resources /\ state.resourceWrites \subseteq Resources
    BY <1>3, <1>4 DEF StateOf, OverSystems
  <1>6. state = [async |-> cfg.async, policy |-> policy,
                 readSet |-> state.readSet, writeSet |-> state.writeSet,
                 resourceReads |-> state.resourceReads,
                 resourceWrites |-> state.resourceWrites]
    BY DEF StateOf
  <1> HIDE DEF state
  <1>7. state \in WorkGroupState
    BY <1>1, <1>5, <1>6 DEF WorkGroupState
  <1> QED
    BY <1>7 DEF state

LEMMA InitSettings == Init => SettingsInv
  BY DEF Init, SettingsInv, NoMap, Registered

LEMMA PoolIsTyped ==
  ASSUME SettingsInv, NEW async, EnsurePool(async)
  PROVE  asyncWorkers' \in Nat /\ asyncPool' \in Nat
  BY RegistrationAssumption DEF SettingsInv, EnsurePool, pool

LEMMA ResolvedIsTyped ==
  ASSUME NEW id, NEW supplied \in Policies, NEW recorded,
         \A g \in DOMAIN recorded : recorded[g] \in Policies \ {"Abort"}
  PROVE  ResolvePolicy(recorded, id, supplied) \in Policies
  BY DEF ResolvePolicy

LEMMA RegisterSettings ==
  ASSUME SettingsInv, NEW cfg \in Configs, Register(cfg)
  PROVE  SettingsInv'
  <1> DEFINE policy == ResolvePolicy(errorPolicies, cfg.id, cfg.policy)
             state == StateOf(cfg, policy)
  <1>1. cfg.id \in Groups /\ cfg.policy \in Policies
    BY IdIsGroup, RegistrationAssumption DEF Register, WorkGroupConfig
  <1>2. policy \in Policies
    BY <1>1, ResolvedIsTyped DEF SettingsInv
  <1> HIDE DEF policy
  <1>3. state \in WorkGroupState
    BY <1>2, StateIsTyped
  <1>4. /\ groupStates' = With(groupStates, cfg.id, state)
        /\ componentOwners' = [c \in Components |->
             IF c \in state.writeSet THEN cfg.id ELSE componentOwners[c]]
        /\ resourceOwners' = [r \in Resources |->
             IF r \in state.resourceWrites THEN cfg.id ELSE resourceOwners[r]]
        /\ resourceReaders' = [r \in Resources |->
             IF r \in state.resourceReads THEN resourceReaders[r] \cup {cfg.id}
                                          ELSE resourceReaders[r]]
        /\ UNCHANGED <<errorPolicies, world>>
        /\ EnsurePool(cfg.async)
    BY DEF Register, policy
  <1> HIDE DEF state
  <1>5. \A g \in Registered' : groupStates'[g] \in WorkGroupState
    BY <1>3, <1>4 DEF With, Registered, SettingsInv
  <1>6. asyncWorkers' \in Nat /\ asyncPool' \in Nat
    BY <1>4, PoolIsTyped
  <1>7. /\ componentOwners' \in [Components -> Groups \cup {Nobody}]
        /\ resourceOwners' \in [Resources -> Groups \cup {Nobody}]
        /\ resourceReaders' \in [Resources -> SUBSET Groups]
    BY <1>1, <1>4 DEF SettingsInv
  <1> QED
    BY <1>4, <1>5, <1>6, <1>7 DEF SettingsInv

LEMMA PolicySettings ==
  ASSUME SettingsInv, NEW id \in Groups, NEW policy \in Policies, WithErrorPolicy(id, policy)
  PROVE  SettingsInv'
  <1>1. /\ DOMAIN errorPolicies' \subseteq Groups
        /\ \A g \in DOMAIN errorPolicies' : errorPolicies'[g] \in Policies \ {"Abort"}
    BY DEF WithErrorPolicy, Recorded, With, SettingsInv
  <1>2. /\ Registered' = Registered
        /\ \A g \in Registered : groupStates'[g] =
             IF g = id
               THEN [groupStates[g] EXCEPT
                       !.policy = ResolvePolicy(errorPolicies', id, groupStates[g].policy)]
               ELSE groupStates[g]
        /\ UNCHANGED <<pool, owners, world>>
    BY DEF WithErrorPolicy, Registered
  <1>3. ASSUME NEW g \in Registered PROVE groupStates'[g] \in WorkGroupState
    <2>1. groupStates[g] \in WorkGroupState
      BY DEF SettingsInv
    <2>2. ResolvePolicy(errorPolicies', id, groupStates[g].policy) \in Policies
      BY <1>1, <2>1, ResolvedIsTyped DEF WorkGroupState
    <2> QED
      BY <1>2, <2>1, <2>2 DEF WorkGroupState
  <1> QED
    BY <1>1, <1>2, <1>3 DEF SettingsInv, pool, owners

LEMMA NextSettings == SettingsInv /\ [Next]_vars => SettingsInv'
  <1> SUFFICES ASSUME SettingsInv, [Next]_vars PROVE SettingsInv'
    OBVIOUS
  <1>1. ASSUME UNCHANGED <<groupStates, errorPolicies, owners, world>>,
               asyncWorkers' \in Nat, asyncPool' \in Nat
        PROVE  SettingsInv'
    BY <1>1 DEF SettingsInv, Registered, owners
  <1>2. CASE UNCHANGED vars
    BY <1>1, <1>2 DEF vars, pool, SettingsInv
  <1>3. ASSUME NEW cfg \in Configs, Register(cfg) PROVE SettingsInv'
    BY <1>3, RegisterSettings
  <1>4. ASSUME NEW cfg \in Configs, RegisterRefused(cfg) PROVE SettingsInv'
    <2>1. asyncWorkers' \in Nat /\ asyncPool' \in Nat
      BY <1>4, PoolIsTyped DEF RegisterRefused, pool, SettingsInv
    <2> QED
      BY <1>1, <1>4, <2>1 DEF RegisterRefused
  <1>5. ASSUME NEW ids \in SyncOrders, WithSyncOrder(ids) PROVE SettingsInv'
    BY <1>1, <1>5 DEF WithSyncOrder, pool, SettingsInv
  <1>6. ASSUME NEW count \in WorkerCounts, WithAsyncWorkers(count) PROVE SettingsInv'
    <2>1. count \in Int
      BY RegistrationAssumption
    <2>2. asyncWorkers' \in Nat /\ asyncPool' \in Nat
      BY <1>6, <2>1 DEF WithAsyncWorkers
    <2> QED
      BY <1>1, <1>6, <2>2 DEF WithAsyncWorkers
  <1>7. ASSUME NEW pair \in ErrorPolicies, WithErrorPolicy(pair[1], pair[2])
        PROVE  SettingsInv'
    <2>1. pair[1] \in Groups /\ pair[2] \in Policies
      BY RegistrationAssumption
    <2> QED
      BY <1>7, <2>1, PolicySettings
  <1>8. ASSUME NEW w \in Worlds \cup {NoWorld}, Build(w) PROVE SettingsInv'
    BY <1>8 DEF Build, SettingsInv, Registered, pool, owners
  <1> QED
    BY <1>2, <1>3, <1>4, <1>5, <1>6, <1>7, <1>8 DEF Next

(* The variables keep their types: the order names registered groups, and  *)
(* no recorded policy is the zero value.                                   *)
THEOREM TypeCorrect == Spec => []TypeOK
  <1>1. OrderInv /\ SettingsInv => TypeOK
    BY OrderIsTyped DEF OrderInv, SettingsInv, TypeOK
  <1> QED
    BY <1>1, AlwaysOrder, InitSettings, NextSettings, PTL DEF Spec

-----------------------------------------------------------------------------
(* The use of resources.                                                   *)

TypeInv ==
  /\ running \in [Goroutines -> Registered \cup {NoGroup}]
  /\ known \in [Goroutines -> [Resources -> Values \cup {NoValue, Unread}]]
  /\ calls \in [Goroutines -> Container!Calls \cup {Container!NoCall}]
  /\ \A r \in DOMAIN values : values[r] \in Values

(* Groups that write run on the ticker, and all keep to what they declare. *)
KeepsTo(p, g) ==
  /\ ~groupStates[g].async => p = Ticker
  /\ calls[p] \in DeclaredCalls(g) \cup {Container!NoCall}
  /\ \A r \in Resources : known[p][r] # Unread => r \in groupStates[g].resourceReads

RunInv ==
  \A p \in Goroutines :
    IF running[p] = NoGroup
      THEN calls[p] = Container!NoCall /\ known[p] = NothingKnown
      ELSE KeepsTo(p, running[p])

UseInv == ConflictInv /\ TypeInv /\ RunInv /\ ReadsStayTrue

-----------------------------------------------------------------------------
LEMMA NoGroupIsNone == ConflictInv => NoGroup \notin Registered
  BY RegistrationAssumption DEF ConflictInv, AccessInv

LEMMA UseInitInv == UseInit => UseInv
  <1> SUFFICES ASSUME UseInit PROVE UseInv
    OBVIOUS
  <1>1. ConflictInv
    BY InitConflict DEF UseInit
  <1>2. TypeInv
    BY DEF UseInit, Container!Init, TypeInv, NothingKnown
  <1>3. RunInv
    BY DEF UseInit, Container!Init, RunInv
  <1>4. ReadsStayTrue
    BY DEF UseInit, NothingKnown, ReadsStayTrue
  <1> QED
    BY <1>1, <1>2, <1>3, <1>4 DEF UseInv

(* A step of ResourceUse is one of Registration or leaves it alone.        *)
LEMMA UseIsRegistration == [UseNext]_useVars => [Next]_vars
  BY DEF UseNext, UseStep, useVars, Configure, OtherCall, Next, RunWorkGroup, RunEnds, CallResources,
         Get, SetOrDelete, RangeVisits, LockStep

(* A group that is registered stays what it is, but for its policy.        *)
SameAccess(g) ==
  /\ g \in Registered'
  /\ groupStates'[g].async = groupStates[g].async
  /\ groupStates'[g].resourceReads = groupStates[g].resourceReads
  /\ groupStates'[g].resourceWrites = groupStates[g].resourceWrites

LEMMA AccessesAreKept ==
  ASSUME Configure
  PROVE  \A g \in Registered : SameAccess(g)
  <1>1. ASSUME UNCHANGED groupStates PROVE \A g \in Registered : SameAccess(g)
    BY <1>1 DEF SameAccess, Registered
  <1>2. ASSUME NEW cfg, Register(cfg) PROVE \A g \in Registered : SameAccess(g)
    BY <1>2 DEF Register, With, Registered, SameAccess
  <1>3. ASSUME NEW id, NEW policy, WithErrorPolicy(id, policy)
        PROVE  \A g \in Registered : SameAccess(g)
    BY <1>3 DEF WithErrorPolicy, Registered, SameAccess
  <1> QED
    BY <1>1, <1>2, <1>3
    DEF Configure, OtherCall, RegisterRefused, WithSyncOrder, WithAsyncWorkers, Build

-----------------------------------------------------------------------------
LEMMA ConfigureInv ==
  ASSUME UseInv, Configure
  PROVE  TypeInv' /\ RunInv' /\ ReadsStayTrue'
  <1>1. UNCHANGED <<container, running, known>>
    BY DEF Configure
  <1>2. \A g \in Registered : SameAccess(g)
    BY AccessesAreKept
  <1>3. TypeInv'
    BY <1>1, <1>2 DEF UseInv, TypeInv, container, SameAccess
  <1>4. ASSUME NEW p \in Goroutines, running[p] # NoGroup
        PROVE  KeepsTo(p, running[p])'
    <2>1. running[p] \in Registered
      BY <1>4 DEF UseInv, TypeInv
    <2>2. SameAccess(running[p])
      BY <2>1, <1>2
    <2>3. KeepsTo(p, running[p])
      BY <1>4 DEF UseInv, RunInv
    <2> QED
      BY <2>2, <2>3, <1>1 DEF KeepsTo, DeclaredCalls, container, SameAccess
  <1>5. RunInv'
    BY <1>1, <1>4 DEF UseInv, RunInv, container
  <1>6. ReadsStayTrue'
    BY <1>1 DEF UseInv, ReadsStayTrue, Container!Lookup, container
  <1> QED
    BY <1>3, <1>5, <1>6

LEMMA RunWorkGroupInv ==
  ASSUME UseInv, NEW p \in Goroutines, NEW g \in Registered, RunWorkGroup(p, g)
  PROVE  TypeInv' /\ RunInv' /\ ReadsStayTrue'
  <1>1. /\ running[p] = NoGroup
        /\ running' = [running EXCEPT ![p] = g]
        /\ UNCHANGED <<groupStates, container, known>>
    BY DEF RunWorkGroup, vars
  <1>2. ~groupStates[g].async => p = Ticker
    BY DEF RunWorkGroup, RunsOn
  <1>3. TypeInv'
    BY <1>1 DEF UseInv, TypeInv, container, Registered
  <1>4. calls[p] = Container!NoCall /\ known[p] = NothingKnown
    BY <1>1 DEF UseInv, RunInv
  <1>5. KeepsTo(p, g)'
    BY <1>1, <1>2, <1>4 DEF KeepsTo, NothingKnown, container
  <1>6. running'[p] = g /\ \A q \in Goroutines \ {p} : running'[q] = running[q]
    BY <1>1 DEF UseInv, TypeInv
  <1>7. ASSUME NEW q \in Goroutines \ {p}, running[q] # NoGroup
        PROVE  KeepsTo(q, running[q])'
    <2>1. KeepsTo(q, running[q])
      BY <1>7 DEF UseInv, RunInv
    <2> QED
      BY <2>1, <1>1, <1>6 DEF KeepsTo, DeclaredCalls, container
  <1>8. g # NoGroup
    BY NoGroupIsNone DEF UseInv
  <1>9. RunInv'
    <2> SUFFICES ASSUME NEW q \in Goroutines
                 PROVE  IF running'[q] = NoGroup
                          THEN calls'[q] = Container!NoCall /\ known'[q] = NothingKnown
                          ELSE KeepsTo(q, running[q])'
      BY DEF RunInv, NothingKnown
    <2>1. CASE q = p
      BY <2>1, <1>5, <1>6, <1>8 DEF KeepsTo, DeclaredCalls
    <2>2. CASE q # p
      BY <2>2, <1>1, <1>6, <1>7 DEF UseInv, RunInv, container
    <2> QED
      BY <2>1, <2>2
  <1>10. ReadsStayTrue'
    BY <1>1 DEF UseInv, ReadsStayTrue, Container!Lookup, container
  <1> QED
    BY <1>3, <1>9, <1>10

LEMMA RunEndsInv ==
  ASSUME UseInv, NEW p \in Goroutines, RunEnds(p)
  PROVE  TypeInv' /\ RunInv' /\ ReadsStayTrue'
  <1>1. /\ calls[p] = Container!NoCall
        /\ running' = [running EXCEPT ![p] = NoGroup]
        /\ known' = [known EXCEPT ![p] = NothingKnown]
        /\ UNCHANGED <<groupStates, container>>
    BY DEF RunEnds, vars
  <1>2. TypeInv'
    BY <1>1 DEF UseInv, TypeInv, container, Registered, NothingKnown
  <1>3. /\ running'[p] = NoGroup /\ known'[p] = NothingKnown
        /\ \A q \in Goroutines \ {p} :
             running'[q] = running[q] /\ known'[q] = known[q]
    BY <1>1 DEF UseInv, TypeInv
  <1>4. RunInv'
    BY <1>1, <1>3 DEF UseInv, RunInv, KeepsTo, DeclaredCalls, container, NothingKnown
  <1>5. ReadsStayTrue'
    BY <1>1, <1>3 DEF UseInv, ReadsStayTrue, Container!Lookup, container, NothingKnown
  <1> QED
    BY <1>2, <1>4, <1>5

-----------------------------------------------------------------------------
(* A call begins or goes on, and no resource changes or becomes known.     *)
LEMMA CallResourcesInv ==
  ASSUME UseInv, NEW p \in Goroutines, NEW call \in Container!Calls,
         CallResources(p, call)
  PROVE  TypeInv' /\ RunInv' /\ ReadsStayTrue'
  <1>1. /\ running[p] # NoGroup
        /\ call \in DeclaredCalls(running[p])
        /\ calls' = [calls EXCEPT ![p] = call]
        /\ UNCHANGED <<groupStates, values, running, known>>
    BY DEF CallResources, Container!Call, vars
  <1>2. TypeInv'
    BY <1>1 DEF UseInv, TypeInv, Registered
  <1>3. calls'[p] = call /\ \A q \in Goroutines \ {p} : calls'[q] = calls[q]
    BY <1>1 DEF UseInv, TypeInv
  <1>4. RunInv'
    BY <1>1, <1>3 DEF UseInv, RunInv, KeepsTo, DeclaredCalls, NothingKnown
  <1>5. ReadsStayTrue'
    BY <1>1 DEF UseInv, ReadsStayTrue, Container!Lookup
  <1> QED
    BY <1>2, <1>4, <1>5

LEMMA LockStepInv ==
  ASSUME UseInv, NEW p \in Goroutines, LockStep(p)
  PROVE  TypeInv' /\ RunInv' /\ ReadsStayTrue'
  <1>1. UNCHANGED <<groupStates, values, running, known>>
    BY DEF LockStep, vars, Container!Announce, Container!RangeReturns,
           Container!Returns, Container!CallbackReads, Container!CallbackWrites
  <1>2. \/ UNCHANGED calls
        \/ calls' = [calls EXCEPT ![p] = Container!NoCall]
    BY DEF LockStep, Container!Announce, Container!RangeReturns,
           Container!Returns, Container!CallbackReads, Container!CallbackWrites
  <1>3. \A q \in Goroutines : calls'[q] \in {calls[q], Container!NoCall}
    BY <1>2 DEF UseInv, TypeInv
  <1>4. TypeInv'
    BY <1>1, <1>2 DEF UseInv, TypeInv, Registered
  <1>5. RunInv'
    BY <1>1, <1>3 DEF UseInv, RunInv, KeepsTo, DeclaredCalls, NothingKnown
  <1>6. ReadsStayTrue'
    BY <1>1 DEF UseInv, ReadsStayTrue, Container!Lookup
  <1> QED
    BY <1>4, <1>5, <1>6

-----------------------------------------------------------------------------
(* Somebody learns the value of one resource of those its group accesses.  *)
LEMMA LearnInv ==
  ASSUME UseInv,
         NEW p \in Goroutines, NEW r \in Resources, NEW v \in Values \cup {NoValue},
         running[p] # NoGroup,
         r \in groupStates[running[p]].resourceReads,
         \A q \in Goroutines : calls'[q] \in {calls[q], Container!NoCall},
         calls' \in [Goroutines -> Container!Calls \cup {Container!NoCall}],
         known' = [known EXCEPT ![p][r] = v],
         \A s \in DOMAIN values' : values'[s] \in Values,
         UNCHANGED groupStates, UNCHANGED running
  PROVE  /\ TypeInv' /\ RunInv'
         /\ \A q \in Goroutines, s \in Resources :
              known'[q][s] = IF q = p /\ s = r THEN v ELSE known[q][s]
  <1>1. TypeInv'
    BY DEF UseInv, TypeInv, Registered
  <1>2. \A q \in Goroutines \ {p} : known'[q] = known[q]
    BY DEF UseInv, TypeInv
  <1>3. \A q \in Goroutines, s \in Resources :
          known'[q][s] = IF q = p /\ s = r THEN v ELSE known[q][s]
    BY DEF UseInv, TypeInv
  <1>4. KeepsTo(p, running[p])'
    <2>1. KeepsTo(p, running[p])
      BY DEF UseInv, RunInv
    <2>2. calls'[p] \in DeclaredCalls(running[p]) \cup {Container!NoCall}
      BY <2>1 DEF KeepsTo
    <2>3. \A s \in Resources :
            known'[p][s] # Unread => s \in groupStates[running[p]].resourceReads
      BY <2>1, <1>3 DEF KeepsTo
    <2> QED
      BY <2>1, <2>2, <2>3 DEF KeepsTo, DeclaredCalls
  <1>5. RunInv'
    <2> SUFFICES ASSUME NEW q \in Goroutines
                 PROVE  IF running[q] = NoGroup
                          THEN calls'[q] = Container!NoCall /\ known'[q] = NothingKnown
                          ELSE KeepsTo(q, running[q])'
      BY DEF RunInv, NothingKnown
    <2>1. CASE q = p
      BY <2>1, <1>4
    <2>2. CASE q # p
      BY <2>2, <1>2 DEF UseInv, RunInv, KeepsTo, DeclaredCalls
    <2> QED
      BY <2>1, <2>2
  <1> QED
    BY <1>1, <1>3, <1>5

LEMMA GetInv ==
  ASSUME UseInv, NEW p \in Goroutines, Get(p)
  PROVE  TypeInv' /\ RunInv' /\ ReadsStayTrue'
  <1> DEFINE r == calls[p].name
             v == Container!Lookup(r)
  <1>1. /\ calls[p].op = "get"
        /\ calls' = [calls EXCEPT ![p] = Container!NoCall]
        /\ known' = [known EXCEPT ![p][r] = v]
        /\ UNCHANGED groupStates /\ UNCHANGED running
    BY DEF Get, Learn, Container!GetReturns, Container!Runs, Container!Returns, vars
  <1>2. UNCHANGED values
    BY DEF Get, Container!GetReturns, Container!Returns
  <1>3. running[p] # NoGroup /\ calls[p] \in DeclaredCalls(running[p])
    BY <1>1 DEF UseInv, RunInv, KeepsTo, Container!NoCall
  <1>4. r \in Resources /\ r \in groupStates[running[p]].resourceReads
    BY <1>1, <1>3 DEF DeclaredCalls, Container!Calls
  <1>5. v \in Values \cup {NoValue}
    BY DEF Container!Lookup, UseInv, TypeInv
  <1>6. \A s \in DOMAIN values' : values'[s] \in Values
    BY <1>2 DEF UseInv, TypeInv
  <1>7. /\ \A q \in Goroutines : calls'[q] \in {calls[q], Container!NoCall}
         /\ calls' \in [Goroutines -> Container!Calls \cup {Container!NoCall}]
    BY <1>1 DEF UseInv, TypeInv
  <1> HIDE DEF r, v
  <1>8. /\ TypeInv' /\ RunInv'
        /\ \A q \in Goroutines, s \in Resources :
             known'[q][s] = IF q = p /\ s = r THEN v ELSE known[q][s]
    <2>1. /\ known' = [known EXCEPT ![p][r] = v]
          /\ UNCHANGED groupStates /\ UNCHANGED running
          /\ running[p] # NoGroup
          /\ r \in Resources /\ r \in groupStates[running[p]].resourceReads
      BY <1>1, <1>3, <1>4
    <2> QED
      BY <2>1, <1>5, <1>6, <1>7, LearnInv, ZenonT(60)
  <1>9. \A s \in Resources : Container!Lookup(s)' = Container!Lookup(s)
    BY <1>2 DEF Container!Lookup
  <1>10. ReadsStayTrue'
    BY <1>8, <1>9 DEF UseInv, ReadsStayTrue, v
  <1> QED
    BY <1>8, <1>10

LEMMA RangeVisitsInv ==
  ASSUME UseInv, NEW p \in Goroutines, NEW r \in Resources, RangeVisits(p, r)
  PROVE  TypeInv' /\ RunInv' /\ ReadsStayTrue'
  <1> DEFINE v == Container!Lookup(r)
  <1>1. /\ calls[p].op = "range"
        /\ UNCHANGED groupStates /\ UNCHANGED running
        /\ UNCHANGED calls /\ UNCHANGED values
    BY DEF RangeVisits, Container!Visit, Container!Runs, vars
  <1>2. \A s \in Resources : Container!Lookup(s)' = Container!Lookup(s)
    BY <1>1 DEF Container!Lookup
  <1>3. /\ \A s \in DOMAIN values' : values'[s] \in Values
        /\ \A q \in Goroutines : calls'[q] \in {calls[q], Container!NoCall}
        /\ calls' \in [Goroutines -> Container!Calls \cup {Container!NoCall}]
    BY <1>1 DEF UseInv, TypeInv
  <1>4. running[p] # NoGroup
    BY <1>1 DEF UseInv, RunInv, Container!NoCall
  <1>5. v \in Values \cup {NoValue}
    BY DEF Container!Lookup, UseInv, TypeInv
  <1>6. CASE r \in groupStates[running[p]].resourceReads /\ Learn(p, r, v)
    <2>1. known' = [known EXCEPT ![p][r] = v]
      BY <1>6 DEF Learn
    <2> HIDE DEF v
    <2>2. /\ TypeInv' /\ RunInv'
          /\ \A q \in Goroutines, s \in Resources :
               known'[q][s] = IF q = p /\ s = r THEN v ELSE known[q][s]
      <3>1. /\ r \in groupStates[running[p]].resourceReads
            /\ UNCHANGED groupStates /\ UNCHANGED running
        BY <1>1, <1>6
      <3> QED
        BY <1>3, <1>4, <1>5, <2>1, <3>1, LearnInv, ZenonT(60)
    <2>3. ReadsStayTrue'
      BY <1>2, <2>2 DEF UseInv, ReadsStayTrue, v
    <2> QED
      BY <2>2, <2>3
  <1>7. CASE UNCHANGED known
    <2>1. TypeInv'
      BY <1>1, <1>7 DEF UseInv, TypeInv, Registered
    <2>2. RunInv'
      BY <1>1, <1>7 DEF UseInv, RunInv, KeepsTo, DeclaredCalls, NothingKnown
    <2>3. ReadsStayTrue'
      BY <1>2, <1>7 DEF UseInv, ReadsStayTrue
    <2> QED
      BY <2>1, <2>2, <2>3
  <1> QED
    BY <1>6, <1>7 DEF RangeVisits

(* Who writes a resource is on the ticker, and nobody else has read it.    *)
LEMMA NobodyElseKnows ==
  ASSUME UseInv,
         NEW p \in Goroutines, NEW q \in Goroutines, NEW r \in Resources,
         running[p] # NoGroup,
         r \in groupStates[running[p]].resourceWrites,
         known[q][r] # Unread
  PROVE  p = q
  <1>1. running[p] \in Registered
    BY DEF UseInv, TypeInv
  <1>2. running[q] # NoGroup
    BY DEF UseInv, RunInv, NothingKnown
  <1>3. running[q] \in Registered
    BY <1>2 DEF UseInv, TypeInv
  <1>4. r \in groupStates[running[q]].resourceReads
    BY <1>2 DEF UseInv, RunInv, KeepsTo
  <1>5. running[q] = running[p]
    BY <1>1, <1>3, <1>4
    DEF UseInv, ConflictInv, ExclusiveInv, ResourceWriters, ResourceReaders
  <1>6. ~groupStates[running[p]].async
    BY <1>1 DEF UseInv, ConflictInv, AccessInv
  <1> QED
    BY <1>2, <1>5, <1>6 DEF UseInv, RunInv, KeepsTo

LEMMA SetOrDeleteInv ==
  ASSUME UseInv, NEW p \in Goroutines, SetOrDelete(p)
  PROVE  TypeInv' /\ RunInv' /\ ReadsStayTrue'
  <1> DEFINE r == calls[p].name
             v == IF calls[p].op = "set" THEN calls[p].value ELSE NoValue
  <1>1. /\ Container!Writes(calls[p])
        /\ values' = Container!Written(calls[p])
        /\ calls' = [calls EXCEPT ![p] = Container!NoCall]
        /\ known' = [known EXCEPT ![p][r] = v]
        /\ UNCHANGED groupStates /\ UNCHANGED running
    BY DEF SetOrDelete, Learn, Container!Write, vars
  <1>2. running[p] # NoGroup /\ calls[p] \in DeclaredCalls(running[p])
    BY <1>1 DEF UseInv, RunInv, KeepsTo, Container!NoCall, Container!Writes
  <1>3. /\ r \in Resources /\ r \in groupStates[running[p]].resourceWrites
        /\ v \in Values \cup {NoValue}
    BY <1>1, <1>2 DEF DeclaredCalls, Container!Calls, Container!Writes
  <1>4. r \in groupStates[running[p]].resourceReads
    BY <1>2, <1>3 DEF UseInv, TypeInv, ConflictInv, AccessInv
  <1>5. \A s \in DOMAIN values' : values'[s] \in Values
    <2>1. CASE calls[p].op = "set"
      <3>1. v \in Values
        BY <1>2, <2>1 DEF DeclaredCalls, Container!Calls
      <3>2. values' = Container!With(values, r, v)
        BY <1>1, <2>1 DEF Container!Written
      <3> HIDE DEF r, v
      <3> QED
        BY <3>1, <3>2 DEF Container!With, UseInv, TypeInv
    <2>2. CASE calls[p].op # "set"
      BY <1>1, <2>2 DEF Container!Written, Container!Deleted, Container!Without,
                        UseInv, TypeInv
    <2> QED
      BY <2>1, <2>2
  <1>6. \A s \in Resources :
          Container!Lookup(s)' = IF s = r THEN v ELSE Container!Lookup(s)
    BY <1>1 DEF Container!Written, Container!Deleted, Container!With,
       Container!Without, Container!Writes, Container!Lookup
  <1>7. /\ \A q \in Goroutines : calls'[q] \in {calls[q], Container!NoCall}
         /\ calls' \in [Goroutines -> Container!Calls \cup {Container!NoCall}]
    BY <1>1 DEF UseInv, TypeInv
  <1> HIDE DEF r, v
  <1>8. /\ TypeInv' /\ RunInv'
        /\ \A q \in Goroutines, s \in Resources :
             known'[q][s] = IF q = p /\ s = r THEN v ELSE known[q][s]
    <2>1. /\ known' = [known EXCEPT ![p][r] = v]
          /\ UNCHANGED groupStates /\ UNCHANGED running
          /\ r \in Resources /\ v \in Values \cup {NoValue}
          /\ running[p] # NoGroup
      BY <1>1, <1>2, <1>3
    <2> QED
      BY <2>1, <1>4, <1>5, <1>7, LearnInv, ZenonT(60)
  <1>9. \A q \in Goroutines : known[q][r] # Unread => q = p
    BY <1>2, <1>3, NobodyElseKnows
  <1>10. ReadsStayTrue'
    BY <1>6, <1>8, <1>9 DEF UseInv, ReadsStayTrue
  <1> QED
    BY <1>8, <1>10

-----------------------------------------------------------------------------
LEMMA UseNextInv == UseInv /\ [UseNext]_useVars => UseInv'
  <1> SUFFICES ASSUME UseInv, [UseNext]_useVars PROVE UseInv'
    OBVIOUS
  <1>1. ConflictInv'
    BY UseIsRegistration, NextConflict DEF UseInv
  <1>2. ASSUME UNCHANGED useVars PROVE TypeInv' /\ RunInv' /\ ReadsStayTrue'
    BY <1>2 DEF UseInv, TypeInv, RunInv, KeepsTo, ReadsStayTrue, DeclaredCalls,
                useVars, vars, container, Registered, Container!Lookup, NothingKnown
  <1>3. TypeInv' /\ RunInv' /\ ReadsStayTrue'
    BY <1>2, ConfigureInv, RunWorkGroupInv, RunEndsInv, CallResourcesInv, GetInv,
       SetOrDeleteInv, RangeVisitsInv, LockStepInv
    DEF UseNext, UseStep, Registered
  <1> QED
    BY <1>1, <1>3 DEF UseInv

LEMMA AlwaysUseInv == UseSpec => []UseInv
  BY UseInitInv, UseNextInv, PTL DEF UseSpec

(* Seen from the registry, a scheduler whose groups run is one that is     *)
(* registered with and built, so what is proved of the one holds of both.  *)
THEOREM UseImplementsRegistration == UseSpec => Spec
  <1>1. UseInit => Init
    BY DEF UseInit
  <1> QED
    BY <1>1, UseIsRegistration, PTL DEF UseSpec, Spec

(* The history only restricts what it is added to, so what is proved of    *)
(* ResourceUse and Registration holds with it.                             *)
THEOREM HistoryImplementsUse == HistorySpec => UseSpec
  <1>1. HistoryInit => UseInit
    BY DEF HistoryInit
  <1>2. [HistoryNext]_historyVars => [UseNext]_useVars
    BY DEF HistoryNext, historyVars, RegisterGroup, GivePolicy, OtherStep, UseNext,
       Configure
  <1> QED
    BY <1>1, <1>2, PTL DEF HistorySpec, UseSpec

(* Goroutines run registered groups, and without one they call nothing and *)
(* know nothing.                                                           *)
THEOREM UseTypeCorrect == UseSpec => []UseTypeOK
  <1>1. UseInv => UseTypeOK
    BY DEF UseInv, TypeInv, RunInv, UseTypeOK
  <1> QED
    BY <1>1, AlwaysUseInv, PTL

(* What a running group has read of the resources, or has written, is true *)
(* as long as it runs, in whatever order groups were registered and        *)
(* whichever run at the same time.                                         *)
THEOREM ReadsAlwaysStayTrue == UseSpec => []ReadsStayTrue
  <1>1. UseInv => ReadsStayTrue
    BY DEF UseInv
  <1> QED
    BY <1>1, AlwaysUseInv, PTL
=============================================================================
