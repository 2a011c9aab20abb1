------------------------------- MODULE World --------------------------------
(***************************************************************************)
(* World (world.go) with its entity registry, a component type in dense    *)
(* storage and one in shared storage, and the four deferred commands       *)
(* (commands.go).  Systems defer commands, which name the entities they    *)
(* know by then; later they are applied in order until one returns an      *)
(* error (storage_provider.go).  Meanwhile others may create and destroy   *)
(* entities in the registry themselves: it is not the commands' alone.     *)
(*                                                                         *)
(* Shared storage is the map that SharedStore is shown to be.              *)
(***************************************************************************)
EXTENDS Integers, Sequences, FiniteSets

CONSTANTS
  Uint32,        (* the number of values of a uint32                        *)
  Values,        (* values of the component in dense storage                *)
  SharedValues,  (* values of the one in shared storage                     *)
  NoValue,       (* nil                                                     *)
  MaxCreates,    (* bound: calls of Create                                  *)
  MaxCommands    (* bound: commands in a buffer                             *)

ASSUME WorldAssumption ==
  /\ Uint32 \in Nat \ {0}
  /\ Uint32 % 2 = 0
  /\ NoValue \notin Values
  /\ MaxCreates \in 0 .. Uint32
  /\ MaxCommands \in Nat

VARIABLES
  slots, generations, free, alive, creates, live, retired,  (* registry     *)
  dense, count,   (* the dense store                                        *)
  contents,       (* the shared store                                       *)
  registered,     (* the component types that are registered                *)
  pc,             (* "run" while systems run, "apply" in ApplyCommands      *)
  commands,       (* the commands deferred, or those still to apply         *)
  written         (* history: of each type, the values added and not        *)
                  (* removed since                                          *)

registryVars == <<slots, generations, free, alive, creates, live, retired>>
storeVars    == <<dense, count, contents>>
vars == <<registryVars, storeVars, registered, pc, commands, written>>

Registry == INSTANCE EntityRegistry WITH Composed <- {}
Store    == INSTANCE DenseStore
Shared   == INSTANCE ComponentStore
  WITH Ids <- Registry!EntityID \ {Registry!Zero},
       Values <- SharedValues,
       Rivals <- [id \in Registry!EntityID |-> {}]

Entities == Registry!Known

Types == {"dense", "shared"}

ValuesOf(type) == IF type = "dense" THEN Values ELSE SharedValues

NothingWritten == [id \in {} |-> NoValue]

Init ==
  /\ Registry!Init
  /\ Store!Init
  /\ Shared!Init
  /\ registered = {}
  /\ pc = "run"
  /\ commands = <<>>
  /\ written = [type \in Types |-> NothingWritten]

-----------------------------------------------------------------------------
(* A command keeps the identifier it was made with, not a variable that is *)
(* assigned one when an earlier command of the buffer is applied.          *)
CommandsOf(ids) ==
  [op : {"create"}] \cup [op : {"destroy"}, entity : ids]
    \cup [op : {"remove"}, type : Types, entity : ids]
    \cup UNION {[op : {"add"}, type : {t}, entity : ids, value : ValuesOf(t)] : t \in Types}

IsCreate(cmd) == cmd.op = "create"

(* The bound on calls of Create also counts those still to be applied.     *)
MayCreate == creates + Len(SelectSeq(commands, IsCreate)) < MaxCreates

(* A second registration of a type is refused and leaves its store alone.  *)
RegisterComponent(type) ==
  /\ type \notin registered
  /\ registered' = registered \cup {type}
  /\ UNCHANGED <<registryVars, storeVars, pc, commands, written>>

Defer(cmd) ==
  /\ pc = "run"
  /\ Len(commands) < MaxCommands
  /\ IsCreate(cmd) => MayCreate
  /\ commands' = Append(commands, cmd)
  /\ UNCHANGED <<registryVars, storeVars, registered, pc, written>>

ApplyCommands ==
  /\ pc = "run"
  /\ commands # <<>>
  /\ pc' = "apply"
  /\ UNCHANGED <<registryVars, storeVars, registered, commands, written>>

Create == Registry!CreateRecycled \/ Registry!CreateFresh

(* By a system, or anybody else who uses the registry of the world.        *)
OthersCreate ==
  /\ MayCreate
  /\ Create
  /\ UNCHANGED <<storeVars, registered, pc, commands, written>>

OthersDestroy(id) ==
  /\ Registry!Destroy(id)
  /\ UNCHANGED <<storeVars, registered, pc, commands, written>>

(* By whoever asserts that the view of the component is a ComponentStore.  *)
OthersClear(type) ==
  /\ type \in registered
  /\ \/ type = "dense" /\ Store!Clear /\ UNCHANGED contents
     \/ type = "shared" /\ Shared!Clear /\ UNCHANGED <<dense, count>>
  /\ written' = [written EXCEPT ![type] = NothingWritten]
  /\ UNCHANGED <<registryVars, registered, pc, commands>>

-----------------------------------------------------------------------------
(* The command whose turn it is, and what follows when it has been applied *)
(* or has returned an error.                                               *)
Command == Head(commands)

Applying(op) == pc = "apply" /\ Command.op = op

(* Defective variant: the end of the buffer is overlooked.                 *)
ProceedBeyond ==
  /\ commands' = Tail(commands)
  /\ UNCHANGED <<registered, pc>>

Proceed ==
  /\ commands' = Tail(commands)
  /\ pc' = IF Tail(commands) = <<>> THEN "run" ELSE "apply"
  /\ UNCHANGED registered

Stop ==
  /\ commands' = <<>>
  /\ pc' = "run"
  /\ UNCHANGED registered

(* The error of View, or that of the zero value.                           *)
ViewFails(cmd) == cmd.entity = Registry!Zero \/ cmd.type \notin registered

ApplyCreate ==
  /\ Applying("create")
  /\ Create
  /\ Proceed
  /\ UNCHANGED <<storeVars, written>>

ApplyDestroy ==
  /\ Applying("destroy")
  /\ Registry!Destroy(Command.entity)
  /\ Proceed
  /\ UNCHANGED <<storeVars, written>>

ApplyDestroyFails ==
  /\ Applying("destroy")
  /\ ~Registry!IsAlive(Command.entity)
  /\ Stop
  /\ UNCHANGED <<registryVars, storeVars, written>>

ApplyAdd ==
  /\ Applying("add")
  /\ ~ViewFails(Command)
  /\ \/ /\ Command.type = "dense"
        /\ Store!Set(Command.entity, Command.value)
        /\ UNCHANGED contents
     \/ /\ Command.type = "shared"
        /\ Shared!Set(Command.entity, Command.value)
        /\ UNCHANGED <<dense, count>>
  /\ written' = [written EXCEPT ![Command.type] =
                   [id \in DOMAIN @ \cup {Command.entity} |->
                      IF id = Command.entity THEN Command.value ELSE @[id]]]
  /\ Proceed
  /\ UNCHANGED registryVars

Removes(cmd) ==
  \/ /\ cmd.type = "dense"
     /\ Store!Remove(cmd.entity)
     /\ UNCHANGED contents
  \/ /\ cmd.type = "shared"
     /\ Shared!Remove(cmd.entity)
     /\ UNCHANGED <<dense, count>>

Stored(type, id) == IF type = "dense" THEN Store!Has(id) ELSE id \in DOMAIN contents

ApplyRemove ==
  /\ Applying("remove")
  /\ ~ViewFails(Command)
  /\ \/ Removes(Command)
     \/ ~Stored(Command.type, Command.entity) /\ UNCHANGED storeVars
  /\ written' = [written EXCEPT ![Command.type] =
                   [id \in DOMAIN @ \ {Command.entity} |-> @[id]]]
  /\ Proceed
  /\ UNCHANGED registryVars

ApplyFails ==
  /\ Applying("add") \/ Applying("remove")
  /\ ViewFails(Command)
  /\ Stop
  /\ UNCHANGED <<registryVars, storeVars, written>>

-----------------------------------------------------------------------------
Next ==
  \/ \E type \in Types : RegisterComponent(type) \/ OthersClear(type)
  \/ \E cmd \in CommandsOf(Entities) : Defer(cmd)
  \/ ApplyCommands
  \/ OthersCreate
  \/ \E id \in Entities : OthersDestroy(id)
  \/ ApplyCreate \/ ApplyDestroy \/ ApplyDestroyFails
  \/ ApplyAdd \/ ApplyRemove \/ ApplyFails

Spec == Init /\ [][Next]_vars

-----------------------------------------------------------------------------
TypeOK ==
  /\ Registry!TypeOK
  /\ Store!TypeOK
  /\ registered \subseteq Types
  /\ pc \in {"run", "apply"}
  /\ commands \in Seq(CommandsOf(Registry!EntityID))
  /\ pc = "apply" => commands # <<>>
  /\ DOMAIN contents \subseteq Registry!EntityID \ {Registry!Zero}
  /\ \A id \in DOMAIN contents : contents[id] \in SharedValues
  /\ \A type \in Types : \A id \in DOMAIN written[type] :
       id \in Registry!EntityID /\ written[type][id] \in ValuesOf(type)

CountIsExact == Store!CountIsExact

(* Get on an identifier only ever returns what was added to that entity,   *)
(* of that type, and that last: never what an earlier or a later tenant of *)
(* the slot has, although Destroy leaves the components where they are.    *)
(* Iterate visits the same.  Shared storage keeps it all, also of entities *)
(* that were destroyed; dense storage does until the slot is used again.   *)
ComponentsAreOwn ==
  /\ \A id \in live \cup retired : Store!Has(id) <=> id \in Store!Visited
  /\ \A id \in Store!Visited :
       /\ id \in DOMAIN written["dense"]
       /\ Store!Contents[id] = written["dense"][id]
  /\ contents = written["shared"]

(* Commands use the stores as the maps they are, whichever types they name.*)
StoreIsAMap == Store!StoreIsAMap /\ Shared!Spec

(* Said by README.md:13, "Generation-based entity IDs with automatic       *)
(* recycling for stale handle detection": a command with a stale handle is *)
(* told from one for the entity that has the slot now, which keeps what    *)
(* was added to it.                                                        *)
LiveKeepTheirs ==
  \A id \in live, type \in Types : id \in DOMAIN written[type] => Stored(type, id)
=============================================================================
