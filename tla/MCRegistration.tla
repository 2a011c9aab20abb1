--------------------------- MODULE MCRegistration ---------------------------
(* Model-checking values for PolicyHistory.                                *)
EXTENDS PolicyHistory

CONSTANTS g1, g2, g3, position, velocity, clock

MCGroups     == {g1, g2, g3}
MCComponents == {position, velocity}
MCResources  == {clock}

System(async, reads, writes, resources) ==
  [asyncAllowed |-> async, reads |-> reads, writes |-> writes,
   resources |-> resources]

Config(id, async, policy, systems) ==
  [id |-> id, async |-> async, policy |-> policy, systems |-> systems]

Reads(r)  == [name |-> r, mode |-> "read"]
Writes(r) == [name |-> r, mode |-> "write"]

Mover    == System(FALSE, <<velocity>>, <<position>>, <<Reads(clock)>>)
Mover2   == System(FALSE, <<>>, <<position>>, <<>>)
Stutter  == System(FALSE, <<>>, <<velocity, velocity>>, <<>>)
Clockwork   == System(FALSE, <<>>, <<velocity>>, <<Reads(clock), Writes(clock)>>)
Clockwork2 == System(FALSE, <<>>, <<>>, <<Writes(clock), Writes(NoName)>>)
Watcher  == System(TRUE, <<position>>, <<>>, <<Reads(clock), Reads(NoName)>>)
Blind    == System(TRUE, <<>>, <<>>, <<>>)
Shy      == System(FALSE, <<>>, <<>>, <<>>)
Meddler  == System(TRUE, <<>>, <<velocity>>, <<>>)
Scribe   == System(TRUE, <<>>, <<>>, <<Writes(NoName)>>)

Repeater == System(FALSE, <<>>, <<>>, <<Writes(clock), Writes(clock)>>)

(* Synchronized and async groups, some with systems that conflict with     *)
(* each other, some with what others may have registered before.           *)
MCConfigs == {
  Config(g1, FALSE, "Abort", <<Mover>>),
  Config(g1, FALSE, "Retry", <<Clockwork, Blind>>),
  Config(g1, FALSE, "Abort", <<Mover, Mover2>>),
  Config(g2, FALSE, "Abort", <<Clockwork>>),
  Config(g2, TRUE, "Abort", <<Watcher, NoSystem, Blind>>),
  Config(g2, TRUE, "Continue", <<Watcher, Shy>>),
  Config(g2, TRUE, "Abort", <<Meddler>>),
  Config(g2, FALSE, "Abort", <<Stutter>>),
  Config(g3, FALSE, "Abort", <<Mover2, Clockwork2>>),
  Config(g3, FALSE, "Continue", <<Clockwork, Clockwork2>>),
  Config(g3, TRUE, "Abort", <<Scribe>>),
  Config(g3, FALSE, "Abort", <<Repeater>>),
  Config(g3, FALSE, "Abort", <<Mover2>>),
  Config(NoGroup, TRUE, "Abort", <<Blind>>)}

MCSyncOrders == {<<>>, <<g2, g1>>, <<g3, g1, g3>>}

MCWorkerCounts == {-1, 0, 2}

MCErrorPolicies == {g1} \X Policies
=============================================================================
