--------------------------- MODULE EntityHandles ---------------------------
(***************************************************************************)
(* What the entity registry promises to those who hold entity identifiers: *)
(* an identifier is issued once and for one entity, it is live until that  *)
(* entity is destroyed, and from then on it is stale forever.              *)
(***************************************************************************)
CONSTANT Handles

VARIABLES
  live,     (* the handles of the entities there are                        *)
  retired   (* the handles of the entities that were destroyed              *)

handleVars == <<live, retired>>

Init == live = {} /\ retired = {}

Issue(h) ==
  /\ h \notin live \cup retired
  /\ live' = live \cup {h}
  /\ UNCHANGED retired

Retire(h) ==
  /\ h \in live
  /\ live' = live \ {h}
  /\ retired' = retired \cup {h}

Next == \E h \in Handles : Issue(h) \/ Retire(h)

Spec == Init /\ [][Next]_handleVars
=============================================================================
