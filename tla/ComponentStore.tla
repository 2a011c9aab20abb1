--------------------------- MODULE ComponentStore ---------------------------
(***************************************************************************)
(* What a ComponentStore (api.go:208-223) is to its callers, whatever the  *)
(* strategy behind it: a map from the identifiers of entities to values.   *)
(* A strategy that keeps one value for each slot of the registry evicts,   *)
(* on a Set, the values of the other identifiers of that slot.             *)
(***************************************************************************)
CONSTANTS
  Ids,      (* the identifiers of entities                                  *)
  Values,   (* the values of the component                                  *)
  Rivals    (* of each identifier, those whose value a Set for it evicts    *)

VARIABLE contents   (* the values of the identifiers that have one          *)

Init == contents = [x \in {} |-> x]

Set(id, value) ==
  contents' = [x \in (DOMAIN contents \ Rivals[id]) \cup {id} |->
                 IF x = id THEN value ELSE contents[x]]

Remove(id) ==
  /\ id \in DOMAIN contents
  /\ contents' = [x \in DOMAIN contents \ {id} |-> contents[x]]

Clear == contents' = [x \in {} |-> x]

Next ==
  \/ \E id \in Ids, value \in Values : Set(id, value)
  \/ \E id \in Ids : Remove(id)
  \/ Clear

Spec == Init /\ [][Next]_contents
=============================================================================
