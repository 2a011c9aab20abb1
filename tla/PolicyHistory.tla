--------------------------- MODULE PolicyHistory ----------------------------
(***************************************************************************)
(* A scheduler whose groups are registered and run (ResourceUse), with a   *)
(* history of the error policies it was given: by the configuration of     *)
(* each group and by the calls of WithErrorPolicy, which may name a group  *)
(* before and after it is registered.  The history changes nothing but     *)
(* that it bounds the calls.                                               *)
(***************************************************************************)
EXTENDS ResourceUse

CONSTANT
  MaxGiven   (* bound: calls of WithErrorPolicy for one group               *)

ASSUME PolicyHistoryAssumption == MaxGiven \in Nat

VARIABLES
  given,  (* history: the policies WithErrorPolicy was given for each group *)
  since,  (* history: how many of them before the group was registered      *)
  own     (* history: the policy each group was registered with             *)

history == <<given, since, own>>
historyVars == <<useVars, history>>

HistoryInit ==
  /\ UseInit
  /\ given = [g \in Groups |-> <<>>]
  /\ since = [g \in Groups |-> 0]
  /\ own = [g \in Groups |-> "Abort"]

GivePolicy(id, policy) ==
  /\ Len(given[id]) < MaxGiven
  /\ WithErrorPolicy(id, policy)
  /\ given' = [given EXCEPT ![id] = Append(@, policy)]
  /\ UNCHANGED <<since, own, container, running, known>>

RegisterGroup(cfg) ==
  /\ Register(cfg)
  /\ since' = [since EXCEPT ![cfg.id] = Len(given[cfg.id])]
  /\ own' = [own EXCEPT ![cfg.id] = cfg.policy]
  /\ UNCHANGED <<given, container, running, known>>

OtherStep ==
  /\ \/ OtherCall /\ UNCHANGED <<container, running, known>>
     \/ UseStep
  /\ UNCHANGED history

HistoryNext ==
  \/ \E cfg \in Configs : RegisterGroup(cfg)
  \/ \E pair \in ErrorPolicies : GivePolicy(pair[1], pair[2])
  \/ OtherStep

HistorySpec == HistoryInit /\ [][HistoryNext]_historyVars

-----------------------------------------------------------------------------
(* The policies offered to a registered group, in this order: its own, the *)
(* last that WithErrorPolicy was given before the registration, and each   *)
(* one after.  Those before the last were replaced, and nothing of them is *)
(* left; Abort is the zero value and stands for no policy.                 *)
Offers(g) == {0} \cup {k \in DOMAIN given[g] : k >= since[g]}

Offered(g, k) == IF k = 0 THEN own[g] ELSE given[g][k]

Taken(g) == {k \in Offers(g) : Offered(g, k) # "Abort"}

(* A group has the first policy it was offered, and Abort as long as there *)
(* is none; what is offered later is recorded and has no effect on it      *)
(* (scheduler_impl.go:114-121 and 226-231), in whatever order groups were  *)
(* registered and policies given, replaced and taken back.                 *)
PolicyIsFirstOffered ==
  \A g \in Registered :
    \/ Taken(g) = {} /\ groupStates[g].policy = "Abort"
    \/ \E k \in Taken(g) : /\ \A l \in Taken(g) : k <= l
                           /\ groupStates[g].policy = Offered(g, k)
=============================================================================
