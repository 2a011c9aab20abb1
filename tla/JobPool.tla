------------------------------ MODULE JobPool ------------------------------
(***************************************************************************)
(* What a worker pool promises to the scheduler that submits jobs to it,   *)
(* without its channels and goroutines.  A submitted job is resolved once, *)
(* and the outcome is what happened to it: its function "ran" to its end,  *)
(* or it was never called, because the job's context was cancelled or      *)
(* because somebody had called Close.  When a Close of the pool has        *)
(* returned, no function is running and none will.                         *)
(***************************************************************************)
CONSTANT Jobs

VARIABLES
  phase,      (* how far each job is                                        *)
  outcome,    (* the outcome of each job, once it is resolved               *)
  cancelled,  (* the jobs whose context is cancelled                        *)
  closing,    (* Close has been called                                      *)
  quiet       (* a Close has returned                                       *)

jobPoolVars == <<phase, outcome, cancelled, closing, quiet>>

Phases   == {"new", "pending", "running", "resolved"}
Outcomes == {"ran", "cancelled", "closed"}

Init ==
  /\ phase = [j \in Jobs |-> "new"]
  /\ outcome = [j \in Jobs |-> "none"]
  /\ cancelled = {}
  /\ closing = FALSE
  /\ quiet = FALSE

Submit(j) ==
  /\ phase[j] = "new"
  /\ phase' = [phase EXCEPT ![j] = "pending"]
  /\ UNCHANGED <<outcome, cancelled, closing, quiet>>

Run(j) ==
  /\ phase[j] \in {"new", "pending"}
  /\ ~quiet
  /\ phase' = [phase EXCEPT ![j] = "running"]
  /\ UNCHANGED <<outcome, cancelled, closing, quiet>>

(* The reasons for an outcome.                                             *)
Justified(j, o) ==
  \/ o = "ran"       /\ phase[j] = "running"
  \/ o = "cancelled" /\ phase[j] \in {"new", "pending"} /\ j \in cancelled
  \/ o = "closed"    /\ phase[j] \in {"new", "pending"} /\ closing

Resolve(j, o) ==
  /\ Justified(j, o)
  /\ phase' = [phase EXCEPT ![j] = "resolved"]
  /\ outcome' = [outcome EXCEPT ![j] = o]
  /\ UNCHANGED <<cancelled, closing, quiet>>

Cancel(j) ==
  /\ cancelled' = cancelled \cup {j}
  /\ UNCHANGED <<phase, outcome, closing, quiet>>

Close ==
  /\ closing' = TRUE
  /\ UNCHANGED <<phase, outcome, cancelled, quiet>>

CloseReturns ==
  /\ closing
  /\ \A j \in Jobs : phase[j] # "running"
  /\ quiet' = TRUE
  /\ UNCHANGED <<phase, outcome, cancelled, closing>>

Next ==
  \/ \E j \in Jobs : Submit(j) \/ Run(j) \/ Cancel(j)
  \/ \E j \in Jobs, o \in Outcomes : Resolve(j, o)
  \/ Close
  \/ CloseReturns

Spec == Init /\ [][Next]_jobPoolVars

EveryJobResolves ==
  \A j \in Jobs : phase[j] \in {"pending", "running"} ~> phase[j] = "resolved"
=============================================================================
