----------------------------- MODULE Scheduler -----------------------------
(***************************************************************************)
(* basicScheduler.Tick (scheduler_impl.go): one goroutine, the ticker,     *)
(* visits the ordered work groups.  A synchronized group runs on the       *)
(* ticker and defers its commands into the buffer of the tick; an async    *)
(* group is handed to the worker pool and runs concurrently, with a buffer *)
(* of its own.  Once every group was visited the ticker awaits the async   *)
(* results in dispatch order and applies each one's commands, then applies *)
(* its own buffer, and only then advances the tick index.                  *)
(*                                                                         *)
(* Three more kinds of steps interleave with the ticker: the pool workers, *)
(* a caller of the builder that replaces the pool or an error policy, and  *)
(* whoever owns the context and may cancel it.                             *)
(*                                                                         *)
(* A deferred command is represented by where it comes from: the Tick call,*)
(* the position of its group in the order, its system, and whether the     *)
(* attempt that deferred it succeeded.                                     *)
(***************************************************************************)
EXTENDS Integers, Sequences, FiniteSets

CONSTANTS
  Groups,        (* identifiers of the registered work groups               *)
  AsyncGroups,   (* the groups whose mode is WorkGroupModeAsync             *)
  Order,         (* orderedGroups, the sequence every Tick copies           *)
  Interval,      (* the TickInterval of each group                          *)
  RunEvery,      (* of each group, the RunEvery interval of its systems     *)
  WorkerCounts,  (* the counts WithAsyncWorkers may be called with          *)
  MaxCalls,      (* bound: calls of Tick                                    *)
  MaxReconfigs   (* bound: calls of the builder                             *)

TickInterval == [every : Nat, offset : Nat]

ASSUME SchedulerAssumption ==
  /\ AsyncGroups \subseteq Groups
  /\ Order \in Seq(Groups)
  /\ Interval \in [Groups -> TickInterval]
  /\ RunEvery \in [Groups -> Seq(TickInterval)]
  /\ WorkerCounts \subseteq Nat
  /\ MaxCalls \in Nat
  /\ MaxReconfigs \in Nat

VARIABLES
  tickIndex,   (* tickIndex of the scheduler                                *)
  lastRun,     (* lastRun of each workGroupState                            *)
  policy,      (* policy of each workGroupState                             *)
  pool,        (* asyncPool: whether there is one, closed or not, its size  *)
  config,      (* the caller of the builder, and its calls left             *)
  pc,          (* where the ticker is                                       *)
  run,         (* the locals of Tick and of the group it is running         *)
  executed,    (* executedGroups                                            *)
  handle,      (* the next async handle to await, an index of jobs          *)
  jobs,        (* every job dispatched so far, in dispatch order            *)
  cancelled,   (* the Tick calls whose context is cancelled                 *)
  applied,     (* what this Tick call has applied to the world              *)
  published    (* the summaries this Tick call gave the observer            *)

vars == <<tickIndex, lastRun, policy, pool, config, pc, run, executed,
          handle, jobs, cancelled, applied, published>>

schedulerVars == <<tickIndex, lastRun, policy>>
outside       == <<schedulerVars, pool, config, cancelled>>

Policies == {"Abort", "Continue", "Retry"}

Command == [call : Nat, pos : Nat, sys : Nat, ok : BOOLEAN]

(* The progress of one call of runWorkGroup: the system it has come to,    *)
(* whether it returned an error, its command buffer, and - a history of    *)
(* the systems, not of the buffer - the commands deferred by the attempts  *)
(* that succeeded.                                                         *)
Run == [call : Nat, tick : Nat, pos : Nat, next : Nat, failed : BOOLEAN,
        buf : Seq(Command), deferred : SUBSET Command]

(* A job: the ticker is in Submit while it is "submitted" or "sending" and *)
(* runs it itself while it is "inline"; a worker holds it while it is      *)
(* "accepted" or "running".  "ran" is false when the result carries no     *)
(* summary, because runWorkGroup was never entered.                        *)
JobStages == {"submitted", "sending", "accepted", "running", "inline", "done"}
Job == [run : Run, stage : JobStages, ran : BOOLEAN]

Summary == [call : Nat, pos : Nat]

(* Neither the pool nor the scheduler bounds MaxJobs: it follows from the  *)
(* bound on calls.                                                         *)
MaxJobs == MaxCalls * Len(Order)

NewPool(n) == [state |-> IF n > 0 THEN "open" ELSE "none", size |-> n]

Init ==
  /\ tickIndex = 0
  /\ lastRun = [g \in Groups |-> 0]
  /\ policy \in [Groups -> Policies]
  /\ pool \in {NewPool(n) : n \in WorkerCounts}
  /\ config = [pc |-> "idle", workers |-> 0, left |-> MaxReconfigs]
  /\ pc = "idle"
  /\ run = [call |-> 0, tick |-> 0, pos |-> 1, next |-> 1, failed |-> FALSE,
            buf |-> <<>>, deferred |-> {}]
  /\ executed = {}
  /\ handle = 1
  /\ jobs = <<>>
  /\ cancelled = {}
  /\ applied = <<>>
  /\ published = <<>>

-----------------------------------------------------------------------------
(* Intervals, command buffers and the loop over the systems of a group.    *)

ShouldRunTick(tick, interval) ==
  IF interval.every = 0
    THEN TRUE
    ELSE (tick + (interval.offset % interval.every)) % interval.every = 0

Push(buf, cmd) == Append(buf, cmd)

(* Defective variant: the truncation keeps one command too many.           *)
RestoreOffByOne(buf, snapshot) ==
  IF snapshot + 1 >= Len(buf) THEN buf ELSE SubSeq(buf, 1, snapshot + 1)

Restore(buf, snapshot) ==
  IF snapshot >= Len(buf) THEN buf ELSE SubSeq(buf, 1, snapshot)

Group(r) == Order[r.pos]
Systems(r) == RunEvery[Group(r)]

Deferred(r, ok) == [call |-> r.call, pos |-> r.pos, sys |-> r.next, ok |-> ok]

(* A system that succeeds leaves its command in the buffer.                *)
Succeeds(r, buf) ==
  [r EXCEPT !.next = @ + 1, !.buf = Push(buf, Deferred(r, TRUE)),
            !.deferred = @ \cup {Deferred(r, TRUE)}]

(* The buffer after a failed attempt that began with buf, rolled back.     *)
RolledBack(r, buf) ==
  Restore(Push(buf, Deferred(r, FALSE)), Len(buf))

Fails(r, buf) == [r EXCEPT !.failed = TRUE, !.buf = RolledBack(r, buf)]

(* The ways one iteration of the loop of runWorkGroup can end.             *)
SystemSteps(r) ==
  CASE r.call \in cancelled ->
         {[r EXCEPT !.failed = TRUE]}
    [] r.call \notin cancelled /\ ~ShouldRunTick(r.tick, Systems(r)[r.next]) ->
         {[r EXCEPT !.next = @ + 1]}
    [] OTHER ->
         {Succeeds(r, r.buf)} \cup
         (IF policy[Group(r)] = "Retry"
            THEN {Succeeds(r, RolledBack(r, r.buf)),
                  Fails(r, RolledBack(r, r.buf))}
            ELSE {Fails(r, r.buf)})

MoreSystems(r) == ~r.failed /\ r.next <= Len(Systems(r))

-----------------------------------------------------------------------------
(* The ticker.                                                             *)

SummaryOf(r) == [call |-> r.call, pos |-> r.pos]

(* Every return from Tick puts the buffer back into its pool, emptied.     *)
Return ==
  /\ pc' = "idle"
  /\ run' = [run EXCEPT !.buf = <<>>]

Visit == run' = [run EXCEPT !.pos = @ + 1]

(* Defective variant: the handles of an earlier call are not forgotten.    *)
KeptHandle == handle

(* Defective variant: the slice is taken to begin one place too early.     *)
EarlyHandle == Len(jobs)

(* The slice of handles is a local of Tick: the jobs of earlier calls are  *)
(* not in it.                                                              *)
FirstHandle == Len(jobs) + 1

BeginTick ==
  /\ pc = "idle"
  /\ run.call < MaxCalls
  /\ config.pc = "idle"
  /\ pc' = "groups"
  /\ run' = [call |-> run.call + 1, tick |-> tickIndex, pos |-> 1, next |-> 1,
             failed |-> FALSE, buf |-> <<>>, deferred |-> {}]
  /\ executed' = {}
  /\ handle' = FirstHandle
  /\ applied' = <<>>
  /\ published' = <<>>
  /\ UNCHANGED <<outside, jobs>>

AtGroup == pc = "groups" /\ run.pos <= Len(Order)

AbandonTick ==
  /\ AtGroup
  /\ run.call \in cancelled
  /\ Return
  /\ UNCHANGED <<outside, executed, handle, jobs, applied, published>>

GroupDue ==
  /\ AtGroup
  /\ run.call \notin cancelled
  /\ ShouldRunTick(run.tick, Interval[Group(run)])

SkipGroup ==
  /\ AtGroup
  /\ run.call \notin cancelled
  /\ ~ShouldRunTick(run.tick, Interval[Group(run)])
  /\ Visit
  /\ UNCHANGED <<outside, pc, executed, handle, jobs, applied, published>>

StartGroup ==
  /\ GroupDue
  /\ Group(run) \notin AsyncGroups
  /\ pc' = "running"
  /\ run' = [run EXCEPT !.next = 1, !.failed = FALSE]
  /\ UNCHANGED <<outside, executed, handle, jobs, applied, published>>

RunSystem ==
  /\ pc = "running"
  /\ MoreSystems(run)
  /\ run' \in SystemSteps(run)
  /\ UNCHANGED <<outside, pc, executed, handle, jobs, applied, published>>

GroupEnds ==
  /\ pc = "running"
  /\ ~MoreSystems(run)
  /\ published' = Append(published, SummaryOf(run))
  /\ UNCHANGED <<outside, handle, jobs, applied>>

GroupSucceeds ==
  /\ GroupEnds
  /\ ~run.failed
  /\ executed' = executed \cup {Group(run)}
  /\ pc' = "groups"
  /\ Visit

(* Defective variant: a failed group leaves its commands out of the tick.  *)
GroupFailureDiscards ==
  /\ GroupEnds
  /\ run.failed
  /\ policy[Group(run)] = "Continue"
  /\ pc' = "groups"
  /\ run' = [run EXCEPT !.pos = @ + 1, !.buf = <<>>]
  /\ UNCHANGED executed

GroupFailureContinues ==
  /\ GroupEnds
  /\ run.failed
  /\ policy[Group(run)] = "Continue"
  /\ pc' = "groups"
  /\ Visit
  /\ UNCHANGED executed

GroupFailureAborts ==
  /\ GroupEnds
  /\ run.failed
  /\ policy[Group(run)] # "Continue"
  /\ Return
  /\ UNCHANGED executed

(* dispatchAsync: without a pool the group runs in place, and Submit to a  *)
(* closed pool refuses it.  Submit to an open one looks at the context     *)
(* once and then blocks until a worker takes the job.                      *)
Dispatch(stage, refused) ==
  /\ GroupDue
  /\ Group(run) \in AsyncGroups
  /\ jobs' = Append(jobs,
               [run |-> [run EXCEPT !.next = 1, !.failed = refused,
                                    !.buf = <<>>, !.deferred = {}],
                stage |-> stage, ran |-> stage = "inline"])
  /\ pc' = "submit"
  /\ UNCHANGED <<outside, run, executed, handle, applied, published>>

DispatchAsync ==
  \/ pool.state = "none"   /\ Dispatch("inline", FALSE)
  \/ pool.state = "closed" /\ Dispatch("done", TRUE)
  \/ pool.state = "open"   /\ Dispatch("submitted", FALSE)

SubmitReturns ==
  /\ pc = "submit"
  /\ jobs[Len(jobs)].stage \notin {"submitted", "sending", "inline"}
  /\ pc' = "groups"
  /\ Visit
  /\ UNCHANGED <<outside, executed, handle, jobs, applied, published>>

GroupsVisited ==
  /\ pc = "groups"
  /\ run.pos > Len(Order)
  /\ pc' = "await"
  /\ UNCHANGED <<outside, run, executed, handle, jobs, applied, published>>

(* Defective variant: only successful jobs are published.                  *)
AwaitedSilently(failed) ==
  /\ pc = "await"
  /\ handle <= Len(jobs)
  /\ jobs[handle].stage = "done"
  /\ jobs[handle].run.failed = failed
  /\ published' = IF jobs[handle].ran /\ ~failed
                    THEN Append(published, SummaryOf(jobs[handle].run))
                    ELSE published
  /\ UNCHANGED <<outside, jobs>>

(* handle.Wait() returned the result of the next job.  A result that has a *)
(* summary is published first.                                             *)
Awaited(failed) ==
  /\ pc = "await"
  /\ handle <= Len(jobs)
  /\ jobs[handle].stage = "done"
  /\ jobs[handle].run.failed = failed
  /\ published' = IF jobs[handle].ran
                    THEN Append(published, SummaryOf(jobs[handle].run))
                    ELSE published
  /\ UNCHANGED <<outside, jobs>>

(* The policy is looked up under the read lock of the scheduler.           *)
JobFailureContinues ==
  /\ Awaited(TRUE)
  /\ config.pc = "idle"
  /\ policy[Group(jobs[handle].run)] = "Continue"
  /\ handle' = handle + 1
  /\ UNCHANGED <<pc, run, executed, applied>>

JobFailureAborts ==
  /\ Awaited(TRUE)
  /\ config.pc = "idle"
  /\ policy[Group(jobs[handle].run)] # "Continue"
  /\ Return
  /\ UNCHANGED <<executed, handle, applied>>

(* world.ApplyCommands stops at the first command that fails: done of the  *)
(* commands were applied.                                                  *)
ApplyCommands(cmds, done) == applied' = applied \o SubSeq(cmds, 1, done)

ApplyJob ==
  /\ Awaited(FALSE)
  /\ ApplyCommands(jobs[handle].run.buf, Len(jobs[handle].run.buf))
  /\ executed' = executed \cup {Group(jobs[handle].run)}
  /\ handle' = handle + 1
  /\ UNCHANGED <<pc, run>>

ApplyJobFails ==
  /\ Awaited(FALSE)
  /\ \E done \in 0 .. Len(jobs[handle].run.buf) - 1 :
       ApplyCommands(jobs[handle].run.buf, done)
  /\ Return
  /\ UNCHANGED <<executed, handle>>

(* Defective variant: the ticker does not wait for the async groups.       *)
NoneAwaited == pc = "await"

AllAwaited == pc = "await" /\ handle > Len(jobs)

ApplyBuffer ==
  /\ AllAwaited
  /\ ApplyCommands(run.buf, Len(run.buf))
  /\ run' = [run EXCEPT !.buf = <<>>]
  /\ pc' = "commit"
  /\ UNCHANGED <<outside, executed, handle, jobs, published>>

ApplyBufferFails ==
  /\ AllAwaited
  /\ \E done \in 0 .. Len(run.buf) - 1 : ApplyCommands(run.buf, done)
  /\ Return
  /\ UNCHANGED <<outside, executed, handle, jobs, published>>

Commit ==
  /\ pc = "commit"
  /\ config.pc = "idle"
  /\ lastRun' = [g \in Groups |-> IF g \in executed THEN run.tick
                                                    ELSE lastRun[g]]
  /\ tickIndex' = tickIndex + 1
  /\ Return
  /\ UNCHANGED <<policy, pool, config, executed, handle, jobs, cancelled, applied,
                 published>>

-----------------------------------------------------------------------------
(* The workers.  A pool of n workers holds at most n jobs; all of them     *)
(* belong to the current pool, since a pool is replaced only when its      *)
(* workers have exited.                                                    *)

(* Defective variant: a worker does not come back from its job.            *)
HeldForever == {i \in DOMAIN jobs :
                  /\ jobs[i].stage \in {"accepted", "running", "done"}
                  /\ jobs[i].stage = "done" => jobs[i].ran}

Held == {i \in DOMAIN jobs : jobs[i].stage \in {"accepted", "running"}}

Refused(job) == [job EXCEPT !.stage = "done", !.run.failed = TRUE]

OnlyJobs == UNCHANGED <<outside, pc, run, executed, handle, applied, published>>

RefuseJob(i) ==
  /\ jobs[i].stage = "submitted"
  /\ jobs[i].run.call \in cancelled
  /\ jobs' = [jobs EXCEPT ![i] = Refused(jobs[i])]
  /\ OnlyJobs

SendJob(i) ==
  /\ jobs[i].stage = "submitted"
  /\ jobs[i].run.call \notin cancelled
  /\ jobs' = [jobs EXCEPT ![i].stage = "sending"]
  /\ OnlyJobs

AcceptJob(i) ==
  /\ jobs[i].stage = "sending"
  /\ pool.state = "open"
  /\ Cardinality(Held) < pool.size
  /\ jobs' = [jobs EXCEPT ![i].stage = "accepted"]
  /\ OnlyJobs

(* execute: a job whose context is already cancelled never starts.         *)
CancelJob(i) ==
  /\ jobs[i].stage = "accepted"
  /\ jobs[i].run.call \in cancelled
  /\ jobs' = [jobs EXCEPT ![i] = Refused(jobs[i])]
  /\ OnlyJobs

StartJob(i) ==
  /\ jobs[i].stage = "accepted"
  /\ jobs[i].run.call \notin cancelled
  /\ jobs' = [jobs EXCEPT ![i].stage = "running", ![i].ran = TRUE]
  /\ OnlyJobs

RunJobSystem(i) ==
  /\ jobs[i].stage \in {"running", "inline"}
  /\ MoreSystems(jobs[i].run)
  /\ \E r \in SystemSteps(jobs[i].run) : jobs' = [jobs EXCEPT ![i].run = r]
  /\ OnlyJobs

(* The commands become part of the result only when the group succeeded.   *)
FinishJob(i) ==
  /\ jobs[i].stage \in {"running", "inline"}
  /\ ~MoreSystems(jobs[i].run)
  /\ jobs' = [jobs EXCEPT ![i].stage = "done",
                          ![i].run.buf = IF jobs[i].run.failed THEN <<>> ELSE @]
  /\ OnlyJobs

(* What becomes of a job before its systems run, and its systems' run.     *)
HandOver(i) ==
  /\ i \in DOMAIN jobs
  /\ RefuseJob(i) \/ SendJob(i) \/ AcceptJob(i) \/ CancelJob(i) \/ StartJob(i)

RunJob(i) ==
  /\ i \in DOMAIN jobs
  /\ RunJobSystem(i) \/ FinishJob(i)

JobStep(i) == HandOver(i) \/ RunJob(i)

-----------------------------------------------------------------------------
(* WithAsyncWorkers holds the scheduler's lock until it returns.  Closing  *)
(* the channel makes a blocked send panic; safeSendJob recovers and the    *)
(* job is refused.  Then Close waits until the workers have exited.        *)
(* WithErrorPolicy resolves the policy again, and what resolvePolicy finds *)
(* in the group prevails unless it is the zero value, ErrorPolicyAbort:    *)
(* only that policy can be changed, and every other call changes nothing.  *)

OnlyPool == UNCHANGED <<schedulerVars, pc, run, executed, handle, cancelled,
                        applied, published>>

CreatePool(n) ==
  /\ config.pc = "idle"
  /\ config.left > 0
  /\ pool.state = "none"
  /\ pool' = NewPool(n)
  /\ config' = [config EXCEPT !.left = @ - 1]
  /\ UNCHANGED jobs
  /\ OnlyPool

ClosePool(n) ==
  /\ config.pc = "idle"
  /\ config.left > 0
  /\ pool.state = "open"
  /\ pool' = [pool EXCEPT !.state = "closed"]
  /\ config' = [pc |-> "closing", workers |-> n, left |-> config.left - 1]
  /\ jobs' = [i \in DOMAIN jobs |->
                IF jobs[i].stage \in {"submitted", "sending"}
                  THEN Refused(jobs[i])
                  ELSE jobs[i]]
  /\ OnlyPool

(* Close has returned: there is no pool until the new one is made, and the *)
(* ticker, which reads asyncPool without the lock, may see that.           *)
DropPool ==
  /\ config.pc = "closing"
  /\ Held = {}
  /\ pool' = NewPool(0)
  /\ config' = [config EXCEPT !.pc = "dropped"]
  /\ UNCHANGED jobs
  /\ OnlyPool

ReplacePool ==
  /\ config.pc = "dropped"
  /\ pool' = NewPool(config.workers)
  /\ config' = [config EXCEPT !.pc = "idle"]
  /\ UNCHANGED jobs
  /\ OnlyPool

WithErrorPolicy(g, p) ==
  /\ config.pc = "idle"
  /\ config.left > 0
  /\ policy[g] = "Abort"
  /\ p # "Abort"
  /\ policy' = [policy EXCEPT ![g] = p]
  /\ config' = [config EXCEPT !.left = @ - 1]
  /\ UNCHANGED <<tickIndex, lastRun, pool, pc, run, executed, handle, jobs,
                 cancelled, applied, published>>

Cancel(c) ==
  /\ c \notin cancelled
  /\ cancelled' = cancelled \cup {c}
  /\ UNCHANGED <<schedulerVars, pool, config, pc, run, executed, handle, jobs,
                 applied, published>>

-----------------------------------------------------------------------------
TickStep ==
  \/ AbandonTick \/ SkipGroup
  \/ StartGroup \/ RunSystem
  \/ GroupSucceeds \/ GroupFailureContinues \/ GroupFailureAborts
  \/ DispatchAsync \/ SubmitReturns \/ GroupsVisited
  \/ JobFailureContinues \/ JobFailureAborts
  \/ ApplyJob \/ ApplyJobFails
  \/ ApplyBuffer \/ ApplyBufferFails \/ Commit

(* Nothing left to do within the bounds.                                   *)
Finished ==
  /\ pc = "idle"
  /\ run.call = MaxCalls
  /\ config.pc = "idle"
  /\ \A i \in DOMAIN jobs : jobs[i].stage = "done"
  /\ UNCHANGED vars

Next ==
  \/ BeginTick
  \/ TickStep
  \/ \E i \in 1 .. MaxJobs : JobStep(i)
  \/ \E n \in WorkerCounts : CreatePool(n) \/ ClosePool(n)
  \/ DropPool \/ ReplacePool
  \/ \E g \in Groups, p \in Policies : WithErrorPolicy(g, p)
  \/ \E c \in 1 .. MaxCalls : Cancel(c)
  \/ Finished

Spec == Init /\ [][Next]_vars

(* A Tick that was called, a worker that holds a job and a WithAsyncWorkers*)
(* that took the lock go on by themselves as long as systems return.       *)
(* Nobody has to call Tick or WithAsyncWorkers, or to cancel a context.    *)
Fairness ==
  /\ WF_vars(TickStep)
  /\ \A i \in 1 .. MaxJobs : WF_vars(JobStep(i))
  /\ WF_vars(DropPool \/ ReplacePool)

FairSpec == Spec /\ Fairness

(* The same, but an async system may take forever.                         *)
SlowAsyncSpec ==
  /\ Spec
  /\ WF_vars(TickStep)
  /\ WF_vars(DropPool \/ ReplacePool)
  /\ \A i \in 1 .. MaxJobs : WF_vars(HandOver(i))

-----------------------------------------------------------------------------
TypeOK ==
  /\ tickIndex \in Nat
  /\ lastRun \in [Groups -> Nat]
  /\ policy \in [Groups -> Policies]
  /\ pool \in [state : {"none", "open", "closed"}, size : Nat]
  /\ config \in [pc : {"idle", "closing", "dropped"}, workers : Nat, left : Nat]
  /\ pc \in {"idle", "groups", "running", "submit", "await", "commit"}
  /\ run \in Run
  /\ executed \subseteq Groups
  /\ handle \in Nat \ {0}
  /\ jobs \in Seq(Job)
  /\ cancelled \subseteq 1 .. MaxCalls
  /\ applied \in Seq(Command)
  /\ published \in Seq(Summary)

(* What the systems of this Tick call deferred in attempts that succeeded, *)
(* as far as it counts: everything of a synchronized group, even of one    *)
(* that failed later, and all or nothing of an async group.                *)
JobsOfCall == {i \in DOMAIN jobs : jobs[i].run.call = run.call}

Effects == run.deferred \cup
           UNION {jobs[i].run.deferred : i \in {j \in JobsOfCall :
                                                   ~jobs[j].run.failed}}

Applied == {applied[k] : k \in DOMAIN applied}

(* The order of effects within a tick: the async groups first, each phase  *)
(* in the order of the groups, and in a group the order of its systems.    *)
IsAsync(p) == Order[p] \in AsyncGroups

PosBefore(p, q) == IF IsAsync(p) = IsAsync(q) THEN p < q ELSE IsAsync(p)

Before(c, d) == \/ PosBefore(c.pos, d.pos)
                \/ c.pos = d.pos /\ c.sys < d.sys

(* The commands of a Tick are applied one by one in that order - hence     *)
(* none twice - whatever order the workers ran them in, and none is passed *)
(* over: what has been applied when a Tick stops early is a prefix.        *)
AppliedInOrder ==
  /\ \A k, l \in DOMAIN applied : k < l => Before(applied[k], applied[l])
  /\ \A c \in Applied, d \in Effects : Before(d, c) => d \in Applied

(* The world only sees commands of attempts that succeeded: what a failed  *)
(* attempt deferred is rolled back, before a retry and after the last one. *)
AppliedSucceeded == \A c \in Applied : c.ok

(* A Tick that returned early leaves async jobs behind, which finish while *)
(* later Ticks run.  Their results go nowhere: every command a Tick        *)
(* applies and every summary it publishes comes from its own call.         *)
ResultsAreFresh ==
  /\ \A c \in Applied : c.call = run.call
  /\ \A k \in DOMAIN published : published[k].call = run.call

(* A tick is committed only after every job it dispatched is over and with *)
(* all the effects of its groups applied, and nothing else.                *)
CommitIsComplete ==
  pc = "commit" =>
    /\ \A i \in JobsOfCall : jobs[i].stage = "done"
    /\ Applied = Effects

(* The observer hears of the groups once each, of the async ones last, in  *)
(* the order of the groups; by the time of the commit, of every due group  *)
(* whose systems ran, be it that they failed.                              *)
Reported == {published[k].pos : k \in DOMAIN published}

ReportedBefore(p, q) == IF IsAsync(p) = IsAsync(q) THEN p < q ELSE IsAsync(q)

PublishedInOrder ==
  /\ \A k, l \in DOMAIN published :
       k < l => ReportedBefore(published[k].pos, published[l].pos)
  /\ pc = "commit" =>
       \A p \in DOMAIN Order :
         p \in Reported <=>
           IF IsAsync(p)
             THEN \E i \in JobsOfCall : jobs[i].run.pos = p /\ jobs[i].ran
             ELSE ShouldRunTick(run.tick, Interval[Order[p]])

(* Every call of Tick returns, although the builder may close the pool     *)
(* under it at any point, a send may be blocked, and contexts come and go. *)
(* (It holds of FairSpec.  docs/examples/integration.md:151 and README.md: *)
(* 318 say more, that an async group writes to a datastore "without        *)
(* blocking the main tick": that is this property of SlowAsyncSpec.)       *)
TickReturns == pc # "idle" ~> pc = "idle"

(* WithAsyncWorkers holds the scheduler's lock while it waits for workers; *)
(* it always gets out of there, and so do the Ticks that need the lock.    *)
WithAsyncWorkersReturns == config.pc = "closing" ~> config.pc = "idle"

(* Said by docs/adr/0001-api-sketch.md:94, deferring commands "ensur[es]   *)
(* async systems remain safe", and by implementation_plan.md:94, they are  *)
(* "applied in a controlled phase to preserve data safety across threads": *)
(* nothing is applied while a system of the tick runs on a worker.         *)
AppliedWhileNoneRuns ==
  [][applied' # applied /\ applied' # <<>> =>
       \A i \in JobsOfCall : jobs[i].stage # "running"]_vars

=============================================================================
