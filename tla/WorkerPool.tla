----------------------------- MODULE WorkerPool -----------------------------
(***************************************************************************)
(* workerPool (worker_pool.go): goroutines that take jobs from an          *)
(* unbuffered channel, Submit, which hands a job over and returns a handle *)
(* on its result channel, Wait on that handle, and Close.                  *)
(*                                                                         *)
(* Each step is one operation on a channel, or on the once or the wait     *)
(* group, and what its goroutine does up to the next one that another      *)
(* goroutine can tell.  Submit hands out the result channel only when it   *)
(* returns, so until then it is private to it.                             *)
(***************************************************************************)
EXTENDS Naturals, Sequences

CONSTANTS
  Jobs,      (* the jobs that may be submitted, one call of Submit each     *)
  Workers,   (* the goroutines a pool may have                              *)
  Closers,   (* the goroutines that may call Close, once each               *)
  NoJob,     (* stands for the job of a worker that has none                *)
  MaxWaits   (* bound: calls of Wait on one handle                          *)

ASSUME WorkerPoolAssumption == NoJob \notin Jobs /\ MaxWaits \in Nat

VARIABLES
  closed,      (* the channel closed is closed                              *)
  jobsClosed,  (* the channel jobs is closed                                *)
  submit,      (* where each call of Submit is                              *)
  worker,      (* where each worker is and the job it has taken             *)
  closer,      (* where each call of Close is                               *)
  result,      (* the result channel of each job: its buffer, closed or not *)
  cancelled,   (* the jobs whose context is cancelled                       *)
  calls,       (* how often the function of each job was called             *)
  got          (* what the calls of Wait on each handle returned            *)

vars == <<closed, jobsClosed, submit, worker, closer, result, cancelled,
          calls, got>>

Outcomes == {"ran", "cancelled", "closed"}

(* What an empty buffer holds, and what Wait makes of a closed channel.    *)
None == "none"

SubmitPCs == {"idle", "sending", "inline", "returned"}
WorkerPCs == {"absent", "waiting", "took", "running", "sent", "exited"}
CloserPCs == {"idle", "called", "closing", "waiting", "returned"}

(* newWorkerPool: a pool of any size; of size zero it is nil.              *)
Init ==
  /\ closed = FALSE
  /\ jobsClosed = FALSE
  /\ submit = [j \in Jobs |-> "idle"]
  /\ \E started \in SUBSET Workers :
       worker = [w \in Workers |->
                   [pc |-> IF w \in started THEN "waiting" ELSE "absent",
                    job |-> NoJob]]
  /\ closer = [c \in Closers |-> "idle"]
  /\ result = [j \in Jobs |-> [value |-> None, closed |-> FALSE]]
  /\ cancelled = {}
  /\ calls = [j \in Jobs |-> 0]
  /\ got = [j \in Jobs |-> <<>>]

NilPool == \A w \in Workers : worker[w].pc = "absent"

(* A send to the buffer of a result channel, which would block if it were  *)
(* full and panic if the channel were closed.                              *)
CanSend(j) == result[j] = [value |-> None, closed |-> FALSE]
Send(j, o) == CanSend(j) /\ result' = [result EXCEPT ![j].value = o]
SendAndClose(j, o) ==
  CanSend(j) /\ result' = [result EXCEPT ![j] = [value |-> o, closed |-> TRUE]]

-----------------------------------------------------------------------------
(* Submit.                                                                 *)

OnlySubmit == UNCHANGED <<closed, jobsClosed, worker, closer, cancelled, got>>

(* Without a pool the caller runs the function, whatever the context says. *)
SubmitInline(j) ==
  /\ NilPool
  /\ submit[j] = "idle"
  /\ submit' = [submit EXCEPT ![j] = "inline"]
  /\ calls' = [calls EXCEPT ![j] = @ + 1]
  /\ UNCHANGED result
  /\ OnlySubmit

InlineReturns(j) ==
  /\ submit[j] = "inline"
  /\ submit' = [submit EXCEPT ![j] = "returned"]
  /\ SendAndClose(j, "ran")
  /\ UNCHANGED calls
  /\ OnlySubmit

(* The select at the head of Submit; of two ready cases it takes either.   *)
SubmitRefused(j, o) ==
  /\ ~NilPool
  /\ submit[j] = "idle"
  /\ \/ o = "closed" /\ closed
     \/ o = "cancelled" /\ j \in cancelled
  /\ submit' = [submit EXCEPT ![j] = "returned"]
  /\ SendAndClose(j, o)
  /\ UNCHANGED calls
  /\ OnlySubmit

SubmitSends(j) ==
  /\ ~NilPool
  /\ submit[j] = "idle"
  /\ ~closed
  /\ j \notin cancelled
  /\ submit' = [submit EXCEPT ![j] = "sending"]
  /\ UNCHANGED <<result, calls>>
  /\ OnlySubmit

(* safeSendJob: the send panics when jobs is closed, before it or while it *)
(* is blocked; the panic is recovered.                                     *)
SendPanics(j) ==
  /\ submit[j] = "sending"
  /\ jobsClosed
  /\ submit' = [submit EXCEPT ![j] = "returned"]
  /\ SendAndClose(j, "closed")
  /\ UNCHANGED calls
  /\ OnlySubmit

(* Wait, called after Submit returned the handle.                          *)
Wait(j) ==
  /\ submit[j] = "returned"
  /\ Len(got[j]) < MaxWaits
  /\ \/ result[j].value # None
     \/ result[j].closed
  /\ got' = [got EXCEPT ![j] = Append(@, result[j].value)]
  /\ result' = [result EXCEPT ![j].value = None]
  /\ UNCHANGED <<closed, jobsClosed, submit, worker, closer, cancelled, calls>>

Cancel(j) ==
  /\ j \notin cancelled
  /\ cancelled' = cancelled \cup {j}
  /\ UNCHANGED <<closed, jobsClosed, submit, worker, closer, result, calls, got>>

-----------------------------------------------------------------------------
(* The workers.                                                            *)

OnlyWorker == UNCHANGED <<closed, jobsClosed, closer, cancelled, got>>

(* The send and the receive on the unbuffered channel are one step.        *)
Receive(w, j) ==
  /\ worker[w].pc = "waiting"
  /\ submit[j] = "sending"
  /\ ~jobsClosed
  /\ worker' = [worker EXCEPT ![w] = [pc |-> "took", job |-> j]]
  /\ submit' = [submit EXCEPT ![j] = "returned"]
  /\ UNCHANGED <<result, calls>>
  /\ OnlyWorker

(* Defective variant: the select has no case for closed, and the result of *)
(* the receive from jobs is not checked.                                   *)
ExitNever(w) == FALSE /\ UNCHANGED vars

(* Defective variant: what is received from closed jobs is executed.       *)
ExecuteZeroJob(w) ==
  /\ worker[w].pc = "waiting"
  /\ closed \/ jobsClosed
  /\ worker' = [worker EXCEPT ![w] = [pc |-> "took", job |-> "zero value"]]
  /\ UNCHANGED <<submit, result, calls>>
  /\ OnlyWorker

Exit(w) ==
  /\ worker[w].pc = "waiting"
  /\ closed \/ jobsClosed
  /\ worker' = [worker EXCEPT ![w].pc = "exited"]
  /\ UNCHANGED <<submit, result, calls>>
  /\ OnlyWorker

(* Defective variant: execute goes on after it has sent the error.         *)
RefuseAndCall(w) ==
  /\ worker[w].pc = "took"
  /\ worker[w].job \in cancelled
  /\ Send(worker[w].job, "cancelled")
  /\ worker' = [worker EXCEPT ![w].pc = "running"]
  /\ UNCHANGED <<submit, calls>>
  /\ OnlyWorker

(* Defective variant: execute returns without sending the error.           *)
RefuseSilently(w) ==
  /\ worker[w].pc = "took"
  /\ worker[w].job \in cancelled
  /\ worker' = [worker EXCEPT ![w].pc = "sent"]
  /\ UNCHANGED <<submit, result, calls>>
  /\ OnlyWorker

(* execute.                                                                *)
Refuse(w) ==
  /\ worker[w].pc = "took"
  /\ worker[w].job \in cancelled
  /\ Send(worker[w].job, "cancelled")
  /\ worker' = [worker EXCEPT ![w].pc = "sent"]
  /\ UNCHANGED <<submit, calls>>
  /\ OnlyWorker

Call(w) ==
  /\ worker[w].pc = "took"
  /\ worker[w].job \notin cancelled
  /\ calls' = [calls EXCEPT ![worker[w].job] = @ + 1]
  /\ worker' = [worker EXCEPT ![w].pc = "running"]
  /\ UNCHANGED <<submit, result>>
  /\ OnlyWorker

CallReturns(w) ==
  /\ worker[w].pc = "running"
  /\ Send(worker[w].job, "ran")
  /\ worker' = [worker EXCEPT ![w].pc = "sent"]
  /\ UNCHANGED <<submit, calls>>
  /\ OnlyWorker

CloseResult(w) ==
  /\ worker[w].pc = "sent"
  /\ result' = [result EXCEPT ![worker[w].job].closed = TRUE]
  /\ worker' = [worker EXCEPT ![w] = [pc |-> "waiting", job |-> NoJob]]
  /\ UNCHANGED <<submit, calls>>
  /\ OnlyWorker

-----------------------------------------------------------------------------
(* Close.  The once is running between its two steps, when closed is       *)
(* closed and jobs is not, and done after them.                            *)

OnlyCloser == UNCHANGED <<submit, worker, result, cancelled, calls, got>>

CallClose(c) ==
  /\ closer[c] = "idle"
  /\ closer' = [closer EXCEPT ![c] = IF NilPool THEN "returned" ELSE "called"]
  /\ UNCHANGED <<closed, jobsClosed>>
  /\ OnlyCloser

CloseClosed(c) ==
  /\ closer[c] = "called"
  /\ ~closed
  /\ closed' = TRUE
  /\ closer' = [closer EXCEPT ![c] = "closing"]
  /\ UNCHANGED jobsClosed
  /\ OnlyCloser

(* Defective variant: jobs is left open.                                   *)
LeaveJobsOpen(c) ==
  /\ closer[c] = "closing"
  /\ closer' = [closer EXCEPT ![c] = "waiting"]
  /\ UNCHANGED <<closed, jobsClosed>>
  /\ OnlyCloser

CloseJobs(c) ==
  /\ closer[c] = "closing"
  /\ jobsClosed' = TRUE
  /\ closer' = [closer EXCEPT ![c] = "waiting"]
  /\ UNCHANGED closed
  /\ OnlyCloser

OnceIsDone(c) ==
  /\ closer[c] = "called"
  /\ jobsClosed
  /\ closer' = [closer EXCEPT ![c] = "waiting"]
  /\ UNCHANGED <<closed, jobsClosed>>
  /\ OnlyCloser

(* Defective variant: Close does not wait for the wait group.              *)
AnyWorkers == TRUE

AllExited == \A w \in Workers : worker[w].pc \in {"absent", "exited"}

CloseReturns(c) ==
  /\ closer[c] = "waiting"
  /\ AllExited
  /\ closer' = [closer EXCEPT ![c] = "returned"]
  /\ UNCHANGED <<closed, jobsClosed>>
  /\ OnlyCloser

-----------------------------------------------------------------------------
SubmitStep(j) ==
  \/ SubmitInline(j) \/ InlineReturns(j)
  \/ \E o \in Outcomes : SubmitRefused(j, o)
  \/ SubmitSends(j) \/ SendPanics(j)

WorkerStep(w) ==
  \/ \E j \in Jobs : Receive(w, j)
  \/ Exit(w) \/ Refuse(w) \/ Call(w) \/ CallReturns(w) \/ CloseResult(w)

CloserStep(c) ==
  CloseClosed(c) \/ CloseJobs(c) \/ OnceIsDone(c) \/ CloseReturns(c)

(* Nothing left to do: a pool nobody closed has its workers waiting.       *)
Finished ==
  /\ \A j \in Jobs : submit[j] = "returned" /\ result[j].closed
  /\ \A c \in Closers : closer[c] \in {"idle", "returned"}
  /\ \A w \in Workers : worker[w].pc \in {"absent", "waiting", "exited"}
  /\ UNCHANGED vars

Next ==
  \/ \E j \in Jobs : SubmitStep(j) \/ Wait(j) \/ Cancel(j)
  \/ \E w \in Workers : WorkerStep(w)
  \/ \E c \in Closers : CallClose(c) \/ CloserStep(c)
  \/ Finished

Spec == Init /\ [][Next]_vars

(* Goroutines go on when they can.  Nobody has to submit a job, to wait on *)
(* a handle or to call Close, but a Submit and a Close that were called    *)
(* are carried out.                                                        *)
Fairness ==
  /\ \A j \in Jobs : WF_vars(submit[j] # "idle" /\ SubmitStep(j))
  /\ \A w \in Workers : WF_vars(WorkerStep(w))
  /\ \A c \in Closers : WF_vars(CloserStep(c))

FairSpec == Spec /\ Fairness

-----------------------------------------------------------------------------
TypeOK ==
  /\ closed \in BOOLEAN
  /\ jobsClosed \in BOOLEAN
  /\ submit \in [Jobs -> SubmitPCs]
  /\ worker \in [Workers -> [pc : WorkerPCs, job : Jobs \cup {NoJob}]]
  /\ closer \in [Closers -> CloserPCs]
  /\ result \in [Jobs -> [value : Outcomes \cup {None}, closed : BOOLEAN]]
  /\ cancelled \subseteq Jobs
  /\ calls \in [Jobs -> Nat]
  /\ got \in [Jobs -> Seq(Outcomes \cup {None})]

(* A result channel is sent to once and closed once, by the goroutine that *)
(* owns the job then: no send to it could block or panic, and neither      *)
(* could the close, whichever of Submit and the workers came to resolve it.*)
ResultIsOwned ==
  /\ \A j \in Jobs : submit[j] # "returned" => CanSend(j)
  /\ \A w \in Workers :
       /\ worker[w].pc \in {"took", "running"} => CanSend(worker[w].job)
       /\ worker[w].pc = "sent" => ~result[worker[w].job].closed

(* The first Wait on a handle tells what became of the job: its function   *)
(* was called once, or it was not and never will be, for a reason that     *)
(* holds.  Later ones return a zero result (worker_pool.go:139-142).       *)
Faithful(j, o) ==
  \/ o = "ran"       /\ calls[j] = 1
  \/ o = "cancelled" /\ calls[j] = 0 /\ j \in cancelled
  \/ o = "closed"    /\ calls[j] = 0 /\ closed

WaitTellsOutcome ==
  \A j \in Jobs, k \in 1 .. MaxWaits :
    k <= Len(got[j]) =>
      IF k = 1 THEN Faithful(j, got[j][1]) ELSE got[j][k] = None

(* Whoever is blocked is not forgotten.  A Submit in its send has a pool    *)
(* with a worker still there to receive, or a Close about to close jobs    *)
(* although every worker has left (worker_pool.go:126-127); a Close held   *)
(* back by the once has the one that runs it; and one that waits for the   *)
(* workers has closed what makes them leave.                               *)
NobodyIsStranded ==
  /\ \A j \in Jobs : submit[j] = "sending" /\ ~jobsClosed =>
       ~AllExited \/ \E c \in Closers : closer[c] = "closing"
  /\ \A c \in Closers : closer[c] = "called" /\ closed /\ ~jobsClosed =>
       \E d \in Closers \ {c} : closer[d] = "closing"
  /\ \A c \in Closers : closer[c] = "waiting" => closed /\ jobsClosed

(* The promise of the pool, in terms of its channels and goroutines.       *)
Sent(j) == result[j].value # None \/ got[j] # <<>>

RunsOn(w, j) == worker[w] = [pc |-> "running", job |-> j]

Phase(j) ==
  IF Sent(j) THEN "resolved"
  ELSE IF submit[j] = "inline" \/ \E w \in Workers : RunsOn(w, j) THEN "running"
  ELSE IF submit[j] = "idle" THEN "new"
  ELSE "pending"

Outcome(j) ==
  IF result[j].value # None THEN result[j].value
  ELSE IF got[j] # <<>> THEN got[j][1]
  ELSE None

Quiet == ~NilPool /\ \E c \in Closers : closer[c] = "returned"

Promise == INSTANCE JobPool
  WITH phase <- [j \in Jobs |-> Phase(j)],
       outcome <- [j \in Jobs |-> Outcome(j)],
       closing <- closed,
       quiet <- Quiet

(* The pool keeps its promise: each job goes from new to resolved by legal *)
(* steps, and nothing runs once a Close has returned.                      *)
PoolKeepsPromise == Promise!Spec

(* Every job that was submitted is resolved, be the pool closed under it.  *)
EveryJobResolves == Promise!EveryJobResolves

(* Every Close returns, the second and third concurrent one too.           *)
EveryCloseReturns ==
  \A c \in Closers : closer[c] = "called" ~> closer[c] = "returned"

=============================================================================
