-------------------------- MODULE WorkerPoolProofs --------------------------
(* Theorems about WorkerPool, for any sets of jobs, workers and closers.   *)
EXTENDS WorkerPool, TLAPS

LEMMA TypeInit == Init => TypeOK
  <1> SUFFICES ASSUME Init PROVE TypeOK
    OBVIOUS
  <1> USE DEF Init, TypeOK, SubmitPCs, WorkerPCs, CloserPCs, Outcomes, None
  <1>1. worker \in [Workers -> [pc : WorkerPCs, job : Jobs \cup {NoJob}]]
    <2>1. PICK started \in SUBSET Workers :
            worker = [w \in Workers |->
                        [pc |-> IF w \in started THEN "waiting" ELSE "absent",
                         job |-> NoJob]]
      OBVIOUS
    <2> QED
      BY <2>1
  <1>2. got \in [Jobs -> Seq(Outcomes \cup {None})]
    OBVIOUS
  <1> QED
    BY <1>1, <1>2

LEMMA TypeNext == TypeOK /\ [Next]_vars => TypeOK'
  <1> SUFFICES ASSUME TypeOK, [Next]_vars PROVE TypeOK'
    OBVIOUS
  <1> USE WorkerPoolAssumption DEF TypeOK, SubmitPCs, WorkerPCs, CloserPCs,
          Outcomes, None
  <1>1. ASSUME NEW j \in Jobs, SubmitStep(j) PROVE TypeOK'
    <2> USE DEF OnlySubmit, SendAndClose
    <2>1. CASE SubmitInline(j)
      BY <2>1 DEF SubmitInline
    <2>2. CASE InlineReturns(j)
      BY <2>2 DEF InlineReturns
    <2>3. ASSUME NEW o \in Outcomes, SubmitRefused(j, o) PROVE TypeOK'
      BY <2>3 DEF SubmitRefused
    <2>4. CASE SubmitSends(j)
      BY <2>4 DEF SubmitSends
    <2>5. CASE SendPanics(j)
      BY <2>5 DEF SendPanics
    <2> QED
      BY <1>1, <2>1, <2>2, <2>3, <2>4, <2>5 DEF SubmitStep
  <1>2. ASSUME NEW j \in Jobs, Wait(j) PROVE TypeOK'
    <2>1. result[j].value \in Outcomes \cup {None}
      OBVIOUS
    <2>2. Append(got[j], result[j].value) \in Seq(Outcomes \cup {None})
      BY <2>1
    <2> QED
      BY <1>2, <2>2 DEF Wait
  <1>3. ASSUME NEW j \in Jobs, Cancel(j) PROVE TypeOK'
    BY <1>3 DEF Cancel
  <1>4. ASSUME NEW w \in Workers, WorkerStep(w) PROVE TypeOK'
    <2>1. ASSUME NEW j \in Jobs, Receive(w, j) PROVE TypeOK'
      BY <2>1 DEF Receive, OnlyWorker
    <2>2. CASE Exit(w)
      BY <2>2 DEF Exit, OnlyWorker
    <2>3. CASE Refuse(w)
      BY <2>3 DEF Refuse, OnlyWorker, Send
    <2>4. CASE Call(w)
      <3>1. calls' = [calls EXCEPT ![worker[w].job] = calls[worker[w].job] + 1]
        BY <2>4 DEF Call
      <3>2. \A j \in Jobs : calls[j] + 1 \in Nat
        OBVIOUS
      <3>3. calls' \in [Jobs -> Nat]
        BY <3>1, <3>2
      <3>4. worker' \in [Workers -> [pc : WorkerPCs, job : Jobs \cup {NoJob}]]
        BY <2>4 DEF Call
      <3>5. UNCHANGED <<closed, jobsClosed, submit, closer, result, cancelled, got>>
        BY <2>4 DEF Call, OnlyWorker
      <3> QED
        BY <3>3, <3>4, <3>5
    <2>5. CASE CallReturns(w)
      BY <2>5 DEF CallReturns, OnlyWorker, Send
    <2>6. CASE CloseResult(w)
      BY <2>6 DEF CloseResult, OnlyWorker
    <2> QED
      BY <1>4, <2>1, <2>2, <2>3, <2>4, <2>5, <2>6 DEF WorkerStep
  <1>5. ASSUME NEW c \in Closers, CallClose(c) \/ CloserStep(c) PROVE TypeOK'
    BY <1>5 DEF CallClose, CloserStep, CloseClosed, CloseJobs, OnceIsDone,
       CloseReturns, OnlyCloser
  <1>6. CASE UNCHANGED vars
    BY <1>6 DEF vars
  <1> QED
    BY <1>1, <1>2, <1>3, <1>4, <1>5, <1>6 DEF Next, Finished

(* Every variable of the pool keeps its type.                              *)
THEOREM TypeCorrect == Spec => []TypeOK
  BY TypeInit, TypeNext, PTL DEF Spec

-----------------------------------------------------------------------------
(* Who is responsible for a job, and what its result channel holds then.   *)
Holding(w) == worker[w].pc \in {"took", "running", "sent"}

Blank(j) == CanSend(j) /\ got[j] = <<>>

Resolved(j) ==
  \E o \in Outcomes :
    /\ Faithful(j, o)
    /\ \/ result[j].value = o /\ got[j] = <<>>
       \/ /\ result[j].value = None
          /\ got[j] # <<>>
          /\ got[j][1] = o
          /\ \A k \in 2 .. Len(got[j]) : got[j][k] = None

InvClosing ==
  /\ jobsClosed => closed
  /\ \A c \in Closers : closer[c] \in {"closing", "waiting"} => closed
  /\ Quiet => AllExited /\ closed

JobInv(j) ==
  /\ submit[j] \in {"idle", "sending"} => Blank(j) /\ calls[j] = 0
  /\ submit[j] = "inline" => NilPool /\ Blank(j) /\ calls[j] = 1
  /\ submit[j] = "returned" => Blank(j) \/ Resolved(j)

InvJobs == \A j \in Jobs : JobInv(j)

(* What holds of a job j that a worker at pc holds.                        *)
HeldInv(j, pc) ==
  /\ submit[j] = "returned"
  /\ pc = "took" => Blank(j) /\ calls[j] = 0
  /\ pc = "running" => Blank(j) /\ calls[j] = 1
  /\ pc = "sent" => Resolved(j) /\ ~result[j].closed

InvWorkers ==
  \A w \in Workers :
    /\ worker[w].job \in Jobs <=> Holding(w)
    /\ Holding(w) => HeldInv(worker[w].job, worker[w].pc)

InvUnique ==
  \A w, v \in Workers :
    Holding(w) /\ Holding(v) /\ worker[w].job = worker[v].job => w = v

IInv == TypeOK /\ InvClosing /\ InvJobs /\ InvWorkers /\ InvUnique


LEMMA IInvInit == Init => IInv
  <1> SUFFICES ASSUME Init PROVE IInv
    OBVIOUS
  <1>1. TypeOK
    BY TypeInit
  <1>2. PICK started \in SUBSET Workers :
          worker = [w \in Workers |->
                      [pc |-> IF w \in started THEN "waiting" ELSE "absent",
                       job |-> NoJob]]
    BY DEF Init
  <1>3. \A w \in Workers : ~Holding(w) /\ worker[w].job \notin Jobs
    BY <1>2, WorkerPoolAssumption DEF Holding
  <1>4. \A j \in Jobs : Blank(j) /\ calls[j] = 0 /\ submit[j] = "idle"
    BY DEF Init, Blank, CanSend
  <1>5. InvClosing
    BY DEF InvClosing, Init, Quiet
  <1>6. InvJobs
    BY <1>4 DEF InvJobs, JobInv
  <1>7. InvWorkers
    BY <1>3 DEF InvWorkers, Holding
  <1>8. InvUnique
    BY <1>3 DEF InvUnique
  <1> QED
    BY <1>1, <1>5, <1>6, <1>7, <1>8 DEF IInv

(* A resolved job stays so while nobody touches its channel, its handle or *)
(* its function.                                                           *)
LEMMA ResolvedStable ==
  ASSUME NEW j \in Jobs, Resolved(j), closed => closed',
         cancelled \subseteq cancelled', result'[j].value = result[j].value,
         got'[j] = got[j], calls'[j] = calls[j]
  PROVE  Resolved(j)'
  BY DEF Resolved, Faithful

(* Sending the outcome into a blank channel resolves the job.              *)
LEMMA SendResolves ==
  ASSUME NEW j \in Jobs, NEW o \in Outcomes, got'[j] = <<>>,
         Faithful(j, o)', result'[j].value = o
  PROVE  Resolved(j)'
  BY DEF Resolved


(* Everything about a job is kept by a step that leaves the job alone.     *)
Untouched(j) ==
  /\ submit'[j] = submit[j]
  /\ result'[j] = result[j]
  /\ got'[j] = got[j]
  /\ calls'[j] = calls[j]

Monotone == (closed => closed') /\ cancelled \subseteq cancelled' /\ NilPool' = NilPool

LEMMA UntouchedJob ==
  ASSUME NEW j \in Jobs, Untouched(j), Monotone, JobInv(j)
  PROVE  JobInv(j)'
  BY ResolvedStable DEF Untouched, Monotone, JobInv, Blank, CanSend

(* A step of Submit concerns a job that no worker holds.                   *)
LEMMA SubmitKeepsIInv ==
  ASSUME NEW j \in Jobs, IInv, TypeOK', OnlySubmit,
         \A i \in Jobs \ {j} : Untouched(i),
         submit[j] # "returned", JobInv(j)'
  PROVE  IInv'
  <1>1. Monotone
    BY DEF OnlySubmit, Monotone, NilPool
  <1>2. InvClosing'
    BY DEF IInv, InvClosing, OnlySubmit, Quiet, NilPool, AllExited
  <1>3. InvJobs'
    BY <1>1, UntouchedJob DEF IInv, InvJobs
  <1>4. ASSUME NEW w \in Workers, Holding(w)
        PROVE  HeldInv(worker[w].job, worker[w].pc)'
    <2>1. worker[w].job \in Jobs \ {j}
      BY <1>4 DEF IInv, InvWorkers, HeldInv
    <2>2. HeldInv(worker[w].job, worker[w].pc)
      BY <1>4 DEF IInv, InvWorkers
    <2>3. worker' = worker
      BY DEF OnlySubmit
    <2>4. DEFINE pc == worker[w].pc
                 i == worker[w].job
    <2>5. HeldInv(i, pc)'
      BY <1>1, <2>1, <2>2, <2>3, ResolvedStable
         DEF Untouched, Monotone, HeldInv, Blank, CanSend
    <2> QED
      BY <2>5
  <1>5. InvWorkers'
    BY <1>4 DEF IInv, InvWorkers, OnlySubmit, Holding
  <1>6. InvUnique'
    BY DEF IInv, InvUnique, OnlySubmit, Holding
  <1> QED
    BY <1>2, <1>3, <1>5, <1>6 DEF IInv


LEMMA SubmitStepKeepsIInv ==
  ASSUME NEW j \in Jobs, IInv, TypeOK', SubmitStep(j)
  PROVE  IInv'
  <1> USE DEF IInv, InvJobs, Untouched
  <1>0. JobInv(j) /\ TypeOK
    OBVIOUS
  <1> USE DEF TypeOK
  <1>1. CASE SubmitInline(j)
    <2>1. JobInv(j)'
      BY <1>0, <1>1 DEF SubmitInline, OnlySubmit, JobInv, Blank, CanSend, NilPool
    <2> QED
      BY <1>1, <2>1, SubmitKeepsIInv DEF SubmitInline, OnlySubmit
  <1>2. CASE InlineReturns(j)
    <2>1. Resolved(j)'
      BY <1>0, <1>2, SendResolves
         DEF InlineReturns, OnlySubmit, JobInv, Blank, SendAndClose, Faithful, Outcomes
    <2>2. JobInv(j)'
      BY <1>2, <2>1 DEF InlineReturns, JobInv
    <2> QED
      BY <1>2, <2>2, SubmitKeepsIInv DEF InlineReturns, OnlySubmit, SendAndClose
  <1>3. ASSUME NEW o \in Outcomes, SubmitRefused(j, o) PROVE IInv'
    <2>1. Resolved(j)'
      BY <1>0, <1>3, SendResolves
         DEF SubmitRefused, OnlySubmit, JobInv, Blank, SendAndClose, Faithful
    <2>2. JobInv(j)'
      BY <1>3, <2>1 DEF SubmitRefused, JobInv
    <2> QED
      BY <1>3, <2>2, SubmitKeepsIInv DEF SubmitRefused, OnlySubmit, SendAndClose
  <1>4. CASE SubmitSends(j)
    <2>1. JobInv(j)'
      BY <1>0, <1>4 DEF SubmitSends, OnlySubmit, JobInv, Blank, CanSend
    <2> QED
      BY <1>4, <2>1, SubmitKeepsIInv DEF SubmitSends, OnlySubmit
  <1>5. CASE SendPanics(j)
    <2>1. Resolved(j)'
      BY <1>0, <1>5, SendResolves
         DEF SendPanics, OnlySubmit, JobInv, Blank, SendAndClose, Faithful,
             Outcomes, InvClosing
    <2>2. JobInv(j)'
      BY <1>5, <2>1 DEF SendPanics, JobInv
    <2> QED
      BY <1>5, <2>2, SubmitKeepsIInv DEF SendPanics, OnlySubmit, SendAndClose
  <1> QED
    BY <1>1, <1>2, <1>3, <1>4, <1>5 DEF SubmitStep


LEMMA WaitKeepsResolved ==
  ASSUME NEW j \in Jobs, IInv, Wait(j)
  PROVE  Resolved(j) /\ Resolved(j)'
  <1> USE DEF Wait
  <1>1. TypeOK /\ (Blank(j) \/ Resolved(j))
    BY DEF IInv, InvJobs, JobInv
  <1>2. Resolved(j)
    BY <1>1 DEF Blank, CanSend
  <1>3. PICK o \in Outcomes :
          /\ Faithful(j, o)
          /\ \/ result[j].value = o /\ got[j] = <<>>
             \/ /\ result[j].value = None
                /\ got[j] # <<>>
                /\ got[j][1] = o
                /\ \A k \in 2 .. Len(got[j]) : got[j][k] = None
    BY <1>2 DEF Resolved
  <1>4. Faithful(j, o)'
    BY <1>3 DEF Faithful
  <1>5. result'[j].value = None /\ got'[j] = Append(got[j], result[j].value)
    BY <1>1 DEF TypeOK
  <1>6. got[j] \in Seq(Outcomes \cup {None})
    BY <1>1 DEF TypeOK
  <1>7. CASE result[j].value = o /\ got[j] = <<>>
    <2>1. got'[j] = <<o>>
      BY <1>5, <1>7
    <2> QED
      BY <1>2, <1>4, <1>5, <2>1 DEF Resolved
  <1>8. CASE /\ result[j].value = None
             /\ got[j] # <<>>
             /\ got[j][1] = o
             /\ \A k \in 2 .. Len(got[j]) : got[j][k] = None
    <2>1. got'[j] = Append(got[j], None)
      BY <1>5, <1>8
    <2>2. got'[j] # <<>> /\ got'[j][1] = o
      BY <1>6, <1>8, <2>1
    <2>3. \A k \in 2 .. Len(got'[j]) : got'[j][k] = None
      BY <1>6, <1>8, <2>1
    <2> QED
      BY <1>2, <1>4, <1>5, <2>2, <2>3 DEF Resolved
  <1> QED
    BY <1>2, <1>3, <1>7, <1>8

LEMMA WaitKeepsIInv ==
  ASSUME NEW j \in Jobs, IInv, TypeOK', Wait(j)
  PROVE  IInv'
  <1>1. Resolved(j) /\ Resolved(j)'
    BY WaitKeepsResolved
  <1>2. ~Blank(j)
    BY DEF Wait, Blank, CanSend
  <1>3. Monotone /\ \A i \in Jobs \ {j} : Untouched(i)
    BY DEF Wait, Monotone, NilPool, Untouched, IInv, TypeOK
  <1>4. InvClosing'
    BY DEF IInv, InvClosing, Wait, Quiet, NilPool, AllExited
  <1>5. InvJobs'
    BY <1>1, <1>3, UntouchedJob DEF IInv, InvJobs, JobInv, Wait
  <1>6. ASSUME NEW w \in Workers, Holding(w)
        PROVE  HeldInv(worker[w].job, worker[w].pc)'
    <2> DEFINE pc == worker[w].pc
               i  == worker[w].job
    <2>1. i \in Jobs /\ HeldInv(i, pc) /\ worker' = worker
      BY <1>6 DEF IInv, InvWorkers, Wait
    <2>2. CASE i = j
      BY <1>1, <1>2, <1>6, <2>1, <2>2 DEF HeldInv, Holding, Wait, IInv, TypeOK
    <2>3. CASE i # j
      BY <1>3, <2>1, <2>3, ResolvedStable
         DEF Untouched, Monotone, HeldInv, Blank, CanSend
    <2> QED
      BY <2>2, <2>3
  <1>7. InvWorkers'
    BY <1>6 DEF IInv, InvWorkers, Wait, Holding
  <1>8. InvUnique'
    BY DEF IInv, InvUnique, Wait, Holding
  <1> QED
    BY <1>4, <1>5, <1>7, <1>8 DEF IInv

(* A step after which every job is as before, and nobody holds another.    *)
LEMMA NoJobTouched ==
  ASSUME IInv, TypeOK', InvClosing', Monotone,
         UNCHANGED <<submit, result, calls, got>>, worker' = worker
  PROVE  IInv'
  <1>1. \A j \in Jobs : Untouched(j)
    BY DEF Untouched
  <1>2. InvJobs'
    BY <1>1, UntouchedJob DEF IInv, InvJobs
  <1>3. ASSUME NEW w \in Workers, Holding(w)
        PROVE  HeldInv(worker[w].job, worker[w].pc)'
    <2> DEFINE pc == worker[w].pc
               i  == worker[w].job
    <2>1. i \in Jobs /\ HeldInv(i, pc)
      BY <1>3 DEF IInv, InvWorkers
    <2> QED
      BY <1>1, <2>1, ResolvedStable
         DEF Untouched, Monotone, HeldInv, Blank, CanSend
  <1>4. InvWorkers'
    BY <1>3 DEF IInv, InvWorkers, Holding
  <1>5. InvUnique'
    BY DEF IInv, InvUnique, Holding
  <1> QED
    BY <1>2, <1>4, <1>5 DEF IInv

LEMMA CancelKeepsIInv ==
  ASSUME NEW j \in Jobs, IInv, TypeOK', Cancel(j)
  PROVE  IInv'
  <1>1. InvClosing'
    BY DEF IInv, InvClosing, Cancel, Quiet, NilPool, AllExited
  <1> QED
    BY <1>1, NoJobTouched DEF Cancel, Monotone, NilPool

LEMMA CloserKeepsIInv ==
  ASSUME NEW c \in Closers, IInv, TypeOK', CallClose(c) \/ CloserStep(c)
  PROVE  IInv'
  <1> USE DEF IInv, TypeOK, InvClosing, OnlyCloser, Quiet, NilPool, AllExited
  <1>1. CASE CallClose(c)
    BY <1>1 , NoJobTouched DEF CallClose, Monotone
  <1>2. CASE CloseClosed(c)
    BY <1>2, NoJobTouched DEF CloseClosed, Monotone
  <1>3. CASE CloseJobs(c)
    BY <1>3, NoJobTouched DEF CloseJobs, Monotone
  <1>4. CASE OnceIsDone(c)
    BY <1>4, NoJobTouched DEF OnceIsDone, Monotone
  <1>5. CASE CloseReturns(c)
    BY <1>5, NoJobTouched DEF CloseReturns, Monotone
  <1> QED
    BY <1>1, <1>2, <1>3, <1>4, <1>5 DEF CloserStep


(* A step of worker w concerns job j, which no other worker holds.         *)
LEMMA WorkerKeepsIInv ==
  ASSUME NEW w \in Workers, NEW j \in Jobs, IInv, TypeOK', OnlyWorker,
         NEW pc \in {"waiting", "took", "running", "sent"}, NEW job,
         worker[w].pc \notin {"absent", "exited"},
         worker'[w] = [pc |-> pc, job |-> job],
         \A v \in Workers \ {w} : worker'[v] = worker[v],
         \A v \in Workers \ {w} : Holding(v) => worker[v].job # j,
         \A i \in Jobs \ {j} : Untouched(i),
         JobInv(j)',
         IF pc = "waiting" THEN job = NoJob ELSE job = j /\ HeldInv(j, pc)'
  PROVE  IInv'
  <1>1. Monotone /\ ~NilPool
    BY DEF OnlyWorker, Monotone, NilPool
  <1>2. InvClosing'
    BY <1>1 DEF IInv, InvClosing, OnlyWorker, Quiet, Monotone, AllExited
  <1>3. InvJobs'
    BY <1>1, UntouchedJob DEF IInv, InvJobs
  <1>4. ASSUME NEW v \in Workers \ {w}
        PROVE  /\ (worker[v].job \in Jobs <=> Holding(v))'
               /\ (Holding(v) => HeldInv(worker[v].job, worker[v].pc))'
    <2> DEFINE at == worker[v].pc
               i  == worker[v].job
    <2>1. worker'[v] = worker[v]
      BY <1>4
    <2>2. worker[v].job \in Jobs <=> Holding(v)
      BY <1>4 DEF IInv, InvWorkers
    <2>3. CASE Holding(v)
      <3>1. i \in Jobs \ {j} /\ HeldInv(i, at)
        BY <1>4, <2>2, <2>3 DEF IInv, InvWorkers
      <3>2. HeldInv(i, at)'
        BY <1>1, <2>1, <3>1, ResolvedStable
           DEF Untouched, Monotone, HeldInv, Blank, CanSend
      <3> QED
        BY <2>1, <2>2, <3>2 DEF Holding
    <2> QED
      BY <2>1, <2>2, <2>3 DEF Holding
  <1>5. /\ (worker[w].job \in Jobs <=> Holding(w))'
        /\ (Holding(w) => HeldInv(worker[w].job, worker[w].pc))'
    <2>1. CASE pc = "waiting"
      BY <2>1, WorkerPoolAssumption DEF Holding
    <2>2. CASE pc # "waiting"
      BY <2>2 DEF Holding, HeldInv, Blank, CanSend, Resolved, Faithful
    <2> QED
      BY <2>1, <2>2
  <1>6. InvWorkers'
    BY <1>4, <1>5 DEF InvWorkers
  <1>7. InvUnique'
    BY <1>5 DEF IInv, InvUnique, Holding
  <1> QED
    BY <1>2, <1>3, <1>6, <1>7 DEF IInv

LEMMA WorkerStepKeepsIInv ==
  ASSUME NEW w \in Workers, IInv, TypeOK', WorkerStep(w)
  PROVE  IInv'
  <1>0. /\ TypeOK
        /\ worker[w].job \in Jobs <=> Holding(w)
        /\ Holding(w) => HeldInv(worker[w].job, worker[w].pc)
        /\ \A v \in Workers \ {w} :
             Holding(w) /\ Holding(v) => worker[v].job # worker[w].job
    BY DEF IInv, InvWorkers, InvUnique
  <1> USE DEF TypeOK, OnlyWorker
  <1>1. ASSUME NEW i \in Jobs, Receive(w, i) PROVE IInv'
    <2>1. JobInv(i)
      BY DEF IInv, InvJobs
    <2>2. \A v \in Workers : Holding(v) => worker[v].job # i
      BY <1>1 DEF Receive, IInv, InvWorkers, HeldInv
    <2>3. JobInv(i)' /\ HeldInv(i, "took")'
      BY <1>0, <1>1, <2>1 DEF Receive, JobInv, HeldInv, Blank, CanSend
    <2>4. worker'[w] = [pc |-> "took", job |-> i]
      BY <1>0, <1>1 DEF Receive
    <2>5. \A k \in Jobs \ {i} : Untouched(k)
      BY <1>0, <1>1 DEF Receive, Untouched
    <2>6. \A v \in Workers \ {w} : worker'[v] = worker[v]
      BY <1>0, <1>1 DEF Receive
    <2>7. worker[w].pc = "waiting"
      BY <1>1 DEF Receive
    <2> QED
      BY <1>1, <2>2, <2>3, <2>4, <2>5, <2>6, <2>7, WorkerKeepsIInv
         DEF Receive, Holding
  <1>2. CASE Exit(w)
    <2>1. Monotone /\ ~NilPool /\ \A i \in Jobs : Untouched(i)
      BY <1>0, <1>2 DEF Exit, Monotone, NilPool, Untouched
    <2>2. InvClosing'
      BY <1>2, <2>1 DEF Exit, IInv, InvClosing, Quiet, Monotone, AllExited
    <2>3. InvJobs'
      BY <2>1, UntouchedJob DEF IInv, InvJobs
    <2>4. ASSUME NEW v \in Workers, Holding(v)'
          PROVE  HeldInv(worker[v].job, worker[v].pc)'
      <3> DEFINE pc == worker[v].pc
                 i  == worker[v].job
      <3>1. Holding(v) /\ worker'[v] = worker[v]
        BY <1>0, <1>2, <2>4 DEF Exit, Holding
      <3>2. i \in Jobs /\ HeldInv(i, pc)
        BY <3>1 DEF IInv, InvWorkers
      <3> QED
        BY <2>1, <3>1, <3>2, ResolvedStable
           DEF Untouched, Monotone, HeldInv, Blank, CanSend
    <2>5. InvWorkers'
      BY <1>0, <1>2, <2>4 DEF Exit, IInv, InvWorkers, Holding
    <2>6. InvUnique'
      BY <1>0, <1>2 DEF Exit, IInv, InvUnique, Holding
    <2> QED
      BY <2>2, <2>3, <2>5, <2>6 DEF IInv
  <1>3. ASSUME NEW j \in Jobs, worker[w].job = j, Refuse(w) PROVE IInv'
    <2>1. Holding(w) /\ HeldInv(j, "took")
      BY <1>0, <1>3 DEF Refuse, Holding
    <2>2. result' = [result EXCEPT ![j].value = "cancelled"]
      BY <1>3 DEF Refuse, Send
    <2>3. Resolved(j)'
      BY <1>0, <1>3, <2>1, <2>2, SendResolves
         DEF Refuse, HeldInv, Blank, Faithful, Outcomes
    <2>4. JobInv(j)' /\ HeldInv(j, "sent")'
      BY <1>0, <1>3, <2>1, <2>2, <2>3
         DEF Refuse, JobInv, HeldInv, Blank, CanSend
    <2>5. \A i \in Jobs \ {j} : Untouched(i)
      BY <1>0, <1>3, <2>2 DEF Refuse, Untouched
    <2>6. worker'[w] = [pc |-> "sent", job |-> j]
      BY <1>0, <1>3 DEF Refuse
    <2>7. \A v \in Workers \ {w} : worker'[v] = worker[v]
      BY <1>0, <1>3 DEF Refuse
    <2> QED
      BY <1>0, <1>3, <2>1, <2>4, <2>5, <2>6, <2>7, WorkerKeepsIInv
         DEF Refuse, Holding
  <1>4. ASSUME NEW j \in Jobs, worker[w].job = j, Call(w) PROVE IInv'
    <2>1. Holding(w) /\ HeldInv(j, "took")
      BY <1>0, <1>4 DEF Call, Holding
    <2>2. calls' = [calls EXCEPT ![j] = calls[j] + 1]
      BY <1>4 DEF Call
    <2>3. calls'[j] = 1
      BY <1>0, <2>1, <2>2 DEF HeldInv
    <2>4. JobInv(j)' /\ HeldInv(j, "running")'
      BY <1>0, <1>4, <2>1, <2>3 DEF Call, JobInv, HeldInv, Blank, CanSend
    <2>5. \A i \in Jobs \ {j} : Untouched(i)
      BY <1>0, <1>4, <2>2 DEF Call, Untouched
    <2>6. worker'[w] = [pc |-> "running", job |-> j]
      BY <1>0, <1>4 DEF Call
    <2>7. \A v \in Workers \ {w} : worker'[v] = worker[v]
      BY <1>0, <1>4 DEF Call
    <2>8. worker[w].pc = "took" /\ worker[w].job = j /\ OnlyWorker
      BY <1>4 DEF Call
    <2> QED
      <3>1. \A v \in Workers \ {w} : Holding(v) => worker[v].job # j
        BY <1>0, <2>1, <2>8
      <3> HIDE DEF TypeOK, OnlyWorker
      <3> QED
        BY <2>4, <2>5, <2>6, <2>7, <2>8, <3>1, WorkerKeepsIInv
  <1>5. ASSUME NEW j \in Jobs, worker[w].job = j, CallReturns(w) PROVE IInv'
    <2>1. Holding(w) /\ HeldInv(j, "running")
      BY <1>0, <1>5 DEF CallReturns, Holding
    <2>2. result' = [result EXCEPT ![j].value = "ran"]
      BY <1>5 DEF CallReturns, Send
    <2>3. Resolved(j)'
      BY <1>0, <1>5, <2>1, <2>2, SendResolves
         DEF CallReturns, HeldInv, Blank, Faithful, Outcomes
    <2>4. JobInv(j)' /\ HeldInv(j, "sent")'
      BY <1>0, <1>5, <2>1, <2>2, <2>3
         DEF CallReturns, JobInv, HeldInv, Blank, CanSend
    <2>5. \A i \in Jobs \ {j} : Untouched(i)
      BY <1>0, <1>5, <2>2 DEF CallReturns, Untouched
    <2>6. worker'[w] = [pc |-> "sent", job |-> j]
      BY <1>0, <1>5 DEF CallReturns
    <2>7. \A v \in Workers \ {w} : worker'[v] = worker[v]
      BY <1>0, <1>5 DEF CallReturns
    <2> QED
      BY <1>0, <1>5, <2>1, <2>4, <2>5, <2>6, <2>7, WorkerKeepsIInv
         DEF CallReturns, Holding
  <1>6. ASSUME NEW j \in Jobs, worker[w].job = j, CloseResult(w) PROVE IInv'
    <2>1. Holding(w) /\ HeldInv(j, "sent")
      BY <1>0, <1>6 DEF CloseResult, Holding
    <2>2. result' = [result EXCEPT ![j].closed = TRUE]
      BY <1>6 DEF CloseResult
    <2>3. Resolved(j)'
      BY <1>0, <1>6, <2>1, <2>2, ResolvedStable DEF CloseResult, HeldInv
    <2>4. JobInv(j)'
      BY <1>0, <1>6, <2>1, <2>3 DEF CloseResult, JobInv, HeldInv
    <2>5. \A i \in Jobs \ {j} : Untouched(i)
      BY <1>0, <1>6, <2>2 DEF CloseResult, Untouched
    <2>6. worker'[w] = [pc |-> "waiting", job |-> NoJob]
      BY <1>0, <1>6 DEF CloseResult
    <2>7. \A v \in Workers \ {w} : worker'[v] = worker[v]
      BY <1>0, <1>6 DEF CloseResult
    <2> QED
      BY <1>0, <1>6, <2>1, <2>4, <2>5, <2>6, <2>7, WorkerKeepsIInv,
         WorkerPoolAssumption DEF CloseResult, Holding
  <1>7. Holding(w) => worker[w].job \in Jobs
    BY <1>0
  <1> QED
    BY <1>1, <1>2, <1>3, <1>4, <1>5, <1>6, <1>7
       DEF WorkerStep, Holding, Refuse, Call, CallReturns, CloseResult

LEMMA IInvNext == IInv /\ [Next]_vars => IInv'
  <1> SUFFICES ASSUME IInv, [Next]_vars PROVE IInv'
    OBVIOUS
  <1>0. TypeOK'
    BY TypeNext DEF IInv
  <1>1. CASE UNCHANGED vars
    <2>1. InvClosing'
      BY <1>1 DEF vars, IInv, InvClosing, Quiet, NilPool, AllExited
    <2> QED
      BY <1>0, <1>1, <2>1, NoJobTouched DEF vars, Monotone, NilPool
  <1> QED
    BY <1>0, <1>1, SubmitStepKeepsIInv, WaitKeepsIInv, CancelKeepsIInv,
       WorkerStepKeepsIInv, CloserKeepsIInv DEF Next, Finished

LEMMA Inductive == Spec => []IInv
  BY IInvInit, IInvNext, PTL DEF Spec

(* No send to a result channel blocks or panics, and none is closed twice. *)
THEOREM ResultIsAlwaysOwned == Spec => []ResultIsOwned
  <1>1. IInv => ResultIsOwned
    BY DEF IInv, InvJobs, InvWorkers, JobInv, HeldInv, Holding, Blank,
       ResultIsOwned, TypeOK, SubmitPCs
  <1> QED
    BY <1>1, Inductive, PTL

(* The first Wait tells the truth and the later ones nothing.              *)
THEOREM WaitAlwaysTellsOutcome == Spec => []WaitTellsOutcome
  <1>1. IInv => WaitTellsOutcome
    <2> SUFFICES ASSUME IInv, NEW j \in Jobs, NEW k \in 1 .. MaxWaits,
                        k <= Len(got[j])
                 PROVE  IF k = 1 THEN Faithful(j, got[j][1]) ELSE got[j][k] = None
      BY DEF WaitTellsOutcome
    <2>1. got[j] # <<>>
      OBVIOUS
    <2>2. Resolved(j)
      BY <2>1 DEF IInv, InvJobs, JobInv, Blank, TypeOK, SubmitPCs
    <2>3. Len(got[j]) \in Nat
      BY DEF IInv, TypeOK
    <2> QED
      BY <2>1, <2>2, <2>3, WorkerPoolAssumption DEF Resolved
  <1> QED
    BY <1>1, Inductive, PTL

(* The once: while it runs, one Close is between the two channels, and     *)
(* none waits for the workers before both are closed.                      *)
InvOnce ==
  /\ closed /\ ~jobsClosed => \E c \in Closers : closer[c] = "closing"
  /\ \A c \in Closers : closer[c] = "waiting" => jobsClosed

(* Workers leave a closed pool only, and only a pool is sent jobs.         *)
InvLeft ==
  /\ \A w \in Workers : worker[w].pc = "exited" => closed
  /\ \A j \in Jobs : submit[j] = "sending" => ~NilPool

LEMMA OnceInit == Init => InvOnce /\ InvLeft
  BY DEF Init, InvOnce, InvLeft

LEMMA OnceNext ==
  ASSUME IInv, InvOnce, [Next]_vars
  PROVE  InvOnce'
  <1> USE DEF IInv, TypeOK, InvOnce
  <1>1. ASSUME UNCHANGED <<closed, jobsClosed, closer>> PROVE InvOnce'
    BY <1>1
  <1>2. ASSUME NEW c \in Closers, CallClose(c) PROVE InvOnce'
    BY <1>2 DEF CallClose
  <1>3. ASSUME NEW c \in Closers, CloseClosed(c) PROVE InvOnce'
    BY <1>3 DEF CloseClosed, InvClosing
  <1>4. ASSUME NEW c \in Closers, CloseJobs(c) PROVE InvOnce'
    BY <1>4 DEF CloseJobs
  <1>5. ASSUME NEW c \in Closers, OnceIsDone(c) PROVE InvOnce'
    BY <1>5 DEF OnceIsDone
  <1>6. ASSUME NEW c \in Closers, CloseReturns(c) PROVE InvOnce'
    BY <1>6 DEF CloseReturns
  <1>7. ASSUME NEW j \in Jobs, SubmitStep(j) \/ Wait(j) \/ Cancel(j)
        PROVE  InvOnce'
    BY <1>1, <1>7 DEF SubmitStep, Wait, Cancel, OnlySubmit, SubmitInline,
       InlineReturns, SubmitRefused, SubmitSends, SendPanics
  <1>8. ASSUME NEW w \in Workers, WorkerStep(w) PROVE InvOnce'
    BY <1>1, <1>8 DEF WorkerStep, OnlyWorker, Receive, Exit, Refuse, Call,
       CallReturns, CloseResult
  <1> QED
    BY <1>1, <1>2, <1>3, <1>4, <1>5, <1>6, <1>7, <1>8
    DEF Next, CloserStep, Finished, vars

LEMMA LeftNext ==
  ASSUME IInv, InvLeft, [Next]_vars
  PROVE  InvLeft'
  <1> USE DEF IInv, TypeOK, InvLeft, NilPool
  <1>1. ASSUME UNCHANGED <<closed, submit, worker>> PROVE InvLeft'
    BY <1>1
  <1>2. ASSUME NEW j \in Jobs, SubmitStep(j) PROVE InvLeft'
    BY <1>2 DEF SubmitStep, OnlySubmit, SubmitInline, InlineReturns,
       SubmitRefused, SubmitSends, SendPanics
  <1>3. ASSUME NEW w \in Workers, NEW j \in Jobs, Receive(w, j) PROVE InvLeft'
    BY <1>3 DEF Receive, OnlyWorker
  <1>4. ASSUME NEW w \in Workers, Exit(w) PROVE InvLeft'
    BY <1>4 DEF Exit, OnlyWorker, InvClosing
  <1>5. ASSUME NEW w \in Workers,
               Refuse(w) \/ Call(w) \/ CallReturns(w) \/ CloseResult(w)
        PROVE  InvLeft'
    <2>1. CASE Refuse(w)
      BY <2>1 DEF Refuse, OnlyWorker
    <2>2. CASE Call(w)
      BY <2>2 DEF Call, OnlyWorker
    <2>3. CASE CallReturns(w)
      BY <2>3 DEF CallReturns, OnlyWorker
    <2>4. CASE CloseResult(w)
      BY <2>4 DEF CloseResult, OnlyWorker
    <2> QED
      BY <1>5, <2>1, <2>2, <2>3, <2>4
  <1>6. ASSUME NEW c \in Closers, CallClose(c) \/ CloserStep(c) PROVE InvLeft'
    BY <1>6 DEF CallClose, CloserStep, CloseClosed, CloseJobs, OnceIsDone,
       CloseReturns, OnlyCloser
  <1> QED
    BY <1>1, <1>2, <1>3, <1>4, <1>5, <1>6
    DEF Next, WorkerStep, Wait, Cancel, Finished, vars

(* Nobody is left blocked with no one to unblock it: a send has a worker   *)
(* or a Close about to make it panic, a Close behind the once has the one  *)
(* that runs it, and one behind the wait group has closed both channels.   *)
THEOREM NobodyIsEverStranded == Spec => []NobodyIsStranded
  <1>1. IInv /\ InvOnce /\ InvLeft => NobodyIsStranded
    <2> SUFFICES ASSUME IInv, InvOnce, InvLeft PROVE NobodyIsStranded
      OBVIOUS
    <2>1. AllExited /\ ~NilPool => closed
      BY DEF AllExited, NilPool, InvLeft
    <2> QED
      BY <2>1 DEF InvOnce, InvLeft, IInv, InvClosing, NobodyIsStranded
  <1>2. InvOnce /\ InvLeft /\ IInv /\ [Next]_vars => InvOnce' /\ InvLeft'
    BY OnceNext, LeftNext
  <1> QED
    BY <1>1, <1>2, OnceInit, Inductive, PTL DEF Spec

-----------------------------------------------------------------------------
(* WorkerPool implements JobPool.                                          *)
phases   == [j \in Jobs |-> Phase(j)]
outcomes == [j \in Jobs |-> Outcome(j)]

Running(j) == \E w \in Workers : RunsOn(w, j)

(* A job whose state is unchanged and whose function is run by a worker if *)
(* and only if it was, is in the same phase.                               *)
LEMMA SamePhase ==
  ASSUME NEW j \in Jobs, Untouched(j), Running(j)' <=> Running(j)
  PROVE  Phase(j)' = Phase(j) /\ Outcome(j)' = Outcome(j)
  BY DEF Untouched, Phase, Outcome, Sent, Running

LEMMA OneChanges ==
  ASSUME NEW j \in Jobs,
         \A i \in Jobs \ {j} : Phase(i)' = Phase(i) /\ Outcome(i)' = Outcome(i)
  PROVE  /\ phases' = [phases EXCEPT ![j] = Phase(j)']
         /\ outcomes' = [outcomes EXCEPT ![j] = Outcome(j)']
  BY DEF phases, outcomes

LEMMA NoneChanges ==
  ASSUME \A i \in Jobs : Phase(i)' = Phase(i) /\ Outcome(i)' = Outcome(i)
  PROVE  phases' = phases /\ outcomes' = outcomes
  BY DEF phases, outcomes

LEMMA QuietInv == IInv => (Quiet => AllExited /\ closed)
  BY DEF IInv, InvClosing

LEMMA BlankPhase ==
  ASSUME NEW j \in Jobs, Blank(j)
  PROVE  /\ Outcome(j) = "none"
         /\ Phase(j) = IF submit[j] = "inline" \/ Running(j) THEN "running"
                       ELSE IF submit[j] = "idle" THEN "new" ELSE "pending"
  BY DEF Blank, CanSend, Phase, Outcome, Sent, Running, None

LEMMA SentPhase ==
  ASSUME NEW j \in Jobs, NEW o \in Outcomes, result[j].value = o
  PROVE  Outcome(j) = o /\ Phase(j) = "resolved"
  BY DEF Phase, Outcome, Sent, None, Outcomes

LEMMA RefInit == Init => Promise!Init
  <1> SUFFICES ASSUME Init PROVE Promise!Init
    OBVIOUS
  <1>1. PICK started \in SUBSET Workers :
          worker = [w \in Workers |->
                      [pc |-> IF w \in started THEN "waiting" ELSE "absent",
                       job |-> NoJob]]
    BY DEF Init
  <1>2. \A j \in Jobs : ~Running(j)
    BY <1>1 DEF Running, RunsOn
  <1>3. \A j \in Jobs : Blank(j) /\ submit[j] = "idle"
    BY DEF Init, Blank, CanSend
  <1>4. \A j \in Jobs : Phase(j) = "new" /\ Outcome(j) = "none"
    BY <1>2, <1>3, BlankPhase
  <1>5. ~Quiet
    BY DEF Init, Quiet
  <1> QED
    BY <1>4, <1>5 DEF Promise!Init, Init

Ref == [Promise!Next]_(Promise!jobPoolVars)

(* The three ways to move one job on are steps of the promise.             *)
LEMMA MapsToRun ==
  ASSUME NEW j \in Jobs, Phase(j) \in {"new", "pending"}, Outcome(j) = "none", ~Quiet, Quiet' = Quiet,
         phases' = [phases EXCEPT ![j] = "running"],
         outcomes' = [outcomes EXCEPT ![j] = "none"],
         UNCHANGED <<cancelled, closed>>
  PROVE  Ref
  <1>1. outcomes' = outcomes
    BY DEF outcomes
  <1>2. Promise!Run(j)
    BY <1>1 DEF Promise!Run, phases, outcomes
  <1> QED
    BY <1>2 DEF Ref, Promise!Next

LEMMA MapsToResolve ==
  ASSUME NEW j \in Jobs, NEW o \in Outcomes,
         \/ o = "ran"       /\ Phase(j) = "running"
         \/ o = "cancelled" /\ Phase(j) \in {"new", "pending"} /\ j \in cancelled
         \/ o = "closed"    /\ Phase(j) \in {"new", "pending"} /\ closed,
         phases' = [phases EXCEPT ![j] = "resolved"],
         outcomes' = [outcomes EXCEPT ![j] = o],
         UNCHANGED <<cancelled, closed>>, Quiet' = Quiet
  PROVE  Ref
  <1>1. Promise!Justified(j, o)
    BY DEF Promise!Justified, phases
  <1>2. Promise!Resolve(j, o)
    BY <1>1 DEF Promise!Resolve, phases, outcomes
  <1> QED
    BY <1>2 DEF Ref, Promise!Next, Promise!Outcomes, Outcomes

LEMMA MapsToStutter ==
  ASSUME phases' = phases, outcomes' = outcomes,
         UNCHANGED <<cancelled, closed>>, Quiet' = Quiet
  PROVE  Ref
  BY DEF Ref, Promise!jobPoolVars, phases, outcomes

(* A worker only runs the function of a job whose Submit has returned.     *)
LEMMA NotRunning ==
  ASSUME NEW j \in Jobs, IInv, submit[j] # "returned"
  PROVE  ~Running(j)
  BY DEF IInv, InvWorkers, HeldInv, Holding, Running, RunsOn

LEMMA RefSubmit ==
  ASSUME NEW j \in Jobs, IInv, SubmitStep(j)
  PROVE  Ref
  <1>0. /\ TypeOK /\ JobInv(j) /\ (jobsClosed => closed)
        /\ Quiet' = Quiet
        /\ UNCHANGED <<cancelled, closed>>
    BY DEF IInv, InvJobs, InvClosing, SubmitStep, SubmitInline, InlineReturns,
       SubmitRefused, SubmitSends, SendPanics, OnlySubmit, Quiet, NilPool
  <1>1. \A i \in Jobs : Running(i)' <=> Running(i)
    BY DEF Running, RunsOn, SubmitStep, SubmitInline, InlineReturns,
       SubmitRefused, SubmitSends, SendPanics, OnlySubmit
  <1>2. \A i \in Jobs \ {j} : Untouched(i)
    BY <1>0 DEF Untouched, SubmitStep, SubmitInline, InlineReturns,
       SubmitRefused, SubmitSends, SendPanics, SendAndClose, OnlySubmit, TypeOK
  <1>3. /\ phases' = [phases EXCEPT ![j] = Phase(j)']
        /\ outcomes' = [outcomes EXCEPT ![j] = Outcome(j)']
    BY <1>1, <1>2, SamePhase, OneChanges
  <1>4. submit[j] # "returned" /\ Blank(j)
    BY <1>0 DEF JobInv, SubmitStep, SubmitInline, InlineReturns, SubmitRefused,
       SubmitSends, SendPanics
  <1>5. /\ ~Running(j) /\ ~Running(j)' /\ Outcome(j) = "none"
        /\ Phase(j) = IF submit[j] = "inline" THEN "running"
                      ELSE IF submit[j] = "idle" THEN "new" ELSE "pending"
    BY <1>1, <1>4, NotRunning, BlankPhase
  <1>6. ASSUME Blank(j)', submit'[j] \in {"inline", "sending"}
        PROVE  /\ Outcome(j)' = "none"
               /\ Phase(j)' = IF submit'[j] = "inline" THEN "running" ELSE "pending"
    BY <1>5, <1>6 DEF Blank, CanSend, Phase, Outcome, Sent, Running, None
  <1>7. ASSUME NEW o \in Outcomes, SendAndClose(j, o)
        PROVE  Phase(j)' = "resolved" /\ Outcome(j)' = o
    BY <1>0, <1>7 DEF TypeOK, SendAndClose, Phase, Outcome, Sent, Outcomes, None
  <1>8. CASE SubmitInline(j)
    <2>1. Blank(j)' /\ submit'[j] = "inline" /\ submit[j] = "idle"
      BY <1>0, <1>4, <1>8 DEF SubmitInline, OnlySubmit, Blank, CanSend, TypeOK
    <2>2. ~Quiet
      BY <1>8 DEF SubmitInline, Quiet
    <2> QED
      BY <1>0, <1>3, <1>5, <1>6, <2>1, <2>2, MapsToRun
  <1>9. CASE InlineReturns(j)
    BY <1>0, <1>3, <1>5, <1>7, <1>9, MapsToResolve DEF InlineReturns, Outcomes
  <1>10. ASSUME NEW o \in Outcomes, SubmitRefused(j, o) PROVE Ref
    BY <1>0, <1>3, <1>5, <1>7, <1>10, MapsToResolve DEF SubmitRefused
  <1>11. CASE SubmitSends(j)
    <2>1. Blank(j)' /\ submit'[j] = "sending" /\ submit[j] = "idle"
      BY <1>0, <1>4, <1>11 DEF SubmitSends, OnlySubmit, Blank, CanSend, TypeOK
    <2>2. phases[j] = "new" /\ phases' = [phases EXCEPT ![j] = "pending"]
      BY <1>3, <1>5, <1>6, <2>1 DEF phases
    <2>3. outcomes' = outcomes
      BY <1>3, <1>5, <1>6, <2>1 DEF outcomes
    <2>4. Promise!Submit(j)
      BY <1>0, <2>2, <2>3 DEF Promise!Submit, phases, outcomes
    <2> QED
      BY <2>4 DEF Ref, Promise!Next
  <1>12. CASE SendPanics(j)
    BY <1>0, <1>3, <1>5, <1>7, <1>12, MapsToResolve DEF SendPanics, Outcomes
  <1> QED
    BY <1>8, <1>9, <1>10, <1>11, <1>12 DEF SubmitStep

LEMMA RefWait ==
  ASSUME NEW j \in Jobs, IInv, Wait(j)
  PROVE  Ref
  <1>0. TypeOK /\ Resolved(j) /\ UNCHANGED <<cancelled, closed>>
    BY WaitKeepsResolved DEF IInv, Wait
  <1>1. \A i \in Jobs : Running(i)' <=> Running(i)
    BY DEF Running, RunsOn, Wait
  <1>2. \A i \in Jobs \ {j} : Untouched(i)
    BY <1>0 DEF Untouched, Wait, TypeOK
  <1>3. got'[j] = Append(got[j], result[j].value) /\ result'[j].value = None
    BY <1>0 DEF Wait, TypeOK
  <1>4. got'[j] # <<>> /\ got'[j][1] = IF got[j] = <<>> THEN result[j].value
                                                       ELSE got[j][1]
    <2>1. got[j] \in Seq(Outcomes \cup {None})
      BY <1>0 DEF TypeOK
    <2> QED
      BY <1>3, <2>1
  <1>5. Phase(j) = "resolved" /\ Phase(j)' = "resolved" /\ Outcome(j)' = Outcome(j)
    BY <1>0, <1>3, <1>4 DEF Phase, Outcome, Sent, Resolved, Outcomes, None
  <1>6. phases' = phases /\ outcomes' = outcomes
    BY <1>1, <1>2, <1>5, SamePhase, NoneChanges
  <1>7. Quiet' = Quiet
    BY DEF Wait, Quiet, NilPool
  <1> QED
    BY <1>0, <1>6, <1>7, MapsToStutter

LEMMA AllSame ==
  ASSUME UNCHANGED <<submit, result, got, calls>>, worker' = worker
  PROVE  phases' = phases /\ outcomes' = outcomes
  <1>1. \A i \in Jobs : Untouched(i) /\ (Running(i)' <=> Running(i))
    BY DEF Untouched, Running, RunsOn
  <1> QED
    BY <1>1, SamePhase, NoneChanges

LEMMA RefCancel ==
  ASSUME NEW j \in Jobs, Cancel(j)
  PROVE  Ref
  <1>1. phases' = phases /\ outcomes' = outcomes
    BY AllSame DEF Cancel
  <1>2. Quiet' = Quiet
    BY DEF Cancel, Quiet, NilPool
  <1>3. Promise!Cancel(j)
    BY <1>1, <1>2 DEF Cancel, Promise!Cancel, phases, outcomes
  <1> QED
    BY <1>3 DEF Ref, Promise!Next

LEMMA RefCloser ==
  ASSUME NEW c \in Closers, IInv, CallClose(c) \/ CloserStep(c)
  PROVE  Ref
  <1>0. TypeOK /\ InvClosing
    BY DEF IInv
  <1>1. phases' = phases /\ outcomes' = outcomes /\ cancelled' = cancelled /\ worker' = worker
    BY AllSame DEF CallClose, CloserStep, CloseClosed, CloseJobs, OnceIsDone,
       CloseReturns, OnlyCloser
  <1> USE DEF OnlyCloser, TypeOK, Quiet, NilPool
  <1>2. CASE CallClose(c)
    BY <1>0, <1>1, <1>2, MapsToStutter DEF CallClose
  <1>3. CASE CloseClosed(c)
    <2>1. Quiet' = Quiet
      BY <1>0, <1>3 DEF CloseClosed
    <2>2. Promise!Close
      BY <1>1, <1>3, <2>1 DEF CloseClosed, Promise!Close, phases, outcomes
    <2> QED
      BY <2>2 DEF Ref, Promise!Next
  <1>4. CASE CloseJobs(c)
    BY <1>0, <1>1, <1>4, MapsToStutter DEF CloseJobs
  <1>5. CASE OnceIsDone(c)
    BY <1>0, <1>1, <1>5, MapsToStutter DEF OnceIsDone
  <1>6. CASE CloseReturns(c)
    <2>1. CASE NilPool
      BY <1>0, <1>1, <1>6, <2>1, MapsToStutter DEF CloseReturns
    <2>2. CASE ~NilPool
      <3>0. \A j \in Jobs : submit[j] # "inline"
        BY <2>2 DEF IInv, InvJobs, JobInv
      <3>1. \A j \in Jobs : submit[j] # "inline" /\ ~Running(j)
        BY <1>6, <3>0 DEF CloseReturns, AllExited, Running, RunsOn
      <3>2. \A j \in Jobs : Phase(j) # "running"
        BY <3>1 DEF Phase, Running
      <3>3. Quiet' = TRUE /\ closed /\ closed' = closed
        BY <1>0, <1>6, <2>2 DEF CloseReturns, InvClosing
      <3>4. Promise!CloseReturns
        BY <1>1, <3>2, <3>3 DEF Promise!CloseReturns, phases, outcomes
      <3> QED
        BY <3>4 DEF Ref, Promise!Next
    <2> QED
      BY <2>1, <2>2
  <1> QED
    BY <1>2, <1>3, <1>4, <1>5, <1>6 DEF CloserStep


LEMMA RefWorker ==
  ASSUME NEW w \in Workers, IInv, IInv', WorkerStep(w)
  PROVE  Ref
  <1>0. TypeOK /\ TypeOK' /\ UNCHANGED <<cancelled, closed>>
    BY DEF IInv, WorkerStep, Receive, Exit, Refuse, Call, CallReturns,
       CloseResult, OnlyWorker
  <1>1. worker[w].pc \notin {"absent", "exited"} /\ ~NilPool /\ ~Quiet
    BY QuietInv DEF WorkerStep, Receive, Exit, Refuse, Call, CallReturns,
       CloseResult, AllExited, NilPool
  <1>2. \A v \in Workers \ {w} : worker'[v] = worker[v]
    BY <1>0 DEF TypeOK, WorkerStep, Receive, Exit, Refuse, Call, CallReturns,
       CloseResult
  <1>3. Quiet' = Quiet
    <2>1. worker'[w].pc # "absent"
      BY <1>0 DEF TypeOK, WorkerStep, Receive, Exit, Refuse, Call,
         CallReturns, CloseResult
    <2>2. ~NilPool' /\ closer' = closer
      BY <2>1 DEF NilPool, WorkerStep, Receive, Exit, Refuse, Call,
         CallReturns, CloseResult, OnlyWorker
    <2> QED
      BY <1>1, <2>2 DEF Quiet
  <1>4. \A i \in Jobs : worker[w].job # i /\ worker'[w].job # i =>
                           (Running(i)' <=> Running(i))
    BY <1>2 DEF Running, RunsOn
  <1>5. ASSUME NEW j \in Jobs, worker[w].job = j, Holding(w)
        PROVE  /\ HeldInv(j, worker[w].pc)
               /\ Running(j) <=> worker[w].pc = "running"
               /\ \A v \in Workers \ {w} : ~RunsOn(v, j) /\ ~RunsOn(v, j)'
    <2>1. \A v \in Workers \ {w} : ~RunsOn(v, j) /\ ~RunsOn(v, j)'
      BY <1>2, <1>5 DEF IInv, InvUnique, Holding, RunsOn
    <2>2. worker[w] = [pc |-> worker[w].pc, job |-> j]
      BY <1>0, <1>5 DEF TypeOK
    <2> QED
      BY <1>5, <2>1, <2>2 DEF IInv, InvWorkers, Running, RunsOn
  <1>6. ASSUME NEW i \in Jobs, Receive(w, i) PROVE Ref
    <2>1. submit[i] = "sending" /\ submit'[i] = "returned"
      BY <1>0, <1>6 DEF Receive, TypeOK
    <2>2. ~Running(i) /\ ~Running(i)'
      <3>1. ~Running(i)
        BY <2>1, NotRunning
      <3>2. worker'[w].pc = "took"
        BY <1>0, <1>6 DEF Receive, TypeOK
      <3> QED
        BY <1>2, <3>1, <3>2 DEF Running, RunsOn
    <2>3. Phase(i)' = Phase(i) /\ Outcome(i)' = Outcome(i)
      BY <1>6, <2>1, <2>2 DEF Receive, OnlyWorker, Phase, Outcome, Sent, Running
    <2>4. \A k \in Jobs \ {i} : Untouched(k) /\ (Running(k)' <=> Running(k))
      BY <1>0, <1>2, <1>6 DEF Receive, OnlyWorker, Untouched, TypeOK, Running, RunsOn
    <2>5. phases' = phases /\ outcomes' = outcomes
      BY <2>3, <2>4, SamePhase, NoneChanges
    <2> QED
      BY <1>0, <1>3, <2>5, MapsToStutter
  <1>7. CASE Exit(w)
    <2>1. \A k \in Jobs : Untouched(k) /\ (Running(k)' <=> Running(k))
      BY <1>0, <1>2, <1>7 DEF Exit, OnlyWorker, Untouched, TypeOK, Running, RunsOn
    <2>2. phases' = phases /\ outcomes' = outcomes
      BY <2>1, SamePhase, NoneChanges
    <2> QED
      BY <1>0, <1>3, <2>2, MapsToStutter
  <1> DEFINE Same(j) == \A k \in Jobs \ {j} : Phase(k)' = Phase(k) /\ Outcome(k)' = Outcome(k)
  <1>8. ASSUME NEW j \in Jobs, worker[w].job = j, Refuse(w) PROVE Ref
    <2>1. worker'[w] = [pc |-> "sent", job |-> j] /\ result'[j].value = "cancelled"
      BY <1>0, <1>8 DEF Refuse, Send, TypeOK
    <2>2. Blank(j) /\ submit[j] = "returned" /\ ~Running(j)
      BY <1>5, <1>8 DEF Refuse, Holding, HeldInv
    <2>3. Phase(j) = "pending" /\ Phase(j)' = "resolved" /\ Outcome(j)' = "cancelled"
      BY <2>1, <2>2, BlankPhase DEF Phase, Outcome, Sent, None
    <2>4. \A k \in Jobs \ {j} : Untouched(k) /\ (Running(k)' <=> Running(k))
      BY <1>0, <1>4, <1>8, <2>1 DEF Refuse, Send, OnlyWorker, Untouched, TypeOK
    <2>5. Same(j)
      BY <2>4, SamePhase
    <2> QED
      BY <1>0, <1>3, <1>8, <2>3, <2>5, OneChanges, MapsToResolve DEF Refuse, Outcomes
  <1>9. ASSUME NEW j \in Jobs, worker[w].job = j, Call(w) PROVE Ref
    <2>1. worker'[w] = [pc |-> "running", job |-> j] /\ UNCHANGED <<submit, result, got>>
      BY <1>0, <1>9 DEF Call, TypeOK, OnlyWorker
    <2>2. Blank(j) /\ submit[j] = "returned" /\ ~Running(j)
      BY <1>5, <1>9 DEF Call, Holding, HeldInv
    <2>3. Phase(j) = "pending" /\ Outcome(j) = "none"
      BY <2>2, BlankPhase
    <2>4. Phase(j)' = "running" /\ Outcome(j)' = "none"
      BY <2>1, <2>2 DEF Phase, Outcome, Sent, None, RunsOn, Blank, CanSend
    <2>5. \A k \in Jobs \ {j} : Untouched(k) /\ (Running(k)' <=> Running(k))
      BY <1>0, <1>4, <1>9, <2>1 DEF Call, OnlyWorker, Untouched, TypeOK
    <2>6. Same(j)
      BY <2>5, SamePhase
    <2> QED
      BY <1>0, <1>1, <1>3, <2>3, <2>4, <2>6, OneChanges, MapsToRun
  <1>10. ASSUME NEW j \in Jobs, worker[w].job = j, CallReturns(w) PROVE Ref
    <2>1. worker'[w] = [pc |-> "sent", job |-> j] /\ result'[j].value = "ran"
      BY <1>0, <1>10 DEF CallReturns, Send, TypeOK
    <2>2. Blank(j) /\ Running(j)
      BY <1>5, <1>10 DEF CallReturns, Holding, HeldInv
    <2>3. Phase(j) = "running" /\ Phase(j)' = "resolved" /\ Outcome(j)' = "ran"
      BY <2>1, <2>2, BlankPhase DEF Phase, Outcome, Sent, None
    <2>4. \A k \in Jobs \ {j} : Untouched(k) /\ (Running(k)' <=> Running(k))
      BY <1>0, <1>4, <1>10, <2>1 DEF CallReturns, Send, OnlyWorker, Untouched, TypeOK
    <2>5. Same(j)
      BY <2>4, SamePhase
    <2> QED
      BY <1>0, <1>3, <1>10, <2>3, <2>5, OneChanges, MapsToResolve DEF Outcomes
  <1>11. ASSUME NEW j \in Jobs, worker[w].job = j, CloseResult(w) PROVE Ref
    <2>1. Resolved(j)
      BY <1>5, <1>11 DEF CloseResult, Holding, HeldInv
    <2>2. result'[j].value = result[j].value /\ got' = got
      BY <1>0, <1>11 DEF CloseResult, OnlyWorker, TypeOK
    <2>3. Phase(j)' = Phase(j) /\ Outcome(j)' = Outcome(j)
      BY <2>1, <2>2 DEF Phase, Outcome, Sent, Resolved, Outcomes, None
    <2>4. worker'[w].job = NoJob
      BY <1>0, <1>11 DEF CloseResult, TypeOK
    <2>5. \A k \in Jobs \ {j} : Untouched(k) /\ (Running(k)' <=> Running(k))
      BY <1>0, <1>4, <1>11, <2>4, WorkerPoolAssumption
         DEF CloseResult, OnlyWorker, Untouched, TypeOK
    <2>6. phases' = phases /\ outcomes' = outcomes
      BY <2>3, <2>5, SamePhase, NoneChanges
    <2> QED
      BY <1>0, <1>3, <2>6, MapsToStutter
  <1>12. Holding(w) => worker[w].job \in Jobs
    BY DEF IInv, InvWorkers
  <1> QED
    BY <1>6, <1>7, <1>8, <1>9, <1>10, <1>11, <1>12
       DEF WorkerStep, Holding, Refuse, Call, CallReturns, CloseResult

LEMMA RefNext == IInv /\ IInv' /\ [Next]_vars => Ref
  <1> SUFFICES ASSUME IInv, IInv', [Next]_vars PROVE Ref
    OBVIOUS
  <1>1. CASE UNCHANGED vars
    BY <1>1, AllSame, MapsToStutter DEF vars, Quiet, NilPool
  <1> QED
    BY <1>1, RefSubmit, RefWait, RefCancel, RefWorker, RefCloser DEF Next, Finished

(* The pool, as its channels and goroutines implement it, keeps the promise *)
(* that JobPool states.                                                    *)
THEOREM PoolAlwaysKeepsPromise == Spec => PoolKeepsPromise
  <1>1. Init => Promise!Init
    BY RefInit
  <1>2. IInv /\ IInv' /\ [Next]_vars => [Promise!Next]_(Promise!jobPoolVars)
    BY RefNext DEF Ref
  <1> QED
    BY <1>1, <1>2, Inductive, PTL DEF Spec, PoolKeepsPromise, Promise!Spec

=============================================================================
