-------------------------- MODULE SchedulerProofs --------------------------
(* Theorems about Scheduler, for any groups, order, intervals and bounds.  *)
EXTENDS Scheduler, TLAPS

(* The type invariant in parts, one for each group of variables that many  *)
(* actions leave alone; and positions stay within the order while a group  *)
(* is looked up by them.                                                   *)
OutsideOK ==
  /\ tickIndex \in Nat
  /\ lastRun \in [Groups -> Nat]
  /\ policy \in [Groups -> Policies]
  /\ pool \in [state : {"none", "open", "closed"}, size : Nat]
  /\ config \in [pc : {"idle", "closing", "dropped"}, workers : Nat, left : Nat]
  /\ cancelled \subseteq 1 .. MaxCalls

TickerOK ==
  /\ pc \in {"idle", "groups", "running", "submit", "await", "commit"}
  /\ run \in Run
  /\ run.pos >= 1
  /\ pc \in {"running", "submit"} => run.pos \in DOMAIN Order

JobsOK ==
  /\ jobs \in Seq(Job)
  /\ \A i \in DOMAIN jobs : jobs[i].run.pos \in DOMAIN Order

ResultsOK ==
  /\ executed \subseteq Groups
  /\ handle \in Nat \ {0}
  /\ applied \in Seq(Command)
  /\ published \in Seq(Summary)

TypeInv == OutsideOK /\ TickerOK /\ JobsOK /\ ResultsOK

LEMMA TypeInvImpliesTypeOK == TypeInv => TypeOK
  BY DEF TypeInv, OutsideOK, TickerOK, JobsOK, ResultsOK, TypeOK

LEMMA UnchangedKeepsType ==
  /\ OutsideOK /\ UNCHANGED outside => OutsideOK'
  /\ TickerOK /\ UNCHANGED <<pc, run>> => TickerOK'
  /\ JobsOK /\ UNCHANGED jobs => JobsOK'
  /\ ResultsOK /\ UNCHANGED <<executed, handle, applied, published>> => ResultsOK'
  BY DEF OutsideOK, TickerOK, JobsOK, ResultsOK, outside, schedulerVars

(* Rolling a failed attempt back leaves the buffer as it was before.       *)
LEMMA RolledBackIsBefore ==
  ASSUME NEW r \in Run, NEW buf \in Seq(Command)
  PROVE  RolledBack(r, buf) = buf
  <1>1. ASSUME NEW cmd \in Command
        PROVE  /\ Len(Append(buf, cmd)) = Len(buf) + 1
               /\ SubSeq(Append(buf, cmd), 1, Len(buf)) = buf
    OBVIOUS
  <1>2. Deferred(r, FALSE) \in Command
    BY DEF Deferred, Command, Run
  <1>3. ~(Len(buf) >= Len(Append(buf, Deferred(r, FALSE))))
    BY <1>1, <1>2
  <1>4. RolledBack(r, buf) = SubSeq(Append(buf, Deferred(r, FALSE)), 1, Len(buf))
    BY <1>3 DEF RolledBack, Restore, Push
  <1> QED
    BY <1>1, <1>2, <1>4

(* One iteration of the loop over the systems: it belongs to the same call *)
(* and group, and the buffer grows by a command of a successful attempt,   *)
(* or not at all.                                                          *)
LEMMA SystemStepsLemma ==
  ASSUME NEW r \in Run, NEW s \in SystemSteps(r)
  PROVE  /\ s \in Run
         /\ s.call = r.call /\ s.tick = r.tick /\ s.pos = r.pos
         /\ s.buf = r.buf \/ s.buf = Append(r.buf, Deferred(r, TRUE))
  <1>1. r.buf \in Seq(Command) /\ r.next \in Nat /\ r.deferred \in SUBSET Command
    BY DEF Run
  <1>2. Deferred(r, TRUE) \in Command
    BY DEF Deferred, Command, Run
  <1>3. RolledBack(r, r.buf) = r.buf
    BY <1>1, RolledBackIsBefore
  <1>4. Succeeds(r, r.buf) \in Run /\ Fails(r, r.buf) \in Run
    <2> DEFINE cmd == Deferred(r, TRUE)
    <2>0. cmd \in Command
      BY <1>2
    <2> HIDE DEF cmd
    <2>1. /\ Append(r.buf, cmd) \in Seq(Command)
          /\ r.deferred \cup {cmd} \in SUBSET Command
          /\ r.next + 1 \in Nat
      <3>1. Append(r.buf, cmd) \in Seq(Command)
        BY <1>1, <2>0
      <3>2. r.deferred \cup {cmd} \in SUBSET Command
        BY <1>1, <2>0
      <3> QED
        BY <1>1, <3>1, <3>2
    <2> USE DEF cmd
    <2>2. Succeeds(r, r.buf) \in Run
      BY <2>1 DEF Succeeds, Push, Run
    <2>3. Fails(r, r.buf) \in Run
      BY <1>1, <1>3 DEF Fails, Run
    <2> QED
      BY <2>2, <2>3
  <1>5. \/ s = [r EXCEPT !.failed = TRUE]
        \/ s = [r EXCEPT !.next = @ + 1]
        \/ s = Succeeds(r, r.buf)
        \/ s = Fails(r, r.buf)
    BY <1>3 DEF SystemSteps
  <1>6. CASE s = [r EXCEPT !.failed = TRUE]
    BY <1>1, <1>6 DEF Run
  <1>7. CASE s = [r EXCEPT !.next = @ + 1]
    BY <1>1, <1>7 DEF Run
  <1>8. CASE s = Succeeds(r, r.buf)
    BY <1>1, <1>4, <1>8 DEF Succeeds, Push, Run
  <1>9. CASE s = Fails(r, r.buf)
    BY <1>1, <1>3, <1>4, <1>9 DEF Fails, Run
  <1> QED
    BY <1>5, <1>6, <1>7, <1>8, <1>9

-----------------------------------------------------------------------------
(* Steps on one part of the state.                                         *)

(* What Append makes of a sequence.                                        *)
LEMMA AppendFacts ==
  ASSUME NEW S, NEW s \in Seq(S), NEW e \in S
  PROVE  /\ Append(s, e) \in Seq(S)
         /\ DOMAIN s = 1 .. Len(s)
         /\ DOMAIN Append(s, e) = 1 .. Len(s) + 1
         /\ \A k \in DOMAIN Append(s, e) :
              \/ k = Len(s) + 1 /\ Append(s, e)[k] = e
              \/ k \in DOMAIN s /\ Append(s, e)[k] = s[k]
  OBVIOUS

(* A job that changes is still a job, at the same position of the order.   *)
LEMMA JobUpdateKeepsType ==
  ASSUME JobsOK, NEW i \in DOMAIN jobs, NEW job \in Job,
         job.run.pos = jobs[i].run.pos,
         jobs' = [jobs EXCEPT ![i] = job]
  PROVE  JobsOK'
  <1>1. jobs' \in Seq(Job) /\ DOMAIN jobs' = DOMAIN jobs
    BY DEF JobsOK
  <1>2. \A k \in DOMAIN jobs' : jobs'[k] = IF k = i THEN job ELSE jobs[k]
    BY <1>1 DEF JobsOK
  <1> QED
    BY <1>1, <1>2 DEF JobsOK

(* A part of a sequence that is applied leaves applied well typed.         *)
LEMMA ApplyKeepsType ==
  ASSUME NEW cmds \in Seq(Command), NEW done \in Nat, done <= Len(cmds),
         applied \in Seq(Command), ApplyCommands(cmds, done)
  PROVE  applied' \in Seq(Command)
  <1>1. SubSeq(cmds, 1, done) \in Seq(Command)
    OBVIOUS
  <1> QED
    BY <1>1 DEF ApplyCommands

(* The fields of a run, and the runs the ticker makes of one.              *)
LEMMA RunFields ==
  ASSUME NEW r \in Run
  PROVE  /\ r.call \in Nat /\ r.tick \in Nat /\ r.pos \in Nat /\ r.next \in Nat
         /\ r.failed \in BOOLEAN /\ r.buf \in Seq(Command)
         /\ r.deferred \in SUBSET Command
         /\ SummaryOf(r) \in Summary
  BY DEF Run, SummaryOf, Summary

LEMMA RunUpdates ==
  ASSUME NEW r \in Run, NEW failed \in BOOLEAN
  PROVE  /\ [r EXCEPT !.buf = <<>>] \in Run
         /\ [r EXCEPT !.pos = @ + 1] \in Run
         /\ [r EXCEPT !.next = 1, !.failed = FALSE] \in Run
         /\ [r EXCEPT !.next = 1, !.failed = failed, !.buf = <<>>,
                      !.deferred = {}] \in Run
  <1>1. <<>> \in Seq(Command) /\ {} \in SUBSET Command
    OBVIOUS
  <1>2. [r EXCEPT !.buf = <<>>] \in Run
    BY <1>1, RunFields DEF Run
  <1>3. [r EXCEPT !.pos = @ + 1] \in Run
    BY <1>1, RunFields DEF Run
  <1>4. [r EXCEPT !.next = 1, !.failed = FALSE] \in Run
    BY <1>1, RunFields DEF Run
  <1>5. [r EXCEPT !.next = 1, !.failed = failed, !.buf = <<>>, !.deferred = {}] \in Run
    BY <1>1, RunFields DEF Run
  <1> QED
    BY <1>2, <1>3, <1>4, <1>5

(* The type invariant holds initially and is kept by every step.           *)
LEMMA TypeInvInit == Init => TypeInv
  <1> SUFFICES ASSUME Init PROVE TypeInv
    OBVIOUS
  <1> USE SchedulerAssumption
  <1>1. run \in Run
    BY DEF Init, Run
  <1>2. pool \in [state : {"none", "open", "closed"}, size : Nat]
    BY DEF Init, NewPool
  <1>3. OutsideOK
    BY <1>2 DEF Init, OutsideOK
  <1>4. TickerOK
    BY <1>1 DEF Init, TickerOK
  <1>5. JobsOK /\ ResultsOK
    BY DEF Init, JobsOK, ResultsOK
  <1> QED
    BY <1>3, <1>4, <1>5 DEF TypeInv

LEMMA TickKeepsType ==
  ASSUME TypeInv, BeginTick \/ TickStep
  PROVE  TypeInv'
  <1> USE SchedulerAssumption
  <1>t. OutsideOK /\ TickerOK /\ JobsOK /\ ResultsOK
    BY DEF TypeInv
  <1>u. /\ UNCHANGED outside => OutsideOK'
        /\ UNCHANGED <<pc, run>> => TickerOK'
        /\ UNCHANGED jobs => JobsOK'
        /\ UNCHANGED <<executed, handle, applied, published>> => ResultsOK'
    BY <1>t, UnchangedKeepsType
  <1>q. OutsideOK' /\ TickerOK' /\ JobsOK' /\ ResultsOK' => TypeInv'
    BY DEF TypeInv
  <1>r. run \in Run /\ run.pos >= 1
    BY <1>t DEF TickerOK
  <1>0. /\ run.call \in Nat /\ run.tick \in Nat /\ run.pos \in Nat
        /\ run.next \in Nat /\ run.buf \in Seq(Command)
        /\ SummaryOf(run) \in Summary
    BY <1>r, RunFields
  <1>1. ASSUME Return PROVE TickerOK'
    <2>1. run' \in Run
      BY <1>r, <1>1, RunUpdates DEF Return
    <2> QED
      BY <1>r, <1>1, <2>1 DEF Return, TickerOK, Run
  <1>2. ASSUME Visit, pc' = "groups" PROVE TickerOK'
    <2>1. run' \in Run
      BY <1>r, <1>2, RunUpdates DEF Visit
    <2>2. run'.pos = run.pos + 1
      BY <1>r, <1>2 DEF Visit, Run
    <2> QED
      BY <1>0, <1>r, <1>2, <2>1, <2>2 DEF TickerOK
  <1>3. ASSUME AtGroup PROVE run.pos \in DOMAIN Order
    BY <1>0, <1>r, <1>3 DEF AtGroup
  <1>4. ASSUME pc = "running" PROVE Group(run) \in Groups
    BY <1>t, <1>4 DEF Group, TickerOK
  <1>5. CASE BeginTick
    <2>1. run' \in Run /\ run'.pos = 1
      BY <1>t, <1>0, <1>5 DEF BeginTick, Run, OutsideOK
    <2>2. TickerOK'
      BY <1>5, <2>1 DEF BeginTick, TickerOK
    <2>3. ResultsOK'
      BY <1>t, <1>5 DEF BeginTick, ResultsOK, FirstHandle, JobsOK
    <2> QED
      BY <1>u, <1>q, <1>5, <2>2, <2>3 DEF BeginTick
  <1>6. CASE AbandonTick
    BY <1>u, <1>q, <1>1, <1>6 DEF AbandonTick
  <1>7. CASE SkipGroup
    BY <1>u, <1>q, <1>2, <1>7 DEF SkipGroup, AtGroup
  <1>8. CASE StartGroup
    <2>1. run' \in Run
      BY <1>r, <1>8, RunUpdates DEF StartGroup
    <2>2. run'.pos = run.pos
      BY <1>r, <1>8 DEF StartGroup, Run
    <2>3. TickerOK'
      BY <1>r, <1>3, <1>8, <2>1, <2>2 DEF StartGroup, GroupDue, TickerOK
    <2> QED
      BY <1>u, <1>q, <1>8, <2>3 DEF StartGroup
  <1>9. CASE RunSystem
    <2>1. run' \in Run /\ run'.pos = run.pos
      BY <1>r, <1>9, SystemStepsLemma DEF RunSystem
    <2>2. TickerOK'
      BY <1>t, <1>9, <2>1 DEF RunSystem, TickerOK
    <2> QED
      BY <1>u, <1>q, <1>9, <2>2 DEF RunSystem
  <1>10. ASSUME GroupEnds, executed' = executed \/ executed' = executed \cup {Group(run)}
         PROVE  OutsideOK' /\ JobsOK' /\ ResultsOK'
    <2>1. published' \in Seq(Summary)
      BY <1>t, <1>0, <1>10 DEF GroupEnds, ResultsOK
    <2>2. executed' \subseteq Groups
      BY <1>t, <1>4, <1>10 DEF GroupEnds, ResultsOK
    <2> QED
      BY <1>t, <1>u, <1>10, <2>1, <2>2 DEF GroupEnds, ResultsOK
  <1>11. CASE GroupSucceeds
    BY <1>q, <1>2, <1>10, <1>11 DEF GroupSucceeds
  <1>12. CASE GroupFailureContinues
    BY <1>q, <1>2, <1>10, <1>12 DEF GroupFailureContinues
  <1>13. CASE GroupFailureAborts
    BY <1>q, <1>1, <1>10, <1>13 DEF GroupFailureAborts
  <1>14. CASE DispatchAsync
    <2>1. PICK stage \in JobStages, refused \in BOOLEAN : Dispatch(stage, refused)
      BY <1>14 DEF DispatchAsync, JobStages
    <2> DEFINE r == [run EXCEPT !.next = 1, !.failed = refused,
                                !.buf = <<>>, !.deferred = {}]
    <2> DEFINE job == [run |-> r, stage |-> stage, ran |-> stage = "inline"]
    <2>2. r \in Run
      BY <1>r, RunUpdates
    <2>3. r.pos = run.pos
      BY <1>r DEF Run
    <2> HIDE DEF r
    <2>4. job \in Job /\ job.run.pos = run.pos
      BY <2>2, <2>3 DEF Job
    <2>5. jobs' = Append(jobs, job)
      BY <2>1 DEF Dispatch, r
    <2> HIDE DEF job
    <2>6. jobs \in Seq(Job)
      BY <1>t DEF JobsOK
    <2>7. /\ jobs' \in Seq(Job)
          /\ \A k \in DOMAIN jobs' :
               \/ jobs'[k] = job
               \/ k \in DOMAIN jobs /\ jobs'[k] = jobs[k]
      <3>1. job \in Job
        BY <2>4
      <3>2. /\ Append(jobs, job) \in Seq(Job)
            /\ \A k \in DOMAIN Append(jobs, job) :
                 \/ k = Len(jobs) + 1 /\ Append(jobs, job)[k] = job
                 \/ k \in DOMAIN jobs /\ Append(jobs, job)[k] = jobs[k]
        BY <2>6, <3>1, AppendFacts
      <3> QED
        BY <2>5, <3>2
    <2>8. run.pos \in DOMAIN Order
      BY <1>3, <2>1 DEF Dispatch, GroupDue
    <2>9. JobsOK'
      BY <1>t, <2>4, <2>7, <2>8 DEF JobsOK
    <2>10. TickerOK'
      BY <1>t, <2>1, <2>8 DEF Dispatch, TickerOK
    <2> QED
      BY <1>u, <1>q, <2>1, <2>9, <2>10 DEF Dispatch
  <1>15. CASE SubmitReturns
    BY <1>u, <1>q, <1>2, <1>15 DEF SubmitReturns
  <1>16. CASE GroupsVisited
    <2>1. TickerOK'
      BY <1>t, <1>16 DEF GroupsVisited, TickerOK
    <2> QED
      BY <1>u, <1>q, <1>16, <2>1 DEF GroupsVisited
  <1>17. ASSUME NEW failed \in BOOLEAN, Awaited(failed)
         PROVE  /\ OutsideOK' /\ JobsOK'
                /\ jobs[handle].run.buf \in Seq(Command)
                /\ published' \in Seq(Summary)
                /\ Group(jobs[handle].run) \in Groups
                /\ handle \in Nat \ {0} /\ handle + 1 \in Nat \ {0}
    <2>1. handle \in DOMAIN jobs /\ jobs[handle] \in Job /\ handle \in Nat \ {0}
      BY <1>t, <1>17 DEF Awaited, JobsOK, ResultsOK
    <2>2. jobs[handle].run \in Run
      BY <2>1 DEF Job
    <2>3. /\ jobs[handle].run.buf \in Seq(Command)
          /\ SummaryOf(jobs[handle].run) \in Summary
      BY <2>2, RunFields
    <2>4. published' \in Seq(Summary)
      BY <1>t, <2>3, <1>17 DEF Awaited, ResultsOK
    <2>5. Group(jobs[handle].run) \in Groups
      BY <1>t, <2>1 DEF JobsOK, Group
    <2> QED
      BY <1>u, <1>17, <2>1, <2>3, <2>4, <2>5 DEF Awaited
  <1>18. CASE JobFailureContinues
    <2>1. Awaited(TRUE)
      BY <1>18 DEF JobFailureContinues
    <2>2. ResultsOK'
      BY <1>t, <1>17, <1>18, <2>1 DEF JobFailureContinues, ResultsOK
    <2> QED
      BY <1>u, <1>q, <1>17, <1>18, <2>1, <2>2 DEF JobFailureContinues
  <1>19. CASE JobFailureAborts
    <2>1. Awaited(TRUE)
      BY <1>19 DEF JobFailureAborts
    <2>2. ResultsOK'
      BY <1>t, <1>17, <1>19, <2>1 DEF JobFailureAborts, ResultsOK
    <2> QED
      BY <1>1, <1>q, <1>17, <1>19, <2>1, <2>2 DEF JobFailureAborts
  <1>20. CASE ApplyJob
    <2> DEFINE cmds == jobs[handle].run.buf
    <2>1. Awaited(FALSE) /\ ApplyCommands(cmds, Len(cmds))
      BY <1>20 DEF ApplyJob
    <2>2. cmds \in Seq(Command) /\ Len(cmds) \in Nat
      <3>1. cmds \in Seq(Command)
        BY <1>17, <2>1
      <3> QED
        BY <3>1
    <2>3. applied' \in Seq(Command)
      BY <1>t, <2>1, <2>2, ApplyKeepsType DEF ResultsOK
    <2>4. ResultsOK'
      BY <1>t, <1>17, <1>20, <2>1, <2>3 DEF ApplyJob, ResultsOK
    <2> QED
      BY <1>u, <1>q, <1>17, <1>20, <2>1, <2>4 DEF ApplyJob
  <1>21. CASE ApplyJobFails
    <2> DEFINE cmds == jobs[handle].run.buf
    <2>1. Awaited(FALSE) /\ Return /\ UNCHANGED <<executed, handle>>
      BY <1>21 DEF ApplyJobFails
    <2>2. cmds \in Seq(Command) /\ Len(cmds) \in Nat
      <3>1. cmds \in Seq(Command)
        BY <1>17, <2>1
      <3> QED
        BY <3>1
    <2>3. PICK done \in 0 .. Len(cmds) - 1 : ApplyCommands(cmds, done)
      BY <1>21 DEF ApplyJobFails
    <2>4. done \in Nat /\ done <= Len(cmds)
      BY <2>2, <2>3
    <2>5. applied' \in Seq(Command)
      BY <1>t, <2>2, <2>3, <2>4, ApplyKeepsType DEF ResultsOK
    <2>6. ResultsOK'
      BY <1>t, <1>17, <2>1, <2>5 DEF ResultsOK
    <2> QED
      BY <1>1, <1>q, <1>17, <2>1, <2>6
  <1>22. CASE ApplyBuffer
    <2>1. ApplyCommands(run.buf, Len(run.buf)) /\ Len(run.buf) \in Nat
      BY <1>0, <1>22 DEF ApplyBuffer
    <2>2. applied' \in Seq(Command)
      BY <1>t, <1>0, <2>1, ApplyKeepsType DEF ResultsOK
    <2>3. ResultsOK'
      BY <1>t, <1>22, <2>2 DEF ApplyBuffer, ResultsOK
    <2>4. run' \in Run
      BY <1>r, <1>22, RunUpdates DEF ApplyBuffer
    <2>5. TickerOK'
      BY <1>r, <1>22, <2>4 DEF ApplyBuffer, TickerOK, Run
    <2> QED
      BY <1>u, <1>q, <1>22, <2>3, <2>5 DEF ApplyBuffer
  <1>23. CASE ApplyBufferFails
    <2>1. PICK done \in 0 .. Len(run.buf) - 1 : ApplyCommands(run.buf, done)
      BY <1>23 DEF ApplyBufferFails
    <2>2. done \in Nat /\ done <= Len(run.buf)
      BY <1>0, <2>1
    <2>3. applied' \in Seq(Command)
      BY <1>t, <1>0, <2>1, <2>2, ApplyKeepsType DEF ResultsOK
    <2>4. ResultsOK'
      BY <1>t, <1>23, <2>3 DEF ApplyBufferFails, ResultsOK
    <2> QED
      BY <1>u, <1>q, <1>1, <1>23, <2>4 DEF ApplyBufferFails
  <1>24. CASE Commit
    <2>1. OutsideOK'
      BY <1>t, <1>0, <1>24 DEF Commit, OutsideOK
    <2> QED
      BY <1>u, <1>q, <1>1, <1>24, <2>1 DEF Commit
  <1> QED
    BY <1>5, <1>6, <1>7, <1>8, <1>9, <1>11, <1>12, <1>13, <1>14, <1>15, <1>16,
       <1>18, <1>19, <1>20, <1>21, <1>22, <1>23, <1>24 DEF TickStep

LEMMA RefusedIsJob ==
  ASSUME NEW job \in Job
  PROVE  Refused(job) \in Job /\ Refused(job).run.pos = job.run.pos
  BY DEF Refused, Job, JobStages, Run

LEMMA JobStepKeepsType ==
  ASSUME TypeInv, NEW i, JobStep(i)
  PROVE  TypeInv'
  <1>t. OutsideOK /\ TickerOK /\ JobsOK /\ ResultsOK
    BY DEF TypeInv
  <1>1. i \in DOMAIN jobs /\ OnlyJobs
    BY DEF JobStep, HandOver, RunJob, RefuseJob, SendJob, AcceptJob, CancelJob,
           StartJob, RunJobSystem, FinishJob
  <1>2. jobs \in Seq(Job) /\ jobs[i] \in Job
    BY <1>t, <1>1 DEF JobsOK
  <1>3. jobs[i].run \in Run
    BY <1>2 DEF Job
  <1>4. \E job \in Job : job.run.pos = jobs[i].run.pos /\ jobs' = [jobs EXCEPT ![i] = job]
    <2>1. CASE RefuseJob(i) \/ CancelJob(i)
      BY <1>2, <2>1, RefusedIsJob DEF RefuseJob, CancelJob
    <2>2. CASE SendJob(i)
      <3>1. [jobs[i] EXCEPT !.stage = "sending"] \in Job
        BY <1>2 DEF Job, JobStages
      <3> QED
        BY <1>1, <1>2, <2>2, <3>1 DEF SendJob, Job
    <2>3. CASE AcceptJob(i)
      <3>1. [jobs[i] EXCEPT !.stage = "accepted"] \in Job
        BY <1>2 DEF Job, JobStages
      <3> QED
        BY <1>1, <1>2, <2>3, <3>1 DEF AcceptJob, Job
    <2>4. CASE StartJob(i)
      <3>1. [jobs[i] EXCEPT !.stage = "running", !.ran = TRUE] \in Job
        BY <1>2 DEF Job, JobStages
      <3> QED
        BY <1>1, <1>2, <2>4, <3>1 DEF StartJob, Job
    <2>5. CASE RunJobSystem(i)
      <3>1. PICK r \in SystemSteps(jobs[i].run) : jobs' = [jobs EXCEPT ![i].run = r]
        BY <2>5 DEF RunJobSystem
      <3>2. r \in Run /\ r.pos = jobs[i].run.pos
        BY <1>3, SystemStepsLemma
      <3>3. [jobs[i] EXCEPT !.run = r] \in Job
        BY <1>2, <3>2 DEF Job
      <3> QED
        BY <1>1, <1>2, <3>1, <3>2, <3>3 DEF Job
    <2>6. CASE FinishJob(i)
      <3> DEFINE buf == IF jobs[i].run.failed THEN <<>> ELSE jobs[i].run.buf
      <3>1. buf \in Seq(Command)
        BY <1>3, RunFields
      <3> HIDE DEF buf
      <3>2. [jobs[i].run EXCEPT !.buf = buf] \in Run
        BY <1>3, <3>1 DEF Run
      <3>3. [jobs[i] EXCEPT !.stage = "done", !.run.buf = buf] \in Job
        BY <1>2, <3>2 DEF Job, JobStages
      <3>4. jobs' = [jobs EXCEPT ![i] = [jobs[i] EXCEPT !.stage = "done", !.run.buf = buf]]
        BY <1>1, <1>2, <2>6 DEF FinishJob, buf
      <3>5. [jobs[i] EXCEPT !.stage = "done", !.run.buf = buf].run.pos = jobs[i].run.pos
        BY <1>2, <1>3 DEF Job, Run
      <3> QED
        BY <3>3, <3>4, <3>5
    <2> QED
      BY <2>1, <2>2, <2>3, <2>4, <2>5, <2>6 DEF JobStep, HandOver, RunJob
  <1>5. JobsOK'
    BY <1>t, <1>1, <1>4, JobUpdateKeepsType
  <1> QED
    BY <1>t, <1>1, <1>5, UnchangedKeepsType DEF OnlyJobs, TypeInv

(* A caller of the builder or the owner of a context.                      *)
CallerStep ==
  \/ \E n \in WorkerCounts : CreatePool(n) \/ ClosePool(n)
  \/ DropPool \/ ReplacePool
  \/ \E g \in Groups, p \in Policies : WithErrorPolicy(g, p)
  \/ \E c \in 1 .. MaxCalls : Cancel(c)

LEMMA CallerKeepsType ==
  ASSUME TypeInv, CallerStep
  PROVE  TypeInv'
  <1> USE SchedulerAssumption
  <1>t. OutsideOK /\ TickerOK /\ JobsOK /\ ResultsOK
    BY DEF TypeInv
  <1>1. UNCHANGED <<pc, run, executed, handle, applied, published>>
    BY DEF CallerStep, CreatePool, ClosePool, DropPool, ReplacePool, OnlyPool,
           WithErrorPolicy, Cancel
  <1>2. TickerOK' /\ ResultsOK'
    BY <1>t, <1>1, UnchangedKeepsType
  <1>3. ASSUME NEW n \in Nat
        PROVE  NewPool(n) \in [state : {"none", "open", "closed"}, size : Nat]
    BY DEF NewPool
  <1>c. config.left > 0 =>
          [config EXCEPT !.left = @ - 1] \in
            [pc : {"idle", "closing", "dropped"}, workers : Nat, left : Nat]
    <2>1. config \in [pc : {"idle", "closing", "dropped"}, workers : Nat, left : Nat]
      BY <1>t DEF OutsideOK
    <2>2. config.left > 0 => config.left - 1 \in Nat
      BY <2>1
    <2> QED
      BY <2>1, <2>2
  <1>4. CASE \E n \in WorkerCounts : CreatePool(n)
    <2>1. PICK n \in WorkerCounts : CreatePool(n)
      BY <1>4
    <2>2. config' \in [pc : {"idle", "closing", "dropped"}, workers : Nat, left : Nat]
      BY <1>c, <2>1 DEF CreatePool
    <2>3. OutsideOK'
      BY <1>t, <1>3, <2>1, <2>2 DEF CreatePool, OnlyPool, OutsideOK, schedulerVars
    <2> QED
      BY <1>t, <1>2, <2>1, <2>3, UnchangedKeepsType DEF CreatePool, TypeInv
  <1>5. CASE \E n \in WorkerCounts : ClosePool(n)
    <2>1. PICK n \in WorkerCounts : ClosePool(n)
      BY <1>5
    <2>a. config' \in [pc : {"idle", "closing", "dropped"}, workers : Nat, left : Nat]
      BY <1>t, <2>1 DEF ClosePool, OutsideOK
    <2>b. pool' \in [state : {"none", "open", "closed"}, size : Nat]
      BY <1>t, <2>1 DEF ClosePool, OutsideOK
    <2>2. OutsideOK'
      BY <1>t, <2>1, <2>a, <2>b DEF ClosePool, OnlyPool, OutsideOK, schedulerVars
    <2>3. jobs \in Seq(Job) /\ DOMAIN jobs = 1 .. Len(jobs) /\ Len(jobs) \in Nat
      BY <1>t DEF JobsOK
    <2>4. \A k \in DOMAIN jobs :
            /\ jobs'[k] \in Job
            /\ jobs'[k].run.pos = jobs[k].run.pos
      BY <2>1, <2>3, RefusedIsJob DEF ClosePool
    <2>5. jobs' \in [1 .. Len(jobs) -> Job]
      BY <2>1, <2>3, <2>4 DEF ClosePool
    <2>6. jobs' \in Seq(Job) /\ DOMAIN jobs' = DOMAIN jobs
      BY <2>3, <2>5
    <2>7. JobsOK'
      BY <1>t, <2>4, <2>6 DEF JobsOK
    <2> QED
      BY <1>2, <2>2, <2>7 DEF TypeInv
  <1>9. CASE DropPool
    BY <1>t, <1>2, <1>3, <1>9, UnchangedKeepsType
       DEF DropPool, OnlyPool, OutsideOK, schedulerVars, TypeInv
  <1>6. CASE ReplacePool
    BY <1>t, <1>2, <1>3, <1>6, UnchangedKeepsType
       DEF ReplacePool, OnlyPool, OutsideOK, schedulerVars, TypeInv
  <1>7. CASE \E g \in Groups, p \in Policies : WithErrorPolicy(g, p)
    <2>1. PICK g \in Groups, p \in Policies : WithErrorPolicy(g, p)
      BY <1>7
    <2>2. config' \in [pc : {"idle", "closing", "dropped"}, workers : Nat, left : Nat]
      BY <1>c, <2>1 DEF WithErrorPolicy
    <2>3. policy' \in [Groups -> Policies]
      BY <1>t, <2>1 DEF WithErrorPolicy, OutsideOK
    <2>4. OutsideOK'
      BY <1>t, <2>1, <2>2, <2>3 DEF WithErrorPolicy, OutsideOK
    <2> QED
      BY <1>t, <1>2, <2>1, <2>4, UnchangedKeepsType DEF WithErrorPolicy, TypeInv
  <1>8. CASE \E c \in 1 .. MaxCalls : Cancel(c)
    BY <1>t, <1>2, <1>8, UnchangedKeepsType
       DEF Cancel, OutsideOK, schedulerVars, TypeInv
  <1> QED
    BY <1>4, <1>5, <1>6, <1>7, <1>8, <1>9 DEF CallerStep

LEMMA NextCases ==
  Next => \/ BeginTick \/ TickStep
          \/ \E i \in 1 .. MaxJobs : JobStep(i)
          \/ CallerStep
          \/ UNCHANGED vars
  BY DEF Next, CallerStep, Finished

LEMMA TypeInvStep == TypeInv /\ [Next]_vars => TypeInv'
  <1> SUFFICES ASSUME TypeInv, [Next]_vars PROVE TypeInv'
    OBVIOUS
  <1>1. CASE BeginTick \/ TickStep
    BY <1>1, TickKeepsType
  <1>2. CASE \E i \in 1 .. MaxJobs : JobStep(i)
    BY <1>2, JobStepKeepsType
  <1>3. CASE CallerStep
    BY <1>3, CallerKeepsType
  <1>4. CASE UNCHANGED vars
    BY <1>4, UnchangedKeepsType DEF vars, outside, schedulerVars, TypeInv
  <1> QED
    BY <1>1, <1>2, <1>3, <1>4, NextCases

LEMMA TypeInvariant == Spec => []TypeInv
  BY TypeInvInit, TypeInvStep, PTL DEF Spec

(* Every state of the scheduler is well typed, for any groups, order,      *)
(* intervals and numbers of workers, of calls and of reconfigurations.     *)
THEOREM TypeCorrect == Spec => []TypeOK
  BY TypeInvariant, TypeInvImpliesTypeOK, PTL

-----------------------------------------------------------------------------
(***************************************************************************)
(* Where the commands that a Tick applies come from.  The invariant        *)
(* follows the commands from the buffers they are deferred into to the     *)
(* world: every buffer only ever holds commands of successful attempts of  *)
(* the Tick call that filled it, and the ticker only looks at the jobs from*)
(* its handle on, which its own call has dispatched.                       *)
(***************************************************************************)
Good(buf, call) == \A k \in DOMAIN buf : buf[k].ok /\ buf[k].call = call

BufferGood == Good(run.buf, run.call)

JobsGood == \A i \in DOMAIN jobs : Good(jobs[i].run.buf, jobs[i].run.call)

HandlesOwn == \A i \in DOMAIN jobs : i >= handle => jobs[i].run.call = run.call

ResultsGood ==
  /\ Good(applied, run.call)
  /\ \A k \in DOMAIN published : published[k].call = run.call

OriginInv == BufferGood /\ JobsGood /\ HandlesOwn /\ ResultsGood

-----------------------------------------------------------------------------
(* Good buffers stay good: when a command of the same call is pushed, when *)
(* a part is taken, and when another one is appended.                      *)
LEMMA GoodPush ==
  ASSUME NEW buf \in Seq(Command), NEW call, Good(buf, call),
         NEW cmd \in Command, cmd.ok, cmd.call = call
  PROVE  Good(Append(buf, cmd), call)
  <1>1. \A k \in DOMAIN Append(buf, cmd) :
          \/ k = Len(buf) + 1 /\ Append(buf, cmd)[k] = cmd
          \/ k \in DOMAIN buf /\ Append(buf, cmd)[k] = buf[k]
    BY AppendFacts
  <1> QED
    BY <1>1 DEF Good

LEMMA GoodApply ==
  ASSUME NEW cmds \in Seq(Command), NEW done \in Nat, done <= Len(cmds),
         NEW call, applied \in Seq(Command), Good(applied, call),
         Good(cmds, call), ApplyCommands(cmds, done)
  PROVE  Good(applied', call)
  <1> DEFINE part == SubSeq(cmds, 1, done)
  <1>1. /\ part \in Seq(Command) /\ Len(part) = done
        /\ \A k \in 1 .. done : part[k] = cmds[k]
    OBVIOUS
  <1>2. Good(part, call)
    BY <1>1 DEF Good
  <1>3. applied' = applied \o part
    BY DEF ApplyCommands
  <1> HIDE DEF part
  <1>4. \A k \in DOMAIN (applied \o part) :
          \/ k \in DOMAIN applied /\ (applied \o part)[k] = applied[k]
          \/ k - Len(applied) \in DOMAIN part /\ (applied \o part)[k] = part[k - Len(applied)]
    BY <1>1
  <1> QED
    BY <1>2, <1>3, <1>4 DEF Good

LEMMA GoodSystemSteps ==
  ASSUME NEW r \in Run, Good(r.buf, r.call), NEW s \in SystemSteps(r)
  PROVE  Good(s.buf, s.call) /\ s.call = r.call
  <1>1. Deferred(r, TRUE) \in Command /\ Deferred(r, TRUE).ok
        /\ Deferred(r, TRUE).call = r.call
    BY RunFields DEF Deferred, Command
  <1>2. Good(Append(r.buf, Deferred(r, TRUE)), r.call)
    BY <1>1, RunFields, GoodPush
  <1> QED
    BY <1>2, SystemStepsLemma

(* The parts of the invariant that a step cannot disturb.                  *)
LEMMA UnchangedKeepsOrigin ==
  /\ BufferGood /\ run' = run => BufferGood'
  /\ JobsGood /\ UNCHANGED jobs => JobsGood'
  /\ HandlesOwn /\ UNCHANGED <<jobs, handle>> /\ run'.call = run.call => HandlesOwn'
  /\ ResultsGood /\ UNCHANGED <<applied, published>> /\ run'.call = run.call => ResultsGood'
  BY DEF BufferGood, JobsGood, HandlesOwn, ResultsGood, Good

-----------------------------------------------------------------------------
LEMMA OriginInit == Init => OriginInv
  BY DEF Init, OriginInv, BufferGood, JobsGood, HandlesOwn, ResultsGood, Good

(* A step of the ticker.                                                   *)
LEMMA TickKeepsOrigin ==
  ASSUME TypeInv, OriginInv, BeginTick \/ TickStep
  PROVE  OriginInv'
  <1>t. /\ OutsideOK /\ TickerOK /\ JobsOK /\ ResultsOK
        /\ BufferGood /\ JobsGood /\ HandlesOwn /\ ResultsGood
    BY DEF TypeInv, OriginInv
  <1>u. /\ run' = run => BufferGood'
        /\ UNCHANGED jobs => JobsGood'
        /\ UNCHANGED <<jobs, handle>> /\ run'.call = run.call => HandlesOwn'
        /\ UNCHANGED <<applied, published>> /\ run'.call = run.call => ResultsGood'
    BY <1>t, UnchangedKeepsOrigin
  <1>q. BufferGood' /\ JobsGood' /\ HandlesOwn' /\ ResultsGood' => OriginInv'
    BY DEF OriginInv
  <1>r. /\ run \in Run /\ run.buf \in Seq(Command) /\ run.call \in Nat
        /\ Len(run.buf) \in Nat
    <2>1. run \in Run
      BY <1>t DEF TickerOK
    <2> QED
      BY <2>1, RunFields
  <1>1. ASSUME Return PROVE BufferGood' /\ run'.call = run.call
    BY <1>r, <1>1 DEF Return, Run, BufferGood, Good
  <1>2. ASSUME Visit PROVE BufferGood' /\ run'.call = run.call
    BY <1>t, <1>r, <1>2 DEF Visit, Run, BufferGood, Good
  <1>5. CASE BeginTick
    <2>1. run'.buf = <<>> /\ applied' = <<>> /\ published' = <<>> /\ jobs' = jobs
          /\ handle' = Len(jobs) + 1
      BY <1>5 DEF BeginTick, FirstHandle
    <2>2. BufferGood' /\ ResultsGood'
      BY <2>1 DEF BufferGood, ResultsGood, Good
    <2>3. \A i \in DOMAIN jobs : ~(i >= Len(jobs) + 1)
      BY <1>t DEF JobsOK
    <2>4. HandlesOwn'
      BY <2>1, <2>3 DEF HandlesOwn
    <2> QED
      BY <1>u, <1>q, <2>1, <2>2, <2>4
  <1>6. CASE AbandonTick
    BY <1>u, <1>q, <1>1, <1>6 DEF AbandonTick
  <1>7. CASE SkipGroup
    BY <1>u, <1>q, <1>2, <1>7 DEF SkipGroup
  <1>8. CASE StartGroup
    <2>1. run'.buf = run.buf /\ run'.call = run.call
      BY <1>r, <1>8 DEF StartGroup, Run
    <2>2. BufferGood'
      BY <1>t, <2>1 DEF BufferGood, Good
    <2> QED
      BY <1>u, <1>q, <1>8, <2>1, <2>2 DEF StartGroup
  <1>9. CASE RunSystem
    <2>1. BufferGood' /\ run'.call = run.call
      BY <1>t, <1>r, <1>9, GoodSystemSteps DEF RunSystem, BufferGood
    <2> QED
      BY <1>u, <1>q, <1>9, <2>1 DEF RunSystem
  <1>p. ASSUME NEW r \in Run, r.call = run.call, run'.call = run.call,
               applied' = applied,
               \/ published' = Append(published, SummaryOf(r))
               \/ published' = published
        PROVE  ResultsGood'
    <2>1. published \in Seq(Summary) /\ SummaryOf(r) \in Summary
      BY <1>t, RunFields DEF ResultsOK
    <2>2. \A k \in DOMAIN Append(published, SummaryOf(r)) :
            \/ Append(published, SummaryOf(r))[k] = SummaryOf(r)
            \/ /\ k \in DOMAIN published
               /\ Append(published, SummaryOf(r))[k] = published[k]
      BY <2>1, AppendFacts
    <2>3. SummaryOf(r).call = run.call
      BY <1>p DEF SummaryOf
    <2>4. \A k \in DOMAIN published' : published'[k].call = run.call
      BY <1>t, <1>p, <2>2, <2>3 DEF ResultsGood
    <2> QED
      BY <1>t, <1>p, <2>4 DEF ResultsGood, Good
  <1>11. CASE GroupSucceeds
    BY <1>u, <1>q, <1>r, <1>2, <1>p, <1>11 DEF GroupSucceeds, GroupEnds
  <1>12. CASE GroupFailureContinues
    BY <1>u, <1>q, <1>r, <1>2, <1>p, <1>12 DEF GroupFailureContinues, GroupEnds
  <1>13. CASE GroupFailureAborts
    BY <1>u, <1>q, <1>r, <1>1, <1>p, <1>13 DEF GroupFailureAborts, GroupEnds
  <1>14. CASE DispatchAsync
    <2>1. PICK stage \in JobStages, refused \in BOOLEAN : Dispatch(stage, refused)
      BY <1>14 DEF DispatchAsync, JobStages
    <2> DEFINE r == [run EXCEPT !.next = 1, !.failed = refused,
                                !.buf = <<>>, !.deferred = {}]
    <2> DEFINE job == [run |-> r, stage |-> stage, ran |-> stage = "inline"]
    <2>2. r \in Run
      BY <1>r, RunUpdates
    <2>3. r.call = run.call /\ r.buf = <<>>
      BY <1>r DEF Run
    <2> HIDE DEF r
    <2>4. job \in Job /\ job.run.call = run.call /\ job.run.buf = <<>>
      BY <2>2, <2>3 DEF Job
    <2>5. jobs' = Append(jobs, job)
      BY <2>1 DEF Dispatch, r
    <2> HIDE DEF job
    <2>6. jobs \in Seq(Job)
      BY <1>t DEF JobsOK
    <2>7. \A k \in DOMAIN jobs' :
            \/ jobs'[k] = job
            \/ k \in DOMAIN jobs /\ jobs'[k] = jobs[k]
      <3>1. \A k \in DOMAIN Append(jobs, job) :
              \/ k = Len(jobs) + 1 /\ Append(jobs, job)[k] = job
              \/ k \in DOMAIN jobs /\ Append(jobs, job)[k] = jobs[k]
        BY <2>4, <2>6, AppendFacts
      <3> QED
        BY <2>5, <3>1
    <2>8. JobsGood'
      BY <1>t, <2>4, <2>7 DEF JobsGood, Good
    <2>9. run' = run /\ handle' = handle /\ UNCHANGED <<applied, published>>
      BY <2>1 DEF Dispatch
    <2>10. HandlesOwn'
      BY <1>t, <2>4, <2>7, <2>9 DEF HandlesOwn
    <2> QED
      BY <1>u, <1>q, <2>8, <2>9, <2>10
  <1>15. CASE SubmitReturns
    BY <1>u, <1>q, <1>2, <1>15 DEF SubmitReturns
  <1>16. CASE GroupsVisited
    BY <1>u, <1>q, <1>16 DEF GroupsVisited
  <1>17. ASSUME NEW failed \in BOOLEAN, Awaited(failed)
         PROVE  LET job == jobs[handle]
                IN  /\ job.run \in Run /\ job.run.call = run.call
                    /\ job.run.buf \in Seq(Command)
                    /\ Good(job.run.buf, run.call)
                    /\ jobs' = jobs
                    /\ \/ published' = Append(published, SummaryOf(job.run))
                       \/ published' = published
    <2>1. handle \in DOMAIN jobs /\ handle >= handle
      BY <1>t, <1>17 DEF Awaited, JobsOK, ResultsOK
    <2>a. jobs[handle] \in Job
      BY <1>t, <2>1 DEF JobsOK
    <2>2. jobs[handle].run \in Run
      BY <2>a DEF Job
    <2>3. jobs[handle].run.call = run.call
      BY <1>t, <2>1 DEF HandlesOwn
    <2>4. Good(jobs[handle].run.buf, run.call)
      BY <1>t, <2>1, <2>3 DEF JobsGood
    <2> QED
      BY <1>17, <2>2, <2>3, <2>4, RunFields DEF Awaited
  <1>18. ASSUME handle' = handle + 1, jobs' = jobs, run'.call = run.call
         PROVE  HandlesOwn'
    BY <1>t, <1>18 DEF HandlesOwn, JobsOK, ResultsOK
  <1>19. CASE JobFailureContinues
    <2>1. Awaited(TRUE) /\ handle' = handle + 1 /\ UNCHANGED <<run, applied>>
      BY <1>19 DEF JobFailureContinues
    <2>2. ResultsGood'
      BY <1>17, <1>p, <2>1
    <2> QED
      BY <1>u, <1>q, <1>17, <1>18, <2>1, <2>2
  <1>20. CASE JobFailureAborts
    <2>1. Awaited(TRUE) /\ Return /\ UNCHANGED <<handle, applied>>
      BY <1>20 DEF JobFailureAborts
    <2>2. ResultsGood'
      BY <1>1, <1>17, <1>p, <2>1
    <2> QED
      BY <1>u, <1>q, <1>1, <1>17, <2>1, <2>2
  <1>21. ASSUME NEW cmds \in Seq(Command), NEW done \in Nat, done <= Len(cmds),
                Good(cmds, run.call), ApplyCommands(cmds, done),
                run'.call = run.call
         PROVE  Good(applied', run'.call)
    BY <1>t, <1>21, GoodApply DEF ResultsGood, ResultsOK
  <1>a. ASSUME NEW done \in Nat, Awaited(FALSE),
               done <= Len(jobs[handle].run.buf),
               ApplyCommands(jobs[handle].run.buf, done), run'.call = run.call
        PROVE  ResultsGood'
    <2>1. Good(applied', run'.call)
      BY <1>17, <1>21, <1>a
    <2>2. \A k \in DOMAIN published' : published'[k].call = run.call
      <3>1. SummaryOf(jobs[handle].run) \in Summary
            /\ SummaryOf(jobs[handle].run).call = run.call
        BY <1>17, <1>a, RunFields DEF SummaryOf
      <3>2. published \in Seq(Summary)
        BY <1>t DEF ResultsOK
      <3>3. \A k \in DOMAIN Append(published, SummaryOf(jobs[handle].run)) :
              \/ Append(published, SummaryOf(jobs[handle].run))[k]
                   = SummaryOf(jobs[handle].run)
              \/ /\ k \in DOMAIN published
                 /\ Append(published, SummaryOf(jobs[handle].run))[k] = published[k]
        BY <3>1, <3>2, AppendFacts
      <3> QED
        BY <1>t, <1>17, <1>a, <3>1, <3>3 DEF ResultsGood
    <2> QED
      BY <1>a, <2>1, <2>2 DEF ResultsGood
  <1>22. CASE ApplyJob
    <2> DEFINE cmds == jobs[handle].run.buf
    <2>1. /\ Awaited(FALSE) /\ ApplyCommands(cmds, Len(cmds))
          /\ handle' = handle + 1 /\ run' = run
      BY <1>22 DEF ApplyJob
    <2>2. cmds \in Seq(Command)
      BY <1>17, <2>1
    <2>3. Len(cmds) \in Nat /\ Len(cmds) <= Len(cmds)
      BY <2>2
    <2>4. ResultsGood'
      BY <1>a, <2>1, <2>3
    <2> QED
      BY <1>u, <1>q, <1>17, <1>18, <2>1, <2>4
  <1>23. CASE ApplyJobFails
    <2> DEFINE cmds == jobs[handle].run.buf
    <2>1. Awaited(FALSE) /\ Return /\ handle' = handle
      BY <1>23 DEF ApplyJobFails
    <2>2. cmds \in Seq(Command)
      BY <1>17, <2>1
    <2>3. PICK done \in 0 .. Len(cmds) - 1 : ApplyCommands(cmds, done)
      BY <1>23 DEF ApplyJobFails
    <2>4. done \in Nat /\ done <= Len(cmds)
      BY <2>2, <2>3
    <2>5. ResultsGood'
      BY <1>1, <1>a, <2>1, <2>3, <2>4
    <2> QED
      BY <1>u, <1>q, <1>1, <1>17, <2>1, <2>5
  <1>24. CASE ApplyBuffer
    <2>1. /\ ApplyCommands(run.buf, Len(run.buf)) /\ UNCHANGED <<handle, jobs, published>>
          /\ run' = [run EXCEPT !.buf = <<>>]
      BY <1>24 DEF ApplyBuffer
    <2>2. run'.buf = <<>> /\ run'.call = run.call
      BY <1>r, <2>1 DEF Run
    <2>3. BufferGood'
      BY <2>2 DEF BufferGood, Good
    <2>4. Good(run.buf, run.call)
      BY <1>t DEF BufferGood
    <2>5. Good(applied', run'.call)
      BY <1>r, <1>21, <2>1, <2>2, <2>4
    <2>6. ResultsGood'
      BY <1>t, <2>1, <2>2, <2>5 DEF ResultsGood
    <2> QED
      BY <1>u, <1>q, <2>1, <2>2, <2>3, <2>6
  <1>25. CASE ApplyBufferFails
    <2>1. /\ Return /\ UNCHANGED <<handle, jobs, published>>
          /\ \E done \in 0 .. Len(run.buf) - 1 : ApplyCommands(run.buf, done)
      BY <1>25 DEF ApplyBufferFails
    <2>2. PICK done \in 0 .. Len(run.buf) - 1 : ApplyCommands(run.buf, done)
      BY <2>1
    <2>3. done \in Nat /\ done <= Len(run.buf)
      BY <1>r, <2>2
    <2>4. Good(run.buf, run.call)
      BY <1>t DEF BufferGood
    <2>5. Good(applied', run'.call)
      BY <1>r, <1>1, <1>21, <2>1, <2>2, <2>3, <2>4
    <2>6. ResultsGood'
      BY <1>t, <1>1, <2>1, <2>5 DEF ResultsGood
    <2> QED
      BY <1>u, <1>q, <1>1, <2>1, <2>6
  <1>26. CASE Commit
    BY <1>u, <1>q, <1>1, <1>26 DEF Commit
  <1> QED
    BY <1>5, <1>6, <1>7, <1>8, <1>9, <1>11, <1>12, <1>13, <1>14, <1>15, <1>16,
       <1>19, <1>20, <1>22, <1>23, <1>24, <1>25, <1>26 DEF TickStep

(* A step of a job: its buffer stays good, and it still belongs to the     *)
(* call that dispatched it.                                                *)
LEMMA JobUpdateKeepsOrigin ==
  ASSUME JobsOK, JobsGood, HandlesOwn, NEW i \in DOMAIN jobs, NEW job,
         job.run.call = jobs[i].run.call, Good(job.run.buf, job.run.call),
         jobs' = [jobs EXCEPT ![i] = job], run' = run, handle' = handle
  PROVE  JobsGood' /\ HandlesOwn'
  <1>1. DOMAIN jobs' = DOMAIN jobs
    BY DEF JobsOK
  <1>2. \A k \in DOMAIN jobs' : jobs'[k] = IF k = i THEN job ELSE jobs[k]
    BY <1>1 DEF JobsOK
  <1>3. JobsGood'
    BY <1>1, <1>2 DEF JobsGood
  <1>4. HandlesOwn'
    BY <1>1, <1>2 DEF HandlesOwn
  <1> QED
    BY <1>3, <1>4

LEMMA JobStepKeepsOrigin ==
  ASSUME TypeInv, OriginInv, NEW i, JobStep(i)
  PROVE  OriginInv'
  <1>t. /\ JobsOK /\ BufferGood /\ JobsGood /\ HandlesOwn /\ ResultsGood
    BY DEF TypeInv, OriginInv
  <1>1. i \in DOMAIN jobs /\ OnlyJobs
    BY DEF JobStep, HandOver, RunJob, RefuseJob, SendJob, AcceptJob, CancelJob,
           StartJob, RunJobSystem, FinishJob
  <1>2. /\ jobs \in Seq(Job) /\ jobs[i] \in Job
        /\ Good(jobs[i].run.buf, jobs[i].run.call)
    BY <1>t, <1>1 DEF JobsOK, JobsGood
  <1>3. jobs[i].run \in Run
    BY <1>2 DEF Job
  <1>4. \E job : /\ job.run.call = jobs[i].run.call
                 /\ Good(job.run.buf, job.run.call)
                 /\ jobs' = [jobs EXCEPT ![i] = job]
    <2>1. CASE RefuseJob(i) \/ CancelJob(i)
      <3>1. Refused(jobs[i]).run.call = jobs[i].run.call
            /\ Refused(jobs[i]).run.buf = jobs[i].run.buf
        BY <1>2, <1>3 DEF Refused, Job, Run
      <3>2. jobs' = [jobs EXCEPT ![i] = Refused(jobs[i])]
        BY <2>1 DEF RefuseJob, CancelJob
      <3> QED
        BY <1>2, <3>1, <3>2
    <2>2. CASE SendJob(i) \/ AcceptJob(i) \/ StartJob(i)
      <3>1. jobs'[i].run = jobs[i].run /\ jobs' = [jobs EXCEPT ![i] = jobs'[i]]
        BY <1>1, <1>2, <2>2 DEF SendJob, AcceptJob, StartJob, Job
      <3> QED
        BY <1>2, <3>1
    <2>3. CASE RunJobSystem(i)
      <3>1. PICK r \in SystemSteps(jobs[i].run) : jobs' = [jobs EXCEPT ![i].run = r]
        BY <2>3 DEF RunJobSystem
      <3>2. Good(r.buf, r.call) /\ r.call = jobs[i].run.call
        BY <1>2, <1>3, GoodSystemSteps
      <3>3. jobs' = [jobs EXCEPT ![i] = [jobs[i] EXCEPT !.run = r]]
            /\ [jobs[i] EXCEPT !.run = r].run = r
        BY <1>1, <1>2, <3>1 DEF Job
      <3> QED
        BY <3>2, <3>3
    <2>4. CASE FinishJob(i)
      <3> DEFINE buf == IF jobs[i].run.failed THEN <<>> ELSE jobs[i].run.buf
      <3>1. Good(buf, jobs[i].run.call)
        BY <1>2 DEF Good
      <3> HIDE DEF buf
      <3> DEFINE job == [jobs[i] EXCEPT !.stage = "done", !.run.buf = buf]
      <3>2. jobs' = [jobs EXCEPT ![i] = job]
        BY <1>1, <1>2, <2>4 DEF FinishJob, buf
      <3>3. job.run.call = jobs[i].run.call /\ job.run.buf = buf
        BY <1>2, <1>3 DEF Job, Run
      <3> HIDE DEF job
      <3> QED
        BY <3>1, <3>2, <3>3
    <2> QED
      BY <2>1, <2>2, <2>3, <2>4 DEF JobStep, HandOver, RunJob
  <1>5. run' = run /\ handle' = handle /\ UNCHANGED <<applied, published>>
    BY <1>1 DEF OnlyJobs
  <1>6. JobsGood' /\ HandlesOwn'
    BY <1>t, <1>1, <1>4, <1>5, JobUpdateKeepsOrigin
  <1> QED
    BY <1>t, <1>5, <1>6, UnchangedKeepsOrigin DEF OriginInv

(* The builder may refuse jobs, but it does not touch what they deferred.  *)
LEMMA CallerKeepsOrigin ==
  ASSUME TypeInv, OriginInv, CallerStep
  PROVE  OriginInv'
  <1>t. /\ JobsOK /\ BufferGood /\ JobsGood /\ HandlesOwn /\ ResultsGood
    BY DEF TypeInv, OriginInv
  <1>1. UNCHANGED <<run, handle, applied, published>>
    BY DEF CallerStep, CreatePool, ClosePool, DropPool, ReplacePool, OnlyPool,
           WithErrorPolicy, Cancel
  <1>2. JobsGood' /\ HandlesOwn'
    <2>1. CASE \E n \in WorkerCounts : ClosePool(n)
      <3>a. \A k \in DOMAIN jobs : jobs[k] \in Job
        BY <1>t DEF JobsOK
      <3>1. \A k \in DOMAIN jobs : jobs[k] \in Job /\ jobs[k].run \in Run
        BY <3>a DEF Job
      <3>2. \A k \in DOMAIN jobs :
              /\ Refused(jobs[k]).run.call = jobs[k].run.call
              /\ Refused(jobs[k]).run.buf = jobs[k].run.buf
        BY <3>1 DEF Refused, Job, Run
      <3>3. /\ DOMAIN jobs' = DOMAIN jobs
            /\ \A k \in DOMAIN jobs : jobs'[k] \in {jobs[k], Refused(jobs[k])}
        BY <2>1 DEF ClosePool
      <3>4. \A k \in DOMAIN jobs : /\ jobs'[k].run.call = jobs[k].run.call
                                   /\ jobs'[k].run.buf = jobs[k].run.buf
        BY <3>2, <3>3
      <3> QED
        BY <1>t, <1>1, <3>3, <3>4 DEF JobsGood, HandlesOwn
    <2>2. CASE jobs' = jobs
      BY <1>t, <1>1, <2>2, UnchangedKeepsOrigin
    <2> QED
      BY <2>1, <2>2 DEF CallerStep, CreatePool, DropPool, ReplacePool, WithErrorPolicy, Cancel
  <1> QED
    BY <1>t, <1>1, <1>2, UnchangedKeepsOrigin DEF OriginInv

LEMMA OriginStep == TypeInv /\ OriginInv /\ [Next]_vars => OriginInv'
  <1> SUFFICES ASSUME TypeInv, OriginInv, [Next]_vars PROVE OriginInv'
    OBVIOUS
  <1>1. CASE BeginTick \/ TickStep
    BY <1>1, TickKeepsOrigin
  <1>2. CASE \E i \in 1 .. MaxJobs : JobStep(i)
    BY <1>2, JobStepKeepsOrigin
  <1>3. CASE CallerStep
    BY <1>3, CallerKeepsOrigin
  <1>4. CASE UNCHANGED vars
    BY <1>4, UnchangedKeepsOrigin DEF vars, OriginInv
  <1> QED
    BY <1>1, <1>2, <1>3, <1>4, NextCases

LEMMA OriginInvariant == Spec => []OriginInv
  BY OriginInit, OriginStep, TypeInvariant, PTL DEF Spec

-----------------------------------------------------------------------------
(* The world only sees commands of attempts that succeeded: runWorkGroup   *)
(* rolls the buffer back before a retry and after the last attempt.        *)
THEOREM OnlySucceededIsApplied == Spec => []AppliedSucceeded
  <1>1. OriginInv => AppliedSucceeded
    BY DEF OriginInv, ResultsGood, Good, AppliedSucceeded, Applied
  <1> QED
    BY <1>1, OriginInvariant, PTL

(* A Tick applies no command and publishes no summary of an earlier call,  *)
(* whatever that call left running on the workers.                         *)
THEOREM ResultsAreAlwaysFresh == Spec => []ResultsAreFresh
  <1>1. OriginInv => ResultsAreFresh
    BY DEF OriginInv, ResultsGood, Good, ResultsAreFresh, Applied
  <1> QED
    BY <1>1, OriginInvariant, PTL

-----------------------------------------------------------------------------
(* Of n numbers in a row one is a multiple of n, and only one.             *)
LEMMA Multiple ==
  ASSUME NEW n \in Nat \ {0}, NEW k \in Int
  PROVE  (n * k) % n = 0 /\ n * (k + 1) = n * k + n /\ n * k \in Int
  OBVIOUS

LEMMA Division ==
  ASSUME NEW n \in Nat \ {0}, NEW x \in Nat
  PROVE  \E q \in Int : x = n * q + (x % n) /\ x % n \in 0 .. n - 1
  <1>1. x = n * (x \div n) + (x % n) /\ x \div n \in Int /\ x % n \in 0 .. n - 1
    OBVIOUS
  <1> QED
    BY <1>1

LEMMA Quotient ==
  ASSUME NEW n \in Nat \ {0}, NEW x \in Nat, x % n = 0
  PROVE  \E q \in Int : x = n * q
  <1>1. PICK q \in Int : x = n * q + (x % n)
    BY Division
  <1>2. PICK m \in Int : m = n * q
    OBVIOUS
  <1>3. x = m
    BY <1>1, <1>2
  <1> QED
    BY <1>2, <1>3

LEMMA SomeMultiple ==
  ASSUME NEW n \in Nat \ {0}, NEW from \in Nat
  PROVE  \E x \in from .. from + n - 1 : x % n = 0
  <1> PICK r \in 0 .. n - 1 : r = from % n
    BY Division
  <1>1. PICK q \in Int : from = n * q + r
    BY Division
  <1>2. CASE r = 0
    BY <1>2
  <1>3. CASE r # 0
    <2>1. PICK m \in Int : m = n * q /\ n * (q + 1) = m + n
      BY Multiple
    <2>2. from + (n - r) = n * (q + 1)
      <3>1. from = m + r
        BY <1>1, <2>1
      <3>2. from + (n - r) = m + n
        BY <3>1
      <3> QED
        BY <2>1, <3>2
    <2>3. (n * (q + 1)) % n = 0
      BY Multiple
    <2>4. from + (n - r) \in from .. from + n - 1
      BY <1>3
    <2> QED
      BY <2>2, <2>3, <2>4
  <1> QED
    BY <1>2, <1>3

LEMMA OneMultiple ==
  ASSUME NEW n \in Nat \ {0}, NEW x \in Nat, NEW y \in Nat,
         x % n = 0, y % n = 0, x < y + n, y < x + n
  PROVE  x = y
  <1>1. PICK a \in Int : x = n * a
    BY Quotient
  <1>2. PICK b \in Int : y = n * b
    BY Quotient
  <1>3. a = b
    <2>1. n * a < n * b + n /\ n * b < n * a + n
      BY <1>1, <1>2
    <2> QED
      BY <2>1
  <1> QED
    BY <1>1, <1>2, <1>3

(* A group or system that is to run every so many ticks is due in exactly  *)
(* one of so many ticks in a row, whatever its offset is (shouldRunTick,   *)
(* as long as the sum of tick and offset is below 2^64).                   *)
THEOREM DueOncePerPeriod ==
  ASSUME NEW interval \in TickInterval, NEW from \in Nat, interval.every # 0
  PROVE  \E t \in from .. from + interval.every - 1 :
           /\ ShouldRunTick(t, interval)
           /\ \A u \in from .. from + interval.every - 1 :
                ShouldRunTick(u, interval) => u = t
  <1>1. PICK n \in Nat \ {0} : n = interval.every
    BY DEF TickInterval
  <1>2. PICK o \in Nat : o = interval.offset % n
    BY Division DEF TickInterval
  <1>3. \A t : ShouldRunTick(t, interval) <=> (t + o) % n = 0
    BY <1>1, <1>2 DEF ShouldRunTick
  <1>4. \E t \in from .. from + n - 1 : (t + o) % n = 0
    <2>1. PICK x \in from + o .. from + o + n - 1 : x % n = 0
      <3>1. from + o \in Nat
        OBVIOUS
      <3> QED
        BY <3>1, SomeMultiple
    <2>2. x - o \in from .. from + n - 1 /\ (x - o) + o = x
      OBVIOUS
    <2> QED
      BY <2>1, <2>2
  <1>5. ASSUME NEW t \in from .. from + n - 1, NEW u \in from .. from + n - 1,
               (t + o) % n = 0, (u + o) % n = 0
        PROVE  u = t
    <2>1. /\ t + o \in Nat /\ u + o \in Nat
          /\ t + o < u + o + n /\ u + o < t + o + n
      OBVIOUS
    <2>2. t + o = u + o
      BY <1>5, <2>1, OneMultiple
    <2> QED
      BY <2>2
  <1> QED
    BY <1>1, <1>3, <1>4, <1>5
=============================================================================
