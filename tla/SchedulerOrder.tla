--------------------------- MODULE SchedulerOrder ---------------------------
(***************************************************************************)
(* In which order a Tick applies commands and publishes summaries, and     *)
(* that it misses none: theorems about the scheduler.  The inductive       *)
(* invariant ties every buffer to the systems that filled it, every job of *)
(* the call to its place in the order, and what was applied and published  *)
(* to the jobs before the handle and the groups before the position.       *)
(***************************************************************************)
EXTENDS SchedulerProofs

Cmds(buf) == {buf[k] : k \in DOMAIN buf}

(* The order of the commands in a buffer.                                  *)
Lex(c, d) == c.pos < d.pos \/ (c.pos = d.pos /\ c.sys < d.sys)

Sorted(buf) == \A k, l \in DOMAIN buf : k < l => Lex(buf[k], buf[l])

(* A buffer is sorted, below what its next system defers, and has what the *)
(* successful attempts deferred.                                           *)
Orderly(r) ==
  /\ Sorted(r.buf)
  /\ \A c \in Cmds(r.buf) : Lex(c, Deferred(r, TRUE))
  /\ Cmds(r.buf) = r.deferred

(* The ticker visits the groups.                                           *)
Visiting == pc \in {"groups", "running", "submit"}

BufferInv ==
  /\ pc \in {"groups", "submit"} => \A c \in Cmds(run.buf) : c.pos < run.pos
  /\ pc = "running" => \A c \in Cmds(run.buf) : Lex(c, Deferred(run, TRUE))
  /\ pc \notin {"idle", "commit"} => Sorted(run.buf) /\ Cmds(run.buf) = run.deferred
  /\ \A c \in run.deferred : ~IsAsync(c.pos)
  /\ pc = "running" => /\ ~IsAsync(run.pos)
                       /\ ShouldRunTick(run.tick, Interval[Order[run.pos]])

JobOrderly(r) ==
  /\ IsAsync(r.pos)
  /\ \A c \in r.deferred : c.pos = r.pos
  /\ ~r.failed => Orderly(r)

JobsInv == \A i \in DOMAIN jobs : JobOrderly(jobs[i].run)

Pos(i) == jobs[i].run.pos

HandledInv ==
  /\ handle <= Len(jobs) + 1
  /\ \A i \in DOMAIN jobs : jobs[i].run.call <= run.call
  /\ \A i, j \in JobsOfCall : i < j => Pos(i) < Pos(j)
  /\ Visiting => \A i \in JobsOfCall :
       i >= handle /\ (Pos(i) < run.pos \/ (pc = "submit" /\ Pos(i) = run.pos))
  /\ \A i \in JobsOfCall : i < handle =>
       /\ jobs[i].stage = "done"
       /\ ~jobs[i].run.failed => Cmds(jobs[i].run.buf) \subseteq Applied
  /\ pc = "commit" => handle > Len(jobs)

(* Where an applied command comes from.                                    *)
FromJob(c) == \E i \in JobsOfCall :
  /\ i <= handle
  /\ pc # "idle" => i < handle
  /\ jobs[i].stage = "done"
  /\ ~jobs[i].run.failed
  /\ c \in Cmds(jobs[i].run.buf)

FromBuffer(c) ==
  /\ pc \in {"idle", "commit"}
  /\ handle > Len(jobs)
  /\ c \in run.deferred

AppliedInv ==
  /\ Visiting => applied = <<>>
  /\ \A c \in Applied : FromJob(c) \/ FromBuffer(c)
  /\ pc = "commit" => run.deferred \subseteq Applied
  /\ AppliedInOrder

SummariesSorted ==
  \A k, l \in DOMAIN published :
    k < l => ReportedBefore(published[k].pos, published[l].pos)

AsyncReported(p) ==
  \E i \in JobsOfCall : i < handle /\ Pos(i) = p /\ jobs[i].ran

SummariesInv ==
  /\ SummariesSorted
  /\ pc = "submit" => IsAsync(run.pos)
  /\ pc \in {"await", "commit"} => run.pos > Len(Order)
  /\ Reported \subseteq DOMAIN Order
  /\ pc # "idle" => \A p \in DOMAIN Order :
       p \in Reported <=>
         IF IsAsync(p)
           THEN AsyncReported(p)
           ELSE p < run.pos /\ ShouldRunTick(run.tick, Interval[Order[p]])

OrderInv == BufferInv /\ JobsInv /\ HandledInv /\ AppliedInv /\ SummariesInv

-----------------------------------------------------------------------------
(* Buffers: what is pushed, what is applied, and one turn of the loop.     *)
LEMMA CmdsOfAppend ==
  ASSUME NEW buf \in Seq(Command), NEW cmd \in Command
  PROVE  Cmds(Append(buf, cmd)) = Cmds(buf) \cup {cmd}
  <1>1. /\ DOMAIN buf = 1 .. Len(buf) /\ Len(buf) \in Nat
        /\ DOMAIN Append(buf, cmd) = 1 .. Len(buf) + 1
        /\ Append(buf, cmd)[Len(buf) + 1] = cmd
        /\ \A k \in 1 .. Len(buf) : Append(buf, cmd)[k] = buf[k]
    OBVIOUS
  <1>2. ASSUME NEW c \in Cmds(Append(buf, cmd)) PROVE c \in Cmds(buf) \cup {cmd}
    <2>1. PICK k \in 1 .. Len(buf) + 1 : c = Append(buf, cmd)[k]
      BY <1>1, <1>2 DEF Cmds
    <2>2. k = Len(buf) + 1 \/ k \in 1 .. Len(buf)
      BY <1>1
    <2> QED
      BY <1>1, <2>1, <2>2 DEF Cmds
  <1>3. Len(buf) + 1 \in DOMAIN Append(buf, cmd)
        /\ \A k \in DOMAIN buf : k \in DOMAIN Append(buf, cmd)
    BY <1>1
  <1>4. ASSUME NEW c \in Cmds(buf) \cup {cmd} PROVE c \in Cmds(Append(buf, cmd))
    BY <1>1, <1>3, <1>4 DEF Cmds
  <1> QED
    BY <1>2, <1>4

LEMMA SortedAppend ==
  ASSUME NEW buf \in Seq(Command), NEW cmd \in Command,
         Sorted(buf), \A c \in Cmds(buf) : Lex(c, cmd)
  PROVE  Sorted(Append(buf, cmd))
  <1>1. /\ DOMAIN buf = 1 .. Len(buf) /\ Len(buf) \in Nat
        /\ DOMAIN Append(buf, cmd) = 1 .. Len(buf) + 1
        /\ Append(buf, cmd)[Len(buf) + 1] = cmd
        /\ \A k \in 1 .. Len(buf) : Append(buf, cmd)[k] = buf[k]
    OBVIOUS
  <1>2. ASSUME NEW k \in DOMAIN Append(buf, cmd), NEW l \in DOMAIN Append(buf, cmd), k < l
        PROVE  Lex(Append(buf, cmd)[k], Append(buf, cmd)[l])
    <2>1. k \in 1 .. Len(buf) /\ (l = Len(buf) + 1 \/ l \in 1 .. Len(buf))
      BY <1>1, <1>2
    <2>2. CASE l = Len(buf) + 1
      BY <1>1, <2>1, <2>2 DEF Cmds
    <2>3. CASE l \in 1 .. Len(buf)
      BY <1>1, <1>2, <2>1, <2>3 DEF Sorted
    <2> QED
      BY <2>1, <2>2, <2>3
  <1> QED
    BY <1>2 DEF Sorted

LEMMA OrderlyStep ==
  ASSUME NEW r \in Run, Orderly(r), NEW s \in SystemSteps(r)
  PROVE  /\ Orderly(s)
         /\ s.deferred \subseteq r.deferred \cup {Deferred(r, TRUE)}
  <1> DEFINE cmd == Deferred(r, TRUE)
  <1>1. /\ cmd \in Command /\ r.buf \in Seq(Command) /\ r.next \in Nat
        /\ r.deferred \in SUBSET Command
        /\ cmd.pos = r.pos /\ cmd.sys = r.next
    BY DEF Deferred, Command, Run
  <1>2. \A c \in Cmds(r.buf) : c \in Command
    BY <1>1 DEF Cmds
  <1>3. RolledBack(r, r.buf) = r.buf
    BY <1>1, RolledBackIsBefore
  <1>4. /\ s.pos = r.pos
        /\ \/ s.buf = r.buf /\ s.deferred = r.deferred
              /\ (s.next = r.next \/ s.next = r.next + 1)
           \/ /\ s.buf = Append(r.buf, cmd)
              /\ s.deferred = r.deferred \cup {cmd}
              /\ s.next = r.next + 1
    <2>1. \/ s = [r EXCEPT !.failed = TRUE]
          \/ s = [r EXCEPT !.next = @ + 1]
          \/ s = Succeeds(r, r.buf)
          \/ s = Fails(r, r.buf)
      BY <1>3 DEF SystemSteps
    <2>2. CASE s = [r EXCEPT !.failed = TRUE]
      BY <2>2 DEF Run
    <2>3. CASE s = [r EXCEPT !.next = @ + 1]
      BY <2>3 DEF Run
    <2>4. CASE s = Succeeds(r, r.buf)
      BY <2>4 DEF Run, Succeeds, Push
    <2>5. CASE s = Fails(r, r.buf)
      BY <1>3, <2>5 DEF Run, Fails
    <2> QED
      BY <2>1, <2>2, <2>3, <2>4, <2>5
  <1>5. Deferred(s, TRUE).pos = r.pos /\ Deferred(s, TRUE).sys = s.next
    BY <1>4 DEF Deferred
  <1>6. \A c \in Cmds(r.buf) : Lex(c, cmd)
    BY DEF Orderly
  <1> HIDE DEF cmd
  <1>7. \A c \in Cmds(r.buf) : Lex(c, Deferred(s, TRUE))
    <2>1. r.next <= s.next /\ s.next \in Nat
      BY <1>1, <1>4
    <2> SUFFICES ASSUME NEW c \in Cmds(r.buf) PROVE Lex(c, Deferred(s, TRUE))
      OBVIOUS
    <2>2. c.sys \in Nat
      BY <1>2 DEF Command
    <2>3. c.pos < r.pos \/ (c.pos = r.pos /\ c.sys < r.next)
      BY <1>1, <1>6 DEF Lex
    <2>4. c.pos < r.pos \/ (c.pos = r.pos /\ c.sys < s.next)
      BY <1>1, <2>1, <2>2, <2>3
    <2> QED
      BY <1>5, <2>4 DEF Lex
  <1>8. CASE s.buf = r.buf /\ s.deferred = r.deferred
    BY <1>7, <1>8 DEF Orderly
  <1>9. CASE /\ s.buf = Append(r.buf, cmd) /\ s.deferred = r.deferred \cup {cmd}
             /\ s.next = r.next + 1
    <2>1. Cmds(s.buf) = Cmds(r.buf) \cup {cmd}
      BY <1>1, <1>9, CmdsOfAppend
    <2>2. Sorted(s.buf)
      BY <1>1, <1>6, <1>9, SortedAppend DEF Orderly
    <2>3. Lex(cmd, Deferred(s, TRUE))
      <3>1. cmd.sys < s.next
        BY <1>1, <1>9
      <3> QED
        BY <1>1, <1>5, <3>1 DEF Lex
    <2> QED
      BY <1>7, <1>9, <2>1, <2>2, <2>3 DEF Orderly, cmd
  <1> QED
    BY <1>4, <1>8, <1>9

(* What ApplyCommands adds to the world.                                   *)
LEMMA AppliedCmds ==
  ASSUME applied \in Seq(Command), NEW cmds \in Seq(Command), NEW done \in Nat,
         done <= Len(cmds), ApplyCommands(cmds, done)
  PROVE  /\ DOMAIN applied = 1 .. Len(applied) /\ Len(applied) \in Nat
         /\ DOMAIN applied' = 1 .. Len(applied) + done
         /\ \A k \in 1 .. Len(applied) : applied'[k] = applied[k]
         /\ \A k \in 1 .. done : applied'[Len(applied) + k] = cmds[k]
         /\ Applied' = Applied \cup {cmds[k] : k \in 1 .. done}
  <1> DEFINE part == SubSeq(cmds, 1, done)
  <1>1. /\ part \in Seq(Command) /\ Len(part) = done
        /\ \A k \in 1 .. done : part[k] = cmds[k]
    OBVIOUS
  <1>2. applied' = applied \o part
    BY DEF ApplyCommands
  <1> HIDE DEF part
  <1>3. /\ DOMAIN applied = 1 .. Len(applied) /\ Len(applied) \in Nat
        /\ DOMAIN applied' = 1 .. Len(applied) + done
        /\ \A k \in 1 .. Len(applied) : applied'[k] = applied[k]
        /\ \A k \in 1 .. done : applied'[Len(applied) + k] = part[k]
    <2>1. ASSUME NEW s \in Seq(Command), NEW t \in Seq(Command)
          PROVE  /\ DOMAIN s = 1 .. Len(s) /\ Len(s) \in Nat
                 /\ DOMAIN (s \o t) = 1 .. Len(s) + Len(t)
                 /\ \A k \in 1 .. Len(s) : (s \o t)[k] = s[k]
                 /\ \A k \in 1 .. Len(t) : (s \o t)[Len(s) + k] = t[k]
      OBVIOUS
    <2> QED
      BY <1>1, <1>2, <2>1
  <1>4. \A k \in 1 .. done : applied'[Len(applied) + k] = cmds[k]
    BY <1>1, <1>3
  <1>5. ASSUME NEW c \in Applied' PROVE c \in Applied \cup {cmds[k] : k \in 1 .. done}
    <2>1. PICK k \in 1 .. Len(applied) + done : c = applied'[k]
      BY <1>3, <1>5 DEF Applied
    <2>2. CASE k \in 1 .. Len(applied)
      BY <1>3, <2>1, <2>2 DEF Applied
    <2>3. CASE ~(k \in 1 .. Len(applied))
      <3>1. k - Len(applied) \in 1 .. done /\ Len(applied) + (k - Len(applied)) = k
        BY <1>3, <2>1, <2>3
      <3> QED
        BY <1>4, <2>1, <3>1
    <2> QED
      BY <2>2, <2>3
  <1>6. ASSUME NEW c \in Applied PROVE c \in Applied'
    <2>1. PICK k \in 1 .. Len(applied) : c = applied[k]
      BY <1>3, <1>6 DEF Applied
    <2>2. k \in DOMAIN applied' /\ applied'[k] = c
      BY <1>3, <2>1
    <2> QED
      BY <2>2 DEF Applied
  <1>7. ASSUME NEW k \in 1 .. done PROVE cmds[k] \in Applied'
    <2>1. Len(applied) + k \in DOMAIN applied'
      BY <1>3
    <2> QED
      BY <1>4, <2>1 DEF Applied
  <1> QED
    BY <1>3, <1>4, <1>5, <1>6, <1>7

LEMMA EffectsFacts ==
  \A d : d \in Effects <=>
    \/ d \in run.deferred
    \/ \E i \in JobsOfCall : ~jobs[i].run.failed /\ d \in jobs[i].run.deferred
  BY DEF Effects

(* Applying a part of a buffer keeps the order, if the buffer is due: what *)
(* was applied is before it, and no other effect is both before it and not *)
(* applied yet.                                                            *)
LEMMA ApplyKeepsOrder ==
  ASSUME applied \in Seq(Command), AppliedInOrder,
         NEW cmds \in Seq(Command), NEW done \in Nat, done <= Len(cmds),
         ApplyCommands(cmds, done), Sorted(cmds),
         NEW async \in BOOLEAN, \A c \in Cmds(cmds) : IsAsync(c.pos) = async,
         \A c \in Applied, d \in Cmds(cmds) : Before(c, d),
         \A d \in Effects : d \in Cmds(cmds) \/ d \in Applied
                             \/ \A c \in Cmds(cmds) : ~Before(d, c),
         Effects' = Effects
  PROVE  AppliedInOrder'
  <1>1. /\ DOMAIN applied = 1 .. Len(applied) /\ Len(applied) \in Nat
        /\ DOMAIN applied' = 1 .. Len(applied) + done
        /\ \A k \in 1 .. Len(applied) : applied'[k] = applied[k]
        /\ \A k \in 1 .. done : applied'[Len(applied) + k] = cmds[k]
        /\ Applied' = Applied \cup {cmds[k] : k \in 1 .. done}
    BY AppliedCmds
  <1>2. /\ DOMAIN cmds = 1 .. Len(cmds) /\ Len(cmds) \in Nat
        /\ \A k \in 1 .. done : k \in DOMAIN cmds /\ cmds[k] \in Cmds(cmds)
        /\ \A c \in Cmds(cmds) : c \in Command
    BY DEF Cmds
  <1>3. ASSUME NEW c \in Cmds(cmds), NEW d \in Cmds(cmds)
        PROVE  /\ Lex(c, d) => Before(c, d)
               /\ ~(Lex(c, d) /\ Before(d, c))
    <2>1. IsAsync(c.pos) = IsAsync(d.pos)
      BY <1>3
    <2>2. c.pos \in Nat /\ c.sys \in Nat /\ d.pos \in Nat /\ d.sys \in Nat
      BY <1>2 DEF Command
    <2> QED
      BY <2>1, <2>2 DEF Lex, Before, PosBefore
  <1>4. ASSUME NEW k \in DOMAIN applied', NEW l \in DOMAIN applied', k < l
        PROVE  Before(applied'[k], applied'[l])
    <2>1. k \in 1 .. Len(applied) + done /\ l \in 1 .. Len(applied) + done
      BY <1>1
    <2>2. CASE l \in 1 .. Len(applied)
      <3>1. k \in DOMAIN applied /\ l \in DOMAIN applied
        BY <1>1, <1>4, <2>1, <2>2
      <3> QED
        BY <1>1, <1>4, <3>1 DEF AppliedInOrder
    <2>3. CASE ~(l \in 1 .. Len(applied))
      <3> DEFINE m == l - Len(applied)
      <3>1. m \in 1 .. done /\ Len(applied) + m = l
        BY <1>1, <2>1, <2>3
      <3>2. applied'[l] = cmds[m]
        BY <1>1, <3>1
      <3>3. CASE k \in 1 .. Len(applied)
        <4>1. applied[k] \in Applied
          BY <1>1, <3>3 DEF Applied
        <4> QED
          BY <1>1, <1>2, <3>1, <3>2, <3>3, <4>1
      <3>4. CASE ~(k \in 1 .. Len(applied))
        <4> DEFINE n == k - Len(applied)
        <4>1. n \in 1 .. done /\ Len(applied) + n = k /\ n < m
          BY <1>1, <1>4, <2>1, <3>1, <3>4
        <4>2. applied'[k] = cmds[n]
          BY <1>1, <4>1
        <4>3. Lex(cmds[n], cmds[m])
          BY <1>2, <3>1, <4>1 DEF Sorted
        <4> QED
          BY <1>2, <1>3, <3>1, <3>2, <4>1, <4>2, <4>3
      <3> QED
        BY <3>3, <3>4
    <2> QED
      BY <2>2, <2>3
  <1>5. ASSUME NEW c \in Applied', NEW d \in Effects, Before(d, c)
        PROVE  d \in Applied'
    <2>1. CASE c \in Applied
      BY <1>1, <1>5, <2>1 DEF AppliedInOrder
    <2>2. CASE ~(c \in Applied)
      <3>1. PICK k \in 1 .. done : c = cmds[k]
        BY <1>1, <1>5, <2>2
      <3>2. CASE d \in Cmds(cmds)
        <4>1. PICK l \in DOMAIN cmds : d = cmds[l]
          BY <3>2 DEF Cmds
        <4>2. ~(k < l)
          BY <1>2, <1>3, <1>5, <3>1, <3>2, <4>1 DEF Sorted
        <4>3. l \in 1 .. done
          BY <1>2, <4>1, <4>2
        <4> QED
          BY <1>1, <4>1, <4>3
      <3> QED
        BY <1>1, <1>2, <1>5, <3>1, <3>2
    <2> QED
      BY <2>1, <2>2
  <1> QED
    BY <1>4, <1>5 DEF AppliedInOrder

-----------------------------------------------------------------------------
(* The fields of the runs that the ticker makes of one.                    *)
LEMMA RunParts ==
  ASSUME NEW r \in Run
  PROVE  /\ LET s == [r EXCEPT !.buf = <<>>]
            IN  /\ s.call = r.call /\ s.tick = r.tick /\ s.pos = r.pos
                /\ s.buf = <<>> /\ s.deferred = r.deferred
         /\ LET s == [r EXCEPT !.pos = @ + 1]
            IN  /\ s.call = r.call /\ s.tick = r.tick /\ s.pos = r.pos + 1
                /\ s.buf = r.buf /\ s.deferred = r.deferred
         /\ LET s == [r EXCEPT !.next = 1, !.failed = FALSE]
            IN  /\ s.call = r.call /\ s.tick = r.tick /\ s.pos = r.pos
                /\ s.buf = r.buf /\ s.deferred = r.deferred
         /\ \A failed \in BOOLEAN :
              LET s == [r EXCEPT !.next = 1, !.failed = failed, !.buf = <<>>,
                                 !.deferred = {}]
              IN  /\ s.call = r.call /\ s.tick = r.tick /\ s.pos = r.pos
                  /\ s.buf = <<>> /\ s.deferred = {}
  BY DEF Run

LEMMA EmptyBuffer == Cmds(<<>>) = {} /\ Sorted(<<>>)
  BY DEF Cmds, Sorted

LEMMA CmdsAreCommands ==
  ASSUME NEW buf \in Seq(Command), NEW c \in Cmds(buf)
  PROVE  c \in Command /\ c.pos \in Nat /\ c.sys \in Nat
  <1>1. c \in Command
    BY DEF Cmds
  <1> QED
    BY <1>1 DEF Command

(* A step of the ticker leaves its buffer in order.                        *)
LEMMA TickKeepsBuffer ==
  ASSUME TypeInv, BufferInv, BeginTick \/ TickStep
  PROVE  BufferInv'
  <1>r. run \in Run /\ run.buf \in Seq(Command) /\ run.pos \in Nat
    <2>1. run \in Run
      BY DEF TypeInv, TickerOK
    <2> QED
      BY <2>1, RunFields
  <1>1. ASSUME Return PROVE BufferInv'
    <2>1. pc' = "idle" /\ run'.deferred = run.deferred
      BY <1>1, <1>r, RunParts DEF Return
    <2> QED
      BY <2>1 DEF BufferInv, IsAsync
  <1>2. ASSUME Visit, pc' = "groups", pc \in {"groups", "running", "submit"}
        PROVE  BufferInv'
    <2>1. /\ run'.pos = run.pos + 1 /\ run'.buf = run.buf
          /\ run'.deferred = run.deferred
      BY <1>2, <1>r, RunParts DEF Visit
    <2>2. \A c \in Cmds(run.buf) : c.pos <= run.pos
      <3> SUFFICES ASSUME NEW c \in Cmds(run.buf) PROVE c.pos <= run.pos
        OBVIOUS
      <3>1. c.pos \in Nat
        BY <1>r, CmdsAreCommands
      <3>2. c.pos < run.pos \/ c.pos = run.pos
        BY <1>2 DEF BufferInv, Lex, Deferred
      <3> QED
        BY <1>r, <3>1, <3>2
    <2>3. \A c \in Cmds(run.buf) : c.pos < run'.pos
      BY <1>r, <2>1, <2>2, CmdsAreCommands
    <2> QED
      BY <1>2, <2>1, <2>3 DEF BufferInv, IsAsync
  <1>3. CASE BeginTick
    <2>1. run'.buf = <<>> /\ run'.deferred = {} /\ pc' = "groups"
      BY <1>3 DEF BeginTick
    <2> QED
      BY <2>1, EmptyBuffer DEF BufferInv
  <1>4. CASE AbandonTick \/ GroupFailureAborts \/ JobFailureAborts
             \/ ApplyJobFails \/ ApplyBufferFails \/ Commit
    BY <1>1, <1>4 DEF AbandonTick, GroupFailureAborts, JobFailureAborts,
                      ApplyJobFails, ApplyBufferFails, Commit
  <1>5. CASE SkipGroup \/ GroupSucceeds \/ GroupFailureContinues \/ SubmitReturns
    BY <1>2, <1>5 DEF SkipGroup, GroupSucceeds, GroupFailureContinues, GroupEnds,
                      SubmitReturns, AtGroup
  <1>6. CASE StartGroup
    <2>1. /\ pc = "groups" /\ pc' = "running" /\ ~IsAsync(run.pos)
          /\ ShouldRunTick(run.tick, Interval[Order[run.pos]])
      BY <1>6 DEF StartGroup, GroupDue, AtGroup, IsAsync, Group
    <2>2. /\ run'.pos = run.pos /\ run'.buf = run.buf /\ run'.tick = run.tick
          /\ run'.deferred = run.deferred
      BY <1>6, <1>r, RunParts DEF StartGroup
    <2>3. \A c \in Cmds(run.buf) : Lex(c, Deferred(run', TRUE))
      BY <2>1, <2>2 DEF BufferInv, Lex, Deferred
    <2> QED
      BY <2>1, <2>2, <2>3 DEF BufferInv, IsAsync
  <1>7. CASE RunSystem
    <2>1. run' \in SystemSteps(run) /\ pc = "running" /\ pc' = "running"
      BY <1>7 DEF RunSystem
    <2>2. Orderly(run)
      BY <2>1 DEF BufferInv, Orderly
    <2>3. /\ Orderly(run')
          /\ run'.deferred \subseteq run.deferred \cup {Deferred(run, TRUE)}
          /\ run'.pos = run.pos /\ run'.tick = run.tick
      BY <1>r, <2>1, <2>2, OrderlyStep, SystemStepsLemma
    <2>4. \A c \in run'.deferred : ~IsAsync(c.pos)
      BY <2>1, <2>3 DEF BufferInv, Deferred
    <2> QED
      BY <2>1, <2>3, <2>4 DEF BufferInv, Orderly, IsAsync
  <1>8. CASE DispatchAsync \/ GroupsVisited \/ JobFailureContinues \/ ApplyJob
    <2>1. run' = run /\ pc \notin {"idle", "commit"}
          /\ (pc' = "await" \/ (pc' = "submit" /\ pc = "groups"))
      BY <1>8 DEF DispatchAsync, Dispatch, GroupDue, AtGroup, GroupsVisited,
                  JobFailureContinues, ApplyJob, Awaited
    <2> QED
      BY <2>1 DEF BufferInv, IsAsync
  <1>9. CASE ApplyBuffer
    <2>1. pc' = "commit" /\ run'.deferred = run.deferred
      BY <1>9, <1>r, RunParts DEF ApplyBuffer
    <2> QED
      BY <2>1 DEF BufferInv, IsAsync
  <1> QED
    BY <1>3, <1>4, <1>5, <1>6, <1>7, <1>8, <1>9 DEF TickStep

(* What a step of the ticker does to the jobs: nothing, or it appends one. *)
LEMMA TickAndJobs ==
  ASSUME TypeInv, BeginTick \/ TickStep
  PROVE  \/ UNCHANGED jobs /\ ~DispatchAsync
         \/ /\ DispatchAsync
            /\ pc = "groups" /\ pc' = "submit" /\ IsAsync(run.pos)
            /\ ShouldRunTick(run.tick, Interval[Order[run.pos]])
            /\ UNCHANGED <<run, handle, applied, published>>
            /\ Len(jobs) \in Nat /\ DOMAIN jobs = 1 .. Len(jobs)
            /\ DOMAIN jobs' = 1 .. Len(jobs) + 1 /\ Len(jobs') = Len(jobs) + 1
            /\ \A i \in DOMAIN jobs : jobs'[i] = jobs[i]
            /\ LET job == jobs'[Len(jobs) + 1]
               IN  /\ job.run.call = run.call /\ job.run.pos = run.pos
                   /\ job.run.buf = <<>> /\ job.run.deferred = {}
  <1>1. CASE ~DispatchAsync
    BY <1>1 DEF BeginTick, TickStep, outside, AbandonTick, SkipGroup, StartGroup, RunSystem,
       GroupSucceeds, GroupEnds, GroupFailureContinues, GroupFailureAborts,
       SubmitReturns, GroupsVisited, JobFailureContinues, JobFailureAborts, Awaited,
       ApplyJob, ApplyJobFails, ApplyBuffer, ApplyBufferFails, Commit
  <1>2. CASE DispatchAsync
    <2>1. PICK stage \in JobStages, refused \in BOOLEAN : Dispatch(stage, refused)
      BY <1>2 DEF DispatchAsync, JobStages
    <2> DEFINE r == [run EXCEPT !.next = 1, !.failed = refused,
                                !.buf = <<>>, !.deferred = {}]
    <2> DEFINE job == [run |-> r, stage |-> stage, ran |-> stage = "inline"]
    <2>2. run \in Run
      BY DEF TypeInv, TickerOK
    <2>3. /\ r \in Run /\ r.call = run.call /\ r.pos = run.pos
          /\ r.buf = <<>> /\ r.deferred = {}
      BY <2>2, RunUpdates, RunParts
    <2>4. jobs' = Append(jobs, job)
      BY <2>1 DEF Dispatch
    <2> HIDE DEF r
    <2>5. job \in Job /\ job.run = r
      BY <2>3 DEF Job
    <2> HIDE DEF job
    <2>6. jobs \in Seq(Job)
      BY DEF TypeInv, JobsOK
    <2>7. /\ Len(jobs) \in Nat /\ DOMAIN jobs = 1 .. Len(jobs)
          /\ DOMAIN jobs' = 1 .. Len(jobs) + 1 /\ Len(jobs') = Len(jobs) + 1
          /\ \A i \in DOMAIN jobs : jobs'[i] = jobs[i]
          /\ jobs'[Len(jobs) + 1] = job
      BY <2>4, <2>5, <2>6
    <2>8. /\ pc = "groups" /\ pc' = "submit" /\ IsAsync(run.pos)
          /\ ShouldRunTick(run.tick, Interval[Order[run.pos]])
          /\ UNCHANGED <<run, handle, applied, published>>
      BY <2>1 DEF Dispatch, GroupDue, AtGroup, IsAsync, Group
    <2> QED
      BY <1>2, <2>3, <2>5, <2>7, <2>8
  <1> QED
    BY <1>1, <1>2

LEMMA TickKeepsJobs ==
  ASSUME TypeInv, JobsInv, BeginTick \/ TickStep
  PROVE  JobsInv'
  <1>1. CASE UNCHANGED jobs
    BY <1>1 DEF JobsInv, JobOrderly, IsAsync
  <1>2. CASE DispatchAsync
    <2>1. /\ IsAsync(run.pos)
          /\ Len(jobs) \in Nat /\ DOMAIN jobs = 1 .. Len(jobs)
          /\ DOMAIN jobs' = 1 .. Len(jobs) + 1
          /\ \A i \in DOMAIN jobs : jobs'[i] = jobs[i]
          /\ jobs'[Len(jobs) + 1].run.pos = run.pos
          /\ jobs'[Len(jobs) + 1].run.buf = <<>>
          /\ jobs'[Len(jobs) + 1].run.deferred = {}
      BY <1>2, TickAndJobs DEF DispatchAsync, Dispatch
    <2>2. JobOrderly(jobs'[Len(jobs) + 1].run)
      BY <2>1, EmptyBuffer DEF JobOrderly, Orderly
    <2>3. \A i \in DOMAIN jobs' : i = Len(jobs) + 1 \/ i \in DOMAIN jobs
      BY <2>1
    <2> QED
      BY <2>1, <2>2, <2>3 DEF JobsInv, JobOrderly, IsAsync
  <1> QED
    BY <1>1, <1>2, TickAndJobs

-----------------------------------------------------------------------------
(* The jobs of the call, in the ticker's steps.                            *)
LEMMA JobFields ==
  ASSUME JobsOK, NEW i \in DOMAIN jobs
  PROVE  /\ jobs[i] \in Job /\ jobs[i].run \in Run
         /\ jobs[i].run.buf \in Seq(Command)
         /\ Pos(i) \in Nat /\ Pos(i) \in DOMAIN Order
         /\ jobs[i].run.call \in Nat
         /\ i \in Nat /\ i >= 1 /\ i <= Len(jobs) /\ Len(jobs) \in Nat
  <1>1. jobs[i] \in Job /\ jobs[i].run.pos \in DOMAIN Order
    BY DEF JobsOK
  <1>2. jobs[i].run \in Run
    BY <1>1 DEF Job
  <1>3. i \in Nat /\ i >= 1 /\ i <= Len(jobs) /\ Len(jobs) \in Nat
    BY DEF JobsOK
  <1> QED
    BY <1>1, <1>2, <1>3, RunFields DEF Pos

LEMMA JobCmds ==
  ASSUME JobsOK, JobsInv, NEW i \in DOMAIN jobs, ~jobs[i].run.failed,
         NEW c \in Cmds(jobs[i].run.buf)
  PROVE  /\ c \in jobs[i].run.deferred
         /\ c.pos = Pos(i) /\ IsAsync(c.pos) /\ c.pos \in Nat
  BY JobFields DEF JobsInv, JobOrderly, Orderly, Pos

(* Within a call, no command is taken back from the world.                 *)
LEMMA AppliedGrows ==
  ASSUME TypeInv, TickStep
  PROVE  Applied \subseteq Applied'
  <1>t. /\ applied \in Seq(Command) /\ run.buf \in Seq(Command)
        /\ \A i \in DOMAIN jobs : jobs[i].run.buf \in Seq(Command)
    <2>1. run \in Run /\ JobsOK /\ ResultsOK
      BY DEF TypeInv, TickerOK
    <2> QED
      BY <2>1, RunFields, JobFields DEF ResultsOK
  <1>1. ASSUME NEW cmds \in Seq(Command), NEW done \in Nat, done <= Len(cmds),
               ApplyCommands(cmds, done)
        PROVE  Applied \subseteq Applied'
    BY <1>t, <1>1, AppliedCmds
  <1>2. ASSUME NEW failed, Awaited(failed) PROVE handle \in DOMAIN jobs
    <2>1. jobs \in Seq(Job) /\ handle \in Nat \ {0}
      BY DEF TypeInv, JobsOK, ResultsOK
    <2> QED
      BY <1>2, <2>1 DEF Awaited
  <1>3. CASE ApplyJob
    <2> DEFINE cmds == jobs[handle].run.buf
    <2>1. cmds \in Seq(Command) /\ ApplyCommands(cmds, Len(cmds))
      BY <1>t, <1>2, <1>3 DEF ApplyJob
    <2>2. Len(cmds) \in Nat /\ Len(cmds) <= Len(cmds)
      BY <2>1
    <2> QED
      BY <1>1, <2>1, <2>2
  <1>4. CASE ApplyJobFails
    <2> DEFINE cmds == jobs[handle].run.buf
    <2>1. cmds \in Seq(Command)
      BY <1>t, <1>2, <1>4 DEF ApplyJobFails
    <2>2. PICK done \in 0 .. Len(cmds) - 1 : ApplyCommands(cmds, done)
      BY <1>4 DEF ApplyJobFails
    <2>3. done \in Nat /\ done <= Len(cmds)
      BY <2>1, <2>2
    <2> QED
      BY <1>1, <2>1, <2>2, <2>3
  <1>5. CASE ApplyBuffer
    <2>1. Len(run.buf) \in Nat /\ Len(run.buf) <= Len(run.buf)
      BY <1>t
    <2> QED
      BY <1>t, <1>1, <1>5, <2>1 DEF ApplyBuffer
  <1>6. CASE ApplyBufferFails
    <2>1. PICK done \in 0 .. Len(run.buf) - 1 : ApplyCommands(run.buf, done)
      BY <1>6 DEF ApplyBufferFails
    <2>2. done \in Nat /\ done <= Len(run.buf)
      BY <1>t, <2>1
    <2> QED
      BY <1>t, <1>1, <2>1, <2>2
  <1>7. CASE applied' = applied
    BY <1>7 DEF Applied
  <1> QED
    BY <1>3, <1>4, <1>5, <1>6, <1>7 DEF TickStep, AbandonTick, SkipGroup,
       StartGroup, RunSystem, GroupSucceeds, GroupEnds, GroupFailureContinues,
       GroupFailureAborts, DispatchAsync, Dispatch, SubmitReturns, GroupsVisited,
       JobFailureContinues, JobFailureAborts, Commit

(* A step of the ticker stays within its call.                             *)
LEMMA TickKeepsCall ==
  ASSUME TypeInv, TickStep
  PROVE  run'.call = run.call /\ run'.tick = run.tick
  <1>1. run \in Run
    BY DEF TypeInv, TickerOK
  <1>2. CASE Return \/ Visit \/ StartGroup \/ ApplyBuffer
    <2>1. \/ run' = [run EXCEPT !.buf = <<>>]
          \/ run' = [run EXCEPT !.pos = @ + 1]
          \/ run' = [run EXCEPT !.next = 1, !.failed = FALSE]
      BY <1>2 DEF Return, Visit, StartGroup, ApplyBuffer
    <2> QED
      BY <1>1, <2>1 DEF Run
  <1>3. CASE RunSystem
    BY <1>1, <1>3, SystemStepsLemma DEF RunSystem
  <1>4. CASE run' = run
    BY <1>4
  <1> QED
    BY <1>2, <1>3, <1>4 DEF TickStep, AbandonTick, SkipGroup,
       GroupSucceeds, GroupFailureContinues, GroupFailureAborts, DispatchAsync,
       Dispatch, SubmitReturns, GroupsVisited, JobFailureContinues,
       JobFailureAborts, ApplyJob, ApplyJobFails, ApplyBufferFails, Commit

(* The job that is awaited is one of this call.                            *)
LEMMA AwaitedIsOwn ==
  ASSUME TypeInv, OriginInv, NEW failed, Awaited(failed)
  PROVE  /\ handle \in JobsOfCall /\ handle \in DOMAIN jobs
         /\ handle \in Nat /\ handle <= Len(jobs)
         /\ pc = "await" /\ UNCHANGED jobs
         /\ jobs[handle].stage = "done" /\ jobs[handle].run.failed = failed
  <1>1. jobs \in Seq(Job) /\ handle \in Nat \ {0}
    BY DEF TypeInv, JobsOK, ResultsOK
  <1>2. handle \in DOMAIN jobs /\ handle >= handle
    BY <1>1 DEF Awaited
  <1> QED
    BY <1>1, <1>2 DEF Awaited, OriginInv, HandlesOwn, JobsOfCall

LEMMA NewCallHasNoJobs ==
  ASSUME TypeInv, HandledInv, BeginTick
  PROVE  JobsOfCall' = {}
  <1>1. run \in Run /\ JobsOK
    BY DEF TypeInv, TickerOK
  <1>2. run.call \in Nat /\ run'.call = run.call + 1 /\ jobs' = jobs
    BY <1>1, RunFields DEF BeginTick
  <1>3. ASSUME NEW i \in DOMAIN jobs PROVE jobs[i].run.call # run'.call
    <2>1. jobs[i].run.call \in Nat /\ jobs[i].run.call <= run.call
      BY <1>1, JobFields DEF HandledInv
    <2> QED
      BY <1>2, <2>1
  <1> QED
    BY <1>2, <1>3 DEF JobsOfCall

LEMMA TickKeepsHandled ==
  ASSUME TypeInv, OriginInv, HandledInv, BeginTick \/ TickStep
  PROVE  HandledInv'
  <1>t. /\ run \in Run /\ run.call \in Nat /\ run.pos \in Nat /\ handle \in Nat
        /\ JobsOK /\ Len(jobs) \in Nat
    <2>1. run \in Run /\ JobsOK /\ handle \in Nat
      BY DEF TypeInv, TickerOK, ResultsOK
    <2> QED
      BY <2>1, RunFields DEF JobsOK
  <1>1. CASE BeginTick
    <2>1. /\ jobs' = jobs /\ handle' = Len(jobs) + 1 /\ pc' = "groups"
          /\ run'.call = run.call + 1
      BY <1>1 DEF BeginTick, FirstHandle
    <2>2. \A i \in DOMAIN jobs : jobs[i].run.call <= run'.call
      BY <1>t, <2>1, JobFields DEF HandledInv
    <2> QED
      BY <1>1, <1>t, <2>1, <2>2, NewCallHasNoJobs DEF HandledInv
  <1>2. CASE DispatchAsync
    <2> DEFINE n == Len(jobs) + 1
    <2>1. /\ pc = "groups" /\ pc' = "submit"
          /\ UNCHANGED <<run, handle, applied>>
          /\ DOMAIN jobs = 1 .. Len(jobs)
          /\ DOMAIN jobs' = 1 .. n /\ Len(jobs') = n
          /\ \A i \in DOMAIN jobs : jobs'[i] = jobs[i]
          /\ jobs'[n].run.call = run.call /\ jobs'[n].run.pos = run.pos
      BY <1>2, TickAndJobs DEF DispatchAsync, Dispatch
    <2>2. JobsOfCall' = JobsOfCall \cup {n}
      BY <1>t, <2>1 DEF JobsOfCall
    <2>3. \A i \in JobsOfCall : /\ jobs'[i] = jobs[i] /\ i < n /\ i >= handle
                                /\ Pos(i) < run.pos /\ i \in Nat
      BY <1>t, <2>1 DEF JobsOfCall, HandledInv, Visiting
    <2>4. n >= handle
      BY <1>t DEF HandledInv
    <2>5. \A i \in DOMAIN jobs' : jobs'[i].run.call <= run'.call
      BY <1>t, <2>1 DEF HandledInv
    <2>6. ASSUME NEW i \in JobsOfCall', NEW j \in JobsOfCall', i < j
          PROVE  Pos(i)' < Pos(j)'
      <3>1. i \in JobsOfCall
        <4>1. j <= n /\ j \in Nat /\ n \in Nat
          BY <1>t, <2>2, <2>3
        <4>2. i # n
          BY <2>6, <4>1
        <4> QED
          BY <2>2, <4>2
      <3>2. CASE j \in JobsOfCall
        BY <2>3, <2>6, <3>1, <3>2 DEF Pos, HandledInv
      <3>3. CASE j = n
        BY <2>1, <2>3, <3>1, <3>3 DEF Pos
      <3> QED
        BY <2>2, <3>2, <3>3
    <2>7. ASSUME NEW i \in JobsOfCall'
          PROVE  i >= handle' /\ (Pos(i)' < run'.pos \/ Pos(i)' = run'.pos)
      BY <2>1, <2>2, <2>3, <2>4 DEF Pos
    <2>8. \A i \in JobsOfCall' : ~(i < handle')
      BY <1>t, <2>1, <2>2, <2>3, <2>4 DEF JobsOfCall
    <2>9. handle' <= Len(jobs') + 1
      BY <1>t, <2>1, <2>4
    <2> QED
      BY <2>1, <2>5, <2>6, <2>7, <2>8, <2>9 DEF HandledInv
  <1>3. CASE TickStep /\ ~DispatchAsync
    <2>1. /\ jobs' = jobs /\ run'.call = run.call /\ JobsOfCall' = JobsOfCall
          /\ Applied \subseteq Applied'
      BY <1>3, TickAndJobs, TickKeepsCall, AppliedGrows DEF JobsOfCall
    <2>2. /\ \A i \in DOMAIN jobs' : jobs'[i].run.call <= run'.call
          /\ \A i, j \in JobsOfCall' : i < j => Pos(i)' < Pos(j)'
      BY <2>1 DEF HandledInv, Pos
    <2>3. CASE /\ handle' = handle
               /\ Visiting' => /\ Visiting
                               /\ \/ run'.pos = run.pos /\ pc # "submit"
                                  \/ run'.pos = run.pos + 1
               /\ pc' # "commit"
      <3>1. \A i \in JobsOfCall : Pos(i) \in Nat
        BY <1>t, JobFields DEF JobsOfCall
      <3>2. ASSUME Visiting', NEW i \in JobsOfCall'
            PROVE  i >= handle' /\ (Pos(i)' < run'.pos
                                    \/ (pc' = "submit" /\ Pos(i)' = run'.pos))
        BY <1>t, <2>1, <2>3, <3>1, <3>2 DEF HandledInv, Pos
      <3> QED
        BY <2>1, <2>2, <2>3, <3>2 DEF HandledInv
    <2>4. CASE JobFailureContinues \/ ApplyJob
      <3>1. /\ pc = "await" /\ pc' = "await" /\ handle' = handle + 1
            /\ handle \in JobsOfCall /\ handle <= Len(jobs)
            /\ jobs[handle].stage = "done"
        BY <2>4, AwaitedIsOwn DEF JobFailureContinues, ApplyJob
      <3>2. ~jobs[handle].run.failed => Cmds(jobs[handle].run.buf) \subseteq Applied'
        <4>1. CASE JobFailureContinues
          BY <4>1 DEF JobFailureContinues, Awaited
        <4>2. CASE ApplyJob
          <5> DEFINE cmds == jobs[handle].run.buf
          <5>1. cmds \in Seq(Command) /\ applied \in Seq(Command)
            BY <1>t, <3>1, JobFields DEF JobsOfCall, TypeInv, ResultsOK
          <5>2. DOMAIN cmds = 1 .. Len(cmds) /\ Len(cmds) \in Nat /\ Len(cmds) <= Len(cmds)
            BY <5>1
          <5>3. ApplyCommands(cmds, Len(cmds))
            BY <4>2 DEF ApplyJob
          <5>4. Applied' = Applied \cup {cmds[k] : k \in 1 .. Len(cmds)}
            BY <5>1, <5>2, <5>3, AppliedCmds
          <5> QED
            BY <5>2, <5>4 DEF Cmds
        <4> QED
          BY <2>4, <4>1, <4>2
      <3>3. \A i \in JobsOfCall : i < handle + 1 => i < handle \/ i = handle
        BY <1>t DEF JobsOfCall, JobsOK
      <3> QED
        BY <1>t, <2>1, <2>2, <3>1, <3>2, <3>3 DEF HandledInv, Visiting
    <2>5. CASE ApplyBuffer
      BY <1>t, <2>1, <2>2, <2>5
      DEF ApplyBuffer, AllAwaited, HandledInv, Visiting
    <2> QED
      <3>1. Return => pc' = "idle"
        BY DEF Return
      <3>2. Visit => run'.pos = run.pos + 1
        BY <1>t, RunParts DEF Visit
      <3>3. RunSystem => run'.pos = run.pos
        BY <1>t, SystemStepsLemma DEF RunSystem
      <3>4. StartGroup => run'.pos = run.pos
        BY <1>t, RunParts DEF StartGroup
      <3>5. CASE AbandonTick \/ GroupFailureAborts \/ JobFailureAborts \/ ApplyJobFails
                 \/ ApplyBufferFails \/ GroupsVisited
        BY <2>3, <3>1, <3>5
        DEF Visiting, AbandonTick, GroupFailureAborts, GroupEnds, JobFailureAborts,
            ApplyJobFails, ApplyBufferFails, GroupsVisited
      <3>6. CASE SkipGroup \/ GroupSucceeds \/ GroupFailureContinues \/ SubmitReturns
        BY <2>3, <3>2, <3>6
        DEF Visiting, SkipGroup, AtGroup, GroupSucceeds, GroupEnds,
            GroupFailureContinues, SubmitReturns
      <3>7. CASE StartGroup \/ RunSystem
        BY <2>3, <3>3, <3>4, <3>7
        DEF Visiting, StartGroup, GroupDue, AtGroup, RunSystem
      <3>8. CASE Commit
        BY <2>3, <3>1, <3>8 DEF Visiting, Commit
      <3> QED
        BY <1>3, <2>4, <2>5, <3>5, <3>6, <3>7, <3>8 DEF TickStep
  <1> QED
    BY <1>1, <1>2, <1>3

-----------------------------------------------------------------------------
(* What was applied, in the ticker's steps.                                *)
LEMMA SameEffects ==
  ASSUME UNCHANGED jobs, run'.call = run.call, run'.deferred = run.deferred
  PROVE  JobsOfCall' = JobsOfCall /\ Effects' = Effects
  BY DEF JobsOfCall, Effects

LEMMA NothingApplied ==
  ASSUME applied = <<>>, pc # "commit"
  PROVE  AppliedInv
  <1>1. Applied = {} /\ DOMAIN applied = {}
    BY DEF Applied
  <1> QED
    BY <1>1 DEF AppliedInv, AppliedInOrder

(* Two jobs of the call: the commands of the earlier one go first.         *)
LEMMA JobsInOrder ==
  ASSUME JobsOK, JobsInv, HandledInv,
         NEW i \in JobsOfCall, NEW j \in JobsOfCall, i < j,
         NEW c, c.pos = Pos(i), NEW d, d.pos = Pos(j)
  PROVE  Before(c, d) /\ ~Before(d, c)
  <1>1. /\ i \in DOMAIN jobs /\ j \in DOMAIN jobs
        /\ Pos(i) \in Nat /\ Pos(j) \in Nat
    BY JobFields DEF JobsOfCall
  <1>2. Pos(i) < Pos(j)
    BY DEF HandledInv
  <1>3. IsAsync(Pos(i)) /\ IsAsync(Pos(j))
    BY <1>1 DEF JobsInv, JobOrderly, Pos
  <1> QED
    BY <1>1, <1>2, <1>3 DEF Before, PosBefore

LEMMA AsyncFirst ==
  ASSUME NEW c, IsAsync(c.pos), NEW d, ~IsAsync(d.pos)
  PROVE  Before(c, d) /\ ~Before(d, c)
  BY DEF Before, PosBefore

(* While the ticker awaits the jobs, it has only applied the commands of   *)
(* those it has got.                                                       *)
LEMMA AppliedWhileAwaiting ==
  ASSUME AppliedInv, pc = "await", NEW c \in Applied
  PROVE  \E i \in JobsOfCall : /\ i < handle /\ ~jobs[i].run.failed
                               /\ c \in Cmds(jobs[i].run.buf)
  BY DEF AppliedInv, FromJob, FromBuffer

(* Applying the job at the handle keeps the order.                         *)
LEMMA ApplyingJobKeepsOrder ==
  ASSUME TypeInv, BufferInv, JobsInv, HandledInv, AppliedInv,
         pc = "await", handle \in JobsOfCall, ~jobs[handle].run.failed,
         NEW done \in Nat, done <= Len(jobs[handle].run.buf),
         ApplyCommands(jobs[handle].run.buf, done), Effects' = Effects
  PROVE  /\ AppliedInOrder'
         /\ Applied' \subseteq Applied \cup Cmds(jobs[handle].run.buf)
  <1> DEFINE cmds == jobs[handle].run.buf
  <1>1. /\ JobsOK /\ handle \in DOMAIN jobs /\ applied \in Seq(Command)
        /\ cmds \in Seq(Command)
        /\ \A i \in JobsOfCall : i \in DOMAIN jobs /\ i \in Nat
        /\ AppliedInOrder
    BY JobFields DEF TypeInv, ResultsOK, JobsOfCall, AppliedInv
  <1>2. Sorted(cmds)
    BY <1>1 DEF JobsInv, JobOrderly, Orderly
  <1>3. \A c \in Cmds(cmds) : c.pos = Pos(handle) /\ IsAsync(c.pos) = TRUE
    <2>1. \A c \in Cmds(cmds) : c.pos = Pos(handle)
      BY <1>1, JobCmds
    <2>2. IsAsync(Pos(handle))
      BY <1>1 DEF JobsInv, JobOrderly, Pos
    <2>3. IsAsync(Pos(handle)) = TRUE
      BY <2>2 DEF IsAsync
    <2> QED
      BY <2>1, <2>3
  <1>4. ASSUME NEW c \in Applied, NEW d \in Cmds(cmds) PROVE Before(c, d)
    <2>1. PICK i \in JobsOfCall : /\ i < handle /\ ~jobs[i].run.failed
                                  /\ c \in Cmds(jobs[i].run.buf)
      BY AppliedWhileAwaiting
    <2>2. c.pos = Pos(i)
      BY <1>1, <2>1, JobCmds
    <2> QED
      BY <1>1, <1>3, <2>1, <2>2, JobsInOrder
  <1>5. ASSUME NEW d \in Effects
        PROVE  d \in Cmds(cmds) \/ d \in Applied \/ \A c \in Cmds(cmds) : ~Before(d, c)
    <2>1. CASE d \in run.deferred
      <3>1. ~IsAsync(d.pos)
        BY <2>1 DEF BufferInv
      <3> QED
        BY <1>3, <3>1, AsyncFirst
    <2>2. ASSUME NEW j \in JobsOfCall, ~jobs[j].run.failed, d \in jobs[j].run.deferred
          PROVE  d \in Cmds(cmds) \/ d \in Applied \/ \A c \in Cmds(cmds) : ~Before(d, c)
      <3>1. d \in Cmds(jobs[j].run.buf) /\ d.pos = Pos(j)
        BY <1>1, <2>2 DEF JobsInv, JobOrderly, Orderly, Pos
      <3>2. CASE j < handle
        BY <2>2, <3>1, <3>2 DEF HandledInv
      <3>3. CASE j = handle
        BY <3>1, <3>3
      <3>4. CASE handle < j
        BY <1>1, <1>3, <2>2, <3>1, <3>4, JobsInOrder
      <3>5. j < handle \/ j = handle \/ handle < j
        BY <1>1
      <3> QED
        BY <3>2, <3>3, <3>4, <3>5
    <2> QED
      BY <2>1, <2>2, EffectsFacts
  <1>6. Applied' = Applied \cup {cmds[k] : k \in 1 .. done}
    BY <1>1, AppliedCmds
  <1>7. {cmds[k] : k \in 1 .. done} \subseteq Cmds(cmds)
    BY <1>1 DEF Cmds
  <1>8. AppliedInOrder'
    <2> HIDE DEF cmds
    <2> DEFINE async == TRUE
    <2>1. async \in BOOLEAN /\ \A c \in Cmds(cmds) : IsAsync(c.pos) = async
      BY <1>3
    <2>2. done <= Len(cmds) /\ ApplyCommands(cmds, done)
      BY DEF cmds
    <2> HIDE DEF async
    <2> QED
      BY <1>1, <1>2, <1>4, <1>5, <2>1, <2>2, ApplyKeepsOrder
  <1> QED
    BY <1>6, <1>7, <1>8

(* Applying the ticker's buffer, once every job was awaited, keeps the     *)
(* order.                                                                  *)
LEMMA ApplyingBufferKeepsOrder ==
  ASSUME TypeInv, BufferInv, JobsInv, HandledInv, AppliedInv, AllAwaited,
         NEW done \in Nat, done <= Len(run.buf),
         ApplyCommands(run.buf, done), Effects' = Effects
  PROVE  /\ AppliedInOrder'
         /\ Applied' = Applied \cup {run.buf[k] : k \in 1 .. done}
         /\ {run.buf[k] : k \in 1 .. done} \subseteq run.deferred
  <1>1. /\ JobsOK /\ applied \in Seq(Command) /\ run.buf \in Seq(Command)
        /\ AppliedInOrder /\ pc = "await" /\ handle > Len(jobs) /\ handle \in Nat
        /\ Len(jobs) \in Nat
    <2>1. run \in Run /\ ResultsOK /\ JobsOK
      BY DEF TypeInv, TickerOK
    <2> QED
      BY <2>1, RunFields DEF ResultsOK, JobsOK, AppliedInv, AllAwaited
  <1>2. Sorted(run.buf) /\ Cmds(run.buf) = run.deferred
    BY <1>1 DEF BufferInv
  <1>3. \A c \in Cmds(run.buf) : ~IsAsync(c.pos)
    BY <1>2 DEF BufferInv
  <1>4. ASSUME NEW c \in Applied, NEW d \in Cmds(run.buf) PROVE Before(c, d)
    <2>1. PICK i \in JobsOfCall : /\ i < handle /\ ~jobs[i].run.failed
                                  /\ c \in Cmds(jobs[i].run.buf)
      BY <1>1, AppliedWhileAwaiting
    <2>2. IsAsync(c.pos)
      BY <1>1, <2>1, JobCmds DEF JobsOfCall
    <2> QED
      BY <1>3, <2>2, AsyncFirst
  <1>5. ASSUME NEW d \in Effects PROVE d \in Cmds(run.buf) \/ d \in Applied
    <2>1. ASSUME NEW j \in JobsOfCall, ~jobs[j].run.failed, d \in jobs[j].run.deferred
          PROVE  d \in Applied
      <3>1. j \in DOMAIN jobs
        BY DEF JobsOfCall
      <3>2. d \in Cmds(jobs[j].run.buf)
        BY <2>1, <3>1 DEF JobsInv, JobOrderly, Orderly
      <3>3. j < handle
        BY <1>1, <3>1, JobFields
      <3> QED
        BY <2>1, <3>2, <3>3 DEF HandledInv
    <2> QED
      BY <1>2, <2>1, EffectsFacts
  <1>6. Applied' = Applied \cup {run.buf[k] : k \in 1 .. done}
    BY <1>1, AppliedCmds
  <1>7. {run.buf[k] : k \in 1 .. done} \subseteq Cmds(run.buf)
    BY <1>1 DEF Cmds
  <1>8. AppliedInOrder'
    <2> DEFINE async == FALSE
    <2>1. async \in BOOLEAN /\ \A c \in Cmds(run.buf) : IsAsync(c.pos) = async
      BY <1>3 DEF IsAsync
    <2> HIDE DEF async
    <2> QED
      BY <1>1, <1>2, <1>4, <1>5, <2>1, ApplyKeepsOrder
  <1> QED
    BY <1>2, <1>6, <1>7, <1>8

LEMMA TickKeepsApplied ==
  ASSUME TypeInv, OriginInv, BufferInv, JobsInv, HandledInv, AppliedInv,
         BeginTick \/ TickStep
  PROVE  AppliedInv'
  <1>r. run \in Run /\ JobsOK
    BY DEF TypeInv, TickerOK
  <1>1. CASE applied' = <<>> /\ pc' # "commit"
    BY <1>1, NothingApplied DEF AppliedInv, AppliedInOrder, Applied, Effects
  <1>2. CASE JobFailureContinues
    <2>1. /\ pc = "await" /\ pc' = "await" /\ handle' = handle + 1
          /\ UNCHANGED <<applied, run, jobs>> /\ handle \in Nat
      BY <1>2, AwaitedIsOwn DEF JobFailureContinues
    <2>2. JobsOfCall' = JobsOfCall /\ Effects' = Effects /\ Applied' = Applied
      BY <2>1, SameEffects DEF Applied
    <2>3. AppliedInOrder'
      BY <2>1, <2>2 DEF AppliedInv, AppliedInOrder
    <2>4. ASSUME NEW c \in Applied' PROVE FromJob(c)'
      <3>1. PICK i \in JobsOfCall :
              /\ i < handle /\ jobs[i].stage = "done" /\ ~jobs[i].run.failed
              /\ c \in Cmds(jobs[i].run.buf)
        BY <2>1, <2>2, <2>4 DEF AppliedInv, FromJob, FromBuffer
      <3>2. i \in Nat
        BY <1>r, JobFields DEF JobsOfCall
      <3>3. i < handle' /\ i <= handle'
        BY <2>1, <3>1, <3>2
      <3> QED
        BY <2>1, <2>2, <3>1, <3>3 DEF FromJob
    <2> QED
      BY <2>1, <2>3, <2>4 DEF AppliedInv, Visiting
  <1>3. CASE JobFailureAborts \/ Commit
    <2>1. /\ pc \in {"await", "commit"} /\ pc' = "idle"
          /\ UNCHANGED <<applied, jobs, handle>>
          /\ run'.deferred = run.deferred /\ run'.call = run.call
      BY <1>3, <1>r, RunParts DEF JobFailureAborts, Awaited, Commit, Return
    <2>2. JobsOfCall' = JobsOfCall /\ Effects' = Effects /\ Applied' = Applied
      BY <2>1, SameEffects DEF Applied
    <2>3. AppliedInOrder'
      BY <2>1, <2>2 DEF AppliedInv, AppliedInOrder
    <2>4. ASSUME NEW c \in Applied' PROVE FromJob(c)' \/ FromBuffer(c)'
      BY <2>1, <2>2, <2>4 DEF AppliedInv, FromJob, FromBuffer
    <2> QED
      BY <2>1, <2>3, <2>4 DEF AppliedInv, Visiting
  <1>4. ASSUME Awaited(FALSE), NEW done \in Nat, done <= Len(jobs[handle].run.buf),
               ApplyCommands(jobs[handle].run.buf, done),
               run'.call = run.call, run'.deferred = run.deferred,
               \/ pc' = "await" /\ handle' = handle + 1
               \/ pc' = "idle" /\ handle' = handle
        PROVE  AppliedInv'
    <2>1. /\ pc = "await" /\ jobs' = jobs /\ handle \in JobsOfCall /\ handle \in Nat
          /\ ~jobs[handle].run.failed /\ jobs[handle].stage = "done"
      BY <1>4, AwaitedIsOwn
    <2>2. JobsOfCall' = JobsOfCall /\ Effects' = Effects
      BY <1>4, <2>1, SameEffects
    <2>3. /\ AppliedInOrder'
          /\ Applied' \subseteq Applied \cup Cmds(jobs[handle].run.buf)
      BY <1>4, <2>1, <2>2, ApplyingJobKeepsOrder
    <2>4. ASSUME NEW c \in Applied' PROVE FromJob(c)'
      <3>1. PICK i \in JobsOfCall :
              /\ i <= handle /\ jobs[i].stage = "done" /\ ~jobs[i].run.failed
              /\ c \in Cmds(jobs[i].run.buf)
        BY <2>1, <2>3, <2>4 DEF AppliedInv, FromJob, FromBuffer
      <3>2. i \in Nat
        BY <1>r, JobFields DEF JobsOfCall
      <3>3. i <= handle' /\ (pc' # "idle" => i < handle')
        BY <1>4, <2>1, <3>1, <3>2
      <3> QED
        BY <2>1, <2>2, <3>1, <3>3 DEF FromJob
    <2> QED
      BY <1>4, <2>3, <2>4 DEF AppliedInv, Visiting
  <1>5. CASE ApplyJob
    <2>1. /\ Awaited(FALSE) /\ pc' = pc /\ run' = run /\ handle' = handle + 1
          /\ ApplyCommands(jobs[handle].run.buf, Len(jobs[handle].run.buf))
      BY <1>5 DEF ApplyJob
    <2>2. jobs[handle].run.buf \in Seq(Command) /\ pc = "await"
      BY <1>r, <2>1, AwaitedIsOwn, JobFields
    <2>3. Len(jobs[handle].run.buf) \in Nat
          /\ Len(jobs[handle].run.buf) <= Len(jobs[handle].run.buf)
      BY <2>2
    <2> QED
      BY <1>4, <2>1, <2>2, <2>3
  <1>6. CASE ApplyJobFails
    <2>1. Awaited(FALSE) /\ Return /\ handle' = handle
      BY <1>6 DEF ApplyJobFails
    <2>2. jobs[handle].run.buf \in Seq(Command)
      BY <1>r, <2>1, AwaitedIsOwn, JobFields
    <2>3. PICK done \in 0 .. Len(jobs[handle].run.buf) - 1 :
            ApplyCommands(jobs[handle].run.buf, done)
      BY <1>6 DEF ApplyJobFails
    <2>4. done \in Nat /\ done <= Len(jobs[handle].run.buf)
      BY <2>2, <2>3
    <2>5. pc' = "idle" /\ run'.call = run.call /\ run'.deferred = run.deferred
      BY <1>r, <2>1, RunParts DEF Return
    <2> QED
      BY <1>4, <2>1, <2>3, <2>4, <2>5
  <1>7. ASSUME AllAwaited, NEW done \in Nat, done <= Len(run.buf),
               ApplyCommands(run.buf, done), UNCHANGED <<handle, jobs>>,
               run'.call = run.call, run'.deferred = run.deferred,
               \/ pc' = "commit" /\ done = Len(run.buf)
               \/ pc' = "idle"
        PROVE  AppliedInv'
    <2>1. /\ pc = "await" /\ handle > Len(jobs)
      BY <1>7 DEF AllAwaited
    <2>2. JobsOfCall' = JobsOfCall /\ Effects' = Effects
      BY <1>7, SameEffects
    <2>3. /\ AppliedInOrder'
          /\ Applied' = Applied \cup {run.buf[k] : k \in 1 .. done}
          /\ {run.buf[k] : k \in 1 .. done} \subseteq run.deferred
      BY <1>7, <2>2, ApplyingBufferKeepsOrder
    <2>4. ASSUME NEW c \in Applied' PROVE FromJob(c)' \/ FromBuffer(c)'
      <3>1. CASE c \in Applied
        BY <1>7, <2>1, <2>2, <3>1 DEF AppliedInv, FromJob, FromBuffer
      <3>2. CASE c \in run.deferred
        BY <1>7, <2>1, <3>2 DEF FromBuffer
      <3> QED
        BY <2>3, <2>4, <3>1, <3>2
    <2>5. ASSUME pc' = "commit" PROVE run'.deferred \subseteq Applied'
      <3>1. run.buf \in Seq(Command)
        BY <1>r, RunFields
      <3>2. DOMAIN run.buf = 1 .. done
        BY <1>7, <2>5, <3>1
      <3>3. Cmds(run.buf) = run.deferred
        BY <2>1 DEF BufferInv
      <3> QED
        BY <1>7, <2>3, <3>2, <3>3 DEF Cmds
    <2> QED
      BY <1>7, <2>3, <2>4, <2>5 DEF AppliedInv, Visiting
  <1>8. CASE ApplyBuffer
    <2>1. /\ AllAwaited /\ ApplyCommands(run.buf, Len(run.buf)) /\ pc' = "commit"
          /\ UNCHANGED <<handle, jobs>>
          /\ run'.call = run.call /\ run'.deferred = run.deferred
      BY <1>8, <1>r, RunParts DEF ApplyBuffer
    <2>2. run.buf \in Seq(Command)
      BY <1>r, RunFields
    <2>3. Len(run.buf) \in Nat /\ Len(run.buf) <= Len(run.buf)
      BY <2>2
    <2> QED
      BY <1>7, <2>1, <2>3
  <1>9. CASE ApplyBufferFails
    <2>1. /\ AllAwaited /\ pc' = "idle" /\ UNCHANGED <<handle, jobs>>
          /\ run'.call = run.call /\ run'.deferred = run.deferred
      BY <1>9, <1>r, RunParts DEF ApplyBufferFails, Return
    <2>2. run.buf \in Seq(Command)
      BY <1>r, RunFields
    <2>3. PICK done \in 0 .. Len(run.buf) - 1 : ApplyCommands(run.buf, done)
      BY <1>9 DEF ApplyBufferFails
    <2>4. done \in Nat /\ done <= Len(run.buf)
      BY <2>2, <2>3
    <2> QED
      BY <1>7, <2>1, <2>3, <2>4
  <1>10. CASE BeginTick
    BY <1>1, <1>10 DEF BeginTick
  <1>11. ASSUME Visiting, applied' = applied, pc' # "commit" PROVE AppliedInv'
    BY <1>1, <1>11 DEF AppliedInv
  <1>12. CASE AbandonTick \/ SkipGroup \/ StartGroup \/ RunSystem \/ GroupSucceeds
              \/ GroupFailureContinues \/ GroupFailureAborts
    BY <1>11, <1>12
    DEF Visiting, Return, AtGroup, GroupDue, AbandonTick, SkipGroup, StartGroup,
        RunSystem, GroupEnds, GroupSucceeds, GroupFailureContinues, GroupFailureAborts
  <1>13. CASE DispatchAsync \/ SubmitReturns \/ GroupsVisited
    BY <1>11, <1>13
    DEF Visiting, AtGroup, GroupDue, DispatchAsync, Dispatch, SubmitReturns, GroupsVisited
  <1> QED
    BY <1>2, <1>3, <1>5, <1>6, <1>8, <1>9, <1>10, <1>12, <1>13 DEF TickStep

-----------------------------------------------------------------------------
(* What was published, in the ticker's steps.                              *)
LEMMA Publishing ==
  ASSUME published \in Seq(Summary), NEW r \in Run,
         published' = Append(published, SummaryOf(r)), SummariesSorted,
         \A p \in Reported : ReportedBefore(p, r.pos)
  PROVE  SummariesSorted' /\ Reported' = Reported \cup {r.pos}
  <1>1. SummaryOf(r) \in Summary /\ SummaryOf(r).pos = r.pos
    BY RunFields DEF SummaryOf
  <1>2. /\ DOMAIN published = 1 .. Len(published) /\ Len(published) \in Nat
        /\ DOMAIN published' = 1 .. Len(published) + 1
        /\ published'[Len(published) + 1].pos = r.pos
        /\ \A k \in 1 .. Len(published) : published'[k] = published[k]
    BY <1>1
  <1>3. ASSUME NEW k \in DOMAIN published', NEW l \in DOMAIN published', k < l
        PROVE  ReportedBefore(published'[k].pos, published'[l].pos)
    <2>1. k \in 1 .. Len(published)
          /\ (l = Len(published) + 1 \/ l \in 1 .. Len(published))
      BY <1>2, <1>3
    <2>2. CASE l = Len(published) + 1
      BY <1>2, <2>1, <2>2 DEF Reported
    <2>3. CASE l \in 1 .. Len(published)
      BY <1>2, <1>3, <2>1, <2>3 DEF SummariesSorted
    <2> QED
      BY <2>1, <2>2, <2>3
  <1>4. SummariesSorted'
    BY <1>3 DEF SummariesSorted, ReportedBefore, IsAsync
  <1>5. ASSUME NEW p \in Reported' PROVE p \in Reported \cup {r.pos}
    <2>1. PICK k \in 1 .. Len(published) + 1 : p = published'[k].pos
      BY <1>2, <1>5 DEF Reported
    <2>2. k = Len(published) + 1 \/ k \in 1 .. Len(published)
      BY <1>2, <2>1
    <2> QED
      BY <1>2, <2>1, <2>2 DEF Reported
  <1>6. Len(published) + 1 \in DOMAIN published'
        /\ \A k \in DOMAIN published : k \in DOMAIN published'
    BY <1>2
  <1>7. ASSUME NEW p \in Reported \cup {r.pos} PROVE p \in Reported'
    BY <1>2, <1>6, <1>7 DEF Reported
  <1> QED
    BY <1>4, <1>5, <1>7

(* The summary of a synchronized group comes after those of the groups     *)
(* before it; that of an async group after everything published so far.    *)
LEMMA GroupIsNext ==
  ASSUME TypeInv, BufferInv, HandledInv, SummariesInv, pc = "running",
         NEW p \in Reported
  PROVE  ReportedBefore(p, run.pos)
  <1>1. p \in DOMAIN Order /\ ~IsAsync(run.pos)
    BY DEF SummariesInv, BufferInv
  <1>2. ~AsyncReported(p)
    <2> SUFFICES ASSUME AsyncReported(p) PROVE FALSE
      OBVIOUS
    <2>1. PICK i \in JobsOfCall : i < handle
      BY DEF AsyncReported
    <2>2. i \in Nat /\ handle \in Nat
      <3>1. JobsOK /\ handle \in Nat
        BY DEF TypeInv, ResultsOK
      <3> QED
        BY <3>1, JobFields DEF JobsOfCall
    <2>3. i >= handle
      BY DEF HandledInv, Visiting
    <2> QED
      BY <2>1, <2>2, <2>3
  <1>3. ~IsAsync(p) /\ p < run.pos
    BY <1>1, <1>2 DEF SummariesInv
  <1> QED
    BY <1>1, <1>3 DEF ReportedBefore, IsAsync

LEMMA JobIsNext ==
  ASSUME TypeInv, JobsInv, HandledInv, SummariesInv, pc = "await",
         handle \in JobsOfCall, NEW p \in Reported
  PROVE  ReportedBefore(p, Pos(handle))
  <1>1. IsAsync(Pos(handle)) /\ p \in DOMAIN Order
    BY DEF JobsInv, JobOrderly, JobsOfCall, Pos, SummariesInv
  <1>2. CASE IsAsync(p)
    <2>1. PICK i \in JobsOfCall : i < handle /\ Pos(i) = p
      BY <1>1, <1>2 DEF SummariesInv, AsyncReported
    <2>2. p < Pos(handle)
      BY <2>1 DEF HandledInv
    <2> QED
      BY <1>1, <1>2, <2>2 DEF ReportedBefore
  <1>3. CASE ~IsAsync(p)
    BY <1>1, <1>3 DEF ReportedBefore, IsAsync
  <1> QED
    BY <1>2, <1>3

LEMMA TickKeepsSummaries ==
  ASSUME TypeInv, OriginInv, BufferInv, JobsInv, HandledInv, SummariesInv,
         BeginTick \/ TickStep
  PROVE  SummariesInv'
  <1>t. /\ run \in Run /\ run.pos \in Nat /\ run.pos >= 1 /\ handle \in Nat /\ JobsOK
        /\ published \in Seq(Summary)
        /\ DOMAIN Order = 1 .. Len(Order) /\ Len(Order) \in Nat
        /\ pc \in {"running", "submit"} => run.pos \in DOMAIN Order
    <2>1. /\ run \in Run /\ run.pos >= 1 /\ handle \in Nat /\ JobsOK
          /\ published \in Seq(Summary)
          /\ pc \in {"running", "submit"} => run.pos \in DOMAIN Order
      BY DEF TypeInv, TickerOK, ResultsOK
    <2>2. DOMAIN Order = 1 .. Len(Order) /\ Len(Order) \in Nat
      BY SchedulerAssumption
    <2> QED
      BY <2>1, <2>2, RunFields
  <1>s. published' = published => SummariesSorted' /\ Reported' = Reported
    BY DEF SummariesInv, SummariesSorted, ReportedBefore, IsAsync, Reported
  <1>i. \A i \in JobsOfCall : i \in Nat /\ i \in DOMAIN jobs
    BY <1>t, JobFields DEF JobsOfCall
  (* A step that publishes nothing and handles no job.                     *)
  <1>1. ASSUME UNCHANGED <<jobs, handle, published>>, TickStep, pc # "idle",
               \/ pc' = "idle"
               \/ /\ run'.pos = run.pos
                  /\ pc' # "submit"
                  /\ pc' \in {"await", "commit"} =>
                       \/ pc \in {"await", "commit"}
                       \/ run.pos > Len(Order)
               \/ /\ run'.pos = run.pos + 1
                  /\ pc' = "groups"
                  /\ \/ IsAsync(run.pos)
                     \/ ~ShouldRunTick(run.tick, Interval[Order[run.pos]])
        PROVE  SummariesInv'
    <2>1. /\ JobsOfCall' = JobsOfCall /\ run'.tick = run.tick
          /\ SummariesSorted' /\ Reported' = Reported
      BY <1>1, <1>s, TickKeepsCall DEF JobsOfCall
    <2>2. \A p : AsyncReported(p)' <=> AsyncReported(p)
      BY <1>1, <2>1 DEF AsyncReported, Pos
    <2>3. ASSUME pc' # "idle", NEW p \in DOMAIN Order, ~IsAsync(p),
                 ShouldRunTick(run.tick, Interval[Order[p]])
          PROVE  p < run'.pos <=> p < run.pos
      <3>1. p \in Nat
        BY <1>t
      <3>2. run'.pos = run.pos \/ (run'.pos = run.pos + 1 /\ p # run.pos)
        BY <1>1, <2>3
      <3> QED
        BY <1>t, <3>1, <3>2
    <2>4. ASSUME pc' # "idle", NEW p \in DOMAIN Order
          PROVE  p \in Reported' <=>
                   IF IsAsync(p)
                     THEN AsyncReported(p)'
                     ELSE p < run'.pos /\ ShouldRunTick(run'.tick, Interval[Order[p]])
      BY <1>1, <2>1, <2>2, <2>3, <2>4 DEF SummariesInv
    <2>5. /\ pc' # "submit"
          /\ pc' \in {"await", "commit"} => run'.pos > Len(Order)
      BY <1>1 DEF SummariesInv
    <2> QED
      BY <2>1, <2>4, <2>5 DEF SummariesInv, IsAsync
  <1>2. CASE BeginTick
    <2>1. published' = <<>> /\ pc' = "groups" /\ run'.pos = 1
      BY <1>2 DEF BeginTick
    <2>2. DOMAIN published' = {}
      BY <2>1
    <2>3. JobsOfCall' = {}
      BY <1>2, NewCallHasNoJobs
    <2>4. Reported' = {} /\ SummariesSorted' /\ \A p : ~AsyncReported(p)'
      BY <2>2, <2>3 DEF Reported, SummariesSorted, AsyncReported
    <2>5. \A p \in DOMAIN Order : ~(p < run'.pos)
      BY <1>t, <2>1
    <2> QED
      BY <2>1, <2>4, <2>5 DEF SummariesInv, IsAsync
  <1>3. CASE AbandonTick \/ ApplyBufferFails \/ Commit
    BY <1>1, <1>3
    DEF TickStep, AbandonTick, AtGroup, ApplyBufferFails, AllAwaited, Commit, Return
  <1>4. CASE SkipGroup
    <2>1. run'.pos = run.pos + 1
      BY <1>4, <1>t, RunParts DEF SkipGroup, Visit
    <2> QED
      BY <1>1, <1>4, <2>1 DEF TickStep, SkipGroup, AtGroup, Group
  <1>5. CASE StartGroup \/ RunSystem
    <2>1. run'.pos = run.pos
      BY <1>5, <1>t, RunParts, SystemStepsLemma DEF StartGroup, RunSystem
    <2> QED
      BY <1>1, <1>5, <2>1 DEF TickStep, StartGroup, GroupDue, AtGroup, RunSystem
  <1>6. CASE SubmitReturns
    <2>1. run'.pos = run.pos + 1 /\ IsAsync(run.pos)
      BY <1>6, <1>t, RunParts DEF SubmitReturns, Visit, SummariesInv
    <2> QED
      BY <1>1, <1>6, <2>1 DEF TickStep, SubmitReturns
  <1>7. CASE GroupsVisited
    BY <1>1, <1>7 DEF TickStep, GroupsVisited
  <1>8. CASE ApplyBuffer
    <2>1. run'.pos = run.pos
      BY <1>8, <1>t, RunParts DEF ApplyBuffer
    <2> QED
      BY <1>1, <1>8, <2>1 DEF TickStep, ApplyBuffer, AllAwaited
  <1>9. CASE DispatchAsync
    <2>1. /\ pc = "groups" /\ pc' = "submit" /\ IsAsync(run.pos)
          /\ UNCHANGED <<run, handle, published>>
          /\ Len(jobs) \in Nat /\ DOMAIN jobs = 1 .. Len(jobs)
          /\ DOMAIN jobs' = 1 .. Len(jobs) + 1
          /\ \A i \in DOMAIN jobs : jobs'[i] = jobs[i]
      BY <1>9, TickAndJobs DEF DispatchAsync, Dispatch
    <2>2. \A i \in JobsOfCall' : ~(i < handle')
      <3> SUFFICES ASSUME NEW i \in JobsOfCall' PROVE ~(i < handle)
        BY <2>1
      <3>1. CASE i \in DOMAIN jobs
        <4>1. i \in JobsOfCall
          BY <2>1, <3>1 DEF JobsOfCall
        <4> QED
          BY <1>t, <1>i, <2>1, <4>1 DEF HandledInv, Visiting
      <3>2. CASE ~(i \in DOMAIN jobs)
        <4>1. i = Len(jobs) + 1
          BY <2>1, <3>2 DEF JobsOfCall
        <4> QED
          BY <1>t, <2>1, <4>1 DEF HandledInv
      <3> QED
        BY <3>1, <3>2
    <2>3. \A i \in JobsOfCall : ~(i < handle)
      BY <1>t, <1>i, <2>1 DEF HandledInv, Visiting
    <2>4. \A p : AsyncReported(p)' <=> AsyncReported(p)
      BY <2>2, <2>3 DEF AsyncReported
    <2> QED
      BY <1>s, <2>1, <2>4 DEF SummariesInv, IsAsync
  <1>10. CASE GroupSucceeds \/ GroupFailureContinues \/ GroupFailureAborts
    <2>1. /\ pc = "running" /\ published' = Append(published, SummaryOf(run))
          /\ UNCHANGED <<handle, jobs>> /\ TickStep
      BY <1>10 DEF GroupSucceeds, GroupFailureContinues, GroupFailureAborts, GroupEnds,
                   TickStep
    <2>2. SummariesSorted' /\ Reported' = Reported \cup {run.pos}
      BY <1>t, <2>1, GroupIsNext, Publishing DEF SummariesInv
    <2>3. /\ run.pos \in DOMAIN Order /\ ~IsAsync(run.pos)
          /\ ShouldRunTick(run.tick, Interval[Order[run.pos]])
      BY <1>t, <2>1 DEF BufferInv
    <2>4. Reported' \subseteq DOMAIN Order
      BY <2>2, <2>3 DEF SummariesInv
    <2>5. CASE pc' = "idle"
      BY <2>2, <2>4, <2>5 DEF SummariesInv, IsAsync
    <2>6. CASE pc' = "groups" /\ Visit
      <3>1. /\ run'.pos = run.pos + 1 /\ run'.tick = run.tick
            /\ JobsOfCall' = JobsOfCall
        BY <1>t, <2>1, <2>6, RunParts, TickKeepsCall DEF Visit, JobsOfCall
      <3>2. \A p : AsyncReported(p)' <=> AsyncReported(p)
        BY <2>1, <3>1 DEF AsyncReported, Pos
      <3>3. ASSUME NEW p \in DOMAIN Order
            PROVE  p \in Reported' <=>
                     IF IsAsync(p)
                       THEN AsyncReported(p)'
                       ELSE p < run'.pos /\ ShouldRunTick(run'.tick, Interval[Order[p]])
        <4>1. p \in Nat /\ (p < run'.pos <=> p < run.pos \/ p = run.pos)
          BY <1>t, <3>1
        <4> QED
          BY <2>1, <2>2, <2>3, <3>1, <3>2, <4>1 DEF SummariesInv
      <3> QED
        BY <2>2, <2>4, <2>6, <3>3 DEF SummariesInv, IsAsync
    <2> QED
      BY <1>10, <2>5, <2>6
      DEF GroupSucceeds, GroupFailureContinues, GroupFailureAborts, Return
  <1>11. CASE JobFailureContinues \/ JobFailureAborts \/ ApplyJob \/ ApplyJobFails
    <2>1. PICK failed \in BOOLEAN : Awaited(failed)
      BY <1>11 DEF JobFailureContinues, JobFailureAborts, ApplyJob, ApplyJobFails
    <2>2. /\ pc = "await" /\ jobs' = jobs /\ handle \in JobsOfCall
          /\ handle \in DOMAIN jobs
      BY <2>1, AwaitedIsOwn
    <2>3. /\ jobs[handle].run \in Run /\ Pos(handle) \in DOMAIN Order
          /\ IsAsync(Pos(handle))
      BY <1>t, <2>2, JobFields DEF JobsInv, JobOrderly, Pos
    <2>4. SummariesSorted'
          /\ Reported' = Reported \cup (IF jobs[handle].ran THEN {Pos(handle)} ELSE {})
      <3>1. CASE ~jobs[handle].ran
        BY <1>s, <2>1, <3>1 DEF Awaited
      <3>2. CASE jobs[handle].ran
        <4>1. published' = Append(published, SummaryOf(jobs[handle].run))
          BY <2>1, <3>2 DEF Awaited
        <4>2. \A p \in Reported : ReportedBefore(p, jobs[handle].run.pos)
          BY <2>2, JobIsNext DEF Pos
        <4> QED
          BY <1>t, <2>3, <3>2, <4>1, <4>2, Publishing DEF SummariesInv, Pos
      <3> QED
        BY <3>1, <3>2
    <2>5. Reported' \subseteq DOMAIN Order
      BY <2>3, <2>4 DEF SummariesInv
    <2>6. CASE pc' = "idle"
      BY <2>4, <2>5, <2>6 DEF SummariesInv, IsAsync
    <2>7. CASE pc' = "await" /\ run' = run /\ handle' = handle + 1
      <3>1. JobsOfCall' = JobsOfCall
        BY <2>2, <2>7 DEF JobsOfCall
      <3>2. \A i \in JobsOfCall : i < handle' <=> i < handle \/ i = handle
        BY <1>t, <1>i, <2>7
      <3>3. ASSUME NEW p
            PROVE  AsyncReported(p)' <=>
                     AsyncReported(p) \/ (p = Pos(handle) /\ jobs[handle].ran)
        BY <2>2, <3>1, <3>2 DEF AsyncReported, Pos
      <3>4. ASSUME NEW p \in DOMAIN Order
            PROVE  p \in Reported' <=>
                     IF IsAsync(p)
                       THEN AsyncReported(p)'
                       ELSE p < run'.pos /\ ShouldRunTick(run'.tick, Interval[Order[p]])
        BY <2>2, <2>3, <2>4, <2>7, <3>3 DEF SummariesInv
      <3> QED
        BY <2>2, <2>4, <2>5, <2>7, <3>4 DEF SummariesInv, IsAsync
    <2> QED
      BY <1>11, <2>2, <2>6, <2>7
      DEF JobFailureContinues, JobFailureAborts, ApplyJob, ApplyJobFails, Return
  <1> QED
    BY <1>2, <1>3, <1>4, <1>5, <1>6, <1>7, <1>8, <1>9, <1>10, <1>11 DEF TickStep

-----------------------------------------------------------------------------
(* The steps of others.  A job that is not done may go on, at its place;   *)
(* one that has failed stays failed.                                       *)
Moved(job, old) ==
  \/ job = old
  \/ /\ old.stage # "done"
     /\ job.run.call = old.run.call
     /\ job.run.pos = old.run.pos
     /\ old.run.failed => job.run.failed
     /\ JobOrderly(job.run)

JobsMove ==
  /\ UNCHANGED <<pc, run, handle, applied, published>>
  /\ DOMAIN jobs' = DOMAIN jobs
  /\ Len(jobs') = Len(jobs)
  /\ \A i \in DOMAIN jobs : Moved(jobs'[i], jobs[i])

LEMMA RefusedMoves ==
  ASSUME NEW job \in Job, JobOrderly(job.run), job.stage # "done"
  PROVE  Moved(Refused(job), job)
  <1>1. job.run \in Run
    BY DEF Job
  <1> QED
    BY <1>1 DEF Job, Run, Refused, Moved, JobOrderly

LEMMA JobStepMoves ==
  ASSUME TypeInv, JobsInv, NEW i, JobStep(i)
  PROVE  JobsMove
  <1>1. i \in DOMAIN jobs /\ OnlyJobs
    BY DEF JobStep, HandOver, RunJob, RefuseJob, SendJob, AcceptJob, CancelJob,
           StartJob, RunJobSystem, FinishJob
  <1>2. /\ JobsOK /\ jobs \in Seq(Job) /\ jobs[i] \in Job /\ jobs[i].run \in Run
        /\ JobOrderly(jobs[i].run)
    BY <1>1, JobFields DEF TypeInv, JobsOK, JobsInv
  <1>3. \E job : jobs' = [jobs EXCEPT ![i] = job] /\ Moved(job, jobs[i])
    <2>1. CASE RefuseJob(i) \/ CancelJob(i)
      BY <1>2, <2>1, RefusedMoves DEF RefuseJob, CancelJob
    <2>2. CASE SendJob(i) \/ AcceptJob(i) \/ StartJob(i)
      <3>1. /\ jobs'[i].run = jobs[i].run /\ jobs' = [jobs EXCEPT ![i] = jobs'[i]]
            /\ jobs[i].stage # "done"
        BY <1>1, <1>2, <2>2 DEF SendJob, AcceptJob, StartJob, Job
      <3> QED
        BY <1>2, <3>1 DEF Moved
    <2>3. CASE RunJobSystem(i)
      <3>1. /\ jobs[i].stage # "done" /\ ~jobs[i].run.failed
            /\ \E r \in SystemSteps(jobs[i].run) : jobs' = [jobs EXCEPT ![i].run = r]
        BY <2>3 DEF RunJobSystem, MoreSystems
      <3>2. PICK r \in SystemSteps(jobs[i].run) : jobs' = [jobs EXCEPT ![i].run = r]
        BY <3>1
      <3>3. /\ Orderly(r) /\ r.call = jobs[i].run.call /\ r.pos = jobs[i].run.pos
            /\ r.deferred \subseteq
                 jobs[i].run.deferred \cup {Deferred(jobs[i].run, TRUE)}
        BY <1>2, <3>1, OrderlyStep, SystemStepsLemma DEF JobOrderly
      <3>4. JobOrderly(r)
        BY <1>2, <3>3 DEF JobOrderly, Deferred
      <3>5. jobs' = [jobs EXCEPT ![i] = [jobs[i] EXCEPT !.run = r]]
            /\ [jobs[i] EXCEPT !.run = r].run = r
        BY <1>1, <1>2, <3>2 DEF Job
      <3> QED
        BY <3>1, <3>3, <3>4, <3>5 DEF Moved
    <2>4. CASE FinishJob(i)
      <3> DEFINE buf == IF jobs[i].run.failed THEN <<>> ELSE jobs[i].run.buf
      <3> DEFINE job == [jobs[i] EXCEPT !.stage = "done", !.run.buf = buf]
      <3>1. jobs' = [jobs EXCEPT ![i] = job] /\ jobs[i].stage # "done"
        BY <1>1, <1>2, <2>4 DEF FinishJob
      <3> HIDE DEF buf
      <3>2. /\ job.run.call = jobs[i].run.call /\ job.run.pos = jobs[i].run.pos
            /\ job.run.next = jobs[i].run.next
            /\ job.run.failed = jobs[i].run.failed /\ job.run.buf = buf
            /\ job.run.deferred = jobs[i].run.deferred
        BY <1>2 DEF Job, Run
      <3> HIDE DEF job
      <3>3. ~jobs[i].run.failed => buf = jobs[i].run.buf
        BY DEF buf
      <3>4. JobOrderly(job.run)
        BY <1>2, <3>2, <3>3 DEF JobOrderly, Orderly, Deferred, Lex
      <3> QED
        BY <3>1, <3>2, <3>4 DEF Moved
    <2> QED
      BY <2>1, <2>2, <2>3, <2>4 DEF JobStep, HandOver, RunJob
  <1>4. /\ DOMAIN jobs' = DOMAIN jobs /\ Len(jobs') = Len(jobs)
        /\ \A k \in DOMAIN jobs : Moved(jobs'[k], jobs[k])
    BY <1>1, <1>2, <1>3 DEF Moved
  <1> QED
    BY <1>1, <1>4 DEF OnlyJobs, JobsMove

LEMMA CallerMoves ==
  ASSUME TypeInv, JobsInv, CallerStep
  PROVE  JobsMove
  <1>1. UNCHANGED <<pc, run, handle, applied, published>>
    BY DEF CallerStep, CreatePool, ClosePool, DropPool, ReplacePool, OnlyPool,
           WithErrorPolicy, Cancel
  <1>2. CASE \E n \in WorkerCounts : ClosePool(n)
    <2>1. jobs' = [i \in DOMAIN jobs |->
                     IF jobs[i].stage \in {"submitted", "sending"}
                       THEN Refused(jobs[i])
                       ELSE jobs[i]]
      BY <1>2 DEF ClosePool
    <2>2. jobs \in Seq(Job)
      BY DEF TypeInv, JobsOK
    <2>3. DOMAIN jobs' = DOMAIN jobs /\ Len(jobs') = Len(jobs)
      BY <2>1, <2>2
    <2>4. ASSUME NEW i \in DOMAIN jobs PROVE Moved(jobs'[i], jobs[i])
      <3>1. jobs[i] \in Job /\ JobOrderly(jobs[i].run)
        BY <2>2 DEF JobsInv
      <3>2. CASE jobs[i].stage \in {"submitted", "sending"}
        BY <2>1, <3>1, <3>2, RefusedMoves
      <3>3. CASE ~(jobs[i].stage \in {"submitted", "sending"})
        BY <2>1, <3>3 DEF Moved
      <3> QED
        BY <3>2, <3>3
    <2> QED
      BY <1>1, <2>3, <2>4 DEF JobsMove
  <1>3. CASE jobs' = jobs
    BY <1>1, <1>3 DEF JobsMove, Moved
  <1> QED
    BY <1>2, <1>3 DEF CallerStep, CreatePool, DropPool, ReplacePool, WithErrorPolicy, Cancel

LEMMA MovesKeepOrder ==
  ASSUME TypeInv, OrderInv, JobsMove
  PROVE  OrderInv'
  <1>t. /\ JobsOK /\ handle \in Nat
        /\ BufferInv /\ JobsInv /\ HandledInv /\ AppliedInv /\ SummariesInv
    BY DEF TypeInv, ResultsOK, OrderInv
  <1>1. /\ UNCHANGED <<pc, run, handle, applied, published>>
        /\ DOMAIN jobs' = DOMAIN jobs /\ Len(jobs') = Len(jobs)
        /\ \A i \in DOMAIN jobs : Moved(jobs'[i], jobs[i])
    BY DEF JobsMove
  <1>2. /\ \A i \in DOMAIN jobs : jobs'[i].run.call = jobs[i].run.call
                                  /\ Pos(i)' = Pos(i)
        /\ \A i \in DOMAIN jobs : jobs[i].stage = "done" => jobs'[i] = jobs[i]
    BY <1>1 DEF Moved, Pos
  <1>3. JobsOfCall' = JobsOfCall /\ \A i \in JobsOfCall : i \in DOMAIN jobs
    BY <1>1, <1>2 DEF JobsOfCall
  <1>4. \A i \in JobsOfCall : i < handle => jobs'[i] = jobs[i]
    BY <1>2, <1>3, <1>t DEF HandledInv
  <1>5. BufferInv'
    BY <1>1, <1>t DEF BufferInv, IsAsync
  <1>6. JobsInv'
    BY <1>1, <1>t DEF JobsInv, Moved, JobOrderly, IsAsync
  <1>a. Applied' = Applied
    BY <1>1 DEF Applied
  <1>7. HandledInv'
    BY <1>1, <1>2, <1>3, <1>4, <1>a, <1>t DEF HandledInv, Visiting
  <1>8. ASSUME NEW c \in Applied, NEW d \in Effects', Before(d, c)
        PROVE  d \in Applied
    <2>1. CASE d \in Effects
      BY <1>8, <1>t, <2>1 DEF AppliedInv, AppliedInOrder
    <2>2. ASSUME ~(d \in Effects) PROVE FALSE
      <3>1. PICK j \in JobsOfCall : ~jobs'[j].run.failed /\ d \in jobs'[j].run.deferred
        BY <1>1, <1>3, <1>8, <2>2 DEF Effects
      <3>2. jobs'[j] # jobs[j]
        BY <2>2, <3>1, EffectsFacts
      <3>3. ~(j < handle) /\ jobs[j].stage # "done"
        BY <1>2, <1>3, <1>4, <3>1, <3>2
      <3>4. d.pos = Pos(j) /\ j \in Nat /\ j <= Len(jobs) /\ Len(jobs) \in Nat
        BY <1>1, <1>2, <1>3, <1>6, <1>t, <3>1, JobFields DEF JobsInv, JobOrderly, Pos
      <3>5. CASE FromJob(c)
        <4>1. PICK i \in JobsOfCall :
                /\ i <= handle /\ jobs[i].stage = "done" /\ ~jobs[i].run.failed
                /\ c \in Cmds(jobs[i].run.buf)
          BY <3>5 DEF FromJob
        <4>2. i < j
          <5>1. i \in Nat /\ i # j
            BY <1>3, <1>t, <3>3, <4>1, JobFields
          <5> QED
            BY <1>t, <3>3, <3>4, <4>1, <5>1
        <4>3. c.pos = Pos(i)
          BY <1>3, <1>t, <4>1, JobCmds
        <4> QED
          BY <1>8, <1>t, <3>1, <3>4, <4>1, <4>2, <4>3, JobsInOrder
      <3>6. CASE FromBuffer(c)
        BY <1>t, <3>3, <3>4, <3>6 DEF FromBuffer
      <3> QED
        BY <1>8, <1>t, <3>5, <3>6 DEF AppliedInv
    <2> QED
      BY <2>1, <2>2
  <1>9. AppliedInv'
    <2>1. AppliedInOrder'
      BY <1>1, <1>8, <1>a, <1>t
      DEF AppliedInv, AppliedInOrder, Before, PosBefore, IsAsync
    <2>2. \A c : FromJob(c) => FromJob(c)'
      BY <1>1, <1>2, <1>3 DEF FromJob
    <2>3. \A c : FromBuffer(c) => FromBuffer(c)'
      BY <1>1 DEF FromBuffer
    <2> QED
      BY <1>1, <1>a, <1>t, <2>1, <2>2, <2>3 DEF AppliedInv, Visiting
  <1>10. SummariesInv'
    <2>1. \A p : AsyncReported(p)' <=> AsyncReported(p)
      BY <1>1, <1>2, <1>3, <1>4 DEF AsyncReported
    <2>2. SummariesSorted' /\ Reported' = Reported
      BY <1>1, <1>t DEF SummariesInv, SummariesSorted, ReportedBefore, IsAsync, Reported
    <2> QED
      BY <1>1, <1>t, <2>1, <2>2 DEF SummariesInv, IsAsync
  <1> QED
    BY <1>5, <1>6, <1>7, <1>9, <1>10 DEF OrderInv

-----------------------------------------------------------------------------
LEMMA OrderInit == Init => OrderInv
  <1> SUFFICES ASSUME Init PROVE OrderInv
    OBVIOUS
  <1>1. /\ pc = "idle" /\ run.deferred = {} /\ handle = 1
        /\ jobs = <<>> /\ applied = <<>> /\ published = <<>>
    BY DEF Init
  <1>2. DOMAIN jobs = {} /\ Len(jobs) = 0 /\ DOMAIN published = {}
    BY <1>1
  <1>3. BufferInv
    BY <1>1 DEF BufferInv
  <1>4. JobsInv /\ JobsOfCall = {}
    BY <1>2 DEF JobsInv, JobsOfCall
  <1>5. HandledInv
    BY <1>1, <1>2, <1>4 DEF HandledInv, Visiting
  <1>6. AppliedInv
    BY <1>1, NothingApplied
  <1>7. SummariesInv
    BY <1>1, <1>2 DEF SummariesInv, SummariesSorted, Reported
  <1> QED
    BY <1>3, <1>4, <1>5, <1>6, <1>7 DEF OrderInv

LEMMA OrderStep == TypeInv /\ OriginInv /\ OrderInv /\ [Next]_vars => OrderInv'
  <1> SUFFICES ASSUME TypeInv, OriginInv, OrderInv, [Next]_vars PROVE OrderInv'
    OBVIOUS
  <1>t. BufferInv /\ JobsInv /\ HandledInv /\ AppliedInv /\ SummariesInv
    BY DEF OrderInv
  <1>1. CASE BeginTick \/ TickStep
    BY <1>t, <1>1, TickKeepsBuffer, TickKeepsJobs, TickKeepsHandled, TickKeepsApplied,
       TickKeepsSummaries DEF OrderInv
  <1>2. CASE \E i \in 1 .. MaxJobs : JobStep(i)
    BY <1>t, <1>2, JobStepMoves, MovesKeepOrder
  <1>3. CASE CallerStep
    BY <1>t, <1>3, CallerMoves, MovesKeepOrder
  <1>4. CASE UNCHANGED vars
    <2>1. JobsMove
      BY <1>4 DEF vars, JobsMove, Moved
    <2> QED
      BY <2>1, MovesKeepOrder
  <1> QED
    BY <1>1, <1>2, <1>3, <1>4, NextCases

LEMMA OrderInvariant == Spec => []OrderInv
  BY OrderInit, OrderStep, OriginInvariant, TypeInvariant, PTL DEF Spec

-----------------------------------------------------------------------------
(* The commands of a Tick are applied one by one in the order of their     *)
(* groups, the async ones first, and of their systems, none twice and none *)
(* passed over, whatever order the workers ran them in and wherever the    *)
(* Tick stops.                                                             *)
THEOREM AppliedAlwaysInOrder == Spec => []AppliedInOrder
  <1>1. OrderInv => AppliedInOrder
    BY DEF OrderInv, AppliedInv
  <1> QED
    BY <1>1, OrderInvariant, PTL

(* A tick is committed with every job over and with exactly the effects of *)
(* its groups applied.                                                     *)
THEOREM CommitIsAlwaysComplete == Spec => []CommitIsComplete
  <1>1. ASSUME TypeInv, OrderInv PROVE CommitIsComplete
    <2> SUFFICES ASSUME pc = "commit"
                 PROVE  /\ \A i \in JobsOfCall : jobs[i].stage = "done"
                        /\ Applied = Effects
      BY DEF CommitIsComplete
    <2>t. /\ JobsOK /\ handle \in Nat
          /\ BufferInv /\ JobsInv /\ HandledInv /\ AppliedInv
      BY <1>1 DEF TypeInv, ResultsOK, OrderInv
    <2>1. \A i \in JobsOfCall : i \in DOMAIN jobs /\ i < handle
      <3> SUFFICES ASSUME NEW i \in JobsOfCall PROVE i \in DOMAIN jobs /\ i < handle
        OBVIOUS
      <3>1. i \in DOMAIN jobs
        BY DEF JobsOfCall
      <3>2. i \in Nat /\ i <= Len(jobs) /\ Len(jobs) \in Nat
        BY <2>t, <3>1, JobFields
      <3> QED
        BY <2>t, <3>1, <3>2 DEF HandledInv
    <2>2. \A i \in JobsOfCall : ~jobs[i].run.failed =>
            Cmds(jobs[i].run.buf) = jobs[i].run.deferred
      BY <2>t, <2>1 DEF JobsInv, JobOrderly, Orderly
    <2>3. Effects \subseteq Applied
      BY <2>t, <2>1, <2>2, EffectsFacts DEF HandledInv, AppliedInv
    <2>4. Applied \subseteq Effects
      BY <2>t, <2>2, EffectsFacts DEF AppliedInv, FromJob, FromBuffer
    <2> QED
      BY <2>t, <2>1, <2>3, <2>4 DEF HandledInv
  <1> QED
    BY <1>1, OrderInvariant, TypeInvariant, PTL

(* The observer hears of the groups once each and in order, the async ones *)
(* last, and by the time of the commit of every due group whose systems    *)
(* ran.                                                                    *)
THEOREM PublishedAlwaysInOrder == Spec => []PublishedInOrder
  <1>1. ASSUME TypeInv, OrderInv PROVE PublishedInOrder
    <2>t. JobsOK /\ handle \in Nat /\ HandledInv /\ SummariesInv
      BY <1>1 DEF TypeInv, ResultsOK, OrderInv
    <2>1. ASSUME pc = "commit", NEW p \in DOMAIN Order
          PROVE  p \in Reported <=>
                   IF IsAsync(p)
                     THEN \E i \in JobsOfCall : jobs[i].run.pos = p /\ jobs[i].ran
                     ELSE ShouldRunTick(run.tick, Interval[Order[p]])
      <3>1. \A i \in JobsOfCall : i < handle
        <4> SUFFICES ASSUME NEW i \in JobsOfCall PROVE i < handle
          OBVIOUS
        <4>1. i \in Nat /\ i <= Len(jobs) /\ Len(jobs) \in Nat
          BY <2>t, JobFields DEF JobsOfCall
        <4> QED
          BY <2>t, <2>1, <4>1 DEF HandledInv
      <3>2. p < run.pos
        <4>1. run.pos \in Nat
          BY <1>1, RunFields DEF TypeInv, TickerOK
        <4>2. p \in Nat /\ p <= Len(Order) /\ Len(Order) \in Nat
          BY SchedulerAssumption
        <4> QED
          BY <2>t, <2>1, <4>1, <4>2 DEF SummariesInv
      <3> QED
        BY <2>t, <2>1, <3>1, <3>2 DEF SummariesInv, AsyncReported, Pos
    <2> QED
      BY <2>t, <2>1 DEF PublishedInOrder, SummariesInv, SummariesSorted
  <1> QED
    BY <1>1, OrderInvariant, TypeInvariant, PTL
=============================================================================
