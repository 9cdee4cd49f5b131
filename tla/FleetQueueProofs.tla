-------------------------- MODULE FleetQueueProofs --------------------------
(***************************************************************************)
(* Proofs about FleetQueue, for any number of wikis, processes, snapshots, *)
(* attempts and faults.                                                    *)
(***************************************************************************)
EXTENDS FleetQueue, TLAPS

\* Commands that are about one task, and those a worker runs once it has
\* published a lease.
WorkCmds == {"work", "prepare", "complete", "defer", "fail"}
JobCmds  == WorkCmds \cup {"enqueue", "retry"}

(***************************************************************************)
(* What the program counter says about the command and its operands.       *)
(***************************************************************************)
ControlOK ==
    \A p \in Procs :
        /\ pc[p] = "idle" => cmd[p] = "none" /\ hb[p] \in {"off", "orphan"}
        /\ hb[p] # "off" => p \in Workers /\ job[p] \in Task
        /\ cmd[p] \in JobCmds => job[p] \in Task
        /\ pc[p] = "publish" => job[p] \in Task
        /\ cmd[p] = "claim" => hb[p] = "off"
        /\ cmd[p] \in WorkCmds \cup {"claim", "abandon"} => p \in Workers
        /\ pc[p] \in {"list", "acquire", "publish"} => cmd[p] = "claim"
        /\ pc[p] = "readycheck" => cmd[p] = "work"
        /\ pc[p] = "prepare" => cmd[p] = "prepare"
        /\ pc[p] \in {"complete", "notify", "record"} => cmd[p] = "complete"
        /\ pc[p] \in {"defer", "deferwrite"} => cmd[p] = "defer"
        /\ pc[p] = "failcheck" => cmd[p] = "fail"
        /\ pc[p] \in {"enqlease", "enqread", "enqwrite"} => cmd[p] = "enqueue"
        /\ pc[p] \in {"retrywrite", "retryarchive"} => cmd[p] = "retry"
        /\ pc[p] \in {"ambiguous", "fail", "drop", "unlink", "rmdir"} => dir[p] \in Wikis
        /\ pc[p] = "fail" => victim[p] \in Task

ProcInv == ProcTypeOK /\ ControlOK

TypeInv == TypeOK /\ ControlOK

-----------------------------------------------------------------------------
(* The helpers by which a command moves on keep a process well formed.     *)

\* Ending a command, by exit or by the next turn of the worker's loop.
LEMMA StopProc ==
    ASSUME ProcInv, NEW p \in Procs, Stop(p)
    PROVE  ProcInv'
<1>1. ProcTypeOK'
  BY DEF ProcInv, ProcTypeOK, Stop, StopHeartbeat, Goto, Labels, Cmds, HbStates
<1>2. ControlOK'
  BY DEF ProcInv, ProcTypeOK, ControlOK, Stop, StopHeartbeat, Goto, WorkCmds,
         JobCmds, HbStates
<1> QED
  BY <1>1, <1>2 DEF ProcInv

\* The worker's EXIT trap finds the claim it has to fail.
LEMMA FinishTaskProc ==
    ASSUME ProcInv, NEW p \in Procs, FinishTask(p), p \in Workers, job[p] \in Task
    PROVE  ProcInv'
<1>1. ProcTypeOK'
  BY DEF ProcInv, ProcTypeOK, FinishTask, StopHeartbeat, Goto, Labels, Cmds, HbStates
<1>2. ControlOK'
  BY DEF ProcInv, ProcTypeOK, ControlOK, FinishTask, StopHeartbeat, Goto, WorkCmds,
         JobCmds, HbStates
<1> QED
  BY <1>1, <1>2 DEF ProcInv

\* A command that returns an error.
LEMMA ErrorProc ==
    ASSUME ProcInv, NEW p \in Procs, Error(p)
    PROVE  ProcInv'
<1>1. CASE cmd[p] \in {"complete", "defer"}
  <2>1. p \in Workers /\ job[p] \in Task
    BY <1>1 DEF ProcInv, ControlOK, WorkCmds, JobCmds
  <2> QED
    BY <1>1, <2>1, FinishTaskProc DEF Error
<1>2. CASE cmd[p] \notin {"complete", "defer"}
  BY <1>2, StopProc DEF Error
<1> QED
  BY <1>1, <1>2

\* A command whose lease directory is gone.
LEMMA ReleasedProc ==
    ASSUME ProcInv, NEW p \in Procs, Released(p)
    PROVE  ProcInv'
<1>1. CASE cmd[p] \in ScanCmds /\ pc' = [pc EXCEPT ![p] = "scan"]
           /\ dir' = [dir EXCEPT ![p] = None]
           /\ UNCHANGED <<cmd, scan, victim, view, job, hb>>
  <2>1. ProcTypeOK'
    BY <1>1 DEF ProcInv, ProcTypeOK, Labels
  <2>2. ControlOK'
    BY <1>1 DEF ProcInv, ProcTypeOK, ControlOK, WorkCmds, JobCmds
  <2> QED
    BY <2>1, <2>2 DEF ProcInv
<1>2. CASE cmd[p] \in {"complete", "defer"} /\ FinishTask(p)
  <2>1. p \in Workers /\ job[p] \in Task
    BY <1>2 DEF ProcInv, ControlOK, WorkCmds, JobCmds
  <2> QED
    BY <1>2, <2>1, FinishTaskProc
<1>3. CASE Stop(p)
  BY <1>3, StopProc
<1> QED
  BY <1>1, <1>2, <1>3 DEF Released, Goto

\* The worker between two foreground commands.
LEMMA AfterPrepareProc ==
    ASSUME ProcInv, NEW p \in Procs, pc[p] \in {"readycheck", "prepare"},
           NEW c \in {"prepare", "complete", "defer"}, AfterPrepare(p, c)
    PROVE  ProcInv'
<1>1. p \in Workers /\ job[p] \in Task
  BY DEF ProcInv, ControlOK, WorkCmds, JobCmds
<1>2. CASE hb[p] = "lost"
  BY <1>1, <1>2, FinishTaskProc DEF AfterPrepare
<1>3. CASE hb[p] # "lost"
  <2>1. ProcTypeOK'
    BY <1>3 DEF AfterPrepare, Goto, ProcInv, ProcTypeOK, Labels, Cmds
  <2>2. ControlOK'
    BY <1>1, <1>3 DEF AfterPrepare, Goto, ProcInv, ProcTypeOK, ControlOK, WorkCmds, JobCmds
  <2> QED
    BY <2>1, <2>2 DEF ProcInv
<1> QED
  BY <1>2, <1>3

-----------------------------------------------------------------------------
(* Types.                                                                  *)

StoreOK == QueueTypeOK /\ WorldTypeOK

\* Where a command uses its task, there is one.
LEMMA JobTyped ==
    ASSUME ControlOK, NEW p \in Procs,
           pc[p] \in {"publish", "readycheck", "prepare", "complete", "notify",
                     "record", "failcheck", "defer", "deferwrite", "enqlease",
                     "enqread", "enqwrite", "retrywrite", "retryarchive"}
    PROVE  job[p] \in Task
  BY DEF ControlOK, JobCmds, WorkCmds

\* Where a command works on a lease or pending file, it knows which.
LEMMA OperandTyped ==
    ASSUME ControlOK, NEW p \in Procs
    PROVE  /\ pc[p] \in {"ambiguous", "fail", "drop", "unlink", "rmdir"} => dir[p] \in Wikis
           /\ pc[p] = "fail" => victim[p] \in Task
  BY DEF ControlOK

\* The history of overtaken copies is one flag per wiki.
LEMMA OvertakenTyped ==
    ASSUME WorldTypeOK, NEW w, NEW b \in BOOLEAN,
           overtaken' = [overtaken EXCEPT ![w] = b]
    PROVE  overtaken' \in [Wikis -> BOOLEAN]
BY DEF WorldTypeOK

LEMMA LeaseAppearsTyped ==
    ASSUME WorldTypeOK, NEW t, LeaseAppears(t)
    PROVE  overtaken' \in [Wikis -> BOOLEAN]
<1> DEFINE b == overtaken[t.wiki] \/ RewriteUnderway(t)
<1>1. b \in BOOLEAN
  OBVIOUS
<1>2. overtaken' = [overtaken EXCEPT ![t.wiki] = b]
  BY DEF LeaseAppears
<1> QED
  BY <1>1, <1>2, OvertakenTyped

LEMMA ReclassifiedTyped ==
    ASSUME WorldTypeOK, NEW t, Reclassified(t)
    PROVE  overtaken' \in [Wikis -> BOOLEAN]
<1>1. \E b \in BOOLEAN : overtaken' = [overtaken EXCEPT ![t.wiki] = b]
  BY Zenon DEF Reclassified
<1> QED
  BY <1>1, OvertakenTyped

\* The queue's documents and the world stay well formed.
LEMMA StoreStep ==
    ASSUME TypeInv, [Next]_vars
    PROVE  StoreOK'
<1>ScanVanished. ASSUME NEW p \in Procs, NEW w \in Wikis, ScanVanished(p, w)
    PROVE  StoreOK'
  BY <1>ScanVanished DEF ScanVanished, queueVars, worldVars, TypeInv, TypeOK,
     QueueTypeOK, WorldTypeOK, StoreOK
<1>ScanOwnerless. ASSUME NEW p \in Procs, NEW w \in Wikis, ScanOwnerless(p, w)
    PROVE  StoreOK'
  BY <1>ScanOwnerless DEF ScanOwnerless, queueVars, worldVars, TypeInv, TypeOK,
     QueueTypeOK, WorldTypeOK, StoreOK
<1>ScanFresh. ASSUME NEW p \in Procs, NEW w \in Wikis, ScanFresh(p, w)
    PROVE  StoreOK'
  BY <1>ScanFresh DEF ScanFresh, queueVars, worldVars, TypeInv, TypeOK,
     QueueTypeOK, WorldTypeOK, StoreOK
<1>ScanStale. ASSUME NEW p \in Procs, NEW w \in Wikis, ScanStale(p, w)
    PROVE  StoreOK'
  BY <1>ScanStale DEF ScanStale, queueVars, worldVars, TypeInv, TypeOK,
     QueueTypeOK, WorldTypeOK, StoreOK
<1>QuarantineUnknown. ASSUME NEW p \in Procs, QuarantineUnknown(p)
    PROVE  StoreOK'
  BY <1>QuarantineUnknown, OperandTyped DEF QuarantineUnknown, TypeInv, TypeOK,
     QueueTypeOK, WorldTypeOK, ProcTypeOK, StoreOK, queueVars, worldVars
<1>ScanDone. ASSUME NEW p \in Procs, ScanDone(p)
    PROVE  StoreOK'
  BY <1>ScanDone DEF ScanDone, queueVars, worldVars, TypeInv, TypeOK,
     QueueTypeOK, WorldTypeOK, StoreOK
<1>FailRetry. ASSUME NEW p \in Procs, FailRetry(p)
    PROVE  StoreOK'
  <2>1. victim[p] \in Task /\ dir[p] \in Wikis
    BY <1>FailRetry, OperandTyped DEF FailRetry, TypeInv
  <2>2. NextAttempt(victim[p]) \in 0..(MaxAttempts - 1)
    BY <1>FailRetry, <2>1, FleetAssumption DEF FailRetry, NextAttempt,
       RetryLimitReached, Task
  <2>3. [victim[p] EXCEPT !.attempt = NextAttempt(victim[p]), !.due = FALSE] \in Task
    BY <2>1, <2>2 DEF Task
  <2>4. pending' \in [Wikis -> Task \cup {None}]
    BY <1>FailRetry, <2>1, <2>3 DEF FailRetry, TypeInv, TypeOK, QueueTypeOK,
       WorldTypeOK
  <2> QED
    BY <1>FailRetry, <2>1, <2>2, <2>3, <2>4 DEF FailRetry, StoreOK, TypeInv,
       TypeOK, QueueTypeOK, WorldTypeOK, queueVars, worldVars
<1>FailQuarantine. ASSUME NEW p \in Procs, FailQuarantine(p)
    PROVE  StoreOK'
  BY <1>FailQuarantine, OperandTyped DEF FailQuarantine, TypeInv, TypeOK,
     QueueTypeOK, WorldTypeOK, ProcTypeOK, StoreOK, queueVars, worldVars
<1>DropPending. ASSUME NEW p \in Procs, DropPending(p)
    PROVE  StoreOK'
  BY <1>DropPending, OperandTyped DEF DropPending, TypeInv, TypeOK,
     QueueTypeOK, WorldTypeOK, ProcTypeOK, StoreOK, queueVars, worldVars
<1>UnlinkOwner. ASSUME NEW p \in Procs, UnlinkOwner(p)
    PROVE  StoreOK'
  BY <1>UnlinkOwner, OperandTyped DEF UnlinkOwner, TypeInv, TypeOK,
     QueueTypeOK, WorldTypeOK, ProcTypeOK, StoreOK, queueVars, worldVars
<1>RemoveLeaseDir. ASSUME NEW p \in Procs, RemoveLeaseDir(p)
    PROVE  StoreOK'
  BY <1>RemoveLeaseDir, OperandTyped DEF RemoveLeaseDir, TypeInv, TypeOK,
     QueueTypeOK, WorldTypeOK, ProcTypeOK, StoreOK, queueVars, worldVars
<1>ClaimBegin. ASSUME NEW p \in Procs, ClaimBegin(p)
    PROVE  StoreOK'
  BY <1>ClaimBegin DEF ClaimBegin, queueVars, worldVars, TypeInv, TypeOK,
     QueueTypeOK, WorldTypeOK, StoreOK
<1>ListPending. ASSUME NEW p \in Procs, ListPending(p)
    PROVE  StoreOK'
  BY <1>ListPending DEF ListPending, queueVars, worldVars, TypeInv, TypeOK,
     QueueTypeOK, WorldTypeOK, StoreOK
<1>Acquire. ASSUME NEW p \in Procs, NEW t \in view[p], Acquire(p, t)
    PROVE  StoreOK'
  <2>1. t.wiki \in Wikis
    BY DEF TypeInv, TypeOK, ProcTypeOK, Task
  <2>2. overtaken' \in [Wikis -> BOOLEAN]
    <3>1. WorldTypeOK
      BY DEF TypeInv, TypeOK
    <3>2. LeaseAppears(t) \/ overtaken' = overtaken
      BY <1>Acquire DEF Acquire
    <3> QED
      BY <3>1, <3>2, LeaseAppearsTyped DEF WorldTypeOK
  <2> QED
    BY <1>Acquire, <2>1, <2>2 DEF Acquire, StoreOK, TypeInv, TypeOK, QueueTypeOK,
       WorldTypeOK, queueVars, worldVars
<1>NothingToClaim. ASSUME NEW p \in Procs, NothingToClaim(p)
    PROVE  StoreOK'
  BY <1>NothingToClaim DEF NothingToClaim, queueVars, worldVars, TypeInv,
     TypeOK, QueueTypeOK, WorldTypeOK, StoreOK
<1>PublishOwner. ASSUME NEW p \in Procs, PublishOwner(p)
    PROVE  StoreOK'
  <2>1. p \in Workers /\ job[p] \in Task
    BY <1>PublishOwner, JobTyped DEF PublishOwner, TypeInv, ControlOK
  <2>2. job[p].wiki \in Wikis /\ job[p].snap \in Snapshots
    BY <2>1 DEF Task
  <2>3. NewClaim(p, job[p]) \in Claim
    BY <2>1 DEF NewClaim, Claim
  <2>4. tries' \in [Wikis -> [Snapshots -> 0..MaxAttempts]]
    BY <1>PublishOwner, <2>2, FleetAssumption DEF PublishOwner, Bump, TypeInv,
       TypeOK, WorldTypeOK
  <2>5. owner' \in [Wikis -> Claim \cup {None}] /\ leaseDir' \subseteq Wikis
    BY <1>PublishOwner, <2>2, <2>3 DEF PublishOwner, TypeInv, TypeOK,
       QueueTypeOK, WorldTypeOK
  <2>6. overtaken' \in [Wikis -> BOOLEAN]
    BY <1>PublishOwner, LeaseAppearsTyped DEF PublishOwner, TypeInv, TypeOK
  <2> QED
    BY <1>PublishOwner, <2>1, <2>2, <2>3, <2>4, <2>5, <2>6 DEF PublishOwner, StoreOK,
       TypeInv, TypeOK, QueueTypeOK, WorldTypeOK, queueVars, worldVars
<1>PublishFails. ASSUME NEW p \in Procs, PublishFails(p)
    PROVE  StoreOK'
  BY <1>PublishFails, FleetAssumption DEF PublishFails, TypeInv, TypeOK,
     QueueTypeOK, WorldTypeOK, ProcTypeOK, StoreOK, queueVars, worldVars, Fault
<1>HeartbeatCheck. ASSUME NEW p \in Procs, HeartbeatCheck(p)
    PROVE  StoreOK'
  BY <1>HeartbeatCheck DEF HeartbeatCheck, queueVars, worldVars, TypeInv,
     TypeOK, QueueTypeOK, WorldTypeOK, StoreOK
<1>HeartbeatWrite. ASSUME NEW p \in Procs, HeartbeatWrite(p)
    PROVE  StoreOK'
  <2>1. p \in Workers /\ job[p] \in Task
    BY <1>HeartbeatWrite DEF HeartbeatWrite, TypeInv, ControlOK
  <2>2. job[p].wiki \in Wikis /\ NewClaim(p, job[p]) \in Claim
    BY <2>1 DEF NewClaim, Claim, Task
  <2>3. overtaken' \in [Wikis -> BOOLEAN]
    BY <1>HeartbeatWrite, LeaseAppearsTyped DEF HeartbeatWrite, TypeInv, TypeOK
  <2> QED
    BY <1>HeartbeatWrite, <2>1, <2>2, <2>3 DEF HeartbeatWrite, StoreOK, TypeInv,
       TypeOK, QueueTypeOK, WorldTypeOK, queueVars, worldVars
<1>ReadyCheck. ASSUME NEW p \in Procs, ReadyCheck(p)
    PROVE  StoreOK'
  BY <1>ReadyCheck DEF ReadyCheck, queueVars, worldVars, TypeInv, TypeOK,
     QueueTypeOK, WorldTypeOK, StoreOK
<1>PrepareReady. ASSUME NEW p \in Procs, PrepareReady(p)
    PROVE  StoreOK'
  <2>1. job[p].wiki \in Wikis /\ job[p].snap \in Snapshots
    BY <1>PrepareReady, JobTyped DEF PrepareReady, TypeInv, Task
  <2>2. readyIndex' \in [Wikis -> 0..MaxSnapshot]
    BY <1>PrepareReady, <2>1, FleetAssumption DEF PrepareReady, Snapshots,
       TypeInv, TypeOK, WorldTypeOK
  <2>3. validated' \subseteq Wikis \X Snapshots
    BY <1>PrepareReady, <2>1 DEF PrepareReady, TypeInv, TypeOK, WorldTypeOK
  <2> QED
    BY <1>PrepareReady, <2>1, <2>2, <2>3 DEF PrepareReady, StoreOK, TypeInv,
       TypeOK, QueueTypeOK, WorldTypeOK, queueVars, worldVars
<1>PrepareHollow. ASSUME NEW p \in Procs, PrepareHollow(p)
    PROVE  StoreOK'
  BY <1>PrepareHollow, FleetAssumption DEF PrepareHollow, TypeInv, TypeOK,
     QueueTypeOK, WorldTypeOK, ProcTypeOK, StoreOK, queueVars, worldVars, Fault
<1>PrepareWaits. ASSUME NEW p \in Procs, PrepareWaits(p)
    PROVE  StoreOK'
  BY <1>PrepareWaits, FleetAssumption DEF PrepareWaits, TypeInv, TypeOK,
     QueueTypeOK, WorldTypeOK, ProcTypeOK, StoreOK, queueVars, worldVars, Fault
<1>PrepareFails. ASSUME NEW p \in Procs, PrepareFails(p)
    PROVE  StoreOK'
  BY <1>PrepareFails, FleetAssumption DEF PrepareFails, TypeInv, TypeOK,
     QueueTypeOK, WorldTypeOK, ProcTypeOK, StoreOK, queueVars, worldVars, Fault
<1>CompleteCheck. ASSUME NEW p \in Procs, CompleteCheck(p)
    PROVE  StoreOK'
  BY <1>CompleteCheck DEF CompleteCheck, queueVars, worldVars, TypeInv, TypeOK,
     QueueTypeOK, WorldTypeOK, StoreOK
<1>Notify. ASSUME NEW p \in Procs, Notify(p)
    PROVE  StoreOK'
  <2>1. job[p].wiki \in Wikis /\ job[p].snap \in Snapshots
    BY <1>Notify, JobTyped DEF Notify, TypeInv, Task
  <2> QED
    BY <1>Notify, <2>1 DEF Notify, StoreOK, TypeInv, TypeOK, QueueTypeOK,
       WorldTypeOK, queueVars, worldVars
<1>RecordCompleted. ASSUME NEW p \in Procs, RecordCompleted(p)
    PROVE  StoreOK'
  <2>1. job[p].wiki \in Wikis /\ job[p].snap \in Snapshots
    BY <1>RecordCompleted, JobTyped DEF RecordCompleted, TypeInv, Task
  <2> QED
    BY <1>RecordCompleted, <2>1 DEF RecordCompleted, StoreOK, TypeInv, TypeOK,
       QueueTypeOK, WorldTypeOK, queueVars, worldVars
<1>DeferCheck. ASSUME NEW p \in Procs, DeferCheck(p)
    PROVE  StoreOK'
  BY <1>DeferCheck DEF DeferCheck, queueVars, worldVars, TypeInv, TypeOK,
     QueueTypeOK, WorldTypeOK, StoreOK
<1>DeferWrite. ASSUME NEW p \in Procs, DeferWrite(p)
    PROVE  StoreOK'
  <2>1. job[p] \in Task
    BY <1>DeferWrite, JobTyped DEF DeferWrite, TypeInv
  <2>2. job[p].wiki \in Wikis /\ [job[p] EXCEPT !.due = FALSE] \in Task
    BY <2>1 DEF Task
  <2> QED
    BY <1>DeferWrite, <2>1, <2>2 DEF DeferWrite, StoreOK, TypeInv, TypeOK,
       QueueTypeOK, WorldTypeOK, queueVars, worldVars
<1>FailCheck. ASSUME NEW p \in Procs, FailCheck(p)
    PROVE  StoreOK'
  BY <1>FailCheck DEF FailCheck, queueVars, worldVars, TypeInv, TypeOK,
     QueueTypeOK, WorldTypeOK, StoreOK
<1>Discover. ASSUME NEW p \in Procs, NEW w \in Wikis, NEW c \in Classes,
              Discover(p, w, c)
    PROVE  StoreOK'
  BY <1>Discover DEF Discover, queueVars, worldVars, TypeInv, TypeOK,
     QueueTypeOK, WorldTypeOK, StoreOK
<1>EnqueueLease. ASSUME NEW p \in Procs, EnqueueLease(p)
    PROVE  StoreOK'
  BY <1>EnqueueLease DEF EnqueueLease, queueVars, worldVars, TypeInv, TypeOK,
     QueueTypeOK, WorldTypeOK, StoreOK
<1>EnqueueRead. ASSUME NEW p \in Procs, EnqueueRead(p)
    PROVE  StoreOK'
  BY <1>EnqueueRead DEF EnqueueRead, queueVars, worldVars, TypeInv, TypeOK,
     QueueTypeOK, WorldTypeOK, StoreOK
<1>EnqueueWrite. ASSUME NEW p \in Procs, EnqueueWrite(p)
    PROVE  StoreOK'
  <2>1. overtaken' \in [Wikis -> BOOLEAN]
    BY <1>EnqueueWrite, ReclassifiedTyped DEF EnqueueWrite, TypeInv, TypeOK
  <2> QED
    BY <1>EnqueueWrite, <2>1, JobTyped DEF EnqueueWrite, TypeInv, TypeOK,
       QueueTypeOK, WorldTypeOK, ProcTypeOK, StoreOK, queueVars, worldVars
<1>RecoverBegin. ASSUME NEW p \in Procs, RecoverBegin(p)
    PROVE  StoreOK'
  BY <1>RecoverBegin DEF RecoverBegin, queueVars, worldVars, TypeInv, TypeOK,
     QueueTypeOK, WorldTypeOK, StoreOK
<1>RetryCheck. ASSUME NEW p \in Procs, NEW t \in quarantine, RetryCheck(p, t)
    PROVE  StoreOK'
  BY <1>RetryCheck DEF RetryCheck, queueVars, worldVars, TypeInv, TypeOK,
     QueueTypeOK, WorldTypeOK, StoreOK
<1>RetryWrite. ASSUME NEW p \in Procs, RetryWrite(p)
    PROVE  StoreOK'
  <2>1. overtaken' \in [Wikis -> BOOLEAN]
    BY <1>RetryWrite, ReclassifiedTyped DEF RetryWrite, TypeInv, TypeOK
  <2> QED
    BY <1>RetryWrite, <2>1, JobTyped DEF RetryWrite, TypeInv, TypeOK,
       QueueTypeOK, WorldTypeOK, ProcTypeOK, StoreOK, queueVars, worldVars
<1>RetryArchive. ASSUME NEW p \in Procs, RetryArchive(p)
    PROVE  StoreOK'
  BY <1>RetryArchive, JobTyped DEF RetryArchive, TypeInv, TypeOK, QueueTypeOK,
     WorldTypeOK, ProcTypeOK, StoreOK, queueVars, worldVars
<1>Crash. ASSUME NEW p \in Procs, Crash(p)
    PROVE  StoreOK'
  BY <1>Crash, FleetAssumption DEF Crash, TypeInv, TypeOK, QueueTypeOK,
     WorldTypeOK, ProcTypeOK, StoreOK, queueVars, worldVars, Fault
<1>BackoffElapses. ASSUME NEW w \in Wikis, BackoffElapses(w)
    PROVE  StoreOK'
  <2>1. pending[w] \in Task
    BY <1>BackoffElapses DEF BackoffElapses, TypeInv, TypeOK, QueueTypeOK
  <2>2. [pending[w] EXCEPT !.due = TRUE] \in Task
    BY <2>1 DEF Task
  <2>3. pending' \in [Wikis -> Task \cup {None}]
    BY <1>BackoffElapses, <2>2 DEF BackoffElapses, TypeInv, TypeOK, QueueTypeOK
  <2> QED
    BY <1>BackoffElapses, <2>1, <2>2, <2>3 DEF BackoffElapses, StoreOK,
       TypeInv, TypeOK, QueueTypeOK, WorldTypeOK, queueVars, worldVars
<1>LeaseExpires. ASSUME NEW w \in Wikis, LeaseExpires(w)
    PROVE  StoreOK'
  <2>1. owner[w] \in Claim
    BY <1>LeaseExpires DEF LeaseExpires, TypeInv, TypeOK, QueueTypeOK
  <2>2. [owner[w] EXCEPT !.stale = TRUE] \in Claim
    BY <2>1 DEF Claim
  <2>3. owner' \in [Wikis -> Claim \cup {None}]
    BY <1>LeaseExpires, <2>2 DEF LeaseExpires, TypeInv, TypeOK, QueueTypeOK
  <2> QED
    BY <1>LeaseExpires, <2>1, <2>2, <2>3 DEF LeaseExpires, StoreOK, TypeInv,
       TypeOK, QueueTypeOK, WorldTypeOK, queueVars, worldVars
<1>LeaseExpiresLive. ASSUME NEW w \in Wikis, LeaseExpiresLive(w)
    PROVE  StoreOK'
  <2>1. owner[w] \in Claim
    BY <1>LeaseExpiresLive DEF LeaseExpiresLive, TypeInv, TypeOK, QueueTypeOK
  <2>2. [owner[w] EXCEPT !.stale = TRUE] \in Claim
    BY <2>1 DEF Claim
  <2>3. owner' \in [Wikis -> Claim \cup {None}]
    BY <1>LeaseExpiresLive, <2>2 DEF LeaseExpiresLive, TypeInv, TypeOK,
       QueueTypeOK
  <2> QED
    BY <1>LeaseExpiresLive, <2>1, <2>2, <2>3, FleetAssumption DEF
       LeaseExpiresLive, StoreOK, TypeInv, TypeOK, QueueTypeOK, WorldTypeOK,
       queueVars, worldVars, Fault
<1>NewSnapshot. ASSUME NEW w \in Wikis, NewSnapshot(w)
    PROVE  StoreOK'
  <2>1. upstream[w] + 1 \in Snapshots
    BY <1>NewSnapshot, FleetAssumption DEF NewSnapshot, Snapshots, TypeInv,
       TypeOK, WorldTypeOK
  <2> QED
    BY <1>NewSnapshot, <2>1 DEF NewSnapshot, StoreOK, TypeInv, TypeOK,
       QueueTypeOK, WorldTypeOK, queueVars, worldVars
<1>IndexRewritten. ASSUME NEW w \in Wikis, NEW s \in 0..MaxSnapshot, IndexRewritten(w, s)
    PROVE  StoreOK'
  <2>1. s # 0 => s \in Snapshots
    BY FleetAssumption DEF Snapshots
  <2>2. validated' \subseteq Wikis \X Snapshots
    BY <1>IndexRewritten, <2>1 DEF IndexRewritten, TypeInv, TypeOK, WorldTypeOK
  <2>3. faults' \in 0..MaxFaults
    BY <1>IndexRewritten, FleetAssumption DEF IndexRewritten, Fault, TypeInv,
       TypeOK, WorldTypeOK
  <2> QED
    BY <1>IndexRewritten, <2>1, <2>2, <2>3 DEF IndexRewritten, StoreOK,
       TypeInv, TypeOK, QueueTypeOK, WorldTypeOK, queueVars, worldVars
<1>stutter. CASE UNCHANGED vars
  BY <1>stutter DEF vars, queueVars, worldVars, TypeInv, TypeOK, StoreOK,
     QueueTypeOK, WorldTypeOK
<1> QED
  BY <1>stutter, <1>ScanVanished, <1>ScanOwnerless, <1>ScanFresh, <1>ScanStale,
     <1>QuarantineUnknown, <1>ScanDone, <1>FailRetry, <1>FailQuarantine,
     <1>DropPending, <1>UnlinkOwner, <1>RemoveLeaseDir, <1>ClaimBegin,
     <1>ListPending, <1>Acquire, <1>NothingToClaim, <1>PublishOwner,
     <1>PublishFails, <1>HeartbeatCheck, <1>HeartbeatWrite, <1>ReadyCheck,
     <1>PrepareReady, <1>PrepareHollow, <1>PrepareWaits, <1>PrepareFails,
     <1>CompleteCheck, <1>Notify, <1>RecordCompleted, <1>DeferCheck,
     <1>DeferWrite, <1>FailCheck, <1>Discover, <1>EnqueueLease, <1>EnqueueRead,
     <1>EnqueueWrite, <1>RecoverBegin, <1>RetryCheck, <1>RetryWrite,
     <1>RetryArchive, <1>Crash, <1>BackoffElapses, <1>LeaseExpires,
     <1>LeaseExpiresLive, <1>NewSnapshot, <1>IndexRewritten DEF Next, Progress,
     Recovery, Claiming, Heartbeat, Finishing, Discovery, Retrying, Mishap,
     Environment

\* Every process stays at a step of its command, with the operands it needs.
LEMMA ProcStep ==
    ASSUME TypeInv, [Next]_vars
    PROVE  ProcInv'
<1>ScanVanished. ASSUME NEW p \in Procs, NEW w \in Wikis, ScanVanished(p, w)
    PROVE  ProcInv'
  BY <1>ScanVanished, ErrorProc DEF ScanVanished, TypeInv, TypeOK, ProcInv
<1>ScanOwnerless. ASSUME NEW p \in Procs, NEW w \in Wikis, ScanOwnerless(p, w)
    PROVE  ProcInv'
  <2>1. ProcTypeOK'
    BY <1>ScanOwnerless DEF ScanOwnerless, Goto, TypeInv, TypeOK, ProcTypeOK,
       QueueTypeOK, Labels, Cmds, HbStates
  <2>2. ControlOK'
    BY <1>ScanOwnerless DEF ScanOwnerless, Goto, TypeInv, TypeOK, ProcTypeOK,
       QueueTypeOK, ControlOK, WorkCmds, JobCmds, HbStates
  <2> QED
    BY <2>1, <2>2 DEF ProcInv
<1>ScanFresh. ASSUME NEW p \in Procs, NEW w \in Wikis, ScanFresh(p, w)
    PROVE  ProcInv'
  <2>1. ProcTypeOK'
    BY <1>ScanFresh DEF ScanFresh, Goto, TypeInv, TypeOK, ProcTypeOK,
       QueueTypeOK, Labels, Cmds, HbStates
  <2>2. ControlOK'
    BY <1>ScanFresh DEF ScanFresh, Goto, TypeInv, TypeOK, ProcTypeOK,
       QueueTypeOK, ControlOK, WorkCmds, JobCmds, HbStates
  <2> QED
    BY <2>1, <2>2 DEF ProcInv
<1>ScanStale. ASSUME NEW p \in Procs, NEW w \in Wikis, ScanStale(p, w)
    PROVE  ProcInv'
  <2>1. owner[w].task \in Task
    BY <1>ScanStale DEF ScanStale, TypeInv, TypeOK, QueueTypeOK, Claim
  <2>2. ProcTypeOK'
    BY <1>ScanStale, <2>1 DEF ScanStale, Goto, TypeInv, TypeOK, ProcTypeOK,
       QueueTypeOK, Labels, Cmds, HbStates
  <2>3. ControlOK'
    BY <1>ScanStale, <2>1 DEF ScanStale, Goto, TypeInv, TypeOK, ProcTypeOK,
       QueueTypeOK, ControlOK, WorkCmds, JobCmds, HbStates
  <2> QED
    BY <2>2, <2>3 DEF ProcInv
<1>QuarantineUnknown. ASSUME NEW p \in Procs, QuarantineUnknown(p)
    PROVE  ProcInv'
  <2>1. CASE Goto(p, "scan") /\ dir' = [dir EXCEPT ![p] = None]
             /\ UNCHANGED <<cmd, scan, victim, view, job, hb>>
    <3>1. ProcTypeOK'
      BY <1>QuarantineUnknown, <2>1 DEF QuarantineUnknown, Goto, TypeInv,
         TypeOK, ProcTypeOK, QueueTypeOK, Labels
    <3>2. ControlOK'
      BY <1>QuarantineUnknown, <2>1 DEF QuarantineUnknown, Goto, TypeInv,
         TypeOK, ProcTypeOK, QueueTypeOK, ControlOK, WorkCmds, JobCmds
    <3> QED
      BY <3>1, <3>2 DEF ProcInv
  <2>2. CASE Error(p)
    BY <2>2, ErrorProc DEF TypeInv, TypeOK, ProcInv
  <2> QED
    BY <1>QuarantineUnknown, <2>1, <2>2 DEF QuarantineUnknown
<1>ScanDone. ASSUME NEW p \in Procs, ScanDone(p)
    PROVE  ProcInv'
  <2>1. CASE /\ \/ cmd[p] = "claim" /\ Goto(p, "list")
                \/ cmd[p] = "enqueue" /\ Goto(p, "enqlease")
             /\ UNCHANGED <<cmd, scan, dir, victim, view, job, hb>>
    <3>1. ProcTypeOK'
      BY <1>ScanDone, <2>1 DEF ScanDone, Goto, TypeInv, TypeOK, ProcTypeOK,
         QueueTypeOK, Labels
    <3>2. ControlOK'
      BY <1>ScanDone, <2>1 DEF ScanDone, Goto, TypeInv, TypeOK, ProcTypeOK,
         QueueTypeOK, ControlOK, WorkCmds, JobCmds
    <3> QED
      BY <3>1, <3>2 DEF ProcInv
  <2>2. CASE Stop(p)
    BY <2>2, StopProc DEF TypeInv, TypeOK, ProcInv
  <2> QED
    BY <1>ScanDone, <2>1, <2>2 DEF ScanDone
<1>FailRetry. ASSUME NEW p \in Procs, FailRetry(p)
    PROVE  ProcInv'
  <2>1. ProcTypeOK'
    BY <1>FailRetry DEF FailRetry, Goto, TypeInv, TypeOK, ProcTypeOK,
       QueueTypeOK, Labels, Cmds, HbStates
  <2>2. ControlOK'
    BY <1>FailRetry DEF FailRetry, Goto, TypeInv, TypeOK, ProcTypeOK,
       QueueTypeOK, ControlOK, WorkCmds, JobCmds, HbStates
  <2> QED
    BY <2>1, <2>2 DEF ProcInv
<1>FailQuarantine. ASSUME NEW p \in Procs, FailQuarantine(p)
    PROVE  ProcInv'
  <2>1. ProcTypeOK'
    BY <1>FailQuarantine DEF FailQuarantine, Goto, TypeInv, TypeOK, ProcTypeOK,
       QueueTypeOK, Labels, Cmds, HbStates
  <2>2. ControlOK'
    BY <1>FailQuarantine DEF FailQuarantine, Goto, TypeInv, TypeOK, ProcTypeOK,
       QueueTypeOK, ControlOK, WorkCmds, JobCmds, HbStates
  <2> QED
    BY <2>1, <2>2 DEF ProcInv
<1>DropPending. ASSUME NEW p \in Procs, DropPending(p)
    PROVE  ProcInv'
  <2>1. CASE Goto(p, "unlink") /\ UNCHANGED <<cmd, scan, dir, victim, view, job, hb>>
    <3>1. ProcTypeOK'
      BY <1>DropPending, <2>1 DEF DropPending, Goto, TypeInv, TypeOK,
         ProcTypeOK, QueueTypeOK, Labels
    <3>2. ControlOK'
      BY <1>DropPending, <2>1 DEF DropPending, Goto, TypeInv, TypeOK,
         ProcTypeOK, QueueTypeOK, ControlOK, WorkCmds, JobCmds
    <3> QED
      BY <3>1, <3>2 DEF ProcInv
  <2>2. CASE Error(p)
    BY <2>2, ErrorProc DEF TypeInv, TypeOK, ProcInv
  <2> QED
    BY <1>DropPending, <2>1, <2>2 DEF DropPending
<1>UnlinkOwner. ASSUME NEW p \in Procs, UnlinkOwner(p)
    PROVE  ProcInv'
  <2>1. CASE Goto(p, "rmdir") /\ UNCHANGED <<cmd, scan, dir, victim, view, job, hb>>
    <3>1. ProcTypeOK'
      BY <1>UnlinkOwner, <2>1 DEF UnlinkOwner, Goto, TypeInv, TypeOK,
         ProcTypeOK, QueueTypeOK, Labels
    <3>2. ControlOK'
      BY <1>UnlinkOwner, <2>1 DEF UnlinkOwner, Goto, TypeInv, TypeOK,
         ProcTypeOK, QueueTypeOK, ControlOK, WorkCmds, JobCmds
    <3> QED
      BY <3>1, <3>2 DEF ProcInv
  <2>2. CASE Error(p)
    BY <2>2, ErrorProc DEF TypeInv, TypeOK, ProcInv
  <2> QED
    BY <1>UnlinkOwner, <2>1, <2>2 DEF UnlinkOwner
<1>RemoveLeaseDir. ASSUME NEW p \in Procs, RemoveLeaseDir(p)
    PROVE  ProcInv'
  BY <1>RemoveLeaseDir, ErrorProc, ReleasedProc DEF RemoveLeaseDir, TypeInv, TypeOK, ProcInv
<1>ClaimBegin. ASSUME NEW p \in Procs, ClaimBegin(p)
    PROVE  ProcInv'
  <2>1. ProcTypeOK'
    BY <1>ClaimBegin DEF ClaimBegin, Goto, TypeInv, TypeOK, ProcTypeOK,
       QueueTypeOK, Labels, Cmds, HbStates, BeginScan, ScanCmds
  <2>2. ControlOK'
    BY <1>ClaimBegin DEF ClaimBegin, Goto, TypeInv, TypeOK, ProcTypeOK,
       QueueTypeOK, ControlOK, WorkCmds, JobCmds, HbStates, BeginScan, ScanCmds
  <2> QED
    BY <2>1, <2>2 DEF ProcInv
<1>ListPending. ASSUME NEW p \in Procs, ListPending(p)
    PROVE  ProcInv'
  <2>1. Eligible(p) \subseteq Task
    BY DEF Eligible, TypeInv, TypeOK, QueueTypeOK
  <2>2. ProcTypeOK'
    BY <1>ListPending, <2>1 DEF ListPending, Goto, TypeInv, TypeOK, ProcTypeOK,
       QueueTypeOK, Labels, Cmds, HbStates
  <2>3. ControlOK'
    BY <1>ListPending, <2>1 DEF ListPending, Goto, TypeInv, TypeOK, ProcTypeOK,
       QueueTypeOK, ControlOK, WorkCmds, JobCmds, HbStates
  <2> QED
    BY <2>2, <2>3 DEF ProcInv
<1>Acquire. ASSUME NEW p \in Procs, NEW t \in view[p], Acquire(p, t)
    PROVE  ProcInv'
  <2>1. t \in Task
    BY DEF TypeInv, TypeOK, ProcTypeOK
  <2>2. p \in Workers /\ hb[p] \in HbStates
    BY <1>Acquire DEF Acquire, TypeInv, TypeOK, ProcTypeOK, ControlOK
  <2>3. ProcTypeOK'
    BY <1>Acquire, <2>1, <2>2 DEF Acquire, Goto, TypeInv, TypeOK, ProcTypeOK,
       QueueTypeOK, Labels, Cmds, HbStates
  <2>4. ControlOK'
    BY <1>Acquire, <2>1, <2>2 DEF Acquire, Goto, TypeInv, TypeOK, ProcTypeOK,
       QueueTypeOK, ControlOK, WorkCmds, JobCmds, HbStates
  <2> QED
    BY <2>3, <2>4 DEF ProcInv
<1>NothingToClaim. ASSUME NEW p \in Procs, NothingToClaim(p)
    PROVE  ProcInv'
  BY <1>NothingToClaim, StopProc DEF NothingToClaim, TypeInv, TypeOK, ProcInv
<1>PublishOwner. ASSUME NEW p \in Procs, PublishOwner(p)
    PROVE  ProcInv'
  <2>1. p \in Workers /\ job[p] \in Task
    BY <1>PublishOwner, JobTyped DEF PublishOwner, TypeInv, ControlOK
  <2>2. ProcTypeOK'
    BY <1>PublishOwner, <2>1 DEF PublishOwner, Goto, TypeInv, TypeOK,
       ProcTypeOK, QueueTypeOK, Labels, Cmds, HbStates
  <2>3. ControlOK'
    BY <1>PublishOwner, <2>1 DEF PublishOwner, Goto, TypeInv, TypeOK,
       ProcTypeOK, QueueTypeOK, ControlOK, WorkCmds, JobCmds, HbStates
  <2> QED
    BY <2>2, <2>3 DEF ProcInv
<1>PublishFails. ASSUME NEW p \in Procs, PublishFails(p)
    PROVE  ProcInv'
  <2>1. job[p].wiki \in Wikis
    BY <1>PublishFails, JobTyped DEF PublishFails, TypeInv, Task
  <2>2. ProcTypeOK'
    BY <1>PublishFails, <2>1 DEF PublishFails, Goto, TypeInv, TypeOK,
       ProcTypeOK, QueueTypeOK, Labels, Cmds, HbStates
  <2>3. ControlOK'
    BY <1>PublishFails, <2>1 DEF PublishFails, Goto, TypeInv, TypeOK,
       ProcTypeOK, QueueTypeOK, ControlOK, WorkCmds, JobCmds, HbStates
  <2> QED
    BY <2>2, <2>3 DEF ProcInv
<1>HeartbeatCheck. ASSUME NEW p \in Procs, HeartbeatCheck(p)
    PROVE  ProcInv'
  <2>1. p \in Workers /\ job[p] \in Task
    BY <1>HeartbeatCheck DEF HeartbeatCheck, TypeInv, ControlOK
  <2>2. pc[p] # "idle"
    BY <1>HeartbeatCheck DEF HeartbeatCheck, TypeInv, ControlOK
  <2>3. ProcTypeOK'
    BY <1>HeartbeatCheck, <2>1, <2>2 DEF HeartbeatCheck, Goto, TypeInv, TypeOK,
       ProcTypeOK, QueueTypeOK, Labels, Cmds, HbStates
  <2>4. ControlOK'
    BY <1>HeartbeatCheck, <2>1, <2>2 DEF HeartbeatCheck, Goto, TypeInv, TypeOK,
       ProcTypeOK, QueueTypeOK, ControlOK, WorkCmds, JobCmds, HbStates
  <2> QED
    BY <2>3, <2>4 DEF ProcInv
<1>HeartbeatWrite. ASSUME NEW p \in Procs, HeartbeatWrite(p)
    PROVE  ProcInv'
  <2>1. ProcTypeOK'
    BY <1>HeartbeatWrite DEF HeartbeatWrite, Goto, TypeInv, TypeOK, ProcTypeOK,
       QueueTypeOK, Labels, Cmds, HbStates
  <2>2. ControlOK'
    BY <1>HeartbeatWrite DEF HeartbeatWrite, Goto, TypeInv, TypeOK, ProcTypeOK,
       QueueTypeOK, ControlOK, WorkCmds, JobCmds, HbStates
  <2> QED
    BY <2>1, <2>2 DEF ProcInv
<1>ReadyCheck. ASSUME NEW p \in Procs, ReadyCheck(p)
    PROVE  ProcInv'
  BY <1>ReadyCheck, AfterPrepareProc DEF ReadyCheck, TypeInv, TypeOK, ProcInv
<1>PrepareReady. ASSUME NEW p \in Procs, PrepareReady(p)
    PROVE  ProcInv'
  BY <1>PrepareReady, AfterPrepareProc DEF PrepareReady, TypeInv, TypeOK, ProcInv
<1>PrepareHollow. ASSUME NEW p \in Procs, PrepareHollow(p)
    PROVE  ProcInv'
  BY <1>PrepareHollow, AfterPrepareProc DEF PrepareHollow, TypeInv, TypeOK, ProcInv
<1>PrepareWaits. ASSUME NEW p \in Procs, PrepareWaits(p)
    PROVE  ProcInv'
  BY <1>PrepareWaits, AfterPrepareProc DEF PrepareWaits, TypeInv, TypeOK, ProcInv
<1>PrepareFails. ASSUME NEW p \in Procs, PrepareFails(p)
    PROVE  ProcInv'
  BY <1>PrepareFails, FinishTaskProc, JobTyped DEF PrepareFails, TypeInv, TypeOK, ProcInv,
     ControlOK, WorkCmds
<1>CompleteCheck. ASSUME NEW p \in Procs, CompleteCheck(p)
    PROVE  ProcInv'
  <2>1. CASE Goto(p, "notify") /\ UNCHANGED <<cmd, scan, dir, victim, view, job, hb>>
    <3>1. ProcTypeOK'
      BY <1>CompleteCheck, <2>1 DEF CompleteCheck, Goto, TypeInv, TypeOK,
         ProcTypeOK, QueueTypeOK, Labels
    <3>2. ControlOK'
      BY <1>CompleteCheck, <2>1 DEF CompleteCheck, Goto, TypeInv, TypeOK,
         ProcTypeOK, QueueTypeOK, ControlOK, WorkCmds, JobCmds
    <3> QED
      BY <3>1, <3>2 DEF ProcInv
  <2>2. CASE Error(p)
    BY <2>2, ErrorProc DEF TypeInv, TypeOK, ProcInv
  <2> QED
    BY <1>CompleteCheck, <2>1, <2>2 DEF CompleteCheck
<1>Notify. ASSUME NEW p \in Procs, Notify(p)
    PROVE  ProcInv'
  <2>1. ProcTypeOK'
    BY <1>Notify DEF Notify, Goto, TypeInv, TypeOK, ProcTypeOK, QueueTypeOK,
       Labels, Cmds, HbStates
  <2>2. ControlOK'
    BY <1>Notify DEF Notify, Goto, TypeInv, TypeOK, ProcTypeOK, QueueTypeOK,
       ControlOK, WorkCmds, JobCmds, HbStates
  <2> QED
    BY <2>1, <2>2 DEF ProcInv
<1>RecordCompleted. ASSUME NEW p \in Procs, RecordCompleted(p)
    PROVE  ProcInv'
  <2>1. job[p].wiki \in Wikis
    BY <1>RecordCompleted, JobTyped DEF RecordCompleted, TypeInv, Task
  <2>2. ProcTypeOK'
    BY <1>RecordCompleted, <2>1 DEF RecordCompleted, Goto, TypeInv, TypeOK,
       ProcTypeOK, QueueTypeOK, Labels, Cmds, HbStates
  <2>3. ControlOK'
    BY <1>RecordCompleted, <2>1 DEF RecordCompleted, Goto, TypeInv, TypeOK,
       ProcTypeOK, QueueTypeOK, ControlOK, WorkCmds, JobCmds, HbStates
  <2> QED
    BY <2>2, <2>3 DEF ProcInv
<1>DeferCheck. ASSUME NEW p \in Procs, DeferCheck(p)
    PROVE  ProcInv'
  <2>1. CASE Goto(p, "deferwrite") /\ UNCHANGED <<cmd, scan, dir, victim, view, job, hb>>
    <3>1. ProcTypeOK'
      BY <1>DeferCheck, <2>1 DEF DeferCheck, Goto, TypeInv, TypeOK, ProcTypeOK,
         QueueTypeOK, Labels
    <3>2. ControlOK'
      BY <1>DeferCheck, <2>1 DEF DeferCheck, Goto, TypeInv, TypeOK, ProcTypeOK,
         QueueTypeOK, ControlOK, WorkCmds, JobCmds
    <3> QED
      BY <3>1, <3>2 DEF ProcInv
  <2>2. CASE Error(p)
    BY <2>2, ErrorProc DEF TypeInv, TypeOK, ProcInv
  <2> QED
    BY <1>DeferCheck, <2>1, <2>2 DEF DeferCheck
<1>DeferWrite. ASSUME NEW p \in Procs, DeferWrite(p)
    PROVE  ProcInv'
  <2>1. job[p].wiki \in Wikis
    BY <1>DeferWrite, JobTyped DEF DeferWrite, TypeInv, Task
  <2>2. ProcTypeOK'
    BY <1>DeferWrite, <2>1 DEF DeferWrite, Goto, TypeInv, TypeOK, ProcTypeOK,
       QueueTypeOK, Labels, Cmds, HbStates
  <2>3. ControlOK'
    BY <1>DeferWrite, <2>1 DEF DeferWrite, Goto, TypeInv, TypeOK, ProcTypeOK,
       QueueTypeOK, ControlOK, WorkCmds, JobCmds, HbStates
  <2> QED
    BY <2>2, <2>3 DEF ProcInv
<1>FailCheck. ASSUME NEW p \in Procs, FailCheck(p)
    PROVE  ProcInv'
  <2>1. job[p] \in Task /\ job[p].wiki \in Wikis
    BY <1>FailCheck, JobTyped DEF FailCheck, TypeInv, Task
  <2>2. CASE /\ Goto(p, "fail")
             /\ dir' = [dir EXCEPT ![p] = job[p].wiki]
             /\ victim' = [victim EXCEPT ![p] = job[p]]
             /\ UNCHANGED <<cmd, scan, view, job, hb>>
    <3>1. ProcTypeOK'
      BY <1>FailCheck, <2>1, <2>2 DEF FailCheck, Goto, TypeInv, TypeOK, ProcTypeOK,
         QueueTypeOK, Labels
    <3>2. ControlOK'
      BY <1>FailCheck, <2>1, <2>2 DEF FailCheck, Goto, TypeInv, TypeOK, ProcTypeOK,
         QueueTypeOK, ControlOK, WorkCmds, JobCmds
    <3> QED
      BY <3>1, <3>2 DEF ProcInv
  <2>3. CASE Error(p)
    BY <2>3, ErrorProc DEF TypeInv, TypeOK, ProcInv
  <2> QED
    BY <1>FailCheck, <2>2, <2>3 DEF FailCheck
<1>Discover. ASSUME NEW p \in Procs, NEW w \in Wikis, NEW c \in Classes,
              Discover(p, w, c)
    PROVE  ProcInv'
  <2>1. NewTask(w, upstream[w], c) \in Task
    BY FleetAssumption DEF NewTask, Task, TypeInv, TypeOK, WorldTypeOK
  <2>2. hb[p] = "off"
    BY <1>Discover, ProcsDisjoint DEF Discover, TypeInv, ControlOK
  <2>3. ProcTypeOK'
    BY <1>Discover, <2>1, <2>2 DEF Discover, Goto, TypeInv, TypeOK, ProcTypeOK,
       QueueTypeOK, Labels, Cmds, HbStates, BeginScan, ScanCmds
  <2>4. ControlOK'
    BY <1>Discover, <2>1, <2>2 DEF Discover, Goto, TypeInv, TypeOK, ProcTypeOK,
       QueueTypeOK, ControlOK, WorkCmds, JobCmds, HbStates, BeginScan, ScanCmds
  <2> QED
    BY <2>3, <2>4 DEF ProcInv
<1>EnqueueLease. ASSUME NEW p \in Procs, EnqueueLease(p)
    PROVE  ProcInv'
  <2>1. CASE Goto(p, "enqread") /\ UNCHANGED <<cmd, scan, dir, victim, view, job, hb>>
    <3>1. ProcTypeOK'
      BY <1>EnqueueLease, <2>1 DEF EnqueueLease, Goto, TypeInv, TypeOK,
         ProcTypeOK, QueueTypeOK, Labels
    <3>2. ControlOK'
      BY <1>EnqueueLease, <2>1 DEF EnqueueLease, Goto, TypeInv, TypeOK,
         ProcTypeOK, QueueTypeOK, ControlOK, WorkCmds, JobCmds
    <3> QED
      BY <3>1, <3>2 DEF ProcInv
  <2>2. CASE Stop(p)
    BY <2>2, StopProc DEF TypeInv, TypeOK, ProcInv
  <2> QED
    BY <1>EnqueueLease, <2>1, <2>2 DEF EnqueueLease
<1>EnqueueRead. ASSUME NEW p \in Procs, EnqueueRead(p)
    PROVE  ProcInv'
  <2>1. CASE Goto(p, "enqwrite") /\ UNCHANGED <<cmd, scan, dir, victim, view, job, hb>>
    <3>1. ProcTypeOK'
      BY <1>EnqueueRead, <2>1 DEF EnqueueRead, Goto, TypeInv, TypeOK,
         ProcTypeOK, QueueTypeOK, Labels
    <3>2. ControlOK'
      BY <1>EnqueueRead, <2>1 DEF EnqueueRead, Goto, TypeInv, TypeOK,
         ProcTypeOK, QueueTypeOK, ControlOK, WorkCmds, JobCmds
    <3> QED
      BY <3>1, <3>2 DEF ProcInv
  <2>2. CASE Stop(p)
    BY <2>2, StopProc DEF TypeInv, TypeOK, ProcInv
  <2> QED
    BY <1>EnqueueRead, <2>1, <2>2 DEF EnqueueRead
<1>EnqueueWrite. ASSUME NEW p \in Procs, EnqueueWrite(p)
    PROVE  ProcInv'
  BY <1>EnqueueWrite, StopProc DEF EnqueueWrite, TypeInv, TypeOK, ProcInv
<1>RecoverBegin. ASSUME NEW p \in Procs, RecoverBegin(p)
    PROVE  ProcInv'
  <2>1. hb[p] = "off"
    BY <1>RecoverBegin, ProcsDisjoint DEF RecoverBegin, TypeInv, ControlOK
  <2>2. ProcTypeOK'
    BY <1>RecoverBegin, <2>1 DEF RecoverBegin, Goto, TypeInv, TypeOK,
       ProcTypeOK, QueueTypeOK, Labels, Cmds, HbStates, BeginScan, ScanCmds
  <2>3. ControlOK'
    BY <1>RecoverBegin, <2>1 DEF RecoverBegin, Goto, TypeInv, TypeOK,
       ProcTypeOK, QueueTypeOK, ControlOK, WorkCmds, JobCmds, HbStates,
       BeginScan, ScanCmds
  <2> QED
    BY <2>2, <2>3 DEF ProcInv
<1>RetryCheck. ASSUME NEW p \in Procs, NEW t \in quarantine, RetryCheck(p, t)
    PROVE  ProcInv'
  <2>1. [t EXCEPT !.attempt = 0, !.due = TRUE] \in Task
    <3>1. t \in Task /\ 0 \in 0..(MaxAttempts - 1)
      BY FleetAssumption DEF TypeInv, TypeOK, QueueTypeOK
    <3> QED
      BY <3>1 DEF Task
  <2>2. hb[p] = "off"
    BY <1>RetryCheck, ProcsDisjoint DEF RetryCheck, TypeInv, ControlOK
  <2>3. ProcTypeOK'
    BY <1>RetryCheck, <2>1, <2>2 DEF RetryCheck, Goto, TypeInv, TypeOK,
       ProcTypeOK, QueueTypeOK, Labels, Cmds, HbStates
  <2>4. ControlOK'
    BY <1>RetryCheck, <2>1, <2>2 DEF RetryCheck, Goto, TypeInv, TypeOK,
       ProcTypeOK, QueueTypeOK, ControlOK, WorkCmds, JobCmds, HbStates
  <2> QED
    BY <2>3, <2>4 DEF ProcInv
<1>RetryWrite. ASSUME NEW p \in Procs, RetryWrite(p)
    PROVE  ProcInv'
  <2>1. ProcTypeOK'
    BY <1>RetryWrite DEF RetryWrite, Goto, TypeInv, TypeOK, ProcTypeOK,
       QueueTypeOK, Labels, Cmds, HbStates
  <2>2. ControlOK'
    BY <1>RetryWrite DEF RetryWrite, Goto, TypeInv, TypeOK, ProcTypeOK,
       QueueTypeOK, ControlOK, WorkCmds, JobCmds, HbStates
  <2> QED
    BY <2>1, <2>2 DEF ProcInv
<1>RetryArchive. ASSUME NEW p \in Procs, RetryArchive(p)
    PROVE  ProcInv'
  BY <1>RetryArchive, StopProc DEF RetryArchive, TypeInv, TypeOK, ProcInv
<1>Crash. ASSUME NEW p \in Procs, Crash(p)
    PROVE  ProcInv'
  <2>1. ProcTypeOK'
    BY <1>Crash DEF Crash, Goto, TypeInv, TypeOK, ProcTypeOK, QueueTypeOK,
       Labels, Cmds, HbStates
  <2>2. ControlOK'
    BY <1>Crash DEF Crash, Goto, TypeInv, TypeOK, ProcTypeOK, QueueTypeOK,
       ControlOK, WorkCmds, JobCmds, HbStates
  <2> QED
    BY <2>1, <2>2 DEF ProcInv
<1>BackoffElapses. ASSUME NEW w \in Wikis, BackoffElapses(w)
    PROVE  ProcInv'
  BY <1>BackoffElapses DEF BackoffElapses, procVars, ProcInv, TypeInv, TypeOK, ProcTypeOK,
     ControlOK
<1>LeaseExpires. ASSUME NEW w \in Wikis, LeaseExpires(w)
    PROVE  ProcInv'
  BY <1>LeaseExpires DEF LeaseExpires, procVars, ProcInv, TypeInv, TypeOK, ProcTypeOK,
     ControlOK
<1>LeaseExpiresLive. ASSUME NEW w \in Wikis, LeaseExpiresLive(w)
    PROVE  ProcInv'
  BY <1>LeaseExpiresLive DEF LeaseExpiresLive, procVars, ProcInv, TypeInv, TypeOK, ProcTypeOK,
     ControlOK
<1>NewSnapshot. ASSUME NEW w \in Wikis, NewSnapshot(w)
    PROVE  ProcInv'
  BY <1>NewSnapshot DEF NewSnapshot, procVars, ProcInv, TypeInv, TypeOK, ProcTypeOK,
     ControlOK
<1>IndexRewritten. ASSUME NEW w \in Wikis, NEW s \in 0..MaxSnapshot, IndexRewritten(w, s)
    PROVE  ProcInv'
  BY <1>IndexRewritten DEF IndexRewritten, procVars, ProcInv, TypeInv, TypeOK, ProcTypeOK,
     ControlOK
<1>stutter. CASE UNCHANGED vars
  BY <1>stutter DEF vars, procVars, ProcInv, TypeInv, TypeOK, ProcTypeOK,
     ControlOK
<1> QED
  BY <1>stutter, <1>ScanVanished, <1>ScanOwnerless, <1>ScanFresh, <1>ScanStale,
     <1>QuarantineUnknown, <1>ScanDone, <1>FailRetry, <1>FailQuarantine,
     <1>DropPending, <1>UnlinkOwner, <1>RemoveLeaseDir, <1>ClaimBegin,
     <1>ListPending, <1>Acquire, <1>NothingToClaim, <1>PublishOwner,
     <1>PublishFails, <1>HeartbeatCheck, <1>HeartbeatWrite, <1>ReadyCheck,
     <1>PrepareReady, <1>PrepareHollow, <1>PrepareWaits, <1>PrepareFails,
     <1>CompleteCheck, <1>Notify, <1>RecordCompleted, <1>DeferCheck,
     <1>DeferWrite, <1>FailCheck, <1>Discover, <1>EnqueueLease, <1>EnqueueRead,
     <1>EnqueueWrite, <1>RecoverBegin, <1>RetryCheck, <1>RetryWrite,
     <1>RetryArchive, <1>Crash, <1>BackoffElapses, <1>LeaseExpires,
     <1>LeaseExpiresLive, <1>NewSnapshot, <1>IndexRewritten DEF Next, Progress,
     Recovery, Claiming, Heartbeat, Finishing, Discovery, Retrying, Mishap,
     Environment

\* An empty queue and idle processes are well formed.
LEMMA TypeInit == Init => TypeInv
<1> SUFFICES ASSUME Init PROVE TypeInv
  OBVIOUS
<1>1. QueueTypeOK
  BY DEF Init, QueueTypeOK
<1>2. WorldTypeOK
  BY FleetAssumption DEF Init, WorldTypeOK, Snapshots
<1>3. ProcTypeOK
  BY DEF Init, ProcTypeOK, Labels, Cmds, ScanCmds, HbStates
<1>4. ControlOK
  BY DEF Init, ControlOK, WorkCmds, JobCmds
<1> QED
  BY <1>1, <1>2, <1>3, <1>4 DEF TypeInv, TypeOK

\* The queue, the world and the control state are well formed for ever.
LEMMA TypeInvariant == Spec => []TypeInv
<1>1. TypeInv /\ [Next]_vars => TypeInv'
  BY StoreStep, ProcStep DEF TypeInv, TypeOK, StoreOK, ProcInv
<1> QED
  BY <1>1, TypeInit, PTL DEF Spec

\* Type correctness: whatever commands interleave and wherever processes die,
\* every document in the queue is well formed and every process is at a step of
\* some command.
THEOREM TypeCorrect == Spec => []TypeOK
<1>1. TypeInv => TypeOK
  BY DEF TypeInv
<1> QED
  BY <1>1, TypeInvariant, PTL

-----------------------------------------------------------------------------
(* Completion evidence.                                                    *)

\* The ready index names validated snapshots only; the two writes of
\* fleet-complete find what the step before them established.
EvidenceInv ==
    /\ \A w \in Wikis : readyIndex[w] # 0 => <<w, readyIndex[w]>> \in validated
    /\ \A p \in Procs : pc[p] = "notify" => <<job[p].wiki, job[p].snap>> \in validated
    /\ \A p \in Procs : pc[p] = "record" => <<job[p].wiki, job[p].snap>> \in notified
    /\ CompletionAuthenticated
    /\ EvidenceOrdered

\* No operation of any command breaks the evidence.
LEMMA EvidenceStep ==
    ASSUME TypeInv, EvidenceInv, [Next]_vars
    PROVE  EvidenceInv'
<1>ScanVanished. ASSUME NEW p \in Procs, NEW w \in Wikis, ScanVanished(p, w)
    PROVE  EvidenceInv'
  BY <1>ScanVanished DEF ScanVanished, Goto, Error, FinishTask, Stop,
     EvidenceInv, CompletionAuthenticated, EvidenceOrdered, TypeInv, TypeOK,
     ProcTypeOK, queueVars, worldVars, procVars
<1>ScanOwnerless. ASSUME NEW p \in Procs, NEW w \in Wikis, ScanOwnerless(p, w)
    PROVE  EvidenceInv'
  BY <1>ScanOwnerless DEF ScanOwnerless, Goto, EvidenceInv,
     CompletionAuthenticated, EvidenceOrdered, TypeInv, TypeOK, ProcTypeOK,
     queueVars, worldVars, procVars
<1>ScanFresh. ASSUME NEW p \in Procs, NEW w \in Wikis, ScanFresh(p, w)
    PROVE  EvidenceInv'
  BY <1>ScanFresh DEF ScanFresh, EvidenceInv, CompletionAuthenticated,
     EvidenceOrdered, TypeInv, TypeOK, ProcTypeOK, queueVars, worldVars,
     procVars
<1>ScanStale. ASSUME NEW p \in Procs, NEW w \in Wikis, ScanStale(p, w)
    PROVE  EvidenceInv'
  BY <1>ScanStale DEF ScanStale, Goto, EvidenceInv, CompletionAuthenticated,
     EvidenceOrdered, TypeInv, TypeOK, ProcTypeOK, queueVars, worldVars,
     procVars
<1>QuarantineUnknown. ASSUME NEW p \in Procs, QuarantineUnknown(p)
    PROVE  EvidenceInv'
  BY <1>QuarantineUnknown DEF QuarantineUnknown, Goto, Error, FinishTask, Stop,
     EvidenceInv, CompletionAuthenticated, EvidenceOrdered, TypeInv, TypeOK,
     ProcTypeOK, queueVars, worldVars, procVars
<1>ScanDone. ASSUME NEW p \in Procs, ScanDone(p)
    PROVE  EvidenceInv'
  BY <1>ScanDone DEF ScanDone, Goto, Stop, EvidenceInv,
     CompletionAuthenticated, EvidenceOrdered, TypeInv, TypeOK, ProcTypeOK,
     queueVars, worldVars, procVars
<1>FailRetry. ASSUME NEW p \in Procs, FailRetry(p)
    PROVE  EvidenceInv'
  BY <1>FailRetry DEF FailRetry, Goto, EvidenceInv, CompletionAuthenticated,
     EvidenceOrdered, TypeInv, TypeOK, ProcTypeOK, queueVars, worldVars,
     procVars
<1>FailQuarantine. ASSUME NEW p \in Procs, FailQuarantine(p)
    PROVE  EvidenceInv'
  BY <1>FailQuarantine DEF FailQuarantine, Goto, EvidenceInv,
     CompletionAuthenticated, EvidenceOrdered, TypeInv, TypeOK, ProcTypeOK,
     queueVars, worldVars, procVars
<1>DropPending. ASSUME NEW p \in Procs, DropPending(p)
    PROVE  EvidenceInv'
  BY <1>DropPending DEF DropPending, Goto, Error, FinishTask, Stop,
     EvidenceInv, CompletionAuthenticated, EvidenceOrdered, TypeInv, TypeOK,
     ProcTypeOK, queueVars, worldVars, procVars
<1>UnlinkOwner. ASSUME NEW p \in Procs, UnlinkOwner(p)
    PROVE  EvidenceInv'
  BY <1>UnlinkOwner DEF UnlinkOwner, Goto, Error, FinishTask, Stop,
     EvidenceInv, CompletionAuthenticated, EvidenceOrdered, TypeInv, TypeOK,
     ProcTypeOK, queueVars, worldVars, procVars
<1>RemoveLeaseDir. ASSUME NEW p \in Procs, RemoveLeaseDir(p)
    PROVE  EvidenceInv'
  BY <1>RemoveLeaseDir DEF RemoveLeaseDir, Goto, Error, FinishTask, Stop,
     Released, EvidenceInv, CompletionAuthenticated, EvidenceOrdered, TypeInv,
     TypeOK, ProcTypeOK, queueVars, worldVars, procVars
<1>ClaimBegin. ASSUME NEW p \in Procs, ClaimBegin(p)
    PROVE  EvidenceInv'
  BY <1>ClaimBegin DEF ClaimBegin, Goto, BeginScan, EvidenceInv,
     CompletionAuthenticated, EvidenceOrdered, TypeInv, TypeOK, ProcTypeOK,
     queueVars, worldVars, procVars
<1>ListPending. ASSUME NEW p \in Procs, ListPending(p)
    PROVE  EvidenceInv'
  BY <1>ListPending DEF ListPending, Goto, EvidenceInv,
     CompletionAuthenticated, EvidenceOrdered, TypeInv, TypeOK, ProcTypeOK,
     queueVars, worldVars, procVars
<1>Acquire. ASSUME NEW p \in Procs, NEW t \in view[p], Acquire(p, t)
    PROVE  EvidenceInv'
  BY <1>Acquire DEF Acquire, Goto, EvidenceInv, CompletionAuthenticated,
     EvidenceOrdered, TypeInv, TypeOK, ProcTypeOK, queueVars, worldVars,
     procVars
<1>NothingToClaim. ASSUME NEW p \in Procs, NothingToClaim(p)
    PROVE  EvidenceInv'
  BY <1>NothingToClaim DEF NothingToClaim, Goto, Stop, EvidenceInv,
     CompletionAuthenticated, EvidenceOrdered, TypeInv, TypeOK, ProcTypeOK,
     queueVars, worldVars, procVars
<1>PublishOwner. ASSUME NEW p \in Procs, PublishOwner(p)
    PROVE  EvidenceInv'
  BY <1>PublishOwner DEF PublishOwner, Goto, EvidenceInv,
     CompletionAuthenticated, EvidenceOrdered, TypeInv, TypeOK, ProcTypeOK,
     queueVars, worldVars, procVars
<1>PublishFails. ASSUME NEW p \in Procs, PublishFails(p)
    PROVE  EvidenceInv'
  BY <1>PublishFails DEF PublishFails, Goto, EvidenceInv,
     CompletionAuthenticated, EvidenceOrdered, TypeInv, TypeOK, ProcTypeOK,
     queueVars, worldVars, procVars
<1>HeartbeatCheck. ASSUME NEW p \in Procs, HeartbeatCheck(p)
    PROVE  EvidenceInv'
  BY <1>HeartbeatCheck DEF HeartbeatCheck, EvidenceInv,
     CompletionAuthenticated, EvidenceOrdered, TypeInv, TypeOK, ProcTypeOK,
     queueVars, worldVars, procVars
<1>HeartbeatWrite. ASSUME NEW p \in Procs, HeartbeatWrite(p)
    PROVE  EvidenceInv'
  BY <1>HeartbeatWrite DEF HeartbeatWrite, EvidenceInv,
     CompletionAuthenticated, EvidenceOrdered, TypeInv, TypeOK, ProcTypeOK,
     queueVars, worldVars, procVars
<1>ReadyCheck. ASSUME NEW p \in Procs, ReadyCheck(p)
    PROVE  EvidenceInv'
  BY <1>ReadyCheck DEF ReadyCheck, Goto, AfterPrepare, FinishTask, EvidenceInv,
     CompletionAuthenticated, EvidenceOrdered, TypeInv, TypeOK, ProcTypeOK,
     queueVars, worldVars, procVars
<1>PrepareReady. ASSUME NEW p \in Procs, PrepareReady(p)
    PROVE  EvidenceInv'
  BY <1>PrepareReady, JobTyped DEF PrepareReady, Goto, AfterPrepare,
     FinishTask, EvidenceInv, CompletionAuthenticated, EvidenceOrdered,
     TypeInv, TypeOK, ProcTypeOK, queueVars, worldVars, procVars, QueueTypeOK,
     WorldTypeOK, Task
<1>PrepareHollow. ASSUME NEW p \in Procs, PrepareHollow(p)
    PROVE  EvidenceInv'
  BY <1>PrepareHollow DEF PrepareHollow, Goto, AfterPrepare, FinishTask,
     EvidenceInv, CompletionAuthenticated, EvidenceOrdered, TypeInv, TypeOK,
     ProcTypeOK, queueVars, worldVars, procVars
<1>PrepareWaits. ASSUME NEW p \in Procs, PrepareWaits(p)
    PROVE  EvidenceInv'
  BY <1>PrepareWaits DEF PrepareWaits, Goto, AfterPrepare, FinishTask,
     EvidenceInv, CompletionAuthenticated, EvidenceOrdered, TypeInv, TypeOK,
     ProcTypeOK, queueVars, worldVars, procVars
<1>PrepareFails. ASSUME NEW p \in Procs, PrepareFails(p)
    PROVE  EvidenceInv'
  BY <1>PrepareFails DEF PrepareFails, Goto, FinishTask, EvidenceInv,
     CompletionAuthenticated, EvidenceOrdered, TypeInv, TypeOK, ProcTypeOK,
     queueVars, worldVars, procVars
<1>CompleteCheck. ASSUME NEW p \in Procs, CompleteCheck(p)
    PROVE  EvidenceInv'
  <2>1. UNCHANGED <<readyIndex, validated, notified, completed>>
    BY <1>CompleteCheck DEF CompleteCheck, queueVars, worldVars
  <2>2. CASE MayComplete(p) /\ Goto(p, "notify") /\ job' = job
    <3>1. <<job[p].wiki, job[p].snap>> \in validated
      BY <2>2, <1>CompleteCheck, JobTyped, FleetAssumption DEF CompleteCheck,
         MayComplete, EvidenceInv, TypeInv, TypeOK, ProcTypeOK, QueueTypeOK,
         WorldTypeOK, Task, Snapshots
    <3> QED
      BY <2>1, <2>2, <3>1 DEF Goto, EvidenceInv, CompletionAuthenticated,
         EvidenceOrdered, TypeInv, TypeOK, ProcTypeOK
  <2>3. CASE Error(p)
    BY <2>1, <2>3, <1>CompleteCheck DEF CompleteCheck, Goto, Error, FinishTask,
       Stop, EvidenceInv, CompletionAuthenticated, EvidenceOrdered, TypeInv,
       TypeOK, ProcTypeOK
  <2> QED
    BY <1>CompleteCheck, <2>2, <2>3 DEF CompleteCheck
<1>Notify. ASSUME NEW p \in Procs, Notify(p)
    PROVE  EvidenceInv'
  BY <1>Notify DEF Notify, Goto, EvidenceInv, CompletionAuthenticated,
     EvidenceOrdered, TypeInv, TypeOK, ProcTypeOK, queueVars, worldVars,
     procVars
<1>RecordCompleted. ASSUME NEW p \in Procs, RecordCompleted(p)
    PROVE  EvidenceInv'
  BY <1>RecordCompleted DEF RecordCompleted, Goto, EvidenceInv,
     CompletionAuthenticated, EvidenceOrdered, TypeInv, TypeOK, ProcTypeOK,
     queueVars, worldVars, procVars
<1>DeferCheck. ASSUME NEW p \in Procs, DeferCheck(p)
    PROVE  EvidenceInv'
  BY <1>DeferCheck DEF DeferCheck, Goto, Error, FinishTask, Stop, EvidenceInv,
     CompletionAuthenticated, EvidenceOrdered, TypeInv, TypeOK, ProcTypeOK,
     queueVars, worldVars, procVars
<1>DeferWrite. ASSUME NEW p \in Procs, DeferWrite(p)
    PROVE  EvidenceInv'
  BY <1>DeferWrite DEF DeferWrite, Goto, EvidenceInv, CompletionAuthenticated,
     EvidenceOrdered, TypeInv, TypeOK, ProcTypeOK, queueVars, worldVars,
     procVars
<1>FailCheck. ASSUME NEW p \in Procs, FailCheck(p)
    PROVE  EvidenceInv'
  BY <1>FailCheck DEF FailCheck, Goto, Error, FinishTask, Stop, EvidenceInv,
     CompletionAuthenticated, EvidenceOrdered, TypeInv, TypeOK, ProcTypeOK,
     queueVars, worldVars, procVars
<1>Discover. ASSUME NEW p \in Procs, NEW w \in Wikis, NEW c \in Classes,
              Discover(p, w, c)
    PROVE  EvidenceInv'
  BY <1>Discover DEF Discover, Goto, BeginScan, EvidenceInv,
     CompletionAuthenticated, EvidenceOrdered, TypeInv, TypeOK, ProcTypeOK,
     queueVars, worldVars, procVars
<1>EnqueueLease. ASSUME NEW p \in Procs, EnqueueLease(p)
    PROVE  EvidenceInv'
  BY <1>EnqueueLease DEF EnqueueLease, Goto, Stop, EvidenceInv,
     CompletionAuthenticated, EvidenceOrdered, TypeInv, TypeOK, ProcTypeOK,
     queueVars, worldVars, procVars
<1>EnqueueRead. ASSUME NEW p \in Procs, EnqueueRead(p)
    PROVE  EvidenceInv'
  BY <1>EnqueueRead DEF EnqueueRead, Goto, Stop, EvidenceInv,
     CompletionAuthenticated, EvidenceOrdered, TypeInv, TypeOK, ProcTypeOK,
     queueVars, worldVars, procVars
<1>EnqueueWrite. ASSUME NEW p \in Procs, EnqueueWrite(p)
    PROVE  EvidenceInv'
  BY <1>EnqueueWrite DEF EnqueueWrite, Goto, Stop, EvidenceInv,
     CompletionAuthenticated, EvidenceOrdered, TypeInv, TypeOK, ProcTypeOK,
     queueVars, worldVars, procVars
<1>RecoverBegin. ASSUME NEW p \in Procs, RecoverBegin(p)
    PROVE  EvidenceInv'
  BY <1>RecoverBegin DEF RecoverBegin, Goto, BeginScan, EvidenceInv,
     CompletionAuthenticated, EvidenceOrdered, TypeInv, TypeOK, ProcTypeOK,
     queueVars, worldVars, procVars
<1>RetryCheck. ASSUME NEW p \in Procs, NEW t \in quarantine, RetryCheck(p, t)
    PROVE  EvidenceInv'
  BY <1>RetryCheck DEF RetryCheck, Goto, EvidenceInv, CompletionAuthenticated,
     EvidenceOrdered, TypeInv, TypeOK, ProcTypeOK, queueVars, worldVars,
     procVars
<1>RetryWrite. ASSUME NEW p \in Procs, RetryWrite(p)
    PROVE  EvidenceInv'
  BY <1>RetryWrite DEF RetryWrite, Goto, EvidenceInv, CompletionAuthenticated,
     EvidenceOrdered, TypeInv, TypeOK, ProcTypeOK, queueVars, worldVars,
     procVars
<1>RetryArchive. ASSUME NEW p \in Procs, RetryArchive(p)
    PROVE  EvidenceInv'
  BY <1>RetryArchive DEF RetryArchive, Goto, Stop, EvidenceInv,
     CompletionAuthenticated, EvidenceOrdered, TypeInv, TypeOK, ProcTypeOK,
     queueVars, worldVars, procVars
<1>Crash. ASSUME NEW p \in Procs, Crash(p)
    PROVE  EvidenceInv'
  BY <1>Crash DEF Crash, Goto, EvidenceInv, CompletionAuthenticated,
     EvidenceOrdered, TypeInv, TypeOK, ProcTypeOK, queueVars, worldVars,
     procVars
<1>BackoffElapses. ASSUME NEW w \in Wikis, BackoffElapses(w)
    PROVE  EvidenceInv'
  BY <1>BackoffElapses DEF BackoffElapses, EvidenceInv,
     CompletionAuthenticated, EvidenceOrdered, TypeInv, TypeOK, ProcTypeOK,
     queueVars, worldVars, procVars
<1>LeaseExpires. ASSUME NEW w \in Wikis, LeaseExpires(w)
    PROVE  EvidenceInv'
  BY <1>LeaseExpires DEF LeaseExpires, EvidenceInv, CompletionAuthenticated,
     EvidenceOrdered, TypeInv, TypeOK, ProcTypeOK, queueVars, worldVars,
     procVars
<1>LeaseExpiresLive. ASSUME NEW w \in Wikis, LeaseExpiresLive(w)
    PROVE  EvidenceInv'
  BY <1>LeaseExpiresLive DEF LeaseExpiresLive, EvidenceInv,
     CompletionAuthenticated, EvidenceOrdered, TypeInv, TypeOK, ProcTypeOK,
     queueVars, worldVars, procVars
<1>NewSnapshot. ASSUME NEW w \in Wikis, NewSnapshot(w)
    PROVE  EvidenceInv'
  BY <1>NewSnapshot DEF NewSnapshot, EvidenceInv, CompletionAuthenticated,
     EvidenceOrdered, TypeInv, TypeOK, ProcTypeOK, queueVars, worldVars,
     procVars
<1>IndexRewritten. ASSUME NEW w \in Wikis, NEW s \in 0..MaxSnapshot, IndexRewritten(w, s)
    PROVE  EvidenceInv'
  BY <1>IndexRewritten DEF IndexRewritten, EvidenceInv,
     CompletionAuthenticated, EvidenceOrdered, TypeInv, TypeOK, ProcTypeOK,
     queueVars, worldVars, procVars, QueueTypeOK, WorldTypeOK
<1>stutter. CASE UNCHANGED vars
  BY <1>stutter DEF vars, EvidenceInv, CompletionAuthenticated,
     EvidenceOrdered, queueVars, worldVars, procVars
<1> QED
  BY <1>stutter, <1>ScanVanished, <1>ScanOwnerless, <1>ScanFresh, <1>ScanStale,
     <1>QuarantineUnknown, <1>ScanDone, <1>FailRetry, <1>FailQuarantine,
     <1>DropPending, <1>UnlinkOwner, <1>RemoveLeaseDir, <1>ClaimBegin,
     <1>ListPending, <1>Acquire, <1>NothingToClaim, <1>PublishOwner,
     <1>PublishFails, <1>HeartbeatCheck, <1>HeartbeatWrite, <1>ReadyCheck,
     <1>PrepareReady, <1>PrepareHollow, <1>PrepareWaits, <1>PrepareFails,
     <1>CompleteCheck, <1>Notify, <1>RecordCompleted, <1>DeferCheck,
     <1>DeferWrite, <1>FailCheck, <1>Discover, <1>EnqueueLease, <1>EnqueueRead,
     <1>EnqueueWrite, <1>RecoverBegin, <1>RetryCheck, <1>RetryWrite,
     <1>RetryArchive, <1>Crash, <1>BackoffElapses, <1>LeaseExpires,
     <1>LeaseExpiresLive, <1>NewSnapshot, <1>IndexRewritten DEF Next, Progress,
     Recovery, Claiming, Heartbeat, Finishing, Discovery, Retrying, Mishap,
     Environment

\* What fleet-complete checked and wrote so far holds for ever.
LEMMA EvidenceInvariant == Spec => []EvidenceInv
<1>1. Init => EvidenceInv
  BY DEF Init, EvidenceInv, CompletionAuthenticated, EvidenceOrdered
<1>2. TypeInv /\ EvidenceInv /\ [Next]_vars => EvidenceInv'
  BY EvidenceStep
<1> QED
  BY <1>1, <1>2, TypeInvariant, PTL DEF Spec

\* A ready notification exists only for a snapshot that the ready index named.
THEOREM NotificationsAuthentic == Spec => []CompletionAuthenticated
<1>1. EvidenceInv => CompletionAuthenticated
  BY DEF EvidenceInv
<1> QED
  BY <1>1, EvidenceInvariant, PTL

\* A completion receipt never exists without its notification, wherever
\* fleet-complete was interrupted.
THEOREM ReceiptsAnnounced == Spec => []EvidenceOrdered
<1>1. EvidenceInv => EvidenceOrdered
  BY DEF EvidenceInv
<1> QED
  BY <1>1, EvidenceInvariant, PTL

-----------------------------------------------------------------------------
(* Most operations only drop operands.  They are treated together.         *)

\* p answers for a published lease: it works under it or refreshes it.
Working(p) == cmd[p] \in WorkCmds \/ hb[p] # "off"

OperandsKept ==
    \A q \in Procs :
        /\ view'[q] \subseteq view[q]
        /\ job'[q] \in {job[q], None}
        /\ victim'[q] \in {victim[q], None}
        /\ Working(q)' => Working(q) /\ job'[q] = job[q]

LeasesKept == tries' = tries /\ \A w \in Wikis : owner'[w] \in {owner[w], None}

TasksKept ==
    /\ \A w \in Wikis : pending'[w] \in {pending[w], None}
    /\ quarantine' \subseteq quarantine

\* Operations that write no task.
Quiet(p) ==
    \/ \E w \in Wikis : ScanVanished(p, w) \/ ScanOwnerless(p, w) \/ ScanFresh(p, w)
    \/ QuarantineUnknown(p) \/ ScanDone(p) \/ DropPending(p) \/ UnlinkOwner(p)
    \/ RemoveLeaseDir(p) \/ ClaimBegin(p) \/ NothingToClaim(p) \/ PublishFails(p)
    \/ HeartbeatCheck(p) \/ ReadyCheck(p) \/ PrepareReady(p) \/ PrepareHollow(p)
    \/ PrepareWaits(p) \/ PrepareFails(p) \/ CompleteCheck(p) \/ Notify(p)
    \/ RecordCompleted(p) \/ DeferCheck(p) \/ EnqueueLease(p) \/ EnqueueRead(p)
    \/ RecoverBegin(p) \/ RetryArchive(p) \/ Crash(p)

\* Operations that write the task they work on.
TaskWrite(p) ==
    \/ FailRetry(p) \/ FailQuarantine(p) \/ DeferWrite(p)
    \/ EnqueueWrite(p) \/ RetryWrite(p)

\* Ending a command gives a process no task and no lease to work under.
LEMMA StopKeeps ==
    ASSUME ProcInv, NEW p \in Procs, Stop(p)
    PROVE  OperandsKept
  BY DEF Stop, StopHeartbeat, Goto, OperandsKept, Working, ProcInv, ProcTypeOK,
         WorkCmds, HbStates

\* Nor does the EXIT trap, which goes on under the claim it had.
LEMMA FinishTaskKeeps ==
    ASSUME ProcInv, NEW p \in Procs, FinishTask(p), cmd[p] \in WorkCmds
    PROVE  OperandsKept
  BY DEF FinishTask, StopHeartbeat, Goto, OperandsKept, Working, ProcInv, ProcTypeOK,
         HbStates

\* Nor does an error.
LEMMA ErrorKeeps ==
    ASSUME ProcInv, NEW p \in Procs, Error(p)
    PROVE  OperandsKept
  BY StopKeeps, FinishTaskKeeps DEF Error, WorkCmds

\* Nor does the removal of a lease directory.
LEMMA ReleasedKeeps ==
    ASSUME ProcInv, NEW p \in Procs, Released(p)
    PROVE  OperandsKept
<1>1. CASE UNCHANGED <<cmd, scan, victim, view, job, hb>>
  BY <1>1 DEF OperandsKept, Working
<1>2. CASE cmd[p] \in {"complete", "defer"} /\ FinishTask(p)
  BY <1>2, FinishTaskKeeps DEF WorkCmds
<1>3. CASE Stop(p)
  BY <1>3, StopKeeps
<1> QED
  BY <1>1, <1>2, <1>3 DEF Released

\* Nor does the next foreground command of a worker.
LEMMA AfterPrepareKeeps ==
    ASSUME ProcInv, NEW p \in Procs, pc[p] \in {"readycheck", "prepare"},
           NEW c \in {"prepare", "complete", "defer"}, AfterPrepare(p, c)
    PROVE  OperandsKept
<1>1. cmd[p] \in WorkCmds
  BY DEF ProcInv, ControlOK, WorkCmds
<1>2. CASE hb[p] = "lost"
  BY <1>1, <1>2, FinishTaskKeeps DEF AfterPrepare
<1>3. CASE hb[p] # "lost"
  BY <1>1, <1>3 DEF AfterPrepare, OperandsKept, Working, ProcInv, ProcTypeOK
<1> QED
  BY <1>2, <1>3

\* No operation but discovery, the scan, claiming, publishing and fleet-fail's
\* check gives a process a task it did not have.
LEMMA QuietKeeps ==
    ASSUME TypeInv, NEW p \in Procs, Quiet(p) \/ TaskWrite(p)
    PROVE  OperandsKept
<1>inv. ProcInv /\ ProcTypeOK
  BY DEF ProcInv, TypeInv, TypeOK
<1>fails. pc[p] = "prepare" => cmd[p] \in WorkCmds
  BY DEF TypeInv, ControlOK, WorkCmds
<1>ScanVanished. ASSUME NEW w \in Wikis, ScanVanished(p, w) PROVE OperandsKept
  BY <1>ScanVanished, <1>inv, ErrorKeeps DEF ScanVanished, OperandsKept,
     Working, ProcTypeOK
<1>ScanOwnerless. ASSUME NEW w \in Wikis, ScanOwnerless(p, w) PROVE OperandsKept
  BY <1>ScanOwnerless, <1>inv DEF ScanOwnerless, OperandsKept, Working,
     ProcTypeOK
<1>ScanFresh. ASSUME NEW w \in Wikis, ScanFresh(p, w) PROVE OperandsKept
  BY <1>ScanFresh, <1>inv DEF ScanFresh, OperandsKept, Working, ProcTypeOK
<1>QuarantineUnknown. ASSUME QuarantineUnknown(p) PROVE OperandsKept
  BY <1>QuarantineUnknown, <1>inv, ErrorKeeps DEF QuarantineUnknown,
     OperandsKept, Working, ProcTypeOK
<1>ScanDone. ASSUME ScanDone(p) PROVE OperandsKept
  BY <1>ScanDone, <1>inv, StopKeeps DEF ScanDone, OperandsKept, Working,
     ProcTypeOK
<1>DropPending. ASSUME DropPending(p) PROVE OperandsKept
  BY <1>DropPending, <1>inv, ErrorKeeps DEF DropPending, OperandsKept, Working,
     ProcTypeOK
<1>UnlinkOwner. ASSUME UnlinkOwner(p) PROVE OperandsKept
  BY <1>UnlinkOwner, <1>inv, ErrorKeeps DEF UnlinkOwner, OperandsKept, Working,
     ProcTypeOK
<1>RemoveLeaseDir. ASSUME RemoveLeaseDir(p) PROVE OperandsKept
  BY <1>RemoveLeaseDir, <1>inv, ErrorKeeps, ReleasedKeeps DEF RemoveLeaseDir,
     OperandsKept, Working, ProcTypeOK
<1>ClaimBegin. ASSUME ClaimBegin(p) PROVE OperandsKept
  BY <1>ClaimBegin, <1>inv DEF ClaimBegin, OperandsKept, Working, ProcTypeOK,
     BeginScan, WorkCmds
<1>NothingToClaim. ASSUME NothingToClaim(p) PROVE OperandsKept
  BY <1>NothingToClaim, <1>inv, StopKeeps DEF NothingToClaim, OperandsKept,
     Working, ProcTypeOK
<1>PublishFails. ASSUME PublishFails(p) PROVE OperandsKept
  BY <1>PublishFails, <1>inv DEF PublishFails, OperandsKept, Working,
     ProcTypeOK, WorkCmds
<1>HeartbeatCheck. ASSUME HeartbeatCheck(p) PROVE OperandsKept
  BY <1>HeartbeatCheck, <1>inv DEF HeartbeatCheck, OperandsKept, Working,
     ProcTypeOK
<1>ReadyCheck. ASSUME ReadyCheck(p) PROVE OperandsKept
  BY <1>ReadyCheck, <1>inv, AfterPrepareKeeps DEF ReadyCheck, OperandsKept,
     Working, ProcTypeOK
<1>PrepareReady. ASSUME PrepareReady(p) PROVE OperandsKept
  BY <1>PrepareReady, <1>inv, AfterPrepareKeeps DEF PrepareReady, OperandsKept,
     Working, ProcTypeOK
<1>PrepareHollow. ASSUME PrepareHollow(p) PROVE OperandsKept
  BY <1>PrepareHollow, <1>inv, AfterPrepareKeeps DEF PrepareHollow,
     OperandsKept, Working, ProcTypeOK
<1>PrepareWaits. ASSUME PrepareWaits(p) PROVE OperandsKept
  BY <1>PrepareWaits, <1>inv, AfterPrepareKeeps DEF PrepareWaits, OperandsKept,
     Working, ProcTypeOK
<1>PrepareFails. ASSUME PrepareFails(p) PROVE OperandsKept
  BY <1>PrepareFails, <1>inv, FinishTaskKeeps, <1>fails DEF PrepareFails,
     OperandsKept, Working, ProcTypeOK
<1>CompleteCheck. ASSUME CompleteCheck(p) PROVE OperandsKept
  BY <1>CompleteCheck, <1>inv, ErrorKeeps DEF CompleteCheck, OperandsKept,
     Working, ProcTypeOK
<1>Notify. ASSUME Notify(p) PROVE OperandsKept
  BY <1>Notify, <1>inv DEF Notify, OperandsKept, Working, ProcTypeOK
<1>RecordCompleted. ASSUME RecordCompleted(p) PROVE OperandsKept
  BY <1>RecordCompleted, <1>inv DEF RecordCompleted, OperandsKept, Working,
     ProcTypeOK
<1>DeferCheck. ASSUME DeferCheck(p) PROVE OperandsKept
  BY <1>DeferCheck, <1>inv, ErrorKeeps DEF DeferCheck, OperandsKept, Working,
     ProcTypeOK
<1>EnqueueLease. ASSUME EnqueueLease(p) PROVE OperandsKept
  BY <1>EnqueueLease, <1>inv, StopKeeps DEF EnqueueLease, OperandsKept,
     Working, ProcTypeOK
<1>EnqueueRead. ASSUME EnqueueRead(p) PROVE OperandsKept
  BY <1>EnqueueRead, <1>inv, StopKeeps DEF EnqueueRead, OperandsKept, Working,
     ProcTypeOK
<1>RecoverBegin. ASSUME RecoverBegin(p) PROVE OperandsKept
  BY <1>RecoverBegin, <1>inv DEF RecoverBegin, OperandsKept, Working,
     ProcTypeOK, BeginScan, WorkCmds
<1>RetryArchive. ASSUME RetryArchive(p) PROVE OperandsKept
  BY <1>RetryArchive, <1>inv, StopKeeps DEF RetryArchive, OperandsKept,
     Working, ProcTypeOK
<1>Crash. ASSUME Crash(p) PROVE OperandsKept
  BY <1>Crash, <1>inv DEF Crash, OperandsKept, Working, ProcTypeOK, WorkCmds
<1>FailRetry. ASSUME FailRetry(p) PROVE OperandsKept
  BY <1>FailRetry, <1>inv DEF FailRetry, OperandsKept, Working, ProcTypeOK
<1>FailQuarantine. ASSUME FailQuarantine(p) PROVE OperandsKept
  BY <1>FailQuarantine, <1>inv DEF FailQuarantine, OperandsKept, Working,
     ProcTypeOK
<1>DeferWrite. ASSUME DeferWrite(p) PROVE OperandsKept
  BY <1>DeferWrite, <1>inv DEF DeferWrite, OperandsKept, Working, ProcTypeOK
<1>EnqueueWrite. ASSUME EnqueueWrite(p) PROVE OperandsKept
  BY <1>EnqueueWrite, <1>inv, StopKeeps DEF EnqueueWrite, OperandsKept,
     Working, ProcTypeOK
<1>RetryWrite. ASSUME RetryWrite(p) PROVE OperandsKept
  BY <1>RetryWrite, <1>inv DEF RetryWrite, OperandsKept, Working, ProcTypeOK
<1> QED
  BY <1>ScanVanished, <1>ScanOwnerless, <1>ScanFresh, <1>QuarantineUnknown,
     <1>ScanDone, <1>DropPending, <1>UnlinkOwner, <1>RemoveLeaseDir,
     <1>ClaimBegin, <1>NothingToClaim, <1>PublishFails, <1>HeartbeatCheck,
     <1>ReadyCheck, <1>PrepareReady, <1>PrepareHollow, <1>PrepareWaits,
     <1>PrepareFails, <1>CompleteCheck, <1>Notify, <1>RecordCompleted,
     <1>DeferCheck, <1>EnqueueLease, <1>EnqueueRead, <1>RecoverBegin,
     <1>RetryArchive, <1>Crash, <1>FailRetry, <1>FailQuarantine, <1>DeferWrite,
     <1>EnqueueWrite, <1>RetryWrite DEF Quiet, TaskWrite

\* The quiet operations only remove pending tasks, leases and quarantines.
LEMMA QuietStores ==
    ASSUME TypeInv, NEW p \in Procs, Quiet(p)
    PROVE  LeasesKept /\ TasksKept
<1>ScanVanished. ASSUME NEW w \in Wikis, ScanVanished(p, w) PROVE LeasesKept /\ TasksKept
  BY <1>ScanVanished DEF ScanVanished, LeasesKept, TasksKept, TypeInv, TypeOK,
     QueueTypeOK, queueVars, worldVars
<1>ScanOwnerless. ASSUME NEW w \in Wikis, ScanOwnerless(p, w) PROVE LeasesKept /\ TasksKept
  BY <1>ScanOwnerless DEF ScanOwnerless, LeasesKept, TasksKept, TypeInv,
     TypeOK, QueueTypeOK, queueVars, worldVars
<1>ScanFresh. ASSUME NEW w \in Wikis, ScanFresh(p, w) PROVE LeasesKept /\ TasksKept
  BY <1>ScanFresh DEF ScanFresh, LeasesKept, TasksKept, TypeInv, TypeOK,
     QueueTypeOK, queueVars, worldVars
<1>QuarantineUnknown. ASSUME QuarantineUnknown(p) PROVE LeasesKept /\ TasksKept
  BY <1>QuarantineUnknown DEF QuarantineUnknown, LeasesKept, TasksKept,
     TypeInv, TypeOK, QueueTypeOK, queueVars, worldVars
<1>ScanDone. ASSUME ScanDone(p) PROVE LeasesKept /\ TasksKept
  BY <1>ScanDone DEF ScanDone, LeasesKept, TasksKept, TypeInv, TypeOK,
     QueueTypeOK, queueVars, worldVars
<1>DropPending. ASSUME DropPending(p) PROVE LeasesKept /\ TasksKept
  BY <1>DropPending DEF DropPending, LeasesKept, TasksKept, TypeInv, TypeOK,
     QueueTypeOK, queueVars, worldVars
<1>UnlinkOwner. ASSUME UnlinkOwner(p) PROVE LeasesKept /\ TasksKept
  BY <1>UnlinkOwner DEF UnlinkOwner, LeasesKept, TasksKept, TypeInv, TypeOK,
     QueueTypeOK, queueVars, worldVars
<1>RemoveLeaseDir. ASSUME RemoveLeaseDir(p) PROVE LeasesKept /\ TasksKept
  BY <1>RemoveLeaseDir DEF RemoveLeaseDir, LeasesKept, TasksKept, TypeInv,
     TypeOK, QueueTypeOK, queueVars, worldVars
<1>ClaimBegin. ASSUME ClaimBegin(p) PROVE LeasesKept /\ TasksKept
  BY <1>ClaimBegin DEF ClaimBegin, LeasesKept, TasksKept, TypeInv, TypeOK,
     QueueTypeOK, queueVars, worldVars
<1>NothingToClaim. ASSUME NothingToClaim(p) PROVE LeasesKept /\ TasksKept
  BY <1>NothingToClaim DEF NothingToClaim, LeasesKept, TasksKept, TypeInv,
     TypeOK, QueueTypeOK, queueVars, worldVars
<1>PublishFails. ASSUME PublishFails(p) PROVE LeasesKept /\ TasksKept
  BY <1>PublishFails DEF PublishFails, LeasesKept, TasksKept, TypeInv, TypeOK,
     QueueTypeOK, queueVars, worldVars
<1>HeartbeatCheck. ASSUME HeartbeatCheck(p) PROVE LeasesKept /\ TasksKept
  BY <1>HeartbeatCheck DEF HeartbeatCheck, LeasesKept, TasksKept, TypeInv,
     TypeOK, QueueTypeOK, queueVars, worldVars
<1>ReadyCheck. ASSUME ReadyCheck(p) PROVE LeasesKept /\ TasksKept
  BY <1>ReadyCheck DEF ReadyCheck, LeasesKept, TasksKept, TypeInv, TypeOK,
     QueueTypeOK, queueVars, worldVars
<1>PrepareReady. ASSUME PrepareReady(p) PROVE LeasesKept /\ TasksKept
  BY <1>PrepareReady DEF PrepareReady, LeasesKept, TasksKept, TypeInv, TypeOK,
     QueueTypeOK, queueVars, worldVars
<1>PrepareHollow. ASSUME PrepareHollow(p) PROVE LeasesKept /\ TasksKept
  BY <1>PrepareHollow DEF PrepareHollow, LeasesKept, TasksKept, TypeInv,
     TypeOK, QueueTypeOK, queueVars, worldVars
<1>PrepareWaits. ASSUME PrepareWaits(p) PROVE LeasesKept /\ TasksKept
  BY <1>PrepareWaits DEF PrepareWaits, LeasesKept, TasksKept, TypeInv, TypeOK,
     QueueTypeOK, queueVars, worldVars
<1>PrepareFails. ASSUME PrepareFails(p) PROVE LeasesKept /\ TasksKept
  BY <1>PrepareFails DEF PrepareFails, LeasesKept, TasksKept, TypeInv, TypeOK,
     QueueTypeOK, queueVars, worldVars
<1>CompleteCheck. ASSUME CompleteCheck(p) PROVE LeasesKept /\ TasksKept
  BY <1>CompleteCheck DEF CompleteCheck, LeasesKept, TasksKept, TypeInv,
     TypeOK, QueueTypeOK, queueVars, worldVars
<1>Notify. ASSUME Notify(p) PROVE LeasesKept /\ TasksKept
  BY <1>Notify DEF Notify, LeasesKept, TasksKept, TypeInv, TypeOK, QueueTypeOK,
     queueVars, worldVars
<1>RecordCompleted. ASSUME RecordCompleted(p) PROVE LeasesKept /\ TasksKept
  BY <1>RecordCompleted DEF RecordCompleted, LeasesKept, TasksKept, TypeInv,
     TypeOK, QueueTypeOK, queueVars, worldVars
<1>DeferCheck. ASSUME DeferCheck(p) PROVE LeasesKept /\ TasksKept
  BY <1>DeferCheck DEF DeferCheck, LeasesKept, TasksKept, TypeInv, TypeOK,
     QueueTypeOK, queueVars, worldVars
<1>EnqueueLease. ASSUME EnqueueLease(p) PROVE LeasesKept /\ TasksKept
  BY <1>EnqueueLease DEF EnqueueLease, LeasesKept, TasksKept, TypeInv, TypeOK,
     QueueTypeOK, queueVars, worldVars
<1>EnqueueRead. ASSUME EnqueueRead(p) PROVE LeasesKept /\ TasksKept
  BY <1>EnqueueRead DEF EnqueueRead, LeasesKept, TasksKept, TypeInv, TypeOK,
     QueueTypeOK, queueVars, worldVars
<1>RecoverBegin. ASSUME RecoverBegin(p) PROVE LeasesKept /\ TasksKept
  BY <1>RecoverBegin DEF RecoverBegin, LeasesKept, TasksKept, TypeInv, TypeOK,
     QueueTypeOK, queueVars, worldVars
<1>RetryArchive. ASSUME RetryArchive(p) PROVE LeasesKept /\ TasksKept
  BY <1>RetryArchive DEF RetryArchive, LeasesKept, TasksKept, TypeInv, TypeOK,
     QueueTypeOK, queueVars, worldVars
<1>Crash. ASSUME Crash(p) PROVE LeasesKept /\ TasksKept
  BY <1>Crash DEF Crash, LeasesKept, TasksKept, TypeInv, TypeOK, QueueTypeOK,
     queueVars, worldVars
<1> QED
  BY <1>ScanVanished, <1>ScanOwnerless, <1>ScanFresh, <1>QuarantineUnknown,
     <1>ScanDone, <1>DropPending, <1>UnlinkOwner, <1>RemoveLeaseDir,
     <1>ClaimBegin, <1>NothingToClaim, <1>PublishFails, <1>HeartbeatCheck,
     <1>ReadyCheck, <1>PrepareReady, <1>PrepareHollow, <1>PrepareWaits,
     <1>PrepareFails, <1>CompleteCheck, <1>Notify, <1>RecordCompleted,
     <1>DeferCheck, <1>EnqueueLease, <1>EnqueueRead, <1>RecoverBegin,
     <1>RetryArchive, <1>Crash DEF Quiet

\* Writing a task back publishes no lease.
LEMMA WriteStores ==
    ASSUME NEW p \in Procs, TaskWrite(p)
    PROVE  LeasesKept
  BY DEF TaskWrite, FailRetry, FailQuarantine, DeferWrite, EnqueueWrite, RetryWrite,
         LeasesKept, worldVars

-----------------------------------------------------------------------------
(* Resource classes.                                                       *)

\* Every lease is of its worker's class.
OwnersOfClass ==
    \A w \in Wikis :
        owner[w] # None => owner[w].task.class = WorkerClass[owner[w].worker]

\* Workers list, hold and lease tasks of their own class only.
ClassInv ==
    /\ \A p \in Workers : \A t \in view[p] : t.class = WorkerClass[p]
    /\ \A p \in Workers : job[p] # None => job[p].class = WorkerClass[p]
    /\ OwnersOfClass

\* Every operation keeps each worker to its class.
LEMMA ClassStep ==
    ASSUME TypeInv, ClassInv, [Next]_vars
    PROVE  ClassInv'
<1>workers. Workers \subseteq Procs
  BY DEF Procs
<1>quiet. ASSUME NEW p \in Procs, Quiet(p) \/ TaskWrite(p)
          PROVE  ClassInv'
  <2>1. OperandsKept /\ LeasesKept
    BY <1>quiet, QuietKeeps, QuietStores, WriteStores
  <2> QED
    BY <2>1, <1>workers DEF ClassInv, OwnersOfClass, OperandsKept, LeasesKept
<1>ScanStale. ASSUME NEW p \in Procs, NEW w \in Wikis, ScanStale(p, w)
              PROVE  ClassInv'
  BY <1>ScanStale DEF ScanStale, ClassInv, OwnersOfClass, queueVars
<1>FailCheck. ASSUME NEW p \in Procs, FailCheck(p)
              PROVE  ClassInv'
  <2>1. OperandsKept \/ UNCHANGED <<view, job>>
    BY <1>FailCheck, ErrorKeeps DEF FailCheck, TypeInv, TypeOK, ProcInv
  <2> QED
    BY <1>FailCheck, <2>1, <1>workers DEF FailCheck, OperandsKept, ClassInv,
       OwnersOfClass, queueVars
<1>ListPending. ASSUME NEW p \in Procs, ListPending(p)
                PROVE  ClassInv'
  <2>1. \A t \in Eligible(p) : t.class = WorkerClass[p]
    BY DEF Eligible
  <2> QED
    BY <1>ListPending, <2>1, <1>workers DEF ListPending, ClassInv, OwnersOfClass,
       TypeInv, TypeOK, ProcTypeOK, queueVars
<1>Acquire. ASSUME NEW p \in Procs, NEW t \in view[p], Acquire(p, t)
            PROVE  ClassInv'
  <2>1. \A q \in Procs : /\ view'[q] \subseteq view[q]
                         /\ job'[q] = job[q] \/ (q = p /\ job'[q] = t)
    BY <1>Acquire DEF Acquire, TypeInv, TypeOK, ProcTypeOK
  <2> QED
    BY <1>Acquire, <2>1, <1>workers DEF Acquire, ClassInv, OwnersOfClass
<1>PublishOwner. ASSUME NEW p \in Procs, PublishOwner(p)
                 PROVE  ClassInv'
  <2>1. p \in Workers /\ job[p] # None
    BY <1>PublishOwner, JobTyped, NoneAssumption DEF PublishOwner, TypeInv, ControlOK
  <2>2. OwnersOfClass'
    BY <1>PublishOwner, <2>1 DEF PublishOwner, NewClaim, ClassInv, OwnersOfClass,
       TypeInv, TypeOK, QueueTypeOK
  <2> QED
    BY <1>PublishOwner, <2>2 DEF PublishOwner, ClassInv
<1>HeartbeatWrite. ASSUME NEW p \in Procs, HeartbeatWrite(p)
                   PROVE  ClassInv'
  <2>1. p \in Workers /\ job[p] # None
    BY <1>HeartbeatWrite, NoneAssumption DEF HeartbeatWrite, TypeInv, ControlOK
  <2>2. OwnersOfClass'
    BY <1>HeartbeatWrite, <2>1 DEF HeartbeatWrite, NewClaim, ClassInv, OwnersOfClass,
       TypeInv, TypeOK, QueueTypeOK
  <2>3. \A q \in Procs : job'[q] \in {job[q], None}
    BY <1>HeartbeatWrite DEF HeartbeatWrite, TypeInv, TypeOK, ProcTypeOK
  <2> QED
    BY <1>HeartbeatWrite, <2>2, <2>3, <1>workers DEF HeartbeatWrite, ClassInv
<1>others. ASSUME NEW p \in Procs,
                  \/ \E w \in Wikis, c \in Classes : Discover(p, w, c)
                  \/ \E t \in quarantine : RetryCheck(p, t)
           PROVE  ClassInv'
  <2>1. p \notin Workers
    BY <1>others, ProcsDisjoint DEF Discover, RetryCheck
  <2>2. \A q \in Workers : job'[q] = job[q] /\ view'[q] = view[q]
    BY <1>others, <2>1, <1>workers DEF Discover, RetryCheck, BeginScan, TypeInv, TypeOK,
       ProcTypeOK
  <2> QED
    BY <1>others, <2>2 DEF Discover, RetryCheck, ClassInv, OwnersOfClass, queueVars
<1>expires. ASSUME NEW w \in Wikis, LeaseExpires(w) \/ LeaseExpiresLive(w)
            PROVE  ClassInv'
  <2>1. owner[w] \in Claim
    BY <1>expires DEF LeaseExpires, LeaseExpiresLive, TypeInv, TypeOK, QueueTypeOK
  <2>2. /\ [owner[w] EXCEPT !.stale = TRUE].task = owner[w].task
        /\ [owner[w] EXCEPT !.stale = TRUE].worker = owner[w].worker
    BY <2>1 DEF Claim
  <2>3. /\ owner' = [owner EXCEPT ![w] = [owner[w] EXCEPT !.stale = TRUE]]
        /\ owner[w] # None
        /\ UNCHANGED procVars
    BY <1>expires DEF LeaseExpires, LeaseExpiresLive
  <2>4. \A v \in Wikis : owner'[v] # None =>
          /\ owner[v] # None
          /\ owner'[v].task = owner[v].task /\ owner'[v].worker = owner[v].worker
    BY <2>2, <2>3 DEF TypeInv, TypeOK, QueueTypeOK
  <2> QED
    BY <2>3, <2>4 DEF ClassInv, OwnersOfClass, procVars
<1>world. ASSUME NEW w \in Wikis,
                 \/ BackoffElapses(w) \/ NewSnapshot(w)
                 \/ \E s \in 0..MaxSnapshot : IndexRewritten(w, s)
          PROVE  ClassInv'
  BY <1>world DEF BackoffElapses, NewSnapshot, IndexRewritten, ClassInv, OwnersOfClass,
     procVars, queueVars
<1>stutter. CASE UNCHANGED vars
  BY <1>stutter DEF vars, queueVars, procVars, ClassInv, OwnersOfClass
<1> QED
  BY <1>quiet, <1>ScanStale, <1>FailCheck, <1>ListPending, <1>Acquire, <1>PublishOwner,
     <1>HeartbeatWrite, <1>others, <1>expires, <1>world, <1>stutter
  DEF Next, Progress, Recovery, Claiming, Heartbeat, Finishing, Discovery, Retrying,
      Mishap, Environment, Quiet, TaskWrite

\* The job of p is a copy that will be written without being read again.
LooseJob(p) ==
    p \in Workers /\ (pc[p] \in {"publish", "deferwrite"} \/ hb[p] \in {"write", "orphan"})

\* p has seen no lease of its job's wiki and is about to write pending/.
Rewriting(p) == pc[p] \in {"enqread", "enqwrite", "retrywrite"}

\* Every copy of the task of w that counts: on file, leased or loose.
Held(w) ==
    LooseCopies(w)
        \cup {t \in {pending[w]} : t # None}
        \cup {c.task : c \in {o \in {owner[w]} : o # None}}

(***************************************************************************)
(* Why a class can be overtaken in the two windows only: unless one was    *)
(* open at the last rewrite, all copies of the task are of one class c, and *)
(* whoever is about to rewrite a wiki that has been leased meanwhile writes *)
(* that class too.                                                         *)
(***************************************************************************)
FileAt(w) ==
    /\ owner[w] # None => w \in leaseDir
    /\ ~overtaken[w] =>
         \E c \in Classes \cup {None} :
            /\ \A t \in Held(w) : t.class = c
            /\ w \in leaseDir =>
                 \A p \in Procs : Rewriting(p) /\ job[p].wiki = w => job[p].class = c

\* Every file carries the task of the wiki in its name, and so does the claim
\* that fail_claim_at works on.
PlaceInv ==
    /\ \A w \in Wikis : pending[w] # None => pending[w].wiki = w
    /\ \A w \in Wikis : owner[w] # None => owner[w].task.wiki = w
    /\ \A p \in Procs : pc[p] = "fail" => victim[p].wiki = dir[p]

FileInv == PlaceInv /\ \A w \in Wikis : FileAt(w)

\* No process turns to a new copy or to a new rewrite.
PlansKept ==
    \A q \in Procs :
        /\ LooseJob(q)' => LooseJob(q) /\ job'[q] = job[q]
        /\ Rewriting(q)' => Rewriting(q) /\ job'[q] = job[q]
        /\ pc'[q] = "fail" => pc[q] = "fail" /\ victim'[q] = victim[q] /\ dir'[q] = dir[q]

\* Ending a command opens no plan; a heartbeat in progress keeps its own.
LEMMA StopPlans ==
    ASSUME ProcInv, NEW p \in Procs, Stop(p)
    PROVE  PlansKept
  BY DEF Stop, StopHeartbeat, Goto, PlansKept, LooseJob, Rewriting, ProcInv, ProcTypeOK,
         HbStates

\* Nor does the EXIT trap.
LEMMA FinishTaskPlans ==
    ASSUME ProcInv, NEW p \in Procs, FinishTask(p)
    PROVE  PlansKept
  BY DEF FinishTask, StopHeartbeat, Goto, PlansKept, LooseJob, Rewriting, ProcInv,
         ProcTypeOK, HbStates

\* Nor does an error.
LEMMA ErrorPlans ==
    ASSUME ProcInv, NEW p \in Procs, Error(p)
    PROVE  PlansKept
  BY StopPlans, FinishTaskPlans DEF Error

\* Nor does the removal of a lease directory.
LEMMA ReleasedPlans ==
    ASSUME ProcInv, NEW p \in Procs, Released(p)
    PROVE  PlansKept
<1>1. CASE pc' = [pc EXCEPT ![p] = "scan"] /\ dir' = [dir EXCEPT ![p] = None]
           /\ UNCHANGED <<cmd, scan, victim, view, job, hb>>
  BY <1>1 DEF PlansKept, LooseJob, Rewriting, ProcInv, ProcTypeOK
<1>2. CASE FinishTask(p)
  BY <1>2, FinishTaskPlans
<1>3. CASE Stop(p)
  BY <1>3, StopPlans
<1> QED
  BY <1>1, <1>2, <1>3 DEF Released, Goto

\* Nor does the next foreground command of a worker.
LEMMA AfterPreparePlans ==
    ASSUME ProcInv, NEW p \in Procs, NEW c \in {"prepare", "complete", "defer"},
           AfterPrepare(p, c)
    PROVE  PlansKept
<1>1. CASE hb[p] = "lost"
  BY <1>1, FinishTaskPlans DEF AfterPrepare
<1>2. CASE hb[p] # "lost"
  BY <1>2 DEF AfterPrepare, Goto, PlansKept, LooseJob, Rewriting, ProcInv, ProcTypeOK
<1> QED
  BY <1>1, <1>2

\* The quiet operations that check nothing about a lease.
Plain(p) ==
    \/ \E w \in Wikis : ScanVanished(p, w) \/ ScanOwnerless(p, w) \/ ScanFresh(p, w)
    \/ QuarantineUnknown(p) \/ ScanDone(p) \/ DropPending(p) \/ UnlinkOwner(p)
    \/ RemoveLeaseDir(p) \/ ClaimBegin(p) \/ NothingToClaim(p) \/ PublishFails(p)
    \/ ReadyCheck(p) \/ PrepareReady(p) \/ PrepareHollow(p)
    \/ PrepareWaits(p) \/ PrepareFails(p) \/ CompleteCheck(p) \/ Notify(p)
    \/ RecordCompleted(p) \/ EnqueueRead(p)
    \/ RecoverBegin(p) \/ RetryArchive(p) \/ Crash(p)

\* They take no lease, overtake nothing and open no plan.
LEMMA PlainPlans ==
    ASSUME TypeInv, NEW p \in Procs, Plain(p)
    PROVE  /\ PlansKept /\ overtaken' = overtaken /\ leaseDir' \subseteq leaseDir
           /\ \A w \in Wikis : w \in leaseDir /\ w \notin leaseDir' => owner'[w] = None
<1> DEFINE Goal == /\ PlansKept /\ overtaken' = overtaken /\ leaseDir' \subseteq leaseDir
                   /\ \A w \in Wikis : w \in leaseDir /\ w \notin leaseDir' => owner'[w] = None
<1>inv. ProcInv /\ ProcTypeOK
  BY DEF ProcInv, TypeInv, TypeOK
<1>store. owner \in [Wikis -> Claim \cup {None}]
  BY DEF TypeInv, TypeOK, QueueTypeOK
<1>scan. ASSUME NEW w \in Wikis, ScanVanished(p, w) \/ ScanOwnerless(p, w) \/ ScanFresh(p, w)
         PROVE  Goal
  <2>1. CASE ScanVanished(p, w)
    BY <2>1, <1>inv, ErrorPlans DEF ScanVanished, queueVars, worldVars
  <2>2. CASE ScanOwnerless(p, w)
    BY <2>2, <1>inv DEF ScanOwnerless, Goto, PlansKept, LooseJob, Rewriting, ProcTypeOK,
       queueVars, worldVars
  <2>3. CASE ScanFresh(p, w)
    BY <2>3 DEF ScanFresh, PlansKept, LooseJob, Rewriting, queueVars, worldVars
  <2> QED
    BY <1>scan, <2>1, <2>2, <2>3
<1>QuarantineUnknown. ASSUME QuarantineUnknown(p) PROVE Goal
  <2>1. CASE Error(p) /\ UNCHANGED <<leaseDir, owner>>
    BY <2>1, <1>QuarantineUnknown, <1>inv, ErrorPlans DEF QuarantineUnknown, worldVars
  <2>2. CASE /\ leaseDir' = leaseDir \ {dir[p]} /\ owner' = [owner EXCEPT ![dir[p]] = None]
             /\ Goto(p, "scan") /\ dir' = [dir EXCEPT ![p] = None]
             /\ UNCHANGED <<cmd, scan, victim, view, job, hb>>
    <3>1. PlansKept
      BY <2>2, <1>inv DEF Goto, PlansKept, LooseJob, Rewriting, ProcTypeOK
    <3> QED
      BY <2>2, <3>1, <1>QuarantineUnknown, <1>store DEF QuarantineUnknown, worldVars
  <2> QED
    BY <1>QuarantineUnknown, <2>1, <2>2 DEF QuarantineUnknown
<1>ScanDone. ASSUME ScanDone(p) PROVE Goal
  <2>1. CASE Stop(p)
    BY <2>1, <1>ScanDone, <1>inv, StopPlans DEF ScanDone, queueVars, worldVars
  <2>2. CASE (Goto(p, "list") \/ Goto(p, "enqlease"))
             /\ UNCHANGED <<cmd, scan, dir, victim, view, job, hb>>
    BY <2>2, <1>ScanDone, <1>inv DEF ScanDone, Goto, PlansKept, LooseJob, Rewriting,
       ProcTypeOK, queueVars, worldVars
  <2> QED
    BY <1>ScanDone, <2>1, <2>2 DEF ScanDone
<1>DropPending. ASSUME DropPending(p) PROVE Goal
  <2>1. PlansKept
    BY <1>DropPending, <1>inv, ErrorPlans DEF DropPending, Goto, PlansKept, LooseJob,
       Rewriting, ProcTypeOK
  <2> QED
    BY <1>DropPending, <2>1 DEF DropPending, worldVars
<1>UnlinkOwner. ASSUME UnlinkOwner(p) PROVE Goal
  <2>1. PlansKept
    BY <1>UnlinkOwner, <1>inv, ErrorPlans DEF UnlinkOwner, Goto, PlansKept, LooseJob,
       Rewriting, ProcTypeOK
  <2> QED
    BY <1>UnlinkOwner, <2>1 DEF UnlinkOwner, worldVars
<1>RemoveLeaseDir. ASSUME RemoveLeaseDir(p) PROVE Goal
  <2>1. PlansKept
    BY <1>RemoveLeaseDir, <1>inv, ErrorPlans, ReleasedPlans DEF RemoveLeaseDir
  <2> QED
    BY <1>RemoveLeaseDir, <2>1 DEF RemoveLeaseDir, worldVars
<1>begins. ASSUME ClaimBegin(p) \/ RecoverBegin(p) PROVE Goal
  BY <1>begins, <1>inv DEF ClaimBegin, RecoverBegin, BeginScan, Goto, PlansKept, LooseJob,
     Rewriting, ProcTypeOK, queueVars, worldVars
<1>NothingToClaim. ASSUME NothingToClaim(p) PROVE Goal
  BY <1>NothingToClaim, <1>inv, StopPlans DEF NothingToClaim, queueVars, worldVars
<1>PublishFails. ASSUME PublishFails(p) PROVE Goal
  BY <1>PublishFails, <1>inv DEF PublishFails, Goto, PlansKept, LooseJob, Rewriting,
     ProcTypeOK, queueVars
<1>prepare. ASSUME \/ ReadyCheck(p) \/ PrepareReady(p) \/ PrepareHollow(p)
                   \/ PrepareWaits(p) \/ PrepareFails(p)
            PROVE  Goal
  <2>1. PlansKept
    BY <1>prepare, <1>inv, AfterPreparePlans, FinishTaskPlans DEF ReadyCheck, PrepareReady,
       PrepareHollow, PrepareWaits, PrepareFails
  <2> QED
    BY <1>prepare, <2>1 DEF ReadyCheck, PrepareReady, PrepareHollow, PrepareWaits,
       PrepareFails, queueVars, worldVars
<1>complete. ASSUME CompleteCheck(p) \/ Notify(p) \/ RecordCompleted(p) PROVE Goal
  <2>1. PlansKept
    BY <1>complete, <1>inv, ErrorPlans DEF CompleteCheck, Notify, RecordCompleted, Goto,
       PlansKept, LooseJob, Rewriting, ProcTypeOK
  <2> QED
    BY <1>complete, <2>1 DEF CompleteCheck, Notify, RecordCompleted, queueVars, worldVars
<1>EnqueueRead. ASSUME EnqueueRead(p) PROVE Goal
  <2>1. PlansKept
    BY <1>EnqueueRead, <1>inv, StopPlans DEF EnqueueRead, Goto, PlansKept, LooseJob,
       Rewriting, ProcTypeOK
  <2> QED
    BY <1>EnqueueRead, <2>1 DEF EnqueueRead, queueVars, worldVars
<1>RetryArchive. ASSUME RetryArchive(p) PROVE Goal
  BY <1>RetryArchive, <1>inv, StopPlans DEF RetryArchive, worldVars
<1>Crash. ASSUME Crash(p) PROVE Goal
  BY <1>Crash, <1>inv DEF Crash, Goto, PlansKept, LooseJob, Rewriting, ProcTypeOK, queueVars
<1> QED
  BY <1>scan, <1>QuarantineUnknown, <1>ScanDone, <1>DropPending, <1>UnlinkOwner,
     <1>RemoveLeaseDir, <1>begins, <1>NothingToClaim, <1>PublishFails, <1>prepare,
     <1>complete, <1>EnqueueRead, <1>RetryArchive, <1>Crash DEF Plain

\* What of Held(w) a step leaves alone: nothing new is held, nothing is leased
\* or about to be rewritten that was not, and no overtaking is forgotten.
LEMMA FileKept ==
    ASSUME NEW w \in Wikis, FileAt(w),
           overtaken[w] => overtaken'[w],
           owner'[w] # None => w \in leaseDir',
           w \in leaseDir' => w \in leaseDir,
           \A t \in Held(w)' : \E u \in Held(w) : u.class = t.class,
           \A p \in Procs : Rewriting(p)' /\ w \in leaseDir'
                               => Rewriting(p) /\ job'[p] = job[p]
    PROVE  FileAt(w)'
<1>1. CASE overtaken'[w]
  BY <1>1 DEF FileAt
<1>2. CASE ~overtaken'[w]
  <2>1. PICK c \in Classes \cup {None} :
          /\ \A t \in Held(w) : t.class = c
          /\ w \in leaseDir =>
               \A p \in Procs : Rewriting(p) /\ job[p].wiki = w => job[p].class = c
    BY <1>2 DEF FileAt
  <2>2. \A t \in Held(w)' : t.class = c
    BY <2>1
  <2>3. w \in leaseDir' =>
          \A p \in Procs : Rewriting(p)' /\ job'[p].wiki = w => job'[p].class = c
    BY <2>1
  <2> QED
    BY <2>2, <2>3 DEF FileAt
<1> QED
  BY <1>1, <1>2

\* Where a loose copy is, before and after a step.
LEMMA LoosePlaces ==
    ASSUME NEW w \in Wikis, NEW t
    PROVE  /\ t \in LooseCopies(w) <=>
                /\ t # None /\ t.wiki = w
                /\ \/ \E p \in Workers : t \in view[p]
                   \/ \E p \in Procs : t = victim[p]
                   \/ \E p \in Workers : LooseJob(p) /\ t = job[p]
           /\ t \in LooseCopies(w)' <=>
                /\ t # None /\ t.wiki = w
                /\ \/ \E p \in Workers : t \in view'[p]
                   \/ \E p \in Procs : t = victim'[p]
                   \/ \E p \in Workers : LooseJob(p)' /\ t = job'[p]
<1>1. /\ t \in UNION {view[p] : p \in Workers} <=> \E p \in Workers : t \in view[p]
      /\ t \in UNION {view'[p] : p \in Workers} <=> \E p \in Workers : t \in view'[p]
  OBVIOUS
<1>2. /\ t \in {victim[p] : p \in Procs} <=> \E p \in Procs : t = victim[p]
      /\ t \in {victim'[p] : p \in Procs} <=> \E p \in Procs : t = victim'[p]
  OBVIOUS
<1>3. t \in {job[p] : p \in {q \in Workers : \/ pc[q] \in {"publish", "deferwrite"}
                                            \/ hb[q] \in {"write", "orphan"}}}
        <=> \E p \in Workers : LooseJob(p) /\ t = job[p]
  BY DEF LooseJob
<1>4. t \in {job'[p] : p \in {q \in Workers : \/ pc'[q] \in {"publish", "deferwrite"}
                                             \/ hb'[q] \in {"write", "orphan"}}}
        <=> \E p \in Workers : LooseJob(p)' /\ t = job'[p]
  BY DEF LooseJob
<1>5. t \in LooseCopies(w) <=>
        /\ t # None /\ t.wiki = w
        /\ \/ t \in UNION {view[p] : p \in Workers}
           \/ t \in {victim[p] : p \in Procs}
           \/ t \in {job[p] : p \in {q \in Workers : \/ pc[q] \in {"publish", "deferwrite"}
                                                     \/ hb[q] \in {"write", "orphan"}}}
  <2> DEFINE V == UNION {view[p] : p \in Workers}
             M == {victim[p] : p \in Procs}
             J == {job[p] : p \in {q \in Workers : \/ pc[q] \in {"publish", "deferwrite"}
                                               \/ hb[q] \in {"write", "orphan"}}}
  <2>1. LooseCopies(w) = {x \in V \cup M \cup J : x # None /\ x.wiki = w}
    BY DEF LooseCopies
  <2> HIDE DEF V, M, J
  <2>2. t \in LooseCopies(w) <=> t # None /\ t.wiki = w /\ (t \in V \/ t \in M \/ t \in J)
    BY <2>1
  <2> QED
    BY <2>2 DEF V, M, J
<1>6. t \in LooseCopies(w)' <=>
        /\ t # None /\ t.wiki = w
        /\ \/ t \in UNION {view'[p] : p \in Workers}
           \/ t \in {victim'[p] : p \in Procs}
           \/ t \in {job'[p] : p \in {q \in Workers : \/ pc'[q] \in {"publish", "deferwrite"}
                                                     \/ hb'[q] \in {"write", "orphan"}}}
  <2> DEFINE V == UNION {view'[p] : p \in Workers}
             M == {victim'[p] : p \in Procs}
             J == {job'[p] : p \in {q \in Workers : \/ pc'[q] \in {"publish", "deferwrite"}
                                               \/ hb'[q] \in {"write", "orphan"}}}
  <2>1. LooseCopies(w)' = {x \in V \cup M \cup J : x # None /\ x.wiki = w}
    BY DEF LooseCopies
  <2> HIDE DEF V, M, J
  <2>2. t \in LooseCopies(w)' <=> t # None /\ t.wiki = w /\ (t \in V \/ t \in M \/ t \in J)
    BY <2>1
  <2> QED
    BY <2>2 DEF V, M, J
<1> QED
  BY <1>1, <1>2, <1>3, <1>4, <1>5, <1>6

\* The copies in processes are kept by a step that opens no plan.
LEMMA LooseKept ==
    ASSUME PlansKept, OperandsKept, NEW w \in Wikis
    PROVE  LooseCopies(w)' \subseteq LooseCopies(w)
<1>1. Workers \subseteq Procs
  BY DEF Procs
<1>2. SUFFICES ASSUME NEW t, t \in LooseCopies(w)'
               PROVE  t \in LooseCopies(w)
  OBVIOUS
<1>3. \/ \E p \in Workers : t \in view'[p]
      \/ \E p \in Procs : t = victim'[p]
      \/ \E p \in Workers : LooseJob(p)' /\ t = job'[p]
  BY <1>2, LoosePlaces
<1>4. \/ \E p \in Workers : t \in view[p]
      \/ \E p \in Procs : t = victim[p]
      \/ \E p \in Workers : LooseJob(p) /\ t = job[p]
  BY <1>1, <1>2, <1>3, LoosePlaces DEF OperandsKept, PlansKept
<1> QED
  BY <1>2, <1>4, LoosePlaces

\* The same for all copies, when files and leases are at most removed.
LEMMA HeldKept ==
    ASSUME PlansKept, OperandsKept, NEW w \in Wikis,
           pending'[w] \in {pending[w], None}, owner'[w] \in {owner[w], None}
    PROVE  Held(w)' \subseteq Held(w)
<1>1. LooseCopies(w)' \subseteq LooseCopies(w)
  BY LooseKept
<1> QED
  BY <1>1 DEF Held

\* Every operation keeps the tasks where their names say.
LEMMA PlaceStep ==
    ASSUME TypeInv, PlaceInv, [Next]_vars
    PROVE  PlaceInv'
<1>proc. ProcInv /\ ProcTypeOK
  BY DEF ProcInv, TypeInv, TypeOK
<1>store. /\ pending \in [Wikis -> Task \cup {None}]
          /\ owner \in [Wikis -> Claim \cup {None}]
  BY DEF TypeInv, TypeOK, QueueTypeOK
<1>quiet. ASSUME NEW p \in Procs, Plain(p) \/ HeartbeatCheck(p) \/ DeferCheck(p) \/ EnqueueLease(p)
          PROVE  PlaceInv'
  <2>1. Quiet(p)
    BY <1>quiet DEF Plain, Quiet
  <2>2. LeasesKept /\ TasksKept
    BY <2>1, QuietStores
  <2>3. \A q \in Procs : pc'[q] = "fail" =>
          pc[q] = "fail" /\ victim'[q] = victim[q] /\ dir'[q] = dir[q]
    <3>1. CASE Plain(p)
      BY <3>1, PlainPlans DEF PlansKept
    <3>2. CASE HeartbeatCheck(p)
      BY <3>2 DEF HeartbeatCheck
    <3>3. CASE DeferCheck(p)
      BY <3>3, <1>proc, ErrorPlans DEF DeferCheck, Goto, PlansKept, ProcTypeOK
    <3>4. CASE EnqueueLease(p)
      BY <3>4, <1>proc, StopPlans DEF EnqueueLease, Goto, PlansKept, ProcTypeOK
    <3> QED
      BY <1>quiet, <3>1, <3>2, <3>3, <3>4
  <2> QED
    BY <2>2, <2>3 DEF PlaceInv, LeasesKept, TasksKept
<1>ScanStale. ASSUME NEW p \in Procs, NEW w \in Wikis, ScanStale(p, w)
              PROVE  PlaceInv'
  BY <1>ScanStale, <1>proc DEF ScanStale, Goto, PlaceInv, ProcTypeOK, queueVars
<1>FailCheck. ASSUME NEW p \in Procs, FailCheck(p)
              PROVE  PlaceInv'
  BY <1>FailCheck, <1>proc, ErrorPlans DEF FailCheck, Goto, PlansKept, PlaceInv, ProcTypeOK,
     queueVars
<1>FailRetry. ASSUME NEW p \in Procs, FailRetry(p)
              PROVE  PlaceInv'
  <2>1. victim[p] \in Task /\ dir[p] \in Wikis /\ victim[p].wiki = dir[p]
    BY <1>FailRetry, OperandTyped DEF FailRetry, TypeInv, PlaceInv
  <2>2. [victim[p] EXCEPT !.attempt = NextAttempt(victim[p]), !.due = FALSE].wiki = dir[p]
    BY <2>1 DEF Task
  <2> QED
    BY <1>FailRetry, <1>proc, <1>store, <2>1, <2>2 DEF FailRetry, Goto, PlaceInv, ProcTypeOK
<1>FailQuarantine. ASSUME NEW p \in Procs, FailQuarantine(p)
                   PROVE  PlaceInv'
  BY <1>FailQuarantine, <1>proc DEF FailQuarantine, Goto, PlaceInv, ProcTypeOK
<1>DeferWrite. ASSUME NEW p \in Procs, DeferWrite(p)
               PROVE  PlaceInv'
  <2>1. job[p] \in Task
    BY <1>DeferWrite, JobTyped DEF DeferWrite, TypeInv
  <2>2. [job[p] EXCEPT !.due = FALSE].wiki = job[p].wiki
    BY <2>1 DEF Task
  <2> QED
    BY <1>DeferWrite, <1>proc, <1>store, <2>1, <2>2 DEF DeferWrite, Goto, PlaceInv, ProcTypeOK
<1>rewrite. ASSUME NEW p \in Procs, EnqueueWrite(p) \/ RetryWrite(p)
            PROVE  PlaceInv'
  <2>1. \A q \in Procs : pc'[q] = "fail" =>
          pc[q] = "fail" /\ victim'[q] = victim[q] /\ dir'[q] = dir[q]
    BY <1>rewrite, <1>proc, StopPlans DEF EnqueueWrite, RetryWrite, Goto, PlansKept, ProcTypeOK
  <2> QED
    BY <1>rewrite, <1>store, <2>1 DEF EnqueueWrite, RetryWrite, PlaceInv
<1>claim. ASSUME NEW p \in Procs, ListPending(p) \/ \E t \in view[p] : Acquire(p, t)
          PROVE  PlaceInv'
  BY <1>claim, <1>proc DEF ListPending, Acquire, Goto, PlaceInv, ProcTypeOK, queueVars
<1>PublishOwner. ASSUME NEW p \in Procs, PublishOwner(p)
                 PROVE  PlaceInv'
  BY <1>PublishOwner, <1>proc, <1>store DEF PublishOwner, NewClaim, Goto, PlaceInv, ProcTypeOK
<1>HeartbeatWrite. ASSUME NEW p \in Procs, HeartbeatWrite(p)
                   PROVE  PlaceInv'
  BY <1>HeartbeatWrite, <1>store DEF HeartbeatWrite, NewClaim, PlaceInv
<1>others. ASSUME NEW p \in Procs,
                  \/ \E w \in Wikis, c \in Classes : Discover(p, w, c)
                  \/ \E t \in quarantine : RetryCheck(p, t)
           PROVE  PlaceInv'
  BY <1>others, <1>proc DEF Discover, RetryCheck, BeginScan, Goto, PlaceInv, ProcTypeOK,
     queueVars
<1>world. ASSUME NEW w \in Wikis,
                 \/ BackoffElapses(w) \/ LeaseExpires(w) \/ LeaseExpiresLive(w) \/ NewSnapshot(w)
                 \/ \E s \in 0..MaxSnapshot : IndexRewritten(w, s)
          PROVE  PlaceInv'
  <2>1. pending[w] # None => [pending[w] EXCEPT !.due = TRUE].wiki = pending[w].wiki
    BY <1>store DEF Task
  <2>2. owner[w] # None => [owner[w] EXCEPT !.stale = TRUE].task = owner[w].task
    BY <1>store DEF Claim
  <2>3. \A v \in Wikis :
          /\ pending'[v] # None => pending[v] # None /\ pending'[v].wiki = pending[v].wiki
          /\ owner'[v] # None => owner[v] # None /\ owner'[v].task = owner[v].task
    BY <1>world, <1>store, <2>1, <2>2 DEF BackoffElapses, LeaseExpires, LeaseExpiresLive,
       NewSnapshot, IndexRewritten, queueVars
  <2>4. UNCHANGED <<pc, victim, dir>>
    BY <1>world DEF BackoffElapses, LeaseExpires, LeaseExpiresLive, NewSnapshot,
       IndexRewritten, procVars
  <2> QED
    BY <2>3, <2>4 DEF PlaceInv
<1>stutter. CASE UNCHANGED vars
  BY <1>stutter DEF vars, queueVars, procVars, PlaceInv
<1> QED
  BY <1>quiet, <1>ScanStale, <1>FailCheck, <1>FailRetry, <1>FailQuarantine, <1>DeferWrite,
     <1>rewrite, <1>claim, <1>PublishOwner, <1>HeartbeatWrite, <1>others, <1>world, <1>stutter
  DEF Next, Progress, Recovery, Claiming, Heartbeat, Finishing, Discovery, Retrying,
      Mishap, Environment, Plain

\* The copy a claim was published from, or goes on from, is the lease's class.
LEMMA LiveClass ==
    ASSUME TypeInv, ClassInv, PlaceInv, NEW p \in Workers, job[p] \in Task, LiveOwner(p)
    PROVE  \E u \in Held(job[p].wiki) : u.class = job[p].class
<1>1. job[p].wiki \in Wikis /\ job[p] # None
  BY NoneAssumption DEF Task
<1>2. owner[job[p].wiki] # None /\ owner[job[p].wiki].worker = p
  BY DEF LiveOwner
<1>3. owner[job[p].wiki].task.class = job[p].class
  BY <1>1, <1>2 DEF ClassInv, OwnersOfClass
<1> QED
  BY <1>2, <1>3 DEF Held

\* A step after which a process has a copy it did not have, but of a class held
\* already.
LEMMA HeldExtended ==
    ASSUME NEW w \in Wikis, NEW c,
           \A t \in LooseCopies(w)' : t \in LooseCopies(w) \/ t.class = c,
           pending'[w] \in {pending[w], None} \/ pending'[w].class = c,
           owner'[w] \in {owner[w], None} \/ owner'[w].task.class = c,
           \E u \in Held(w) : u.class = c
    PROVE  \A t \in Held(w)' : \E u \in Held(w) : u.class = t.class
<1>1. SUFFICES ASSUME NEW t \in Held(w)'
               PROVE  t \in Held(w) \/ t.class = c
  OBVIOUS
<1>2. \/ t \in LooseCopies(w)'
      \/ pending'[w] # None /\ t = pending'[w]
      \/ owner'[w] # None /\ t = owner'[w].task
  BY DEF Held
<1>3. CASE t \in LooseCopies(w)'
  BY <1>3 DEF Held
<1>4. CASE pending'[w] # None /\ t = pending'[w]
  BY <1>4 DEF Held
<1>5. CASE owner'[w] # None /\ t = owner'[w].task
  BY <1>5 DEF Held
<1> QED
  BY <1>2, <1>3, <1>4, <1>5

\* A lease appears: the copy it carries is held, and a rewrite of another class
\* that is under way is recorded.
LEMMA FileLeased ==
    ASSUME NEW t \in Task, FileAt(t.wiki), t.wiki \in Wikis,
           overtaken \in [Wikis -> BOOLEAN], LeaseAppears(t),
           t \in Held(t.wiki), t.wiki \in leaseDir',
           \A u \in Held(t.wiki)' : \E v \in Held(t.wiki) : v.class = u.class,
           \A q \in Procs : Rewriting(q)' => Rewriting(q) /\ job'[q] = job[q]
    PROVE  FileAt(t.wiki)'
<1>1. CASE overtaken'[t.wiki]
  BY <1>1 DEF FileAt
<1>2. CASE ~overtaken'[t.wiki]
  <2>1. ~overtaken[t.wiki] /\ ~RewriteUnderway(t)
    BY <1>2 DEF LeaseAppears
  <2>2. PICK c \in Classes \cup {None} : \A u \in Held(t.wiki) : u.class = c
    BY <2>1 DEF FileAt
  <2>3. \A u \in Held(t.wiki)' : u.class = c
    BY <2>2
  <2>4. \A q \in Procs : Rewriting(q)' /\ job'[q].wiki = t.wiki => job'[q].class = c
    BY <2>1, <2>2 DEF RewriteUnderway, Rewriting
  <2> QED
    BY <2>3, <2>4 DEF FileAt
<1> QED
  BY <1>1, <1>2

\* A rewrite: the loose copies are of its class, and if the wiki has been leased
\* since it was looked at, so is everything else.
LEMMA FileRewritten ==
    ASSUME NEW p \in Procs, Rewriting(p), NEW t \in Task, t = job[p],
           FileAt(t.wiki), t.wiki \in Wikis,
           overtaken \in [Wikis -> BOOLEAN], Reclassified(t),
           pending'[t.wiki] = t, owner' = owner, leaseDir' = leaseDir,
           \A u : u \in LooseCopies(t.wiki)' => u \in LooseCopies(t.wiki),
           \A q \in Procs : Rewriting(q)' => Rewriting(q) /\ job'[q] = job[q]
    PROVE  FileAt(t.wiki)'
<1>1. CASE overtaken'[t.wiki]
  BY <1>1 DEF FileAt
<1>2. CASE ~overtaken'[t.wiki]
  <2>1. /\ \A u \in LooseCopies(t.wiki) : u.class = t.class
        /\ t.wiki \in leaseDir => ~overtaken[t.wiki]
    BY <1>2 DEF Reclassified
  <2>2. t.class \in Classes
    BY DEF Task
  <2>3. CASE t.wiki \notin leaseDir
    <3>1. owner[t.wiki] = None
      BY <2>3 DEF FileAt
    <3>2. \A u \in Held(t.wiki)' : u.class = t.class
      BY <2>1, <3>1 DEF Held
    <3> QED
      BY <2>2, <2>3, <3>1, <3>2 DEF FileAt
  <2>4. CASE t.wiki \in leaseDir
    <3>1. PICK c \in Classes \cup {None} :
            /\ \A u \in Held(t.wiki) : u.class = c
            /\ \A q \in Procs : Rewriting(q) /\ job[q].wiki = t.wiki => job[q].class = c
      BY <2>1, <2>4 DEF FileAt
    <3>2. t.class = c
      BY <3>1
    <3>3. \A u \in Held(t.wiki)' : u.class = c
      BY <3>1, <3>2 DEF Held
    <3>4. \A q \in Procs : Rewriting(q)' /\ job'[q].wiki = t.wiki => job'[q].class = c
      BY <3>1
    <3> QED
      BY <2>4, <3>3, <3>4 DEF FileAt
  <2> QED
    BY <2>3, <2>4
<1> QED
  BY <1>1, <1>2

\* Every operation of a process or of the world keeps FileAt, wiki by wiki.
LEMMA FileStep ==
    ASSUME TypeInv, ClassInv, FileInv, [Next]_vars
    PROVE  FileInv'
<1>place. PlaceInv /\ PlaceInv'
  BY PlaceStep DEF FileInv
<1>proc. ProcInv /\ ProcTypeOK
  BY DEF ProcInv, TypeInv, TypeOK
<1>store. /\ pending \in [Wikis -> Task \cup {None}]
          /\ owner \in [Wikis -> Claim \cup {None}]
          /\ overtaken \in [Wikis -> BOOLEAN]
  BY DEF TypeInv, TypeOK, QueueTypeOK, WorldTypeOK
<1>workers. Workers \subseteq Procs
  BY DEF Procs
<1>none. \A t \in Task : t # None /\ t.wiki \in Wikis /\ t.wiki # None
  BY NoneAssumption DEF Task
<1>file. \A w \in Wikis : FileAt(w)
  BY DEF FileInv
<1>owned. \A w \in Wikis : owner[w] # None => w \in leaseDir
  BY <1>file DEF FileAt
<1>plain. ASSUME NEW p \in Procs, Plain(p)
          PROVE  \A w \in Wikis : FileAt(w)'
  <2>1. Quiet(p)
    BY <1>plain DEF Plain, Quiet
  <2>2. OperandsKept /\ LeasesKept /\ TasksKept
    BY <2>1, QuietKeeps, QuietStores
  <2>3. /\ PlansKept /\ overtaken' = overtaken /\ leaseDir' \subseteq leaseDir
        /\ \A w \in Wikis : w \in leaseDir /\ w \notin leaseDir' => owner'[w] = None
    BY <1>plain, PlainPlans
  <2>4. ASSUME NEW w \in Wikis
        PROVE  FileAt(w)'
    <3>1. Held(w)' \subseteq Held(w)
      BY <2>2, <2>3, HeldKept DEF LeasesKept, TasksKept
    <3>2. owner'[w] # None => w \in leaseDir'
      BY <2>2, <2>3, <1>owned DEF LeasesKept
    <3> QED
      BY <2>3, <3>1, <3>2, <1>file, FileKept DEF PlansKept
  <2> QED
    BY <2>4
<1>EnqueueLease. ASSUME NEW p \in Procs, EnqueueLease(p)
                 PROVE  \A w \in Wikis : FileAt(w)'
  <2>1. OperandsKept
    BY <1>EnqueueLease, QuietKeeps DEF Quiet
  <2>2. UNCHANGED <<pending, owner, leaseDir, overtaken>>
    BY <1>EnqueueLease DEF EnqueueLease, queueVars, worldVars
  <2>3. CASE Stop(p)
    <3>1. PlansKept
      BY <2>3, <1>proc, StopPlans
    <3> QED
      BY <2>1, <2>2, <3>1, <1>file, <1>owned, HeldKept, FileKept DEF PlansKept
  <2>4. CASE /\ job[p].wiki \notin leaseDir /\ Goto(p, "enqread")
             /\ UNCHANGED <<cmd, scan, dir, victim, view, job, hb>>
    <3>1. \A q \in Procs : LooseJob(q)' <=> LooseJob(q)
      BY <2>4, <1>EnqueueLease, <1>proc DEF EnqueueLease, Goto, LooseJob, ProcTypeOK
    <3>2. \A w \in Wikis : \A t \in Held(w)' : t \in Held(w)
      <4>1. \A w \in Wikis : \A t : t \in LooseCopies(w)' => t \in LooseCopies(w)
        BY <2>4, <3>1, <1>workers, LoosePlaces
      <4> QED
        BY <2>2, <4>1 DEF Held
    <3>3. \A q \in Procs : Rewriting(q)' => (Rewriting(q) \/ q = p) /\ job'[q] = job[q]
      BY <2>4, <1>proc DEF Goto, Rewriting, ProcTypeOK
    <3>4. ASSUME NEW w \in Wikis
          PROVE  FileAt(w)'
      <4>1. CASE w # job[p].wiki
        <5>1. CASE overtaken[w]
          BY <2>2, <5>1, <1>owned DEF FileAt
        <5>2. CASE ~overtaken[w]
          <6>1. PICK c \in Classes \cup {None} :
                  /\ \A t \in Held(w) : t.class = c
                  /\ w \in leaseDir =>
                       \A q \in Procs : Rewriting(q) /\ job[q].wiki = w => job[q].class = c
            BY <5>2, <1>file DEF FileAt
          <6>2. w \in leaseDir' =>
                  \A q \in Procs : Rewriting(q)' /\ job'[q].wiki = w => job'[q].class = c
            BY <6>1, <3>3, <4>1, <2>2
          <6>3. \A t \in Held(w)' : t.class = c
            BY <6>1, <3>2
          <6> QED
            BY <2>2, <6>2, <6>3, <1>owned DEF FileAt
        <5> QED
          BY <5>1, <5>2
      <4>2. CASE w = job[p].wiki
        <5>1. w \notin leaseDir'
          BY <2>2, <2>4, <4>2
        <5> QED
          BY <2>2, <3>2, <5>1, <1>file, <1>owned, FileKept
      <4> QED
        BY <4>1, <4>2
    <3> QED
      BY <3>4
  <2> QED
    BY <1>EnqueueLease, <2>3, <2>4 DEF EnqueueLease
<1>checks. ASSUME NEW p \in Procs, HeartbeatCheck(p) \/ DeferCheck(p) \/ FailCheck(p)
           PROVE  \A w \in Wikis : FileAt(w)'
  <2>1. UNCHANGED <<pending, owner, leaseDir, overtaken>>
    BY <1>checks DEF HeartbeatCheck, DeferCheck, FailCheck, queueVars, worldVars
  <2>2. job[p] \in Task /\ p \in Workers
    BY <1>checks, JobTyped, <1>proc DEF HeartbeatCheck, DeferCheck, FailCheck, TypeInv,
       ControlOK, WorkCmds
  <2>3. \A q \in Procs : Rewriting(q)' => Rewriting(q) /\ job'[q] = job[q]
    BY <1>checks, <1>proc, ErrorPlans DEF HeartbeatCheck, DeferCheck, FailCheck, Goto,
       Rewriting, PlansKept, ProcTypeOK
  <2>4. CASE OperandsKept /\ PlansKept
    BY <2>1, <2>3, <2>4, <1>file, <1>owned, HeldKept, FileKept
  <2>5. CASE /\ LiveOwner(p) /\ UNCHANGED <<view, job>>
             /\ \A q \in Procs : victim'[q] \in {victim[q], None, job[p]}
             /\ \A q \in Workers : LooseJob(q)' => LooseJob(q) \/ q = p
    <3>1. ASSUME NEW w \in Wikis, NEW t, t \in LooseCopies(w)'
          PROVE  t \in LooseCopies(w) \/ (t = job[p] /\ w = job[p].wiki)
      BY <2>5, <3>1, LoosePlaces
    <3>2. ASSUME NEW w \in Wikis
          PROVE  FileAt(w)'
      <4>1. CASE w # job[p].wiki
        <5>1. Held(w)' \subseteq Held(w)
          BY <2>1, <3>1, <4>1 DEF Held
        <5> QED
          BY <2>1, <2>3, <5>1, <1>file, <1>owned, FileKept
      <4>2. CASE w = job[p].wiki
        <5>1. \A t \in Held(w)' : \E u \in Held(w) : u.class = t.class
          BY <2>1, <2>2, <2>5, <3>1, <4>2, <1>place, LiveClass, HeldExtended
        <5> QED
          BY <2>1, <2>3, <5>1, <1>file, <1>owned, FileKept
      <4> QED
        BY <4>1, <4>2
    <3> QED
      BY <3>2
  <2>6. CASE HeartbeatCheck(p)
    <3>1. CASE LiveOwner(p)
      BY <2>5, <2>6, <3>1 DEF HeartbeatCheck, LooseJob
    <3>2. CASE ~LiveOwner(p)
      <4>1. PlansKept
        BY <2>6, <3>2, <1>proc DEF HeartbeatCheck, PlansKept, LooseJob, Rewriting, ProcTypeOK
      <4> QED
        BY <2>4, <2>6, <4>1, QuietKeeps DEF Quiet
    <3> QED
      BY <3>1, <3>2
  <2>7. CASE DeferCheck(p)
    <3>1. CASE LiveOwner(p) /\ Goto(p, "deferwrite")
               /\ UNCHANGED <<cmd, scan, dir, victim, view, job, hb>>
      BY <2>5, <3>1, <1>proc, <1>workers DEF Goto, LooseJob, ProcTypeOK
    <3>2. CASE Error(p)
      BY <2>4, <2>7, <3>2, <1>proc, ErrorPlans, ErrorKeeps
    <3> QED
      BY <2>7, <3>1, <3>2 DEF DeferCheck
  <2>8. CASE FailCheck(p)
    <3>1. CASE LiveOwner(p) /\ Goto(p, "fail")
               /\ victim' = [victim EXCEPT ![p] = job[p]]
               /\ UNCHANGED <<cmd, scan, view, job, hb>>
      BY <2>5, <3>1, <1>proc, <1>workers DEF Goto, LooseJob, ProcTypeOK
    <3>2. CASE Error(p)
      BY <2>4, <2>8, <3>2, <1>proc, ErrorPlans, ErrorKeeps
    <3> QED
      BY <2>8, <3>1, <3>2 DEF FailCheck
  <2> QED
    BY <1>checks, <2>6, <2>7, <2>8
<1>ScanStale. ASSUME NEW p \in Procs, NEW v \in Wikis, ScanStale(p, v)
              PROVE  \A w \in Wikis : FileAt(w)'
  <2>1. UNCHANGED <<pending, owner, leaseDir, overtaken, view, job, hb>>
    BY <1>ScanStale DEF ScanStale, queueVars, worldVars
  <2>2. \A q \in Procs : /\ victim'[q] \in {victim[q], owner[v].task}
                         /\ LooseJob(q)' => LooseJob(q)
                         /\ Rewriting(q)' => Rewriting(q) /\ job'[q] = job[q]
    BY <1>ScanStale, <1>proc DEF ScanStale, Goto, LooseJob, Rewriting, ProcTypeOK
  <2>3. owner[v] # None /\ owner[v].task.wiki = v
    BY <1>ScanStale, <1>place DEF ScanStale, PlaceInv
  <2>4. ASSUME NEW w \in Wikis
        PROVE  FileAt(w)'
    <3>1. ASSUME NEW t, t \in LooseCopies(w)'
          PROVE  t \in Held(w)
      <4>1. t \in LooseCopies(w) \/ (t = owner[v].task /\ w = v)
        BY <2>1, <2>2, <2>3, <3>1, <1>workers, LoosePlaces
      <4> QED
        BY <2>3, <4>1 DEF Held
    <3>2. Held(w)' \subseteq Held(w)
      BY <2>1, <3>1 DEF Held
    <3> QED
      BY <2>1, <2>2, <3>2, <1>file, <1>owned, FileKept
  <2> QED
    BY <2>4
<1>writes. ASSUME NEW p \in Procs, FailRetry(p) \/ FailQuarantine(p) \/ DeferWrite(p)
           PROVE  \A w \in Wikis : FileAt(w)'
  <2>1. OperandsKept
    BY <1>writes, QuietKeeps DEF TaskWrite
  <2>2. PlansKept
    BY <1>writes, <1>proc DEF FailRetry, FailQuarantine, DeferWrite, Goto, PlansKept,
       LooseJob, Rewriting, ProcTypeOK
  <2>3. UNCHANGED <<owner, leaseDir, overtaken>>
    BY <1>writes DEF FailRetry, FailQuarantine, DeferWrite, worldVars
  <2>4. \A w \in Wikis : LooseCopies(w)' \subseteq LooseCopies(w)
    BY <2>1, <2>2, LooseKept
  <2>5. ASSUME NEW t \in Task, t \in LooseCopies(t.wiki), NEW u,
               pending' = [pending EXCEPT ![t.wiki] = u], u.class = t.class
        PROVE  \A w \in Wikis : FileAt(w)'
    <3>1. ASSUME NEW w \in Wikis
          PROVE  \A x \in Held(w)' : \E y \in Held(w) : y.class = x.class
      <4>1. CASE w = t.wiki
        <5>1. pending'[w].class = t.class
          BY <2>5, <4>1, <1>store
        <5>2. t \in Held(w)
          BY <2>5, <4>1 DEF Held
        <5> QED
          BY <2>3, <2>4, <5>1, <5>2, HeldExtended
      <4>2. CASE w # t.wiki
        <5>1. pending'[w] = pending[w]
          BY <2>5, <4>2, <1>store
        <5>2. Held(w)' \subseteq Held(w)
          BY <2>3, <2>4, <5>1 DEF Held
        <5> QED
          BY <5>2
      <4> QED
        BY <4>1, <4>2
    <3> QED
      BY <2>2, <2>3, <3>1, <1>file, <1>owned, FileKept DEF PlansKept
  <2>6. CASE FailRetry(p)
    <3>1. victim[p] \in Task /\ victim[p].wiki = dir[p]
      BY <2>6, <1>place, OperandTyped DEF FailRetry, TypeInv, PlaceInv
    <3>2. victim[p] \in LooseCopies(victim[p].wiki)
      BY <3>1, <1>none, LoosePlaces
    <3>3. [victim[p] EXCEPT !.attempt = NextAttempt(victim[p]), !.due = FALSE].class
            = victim[p].class
      BY <3>1 DEF Task
    <3> QED
      BY <2>5, <2>6, <3>1, <3>2, <3>3 DEF FailRetry
  <2>7. CASE FailQuarantine(p)
    <3>1. pending' = pending
      BY <2>7 DEF FailQuarantine
    <3>2. \A w \in Wikis : Held(w)' \subseteq Held(w)
      BY <2>3, <2>4, <3>1 DEF Held
    <3> QED
      BY <2>2, <2>3, <3>2, <1>file, <1>owned, FileKept DEF PlansKept
  <2>8. CASE DeferWrite(p)
    <3>1. job[p] \in Task /\ p \in Workers
      BY <2>8, JobTyped DEF DeferWrite, TypeInv, ControlOK, WorkCmds
    <3>2. job[p] \in LooseCopies(job[p].wiki)
      BY <2>8, <3>1, <1>none, LoosePlaces DEF DeferWrite, LooseJob
    <3>3. [job[p] EXCEPT !.due = FALSE].class = job[p].class
      BY <3>1 DEF Task
    <3> QED
      BY <2>5, <2>8, <3>1, <3>2, <3>3 DEF DeferWrite
  <2> QED
    BY <1>writes, <2>6, <2>7, <2>8
<1>rewrite. ASSUME NEW p \in Procs, EnqueueWrite(p) \/ RetryWrite(p)
            PROVE  \A w \in Wikis : FileAt(w)'
  <2>1. job[p] \in Task
    BY <1>rewrite, JobTyped DEF EnqueueWrite, RetryWrite, TypeInv
  <2>2. OperandsKept
    BY <1>rewrite, QuietKeeps DEF TaskWrite
  <2>3. PlansKept
    BY <1>rewrite, <1>proc, StopPlans DEF EnqueueWrite, RetryWrite, Goto, PlansKept,
       LooseJob, Rewriting, ProcTypeOK
  <2>4. /\ pending' = [pending EXCEPT ![job[p].wiki] = job[p]] /\ Reclassified(job[p])
        /\ UNCHANGED <<owner, leaseDir>>
    BY <1>rewrite DEF EnqueueWrite, RetryWrite
  <2>5. Rewriting(p)
    BY <1>rewrite DEF EnqueueWrite, RetryWrite, Rewriting
  <2> PICK t \in Task : t = job[p]
    BY <2>1
  <2>6. FileAt(t.wiki)'
    <3>1. t.wiki \in Wikis /\ FileAt(t.wiki)
      BY <1>none, <1>file
    <3>2. \A u : u \in LooseCopies(t.wiki)' => u \in LooseCopies(t.wiki)
      BY <2>2, <2>3, <3>1, LooseKept
    <3>3. pending'[t.wiki] = t
      BY <2>4, <3>1, <1>store
    <3>4. Reclassified(t)
      BY <2>4
    <3> QED
      BY <2>3, <2>4, <2>5, <3>1, <3>2, <3>3, <3>4, <1>store, FileRewritten DEF PlansKept
  <2>7. ASSUME NEW w \in Wikis, w # t.wiki
        PROVE  FileAt(w)'
    <3>1. pending'[w] = pending[w] /\ overtaken'[w] = overtaken[w]
      BY <2>4, <2>7, <1>store DEF Reclassified
    <3>2. Held(w)' \subseteq Held(w)
      BY <2>2, <2>3, <2>4, <3>1, HeldKept
    <3> QED
      BY <2>3, <2>4, <3>1, <3>2, <1>file, <1>owned, FileKept DEF PlansKept
  <2> QED
    BY <2>6, <2>7
<1>ListPending. ASSUME NEW p \in Procs, ListPending(p)
                PROVE  \A w \in Wikis : FileAt(w)'
  <2>1. UNCHANGED <<pending, owner, leaseDir, overtaken, victim, job, hb>>
    BY <1>ListPending DEF ListPending, queueVars, worldVars
  <2>2. \A q \in Procs : /\ LooseJob(q)' => LooseJob(q)
                         /\ Rewriting(q)' => Rewriting(q) /\ job'[q] = job[q]
    BY <1>ListPending, <1>proc DEF ListPending, Goto, LooseJob, Rewriting, ProcTypeOK
  <2>3. \A q \in Procs : \A t \in view'[q] : t \in view[q] \/ \E v \in Wikis : t = pending[v] /\ t # None
    BY <1>ListPending, <1>proc DEF ListPending, Eligible, ProcTypeOK
  <2>4. ASSUME NEW w \in Wikis
        PROVE  FileAt(w)'
    <3>1. ASSUME NEW t, t \in LooseCopies(w)'
          PROVE  t \in Held(w)
      <4>1. t # None /\ t.wiki = w
        BY <3>1, LoosePlaces
      <4>2. t \in LooseCopies(w) \/ \E v \in Wikis : t = pending[v]
        BY <2>1, <2>2, <2>3, <3>1, <1>workers, LoosePlaces
      <4>3. t \in LooseCopies(w) \/ t = pending[w]
        BY <4>1, <4>2, <1>place DEF PlaceInv
      <4> QED
        BY <4>1, <4>3 DEF Held
    <3>2. Held(w)' \subseteq Held(w)
      BY <2>1, <3>1 DEF Held
    <3> QED
      BY <2>1, <2>2, <3>2, <1>file, <1>owned, FileKept
  <2> QED
    BY <2>4
<1>Acquire. ASSUME NEW p \in Procs, NEW t \in view[p], Acquire(p, t)
            PROVE  \A w \in Wikis : FileAt(w)'
  <2>1. t \in Task /\ t.wiki \in Wikis /\ p \in Workers
    BY <1>Acquire, <1>proc, <1>none DEF Acquire, ProcTypeOK, TypeInv, ControlOK, WorkCmds
  <2>2. t \in LooseCopies(t.wiki) /\ t \in Held(t.wiki)
    BY <2>1, <1>none, LoosePlaces DEF Held
  <2>3. UNCHANGED <<pending, owner, victim, hb>>
    BY <1>Acquire DEF Acquire
  <2>4. \A q \in Procs : /\ view'[q] \subseteq view[q]
                         /\ LooseJob(q)' => (LooseJob(q) /\ job'[q] = job[q]) \/ job'[q] = t
                         /\ Rewriting(q)' => Rewriting(q) /\ job'[q] = job[q]
    BY <1>Acquire, <1>proc DEF Acquire, Goto, LooseJob, Rewriting, ProcTypeOK
  <2>5. ASSUME NEW w \in Wikis
        PROVE  Held(w)' \subseteq Held(w)
    <3>1. ASSUME NEW u, u \in LooseCopies(w)'
          PROVE  u \in LooseCopies(w)
      <4>1. u # None /\ u.wiki = w
        BY <3>1, LoosePlaces
      <4>2. \/ \E q \in Workers : u \in view[q]
            \/ \E q \in Procs : u = victim[q]
            \/ \E q \in Workers : LooseJob(q) /\ u = job[q]
            \/ u = t
        BY <2>3, <2>4, <3>1, <1>workers, LoosePlaces
      <4> QED
        BY <2>2, <4>1, <4>2, LoosePlaces
    <3> QED
      BY <2>3, <3>1 DEF Held
  <2>6. CASE /\ t.wiki \notin leaseDir /\ leaseDir' = leaseDir \cup {t.wiki}
             /\ LeaseAppears(t)
    <3>1. FileAt(t.wiki)'
      BY <2>1, <2>2, <2>4, <2>5, <2>6, <1>store, <1>file, FileLeased
    <3>2. ASSUME NEW w \in Wikis, w # t.wiki
          PROVE  FileAt(w)'
      <4>1. overtaken'[w] = overtaken[w] /\ (w \in leaseDir' <=> w \in leaseDir)
        BY <2>6, <3>2, <1>store DEF LeaseAppears
      <4> QED
        BY <2>3, <2>4, <2>5, <4>1, <1>file, <1>owned, FileKept
    <3> QED
      BY <3>1, <3>2
  <2>7. CASE UNCHANGED <<leaseDir, overtaken>>
    BY <2>3, <2>4, <2>5, <2>7, <1>file, <1>owned, FileKept
  <2> QED
    BY <1>Acquire, <2>6, <2>7 DEF Acquire
<1>lease. ASSUME NEW p \in Procs, PublishOwner(p) \/ HeartbeatWrite(p)
          PROVE  \A w \in Wikis : FileAt(w)'
  <2>1. job[p] \in Task /\ p \in Workers
    BY <1>lease, JobTyped DEF PublishOwner, HeartbeatWrite, TypeInv, ControlOK, WorkCmds
  <2> PICK t \in Task : t = job[p]
    BY <2>1
  <2>2. t.wiki \in Wikis /\ t \in LooseCopies(t.wiki) /\ t \in Held(t.wiki)
    BY <2>1, <1>lease, <1>none, LoosePlaces DEF PublishOwner, HeartbeatWrite, LooseJob, Held
  <2>3. /\ leaseDir' = leaseDir \cup {t.wiki} /\ LeaseAppears(t)
        /\ owner' = [owner EXCEPT ![t.wiki] = NewClaim(p, t)]
        /\ UNCHANGED <<pending, victim, view>>
    BY <1>lease DEF PublishOwner, HeartbeatWrite
  <2>4. \A q \in Procs : /\ LooseJob(q)' => LooseJob(q) /\ job'[q] = job[q]
                         /\ Rewriting(q)' => Rewriting(q) /\ job'[q] = job[q]
    BY <1>lease, <1>proc, <2>1 DEF PublishOwner, HeartbeatWrite, Goto, LooseJob, Rewriting,
       ProcTypeOK, HbStates, TypeInv, ControlOK
  <2>5. NewClaim(p, t).task = t
    BY DEF NewClaim
  <2>6. ASSUME NEW w \in Wikis
        PROVE  Held(w)' \subseteq Held(w)
    <3>1. LooseCopies(w)' \subseteq LooseCopies(w)
      BY <2>3, <2>4, <1>workers, LoosePlaces
    <3>2. owner'[w] = owner[w] \/ (w = t.wiki /\ owner'[w].task = t)
      BY <2>3, <2>5, <1>store
    <3> QED
      BY <2>2, <2>3, <3>1, <3>2 DEF Held
  <2>7. FileAt(t.wiki)'
    BY <2>2, <2>3, <2>4, <2>6, <1>store, <1>file, FileLeased
  <2>8. ASSUME NEW w \in Wikis, w # t.wiki
        PROVE  FileAt(w)'
    <3>1. /\ overtaken'[w] = overtaken[w] /\ owner'[w] = owner[w]
          /\ w \in leaseDir' <=> w \in leaseDir
      BY <2>3, <2>8, <1>store DEF LeaseAppears
    <3> QED
      BY <2>4, <2>6, <3>1, <1>file, <1>owned, FileKept
  <2> QED
    BY <2>7, <2>8
<1>Discover. ASSUME NEW p \in Procs, NEW v \in Wikis, NEW c \in Classes, Discover(p, v, c)
             PROVE  \A w \in Wikis : FileAt(w)'
  <2>1. p \notin Workers
    BY <1>Discover, ProcsDisjoint DEF Discover
  <2>2. UNCHANGED <<pending, owner, leaseDir, overtaken, victim, view>>
    BY <1>Discover DEF Discover, BeginScan, queueVars, worldVars
  <2>3. /\ \A q \in Workers : (LooseJob(q)' <=> LooseJob(q)) /\ job'[q] = job[q]
        /\ \A q \in Procs : Rewriting(q)' => Rewriting(q) /\ job'[q] = job[q]
    BY <1>Discover, <2>1, <1>proc, <1>workers DEF Discover, BeginScan, Goto, LooseJob,
       Rewriting, ProcTypeOK
  <2>4. \A w \in Wikis : Held(w)' \subseteq Held(w)
    <3>1. \A w \in Wikis : LooseCopies(w)' \subseteq LooseCopies(w)
      BY <2>2, <2>3, LoosePlaces
    <3> QED
      BY <2>2, <3>1 DEF Held
  <2> QED
    BY <2>2, <2>3, <2>4, <1>file, <1>owned, FileKept
<1>RetryCheck. ASSUME NEW p \in Procs, NEW t \in quarantine, RetryCheck(p, t)
               PROVE  \A w \in Wikis : FileAt(w)'
  <2>1. p \notin Workers /\ t \in Task
    BY <1>RetryCheck, ProcsDisjoint DEF RetryCheck, TypeInv, TypeOK, QueueTypeOK
  <2>2. /\ UNCHANGED <<pending, owner, leaseDir, overtaken, victim, view>>
        /\ t.wiki \notin leaseDir'
    BY <1>RetryCheck DEF RetryCheck, queueVars, worldVars
  <2>3. [t EXCEPT !.attempt = 0, !.due = TRUE].wiki = t.wiki
    BY <2>1 DEF Task
  <2>4. /\ \A q \in Workers : (LooseJob(q)' <=> LooseJob(q)) /\ job'[q] = job[q]
        /\ \A q \in Procs : Rewriting(q)' =>
              (Rewriting(q) /\ job'[q] = job[q]) \/ job'[q].wiki = t.wiki
    BY <1>RetryCheck, <2>1, <2>3, <1>proc, <1>workers DEF RetryCheck, Goto, LooseJob,
       Rewriting, ProcTypeOK
  <2>5. \A w \in Wikis : Held(w)' \subseteq Held(w)
    <3>1. \A w \in Wikis : LooseCopies(w)' \subseteq LooseCopies(w)
      BY <2>2, <2>4, LoosePlaces
    <3> QED
      BY <2>2, <3>1 DEF Held
  <2>6. ASSUME NEW w \in Wikis
        PROVE  FileAt(w)'
    <3>1. CASE overtaken[w]
      BY <2>2, <3>1, <1>owned DEF FileAt
    <3>2. CASE ~overtaken[w]
      <4>1. PICK c \in Classes \cup {None} :
              /\ \A u \in Held(w) : u.class = c
              /\ w \in leaseDir =>
                   \A q \in Procs : Rewriting(q) /\ job[q].wiki = w => job[q].class = c
        BY <3>2, <1>file DEF FileAt
      <4>2. w \in leaseDir' =>
              \A q \in Procs : Rewriting(q)' /\ job'[q].wiki = w => job'[q].class = c
        BY <2>2, <2>4, <4>1
      <4>3. \A u \in Held(w)' : u.class = c
        BY <2>5, <4>1
      <4> QED
        BY <2>2, <4>2, <4>3, <1>owned DEF FileAt
    <3> QED
      BY <3>1, <3>2
  <2> QED
    BY <2>6
<1>world. ASSUME NEW v \in Wikis,
                 \/ BackoffElapses(v) \/ LeaseExpires(v) \/ LeaseExpiresLive(v) \/ NewSnapshot(v)
                 \/ \E s \in 0..MaxSnapshot : IndexRewritten(v, s)
          PROVE  \A w \in Wikis : FileAt(w)'
  <2>1. UNCHANGED <<leaseDir, overtaken, pc, cmd, view, victim, job, hb>>
    BY <1>world DEF BackoffElapses, LeaseExpires, LeaseExpiresLive, NewSnapshot,
       IndexRewritten, queueVars, worldVars, procVars
  <2>2. pending[v] # None => [pending[v] EXCEPT !.due = TRUE].class = pending[v].class
    BY <1>store DEF Task
  <2>3. owner[v] # None => [owner[v] EXCEPT !.stale = TRUE].task = owner[v].task
    BY <1>store DEF Claim
  <2>4. \A w \in Wikis :
          /\ pending'[w] # None => pending[w] # None /\ pending'[w].class = pending[w].class
          /\ owner'[w] # None => owner[w] # None /\ owner'[w].task = owner[w].task
    BY <1>world, <1>store, <2>2, <2>3 DEF BackoffElapses, LeaseExpires, LeaseExpiresLive,
       NewSnapshot, IndexRewritten, queueVars
  <2>5. ASSUME NEW w \in Wikis
        PROVE  FileAt(w)'
    <3>1. LooseCopies(w)' = LooseCopies(w)
      BY <2>1 DEF LooseCopies
    <3>2. \A t \in Held(w)' : \E u \in Held(w) : u.class = t.class
      BY <2>4, <3>1 DEF Held
    <3>3. \A q \in Procs : Rewriting(q)' => Rewriting(q) /\ job'[q] = job[q]
      BY <2>1 DEF Rewriting
    <3> QED
      BY <2>1, <2>4, <3>2, <3>3, <1>file, <1>owned, FileKept
  <2> QED
    BY <2>5
<1>stutter. ASSUME UNCHANGED vars
            PROVE  \A w \in Wikis : FileAt(w)'
  <2>1. UNCHANGED <<pending, owner, leaseDir, overtaken, pc, view, victim, job, hb>>
    BY <1>stutter DEF vars, queueVars, worldVars, procVars
  <2>2. \A w \in Wikis : LooseCopies(w)' = LooseCopies(w)
    BY <2>1 DEF LooseCopies
  <2>3. \A w \in Wikis : Held(w)' = Held(w)
    BY <2>1, <2>2 DEF Held
  <2>4. \A q \in Procs : Rewriting(q)' <=> Rewriting(q)
    BY <2>1 DEF Rewriting
  <2>5. ASSUME NEW w \in Wikis
        PROVE  FileAt(w)'
    BY <2>1, <2>3, <2>4, <1>file, <1>owned, FileKept
  <2> QED
    BY <2>5
<1>progress. ASSUME NEW p \in Procs, Progress(p)
             PROVE  \A w \in Wikis : FileAt(w)'
  <2>1. CASE Recovery(p)
    BY <2>1, <1>plain, <1>ScanStale, <1>writes DEF Recovery, Plain
  <2>2. CASE Claiming(p)
    BY <2>2, <1>plain, <1>ListPending, <1>Acquire, <1>lease DEF Claiming, Plain
  <2>3. CASE Finishing(p)
    BY <2>3, <1>plain, <1>checks, <1>writes DEF Finishing, Plain
  <2>4. CASE Discovery(p)
    BY <2>4, <1>plain, <1>Discover, <1>EnqueueLease, <1>rewrite DEF Discovery, Plain
  <2>5. CASE ReadyCheck(p) \/ PrepareReady(p)
    BY <2>5, <1>plain DEF Plain
  <2> QED
    BY <1>progress, <2>1, <2>2, <2>3, <2>4, <2>5 DEF Progress
<1>heartbeat. ASSUME NEW p \in Procs, Heartbeat(p)
              PROVE  \A w \in Wikis : FileAt(w)'
  BY <1>heartbeat, <1>checks, <1>lease DEF Heartbeat
<1>retrying. ASSUME NEW p \in Procs, Retrying(p)
             PROVE  \A w \in Wikis : FileAt(w)'
  BY <1>retrying, <1>plain, <1>RetryCheck, <1>rewrite DEF Retrying, Plain
<1>mishap. ASSUME NEW p \in Procs, Mishap(p)
           PROVE  \A w \in Wikis : FileAt(w)'
  BY <1>mishap, <1>plain DEF Mishap, Plain
<1>environment. ASSUME Environment
                PROVE  \A w \in Wikis : FileAt(w)'
  BY <1>environment, <1>world DEF Environment
<1>1. \A w \in Wikis : FileAt(w)'
  <2>1. CASE Next
    BY <2>1, <1>progress, <1>heartbeat, <1>retrying, <1>mishap, <1>environment DEF Next
  <2> QED
    BY <2>1, <1>stutter
<1> QED
  BY <1>1, <1>place DEF FileInv

\* A worker holds a wiki in the class its task has on file, unless a rewrite has
\* passed a loose copy or a lease that it could not see.
THEOREM ClassOnFileHolds == Spec => []LeasedByClassOnFile
<1>1. Init => ClassInv
  BY DEF Init, ClassInv, OwnersOfClass, Procs
<1>2. TypeInv /\ ClassInv /\ [Next]_vars => ClassInv'
  BY ClassStep
<1>3. Init => FileInv
  <2>1. Init => PlaceInv
    BY DEF Init, PlaceInv
  <2>2. ASSUME Init, NEW w \in Wikis
        PROVE  FileAt(w)
    <3>1. Workers \subseteq Procs
      BY DEF Procs
    <3>2. \A t : t \notin LooseCopies(w)
      BY <2>2, <3>1, LoosePlaces DEF Init, LooseJob
    <3>3. Held(w) = {}
      BY <2>2, <3>2 DEF Init, Held
    <3> QED
      BY <2>2, <3>3 DEF Init, FileAt
  <2> QED
    BY <2>1, <2>2 DEF FileInv
<1>4. TypeInv /\ ClassInv /\ FileInv /\ [Next]_vars => FileInv'
  BY FileStep
<1>5. ClassInv /\ FileInv => LeasedByClassOnFile
  <2>1. ASSUME ClassInv, FileInv, NEW w \in Wikis,
               owner[w] # None, pending[w] # None, ~overtaken[w]
        PROVE  WorkerClass[owner[w].worker] = pending[w].class
    <3>1. owner[w].task.class = WorkerClass[owner[w].worker]
      BY <2>1 DEF ClassInv, OwnersOfClass
    <3>2. pending[w] \in Held(w) /\ owner[w].task \in Held(w)
      BY <2>1 DEF Held
    <3> QED
      BY <2>1, <3>1, <3>2 DEF FileInv, FileAt
  <2> QED
    BY <2>1 DEF LeasedByClassOnFile
<1> QED
  BY <1>1, <1>2, <1>3, <1>4, <1>5, TypeInvariant, PTL DEF Spec

-----------------------------------------------------------------------------
(* The retry budget.                                                       *)

\* An unleased copy of a task carries no more attempts than leases published
\* for it; the copy in a lease is itself one more.
Paid(t)    == t.attempt <= tries[t.wiki][t.snap]
Charged(t) == t.attempt < tries[t.wiki][t.snap]

(***************************************************************************)
(* Why this is inductive: an attempt is only ever added to a copy that     *)
(* came from a lease, and publishing that lease had paid for it; recovering *)
(* the same lease twice adds to the same copy.                             *)
(***************************************************************************)
BudgetInv ==
    /\ \A w \in Wikis : pending[w] # None => Paid(pending[w])
    /\ \A w \in Wikis : owner[w] # None => Charged(owner[w].task)
    /\ \A p \in Procs : \A t \in view[p] : Paid(t)
    /\ \A p \in Procs : victim[p] # None => Charged(victim[p])
    /\ \A p \in Procs : job[p] # None => Paid(job[p])
    /\ \A p \in Procs : Working(p) => Charged(job[p])
    /\ BudgetHonoured

\* Every operation keeps each copy of a task paid for.
LEMMA BudgetStep ==
    ASSUME TypeInv, BudgetInv, [Next]_vars
    PROVE  BudgetInv'
<1>triesType. tries \in [Wikis -> [Snapshots -> 0..MaxAttempts]]
  BY DEF TypeInv, TypeOK, WorldTypeOK
<1>none. \A t \in Task : t # None
  BY NoneAssumption
<1>same. ASSUME tries' = tries
         PROVE  \A t : (Paid(t)' <=> Paid(t)) /\ (Charged(t)' <=> Charged(t))
  BY <1>same DEF Paid, Charged
<1>kept. ASSUME OperandsKept, LeasesKept
         PROVE  /\ \A w \in Wikis : owner'[w] # None => Charged(owner[w].task)'
                /\ \A p \in Procs : \A t \in view'[p] : Paid(t)'
                /\ \A p \in Procs : victim'[p] # None => Charged(victim[p])'
                /\ \A p \in Procs : job'[p] # None => Paid(job[p])'
                /\ \A p \in Procs : Working(p)' => Charged(job[p])'
  BY <1>kept DEF OperandsKept, LeasesKept, BudgetInv, Paid, Charged
<1>quiet. ASSUME NEW p \in Procs, Quiet(p)
          PROVE  BudgetInv'
  <2>1. OperandsKept /\ LeasesKept /\ TasksKept
    BY <1>quiet, QuietKeeps, QuietStores
  <2>2. \A w \in Wikis : pending'[w] # None => Paid(pending[w])'
    BY <2>1 DEF TasksKept, LeasesKept, BudgetInv, Paid
  <2>3. BudgetHonoured'
    BY <2>1 DEF TasksKept, LeasesKept, BudgetInv, BudgetHonoured
  <2> QED
    BY <2>1, <2>2, <2>3, <1>kept DEF BudgetInv
<1>write. ASSUME NEW p \in Procs, TaskWrite(p),
                 \A w \in Wikis : pending'[w] # None => Paid(pending'[w]),
                 BudgetHonoured'
          PROVE  BudgetInv'
  <2>1. OperandsKept /\ LeasesKept
    BY <1>write, QuietKeeps, WriteStores
  <2>2. \A w \in Wikis : pending'[w] # None => Paid(pending[w])'
    BY <2>1, <1>write DEF LeasesKept, Paid
  <2> QED
    BY <2>1, <2>2, <1>write, <1>kept DEF BudgetInv
<1>FailRetry. ASSUME NEW p \in Procs, FailRetry(p)
              PROVE  BudgetInv'
  <2>1. victim[p] \in Task /\ dir[p] \in Wikis
    BY <1>FailRetry, OperandTyped DEF FailRetry, TypeInv
  <2>2. Charged(victim[p])
    BY <2>1, <1>none DEF BudgetInv
  <2> DEFINE retry == [victim[p] EXCEPT !.attempt = NextAttempt(victim[p]), !.due = FALSE]
  <2>3. /\ retry.attempt = victim[p].attempt + 1
        /\ retry.wiki = victim[p].wiki /\ retry.snap = victim[p].snap
    BY <2>1 DEF Task, NextAttempt
  <2>4. /\ victim[p].wiki \in Wikis /\ victim[p].snap \in Snapshots
        /\ victim[p].attempt \in Nat
    BY <2>1 DEF Task
  <2>5. Paid(retry)
    BY <2>2, <2>3, <2>4, <1>triesType DEF Paid, Charged
  <2>6. \A w \in Wikis : pending'[w] # None => Paid(pending'[w])
    BY <1>FailRetry, <2>1, <2>5 DEF FailRetry, BudgetInv, TypeInv, TypeOK, QueueTypeOK
  <2>7. BudgetHonoured'
    BY <1>FailRetry DEF FailRetry, BudgetInv, BudgetHonoured, worldVars
  <2> QED
    BY <1>FailRetry, <2>6, <2>7, <1>write DEF TaskWrite
<1>FailQuarantine. ASSUME NEW p \in Procs, FailQuarantine(p)
                   PROVE  BudgetInv'
  <2>1. victim[p] \in Task
    BY <1>FailQuarantine, OperandTyped DEF FailQuarantine, TypeInv
  <2>2. /\ victim[p].wiki \in Wikis /\ victim[p].snap \in Snapshots
        /\ victim[p].attempt \in Nat
    BY <2>1 DEF Task
  <2>3. victim[p].attempt < tries[victim[p].wiki][victim[p].snap]
    BY <2>1, <1>none DEF BudgetInv, Charged
  <2>4. tries[victim[p].wiki][victim[p].snap] >= MaxAttempts
    BY <1>FailQuarantine, <2>2, <2>3, <1>triesType, FleetAssumption
    DEF FailQuarantine, RetryLimitReached, NextAttempt
  <2>5. BudgetHonoured'
    BY <1>FailQuarantine, <2>4 DEF FailQuarantine, BudgetInv, BudgetHonoured, worldVars
  <2>6. \A w \in Wikis : pending'[w] # None => Paid(pending'[w])
    BY <1>FailQuarantine DEF FailQuarantine, BudgetInv
  <2> QED
    BY <1>FailQuarantine, <2>5, <2>6, <1>write DEF TaskWrite
<1>DeferWrite. ASSUME NEW p \in Procs, DeferWrite(p)
               PROVE  BudgetInv'
  <2>1. job[p] \in Task
    BY <1>DeferWrite, JobTyped DEF DeferWrite, TypeInv
  <2> DEFINE deferred == [job[p] EXCEPT !.due = FALSE]
  <2>2. /\ deferred.attempt = job[p].attempt
        /\ deferred.wiki = job[p].wiki /\ deferred.snap = job[p].snap
    BY <2>1 DEF Task
  <2>3. Paid(deferred)
    BY <2>1, <2>2, <1>none DEF BudgetInv, Paid
  <2>4. \A w \in Wikis : pending'[w] # None => Paid(pending'[w])
    BY <1>DeferWrite, <2>3 DEF DeferWrite, BudgetInv, TypeInv, TypeOK, QueueTypeOK
  <2>5. BudgetHonoured'
    BY <1>DeferWrite DEF DeferWrite, BudgetInv, BudgetHonoured, worldVars
  <2> QED
    BY <1>DeferWrite, <2>4, <2>5, <1>write DEF TaskWrite
<1>enqueue. ASSUME NEW p \in Procs, EnqueueWrite(p) \/ RetryWrite(p)
            PROVE  BudgetInv'
  <2>1. job[p] \in Task
    BY <1>enqueue, JobTyped DEF EnqueueWrite, RetryWrite, TypeInv
  <2>2. \A w \in Wikis : pending'[w] # None => Paid(pending'[w])
    BY <1>enqueue, <2>1, <1>none DEF EnqueueWrite, RetryWrite, BudgetInv, TypeInv, TypeOK,
       QueueTypeOK
  <2>3. BudgetHonoured'
    BY <1>enqueue DEF EnqueueWrite, RetryWrite, BudgetInv, BudgetHonoured, worldVars
  <2> QED
    BY <1>enqueue, <2>2, <2>3, <1>write DEF TaskWrite
<1>ScanStale. ASSUME NEW p \in Procs, NEW w \in Wikis, ScanStale(p, w)
              PROVE  BudgetInv'
  <2>1. /\ Charged(owner[w].task)
        /\ \A q \in Procs : victim'[q] = victim[q] \/ victim'[q] = owner[w].task
    BY <1>ScanStale DEF ScanStale, BudgetInv, TypeInv, TypeOK, ProcTypeOK
  <2> QED
    BY <1>ScanStale, <2>1 DEF ScanStale, BudgetInv, BudgetHonoured, Working, Paid, Charged,
       queueVars, worldVars
<1>FailCheck. ASSUME NEW p \in Procs, FailCheck(p)
              PROVE  BudgetInv'
  <2>1. CASE Error(p)
    <3>1. OperandsKept
      BY <2>1, ErrorKeeps DEF TypeInv, TypeOK, ProcInv
    <3>2. LeasesKept
      BY <1>FailCheck DEF FailCheck, LeasesKept, queueVars, worldVars
    <3> QED
      BY <1>FailCheck, <3>1, <3>2, <1>kept DEF FailCheck, BudgetInv, BudgetHonoured, Paid,
         queueVars, worldVars
  <2>2. CASE /\ victim' = [victim EXCEPT ![p] = job[p]]
             /\ UNCHANGED <<cmd, scan, view, job, hb>>
    <3>1. Working(p)
      BY <1>FailCheck DEF FailCheck, Working, TypeInv, ControlOK, WorkCmds
    <3>2. \A q \in Procs : victim'[q] # None => Charged(victim'[q])
      BY <2>2, <3>1 DEF BudgetInv, TypeInv, TypeOK, ProcTypeOK
    <3> QED
      BY <1>FailCheck, <2>2, <3>2 DEF FailCheck, BudgetInv, BudgetHonoured, Working, Paid,
         Charged, queueVars, worldVars
  <2> QED
    BY <1>FailCheck, <2>1, <2>2 DEF FailCheck
<1>ListPending. ASSUME NEW p \in Procs, ListPending(p)
                PROVE  BudgetInv'
  <2>1. \A t \in Eligible(p) : Paid(t)
    BY DEF Eligible, BudgetInv
  <2>2. \A q \in Procs : \A t \in view'[q] : Paid(t)
    BY <1>ListPending, <2>1 DEF ListPending, BudgetInv, TypeInv, TypeOK, ProcTypeOK
  <2> QED
    BY <1>ListPending, <2>2 DEF ListPending, BudgetInv, BudgetHonoured, Working, Paid,
       Charged, queueVars, worldVars
<1>Acquire. ASSUME NEW p \in Procs, NEW t \in view[p], Acquire(p, t)
            PROVE  BudgetInv'
  <2>1. \A q \in Procs : /\ view'[q] \subseteq view[q]
                         /\ job'[q] = job[q] \/ (q = p /\ job'[q] = t)
    BY <1>Acquire DEF Acquire, TypeInv, TypeOK, ProcTypeOK
  <2>2. \A q \in Procs : job'[q] # None => Paid(job'[q])
    BY <2>1 DEF BudgetInv
  <2>3. ~Working(p)
    BY <1>Acquire DEF Acquire, Working, TypeInv, ControlOK, WorkCmds
  <2>4. \A q \in Procs : Working(q)' => Charged(job'[q])
    BY <1>Acquire, <2>1, <2>3 DEF Acquire, Working, BudgetInv
  <2> QED
    BY <1>Acquire, <2>1, <2>2, <2>4 DEF Acquire, BudgetInv, BudgetHonoured, Paid, Charged,
       worldVars
<1>PublishOwner. ASSUME NEW p \in Procs, PublishOwner(p)
                 PROVE  BudgetInv'
  <2> DEFINE t == job[p]
  <2>1. t \in Task /\ t.wiki \in Wikis /\ t.snap \in Snapshots
    BY <1>PublishOwner, JobTyped DEF PublishOwner, TypeInv, Task
  <2>2. tries' = [tries EXCEPT ![t.wiki][t.snap] = Bump(@)]
    BY <1>PublishOwner DEF PublishOwner
  <2>3. \A w \in Wikis, s \in Snapshots : tries'[w][s] >= tries[w][s]
    BY <2>1, <2>2, <1>triesType, FleetAssumption DEF Bump
  <2>4. \A u \in Task : (Paid(u) => Paid(u)') /\ (Charged(u) => Charged(u)')
    <3> SUFFICES ASSUME NEW u \in Task
                 PROVE  (Paid(u) => Paid(u)') /\ (Charged(u) => Charged(u)')
      OBVIOUS
    <3>1. u.wiki \in Wikis /\ u.snap \in Snapshots /\ u.attempt \in Nat
      BY FleetAssumption DEF Task
    <3>2. /\ tries[u.wiki][u.snap] \in Nat
          /\ tries'[u.wiki][u.snap] \in Nat
          /\ tries'[u.wiki][u.snap] >= tries[u.wiki][u.snap]
      BY <2>1, <2>2, <2>3, <3>1, <1>triesType, FleetAssumption DEF Bump
    <3> QED
      BY <3>1, <3>2 DEF Paid, Charged
  <2>5. Charged(t)'
    <3>1. Paid(t) /\ t.attempt \in 0..(MaxAttempts - 1)
      BY <2>1, <1>none DEF BudgetInv, Task
    <3>2. tries'[t.wiki][t.snap] = Bump(tries[t.wiki][t.snap])
      BY <2>1, <2>2, <1>triesType
    <3>3. tries[t.wiki][t.snap] \in 0..MaxAttempts
      BY <2>1, <1>triesType
    <3>4. t.attempt < tries'[t.wiki][t.snap]
      BY <3>1, <3>2, <3>3, FleetAssumption DEF Bump, Paid
    <3>5. job'[p] = job[p]
      BY <1>PublishOwner DEF PublishOwner
    <3> QED
      BY <3>4, <3>5 DEF Charged
  <2>6. \A w \in Wikis : pending'[w] # None => Paid(pending[w])'
    BY <1>PublishOwner, <2>4 DEF PublishOwner, BudgetInv, TypeInv, TypeOK, QueueTypeOK
  <2>7. \A w \in Wikis : owner'[w] # None => Charged(owner[w].task)'
    <3>1. \A w \in Wikis : owner[w] # None => owner[w].task \in Task
      BY DEF TypeInv, TypeOK, QueueTypeOK, Claim
    <3>2. \A w \in Wikis : owner'[w] = owner[w] \/ owner'[w].task = t
      BY <1>PublishOwner, <2>1 DEF PublishOwner, NewClaim, TypeInv, TypeOK, QueueTypeOK
    <3>3. job'[p] = job[p]
      BY <1>PublishOwner DEF PublishOwner
    <3> QED
      BY <3>1, <3>2, <3>3, <2>4, <2>5 DEF BudgetInv
  <2>8. /\ \A q \in Procs : \A u \in view'[q] : Paid(u)'
        /\ \A q \in Procs : victim'[q] # None => Charged(victim[q])'
        /\ \A q \in Procs : job'[q] # None => Paid(job[q])'
    BY <1>PublishOwner, <2>4 DEF PublishOwner, BudgetInv, TypeInv, TypeOK, ProcTypeOK
  <2>9. \A q \in Procs : Working(q)' => Charged(job[q])'
    <3>1. \A q \in Procs : q # p => Working(q)' = Working(q)
      BY <1>PublishOwner DEF PublishOwner, Working, TypeInv, TypeOK, ProcTypeOK
    <3>2. \A q \in Procs : Working(q) => job[q] \in Task
      BY DEF Working, TypeInv, ControlOK, JobCmds
    <3>3. job' = job
      BY <1>PublishOwner DEF PublishOwner
    <3> QED
      BY <3>1, <3>2, <3>3, <2>4, <2>5 DEF BudgetInv
  <2>10. BudgetHonoured'
    <3>1. \A u \in quarantine : u.wiki \in Wikis /\ u.snap \in Snapshots
      BY DEF TypeInv, TypeOK, QueueTypeOK, Task
    <3>2. \A w \in Wikis, s \in Snapshots : tries[w][s] \in Nat /\ tries'[w][s] \in Nat
      BY <2>1, <2>2, <1>triesType, FleetAssumption DEF Bump
    <3> QED
      BY <1>PublishOwner, <3>1, <3>2, <2>3, FleetAssumption DEF PublishOwner, BudgetInv,
         BudgetHonoured
  <2> QED
    BY <2>6, <2>7, <2>8, <2>9, <2>10 DEF BudgetInv
<1>HeartbeatWrite. ASSUME NEW p \in Procs, HeartbeatWrite(p)
                   PROVE  BudgetInv'
  <2>1. job[p] \in Task /\ Charged(job[p])
    BY <1>HeartbeatWrite DEF HeartbeatWrite, TypeInv, ControlOK, BudgetInv, Working
  <2>2. \A w \in Wikis : owner'[w] = owner[w] \/ owner'[w].task = job[p]
    BY <1>HeartbeatWrite DEF HeartbeatWrite, NewClaim, TypeInv, TypeOK, QueueTypeOK
  <2>3. \A q \in Procs : /\ job'[q] \in {job[q], None}
                         /\ Working(q)' => Working(q) /\ job'[q] = job[q]
    BY <1>HeartbeatWrite DEF HeartbeatWrite, Working, WorkCmds, TypeInv, TypeOK,
       ProcTypeOK, ControlOK
  <2> QED
    BY <1>HeartbeatWrite, <2>1, <2>2, <2>3 DEF HeartbeatWrite, BudgetInv, BudgetHonoured,
       Paid, Charged, worldVars
<1>others. ASSUME NEW p \in Procs, p \notin Workers, NEW t \in Task,
                  t.attempt = 0, job' = [job EXCEPT ![p] = t],
                  cmd' \in {[cmd EXCEPT ![p] = "enqueue"], [cmd EXCEPT ![p] = "retry"]},
                  UNCHANGED <<queueVars, worldVars, victim, view, hb>>
           PROVE  BudgetInv'
  <2>1. Paid(t)
    <3>1. t.wiki \in Wikis /\ t.snap \in Snapshots
      BY DEF Task
    <3>2. tries[t.wiki][t.snap] \in Nat
      BY <3>1, <1>triesType, FleetAssumption
    <3> QED
      BY <1>others, <3>2 DEF Paid
  <2>2. \A q \in Procs : job'[q] = job[q] \/ job'[q] = t
    BY <1>others DEF TypeInv, TypeOK, ProcTypeOK
  <2>3. hb[p] = "off"
    BY <1>others DEF TypeInv, ControlOK
  <2>4. \A q \in Procs : Working(q)' => Working(q) /\ job'[q] = job[q]
    BY <1>others, <2>3 DEF Working, WorkCmds, TypeInv, TypeOK, ProcTypeOK
  <2> QED
    BY <1>others, <2>1, <2>2, <2>4 DEF BudgetInv, BudgetHonoured, Paid, Charged,
       queueVars, worldVars
<1>Discover. ASSUME NEW p \in Procs, NEW w \in Wikis, NEW c \in Classes, Discover(p, w, c)
             PROVE  BudgetInv'
  <2>1. p \notin Workers
    BY <1>Discover, ProcsDisjoint DEF Discover
  <2>2. NewTask(w, upstream[w], c) \in Task /\ NewTask(w, upstream[w], c).attempt = 0
    BY FleetAssumption DEF NewTask, Task, TypeInv, TypeOK, WorldTypeOK
  <2> QED
    BY <1>Discover, <2>1, <2>2, <1>others DEF Discover, BeginScan
<1>RetryCheck. ASSUME NEW p \in Procs, NEW t \in quarantine, RetryCheck(p, t)
               PROVE  BudgetInv'
  <2>1. p \notin Workers
    BY <1>RetryCheck, ProcsDisjoint DEF RetryCheck
  <2> DEFINE again == [t EXCEPT !.attempt = 0, !.due = TRUE]
  <2>2. t \in Task /\ 0 \in 0..(MaxAttempts - 1)
    BY FleetAssumption DEF TypeInv, TypeOK, QueueTypeOK
  <2>3. again \in Task /\ again.attempt = 0
    BY <2>2 DEF Task
  <2> QED
    BY <1>RetryCheck, <2>1, <2>3, <1>others DEF RetryCheck
<1>expires. ASSUME NEW w \in Wikis, LeaseExpires(w) \/ LeaseExpiresLive(w)
            PROVE  BudgetInv'
  <2>1. owner[w] \in Claim /\ owner[w] # None
    BY <1>expires DEF LeaseExpires, LeaseExpiresLive, TypeInv, TypeOK, QueueTypeOK
  <2>2. [owner[w] EXCEPT !.stale = TRUE].task = owner[w].task
    BY <2>1 DEF Claim
  <2>3. /\ owner' = [owner EXCEPT ![w] = [owner[w] EXCEPT !.stale = TRUE]]
        /\ UNCHANGED <<procVars, pending, quarantine, tries>>
    BY <1>expires DEF LeaseExpires, LeaseExpiresLive, worldVars
  <2>4. \A v \in Wikis : owner'[v] # None =>
          owner[v] # None /\ owner'[v].task = owner[v].task
    BY <2>1, <2>2, <2>3 DEF TypeInv, TypeOK, QueueTypeOK
  <2> QED
    BY <2>3, <2>4 DEF BudgetInv, BudgetHonoured, Working, Paid, Charged, procVars
<1>BackoffElapses. ASSUME NEW w \in Wikis, BackoffElapses(w)
                   PROVE  BudgetInv'
  <2> DEFINE due == [pending[w] EXCEPT !.due = TRUE]
  <2>1. pending[w] \in Task
    BY <1>BackoffElapses DEF BackoffElapses, TypeInv, TypeOK, QueueTypeOK
  <2>2. due.wiki = pending[w].wiki /\ due.snap = pending[w].snap
        /\ due.attempt = pending[w].attempt
    BY <2>1 DEF Task
  <2>3. Paid(due)
    BY <2>1, <2>2, <1>none DEF BudgetInv, Paid
  <2>4. \A v \in Wikis : pending'[v] # None => Paid(pending'[v])
    BY <1>BackoffElapses, <2>3 DEF BackoffElapses, BudgetInv, TypeInv, TypeOK, QueueTypeOK
  <2> QED
    BY <1>BackoffElapses, <2>4 DEF BackoffElapses, BudgetInv, BudgetHonoured, Working,
       Paid, Charged, worldVars, procVars
<1>world. ASSUME NEW w \in Wikis,
                 NewSnapshot(w) \/ \E s \in 0..MaxSnapshot : IndexRewritten(w, s)
          PROVE  BudgetInv'
  BY <1>world DEF NewSnapshot, IndexRewritten, BudgetInv, BudgetHonoured, Working, Paid,
     Charged, queueVars, procVars
<1>stutter. CASE UNCHANGED vars
  BY <1>stutter DEF vars, queueVars, worldVars, procVars, BudgetInv, BudgetHonoured,
     Working, Paid, Charged
<1> QED
  BY <1>quiet, <1>FailRetry, <1>FailQuarantine, <1>DeferWrite, <1>enqueue, <1>ScanStale,
     <1>FailCheck, <1>ListPending, <1>Acquire, <1>PublishOwner, <1>HeartbeatWrite,
     <1>Discover, <1>RetryCheck, <1>expires, <1>BackoffElapses, <1>world, <1>stutter
  DEF Next, Progress, Recovery, Claiming, Heartbeat, Finishing, Discovery, Retrying,
      Mishap, Environment, Quiet, TaskWrite

\* A task is quarantined for its retry limit only after that many leases were
\* published for it, however many processes recover or resurrect one lease.
THEOREM RetryBudget == Spec => []BudgetHonoured
<1>1. Init => BudgetInv
  BY DEF Init, BudgetInv, BudgetHonoured, Working, WorkCmds
<1>2. TypeInv /\ BudgetInv /\ [Next]_vars => BudgetInv'
  BY BudgetStep
<1>3. BudgetInv => BudgetHonoured
  BY DEF BudgetInv
<1> QED
  BY <1>1, <1>2, <1>3, TypeInvariant, PTL DEF Spec

=============================================================================
