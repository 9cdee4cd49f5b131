----------------------------- MODULE FleetQueue -----------------------------
(***************************************************************************)
(* The fleet scheduler's durable work queue: one directory tree on shared  *)
(* NFS, mutated by independent short-lived commands of workers,            *)
(* controllers and operators.  There is no daemon and no lock around the   *)
(* tree: a lease is a directory (atomic mkdir), every document is replaced *)
(* by an atomic rename, and each command reads, decides and writes in      *)
(* separate file-system operations.  Each action below is one such         *)
(* operation, so the commands of different processes interleave between    *)
(* any two of them, and a process may die between any two of them.         *)
(*                                                                         *)
(* Time is abstracted: a pending task is due once its not_before_unix has  *)
(* passed, a lease is stale once its heartbeat is older than its timeout.  *)
(***************************************************************************)
EXTENDS Naturals, FiniteSets

CONSTANTS
    Wikis,          \* scheduled wikis
    Workers,        \* worker instances (run-fleet-worker.sh in one pod)
    Controllers,    \* discovery controllers (run-fleet-controller.sh)
    Operators,      \* admin-run fleet-recover and fleet retry commands
    Classes,        \* resource classes
    WorkerClass,    \* the class each worker was started for
    MaxSnapshot,    \* bound on the snapshots published upstream
    MaxAttempts,    \* DEFAULT_MAX_ATTEMPTS of claim and enqueue, taken to be the
                    \* limit that WIKI_ECON_FLEET_MAX_ATTEMPTS gives to fleet-fail
    MaxFaults,      \* bound on adverse events in one behaviour
    None            \* an absent file, or no task

Procs == Workers \cup Controllers \cup Operators

Snapshots == 1..MaxSnapshot

ASSUME FleetAssumption ==
    /\ MaxSnapshot \in Nat \ {0}
    /\ MaxAttempts \in Nat \ {0}
    /\ MaxFaults \in Nat
    /\ WorkerClass \in [Workers -> Classes]

ASSUME ProcsDisjoint ==
    /\ Workers \cap Controllers = {}
    /\ Workers \cap Operators = {}
    /\ Controllers \cap Operators = {}

(***************************************************************************)
(* A task's identity is its wiki and snapshot (task_identity); class,      *)
(* attempt and eligibility are metadata that a rewrite may change.         *)
(***************************************************************************)
Task == [wiki: Wikis, snap: Snapshots, class: Classes,
         attempt: 0..(MaxAttempts - 1), due: BOOLEAN]

\* owner.json: who holds the lease, on which task, and whether the recorded
\* heartbeat is older than the lease timeout.
Claim == [worker: Workers, task: Task, stale: BOOLEAN]

ASSUME NoneAssumption == None \notin (Task \cup Claim \cup Wikis)

VARIABLES
    pending,     \* pending/<wiki>.json
    leaseDir,    \* the wikis that have a directory under leases/
    owner,       \* leases/<wiki>/owner.json
    notified,    \* notifications/ready/<wiki>-<task>.json
    completed,   \* completed/<wiki>-<task>.json
    quarantine,  \* quarantine/<wiki>-<task>-attempt-N.json
    readyIndex,  \* newest_valid_ready.snapshot of _ready-index/<wiki>.json
    upstream,    \* newest snapshot Wikimedia has published for the wiki
    pc,          \* the next file-system operation of each process
    cmd,         \* the command the process is running
    scan,        \* lease entries recover_stale_at has still to visit
    dir,         \* the wiki whose lease or pending file is being removed
    victim,      \* the claimed task that fail_claim_at is working on
    view,        \* pending tasks a claim listed and has not tried yet
    job,         \* the task the command is about (a worker's claim receipt)
    hb,          \* the worker's heartbeat loop
    faults,      \* adverse events so far
    tries,       \* history: leases published per wiki and snapshot
    validated,   \* history: snapshots the ready index ever named
    overtaken    \* history: wikis reclassified past a copy of their task

queueVars == <<pending, leaseDir, owner, notified, completed, quarantine>>
worldVars == <<readyIndex, upstream, faults, tries, validated, overtaken>>
procVars  == <<pc, cmd, scan, dir, victim, view, job, hb>>
vars      == <<queueVars, worldVars, procVars>>

\* Commands that run recover_stale_at.
ScanCmds == {"claim", "enqueue", "recover"}

Cmds == ScanCmds \cup {"none", "abandon", "work", "prepare", "complete", "defer", "fail", "retry"}

Labels == {"idle", "scan", "ambiguous", "fail", "drop", "unlink", "rmdir",
           "list", "acquire", "publish", "readycheck", "prepare", "complete", "notify",
           "record", "failcheck", "defer", "deferwrite",
           "enqlease", "enqread", "enqwrite", "retrywrite", "retryarchive"}

\* "write": ownership was checked, owner.json not yet replaced.  "orphan": the
\* same, but the loop was killed; the fleet-heartbeat child finishes anyway.
HbStates == {"off", "on", "write", "orphan", "lost"}

-----------------------------------------------------------------------------

NewTask(w, s, c) ==
    [wiki |-> w, snap |-> s, class |-> c, attempt |-> 0, due |-> TRUE]

NewClaim(p, t) == [worker |-> p, task |-> t, stale |-> FALSE]

SameTask(t, u) == t.wiki = u.wiki /\ t.snap = u.snap

\* ensure_live_owner: owner.json still carries this worker's lease.
LiveOwner(p) ==
    LET live == owner[job[p].wiki]
    IN  /\ live # None
        /\ live.worker = p
        /\ SameTask(live.task, job[p])

\* completed_evidence_valid: receipt, notification and the live ready index.
EvidenceValid(t) ==
    /\ <<t.wiki, t.snap>> \in completed
    /\ <<t.wiki, t.snap>> \in notified
    /\ readyIndex[t.wiki] = t.snap

\* The worker's loop still refreshes the lease of w.
Heartbeating(p, w) == hb[p] \in {"on", "write"} /\ job[p].wiki = w

Bump(n) == IF n < MaxAttempts THEN n + 1 ELSE n

-----------------------------------------------------------------------------
(* How a command moves on.                                                 *)

Goto(p, l) == pc' = [pc EXCEPT ![p] = l]

\* kill "$heartbeat_pid" ends the loop, not a fleet-heartbeat in progress.
StopHeartbeat(p) ==
    hb' = [hb EXCEPT ![p] = IF @ \in {"write", "orphan"} THEN "orphan" ELSE "off"]

\* The process exits, or its loop comes round, and the claim receipt is removed
\* (a heartbeat still in progress has read it already).
Stop(p) ==
    /\ Goto(p, "idle")
    /\ cmd' = [cmd EXCEPT ![p] = "none"]
    /\ scan' = [scan EXCEPT ![p] = {}]
    /\ dir' = [dir EXCEPT ![p] = None]
    /\ victim' = [victim EXCEPT ![p] = None]
    /\ view' = [view EXCEPT ![p] = {}]
    /\ StopHeartbeat(p)
    /\ job' = [job EXCEPT ![p] = IF hb[p] \in {"write", "orphan"} THEN @ ELSE None]

\* The EXIT trap: stop the heartbeat, then run fleet-fail.
FinishTask(p) ==
    /\ Goto(p, "failcheck")
    /\ cmd' = [cmd EXCEPT ![p] = "fail"]
    /\ dir' = [dir EXCEPT ![p] = None]
    /\ StopHeartbeat(p)
    /\ UNCHANGED <<scan, victim, view, job>>

\* The command returns an error.  Only fleet-complete and fleet-defer run
\* under the worker's EXIT trap; every other command just ends.
Error(p) ==
    IF cmd[p] \in {"complete", "defer"} THEN FinishTask(p) ELSE Stop(p)

\* The lease directory is gone: back to the scan, or the command succeeds.  A
\* TERM sent by a failed heartbeat is handled when the command has ended.
Released(p) ==
    \/ /\ cmd[p] \in ScanCmds
       /\ Goto(p, "scan")
       /\ dir' = [dir EXCEPT ![p] = None]
       /\ UNCHANGED <<cmd, scan, victim, view, job, hb>>
    \/ /\ cmd[p] \in {"complete", "defer"} /\ hb[p] = "lost"
       /\ FinishTask(p)
    \/ /\ cmd[p] \notin ScanCmds
       /\ ~(cmd[p] \in {"complete", "defer"} /\ hb[p] = "lost")
       /\ Stop(p)

Fault == faults < MaxFaults /\ faults' = faults + 1

-----------------------------------------------------------------------------
(* The copies of a task between the file it was read from and the file it  *)
(* goes to, and the history of the classifications that overtook one.      *)

\* Tasks of w that a process has read and will lease, or will write into
\* pending/ or owner.json, without reading them again.
LooseCopies(w) ==
    {t \in (UNION {view[p] : p \in Workers})
           \cup {victim[p] : p \in Procs}
           \cup {job[p] : p \in {q \in Workers : \/ pc[q] \in {"publish", "deferwrite"}
                                                \/ hb[q] \in {"write", "orphan"}}} :
        t # None /\ t.wiki = w}

\* Discovery or a retry has found no lease of the wiki and is about to write the
\* task in another class.
RewriteUnderway(t) ==
    \E p \in Procs : /\ pc[p] \in {"enqread", "enqwrite", "retrywrite"}
                     /\ job[p].wiki = t.wiki /\ job[p].class # t.class

\* A lease of t that appears now is not seen by a rewrite that is under way.
LeaseAppears(t) ==
    overtaken' = [overtaken EXCEPT ![t.wiki] = @ \/ RewriteUnderway(t)]

\* pending/ gets a task from discovery or a retry: it overtakes loose copies of
\* another class, and a lease that appeared since the check.
Reclassified(t) ==
    overtaken' = [overtaken EXCEPT ![t.wiki] =
        \/ \E c \in LooseCopies(t.wiki) : c.class # t.class
        \/ t.wiki \in leaseDir /\ @]

-----------------------------------------------------------------------------
(* recover_stale_at: the pass over leases/ that starts every claim and     *)
(* every enqueue, and is all of fleet-recover.                             *)

BeginScan(p, c) ==
    /\ Goto(p, "scan")
    /\ cmd' = [cmd EXCEPT ![p] = c]
    /\ scan' = [scan EXCEPT ![p] = leaseDir]
    /\ UNCHANGED <<dir, victim, view, hb>>

\* One directory entry.  A lease that vanished since the listing takes the
\* quarantine path, whose rename fails and ends the whole command.
ScanVanished(p, w) ==
    /\ pc[p] = "scan" /\ w \in scan[p]
    /\ w \notin leaseDir
    /\ Error(p)
    /\ UNCHANGED <<queueVars, worldVars>>

ScanOwnerless(p, w) ==
    /\ pc[p] = "scan" /\ w \in scan[p]
    /\ w \in leaseDir /\ owner[w] = None
    /\ Goto(p, "ambiguous")
    /\ scan' = [scan EXCEPT ![p] = @ \ {w}]
    /\ dir' = [dir EXCEPT ![p] = w]
    /\ UNCHANGED <<queueVars, worldVars, cmd, victim, view, job, hb>>

\* Mutant: the age of the heartbeat is not looked at.
ScanFresh_Any(p, w) ==
    /\ pc[p] = "scan" /\ w \in scan[p]
    /\ w \in leaseDir /\ owner[w] # None
    /\ scan' = [scan EXCEPT ![p] = @ \ {w}]
    /\ UNCHANGED <<queueVars, worldVars, pc, cmd, dir, victim, view, job, hb>>

ScanFresh(p, w) ==
    /\ pc[p] = "scan" /\ w \in scan[p]
    /\ w \in leaseDir /\ owner[w] # None
    /\ ~owner[w].stale
    /\ scan' = [scan EXCEPT ![p] = @ \ {w}]
    /\ UNCHANGED <<queueVars, worldVars, pc, cmd, dir, victim, view, job, hb>>

ScanStale(p, w) ==
    /\ pc[p] = "scan" /\ w \in scan[p]
    /\ w \in leaseDir /\ owner[w] # None
    /\ owner[w].stale
    /\ Goto(p, "fail")
    /\ scan' = [scan EXCEPT ![p] = @ \ {w}]
    /\ dir' = [dir EXCEPT ![p] = w]
    /\ victim' = [victim EXCEPT ![p] = owner[w].task]
    /\ UNCHANGED <<queueVars, worldVars, cmd, view, job, hb>>

\* quarantine_unknown: the directory is renamed away with whatever it holds by
\* then, even an owner.json published since it was found missing.
QuarantineUnknown(p) ==
    /\ pc[p] = "ambiguous"
    /\ \/ /\ dir[p] \in leaseDir
          /\ leaseDir' = leaseDir \ {dir[p]}
          /\ owner' = [owner EXCEPT ![dir[p]] = None]
          /\ Goto(p, "scan")
          /\ dir' = [dir EXCEPT ![p] = None]
          /\ UNCHANGED <<cmd, scan, victim, view, job, hb>>
       \/ /\ dir[p] \notin leaseDir
          /\ Error(p)
          /\ UNCHANGED <<leaseDir, owner>>
    /\ UNCHANGED <<pending, notified, completed, quarantine, worldVars>>

ScanDone(p) ==
    /\ pc[p] = "scan" /\ scan[p] = {}
    /\ \/ /\ cmd[p] = "claim"   /\ Goto(p, "list")
          /\ UNCHANGED <<cmd, scan, dir, victim, view, job, hb>>
       \/ /\ cmd[p] = "enqueue" /\ Goto(p, "enqlease")
          /\ UNCHANGED <<cmd, scan, dir, victim, view, job, hb>>
       \/ /\ cmd[p] = "recover" /\ Stop(p)
    /\ UNCHANGED <<queueVars, worldVars>>

-----------------------------------------------------------------------------
(* fail_claim_at, shared by the recovery pass and fleet-fail.  It works on *)
(* the claim it was given and never looks at the lease again.              *)

\* Mutant: the count is taken from the pending file instead of from the claim.
NextAttempt_FromPending(t) ==
    IF pending[t.wiki] # None /\ SameTask(pending[t.wiki], t)
    THEN pending[t.wiki].attempt + 1 ELSE t.attempt + 1

NextAttempt(t) == t.attempt + 1

\* Mutant: off by one.
RetryLimitReached_Late(t) == NextAttempt(t) > MaxAttempts

RetryLimitReached(t) == NextAttempt(t) >= MaxAttempts

FailRetry(p) ==
    /\ pc[p] = "fail" /\ ~RetryLimitReached(victim[p])
    /\ pending' = [pending EXCEPT ![dir[p]] =
          [victim[p] EXCEPT !.attempt = NextAttempt(victim[p]), !.due = FALSE]]
    /\ Goto(p, "unlink")
    /\ victim' = [victim EXCEPT ![p] = None]
    /\ UNCHANGED <<leaseDir, owner, notified, completed, quarantine, worldVars,
                   cmd, scan, dir, view, job, hb>>

FailQuarantine(p) ==
    /\ pc[p] = "fail" /\ RetryLimitReached(victim[p])
    /\ quarantine' = {t \in quarantine : ~SameTask(t, victim[p])} \cup {victim[p]}
    /\ Goto(p, "drop")
    /\ victim' = [victim EXCEPT ![p] = None]
    /\ UNCHANGED <<pending, leaseDir, owner, notified, completed, worldVars,
                   cmd, scan, dir, view, job, hb>>

\* fs::remove_file(pending)?: an absent file is an error, and the command ends
\* with the lease still in place.
DropPending(p) ==
    /\ pc[p] = "drop"
    /\ \/ /\ pending[dir[p]] # None
          /\ pending' = [pending EXCEPT ![dir[p]] = None]
          /\ Goto(p, "unlink")
          /\ UNCHANGED <<cmd, scan, dir, victim, view, job, hb>>
       \/ /\ pending[dir[p]] = None
          /\ Error(p)
          /\ UNCHANGED pending
    /\ UNCHANGED <<leaseDir, owner, notified, completed, quarantine, worldVars>>

\* fs::remove_dir_all(lease), as its two operations: the entries, then the
\* directory.  Nothing checks whose lease it is by now.
UnlinkOwner(p) ==
    /\ pc[p] = "unlink"
    /\ \/ /\ dir[p] \in leaseDir
          /\ owner' = [owner EXCEPT ![dir[p]] = None]
          /\ Goto(p, "rmdir")
          /\ UNCHANGED <<cmd, scan, dir, victim, view, job, hb>>
       \/ /\ dir[p] \notin leaseDir
          /\ Error(p)
          /\ UNCHANGED owner
    /\ UNCHANGED <<pending, leaseDir, notified, completed, quarantine, worldVars>>

RemoveLeaseDir(p) ==
    /\ pc[p] = "rmdir"
    /\ \/ /\ owner[dir[p]] = None
          /\ leaseDir' = leaseDir \ {dir[p]}
          /\ Released(p)
       \/ /\ owner[dir[p]] # None
          /\ Error(p)
          /\ UNCHANGED leaseDir
    /\ UNCHANGED <<pending, owner, notified, completed, quarantine, worldVars>>

-----------------------------------------------------------------------------
(* fleet-claim.                                                            *)

ClaimBegin(p) ==
    /\ p \in Workers /\ pc[p] = "idle" /\ hb[p] = "off"
    /\ BeginScan(p, "claim")
    /\ UNCHANGED <<queueVars, worldVars, job>>

\* What a claim may try: due tasks of the worker's own class.
Eligible(p) ==
    {t \in {pending[w] : w \in Wikis} \ {None} :
        t.due /\ t.class = WorkerClass[p]}

ListPending(p) ==
    /\ pc[p] = "list"
    /\ view' = [view EXCEPT ![p] = Eligible(p)]
    /\ Goto(p, "acquire")
    /\ UNCHANGED <<queueVars, worldVars, cmd, scan, dir, victim, job, hb>>

\* acquire_lease: mkdir decides; tasks are tried from the lowest attempt on.
Acquire(p, t) ==
    /\ pc[p] = "acquire" /\ t \in view[p]
    /\ \A u \in view[p] : t.attempt <= u.attempt
    /\ \/ /\ t.wiki \notin leaseDir
          /\ leaseDir' = leaseDir \cup {t.wiki}
          /\ job' = [job EXCEPT ![p] = t]
          /\ view' = [view EXCEPT ![p] = {}]
          /\ Goto(p, "publish")
          /\ LeaseAppears(t)
       \/ /\ t.wiki \in leaseDir
          /\ view' = [view EXCEPT ![p] = @ \ {t}]
          /\ UNCHANGED <<leaseDir, job, pc, overtaken>>
    /\ UNCHANGED <<pending, owner, notified, completed, quarantine, readyIndex,
                   upstream, faults, tries, validated, cmd, scan, dir, victim, hb>>

NothingToClaim(p) ==
    /\ pc[p] = "acquire" /\ view[p] = {}
    /\ Stop(p)
    /\ UNCHANGED <<queueVars, worldVars>>

\* publish_claim writes owner.json through atomic_write_json, which creates the
\* directory again when it is missing.  The worker then starts its heartbeat.
PublishOwner(p) ==
    LET t == job[p]
    IN  /\ pc[p] = "publish"
        /\ leaseDir' = leaseDir \cup {t.wiki}
        /\ owner' = [owner EXCEPT ![t.wiki] = NewClaim(p, t)]
        /\ tries' = [tries EXCEPT ![t.wiki][t.snap] = Bump(@)]
        /\ LeaseAppears(t)
        /\ Goto(p, "readycheck")
        /\ cmd' = [cmd EXCEPT ![p] = "work"]
        /\ hb' = [hb EXCEPT ![p] = "on"]
        /\ UNCHANGED <<pending, notified, completed, quarantine, readyIndex, upstream,
                       faults, validated, scan, dir, victim, view, job>>

\* The write failed: the directory is removed, errors ignored, and the command
\* ends with an error.
PublishFails(p) ==
    /\ pc[p] = "publish"
    /\ Fault
    /\ Goto(p, "unlink")
    /\ cmd' = [cmd EXCEPT ![p] = "abandon"]
    /\ dir' = [dir EXCEPT ![p] = job[p].wiki]
    /\ UNCHANGED <<queueVars, readyIndex, upstream, tries, validated, overtaken,
                   scan, victim, view, job, hb>>

-----------------------------------------------------------------------------
(* fleet-heartbeat, run in a loop beside the worker's foreground command.  *)

HeartbeatCheck(p) ==
    /\ hb[p] = "on"
    /\ hb' = [hb EXCEPT ![p] = IF LiveOwner(p) THEN "write" ELSE "lost"]
    /\ UNCHANGED <<queueVars, worldVars, pc, cmd, scan, dir, victim, view, job>>

HeartbeatWrite(p) ==
    /\ hb[p] \in {"write", "orphan"}
    /\ leaseDir' = leaseDir \cup {job[p].wiki}
    /\ owner' = [owner EXCEPT ![job[p].wiki] = NewClaim(p, job[p])]
    /\ hb' = [hb EXCEPT ![p] = IF @ = "write" THEN "on" ELSE "off"]
    /\ job' = [job EXCEPT ![p] = IF pc[p] = "idle" THEN None ELSE @]
    /\ LeaseAppears(job[p])
    /\ UNCHANGED <<pending, notified, completed, quarantine, readyIndex, upstream,
                   faults, tries, validated, pc, cmd, scan, dir, victim, view>>

-----------------------------------------------------------------------------
(* The worker's foreground work.  The preparation wrapper is external: it  *)
(* is seen through its exit status and what it leaves in the ready index.  *)

\* The foreground command has ended; the worker goes on to the next one, unless
\* a lost heartbeat has sent it TERM meanwhile.
AfterPrepare(p, c) ==
    IF hb[p] = "lost"
    THEN FinishTask(p)
    ELSE /\ Goto(p, c)
         /\ cmd' = [cmd EXCEPT ![p] = c]
         /\ UNCHANGED <<scan, dir, victim, view, job, hb>>

\* ready_index_matches: preparation is skipped when the index names the snapshot.
ReadyCheck(p) ==
    /\ pc[p] = "readycheck"
    /\ \/ /\ readyIndex[job[p].wiki] = job[p].snap
          /\ AfterPrepare(p, "complete")
       \/ /\ readyIndex[job[p].wiki] # job[p].snap
          /\ AfterPrepare(p, "prepare")
    /\ UNCHANGED <<queueVars, worldVars>>

\* mark_wiki_ready replaces the index by the candidate it has just prepared,
\* whatever snapshot the index named before.
PrepareReady(p) ==
    LET t == job[p]
    IN  /\ pc[p] = "prepare"
        /\ readyIndex' = [readyIndex EXCEPT ![t.wiki] = t.snap]
        /\ validated' = validated \cup {<<t.wiki, t.snap>>}
        /\ AfterPrepare(p, "complete")
        /\ UNCHANGED <<queueVars, upstream, faults, tries, overtaken>>

\* Exit status 0 without this snapshot in the index.
PrepareHollow(p) ==
    /\ pc[p] = "prepare"
    /\ Fault
    /\ AfterPrepare(p, "complete")
    /\ UNCHANGED <<queueVars, readyIndex, upstream, tries, validated, overtaken>>

\* Exit status 75: upstream is not there yet, or the wiki's lock is held.
PrepareWaits(p) ==
    /\ pc[p] = "prepare"
    /\ Fault
    /\ AfterPrepare(p, "defer")
    /\ UNCHANGED <<queueVars, readyIndex, upstream, tries, validated, overtaken>>

\* Any other status runs the EXIT trap.
PrepareFails(p) ==
    /\ pc[p] = "prepare"
    /\ Fault
    /\ FinishTask(p)
    /\ UNCHANGED <<queueVars, readyIndex, upstream, tries, validated, overtaken>>

-----------------------------------------------------------------------------
(* fleet-complete, fleet-defer and fleet-fail.                             *)

\* Mutant: the wrapper's exit status is trusted.
MayComplete_Unchecked(p) == LiveOwner(p)

\* The lease is still this worker's and the index names exactly this snapshot.
MayComplete(p) == LiveOwner(p) /\ readyIndex[job[p].wiki] = job[p].snap

CompleteCheck(p) ==
    /\ pc[p] = "complete"
    /\ \/ /\ MayComplete(p)
          /\ Goto(p, "notify")
          /\ UNCHANGED <<cmd, scan, dir, victim, view, job, hb>>
       \/ ~MayComplete(p) /\ Error(p)
    /\ UNCHANGED <<queueVars, worldVars>>

\* Mutant: the receipt is written before the notification.
Notify_RecordFirst(p) ==
    /\ pc[p] = "notify"
    /\ completed' = completed \cup {<<job[p].wiki, job[p].snap>>}
    /\ Goto(p, "record")
    /\ UNCHANGED <<pending, leaseDir, owner, notified, quarantine, worldVars,
                   cmd, scan, dir, victim, view, job, hb>>

Notify(p) ==
    /\ pc[p] = "notify"
    /\ notified' = notified \cup {<<job[p].wiki, job[p].snap>>}
    /\ Goto(p, "record")
    /\ UNCHANGED <<pending, leaseDir, owner, completed, quarantine, worldVars,
                   cmd, scan, dir, victim, view, job, hb>>

RecordCompleted(p) ==
    /\ pc[p] = "record"
    /\ completed' = completed \cup {<<job[p].wiki, job[p].snap>>}
    /\ Goto(p, "drop")
    /\ dir' = [dir EXCEPT ![p] = job[p].wiki]
    /\ UNCHANGED <<pending, leaseDir, owner, notified, quarantine, worldVars,
                   cmd, scan, victim, view, job, hb>>

DeferCheck(p) ==
    /\ pc[p] = "defer"
    /\ \/ /\ LiveOwner(p)
          /\ Goto(p, "deferwrite")
          /\ UNCHANGED <<cmd, scan, dir, victim, view, job, hb>>
       \/ ~LiveOwner(p) /\ Error(p)
    /\ UNCHANGED <<queueVars, worldVars>>

\* The task goes back with its attempt unchanged.
DeferWrite(p) ==
    /\ pc[p] = "deferwrite"
    /\ pending' = [pending EXCEPT ![job[p].wiki] = [job[p] EXCEPT !.due = FALSE]]
    /\ Goto(p, "unlink")
    /\ dir' = [dir EXCEPT ![p] = job[p].wiki]
    /\ UNCHANGED <<leaseDir, owner, notified, completed, quarantine, worldVars,
                   cmd, scan, victim, view, job, hb>>

FailCheck(p) ==
    /\ pc[p] = "failcheck"
    /\ \/ /\ LiveOwner(p)
          /\ Goto(p, "fail")
          /\ dir' = [dir EXCEPT ![p] = job[p].wiki]
          /\ victim' = [victim EXCEPT ![p] = job[p]]
          /\ UNCHANGED <<cmd, scan, view, job, hb>>
       \/ ~LiveOwner(p) /\ Error(p)
    /\ UNCHANGED <<queueVars, worldVars>>

-----------------------------------------------------------------------------
(* fleet-discover: one wiki of the controller's loop, then enqueue.        *)

Discover(p, w, c) ==
    /\ p \in Controllers /\ pc[p] = "idle"
    /\ readyIndex[w] # upstream[w]
    /\ job' = [job EXCEPT ![p] = NewTask(w, upstream[w], c)]
    /\ BeginScan(p, "enqueue")
    /\ UNCHANGED <<queueVars, worldVars>>

\* Mutant: discovery rewrites the task of a leased wiki.
EnqueueLease_Blind(p) ==
    /\ pc[p] = "enqlease"
    /\ Goto(p, "enqread")
    /\ UNCHANGED <<queueVars, worldVars, cmd, scan, dir, victim, view, job, hb>>

EnqueueLease(p) ==
    /\ pc[p] = "enqlease"
    /\ \/ job[p].wiki \in leaseDir /\ Stop(p)
       \/ /\ job[p].wiki \notin leaseDir
          /\ Goto(p, "enqread")
          /\ UNCHANGED <<cmd, scan, dir, victim, view, job, hb>>
    /\ UNCHANGED <<queueVars, worldVars>>

EnqueueRead(p) ==
    /\ pc[p] = "enqread"
    /\ \/ EvidenceValid(job[p]) /\ Stop(p)
       \/ /\ ~EvidenceValid(job[p])
          /\ Goto(p, "enqwrite")
          /\ UNCHANGED <<cmd, scan, dir, victim, view, job, hb>>
    /\ UNCHANGED <<queueVars, worldVars>>

\* Whatever is pending for the wiki, the same task included, is overwritten by
\* a task with a fresh attempt count and no backoff.
EnqueueWrite(p) ==
    /\ pc[p] = "enqwrite"
    /\ pending' = [pending EXCEPT ![job[p].wiki] = job[p]]
    /\ Reclassified(job[p])
    /\ Stop(p)
    /\ UNCHANGED <<leaseDir, owner, notified, completed, quarantine, readyIndex,
                   upstream, faults, tries, validated>>

-----------------------------------------------------------------------------
(* Operator commands: fleet-recover and retry_quarantined.                 *)

RecoverBegin(p) ==
    /\ p \in Operators /\ pc[p] = "idle"
    /\ BeginScan(p, "recover")
    /\ UNCHANGED <<queueVars, worldVars, job>>

RetryCheck(p, t) ==
    /\ p \in Operators /\ pc[p] = "idle"
    /\ t \in quarantine
    /\ pending[t.wiki] = None /\ t.wiki \notin leaseDir
    /\ job' = [job EXCEPT ![p] = [t EXCEPT !.attempt = 0, !.due = TRUE]]
    /\ cmd' = [cmd EXCEPT ![p] = "retry"]
    /\ Goto(p, "retrywrite")
    /\ UNCHANGED <<queueVars, worldVars, scan, dir, victim, view, hb>>

RetryWrite(p) ==
    /\ pc[p] = "retrywrite"
    /\ pending' = [pending EXCEPT ![job[p].wiki] = job[p]]
    /\ Reclassified(job[p])
    /\ Goto(p, "retryarchive")
    /\ UNCHANGED <<leaseDir, owner, notified, completed, quarantine, readyIndex,
                   upstream, faults, tries, validated,
                   cmd, scan, dir, victim, view, job, hb>>

\* The receipt is renamed into retried/; if it is gone, the pending file is
\* taken back.
RetryArchive(p) ==
    /\ pc[p] = "retryarchive"
    /\ LET here == {t \in quarantine : SameTask(t, job[p])}
       IN  /\ quarantine' = quarantine \ here
           /\ pending' = IF here = {} THEN [pending EXCEPT ![job[p].wiki] = None]
                                      ELSE pending
    /\ Stop(p)
    /\ UNCHANGED <<leaseDir, owner, notified, completed, worldVars>>

-----------------------------------------------------------------------------
(* The environment.                                                        *)

\* The process dies: its pod with everything in it, heartbeat included.
Crash(p) ==
    /\ pc[p] # "idle"
    /\ Fault
    /\ Goto(p, "idle")
    /\ cmd' = [cmd EXCEPT ![p] = "none"]
    /\ scan' = [scan EXCEPT ![p] = {}]
    /\ dir' = [dir EXCEPT ![p] = None]
    /\ victim' = [victim EXCEPT ![p] = None]
    /\ view' = [view EXCEPT ![p] = {}]
    /\ job' = [job EXCEPT ![p] = None]
    /\ hb' = [hb EXCEPT ![p] = "off"]
    /\ UNCHANGED <<queueVars, readyIndex, upstream, tries, validated, overtaken>>

BackoffElapses(w) ==
    /\ pending[w] # None /\ ~pending[w].due
    /\ pending' = [pending EXCEPT ![w].due = TRUE]
    /\ UNCHANGED <<leaseDir, owner, notified, completed, quarantine, worldVars, procVars>>

\* The lease of a worker that no longer refreshes it runs out.
LeaseExpires(w) ==
    /\ owner[w] # None /\ ~owner[w].stale
    /\ ~Heartbeating(owner[w].worker, w)
    /\ owner' = [owner EXCEPT ![w].stale = TRUE]
    /\ UNCHANGED <<pending, leaseDir, notified, completed, quarantine, worldVars, procVars>>

\* A live worker is stalled past its lease timeout (a paused pod, slow NFS).
LeaseExpiresLive(w) ==
    /\ owner[w] # None /\ ~owner[w].stale
    /\ Heartbeating(owner[w].worker, w)
    /\ Fault
    /\ owner' = [owner EXCEPT ![w].stale = TRUE]
    /\ UNCHANGED <<pending, leaseDir, notified, completed, quarantine,
                   readyIndex, upstream, tries, validated, overtaken, procVars>>

NewSnapshot(w) ==
    /\ upstream[w] < MaxSnapshot
    /\ upstream' = [upstream EXCEPT ![w] = @ + 1]
    /\ UNCHANGED <<queueVars, readyIndex, faults, tries, validated, overtaken, procVars>>

\* Somebody else writes the index: an admin's promotion or migration, a
\* retirement (0: no candidate is left), a publication commit or rollback.
IndexRewritten(w, s) ==
    /\ readyIndex[w] # s /\ s <= upstream[w]
    /\ Fault
    /\ readyIndex' = [readyIndex EXCEPT ![w] = s]
    /\ validated' = IF s = 0 THEN validated ELSE validated \cup {<<w, s>>}
    /\ UNCHANGED <<queueVars, upstream, tries, overtaken, procVars>>

-----------------------------------------------------------------------------

Init ==
    /\ pending = [w \in Wikis |-> None]
    /\ leaseDir = {}
    /\ owner = [w \in Wikis |-> None]
    /\ notified = {}
    /\ completed = {}
    /\ quarantine = {}
    /\ readyIndex = [w \in Wikis |-> 0]
    /\ upstream = [w \in Wikis |-> 1]
    /\ pc = [p \in Procs |-> "idle"]
    /\ cmd = [p \in Procs |-> "none"]
    /\ scan = [p \in Procs |-> {}]
    /\ dir = [p \in Procs |-> None]
    /\ victim = [p \in Procs |-> None]
    /\ view = [p \in Procs |-> {}]
    /\ job = [p \in Procs |-> None]
    /\ hb = [p \in Procs |-> "off"]
    /\ faults = 0
    /\ tries = [w \in Wikis |-> [s \in Snapshots |-> 0]]
    /\ validated = {}
    /\ overtaken = [w \in Wikis |-> FALSE]

Recovery(p) ==
    \/ \E w \in Wikis : \/ ScanVanished(p, w) \/ ScanOwnerless(p, w)
                        \/ ScanFresh(p, w) \/ ScanStale(p, w)
    \/ QuarantineUnknown(p) \/ ScanDone(p)
    \/ FailRetry(p) \/ FailQuarantine(p)
    \/ DropPending(p) \/ UnlinkOwner(p) \/ RemoveLeaseDir(p)

Claiming(p) ==
    \/ ClaimBegin(p) \/ ListPending(p) \/ NothingToClaim(p)
    \/ \E t \in view[p] : Acquire(p, t)
    \/ PublishOwner(p)

Heartbeat(p) == HeartbeatCheck(p) \/ HeartbeatWrite(p)

Finishing(p) ==
    \/ CompleteCheck(p) \/ Notify(p) \/ RecordCompleted(p)
    \/ DeferCheck(p) \/ DeferWrite(p) \/ FailCheck(p)

Discovery(p) ==
    \/ \E w \in Wikis, c \in Classes : Discover(p, w, c)
    \/ EnqueueLease(p) \/ EnqueueRead(p) \/ EnqueueWrite(p)

Retrying(p) ==
    \/ RecoverBegin(p)
    \/ \E t \in quarantine : RetryCheck(p, t)
    \/ RetryWrite(p) \/ RetryArchive(p)

\* What a process does when nothing goes wrong.
Progress(p) ==
    \/ Recovery(p) \/ Claiming(p) \/ Finishing(p) \/ Discovery(p)
    \/ ReadyCheck(p) \/ PrepareReady(p)

Mishap(p) ==
    \/ PublishFails(p) \/ PrepareHollow(p) \/ PrepareWaits(p)
    \/ PrepareFails(p) \/ Crash(p)

Environment ==
    \E w \in Wikis :
        \/ BackoffElapses(w) \/ LeaseExpires(w) \/ LeaseExpiresLive(w)
        \/ NewSnapshot(w)
        \/ \E s \in 0..MaxSnapshot : IndexRewritten(w, s)

Next ==
    \/ \E p \in Procs : Progress(p) \/ Heartbeat(p) \/ Retrying(p) \/ Mishap(p)
    \/ Environment

Spec == Init /\ [][Next]_vars

(***************************************************************************)
(* Workers and the controller are rescheduled for ever and every command   *)
(* runs to its end unless the process dies; clocks advance.  The first     *)
(* heartbeat comes a full interval after the claim, so it does not beat    *)
(* the immediate ready-index check of every claim for ever.  Heartbeats,   *)
(* operators and mishaps owe nothing.                                      *)
(***************************************************************************)
Fairness ==
    /\ \A p \in Workers \cup Controllers : WF_vars(Progress(p))
    /\ \A p \in Workers : /\ WF_vars(hb[p] = "orphan" /\ HeartbeatWrite(p))
                           /\ SF_vars(hb[p] = "on" /\ ReadyCheck(p))
    /\ \A w \in Wikis : WF_vars(BackoffElapses(w)) /\ WF_vars(LeaseExpires(w))

FairSpec == Spec /\ Fairness

-----------------------------------------------------------------------------
(* Properties.                                                             *)

QueueTypeOK ==
    /\ pending \in [Wikis -> Task \cup {None}]
    /\ leaseDir \subseteq Wikis
    /\ owner \in [Wikis -> Claim \cup {None}]
    /\ notified \subseteq Wikis \X Snapshots
    /\ completed \subseteq Wikis \X Snapshots
    /\ quarantine \subseteq Task

WorldTypeOK ==
    /\ readyIndex \in [Wikis -> 0..MaxSnapshot]
    /\ upstream \in [Wikis -> Snapshots]
    /\ faults \in 0..MaxFaults
    /\ tries \in [Wikis -> [Snapshots -> 0..MaxAttempts]]
    /\ validated \subseteq Wikis \X Snapshots
    /\ overtaken \in [Wikis -> BOOLEAN]

ProcTypeOK ==
    /\ pc \in [Procs -> Labels]
    /\ cmd \in [Procs -> Cmds]
    /\ scan \in [Procs -> SUBSET Wikis]
    /\ dir \in [Procs -> Wikis \cup {None}]
    /\ victim \in [Procs -> Task \cup {None}]
    /\ view \in [Procs -> SUBSET Task]
    /\ job \in [Procs -> Task \cup {None}]
    /\ hb \in [Procs -> HbStates]

\* Every document in the queue is well formed (FleetTask::validate and
\* FleetClaim::validate would accept it) and every process is at a step of some
\* command.
TypeOK == QueueTypeOK /\ WorldTypeOK /\ ProcTypeOK

\* A ready notification, on which publication relies, exists only for a wiki
\* snapshot that the ready index really named at some time: fleet-complete
\* authenticates the index itself and does not trust the wrapper's exit status.
CompletionAuthenticated == notified \subseteq validated

\* A completion receipt is never on disk without its ready notification, at
\* whatever point fleet-complete was interrupted (completed_evidence_valid
\* reads both, and a receipt alone would leave a task that nobody announced).
EvidenceOrdered == completed \subseteq notified

\* A task is quarantined for its retry limit only after MaxAttempts leases were
\* really published for it: processes that recover the same expired lease, or a
\* resurrected one, never charge one attempt twice.
BudgetHonoured ==
    \A t \in quarantine : tries[t.wiki][t.snap] >= MaxAttempts

\* The worker that holds a wiki is of the resource class its task has on file
\* now, through rewrites by discovery, failures, recoveries, defers, retries and
\* late heartbeats (a monthly task in a small pod would exceed its ceiling).  The
\* code lets a reclassification pass a worker in two windows only: it is written
\* while a copy of the task is loose (listed and not leased yet, being recovered
\* or given back), or while a lease appears between discovery's look at leases/
\* and its write.
LeasedByClassOnFile ==
    \A w \in Wikis :
        owner[w] # None /\ pending[w] # None /\ ~overtaken[w]
            => WorkerClass[owner[w].worker] = pending[w].class

\* The newest upstream snapshot of a wiki becomes ready, or is overtaken,
\* whatever crash, expiry or failed preparation the retry path has to absorb.
Delivered ==
    \A w \in Wikis, s \in Snapshots :
        (upstream[w] = s) ~> (<<w, s>> \in validated \/ upstream[w] > s)
=============================================================================
