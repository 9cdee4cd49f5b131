--------------------------- MODULE RefreshPipeline ---------------------------
(***************************************************************************)
(* Refresh jobs on Toolforge: full refreshes and the stages of the low-    *)
(* memory pipeline, each in a pod of its own, coordinated through the      *)
(* shared file system alone.  run-refresh.sh takes the short admission     *)
(* lock, refuses incompatible jobs, takes its own lock and keeps a         *)
(* heartbeat; pipeline-state.cjs is the dependency gate between stages.    *)
(*                                                                         *)
(* A command of pipeline-state.cjs is one step, under a lock that is broken *)
(* after two minutes; it may also give up after half a minute's wait for   *)
(* the lock of a command that was killed, and then it has no effect.       *)
(***************************************************************************)
EXTENDS Integers, Sequences, FiniteSets

CONSTANTS
    MaxRuns,       \* bound: jobs, started in order
    MaxAlive,      \* bound: pods at a time
    MaxFaults,     \* bound: kills, and writes or commands that fail
    MaxAttempts,   \* attempts of acquire_refresh_lock
    KindsOf,       \* the kinds of job each run may be
    Recurring,     \* runs the scheduler starts again whenever they have ended
    Compute,       \* the compute stages of the pipeline
    StageLimit,    \* parallelStageCapacity
    RecheckValues  \* is WIKI_ECON_REFRESH_LOCK_RECHECK_SECS in the environment?

Runs == 1..MaxRuns
Stages == {"ingest", "publish"} \cup Compute
Kinds == Stages \cup {"all"}

ASSUME ConstantsAssumption ==
    /\ MaxRuns \in Nat /\ MaxAlive \in Nat /\ MaxFaults \in Nat
    /\ MaxAttempts \in Nat \ {0} /\ StageLimit \in Nat \ {0}
    /\ Compute \subseteq {"lifecycle", "metrics", "page-week", "patrol"}
    /\ KindsOf \in [Runs -> SUBSET Kinds]
    /\ Recurring \subseteq Runs
    /\ RecheckValues \subseteq BOOLEAN

VARIABLES
    job,      \* each run: its place in run-refresh.sh and its shell variables
    lock,     \* the owner of .refresh-lock ("all") and .refresh-lock-<stage>
    adm,      \* the owner of .refresh-admission-lock
    expired,  \* runs whose last heartbeat is older than the stale threshold
    st,       \* .pipeline-state.json: generation, active stages, receipts
    art,      \* the generation of each compute stage's artifacts, and whether
              \* the owner of the stage's lease wrote them
    recheck,  \* the environment has WIKI_ECON_REFRESH_LOCK_RECHECK_SECS
    faults,   \* faults so far
    robbed,   \* history: the admission lock was moved away from a live run
    unrecorded  \* history: runs that gave their lock up with their stage running

vars == <<job, lock, adm, expired, st, art, recheck, faults, robbed, unrecorded>>

None == 0
Orphan == -1  \* the admission lock of a run that is gone
Owner == Runs \cup {None}
Unseen == <<"all", None>>
Fresh == [kind |-> "all", pc |-> "new", attempt |-> 1, seen |-> Unseen, beat |-> "off",
          ok |-> FALSE, gen |-> None]
Blank == [s \in Stages |-> [status |-> "pending", run |-> None]]

PC == {"new", "admission", "contended", "break", "scan", "recheck", "move", "mkdir",
       "held", "own", "ownrecheck", "ownmove", "begin", "begun", "work", "finish", "release",
       "end", "dead"}

\* The type of the state; the active stages are those with a running entry.
TypeOK ==
    /\ job \in [Runs -> [kind : Kinds, pc : PC, attempt : 1..MaxAttempts,
                         seen : Kinds \X Owner, beat : {"off", "on", "silent", "term"},
                         ok : BOOLEAN, gen : Owner]]
    /\ lock \in [Kinds -> Owner] /\ adm \in Owner \cup {Orphan}
    /\ expired \in SUBSET Runs
    /\ st \in [gen : Owner, active : SUBSET Stages,
               stages : [Stages -> [status : {"pending", "running", "succeeded", "failed"},
                                    run : Owner]]]
    /\ art \in [Compute -> [gen : Owner, leased : BOOLEAN]]
    /\ \A s \in Stages : s \in st.active <=> st.stages[s].status = "running"
    /\ recheck \in BOOLEAN /\ faults \in 0..MaxFaults /\ robbed \in BOOLEAN
    /\ unrecorded \in SUBSET Runs

Init ==
    /\ job = [r \in Runs |-> Fresh]
    /\ lock = [k \in Kinds |-> None]
    /\ adm = None
    /\ expired = {}
    /\ st = [gen |-> None, active |-> {}, stages |-> Blank]
    /\ art = [s \in Compute |-> [gen |-> None, leased |-> TRUE]]
    /\ recheck \in RecheckValues
    /\ faults = 0 /\ robbed = FALSE /\ unrecorded = {}

-----------------------------------------------------------------------------
(* Jobs and their faults. *)

At(r, place) == job[r].pc = place
Alive(r) == job[r].pc \notin {"new", "end", "dead"}
Pipeline(r) == job[r].kind # "all"
Goto(r, next) == job' = [job EXCEPT ![r].pc = next]
End(r) == job' = [job EXCEPT ![r] = [Fresh EXCEPT !.pc = "end"]]
Holds(r) == (\E k \in Kinds : lock[k] = r) \/ (\E s \in st.active : st.stages[s].run = r)

\* A stage after the ingest reads its wikis from the pipeline state before
\* anything else and ends when there is none.  (A recurring run comes back under
\* its name, a new one in the code, once nothing on disk bears it.)
Start(r, k) ==
    /\ At(r, "new") \/ (r \in Recurring /\ At(r, "end") /\ ~Holds(r))
    /\ \A q \in Runs : q < r => ~At(q, "new")
    /\ Cardinality({q \in Runs : Alive(q)}) < MaxAlive
    /\ IF k \in Stages \ {"ingest"} /\ st.gen = None
       THEN End(r)
       ELSE job' = [job EXCEPT ![r] = [Fresh EXCEPT !.kind = k, !.pc = "admission"]]
    /\ expired' = expired \ {r}
    /\ UNCHANGED <<lock, adm, st, art, recheck, faults, robbed, unrecorded>>

\* Eviction of the pod: nothing is cleaned up.  (Recurring runs are spared: their
\* later incarnations would be runs of their own.)
Kill(r) ==
    /\ Alive(r) /\ r \notin Recurring
    /\ faults < MaxFaults
    /\ faults' = faults + 1
    /\ job' = [job EXCEPT ![r] = [Fresh EXCEPT !.pc = "dead"]]
    /\ adm' = IF adm = r THEN Orphan ELSE adm
    /\ UNCHANGED <<lock, expired, st, art, recheck, robbed, unrecorded>>

\* Six hours without a heartbeat of a run that is gone or no longer beats.
Expire(r) ==
    /\ Holds(r) /\ r \notin expired
    /\ At(r, "dead") \/ At(r, "end") \/ job[r].beat \in {"silent", "term"}
    /\ expired' = expired \cup {r}
    /\ UNCHANGED <<job, lock, adm, st, art, recheck, faults, robbed, unrecorded>>

\* The heartbeat of a run hangs for as long.
Hang(r) ==
    /\ Holds(r) /\ r \notin expired
    /\ job[r].beat = "on"
    /\ faults < MaxFaults
    /\ faults' = faults + 1
    /\ expired' = expired \cup {r}
    /\ UNCHANGED <<job, lock, adm, st, art, recheck, robbed, unrecorded>>

\* refresh_lock_is_stale.  Its test of the pid is for an owner in the same pod;
\* jobs have one each, and another process_identity.
Stale(name) == lock[name] \in expired

-----------------------------------------------------------------------------
(* acquire_refresh_admission_lock and release_refresh_admission_lock. *)

Admit(r) ==
    /\ At(r, "admission") /\ adm = None
    /\ adm' = r
    /\ Goto(r, "scan")
    /\ UNCHANGED <<lock, expired, st, art, recheck, faults, robbed, unrecorded>>

AdmissionBusy(r) ==
    /\ At(r, "admission") /\ adm # None
    /\ Goto(r, "contended")
    /\ UNCHANGED <<lock, adm, expired, st, art, recheck, faults, robbed, unrecorded>>

\* refresh_admission_lock_is_stale: older than two minutes, as only that of a run
\* that is gone gets, or gone itself since mkdir failed.
AdmissionStale(r) ==
    /\ At(r, "contended") /\ adm \in {None, Orphan}
    /\ Goto(r, "break")
    /\ UNCHANGED <<lock, adm, expired, st, art, recheck, faults, robbed, unrecorded>>

\* Another round after a pause, or the deadline.
AdmissionWait(r) ==
    /\ At(r, "contended") /\ adm # None
    /\ Goto(r, "admission") \/ End(r)
    /\ UNCHANGED <<lock, adm, expired, st, art, recheck, faults, robbed, unrecorded>>

\* mv takes whatever is there by now.
AdmissionMove(r) ==
    /\ At(r, "break")
    /\ adm' = None
    /\ robbed' = (robbed \/ adm \in Runs)
    /\ Goto(r, "admission")
    /\ UNCHANGED <<lock, expired, st, art, recheck, faults, unrecorded>>

Released(r) == IF adm = r THEN None ELSE adm

-----------------------------------------------------------------------------
(* acquire_refresh_lock, under the admission lock. *)

\* Mutant: a full refresh looks for no stage.
Conflicts_FullOnly(k) ==
    IF k = "all" THEN <<>>
    ELSE IF k = "ingest"
    THEN <<"all", "metrics", "lifecycle", "page-week", "patrol", "publish">>
    ELSE <<"all", "ingest">>

\* The locks a job of kind k is incompatible with, in the order of the scan.
Conflicts(k) ==
    IF k = "all"
    THEN <<"ingest", "lifecycle", "metrics", "page-week", "patrol", "publish">>
    ELSE IF k = "ingest"
    THEN <<"all", "metrics", "lifecycle", "page-week", "patrol", "publish">>
    ELSE <<"all", "ingest">>

\* The positions in that list of the locks that exist.
Held(k) == {i \in DOMAIN Conflicts(k) : Conflicts(k)[i] \in Kinds /\ lock[Conflicts(k)[i]] # None}

\* Only the first lock found is considered.  A stale one is looked at again
\* after WIKI_ECON_REFRESH_LOCK_RECHECK_SECS, which is an error under set -u
\* when the environment does not have it: the run ends in its admission lock.
Scan(r) ==
    /\ At(r, "scan")
    /\ \/ /\ Held(job[r].kind) = {}
          /\ Goto(r, "mkdir") /\ UNCHANGED adm
       \/ \E i \in Held(job[r].kind) :
             /\ \A j \in Held(job[r].kind) : i <= j
             /\ LET name == Conflicts(job[r].kind)[i]
                IN  \/ /\ ~Stale(name)
                       /\ adm' = Released(r)
                       /\ End(r)
                    \/ /\ Stale(name) /\ recheck
                       /\ job' = [job EXCEPT ![r].seen = <<name, lock[name]>>, ![r].pc = "recheck"]
                       /\ UNCHANGED adm
                    \/ /\ Stale(name) /\ ~recheck
                       /\ adm' = IF adm = r THEN Orphan ELSE adm
                       /\ End(r)
    /\ UNCHANGED <<lock, expired, st, art, recheck, faults, robbed, unrecorded>>

\* The same owner token and still stale, or a refusal.
Recheck(r) ==
    /\ At(r, "recheck")
    /\ LET found == job[r].seen
       IN  IF lock[found[1]] = found[2] /\ Stale(found[1])
           THEN Goto(r, "move") /\ UNCHANGED adm
           ELSE End(r) /\ adm' = Released(r)
    /\ UNCHANGED <<lock, expired, st, art, recheck, faults, robbed, unrecorded>>

\* mv succeeds when there is a lock, whosever it is; the scan is not repeated.
Move(r) ==
    /\ At(r, "move")
    /\ LET name == job[r].seen[1]
       IN  IF lock[name] # None
           THEN lock' = [lock EXCEPT ![name] = None] /\ Goto(r, "mkdir") /\ UNCHANGED adm
           ELSE End(r) /\ adm' = Released(r) /\ UNCHANGED lock
    /\ UNCHANGED <<expired, st, art, recheck, faults, robbed, unrecorded>>

Mkdir(r) ==
    /\ At(r, "mkdir")
    /\ IF lock[job[r].kind] = None
       THEN lock' = [lock EXCEPT ![job[r].kind] = r] /\ Goto(r, "held") /\ UNCHANGED adm
       ELSE adm' = Released(r) /\ Goto(r, "own") /\ UNCHANGED lock
    /\ UNCHANGED <<expired, st, art, recheck, faults, robbed, unrecorded>>

\* The admission lock is released, owner token and metadata are written, the
\* run record and the heartbeat loop start.
Enter(r) ==
    /\ At(r, "held")
    /\ adm' = Released(r)
    /\ job' = [job EXCEPT ![r].beat = "on",
                          ![r].pc = IF Pipeline(r) THEN "begin" ELSE "work"]
    /\ UNCHANGED <<lock, expired, st, art, recheck, faults, robbed, unrecorded>>

\* The metadata cannot be written: the lock goes again.
EnterFails(r) ==
    /\ At(r, "held")
    /\ faults < MaxFaults
    /\ faults' = faults + 1
    /\ adm' = Released(r)
    /\ lock' = [lock EXCEPT ![job[r].kind] = None]
    /\ End(r)
    /\ UNCHANGED <<expired, st, art, recheck, robbed, unrecorded>>

(* The run's own lock exists: recovery outside of the admission lock. *)

Own(r) ==
    /\ At(r, "own")
    /\ LET name == job[r].kind
       IN  IF Stale(name)
           THEN job' = [job EXCEPT ![r].seen = <<name, lock[name]>>, ![r].pc = "ownrecheck"]
           ELSE End(r)
    /\ UNCHANGED <<lock, adm, expired, st, art, recheck, faults, robbed, unrecorded>>

OwnRecheck(r) ==
    /\ At(r, "ownrecheck")
    /\ LET name == job[r].kind
       IN  IF lock[name] = job[r].seen[2] /\ Stale(name) THEN Goto(r, "ownmove") ELSE End(r)
    /\ UNCHANGED <<lock, adm, expired, st, art, recheck, faults, robbed, unrecorded>>

OwnMove(r) ==
    /\ At(r, "ownmove")
    /\ lock' = [lock EXCEPT ![job[r].kind] = None]
    /\ IF job[r].attempt < MaxAttempts
       THEN job' = [job EXCEPT ![r].attempt = @ + 1, ![r].seen = Unseen,
                               ![r].pc = "admission"]
       ELSE End(r)
    /\ UNCHANGED <<adm, expired, st, art, recheck, faults, robbed, unrecorded>>

-----------------------------------------------------------------------------
(* pipeline-state.cjs *)

Prerequisites(s) ==
    CASE s = "ingest" -> {}
      [] s \in Compute -> {"ingest"}
      [] s = "publish" -> Compute

\* Mutant: an expired stage stays running.
Recovered_StillRunning ==
    [st EXCEPT !.active = {s \in @ : st.stages[s].run \notin expired}]

\* recoverStaleStages
Recovered ==
    LET gone == {s \in st.active : st.stages[s].run \in expired}
    IN  [st EXCEPT !.active = @ \ gone,
                   !.stages = [s \in Stages |-> IF s \in gone
                                                THEN [@[s] EXCEPT !.status = "failed"]
                                                ELSE @[s]]]

\* Mutant: a compute stage does not look for one of its own kind.
Admissible_Duplicates(s, d) ==
    IF s = "ingest" THEN d.active = {}
    ELSE /\ d.gen # None
         /\ \A p \in Prerequisites(s) : d.stages[p].status = "succeeded"
         /\ IF s \in Compute
            THEN d.active \subseteq Compute /\ Cardinality(d.active) < StageLimit
            ELSE d.active = {}

\* What begin requires of the recovered state.
Admissible(s, d) ==
    IF s = "ingest" THEN d.active = {}
    ELSE /\ d.gen # None
         /\ s \notin d.active
         /\ \A p \in Prerequisites(s) : d.stages[p].status = "succeeded"
         /\ IF s \in Compute
            THEN /\ d.active \subseteq Compute
                 /\ d.active # {} => \A q \in Stages : d.stages[q].status # "failed"
                 /\ Cardinality(d.active) < StageLimit
            ELSE d.active = {}

\* Mutant: a new generation keeps the receipts of the old one.
Generation_Kept(r, d) == IF job[r].kind = "ingest" THEN [d EXCEPT !.gen = r] ELSE d

\* A new ingest starts a generation and invalidates all receipts.
Generation(r, d) ==
    IF job[r].kind = "ingest" THEN [gen |-> r, active |-> {}, stages |-> Blank] ELSE d

\* begin; what it recovered stays written when it then refuses.
Begin(r) ==
    /\ At(r, "begin")
    /\ LET s == job[r].kind
           d == Generation(r, Recovered)
       IN  IF Admissible(s, Recovered)
           THEN /\ st' = [d EXCEPT !.active = @ \cup {s},
                                   !.stages[s] = [status |-> "running", run |-> r]]
                /\ job' = [job EXCEPT ![r].gen = d.gen, ![r].pc = "begun"]
           ELSE st' = Recovered /\ Goto(r, "release")
    /\ UNCHANGED <<lock, adm, expired, art, recheck, faults, robbed, unrecorded>>

\* Cleanup, the resolution of the snapshot or the command itself fails, or TERM
\* comes before it.
GiveUp(r) ==
    /\ At(r, "begin")
    /\ Goto(r, "release")
    /\ UNCHANGED <<lock, adm, expired, st, art, recheck, faults, robbed, unrecorded>>

Entry(r) == st.stages[job[r].kind]

\* The run owns its stage: what heartbeat, complete and fail require.
Leased(r) == job[r].kind \in st.active /\ Entry(r) = [status |-> "running", run |-> r]

Unrecorded(r) == IF Leased(r) THEN unrecorded \cup {r} ELSE unrecorded

\* pipeline-stage-active is written into the run's lock, and
\* PIPELINE_STAGE_ACTIVE set.
Activate(r) ==
    /\ At(r, "begun")
    /\ job[r].beat # "term" /\ lock[job[r].kind] # None
    /\ Goto(r, "work")
    /\ UNCHANGED <<lock, adm, expired, st, art, recheck, faults, robbed, unrecorded>>

\* TERM came while begin ran, the lock is gone, or the answer or the file fails:
\* the EXIT trap finds PIPELINE_STAGE_ACTIVE unset and lets the stage be.
ExitBegun(r) ==
    /\ At(r, "begun")
    /\ \/ /\ job[r].beat = "term" \/ lock[job[r].kind] = None
          /\ UNCHANGED faults
       \/ faults < MaxFaults /\ faults' = faults + 1
    /\ unrecorded' = Unrecorded(r)
    /\ Goto(r, "release")
    /\ UNCHANGED <<lock, adm, expired, st, art, recheck, robbed>>

\* heartbeat refuses a lease that is lost; an ingest it does not know is let be.
Revoked(r) ==
    /\ ~Leased(r)
    /\ \/ job[r].kind # "ingest"
       \/ "ingest" \in st.active
       \/ Entry(r) = [status |-> "failed", run |-> r]

\* Mutant: the stage of a failed run stays running.
Finish_FailureKept(r) ==
    /\ At(r, "finish")
    /\ st' = IF Pipeline(r) /\ Leased(r) /\ job[r].ok
             THEN [st EXCEPT !.active = @ \ {job[r].kind},
                             !.stages[job[r].kind].status = "succeeded"]
             ELSE st
    /\ Goto(r, "release")
    /\ UNCHANGED <<lock, adm, expired, art, recheck, faults, robbed, unrecorded>>

\* finish_pipeline_stage: complete or fail, without effect for a lost lease.
Finish(r) ==
    /\ At(r, "finish")
    /\ st' = IF Pipeline(r) /\ Leased(r)
             THEN [st EXCEPT !.active = @ \ {job[r].kind},
                             !.stages[job[r].kind].status =
                                 IF job[r].ok THEN "succeeded" ELSE "failed"]
             ELSE st
    /\ Goto(r, "release")
    /\ UNCHANGED <<lock, adm, expired, art, recheck, faults, robbed, unrecorded>>

\* complete fails, and then fail takes effect or fails as well; fail alone fails.
FinishFails(r) ==
    /\ At(r, "finish") /\ Pipeline(r) /\ Leased(r)
    /\ faults < MaxFaults
    /\ faults' = faults + 1
    /\ \/ /\ job[r].ok
          /\ st' = [st EXCEPT !.active = @ \ {job[r].kind},
                              !.stages[job[r].kind].status = "failed"]
          /\ UNCHANGED unrecorded
       \/ unrecorded' = Unrecorded(r) /\ UNCHANGED st
    /\ Goto(r, "release")
    /\ UNCHANGED <<lock, adm, expired, art, recheck, robbed>>

-----------------------------------------------------------------------------
(* The refresh driver, its heartbeat and the EXIT trap. *)

\* The driver replaces the artifacts of its stage, a full refresh those of all.
Writes(r) == IF Pipeline(r) THEN Compute \cap {job[r].kind} ELSE Compute

\* TERM is handled when the driver has ended: its work is done, the run fails.
Work(r, wrote, good) ==
    /\ At(r, "work")
    /\ job[r].beat = "term" => ~good
    /\ good => wrote
    /\ art' = [s \in Compute |->
                  IF wrote /\ s \in Writes(r)
                  THEN [gen |-> job[r].gen, leased |-> Pipeline(r) /\ Leased(r)]
                  ELSE art[s]]
    /\ job' = [job EXCEPT ![r].ok = good, ![r].beat = "off", ![r].pc = "finish"]
    /\ UNCHANGED <<lock, adm, expired, st, recheck, faults, robbed, unrecorded>>

\* The heartbeat loop, which starts before begin, ends: silently when the lock is
\* another's, with TERM when it cannot write or, once pipeline-stage-active is
\* there, when the coordinator has revoked the lease.
Heartbeat(r) ==
    /\ job[r].pc \in {"begin", "begun", "work"} /\ job[r].beat = "on"
    /\ \/ /\ lock[job[r].kind] # r
          /\ job' = [job EXCEPT ![r].beat = "silent"]
          /\ UNCHANGED faults
       \/ /\ lock[job[r].kind] = r
          /\ faults < MaxFaults
          /\ faults' = faults + 1
          /\ job' = [job EXCEPT ![r].beat = "term"]
       \/ /\ lock[job[r].kind] = r
          /\ At(r, "work") /\ Pipeline(r) /\ Revoked(r)
          /\ job' = [job EXCEPT ![r].beat = "term"]
          /\ UNCHANGED faults
    /\ UNCHANGED <<lock, adm, expired, st, art, recheck, robbed, unrecorded>>

\* A heartbeat that hung goes on before anything was taken from the run; one whose
\* lease is gone counts as expired to the end.
Resume(r) ==
    /\ job[r].pc \in {"begin", "begun", "work"} /\ job[r].beat = "on"
    /\ r \in expired /\ lock[job[r].kind] = r
    /\ Pipeline(r) /\ ~At(r, "begin") => Leased(r)
    /\ expired' = expired \ {r}
    /\ UNCHANGED <<job, lock, adm, st, art, recheck, faults, robbed, unrecorded>>

\* release_refresh_lock, by owner token.
Release(r) ==
    /\ At(r, "release")
    /\ lock' = IF lock[job[r].kind] = r THEN [lock EXCEPT ![job[r].kind] = None] ELSE lock
    /\ End(r)
    /\ UNCHANGED <<adm, expired, st, art, recheck, faults, robbed, unrecorded>>

-----------------------------------------------------------------------------
Step(r) ==
    \/ Admit(r) \/ AdmissionBusy(r) \/ AdmissionStale(r) \/ AdmissionMove(r) \/ AdmissionWait(r)
    \/ Scan(r) \/ Recheck(r) \/ Move(r) \/ Mkdir(r) \/ Enter(r)
    \/ EnterFails(r)
    \/ Own(r) \/ OwnRecheck(r) \/ OwnMove(r)
    \/ Begin(r) \/ GiveUp(r) \/ Activate(r) \/ ExitBegun(r)
    \/ Finish(r) \/ FinishFails(r) \/ Release(r)
    \/ \E wrote, good \in BOOLEAN : Work(r, wrote, good)

Next == \E r \in Runs :
    \/ \E k \in KindsOf[r] : Start(r, k)
    \/ Step(r) \/ Heartbeat(r) \/ Hang(r) \/ Resume(r) \/ Expire(r) \/ Kill(r)

Spec == Init /\ [][Next]_vars

\* Jobs are scheduled and their steps taken; a job that comes back finds an
\* abandoned admission lock older than two minutes some day.
FairSpec ==
    /\ Spec
    /\ \A r \in Runs :
          /\ WF_vars(\E k \in KindsOf[r] : Start(r, k))
          /\ WF_vars(Step(r)) /\ WF_vars(Expire(r)) /\ SF_vars(AdmissionStale(r))

-----------------------------------------------------------------------------
(* Properties. *)

Working(r) == job[r].pc \in {"begin", "begun", "work", "finish"}

\* README.md: "a full refresh refuses to start while any pipeline stage owns a
\* lock, and pipeline stages refuse to start while a full refresh owns its lock".
\* Both work at a time only when one has lost its lock, when the admission lock
\* was broken, or when the full refresh has recovered a stale lock of another
\* stage, after which it looks for no further one.
Dispossessed(r) == lock[job[r].kind] # r
ModesExclude ==
    \A r, q \in Runs :
        (Working(r) /\ Working(q) /\ ~Pipeline(r) /\ Pipeline(q)) =>
            robbed \/ Dispossessed(r) \/ Dispossessed(q) \/ job[r].seen # Unseen

\* Two runs of one stage work at a time only when one has let its lease expire:
\* the lock alone does not see to it, since two recoveries of a stale lock may
\* race and the second take the lock of the first, but the coordinator does.
StageExclusive ==
    \A r, q \in Runs :
        (r # q /\ At(r, "work") /\ At(q, "work") /\ Pipeline(r)
               /\ job[r].kind = job[q].kind) =>
            r \in expired \/ q \in expired

\* A publishing stage joins artifacts of its own generation: whatever else it
\* finds was written by a full refresh or by a run that had outlived its lease
\* (README.md: "ties its receipts to one ingest->publish generation").
JoinCoherent ==
    \A r \in Runs : (job[r].kind = "publish" /\ At(r, "work") /\ Leased(r)) =>
        \A s \in Compute : art[s].gen = job[r].gen \/ ~art[s].leased

\* A run that ends by itself leaves no lock behind, however it fails
\* (run-refresh.test.cjs: "failure records status and never strands the owned
\* lock").  Its stage it leaves running only if it gave the lock up in one of two
\* windows: between begin and PIPELINE_STAGE_ACTIVE=1, or with neither complete
\* nor fail recorded; then until the lease expires.
StrandedOnlyUnrecorded ==
    \A r \in Runs : At(r, "end") =>
        /\ \A k \in Kinds : lock[k] # r
        /\ \A s \in st.active : st.stages[s].run = r => r \in unrecorded

\* run-refresh.test.cjs: "a demonstrably stale cross-job lock is recovered", once
\* its owner is gone and other jobs keep being scheduled.
CrossJobLockRecovered ==
    \A r \in Runs, k \in Kinds : (At(r, "dead") /\ lock[k] = r) ~> lock[k] # r
=============================================================================
