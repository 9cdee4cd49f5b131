# wiki-economics: TLA+ models and proofs

`wiki-econ` prepares monthly snapshots of Wikimedia dumps for a set of wikis,
computes metrics from them and publishes a static site. Everything durable is a
tree of files on shared NFS. There is no daemon and no database: many short
commands (the Rust CLI, shell wrappers and Node helpers, started by Toolforge
jobs in separate pods) read and replace files in that tree, and may be killed
at any point. What is hard about the system is therefore what happens *between*
the file operations of different commands, and that is what these modules model.

## 1. Inventory

| Part | State | Operations | What makes it correct |
| --- | --- | --- | --- |
| Fleet queue (`src/fleet.rs`, `run-fleet-worker.sh`, `run-fleet-controller.sh`) | `pending/`, `leases/`, `completed/`, `notifications/`, `quarantine/` | claim, heartbeat, complete, defer, fail, enqueue, recover, retry | one worker per wiki, no attempt charged twice, only validated snapshots announced, every snapshot delivered |
| Directory lock (`run-with-lock.sh`) | lock directory, owner token, heartbeat file | acquire, stale takeover, heartbeat, release | mutual exclusion, a dead holder's lock is recovered |
| Refresh admission (`run-refresh.sh`) | admission lock, one lock directory per kind of job | admit full refresh, admit stage, recover stale locks | full refresh and stages exclude each other |
| Candidate preparation (`prepare-wiki-transaction.sh`, `orchestration.rs`) | candidate directory, stage receipts | the stages of one wiki | a candidate is ready only when all stages are |
| Generation lifecycle (`generation_lifecycle.rs`) | one state document per generation | begin, transition, retire | what is served is never retired, by whatever race |
| Publication (`publication.rs`, `publish-ready-transaction.sh`, `build-site.sh`) | journal, ready index, active pointers, site link | select, activate, commit, roll back, recover | what is live belongs to one selection, across crashes |
| Source window (`source_window.rs`, `ingest.rs`, `storage.rs`) | staged inputs, per-object markers, manifests, current-snapshot pointer | download, validate, ingest, commit, release | every object ingested once, at most a window on disk |
| Resource governor (`resource_governor.rs`) | permits, reservations | acquire, release | limits respected, no permit leaked |
| Compaction (`compaction.rs`) | fragments, replacement journal | compact, recover | no row lost or doubled |
| Fetch (`fetch.rs`) | partial files, validators | download, resume, retry | no mixture of two versions of an object |
| Retention, cleanup, migration (`retention.rs`, `cleanup.rs`, `retained_*_migration.rs`) | retention receipts, candidates and input generations | authorize, purge, retire, migrate | nothing served is deleted, and it can be authenticated after its inputs are gone |
| Patrol metrics (`patrol/*.rs`, `cross_snapshot.rs`) | source plan, generation of logs, cached months, rights checkpoints | pin, download, index, advance, compute | the incremental result equals one computed from nothing |
| Pipeline state (`pipeline-state.cjs`) | generation, active stages, stage receipts | begin, heartbeat, complete, fail | stages run in order and publish joins one generation |
| Capacity admission, admin dispatcher (`*.cjs`) | leases, operation queue | admit, dispatch | capacity limit, each operation once |
| Metrics, merge, receipts, fingerprints | data frames, hashes | compute, hash, compare | values; left to the code's own parity tests |
| Admin server, machine API, site | none of their own | serve | read the state of the others |

How they interact: discovery compares the newest upstream snapshot with the
*ready index* and enqueues a task; a worker leases it and runs the preparation
wrapper under the wiki's *directory lock*; preparation ends by replacing the
ready index; the worker's `fleet-complete` reads the index back, and the
publisher selects from it under the global publication lock.

Hard behaviours, in one sentence each (PROJECT.json lists them with their
lines): check-then-act on files, commands killed between two writes, leases and
locks that expire under a live holder, heartbeats that write after the thing
they refresh is gone, listings older than the state they are used on.

## 2. Plan

| Module | Components | State of the work |
| --- | --- | --- |
| `FleetQueue`, `FleetQueueProofs` | queue, worker, controller | checked and proved (section 3) |
| `DirectoryLock`, `DirectoryLockProofs` | directory lock | checked and proved (section 4) |
| `Publication` implements `PublishedSite`, `PublicationProofs` | publication, generation records, ready index, merge, site receipt | checked and proved (section 5) |
| `SourceWindow` implements `SnapshotIngest`, `SourceWindowProofs` | source window, fetch, ingest, compaction, governor | checked and proved (section 6) |
| `RefreshPipeline`, `RefreshPipelineProofs` | refresh admission, pipeline state | checked and proved (section 7) |
| `CandidateStore`, `CandidateStoreProofs` | preparation, lifecycle, retention, cleanup, migration | checked and proved (section 8) |
| `PatrolMonths`, `PatrolMonthsProofs` | patrol generations, rights checkpoints, cross-snapshot cache | checked and proved (section 9) |

`NaturalSets` holds two lemmas the proofs of sections 5, 6, 8 and 9 share: a nonempty
set of naturals has a least element and, if bounded, a greatest one. They come
from the well-founded order on finite sets, because the induction theorems of the
library cannot be instantiated.

Every invariant and action property that a run checks, and both refinements, are
proved; section 10 says what remains with TLC.

The components do not share variables in the models. They meet at documents, and
what one module takes as a step another one takes apart:

* the ready index is an environment variable of `FleetQueue`, and state of
  `CandidateStore` and `Publication`;
* a preparation is an exit status for `FleetQueue`, a handful of writes for
  `CandidateStore`; its source stage is `SourceWindow`, its patrol stages are
  `PatrolMonths`;
* a commit of the publication is a walk over the disk in `Publication` and two
  steps in `CandidateStore`, which adds everybody else who deletes;
* "one publisher at a time", "one preparation of a wiki at a time" is what
  `DirectoryLock` is for. Section 4 says when the lock does not deliver it.

## 3. The fleet queue

### `FleetQueue`

One action is one file-system operation, because the code has no lock around
the queue: the commands of any two processes interleave between any two
operations, and `Crash` may follow any of them.

* `pending`, `leaseDir`, `owner`, `notified`, `completed` and `quarantine` are
  the directories of the queue. `owner` and `leaseDir` are separate because the
  code creates the lease with `mkdir` and publishes `owner.json` later, and
  because `remove_dir_all` is an unlink followed by a rmdir.
* `pc` and `cmd` say where each process is. `Recovery` is `recover_stale_at`,
  which opens every claim and every enqueue; `fail_claim_at` is `FailRetry`,
  `FailQuarantine`, `DropPending`, `UnlinkOwner` and `RemoveLeaseDir`, shared by
  recovery and `fleet-fail`; the tail of `complete` shares the last three and
  the tail of `defer` the last two.
* `hb` is the worker's heartbeat loop: a check (`ensure!` on the live owner) and
  a write. Killing the loop does not kill a `fleet-heartbeat` in progress
  (`orphan`). A heartbeat that has lost the lease sends TERM, which bash handles
  when the foreground command has ended (`AfterPrepare`, `Released`).
* `readyIndex`, `upstream` and the preparation wrapper are the environment:
  the wrapper is seen through its exit status (0, 75, anything else) and what it
  leaves in the index.
* `tries`, `validated` and `overtaken` are history variables for the properties.

Abstractions. Time: a task is due or not, a heartbeat is stale or not
(`BackoffElapses`, `LeaseExpires`; a lease expires under a heartbeating worker
only as a fault). A lease identity is its worker and task: a worker instance has
a unique name and finishes an orphaned heartbeat before it claims again.
Classification is any class. Receipts that nothing reads (`failures/`,
`deferred/`, `superseded/`, `retried/`, `ambiguous-*`) are left out.
`CompleteCheck` reads the owner and the index in one step, and a listing of
`pending/` is one step. Document validation never fails on documents the queue
wrote itself; that is the theorem `TypeCorrect`. `MaxAttempts` is one number: claim
and enqueue recover with `DEFAULT_MAX_ATTEMPTS` (`fleet.rs:303`, 417), `fleet-fail`
takes `WIKI_ECON_FLEET_MAX_ATTEMPTS` (`run-fleet-worker.sh:55`, 142), and the
budget of a queue configured otherwise is the smaller of the two.

### Runs

| Run | Instance | Shows |
| --- | --- | --- |
| `fleet_faults` | worker, controller, operator, 2 attempts, 1 fault | `TypeOK`, `BudgetHonoured`, `EvidenceOrdered` with a crash, failed write, stall, hollow preparation or index rewrite at any point |
| `fleet_snapshots` | small worker, controller, 2 classes, 2 snapshots, 1 fault | `LeasedByClassOnFile` under reclassification, `CompletionAuthenticated` across snapshots |
| `fleet_delivery` | worker, controller, 3 attempts, 2 faults, fairness | `Delivered` |

Bounds. One wiki is enough for these questions: every command works on the
files of one wiki, except the scan, which visits leases one by one and can only
be ended by another wiki's lease; the proofs cover any number. Two attempts are
the least with both a retry and a quarantine; worker, controller and operator
are three processes that may recover one lease at once. A
fault is any adverse event, and one places it at every point of every command;
`fleet_delivery` allows as many faults as the retry budget absorbs (with three
faults and three attempts the task may be quarantined, which is the design).
`Delivered` is checked for one snapshot: with two, the lease of observation 2 can
block the queue for ever, and recovery passes that quarantine every lease in its
`mkdir` window could go on doing so for ever.
The runs end in no deadlock: some process can always act.

`LeasedByClassOnFile` compares the class of the worker that holds a wiki with the
class that is in `pending/` now, not with the copy in its lease. The code lets them
differ in two situations, and `overtaken` remembers a wiki for which one occurred:
discovery or a retry rewrites the class while a copy of the task is loose (listed by
a claim and not leased yet, in the hands of a recovery or of a defer, or about to be
written by a heartbeat: `LooseCopies`), or a lease appears between discovery's look at
`leases/` and its write (`RewriteUnderway`). The second is why `overtaken` is kept
while the lease lasts. What the property excludes is that a worker gets or keeps a
task of another class in any other way: through a rewrite while the wiki is leased, a
failure, a recovery, a retry or a late heartbeat.

Fairness. Toolforge starts workers and the controller again on schedule and a
command in progress runs to its end unless it dies, which is weak fairness of
`Progress`; clocks advance (`BackoffElapses`, `LeaseExpires`). Strong fairness
is assumed for one step only, the worker's ready-index check right after a
claim: it competes with a heartbeat whose first turn comes a whole interval
later, so it cannot lose that race on every claim. Heartbeats, operators and
faults are not assumed to happen.

### Proofs: `FleetQueueProofs`

Five theorems, for every value of the constants that satisfies the assumptions
of `FleetQueue`.

* `TypeCorrect`. `TypeOK` is not inductive: a step that uses `job`, `dir` or
  `victim` needs to know that there is one. `ControlOK` ties the program counter
  to the command and its operands; `TypeInv` is both. One step per action in
  `StoreStep` (documents) and `ProcStep` (control).
* `NotificationsAuthentic`, `ReceiptsAnnounced` from `EvidenceInv`, which also
  says what a process between the check and the receipt has established.
* `ClassOnFileHolds` from `ClassInv` and `FileInv`. What a worker lists and holds is of
  its class (`ClassInv`), but that says nothing of the task on file. `FileInv` does:
  unless the wiki was overtaken, all copies of its task, on file, leased or loose
  (`Held`), are of one class, and whoever is about to rewrite a wiki that has been
  leased meanwhile writes that class. The same class has to be claimed of the loose
  copies, because any of them may become the one on file or the leased one.
* `RetryBudget` from `BudgetInv`: every unleased copy of a task (pending, listed,
  held) has at most as many attempts as leases published for it (`Paid`), every
  leased copy fewer (`Charged`). That is why several processes failing one lease
  are harmless: they all add one to the same charged copy. `OperandsKept`,
  `LeasesKept` and `TasksKept` collect what the operations that only move a
  command on leave alone.

`Delivered` needs fairness and stays with TLC.

### Observations

1. The recovery pass treats a lease directory without `owner.json` as ambiguous at
   any age (`fleet.rs:784`), and the claim publishes `owner.json` after `mkdir`
   (`fleet.rs:438`, 461). Two workers can prepare one wiki without any fault,
   although `docs/fleet-scheduler.md:21` promises one; the preparation lock is
   then the only boundary left. The queue properties above hold all the same.
2. A lease at its last attempt without a pending file makes `fail_claim_at`
   return an error before it removes the lease; every later scan of every wiki
   stops there.
3. A claim uses a listing taken earlier and may lease a task that is pending no
   more (`Acquire` reads `view`, not `pending`), or is pending in another class by now:
   a worker of the small class may prepare a task that was reclassified after its
   listing. Rediscovery of a pending task writes it back with attempt 0 and no backoff
   (`fleet.rs:333`), where `docs/fleet-scheduler.md:16` calls it a no-op.

## 4. The directory lock

### `DirectoryLock`

One action is one file-system operation of `run-with-lock.sh`.

* `lockDir`, `token`, `owner` and `aged` are the lock directory, `owner-token`,
  the heartbeat in `owner.json` (absent, fresh, stale) and the directory's own
  age. All of it is addressed by path, as in the script: a write goes to
  whichever directory has the name at that moment, and fails when there is none.
* `pc`, `round` and `seen` are the acquisition: `mkdir`; on contention the
  staleness check, the token read twice, the second staleness check and the `mv`;
  three rounds at most.
* `hb` is the heartbeat loop, a token check and a write. `cleanup` kills the
  loop, not a write in progress, which may land later (`"orphan"`). A heartbeat
  that fails sends TERM, which bash handles after the foreground command, so the
  command goes on under a lock that ages.
* `stolen` is a history variable: some `mv` took a lock that its owner still
  attended.

Abstractions: `lock_is_stale` reads in one step; time is the change of `owner`
to stale and of `aged` to true, freely for an abandoned lock and only as a fault
(`LockStalls`) for one that is being refreshed; a name in `Procs` stands for a
new run (a new token) once nothing of the previous one is left. Left out:
argument checks, the moved-away directories, what the run record says.

### Runs

| Run | Instance | Shows |
| --- | --- | --- |
| `lock_recovery` | 2 runs, 2 faults, fairness | `TypeOK`, `HeldUnlessStolen`, `Recovered` |

Two runs are one holder and one that takes over, and names come back as new
runs, so a lock passes through many hands. `HeldUnlessStolen` is proved for any number. Fairness: the jobs are
started again on schedule, commands end, an abandoned lock ages, a write in
progress finishes.

### Proofs: `DirectoryLockProofs`

* `LockTypeCorrect`, with `RoundInv` (a run that is still acquiring has an
  attempt left), without which the round counter has no bound.
* `ExclusionUpToTakeover`, from `LockInv`. `HeldUnlessStolen` is not inductive: it
  says nothing of a run between `mkdir` and its token, or inside its cleanup, and
  those are the runs that write. `LockInv` adds that no token is on disk without
  a directory and that, unless a lock was stolen, at most one run attends the
  lock at any step and the disk shows its token from the write to the unlink.

`Recovered` needs fairness and stays with TLC.

### Observation

4. Two commands can run under one lock: that is the exception in
   `HeldUnlessStolen`. The second staleness check (`run-with-lock.sh:127`) and
   `mv` (132) are separate operations on a path. When two runs have both
   rechecked one stale lock, the slower `mv` moves away the lock the faster one
   has just made. A stale lock to start from needs no crash: an orphaned heartbeat
   write makes the `rmdir` of the cleanup fail.

## 5. Publication

### `Publication` and `PublishedSite`

One run of `publish-ready-transaction.sh` recovers what an earlier run left,
checks the index, moves links and snapshot pointers of all changed wikis, merges,
validates, builds and switches the site, and commits; a failure on the way rolls
back. One action is one durable write.

* Per wiki: `ready` and `inputs` (candidates with `ready.json`, complete input
  generations), `gen` (the generation records), `index`, `active` (the link),
  `snap` (the pointer), `backup` (the old link), `prep` (a preparation in
  progress, under the wiki's own lock and therefore at any time).
* The transaction: `journal` and `saved` (the copy of the previous artifacts).
* The publication: `root`, `cand`, `gate` (merged artifacts, candidate file,
  gate), `site`, `receipt`, and `siteNewer` for the comparison of modification
  times. A publication is identified by its run and the candidates it was merged
  from.
* The publisher: `pc` is the next write, `mode` says whose code runs it: the
  forward path (`publish`), recovery (`recover`), or the rollback of a failed
  activation, of a failed merge or validation, or of the wrapper (`activation`,
  `prepare`, `wrapper`). `Audit` is `audit_publication_transaction`, the decision
  between commit, rollback and giving up.

`PublishedSite` is what readers are promised: candidates are offered, and the
site moves, in one step for all wikis, to offered candidates no older than what
it showed. The mapping takes `offered` from the generation records and `served`
from `site.vec`; `ServesForward` is the refinement.

Faults. `crash`: the publisher or a preparation dies after any write. `fail`: an
operation of the forward path returns an error. `receipt`: recording the site
fails after the switch. `damage`: a merged artifact is no longer what the gate
recorded. `upgrade`: registry, code or site sources have changed, so that
unchanged candidates are merged again.

Abstractions. One publisher at a time (the lock). The merge always rewrites the
artifacts; the code may keep unchanged ones. The selection reads all wikis in
one step. A transition of a generation record loads, checks and writes in one step
(`generation_lifecycle.rs:155`); section 8 takes it apart where somebody else may come
in between. Copying the previous artifacts and writing the first journal are one
step (a transaction directory without `selection.json` is ignored), and so are
the last journal and the removal of the copies, and the removal of a candidate
directory. Only the newest journal is kept: older ones are terminal, or preflight
stops. `Preflight` has the blockers that the state can cause; those for drifted values,
the merge contract and a failed scrub (`publication.rs:4926`, 5025) are left out.
A run id is used again when nothing on disk carries it. `PrepBegin` stands
for all of ingest and computation. Left out: the reuse of a site that is already
current, the dashboard bundle, input retention by age, the first publication of
a wiki, adopted and migrated candidates, the deferring preflight, operator
commands. `Recover` has no branch for the outcomes "resume" and "incorporated" of
the audit: if either could happen here, the publisher would be stuck and TLC
would report a deadlock.

### Runs

| Run | Instance | Shows |
| --- | --- | --- |
| `publication_faults` | 2 wikis, 2 candidates each, 3 crashes, errors or failed receipts, fairness | `OnlyTwoBlindWindows`, `RollbackPossible`, `LiveDataKept`, `Converges` |
| `publication_rebuild` | 1 wiki, 3 candidates, two of one snapshot, 3 crashes, errors, damages or upgrades, fairness | `TypeOK`, `CommittedIsServed`, `Settled`, `ServesForward`, `Converges` |

Bounds. Two wikis are the least for which a transaction is partly done; three
candidates are the least for which one becomes ready while another is committed
with something to go back to. Three faults let a recovery die and its recovery
die again. Six run ids always leave a free one (TLC would find the deadlock).

`OnlyTwoBlindWindows` says where recovery cannot decide: between the candidate
file and the gate (`publication.rs:1098` to 7319), and between the site switch
and its receipt (`build-site.sh:266`). The tests
`recovery_converges_for_every_pre_site_publication_kill_point` and
`recovery_finishes_site_switch_commit_and_backup_retirement_kills` stop short of
both. It is claimed, and proved, for all faults but damaged artifacts: with those
as well, a recovery that had to regenerate the previous publication and dies
before its journal says so is undecidable too. `Converges` excludes what recovery has given
up, and is about the candidates the index names.

Fairness. The publisher is a scheduled job and preparations are fleet tasks;
what they have started goes on unless it dies (`WF` of `Publisher` and its
failures, and of each wiki's preparation). Faults are never assumed to happen.

### Proofs: `PublicationProofs`

Seven theorems, for any number of wikis, candidates, runs and faults; all but
`SettledHolds` and `OnlyTwoBlindWindowsHolds` for every set of fault kinds.

* `PublicationTypeCorrect`, `LiveDataKeptHolds`, `RollbackPossibleHolds` from
  `SafeInv`. `TypeOK` is not inductive: what the publisher writes next is right
  only for what it has written. `PcInv` ties each of its places to the state of
  the journal and to how far the links of the selected wikis have been moved
  (`Done`, `Undone`, `todo` for those still to come). `WikiInv` says of each wiki
  what holds whoever runs: without a transaction, link, pointer and data agree
  (`Live`); before the commit both candidates are there and the way back is
  either live or in the backup (`Pledged`); from the commit on there is only the
  way forward (`Switching`). A crash changes the place and nothing else, which is
  why the second part cannot mention the place.
* `CommittedIsServedHolds` from `ServedInv`: a publisher that comes to the commit,
  by the forward path or by recovery, has verified the site for the active links.
* `SettledHolds` from `SiteInv`: the site shows what the links showed before the
  transaction (`Old`), or the switch is done and the commit is all that is left
  (`Switched`). It assumes that recording the site does not fail after the
  switch. That is observation 6, and TLC shows that `Settled` is then false.
* `ServesForwardHolds`, the refinement of `PublishedSite`. The switch of the site
  must be a step of the abstract specification: to candidates that are offered,
  and for no wiki to an older one. The first needs what the generation records
  say of every candidate a link, an entry or the site names (`RecordInv`), also
  while a preparation goes on. The second compares the site with where the
  transaction leads (`TargetInv`), and a failing receipt is the hard case: site
  and links then differ, and `ShownInv` says that a recovery that rolls back has
  found the site of the previous publication.

* `OnlyTwoBlindWindowsHolds` from `DecideInv`. It assumes that no merged artifact
  is damaged, the exception above. The property speaks of a dead transaction
  only; what is inductive is that a transaction not yet committing has saved the
  publication it started from and is, at every place outside the two windows,
  `Undecided` (the receipt is an earlier run's, the gate is the saved publication
  or this run's) or `Decided` (switched, recorded, and all there to commit):
  `Reversible`. For the next transaction to start like that, the publication has
  to verify whenever none is under way (`Final`). A recovery puts back what was
  saved, in the order of `PlaceInv`, and never has to regenerate it; and the gate
  tells which run wrote it because a run takes an id that nothing on disk carries
  (`FreshInv`).

`Converges` needs fairness and stays with TLC.

### Observations

5. A commit retires and deletes every ready candidate but the selected and the
   previous one, also one that became ready during the transaction and is newer.
   When it becomes ready after that walk it survives, but the commit writes its
   own selection into the index, which then hides it (`publication.rs:6003`).
6. The wrapper's flag says that the site is published when `build-site.sh` has
   ended (`publish-ready-transaction.sh:24`); when that fails after its switch,
   links, pointers and artifacts go back under the new site.

## 6. Preparing a snapshot

### `SourceWindow` and `SnapshotIngest`

One process prepares the snapshot generation of a wiki: it sweeps inputs that a
commit covers, downloads, converts and commits its source objects with a few
workers, and then finishes the generation. It may be killed before any step or
end with an error, and the next process, with another run ID, starts over what
the disk holds.

* The disk: `temp` and `final` are the download of a source by a run and its
  staged input; `outputs` and `marker` the fragments and the strict marker;
  `gen` is the manifest with its schema; `staging`, `compacted`, `tx` and
  `cmanifest` are the compaction; `fetched`, `receipt` and `pointer` the proofs
  that later stages read. A file is the sequence of the versions its blocks come
  from, so a mixture of two versions is a file like any other.
* The main thread (`pc`): `Sweep`, `Plan`, `Dispatch`, `Receive`, `Join` are
  `prepare_snapshot_with_ops` and `execute_bounded`; `FinalizeFetch` to `Finish`
  are the completion of the generation, with compaction taken apart into its durable steps.
* A worker (`wk[s]`): `Acquire` to `Land` are the download with its gate, retries,
  ranges and adoption of what lies there; `Ingest` to `CommitMarker` the ingest
  transaction of one source; `Release` the removal of the input.
* `ledger` and `gate` are the governor: a permit is taken at dispatch and comes
  back when the worker ends, on every path.

`SnapshotIngest` is what readers are promised, with no process and no file:
sources are committed one by one and for good, each with the rows of one
version; the generation is sealed when all are; only a sealed one is selected.
`Refines` maps `content` to what a valid marker proves, and after the receipt to
what the manifest proves, because fragments are retired by then.

Abstractions. A block of a compressed source decodes to one chunk of rows.
Everything renamed into place is one step. Disk and memory samples are any
outcome (`Samples`), the parser fails or does not. The decoder reads one stream and
ignores what follows it (`ingest.rs:494`, 561), while `Whole` refuses a file that is
longer than its version: an object with something behind its end is only converted by
the code. `RecordReceipt` asks for the markers always; the code
does not when there is a compaction manifest (`ingest.rs:1024`), and then they are
valid in every reachable state. Left out: the snapshot plan
itself, the columns, the qualification of the compacted layer, the compute
permits of the governor.

### Runs

| Run | Instance | Shows |
| --- | --- | --- |
| `source_window` | 3 objects, one of them republished in place, 2 workers, 1 download at a time, 2 attempts, 3 processes, fairness | `TypeOK`, `OneInput`, `StagingBounded`, `VisibleExact`, `LedgerExact`, `Refines`, `Completes` |
| `source_killed_compaction` | 1 object, 1 version of 1 block, 1 worker, 1 attempt, 2 processes, fairness | violated `SourcesRecoverable` |

Bounds. Three objects and two workers are the least for which the window is full
and something waits. The two versions of the republished object have two
blocks each: a download that is resumed after the republication has the expected size
and a block of either. (An object that shrinks or grows is left to the theorems, which
admit any sizes.) Of three processes the last one meets no
fault: the first may be disturbed anywhere, and the second in the recovery.
The objects are estimated at 1, 2 and 3, and `Room` is 11, the least that the preflight
of all three accepts (their outputs, and the inputs of the two largest): what is
refused is refused because a sample shows no room at all (`Samples`). A preparation that has completed
stops, so deadlock is not checked.

`Completes` has two exceptions. `Unowned` is finding 1. `Spoiled` is an input of
the expected size with wrong bytes, which no later run replaces by itself.

Fairness. The queue starts a preparation that has ended (`Start`); a process that
is not killed runs one of its threads that can.

### Proofs: `SourceWindowProofs`

Six theorems, for any number of sources, versions, workers, attempts and
processes.

* `SourceTypeCorrect`, `OneInputHolds`, `VisibleExactHolds` from `SafeInv`. The
  files of a source depend on where its worker is (`FilesOf`), what is committed
  of it is a whole download of one version (`MarkerOf`, `WorkOf`), a worker exists
  only in a process that dispatches (`ThreadInv`), and along the completion each
  file of the compaction is made of the rows of the markers and none is ahead of
  what it is made from (`PackInv`, `MainInv`). That the counters of gate and
  ledger stay in range is part of it: they are the cardinalities of those that
  hold them.
* `LedgerExactHolds` from `LedgerInv`: the bytes of the ledger are the sum over the
  workers that hold a permit, and fit. The sum is a fold, and induction over data
  is out of the provers' reach; so the sum is shown to be a cardinality, that of
  the set of the single reserved bytes (`Bytes`). A smallest set for which the two
  differ cannot exist (`SumsOnce`), and how a cardinality changes when one holder
  comes or goes is in the library (`DemandStep`).
* `StagingBoundedHolds` from `WindowInv`. The bound has to hold across processes,
  and a process starts with whatever inputs an earlier one left. What makes it
  inductive is that every process goes through the uncommitted sources in plan
  order: an input belongs to one of the first of them, as many as there are
  workers, and that set only moves on when a marker is committed.
* `RefinesHolds`, the refinement of `SnapshotIngest`: every step commits one source
  (`Commits`), seals the generation (`Seals`), selects it (`Selects`) or changes
  nothing a reader sees (`Drafts`).

`Completes` needs fairness and stays with TLC.

### Finding

1. `SourcesRecoverable`: compaction makes its staging directory
   (`compaction.rs:689`) before the prepared transaction that owns it. A process
   killed in between leaves a directory that no transaction names, and every
   later preparation of the snapshot ends in the same error.

## 7. The refresh pipeline

### `RefreshPipeline`

Full refreshes and pipeline stages run in pods of their own and meet on the file
system. `run-refresh.sh` takes a short admission lock, scans the locks of
incompatible jobs, takes its own lock and keeps a heartbeat;
`pipeline-state.cjs` is the gate between stages.

* `adm` is the admission lock, `lock` the lock of each kind of job. The recovery
  of a stale one is a check, a recheck and a `mv` by path, with every other
  process between them.
* `st` is the pipeline document: generation, active stages and the receipt of
  each stage. A command works for milliseconds under a lock that is broken after
  two minutes, so it is one step. `Recovered` is the recovery of expired leases
  which every command does first and which stays written when the command then
  refuses.
* `job[r]` is the place of a run in the script with the shell variables that
  decide; `expired` the runs whose last heartbeat is too old. TERM is handled when
  the foreground command has ended, as bash does.
* `Begin` commits the stage as running, `Activate` sets `PIPELINE_STAGE_ACTIVE`
  (lines 697 and 698); in between the heartbeat loop runs already, and a TERM, a lost
  lock or a failing write ends the run with the stage left as it is (`ExitBegun`).
  At the end `complete` or `fail` may fail (`FinishFails`): the script goes on and
  releases its lock. `unrecorded` is the history of the runs that did either.
* A fault is a kill, a failed write (`EnterFails`, `ExitBegun`), a coordinator command
  that fails (`FinishFails`), a heartbeat that fails, or one that hangs until its
  lease has expired and then goes on (`Hang`, `Resume`).
* `art` says of which generation the artifacts of a compute stage are, and
  whether their writer held the lease. `recheck` says whether the environment
  sets `WIKI_ECON_REFRESH_LOCK_RECHECK_SECS`.

The driver that does the work of a stage is one step. Compute stages are
`lifecycle` and `metrics`; the code has two more of the same kind. Left out: the branch
that tests the process of a stage on the same host (`pipeline-state.cjs:241`; runs are
in pods of their own); the write of the flag file into the lock directory of another
run that has taken the lock over meanwhile; a failure that leaves the owner token of a
lock unwritten and its other files written; a signal after the EXIT trap has been
reset. The flag file (697) and the shell variable (698) are set in one step: only the
variable decides.

### Runs

| Run | Instance | Shows |
| --- | --- | --- |
| `refresh_pipeline` | 5 runs, 2 at a time, 1 fault of any kind, 2 attempts | `TypeOK`, `ModesExclude`, `StageExclusive`, `JoinCoherent`, `StrandedOnlyUnrecorded` |
| `refresh_stale_lock` | an ingest that may die and a full refresh that is scheduled again, 3 attempts, variable unset, fairness | violated `CrossJobLockRecovered` |

Bounds. An ingest, two compute stages of one or two kinds, a run that repeats a
stage, starts a new generation or is a full refresh, and a publish at the end. Two
pods at a time race for every lock and one fault makes a lock stale. With more at a
time the state space outgrows a run. Jobs end for good, so deadlock is not checked.

`ModesExclude` names when a full refresh and a stage work together: the admission
lock was moved away from a live run (`robbed`), one of them no longer has its lock, or
the full refresh has recovered a stale lock, after which it scans no further ones
(`run-refresh.sh:363`). `StageExclusive` rests on the
coordinator, not on the locks: two recoveries of one stale lock race as in
section 4.

`StrandedOnlyUnrecorded` names when a run that has ended by itself leaves its stage
running: it left between `begin` and the flag, or neither `complete` nor `fail` was
recorded. The lock is given up in both cases (observation 16), and the stage stays
until its lease expires.

### Proofs: `RefreshPipelineProofs`

Five theorems, for any number of runs, stages and attempts.

* `RefreshTypeCorrect` from `TypeInv`, which adds that the list of active stages
  and the status of their entries say the same (`ActiveOK`).
* `StrandedStages`, `StageExclusiveHolds`, `JoinCoherentHolds` from
  `PipelineInv`. It says of each run what its place in the script means for the
  lock, the stage, the lease, the generation and the artifacts, and of the
  document that ingest and publish are active alone. `StageOf` is the part that
  `StrandedStages` needs: a running stage names a run that still serves it, or an
  unrecorded one on its way out. The proof does not use the locks for exclusion: a run whose lock was moved away keeps its lease.
* `ModesExcludeHolds` from `ModesInv`, which is about the locks alone: as long as
  the admission lock was not moved away from a live run, the run inside it knows
  what its scan has found (`ScanOf`), and a full refresh that recovered nothing
  holds its lock beside no other (`FullOf`).

`CrossJobLockRecovered` is violated (finding 2).

### Finding

2. `CrossJobLockRecovered`: line 403 of `run-refresh.sh` sleeps for
   `$WIKI_ECON_REFRESH_LOCK_RECHECK_SECS`; line 143 puts its default into
   `REFRESH_LOCK_RECHECK_SECS` only. Under `set -u` the job dies in the admission
   lock unless the environment has the variable, and the stale lock of the dead
   job is never recovered. The tests always set the variable (`run-refresh.test.cjs:115`).

### Observation

16. `run-refresh.sh` sets `PIPELINE_STAGE_ACTIVE` after `begin` has committed the stage
    (673 to 698), and its heartbeat loop has been started before (852): a TERM or
    an error in between ends it with the flag unset, and `finish_pipeline_stage`
    returns at once (704). A failing `complete` or `fail` is swallowed (707 to 731).
    The next run of that kind gets the lock and is refused the stage until the lease
    of a run that has ended has expired; commands give up on the coordinator's own
    lock after 30 seconds and break it after 120 (`pipeline-state.cjs:26`, 231).

## 8. Candidates and their inputs

### `CandidateStore`

Who creates, authenticates and deletes the candidates and input generations of
one wiki. The preparation of the fleet holds the prepare lock, the publisher the
publication lock; cleanup only looks whether the prepare lock exists; operators
take no lock.

* `cand` is each candidate: snapshot, algorithm version, directory, generation
  record, age, and lineage (the candidates it was migrated from). `ready` is the
  order of `ready.json` receipts: for each candidate that has one, those whose own
  is no newer.
* `src` and `receipt` are the input generation of each snapshot (fragments `data`,
  compaction manifest `comp`, generation manifest `man`, source plan, and `fits`: the
  candidates whose references can be computed from the patrol source and agree) and
  its retention receipt, `authorized` before the purge and `applied` after.
* A purge removes its paths in their sorted order (`retention.rs:222`): `PurgeData`,
  `PurgePatrol`, `PurgeCompaction`, `PurgeManifest`. `PurgePatrol` removes the logs of
  the wiki, those of another snapshot's preparation too. `RetentionApply` is the
  operator's command that does a purge again.
* `live`, `index`, `upstream` are the published link, the ready index, and the
  newest snapshot with the deployed algorithm version.
* `raced` and `orphans` are history: candidates that an operator has retired, or
  cleanup over a newer record; and migrations under way when a commit retired what
  they came from.
* `prep`, `pub`, `mig`, `clean`, `op` are the actors. Every durable write is a
  step; the publication transaction is two (`Publication` takes it apart), and so
  is the ingestion of a snapshot (`SourceWindow`).

Authentication is the heart: a candidate is proved by the manifest of its
snapshot or, when retention has purged it, by a receipt that names the candidate
or one it was migrated from (`Authentic`, `Retained`, `Lineage`); the publisher
also wants current stage receipts and inputs from which the reference can be computed
while the manifest exists (`RefOK`): patrol source (`patrol.rs:1598`) and compaction
manifest (`storage.rs:673`); only without a manifest may it take the receipt instead
(`publication.rs:3442`). A commit deletes
every ready candidate but the selected one, the previous one, and what a walk
along the `ready.json` files says these were migrated from (`Walked`, `Kept`). The
code ends lineages and walk at a depth of 16 (`publication.rs:24`), which the model
does not; it is faithful for shorter chains. A migration writes the states Validated
and Ready of its record in one step (`publication.rs:1776`, 1782) and never resumes a
partial target (1582). What else looks at the patrol directory, like the existence
test of `publication_patrol_source_report`, is left out.

Initial states are two: candidate 1 has just been published with its inputs on
disk; or it was purged and migrated, candidate 2 was published, and that run died
before its retention.

### Run

`candidate_store`: 3 candidates, 2 snapshots, 3 algorithm versions, and up to three
events among deployment, upstream release, rebuild, migration, retirement and its
repetition, operator's retention, cleanup pass, kill and error: `TypeOK`,
`LiveAuthenticated`, `LiveIntact`, `SelectionPossible`, `LineageUnbroken`. The store
may come to rest, so deadlock is not checked. Two events of any kinds and then a
kill put an operator, a migration and a crash into one another. `Limit` says for
each kind of event among the first how many it comes: the third is a kill or the
repetition of a retirement (`EarlyLimit`), so that something breaks off in what the
first two began, or is taken up again. Time passes (`Tick`) only while a cleanup,
the only one that asks for ages, may still follow. The theorems below hold for any
`Limit`.

Two exceptions of the safety properties. `Uprooted`: an operator has retired an
unpublished ancestor of the served candidate, or cleanup has retired it over a
newer record (observation 8). `orphans`, of `LineageUnbroken` alone: a commit has
overtaken a migration (observation 15). `SelectionPossible` names the three ways one
wiki stops the publication of all: a deployment that outdates the published candidate
(observation 12); a snapshot whose manifest is there and whose inputs no longer fit its
receipts, because a purge was killed half-way or the inputs were made anew after one
(observation 17); a preparation of an older snapshot (observation 11). In the second the
candidate is current and the fallback to the receipt is refused since the manifest is
there.

### Proofs: `CandidateStoreProofs`

`Typed`, `ServedAuthenticates`, `ServedIntact`, `LineageHolds` and
`PublisherSelects`, for any number of candidates, snapshots, algorithm versions and
events; the only assumption is `StoreAssumption`, that there are the candidates and
versions `Init` names. All five follow from `Invariance`, `Spec => []Inv`.

* `StoreInv` is about candidates and who works on them. A candidate heads its own
  lineage, and the lineage of an ancestor is the rest of its own (`LineOf`), so
  that the walk of a commit from a descendant passes every ancestor.
  `Settled`, part of it, says that nobody works on an ancestor any more and that
  it loses its `ready.json` before its record says retired. All a ready candidate
  was migrated from is ready too, but for the two exceptions (`WholeOf`). The order
  of receipts is total (`OrderInv`), so the publisher has a newest one to
  select. `ActorInv` is what each actor knows of its candidate between two of its
  steps.
* `LiveInv` is about what is served. Retention takes away in three steps the
  manifest by which a candidate authenticates; `PubInv` says that from the first
  of them the receipt names the served candidate and the source plan is there,
  `SourceInv` that the inputs of the served snapshot are there and fit the served
  candidate, or a receipt is there. That is why `PublisherSelects` has its second
  exception just where a receipt and a manifest meet.

None of the five is inductive: `LiveAuthenticated` depends on the whole
lineage of the served candidate, which any of five actors may touch, and on where
the purge is. The proof goes by what a step does to the store (a candidate
advances, is born, retires, gets or loses its receipt, is committed) and by
what the step does to the actors, with one lemma for each part of `Inv` and each
kind of effect.

### Observations

7. After a migrated or rebuilt candidate of the same snapshot is published,
   retention overwrites the receipt of the snapshot. The rollback candidate no
   longer authenticates (`docs/candidate-publication.md:154` says the original
   authorization stays in place), and planning that snapshot fails instead of
   being a no-op (`docs/wiki-lifecycle.md:60`).
8. Cleanup reads a generation record and writes it later
   (`generation_lifecycle.rs:155`): a candidate that became ready in between is
   retired, against `docs/candidate-publication.md:41`.
9. The heartbeat of the prepare lock is said to protect inputs (ibid. 62), but a
   rebuild by an administrator takes no lock, and cleanup tests it once before it
   deletes. A preparation of more than six hours is retired while it runs.
10. A publisher's retention purges the inputs of a rebuild of the same snapshot
    that is in progress.
11. A preparation of an older snapshot overtaken by a publication puts its
    candidate into the index; the publisher then fails for all wikis ("would
    downgrade") until an operator retires it.
12. A deployment that outdates the published candidate while its manifest is on
    disk stops the publisher for all wikis (`publication.rs:3443`) until the wiki
    is rebuilt.
15. A migration takes no lock against the publisher. A commit that selects another
    candidate retires what the migration comes from, and the migration then writes
    its `ready.json` all the same (`publication.rs:1771`); the validation of the
    next lines fails, and what is left is a ready candidate that authenticates for
    nobody. This came out of the proof of `WholeOf`.
17. A publisher killed in its purge after the patrol source or the compaction manifest
    and before the generation manifest leaves a snapshot for which no reference can be
    computed and no fallback is allowed. Selection fails for all wikis, and so does
    another preparation of that snapshot. "A later apply resumes"
    (`retention.rs:219`) holds for an operator's `retention-apply` only; without it
    the wiki stays so until a candidate of a later snapshot is ready.

## 9. Patrol metrics

### `PatrolMonths`

The patrol metrics of a wiki, snapshot after snapshot. Upstream rewrites the past
between two snapshots and may replace a logging dump while it is fetched; the
code keeps what it can of earlier snapshots in a content-addressed cache and
must give, byte for byte, what a computation from nothing gives.

* `world`, `newest`, `hist`, `dump`, `versions` are upstream: what happened, the
  history of each snapshot, its logging dump. `Release`, `Republish` and
  `DumpDone` are its steps.
* `plan`, `meta`, `gen`, `pointer` are the pinned source plan, the groups with the
  autopatrol right, the committed generation of monthly logs and the pointer to
  it. `Preflight` to `PublishPointer` are `preflight`, `fetch` and
  `build_generation`, with the one refresh that a changed object is granted
  (`Changed`).
* `ptr`, `ev`, `frames`, `chk` are the cache: index of an action month by its
  artifact, enriched events, metric months, rights checkpoints. An artifact
  without its receipt is not there for a reader. A digest is modelled by what is
  digested, so a key that leaves something out is a key with fewer parts.
* `out` is the candidate directory: month parts, merged file, stage receipt.
* `Compute`, `IndexEvents`, `IndexReceipt`, `IndexPointer` are the head of
  `incremental::compute` and `ensure_source_indexes`; `Begin`, `Advance`, `Store`,
  `StoreReceipt`, `WritePart` the loop over the months with
  `advance_state_through`; `MergeParts` and `Record` its end.

The rights of one user in one month are a replay of the events that change them
(`Holds`, `Changes`, `Step`, `Replay`), a recursive function; `Status` is what a
revision counts as.

`CleanMonth` and `Autopatrolled` are the reference: they say of a revision whether
it counts as patrolled, autopatrolled or neither from the whole history and log
alone, with no interval, state or checkpoint. `OutputExact` compares every part
with them.

Abstractions. A history row is its revision, month, time, user and what else the
metrics group by. Counts and latencies are functions of the rows and actions and
are represented by them. A source object of the dump holds whole months. Digests
do not collide, and no artifact is damaged on disk. `History` has no rows of the month
that a snapshot has only begun: the code plans them (`snapshot_plan.rs:231`, 461) and
filters them (`incremental.rs:227`). Left out: account blocks and creations, the
branches of `Compute` for a forced rebuild, a limited number of months and generations
before compaction (`incremental.rs:153` to 210), dashboards, and the
case where a new candidate takes over the patrol file of an earlier one.

### Run

`patrol_months`: one user, two revisions, three months of which the first ends a
year, three snapshots, a dump in two objects, one change of upstream's past or
republished dump, one kill or failed store, fairness: `TypeOK`, `OutputExact`,
`CheckpointsAgree`, `OneVersion`, `Delivers`. A run may find nothing to do and
upstream may rest, so deadlock is not checked. The initial log refers to a
revision that only a later snapshot contains, so an unresolved reference occurs
without a change; a change may touch both objects of the dump at once. A month
without revisions or actions and with a change of rights lies between the others.
With two changes and no kill, 1.5 million states satisfy the invariants.

Fairness. The queue repeats a preparation (`Work` includes `Start`) and a dump job
ends some day.

### Proofs: `PatrolMonthsProofs`

`Typed`, `GenerationOfOneVersion`, `NeverRefused` and `Incremental`, for any number
of months, users, revisions, snapshots, changes of the past and faults. The
assumption `PatrolAssumption` on the data is what the code ensures of its inputs:
a revision has one month, time and user, and the rights events of a month come in
the order of their times (`incremental.rs:1016` refuses others).

All four follow from `Invariance`. `OutputExact` speaks of what is written, and is
not inductive because what is written is read from a cache that earlier
snapshots, killed runs and reverted pasts have filled. `Inv` says why that is safe:

* every cached artifact, with its receipt or without, is a function of its key
  alone (`CacheInv`): of enriched events `DataOf`, of a metric month `FrameOf`, of a
  rights checkpoint `CarriedIn`. Nothing about when or for which snapshot it was
  written is needed, so no step of upstream can disturb it;
* the source indexes in memory are those of the inputs of this computation
  (`IndexInv`), the rights state is that of a computation from nothing
  (`RightsInv`), and parts and frame are clean months (`OutputInv`);
* the parts of the dump downloaded so far are those of the plan unless an object has
  changed, which the commit then finds (`ProcessInv`, `Matches`).

The replay is a recursion over a log, and what a recursion computes is
an induction over data. It is done by hand, on the set of prefixes up to which a
claim holds (`UpTo`): the replay exists for every log (`WalkExists`), ends as the
last change says (`WalkReaches`), and so has the closed forms of the reference,
`HoldersClosed` for who holds the right at the end of a month and
`AutopatrolClosed` for who holds it at a time. With the closed forms a checkpoint
may be taken from any earlier month, which is what `NeverRefused` rests on. For
each action one lemma (`...Keeps`) shows that it preserves `Inv`.

`Delivers` needs fairness and stays with TLC.

### Observations

13. `docs/incremental-patrol.md` says that the separate patrol commands pin
    themselves to the wiki's current snapshot; `main.rs` calls `compute_patrol`
    without a snapshot, which is the legacy path and reads a file that the
    snapshot-aware fetch never writes.
14. The same document says that a damaged cache artifact is rejected and rebuilt
    alone. `validate_artifact` returns an error that ends the computation, and
    nothing removes the artifact, so every later run ends there too.

## 10. Not modelled

About half of the lines that count as implementation are tests inside the source
files, and most of the rest of `compute/`, `dashboard.rs`, `browser_data.rs` and
`patrol.rs` are columnar computations: sums, ranks and joins over data frames,
one pass each, with no state between calls. Their control is the stages modelled
above and their values are the subject of the code's own parity tests. The
modules therefore cover the durable-state protocols and a small share of all
lines.

Also not modelled:

* the capacity admission and the admin dispatcher, which are further lease
  protocols over one file of the kind in sections 3 and 7, and the operations
  they start;
* the snapshot plan (a read of upstream's listing), workload profiles and
  qualification (measurements against limits), run records and freshness (derived
  from the other parts);
* the admin server, the machine API, the site and the command line, which hold no
  state of their own;
* in the modelled parts, what their sections call left out; `PROJECT.json` repeats
  it per component.

What is only model-checked: liveness (`Delivered`, `Recovered`, `Converges`,
`Completes`, `Delivers`), which needs fairness. All invariants, all action
properties and both refinements are proved for all values of the constants their
modules admit; `Settled` for fault kinds without `receipt` and
`OnlyTwoBlindWindows` for fault kinds without `damage`, since they are false with them.
