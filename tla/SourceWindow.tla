---------------------------- MODULE SourceWindow ----------------------------
(***************************************************************************)
(* The preparation of one snapshot generation of one wiki: the bounded     *)
(* source executor (src/src/source_window.rs), the resumable downloads it  *)
(* drives (fetch.rs), the per-source ingest transaction (ingest.rs), the   *)
(* strict markers and manifests (storage.rs), compaction (compaction.rs)   *)
(* and the admission ledger of the resource governor                       *)
(* (resource_governor.rs).                                                 *)
(*                                                                         *)
(* One process at a time prepares the snapshot (the preparation lock is    *)
(* modelled in DirectoryLock).  It may be killed at any step or end with   *)
(* an error, and another process with a new run ID starts over what the    *)
(* disk holds.  Everything the code renames into place is one step.        *)
(***************************************************************************)
EXTENDS Integers, Sequences, FiniteSets, FiniteSetsExt

CONSTANTS
    NumSources,    \* sources of the snapshot plan, in plan order
    NumVersions,   \* versions upstream publishes of one source
    SizeOf,        \* blocks of each version: one block decodes to one chunk
    Mutable,       \* the sources upstream may publish again in place
    WorkerLimit,   \* min(source_worker_limit, window_size)
    FetchLimit,    \* limit of the process-wide download gate
    MaxAttempts,   \* FETCH_MAX_RETRIES
    MaxRuns,       \* bound: processes; the last one meets no fault
    Room,          \* free bytes the governor samples when nothing is in the way
    Estimate,      \* expected compressed bytes of each source
    SelectsGeneration,       \* select_generation: publish the pointer at the end
    NoFile         \* an absent file

Sources == 1..NumSources
Versions == 1..NumVersions
Runs == 1..MaxRuns
Chunk == Nat \X Versions

ASSUME ConstantsAssumption ==
    /\ NumSources \in Nat \ {0} /\ NumVersions \in Nat \ {0}
    /\ SizeOf \in [Versions -> Nat \ {0}]
    /\ Mutable \subseteq Sources
    /\ WorkerLimit \in Nat \ {0} /\ FetchLimit \in Nat \ {0}
    /\ MaxAttempts \in Nat \ {0} /\ MaxRuns \in Nat \ {0}
    /\ Room \in Nat
    /\ Estimate \in [Sources -> Nat]
    /\ SelectsGeneration \in BOOLEAN
    /\ NoFile \notin Seq(Versions)

VARIABLES
    upstream,  \* the version of each source now published
    temp,      \* .source.run.download: the download of a source by a run
    final,     \* the staged .tsv.bz2 of each source
    outputs,   \* Parquet fragments of each source: <<chunk, version>>
    marker,    \* strict ingest markers: the input's identity and the chunks
    gen,       \* generation-manifest.json: schema 0 (none), 2 or 3, fragments
    staging,   \* _compaction-staging
    compacted, \* _compacted
    tx,        \* compaction-transaction.json, prepared
    cmanifest, \* the committed compaction manifest
    fetched,   \* the fetch receipt is recorded
    receipt,   \* the ingest receipt, which names a generation manifest
    pointer,   \* current-snapshot.json selects this generation
    run,       \* the process now or last running: its run ID
    pc,        \* its main thread
    pending,   \* sources not yet handed to a worker
    denied,    \* the governor refused the next source
    wk,        \* the worker thread of each source
    plan,      \* its download plan: attempt, ranges, version of the body
    written,   \* chunks its conversion has written
    gate,      \* downloads that hold the gate
    ledger     \* the governor's admitted workers and reserved bytes

inputs == <<temp, final>>
layers == <<outputs, marker>>
packs == <<gen, staging, compacted, tx, cmanifest>>
proofs == <<fetched, receipt, pointer>>
disk == <<inputs, layers, packs, proofs>>
threads == <<wk, plan, written, gate, ledger>>
process == <<run, pc, pending, denied, threads>>
vars == <<upstream, disk, process>>

MainPC == {"off", "sweep", "dispatch", "join", "finalize", "manifest", "compact",
           "build", "rename", "commit", "settle", "publish", "receipt", "retire",
           "select", "tidy", "done"}
WorkerPC == {"idle", "gate", "probe", "get", "body", "landed", "ingest",
             "convert", "release", "ok", "err", "received"}

File == Seq(Versions) \cup {NoFile}
Marker == [src : File, chunks : SUBSET Nat]
Pack == [Sources -> SUBSET Chunk]
Artifact == [open : BOOLEAN, pack : Pack, proof : [Sources -> Marker]]
Manifest == [schema : {0, 2, 3}, pack : Pack]

NoMarker == [src |-> NoFile, chunks |-> {}]
NoPack == [s \in Sources |-> {}]
Absent == [open |-> FALSE, pack |-> NoPack, proof |-> [s \in Sources |-> NoMarker]]
NoManifest == [schema |-> 0, pack |-> NoPack]
NoPlan == [attempt |-> 0, ranges |-> FALSE, version |-> 0]
Idle == [s \in Sources |-> "idle"]

TypeOK ==
    /\ upstream \in [Sources -> Versions]
    /\ temp \in [Sources -> [Runs -> File]]
    /\ final \in [Sources -> File]
    /\ outputs \in Pack
    /\ marker \in [Sources -> Marker]
    /\ gen \in Manifest
    /\ staging \in Artifact /\ compacted \in Artifact
    /\ tx \in Artifact /\ cmanifest \in Artifact
    /\ fetched \in BOOLEAN /\ pointer \in BOOLEAN
    /\ receipt \in Manifest
    /\ run \in 0..MaxRuns
    /\ pc \in MainPC
    /\ pending \in SUBSET Sources
    /\ denied \in BOOLEAN
    /\ wk \in [Sources -> WorkerPC]
    /\ plan \in [Sources -> [attempt : 0..MaxAttempts, ranges : BOOLEAN,
                             version : 0..NumVersions]]
    /\ written \in [Sources -> SUBSET Nat]
    /\ gate \in 0..FetchLimit
    /\ ledger \in [workers : 0..WorkerLimit, bytes : Int]

-----------------------------------------------------------------------------
(* What the disk proves. *)

\* marker_manifest_is_valid_in: a recorded fragment must exist with its row
\* count, and a staged input, when there is one, must be the one recorded.
\* A row count does not tell two versions of a chunk apart.
MarkerValid(s) ==
    /\ marker[s] # NoMarker
    /\ final[s] \in {NoFile, marker[s].src}
    /\ marker[s].chunks \subseteq {c[1] : c \in outputs[s]}

\* receipted_manifest: the ingest receipt and the compacted manifest it names.
Receipted == receipt.schema = 3 /\ receipt = gen

\* Mutant: only the marker counts.
Represented_MarkerOnly(s) == MarkerValid(s)

\* source_is_represented
Represented(s) == MarkerValid(s) \/ Receipted

\* The one version a whole download holds decodes; anything else fails in the
\* decoder, at the first block that does not belong to the same stream.
Whole(f) == f # <<>> /\ f = [i \in 1..SizeOf[f[1]] |-> f[1]]
Readable(f, i) == i \in DOMAIN f /\ i <= SizeOf[f[1]] /\ f[i] = f[1]

HasInput(s) == final[s] # NoFile \/ \E r \in Runs : temp[s][r] # NoFile

-----------------------------------------------------------------------------
Init ==
    /\ upstream = [s \in Sources |-> 1]
    /\ temp = [s \in Sources |-> [r \in Runs |-> NoFile]]
    /\ final = [s \in Sources |-> NoFile]
    /\ outputs = NoPack
    /\ marker = [s \in Sources |-> NoMarker]
    /\ gen = NoManifest /\ receipt = NoManifest
    /\ staging = Absent /\ compacted = Absent /\ tx = Absent /\ cmanifest = Absent
    /\ fetched = FALSE /\ pointer = FALSE
    /\ run = 0 /\ pc = "off" /\ pending = {} /\ denied = FALSE
    /\ wk = Idle
    /\ plan = [s \in Sources |-> NoPlan]
    /\ written = [s \in Sources |-> {}]
    /\ gate = 0
    /\ ledger = [workers |-> 0, bytes |-> 0]

\* Faults are over once the last process runs.
Quiet == run = MaxRuns

(* Upstream and the process. *)

\* A dump is published again under the same name (outside the repository).
Republish(s) ==
    /\ ~Quiet
    /\ s \in Mutable
    /\ upstream[s] < NumVersions
    /\ upstream' = [upstream EXCEPT ![s] = @ + 1]
    /\ UNCHANGED <<disk, process>>

\* The threads of a process that no longer exists.
NoThreads ==
    /\ wk' = Idle
    /\ plan' = [s \in Sources |-> NoPlan]
    /\ written' = [s \in Sources |-> {}]
    /\ gate' = 0
    /\ ledger' = [workers |-> 0, bytes |-> 0]

\* prepare_snapshot_with_ops starts in a new process with a new run ID.
Start ==
    /\ pc \in {"off", "done"}
    /\ run < MaxRuns
    /\ run' = run + 1
    /\ pc' = "sweep"
    /\ NoThreads
    /\ UNCHANGED <<upstream, disk, pending, denied>>

\* The process ends here, with an error.
Exit ==
    /\ pc' = "off" /\ pending' = {} /\ denied' = FALSE
    /\ NoThreads
    /\ UNCHANGED run

\* SIGKILL, eviction, power loss: at any step.
Kill ==
    /\ pc \notin {"off", "done"}
    /\ ~Quiet
    /\ Exit
    /\ UNCHANGED <<upstream, disk>>

-----------------------------------------------------------------------------
(* The dispatcher. *)

\* cleanup_committed_source_window_inputs, first and last act of a preparation.
Sweep(s) ==
    /\ pc \in {"sweep", "tidy"}
    /\ Represented(s) /\ HasInput(s)
    /\ temp' = [temp EXCEPT ![s] = [r \in Runs |-> NoFile]]
    /\ final' = [final EXCEPT ![s] = NoFile]
    /\ UNCHANGED <<upstream, layers, packs, proofs, process>>

Swept == \A s \in Sources : Represented(s) => ~HasInput(s)

\* Free bytes a sample may show: an undisturbed volume has Room for everything.
Samples == IF Quiet THEN {Room} ELSE {0, Room}

Demand(S) == MapThenSumSet(LAMBDA s : Estimate[s], S)

\* preflight_snapshot: every pending source as output, and the largest window
\* of compressed inputs.
Preflight(S) ==
    Demand(S) + Max({Demand(W) : W \in {X \in SUBSET S : Cardinality(X) <= WorkerLimit}})

\* pending_sources, source_sizes and the governor's preflight.
Plan ==
    /\ pc = "sweep" /\ Swept
    /\ LET todo == {s \in Sources : ~Represented(s)}
       IN  \E free \in Samples :
             \/ /\ free >= Preflight(todo)
                /\ pending' = todo
                /\ pc' = "dispatch"
                /\ UNCHANGED <<run, denied, threads>>
             \/ free < Preflight(todo) /\ Exit
    /\ UNCHANGED <<upstream, disk>>

\* Mutant: a worker that has ended frees its slot before it is received.
Active_Unreceived == {s \in Sources : wk[s] \notin {"idle", "received", "ok", "err"}}

\* Workers the dispatcher has spawned and not heard of.
Active == {s \in Sources : wk[s] \notin {"idle", "received"}}

\* admit_source: a slot, and room for every reservation and this one.
Admits(s, free) ==
    /\ ledger.workers < WorkerLimit
    /\ free >= ledger.bytes + Estimate[s]

\* execute_bounded: the next source in plan order, if the governor admits it.
\* Refused while others work, the dispatcher waits for a completion; refused
\* alone, the preparation fails.
Dispatch ==
    /\ pc = "dispatch" /\ ~denied
    /\ pending # {} /\ Cardinality(Active) < WorkerLimit
    /\ LET s == Min(pending)
       IN \E free \in Samples :
             \/ /\ Admits(s, free)
                /\ pending' = pending \ {s}
                /\ wk' = [wk EXCEPT ![s] = "gate"]
                /\ ledger' = [workers |-> ledger.workers + 1,
                              bytes |-> ledger.bytes + Estimate[s]]
                /\ UNCHANGED <<run, pc, denied, plan, written, gate>>
             \/ /\ ~Admits(s, free)
                /\ IF Active # {}
                   THEN denied' = TRUE /\ UNCHANGED <<run, pc, pending, threads>>
                   ELSE Exit
    /\ UNCHANGED <<upstream, disk>>

\* One completion from the channel.  After an error the dispatcher stops at
\* once and the scope joins the workers that are still busy.
Receive(s) ==
    /\ pc = "dispatch"
    /\ pending = {} \/ Cardinality(Active) = WorkerLimit \/ denied
    /\ \/ wk[s] = "ok" /\ pc' = pc
       \/ wk[s] = "err" /\ pc' = "join"
    /\ wk' = [wk EXCEPT ![s] = "received"]
    /\ denied' = FALSE
    /\ UNCHANGED <<upstream, disk, run, pending, plan, written, gate, ledger>>

Join ==
    /\ pc = "join"
    /\ \A s \in Active : wk[s] \in {"ok", "err"}
    /\ Exit
    /\ UNCHANGED <<upstream, disk>>

Dispatched ==
    /\ pc = "dispatch" /\ pending = {} /\ Active = {}
    /\ pc' = "finalize"
    /\ UNCHANGED <<upstream, disk, run, pending, denied, threads>>

-----------------------------------------------------------------------------
(* A source worker: download. *)

\* Dropping a SourcePermit.
Dropped(s) == [workers |-> ledger.workers - 1, bytes |-> ledger.bytes - Estimate[s]]

\* Mutant: an error path forgets its permit.
Return_KeepsPermit(s, outcome) ==
    /\ wk' = [wk EXCEPT ![s] = outcome]
    /\ plan' = [plan EXCEPT ![s] = NoPlan]
    /\ written' = [written EXCEPT ![s] = {}]
    /\ ledger' = IF outcome = "ok" THEN Dropped(s) ELSE ledger
    /\ UNCHANGED <<run, pc, pending, denied>>

\* process_source returns and drops its permit.
Return(s, outcome) ==
    /\ wk' = [wk EXCEPT ![s] = outcome]
    /\ plan' = [plan EXCEPT ![s] = NoPlan]
    /\ written' = [written EXCEPT ![s] = {}]
    /\ ledger' = Dropped(s)
    /\ UNCHANGED <<run, pc, pending, denied>>

\* Mutant: the gate is released by hand and again when the permit drops.
FetchError_Twice(s) == Return(s, "err") /\ gate' = gate - 2

\* A failed fetch drops the gate as well.
FetchError(s) == Return(s, "err") /\ gate' = gate - 1

\* Recoverable downloads of earlier runs and of this one.
Temps(s) == {r \in Runs : temp[s][r] # NoFile}

\* SourceWindowDownloadGate::acquire, the disk preflight, then
\* adopt_source_download: what an earlier run left becomes this run's download.
Acquire(s) ==
    /\ wk[s] = "gate"
    /\ gate < FetchLimit
    /\ IF Cardinality(Temps(s)) + (IF final[s] = NoFile THEN 0 ELSE 1) > 1
       THEN Return(s, "err") /\ UNCHANGED <<inputs, gate>>
       ELSE /\ LET kept == IF Temps(s) = {} THEN final[s]
                           ELSE temp[s][CHOOSE r \in Temps(s) : TRUE]
               IN  temp' = [temp EXCEPT ![s] = [r \in Runs |-> IF r = run THEN kept
                                                                ELSE NoFile]]
            /\ final' = [final EXCEPT ![s] = NoFile]
            /\ wk' = [wk EXCEPT ![s] = "probe"]
            /\ gate' = gate + 1
            /\ UNCHANGED <<run, pc, pending, denied, plan, written, ledger>>
    /\ UNCHANGED <<upstream, layers, packs, proofs>>

\* The disk preflight of the window finds too little room.
NoHeadroom(s) ==
    /\ wk[s] = "gate"
    /\ gate < FetchLimit
    /\ ~Quiet
    /\ Return(s, "err")
    /\ UNCHANGED <<upstream, disk, gate>>

\* What a HEAD request tells: nothing; no length; a length; a length and ranges.
Remotes == {"none", "unsized", "sized", "ranged"}

\* probe_remote_file and plan_download.
Probe(s) ==
    /\ wk[s] = "probe"
    /\ \E remote \in Remotes :
         LET f == temp[s][run]
             size == SizeOf[upstream[s]]
             sized == remote \in {"sized", "ranged"}
             empty == f \in {NoFile, <<>>}
             skip == ~empty /\ sized /\ Len(f) = size
             keep == empty \/ skip \/ (remote = "ranged" /\ Len(f) < size)
         IN  /\ temp' = IF keep THEN temp ELSE [temp EXCEPT ![s][run] = NoFile]
             /\ wk' = [wk EXCEPT ![s] = IF skip THEN "landed" ELSE "get"]
             /\ plan' = [plan EXCEPT ![s] = [attempt |-> 1, version |-> 0,
                                             ranges |-> remote \in {"unsized", "ranged"}]]
    /\ UNCHANGED <<upstream, final, layers, packs, proofs, run, pc, pending, denied,
                   written, gate, ledger>>

\* download_attempt: the response.  A range request may be answered with the
\* whole file, which starts the file over.
Get(s) ==
    /\ wk[s] = "get"
    /\ LET f == temp[s][run]
           v == upstream[s]
           ranged == plan[s].ranges /\ f \notin {NoFile, <<>>}
       IN  \/ /\ ranged /\ Len(f) < SizeOf[v]
              /\ UNCHANGED temp
           \/ temp' = [temp EXCEPT ![s][run] = <<>>]
    /\ wk' = [wk EXCEPT ![s] = "body"]
    /\ plan' = [plan EXCEPT ![s].version = upstream[s]]
    /\ UNCHANGED <<upstream, final, layers, packs, proofs, run, pc, pending, denied,
                   written, gate, ledger>>

\* The body of one response, block by block, all of one version.
Body(s) ==
    /\ wk[s] = "body"
    /\ LET f == Append(temp[s][run], plan[s].version)
       IN  /\ temp' = [temp EXCEPT ![s][run] = f]
           /\ wk' = [wk EXCEPT ![s] = IF Len(f) = SizeOf[plan[s].version]
                                      THEN "landed" ELSE "body"]
    /\ UNCHANGED <<upstream, final, layers, packs, proofs, run, pc, pending, denied,
                   plan, written, gate, ledger>>

\* A retryable failure of an attempt: resumed when the server takes ranges,
\* started over when not; the last one keeps the partial under the same rule.
AttemptFails(s) ==
    /\ ~Quiet
    /\ wk[s] \in {"get", "body"}
    /\ temp' = IF plan[s].ranges THEN temp ELSE [temp EXCEPT ![s][run] = NoFile]
    /\ \/ /\ plan[s].attempt < MaxAttempts
          /\ plan' = [plan EXCEPT ![s].attempt = @ + 1]
          /\ wk' = [wk EXCEPT ![s] = "get"]
          /\ UNCHANGED <<run, pc, pending, denied, written, gate, ledger>>
       \/ /\ plan[s].attempt = MaxAttempts
          /\ FetchError(s)
    /\ UNCHANGED <<upstream, final, layers, packs, proofs>>

\* A range that the object now published does not have, or any other fatal
\* status; and a body that is not bzip2, which is removed.
Refused(s) ==
    /\ wk[s] = "get"
    /\ ~Quiet
    /\ \/ temp' = IF plan[s].ranges THEN temp ELSE [temp EXCEPT ![s][run] = NoFile]
       \/ temp' = [temp EXCEPT ![s][run] = NoFile]
    /\ FetchError(s)
    /\ UNCHANGED <<upstream, final, layers, packs, proofs>>

\* Mutant: the download is copied into place.
Land_Copies(s) ==
    /\ wk[s] = "landed"
    /\ final' = [final EXCEPT ![s] = temp[s][run]]
    /\ wk' = [wk EXCEPT ![s] = "ingest"]
    /\ gate' = gate - 1
    /\ UNCHANGED <<upstream, temp, layers, packs, proofs, run, pc, pending, denied,
                   plan, written, ledger>>

\* The rename that commits the download; the gate opens.
Land(s) ==
    /\ wk[s] = "landed"
    /\ final' = [final EXCEPT ![s] = temp[s][run]]
    /\ temp' = [temp EXCEPT ![s][run] = NoFile]
    /\ wk' = [wk EXCEPT ![s] = "ingest"]
    /\ gate' = gate - 1
    /\ UNCHANGED <<upstream, layers, packs, proofs, run, pc, pending, denied, plan,
                   written, ledger>>

-----------------------------------------------------------------------------
(* A source worker: ingest_snapshot_source. *)

\* A valid marker is reused; a selected generation is immutable; otherwise
\* cleanup_planned_source_outputs removes what an earlier run left.
Ingest(s) ==
    /\ wk[s] = "ingest"
    /\ IF MarkerValid(s)
       THEN /\ wk' = [wk EXCEPT ![s] = "release"]
            /\ UNCHANGED <<outputs, run, pc, pending, denied, plan, written, ledger>>
       ELSE IF pointer
       THEN Return(s, "err") /\ UNCHANGED outputs
       ELSE /\ outputs' = [outputs EXCEPT ![s] = {}]
            /\ wk' = [wk EXCEPT ![s] = "convert"]
            /\ UNCHANGED <<run, pc, pending, denied, plan, written, ledger>>
    /\ UNCHANGED <<upstream, inputs, marker, packs, proofs, gate>>

NextChunk(s) == Cardinality(written[s]) + 1

\* A fragment replaces the one of the same name.
Fragment(s, i) == {c \in outputs[s] : c[1] # i} \cup {<<i, final[s][1]>>}

\* flush_chunk
WriteChunk(s) ==
    /\ wk[s] = "convert"
    /\ Readable(final[s], NextChunk(s))
    /\ outputs' = [outputs EXCEPT ![s] = Fragment(s, NextChunk(s))]
    /\ written' = [written EXCEPT ![s] = @ \cup {NextChunk(s)}]
    /\ UNCHANGED <<upstream, inputs, marker, packs, proofs, run, pc, pending, denied,
                   wk, plan, gate, ledger>>

\* The decoder fails, or the disk does: the fragments already listed and the
\* marker are removed.  A chunk that fails half way through its partitions is
\* not on the list.
ConvertFails(s) ==
    /\ wk[s] = "convert"
    /\ LET left == {c \in outputs[s] : c[1] \notin written[s]}
           i == NextChunk(s)
       IN  \/ /\ ~Whole(final[s]) /\ ~Readable(final[s], i)
              /\ outputs' = [outputs EXCEPT ![s] = left]
           \/ /\ ~Quiet /\ Readable(final[s], i)
              /\ outputs' = [outputs EXCEPT ![s] = left \cup {<<i, final[s][1]>>}]
    /\ marker' = [marker EXCEPT ![s] = NoMarker]
    /\ Return(s, "err")
    /\ UNCHANGED <<upstream, inputs, packs, proofs, gate>>

\* Mutant: the last, short chunk is not flushed.
CommitMarker_Unflushed(s) ==
    /\ wk[s] = "convert"
    /\ Whole(final[s]) /\ written[s] # {}
    /\ marker' = [marker EXCEPT ![s] = [src |-> final[s], chunks |-> written[s]]]
    /\ wk' = [wk EXCEPT ![s] = "release"]
    /\ UNCHANGED <<upstream, inputs, outputs, packs, proofs, run, pc, pending, denied,
                   plan, written, gate, ledger>>

\* write_precleaned_marker_manifest_in, the restart boundary.
CommitMarker(s) ==
    /\ wk[s] = "convert"
    /\ Whole(final[s]) /\ written[s] = DOMAIN final[s]
    /\ marker' = [marker EXCEPT ![s] = [src |-> final[s], chunks |-> written[s]]]
    /\ wk' = [wk EXCEPT ![s] = "release"]
    /\ UNCHANGED <<upstream, inputs, outputs, packs, proofs, run, pc, pending, denied,
                   plan, written, gate, ledger>>

\* The marker must cover the staged input before that is removed.
Release(s) ==
    /\ wk[s] = "release"
    /\ IF MarkerValid(s)
       THEN final' = [final EXCEPT ![s] = NoFile] /\ Return(s, "ok")
       ELSE UNCHANGED final /\ Return(s, "err")
    /\ UNCHANGED <<upstream, temp, layers, packs, proofs, gate>>

-----------------------------------------------------------------------------
(* Finalization: one generation out of committed sources. *)

\* The main thread goes on, or ends with an error.
Goto(next) == pc' = next /\ UNCHANGED <<run, pending, denied, threads>>

\* finalize_snapshot_fetch
FinalizeFetch ==
    /\ pc = "finalize"
    /\ IF \A s \in Sources : Represented(s)
       THEN fetched' = TRUE /\ Goto("manifest")
       ELSE UNCHANGED fetched /\ Exit
    /\ UNCHANGED <<upstream, inputs, layers, packs, receipt, pointer>>

\* validate_snapshot_generation: every planned source has a valid marker and
\* the markers account for every fragment.
ValidGeneration ==
    \A s \in Sources : MarkerValid(s) /\ {c[1] : c \in outputs[s]} = marker[s].chunks

\* finalize_snapshot_ingest_with_selection and write_generation_manifest
WriteManifest ==
    /\ pc = "manifest"
    /\ IF Receipted THEN UNCHANGED gen /\ Goto("select")
       ELSE IF gen.schema = 3 THEN UNCHANGED gen /\ Goto("receipt")
       ELSE IF ValidGeneration
       THEN gen' = [schema |-> 2, pack |-> outputs] /\ Goto("compact")
       ELSE UNCHANGED gen /\ Exit
    /\ UNCHANGED <<upstream, inputs, layers, staging, compacted, tx, cmanifest, proofs>>

\* Mutant: a prepared transaction is recovered only after its rename.
Proves_Renamed(a, dir) ==
    /\ compacted.open /\ dir.open
    /\ a.pack = dir.pack /\ a.proof = marker

\* validate_source_marker_hashes and validate_outputs_at
Proves(a, dir) == dir.open /\ a.pack = dir.pack /\ a.proof = marker

\* compact_generation: reuse what is committed, recover what is prepared, and
\* refuse directories that no transaction owns.
Compact ==
    /\ pc = "compact"
    /\ IF cmanifest.open
       THEN /\ UNCHANGED staging
            /\ IF Proves(cmanifest, compacted) THEN Goto("publish") ELSE Exit
       ELSE IF tx.open
       THEN /\ UNCHANGED staging
            /\ IF staging.open # compacted.open
                  /\ (Proves(tx, staging) \/ Proves(tx, compacted))
               THEN Goto(IF staging.open THEN "rename" ELSE "commit") ELSE Exit
       ELSE IF staging.open \/ compacted.open
       THEN UNCHANGED staging /\ Exit
       ELSE staging' = [Absent EXCEPT !.open = TRUE] /\ Goto("build")
    /\ UNCHANGED <<upstream, inputs, layers, gen, compacted, tx, cmanifest, proofs>>

\* The compacted fragments are written, then the prepared transaction.
Build ==
    /\ pc = "build"
    /\ staging' = [open |-> TRUE, pack |-> gen.pack, proof |-> marker]
    /\ tx' = staging'
    /\ Goto("rename")
    /\ UNCHANGED <<upstream, inputs, layers, gen, compacted, cmanifest, proofs>>

\* An error before the transaction removes the staging directory.
BuildFails ==
    /\ pc = "build"
    /\ ~Quiet
    /\ staging' = Absent
    /\ Exit
    /\ UNCHANGED <<upstream, inputs, layers, gen, compacted, tx, cmanifest, proofs>>

RenameStaging ==
    /\ pc = "rename"
    /\ compacted' = staging /\ staging' = Absent
    /\ Goto("commit")
    /\ UNCHANGED <<upstream, inputs, layers, gen, tx, cmanifest, proofs>>

CommitCompaction ==
    /\ pc = "commit"
    /\ cmanifest' = tx
    /\ Goto("settle")
    /\ UNCHANGED <<upstream, inputs, layers, gen, staging, compacted, tx, proofs>>

RemoveTransaction ==
    /\ pc = "settle"
    /\ tx' = Absent
    /\ Goto("publish")
    /\ UNCHANGED <<upstream, inputs, layers, gen, staging, compacted, cmanifest, proofs>>

\* publish_compacted_generation_manifest
PublishManifest ==
    /\ pc = "publish"
    /\ IF ~pointer /\ gen.schema = 2 /\ gen.pack = cmanifest.pack
       THEN gen' = [schema |-> 3, pack |-> cmanifest.pack] /\ Goto("receipt")
       ELSE UNCHANGED gen /\ Exit
    /\ UNCHANGED <<upstream, inputs, layers, staging, compacted, tx, cmanifest, proofs>>

\* snapshot_marker_inputs and fingerprint::record of the ingest stage
RecordReceipt ==
    /\ pc = "receipt"
    /\ IF \A s \in Sources : MarkerValid(s)
       THEN receipt' = gen /\ Goto("retire")
       ELSE UNCHANGED receipt /\ Exit
    /\ UNCHANGED <<upstream, inputs, layers, packs, fetched, pointer>>

\* retire_source_fragments, file by file
Retire(s) ==
    /\ pc = "retire"
    /\ \E c \in outputs[s] \cap cmanifest.pack[s] :
         outputs' = [outputs EXCEPT ![s] = @ \ {c}]
    /\ UNCHANGED <<upstream, inputs, marker, packs, proofs, process>>

Retired ==
    /\ pc = "retire"
    /\ \A s \in Sources : outputs[s] \cap cmanifest.pack[s] = {}
    /\ Goto("select")
    /\ UNCHANGED <<upstream, disk>>

\* publish_current_snapshot, for a selecting preparation
SelectGeneration ==
    /\ pc = "select"
    /\ pointer' = (pointer \/ SelectsGeneration)
    /\ Goto("tidy")
    /\ UNCHANGED <<upstream, inputs, layers, packs, fetched, receipt>>

Finish ==
    /\ pc = "tidy" /\ Swept
    /\ Goto("done")
    /\ UNCHANGED <<upstream, disk>>

-----------------------------------------------------------------------------
Worker(s) ==
    \/ Acquire(s) \/ NoHeadroom(s) \/ Probe(s) \/ Get(s) \/ Body(s)
    \/ AttemptFails(s) \/ Refused(s) \/ Land(s)
    \/ Ingest(s) \/ WriteChunk(s) \/ ConvertFails(s) \/ CommitMarker(s) \/ Release(s)

Main ==
    \/ Plan \/ Dispatch \/ Join \/ Dispatched
    \/ FinalizeFetch \/ WriteManifest \/ Compact \/ Build \/ BuildFails
    \/ RenameStaging \/ CommitCompaction \/ RemoveTransaction \/ PublishManifest
    \/ RecordReceipt \/ Retired \/ SelectGeneration \/ Finish
    \/ \E s \in Sources : Sweep(s) \/ Receive(s) \/ Retire(s)

Next ==
    \/ Start \/ Kill \/ Main
    \/ \E s \in Sources : Republish(s) \/ Worker(s)

Spec == Init /\ [][Next]_vars

\* The queue and the operator start a preparation that ended, and a process
\* that is not killed runs some thread that can.
FairSpec ==
    /\ Spec
    /\ WF_vars(Start)
    /\ WF_vars(Main \/ \E s \in Sources : Worker(s))

-----------------------------------------------------------------------------
(* Properties. *)

\* Whatever was killed or failed, a source has at most one recoverable input:
\* adoption never meets the ambiguity it fails on (adopt_source_download).
OneInput ==
    \A s \in Sources :
        Cardinality(Temps(s)) + (IF final[s] = NoFile THEN 0 ELSE 1) <= 1

\* Compressed inputs that no commit covers never exceed the window, across any
\* number of processes (docs/architecture.md: "A crash loses at most the
\* current bounded window").
StagingBounded ==
    Cardinality({s \in Sources : HasInput(s) /\ ~Represented(s)}) <= WorkerLimit

\* A whole download that decoded: every row of one version of the source.
Exact(rows) == \E v \in Versions : rows = {<<i, v>> : i \in 1..SizeOf[v]}

\* What the receipt or the pointer makes visible holds each source once, whole
\* and of one version, and the compacted files still hold exactly that.
VisibleExact ==
    Receipted \/ pointer =>
        /\ compacted.open /\ compacted.pack = gen.pack
        /\ \A s \in Sources : Exact(gen.pack[s])

\* The governor's ledger is the sum of the permits of the workers that run.
Holders == {s \in Sources : wk[s] \notin {"idle", "ok", "err", "received"}}
LedgerExact ==
    /\ ledger = [workers |-> Cardinality(Holders), bytes |-> Demand(Holders)]
    /\ ledger.bytes <= Room

\* The states no later preparation gets out of by itself: a compaction killed
\* before its transaction, and an input that has the right size and wrong bytes.
Unowned == staging.open /\ ~tx.open /\ pc # "build"
Spoiled(s) == final[s] # NoFile /\ ~Whole(final[s])

\* A preparation that is started again until nothing disturbs it completes.
Prepared == Receipted /\ (SelectsGeneration => pointer)
Completes == <>[](Prepared \/ Unowned \/ \E s \in Sources : Spoiled(s))

\* docs/metric-input-schema-qualification-2026-08-25.md: "The source transactions
\* remain independently recoverable until the compaction manifest and ingest
\* receipt commit."  A preparation started again would then always complete.
SourcesRecoverable == <>[]Prepared

\* Every step of the preparation is a step of SnapshotIngest or none: a source
\* is committed once, with one version, and stays represented by its marker
\* until the receipt and by the receipt while and after its fragments are
\* retired (source_is_represented); the receipt follows the last commit and the
\* pointer follows the receipt.
Content(s) ==
    CASE MarkerValid(s) -> marker[s].src[1]
      [] ~MarkerValid(s) /\ Receipted -> (CHOOSE c \in gen.pack[s] : TRUE)[2]
      [] OTHER -> 0
Promise == INSTANCE SnapshotIngest WITH
    content <- [s \in Sources |-> Content(s)], sealed <- Receipted, selected <- pointer
Refines == Promise!Spec
=============================================================================
