----------------------------- MODULE PatrolMonths -----------------------------
(***************************************************************************)
(* The patrol metrics of one wiki, snapshot after snapshot: the pinned     *)
(* source plan (patrol/plan.rs), the immutable generation of monthly logs  *)
(* (patrol/generation.rs) and the incremental computation over the         *)
(* cross-snapshot cache (patrol/incremental.rs, cross_snapshot.rs).        *)
(*                                                                         *)
(* One process at a time works for the wiki, under its preparation lock;   *)
(* it may be killed between any two durable writes.  Upstream rewrites the *)
(* past between snapshots, and a logging dump while it is being fetched.   *)
(*                                                                         *)
(* A digest stands for what is digested: an artifact, a month or a key is  *)
(* represented by its contents.                                            *)
(***************************************************************************)
EXTENDS Naturals, Sequences, FiniteSets, FiniteSetsExt

CONSTANTS
    NumMonths,   \* bound: months, numbered
    FirstSnap,   \* snapshot s holds the history of the months up to s
    YearEnds,    \* the Decembers: months with a rights checkpoint
    Users,
    Revs,        \* revisions
    MonthOf,     \* the month of each revision,
    TimeOf,      \* its time within the month,
    Author,      \* its user
    Kinds,       \* what else a history row says (namespace, type of user)
    LogEdits,    \* the sets of actions <<month, revision>> that may come or go at once
    RightsLogs,  \* the sequences of rights events that a month may have
    GroupSets,   \* the sets of groups that may have the autopatrol right
    NumParts,    \* source objects of a logging dump,
    PartOf,      \* and the one that holds each month
    Worlds,      \* what upstream knows at first
    MaxEdits,    \* bound: changes of the past
    MaxFaults    \* bound: kills and failed stores

Months == 1..NumMonths
Snaps == FirstSnap..NumMonths
Parts == 1..NumParts
Gone == "gone"    \* no such revision
Absent == <<>>    \* no such document
OpenEnd == 99     \* later than any time within a month

Pasts ==
    [revs : [Revs -> Kinds \cup {Gone}], log : [Months -> SUBSET Revs],
     rights : [Months -> RightsLogs], groups : GroupSets]

\* The rights events of a month, in the order of their times
Chronological(events) ==
    /\ Len(events) \in Nat /\ DOMAIN events = 1..Len(events)
    /\ \A i \in DOMAIN events :
          events[i].at \in 0..(OpenEnd - 1) /\ \A j \in 1..i : events[j].at <= events[i].at

ASSUME PatrolAssumption ==
    /\ NumMonths \in Nat /\ NumParts \in Nat /\ FirstSnap \in Months /\ YearEnds \subseteq Months
    /\ MonthOf \in [Revs -> Months] /\ TimeOf \in [Revs -> 0..(OpenEnd - 1)]
    /\ Author \in [Revs -> Users]
    /\ LogEdits \subseteq SUBSET (Months \X Revs) /\ PartOf \in [Months -> Parts]
    /\ Gone \notin Kinds /\ Worlds \subseteq Pasts /\ \A events \in RightsLogs : Chronological(events)
    /\ MaxEdits \in Nat /\ MaxFaults \in Nat

VARIABLES
    world,    \* what upstream knows now: revisions, patrol log, rights log, groups
    newest,   \* the newest snapshot
    hist,     \* the ingested history of each snapshot
    dump,     \* the logging dump of each snapshot, and whether it is done
    versions, \* history: every logging dump that was published for a snapshot
    plan,     \* patrol-source-plan.json of each snapshot: the identity of its sources
    meta,     \* autopatrol_groups.json, of the snapshot it was written for
    gen,      \* the committed generation of each snapshot
    pointer,  \* current-generation.json
    ptr,      \* cache: the index of an action month, by its patrol artifact
    ev,       \* cache: enriched events, with or without their receipt
    frames,   \* cache: metric months, with or without their receipt
    chk,      \* cache: rights checkpoints
    out,      \* the candidate directory: month parts, patrol.parquet, stage receipt
    pc,       \* the process: its place
    load,     \* its download: stage, next part, refreshed, what it has parsed
    idx,      \* its source indexes
    todo,     \* the action months to index
    month,    \* the timeline month it is at
    rights,   \* the rights state: the month it is valid through (0: none), users
    frame,    \* the metric month in memory
    edits, faults

upstream == <<world, newest, hist, dump, versions, edits>>
sources == <<plan, meta, gen, pointer>>
cache == <<ptr, ev, frames, chk>>
memory == <<load, idx, todo, month, rights, frame>>
vars == <<upstream, sources, cache, out, pc, memory, faults>>

NoFrame == Absent
NoLoad == [stage |-> "preflight", part |-> 1, refreshed |-> FALSE, got |-> <<>>]
NoOutput(s) == [snap |-> s, parts |-> <<>>, final |-> <<>>, receipt |-> Absent]
snap == out.snap

\* f, and g where f is not defined
Over(f, g) == [x \in DOMAIN f \cup DOMAIN g |-> IF x \in DOMAIN f THEN f[x] ELSE g[x]]
Put(k, v, f) == Over([x \in {k} |-> v], f)

-----------------------------------------------------------------------------
(* Upstream *)

\* What differs from w in one fact of the past, or not at all.
Edited(w) ==
    {w}
    \cup {[w EXCEPT !.revs[r] = k] : r \in Revs, k \in Kinds \cup {Gone}}
    \cup {[w EXCEPT !.log = [m \in Months |-> SymDiff(@[m], {r \in Revs : <<m, r>> \in c})]] :
              c \in LogEdits}
    \cup {[w EXCEPT !.rights[m] = e] : m \in Months, e \in RightsLogs}
    \cup {[w EXCEPT !.groups = g] : g \in GroupSets}

\* The dump is taken in the month after the snapshot and has events of it.
Logged(w, s) ==
    [m \in Months |-> IF m <= s + 1 THEN [log |-> w.log[m], rights |-> w.rights[m]]
                                    ELSE [log |-> {}, rights |-> <<>>]]
History(w, s) == [r \in Revs |-> IF MonthOf[r] <= s THEN w.revs[r] ELSE Gone]

\* A change is made when it can be seen.
Seen(w, s) == <<History(w, s), Logged(w, s), w.groups>>

Edit(w) == edits' = edits + (IF w = world THEN 0 ELSE 1) /\ edits' <= MaxEdits /\ world' = w

\* The history of a snapshot is ingested before anything else (SourceWindow), and
\* a process reads nothing of another snapshot than its own.
Release ==
    /\ pc = "idle" /\ newest < NumMonths
    /\ newest' = newest + 1
    /\ \E w \in Edited(world) :
          /\ Seen(w, newest') # Seen(world, newest') \/ w = world
          /\ \E r \in Revs : History(w, newest')[r] # Gone
          /\ Edit(w)
          /\ hist' = [hist EXCEPT ![newest'] = History(w, newest')]
          /\ dump' = [dump EXCEPT ![newest'] = [logs |-> Logged(w, newest'), done |-> FALSE]]
          /\ versions' = [versions EXCEPT ![newest'] = {Logged(w, newest')}]
    /\ UNCHANGED <<sources, cache, out, pc, memory, faults>>

\* A dump job that was done runs again (preflight: "A dump job can be regenerated
\* after it first reports done").
Republish ==
    /\ newest \in Snaps /\ gen[newest] = Absent
    /\ \E w \in Edited(world) :
          /\ Logged(w, newest) # Logged(world, newest)
          /\ Edit(w)
          /\ dump' = [dump EXCEPT ![newest] = [logs |-> Logged(w, newest), done |-> FALSE]]
          /\ versions' = [versions EXCEPT ![newest] = @ \cup {Logged(w, newest)}]
    /\ UNCHANGED <<newest, hist, sources, cache, out, pc, memory, faults>>

DumpDone ==
    /\ newest \in Snaps /\ ~dump[newest].done
    /\ dump' = [dump EXCEPT ![newest].done = TRUE]
    /\ UNCHANGED <<world, newest, hist, versions, edits, sources, cache, out, pc, memory, faults>>

-----------------------------------------------------------------------------
(* The process *)

Goto(place) == pc' = place
Forget ==
    /\ load' = NoLoad /\ idx' = <<>> /\ todo' = {} /\ month' = 0
    /\ rights' = [through |-> 0, users |-> {}] /\ frame' = NoFrame
End == pc' = "idle" /\ Forget

Delivered == out.receipt # Absent /\ snap = newest

\* A new run id has a new candidate directory; the same one finds its own again,
\* complete when it was a later stage that failed.
Start ==
    /\ pc = "idle" /\ newest \in Snaps
    /\ \/ snap = newest /\ UNCHANGED out
       \/ ~Delivered /\ out' = NoOutput(newest)
    /\ Goto("preflight")
    /\ UNCHANGED <<upstream, sources, cache, memory, faults>>

Kill ==
    /\ pc \notin {"idle", "refused"} /\ faults < MaxFaults /\ faults' = faults + 1
    /\ End
    /\ UNCHANGED <<upstream, sources, cache, out>>

\* The mutation keeps a plan that it finds.
Refresh_Cached == plan' = [plan EXCEPT ![snap] = IF @ = Absent THEN dump[snap].logs ELSE @]

\* PatrolSourcePlan::refresh
Refresh == plan' = [plan EXCEPT ![snap] = dump[snap].logs]

\* PatrolSourcePlan::resolve: the recombined job or the split one is done
Resolves == dump[snap].done

\* preflight, first as a stage of its own and again within fetch: nothing once the
\* generation exists; without a completed dump the run ends with status 75.
Preflight ==
    /\ pc = "preflight"
    /\ \/ /\ gen[snap] # Absent
          /\ Goto("fetch") /\ UNCHANGED <<plan, memory>>
       \/ /\ gen[snap] = Absent /\ Resolves
          /\ Refresh /\ Goto("groups") /\ UNCHANGED memory
       \/ /\ gen[snap] = Absent /\ ~Resolves
          /\ End /\ UNCHANGED plan
    /\ UNCHANGED <<upstream, meta, gen, pointer, cache, out, faults>>

\* The groups are read from the API once for a snapshot; when it names none, the
\* ones of the snapshot before are kept.
Groups ==
    /\ pc = "groups"
    /\ meta' = [snap |-> snap,
                groups |-> IF meta.snap = snap \/ (world.groups = {} /\ meta.snap # 0)
                           THEN meta.groups ELSE world.groups]
    /\ Goto(IF load.stage = "preflight" THEN "fetch" ELSE "build")
    /\ UNCHANGED <<upstream, plan, gen, pointer, cache, out, memory, faults>>

\* fetch; skipped beside a candidate of the same snapshot whose generation exists
Fetch ==
    /\ pc = "fetch"
    /\ IF gen[snap] # Absent
       THEN pointer' \in {pointer, snap} /\ Goto("compute") /\ UNCHANGED load
       ELSE load' = [load EXCEPT !.stage = "fetch"] /\ Goto("preflight") /\ UNCHANGED pointer
    /\ UNCHANGED <<upstream, plan, meta, gen, cache, out, idx, todo, month, rights, frame, faults>>

PartLogs(logs, p) == [m \in {n \in Months : PartOf[n] = p} |-> logs[m]]

\* The mutation takes whatever was downloaded.
Matches_Unchecked(p) == TRUE

\* download_logging_source: length and SHA-1 are those of the plan
Matches(p) == PartLogs(dump[snap].logs, p) = PartLogs(plan[snap], p)

\* build_generation, source by source
Download ==
    /\ pc = "build" /\ load.part \in Parts /\ Matches(load.part)
    /\ load' = [load EXCEPT !.part = @ + 1, !.got = Over(PartLogs(dump[snap].logs, load.part), @)]
    /\ UNCHANGED <<upstream, sources, cache, out, pc, idx, todo, month, rights, frame, faults>>

\* Another identity: the staging directory goes, the plan is refreshed, and the
\* build starts over, once.
Changed ==
    /\ pc = "build" /\ load.part \in Parts /\ ~Matches(load.part)
    /\ IF ~load.refreshed /\ Resolves
       THEN /\ Refresh
            /\ load' = [load EXCEPT !.part = 1, !.got = <<>>, !.refreshed = TRUE]
            /\ UNCHANGED <<pc, idx, todo, month, rights, frame>>
       ELSE End /\ UNCHANGED plan
    /\ UNCHANGED <<upstream, meta, gen, pointer, cache, out, faults>>

\* The rename of the staging directory.
Commit ==
    /\ pc = "build" /\ load.part > NumParts
    /\ gen' = [gen EXCEPT ![snap] = [logs |-> load.got, groups |-> meta.groups]]
    /\ Goto("pointer")
    /\ UNCHANGED <<upstream, plan, meta, pointer, cache, out, memory, faults>>

PublishPointer ==
    /\ pc = "pointer"
    /\ pointer' = snap
    /\ Goto("compute")
    /\ UNCHANGED <<upstream, plan, meta, gen, cache, out, memory, faults>>

-----------------------------------------------------------------------------
(* What the computation reads *)

table == hist[snap]
logs == gen[snap].logs
groups == gen[snap].groups

Present(m) == {r \in Revs : MonthOf[r] = m /\ table[r] # Gone}
Digest(m) == [r \in Present(m) |-> table[r]]
ActionMonths == {m \in Months : logs[m].log # {}}

\* The mutation also computes the month that the snapshot has only begun.
OutputMonths_Begun == {m \in Months : Present(m) # {} \/ m \in ActionMonths}

\* snapshot_contains_complete_month
OutputMonths ==
    {m \in Months : m <= snap /\ (Present(m) # {} \/ m \in ActionMonths)}
Timeline ==
    OutputMonths \cup {m \in Months : logs[m].rights # <<>> /\ m <= Max(OutputMonths)}

-----------------------------------------------------------------------------
(* Source indexes *)

Artifact(a) == <<a, logs[a].log>>

\* The lookup, in the months nearby first and in all files for the rest
Found(a) == {r \in logs[a].log : table[r] # Gone}

\* build_source_index: what it writes is named by what it was built from
Index(a) ==
    [art |-> Artifact(a), deps |-> [m \in {MonthOf[r] : r \in Found(a)} |-> Digest(m)],
     unresolved |-> Found(a) # logs[a].log]
Enriched(a) == {<<r, table[r]>> : r \in logs[a].log}

\* The mutation does not reconsider what could not be resolved.
DependenciesMatch_Resolved(x) ==
    \A m \in DOMAIN x.deps : Present(m) # {} /\ Digest(m) = x.deps[m]

DependenciesMatch(x) ==
    /\ ~x.unresolved
    /\ \A m \in DOMAIN x.deps : Present(m) # {} /\ Digest(m) = x.deps[m]

EventsReusable(x) == \E e \in ev : e.key = x /\ e.receipt

\* load_reusable_source_index
Reusable(a) ==
    {x \in ptr : x.art = Artifact(a) /\ DependenciesMatch(x) /\ EventsReusable(x)}

\* The receipt covers the generation, the history and the merged output.
StageReceipt == [inputs |-> <<table, gen[snap]>>, output |-> out.final]

AfterIndex(left) == IF left = {} THEN "month" ELSE "index"

\* The head of incremental::compute and the first loop of ensure_source_indexes
Compute ==
    /\ pc = "compute"
    /\ IF out.receipt = StageReceipt
       THEN End /\ UNCHANGED out
       ELSE /\ out' = [out EXCEPT !.parts = <<>>]
            /\ idx' = [a \in {b \in ActionMonths : Reusable(b) # {}} |->
                          CHOOSE x \in Reusable(a) : TRUE]
            /\ todo' = ActionMonths \ DOMAIN idx'
            /\ month' = Min(Timeline)
            /\ Goto(AfterIndex(todo'))
            /\ UNCHANGED <<load, rights, frame>>
    /\ UNCHANGED <<upstream, sources, cache, faults>>

Pointed(a) ==
    /\ ptr' = {x \in ptr : x.art # Artifact(a)} \cup {Index(a)}
    /\ idx' = Put(a, Index(a), idx)
    /\ todo' = todo \ {a}
    /\ Goto(AfterIndex(todo'))

\* CrossSnapshotCache::store: the artifact, then its receipt
IndexEvents ==
    /\ pc = "index"
    /\ LET a == Min(todo) IN
       IF EventsReusable(Index(a))
       THEN Pointed(a) /\ UNCHANGED ev
       ELSE /\ ev' = {e \in ev : e.key # Index(a)}
                     \cup {[key |-> Index(a), data |-> Enriched(a), receipt |-> FALSE]}
            /\ Goto("events") /\ UNCHANGED <<ptr, idx, todo>>
    /\ UNCHANGED <<upstream, sources, frames, chk, out, load, month, rights, frame, faults>>

IndexReceipt ==
    /\ pc = "events"
    /\ ev' = {[e EXCEPT !.receipt = @ \/ e.key = Index(Min(todo))] : e \in ev}
    /\ Goto("source")
    /\ UNCHANGED <<upstream, sources, ptr, frames, chk, out, memory, faults>>

IndexPointer ==
    /\ pc = "source"
    /\ Pointed(Min(todo))
    /\ UNCHANGED <<upstream, sources, ev, frames, chk, out, load, month, rights, frame, faults>>

-----------------------------------------------------------------------------
(* Rights *)

Prefix(m) == [n \in {k \in 1..m : logs[k].rights # <<>>} |-> logs[n].rights]

Holds(gs, grps) == gs \cap grps # {}

\* The events that give a user the right or take it away
Changes(u, events, grps) ==
    {i \in DOMAIN events :
        events[i].user = u /\ Holds(events[i].old, grps) # Holds(events[i].new, grps)}

\* advance_rights_month for one user: intervals <<start, end>> within the month,
\* which begins at 0, and the start of the open one (or None).
None == OpenEnd
Step(acc, e, grps) ==
    LET closed == IF acc.start # None /\ ~Holds(e.old, grps)
                  THEN [start |-> None, ivs |-> acc.ivs \cup {<<acc.start, e.at>>}]
                  ELSE IF acc.start = None /\ Holds(e.old, grps)
                  THEN [acc EXCEPT !.start = 0]
                  ELSE acc
    IN IF Holds(e.new, grps)
       THEN [closed EXCEPT !.start = IF @ = None THEN e.at ELSE @]
       ELSE IF closed.start # None
       THEN [start |-> None, ivs |-> closed.ivs \cup {<<closed.start, e.at>>}]
       ELSE closed
Replay(u, events, grps, users) ==
    LET acc[i \in 0..Len(events)] ==
            IF i = 0 THEN [start |-> IF u \in users THEN 0 ELSE None, ivs |-> {}]
            ELSE IF i \in Changes(u, events, grps) THEN Step(acc[i - 1], events[i], grps)
            ELSE acc[i - 1]
    IN acc[Len(events)]
Holders(events, grps, users) == {u \in Users : Replay(u, events, grps, users).start # None}
Intervals(u, events, grps, users) ==
    LET end == Replay(u, events, grps, users)
    IN end.ivs \cup (IF end.start = None THEN {} ELSE {<<end.start, OpenEnd>>})
HasAutopatrol(u, t, events, grps, users) ==
    \E i \in Intervals(u, events, grps, users) : i[1] <= t /\ t < i[2]

\* The mutation forgets the rights events before the checkpoint.
CheckpointKey_NoPrefix(m) == <<m, <<>>, groups>>
CheckpointKey(m) == <<m, Prefix(m), groups>>

Checkpoints(m) == {c \in chk : c.key = CheckpointKey(m)}

-----------------------------------------------------------------------------
(* Months *)

EventsOf(a) == UNION {e.data : e \in {f \in ev : f.key = idx[a] /\ f.receipt}}

\* process_revision_file: an autopatrolled revision is one that nobody patrolled
Class(r, patrolled, users) ==
    IF r \in patrolled THEN "patrolled"
    ELSE IF HasAutopatrol(Author[r], TimeOf[r], logs[MonthOf[r]].rights, groups, users)
    THEN "auto" ELSE "none"

\* aggregate_patrol_stats
Actions(m) == IF m \in DOMAIN idx THEN EventsOf(m) ELSE {}

\* compute_month
MonthFrame(m, users) ==
    LET referring == {a \in DOMAIN idx : m \in DOMAIN idx[a].deps}
        patrolled == {e[1] : e \in {f \in UNION {EventsOf(a) : a \in referring} :
                                        f[2] # Gone /\ MonthOf[f[1]] = m}}
    IN [rows |-> {<<r, table[r], Class(r, patrolled, users)>> : r \in Present(m)},
        acts |-> Actions(m)]

ActionKey(m) == IF m \in DOMAIN idx THEN idx[m] ELSE Absent
References(m) ==
    [a \in {b \in DOMAIN idx : m \in DOMAIN idx[b].deps} |-> idx[a]]

MonthKey(m) == <<Digest(m), Prefix(m), groups, ActionKey(m), References(m)>>

Cached(m) == {f \in frames : f.key = MonthKey(m) /\ f.receipt}

Later(m) == {n \in Timeline : n > m}
NextMonth ==
    /\ month' = IF Later(month) = {} THEN month ELSE Min(Later(month))
    /\ frame' = NoFrame
    /\ Goto(IF Later(month) = {} THEN "merge" ELSE "month")

\* restore_rights_checkpoint: the newest one before the month, or from the beginning
Restored ==
    LET ends == {n \in YearEnds \cap Timeline : n < month /\ Checkpoints(n) # {}}
    IN IF ends = {} THEN [through |-> 0, users |-> {}]
       ELSE [through |-> Max(ends), users |-> (CHOOSE c \in Checkpoints(Max(ends)) : TRUE).users]

Begin ==
    /\ pc = "month"
    /\ IF month \in OutputMonths
       THEN IF Cached(month) # {}
            THEN /\ frame' = (CHOOSE f \in Cached(month) : TRUE).frame
                 /\ Goto(IF rights.through = 0 THEN "part" ELSE "advance")
                 /\ UNCHANGED <<rights, month>>
            ELSE /\ rights' = IF rights.through = 0 THEN Restored ELSE rights
                 /\ Goto("advance")
                 /\ UNCHANGED <<frame, month>>
       ELSE IF rights.through = 0 THEN NextMonth /\ UNCHANGED rights
       ELSE Goto("advance") /\ UNCHANGED <<rights, frame, month>>
    /\ UNCHANGED <<upstream, sources, cache, out, load, idx, todo, faults>>

\* write_or_validate_checkpoint
Contradicted(n, users) == \E c \in Checkpoints(n) : c.users # users

\* advance_state_through, a month at a time, with the checkpoint of a December
Advance ==
    /\ pc = "advance"
    /\ LET n == Min({k \in Timeline : k > rights.through})
           users == Holders(logs[n].rights, groups, rights.users)
       IN IF n \in YearEnds /\ Contradicted(n, users)
          THEN Goto("refused") /\ UNCHANGED <<chk, rights, month, frame>>
          ELSE /\ chk' = IF n \in YearEnds
                         THEN chk \cup {[key |-> CheckpointKey(n), users |-> users]} ELSE chk
               /\ rights' = [through |-> n, users |-> users]
               /\ IF n # month THEN UNCHANGED <<pc, month, frame>>
                  ELSE IF month \notin OutputMonths THEN NextMonth
                  ELSE IF frame # NoFrame THEN Goto("part") /\ UNCHANGED <<month, frame>>
                  ELSE /\ frame' = MonthFrame(month, rights.users)
                       /\ Goto("store") /\ UNCHANGED month
    /\ UNCHANGED <<upstream, sources, ptr, ev, frames, out, load, idx, todo, faults>>

Store ==
    /\ pc = "store"
    /\ frames' = {f \in frames : f.key # MonthKey(month)}
                 \cup {[key |-> MonthKey(month), frame |-> frame, receipt |-> FALSE]}
    /\ Goto("stored")
    /\ UNCHANGED <<upstream, sources, ptr, ev, chk, out, memory, faults>>

StoreReceipt ==
    /\ pc = "stored"
    /\ frames' = {[f EXCEPT !.receipt = @ \/ f.key = MonthKey(month)] : f \in frames}
    /\ Goto("part")
    /\ UNCHANGED <<upstream, sources, ptr, ev, chk, out, memory, faults>>

\* A store that fails takes the artifact and the receipt away again.
StoreFails ==
    /\ pc \in {"events", "stored"} /\ faults < MaxFaults /\ faults' = faults + 1
    /\ IF pc = "events"
       THEN ev' = {e \in ev : e.key # Index(Min(todo))} /\ UNCHANGED frames
       ELSE frames' = {f \in frames : f.key # MonthKey(month)} /\ UNCHANGED ev
    /\ End
    /\ UNCHANGED <<upstream, sources, ptr, chk, out>>

WritePart ==
    /\ pc = "part"
    /\ out' = [out EXCEPT !.parts = Put(month, frame, @)]
    /\ NextMonth
    /\ UNCHANGED <<upstream, sources, cache, load, idx, todo, rights, faults>>

MergeParts ==
    /\ pc = "merge"
    /\ out' = [out EXCEPT !.final = out.parts]
    /\ Goto("record")
    /\ UNCHANGED <<upstream, sources, cache, memory, faults>>

Record ==
    /\ pc = "record"
    /\ out' = [out EXCEPT !.receipt = StageReceipt]
    /\ End
    /\ UNCHANGED <<upstream, sources, cache, faults>>

-----------------------------------------------------------------------------
Init ==
    /\ world \in Worlds /\ newest = FirstSnap - 1
    /\ hist = [s \in Snaps |-> [r \in Revs |-> Gone]]
    /\ dump = [s \in Snaps |-> [logs |-> Absent, done |-> FALSE]]
    /\ versions = [s \in Snaps |-> {}]
    /\ plan = [s \in Snaps |-> Absent] /\ meta = [snap |-> 0, groups |-> {}]
    /\ gen = [s \in Snaps |-> Absent] /\ pointer = 0
    /\ ptr = {} /\ ev = {} /\ frames = {} /\ chk = {}
    /\ out = NoOutput(FirstSnap)
    /\ pc = "idle" /\ load = NoLoad /\ idx = <<>> /\ todo = {} /\ month = 0
    /\ rights = [through |-> 0, users |-> {}] /\ frame = NoFrame
    /\ edits = 0 /\ faults = 0

Work ==
    \/ Start \/ Preflight \/ Groups \/ Fetch \/ Download \/ Changed \/ Commit \/ PublishPointer
    \/ Compute \/ IndexEvents \/ IndexReceipt \/ IndexPointer
    \/ Begin \/ Advance \/ Store \/ StoreReceipt \/ WritePart \/ MergeParts \/ Record

Next == Work \/ Release \/ Republish \/ DumpDone \/ Kill \/ StoreFails

Spec == Init /\ [][Next]_vars

\* The queue starts a preparation that has not delivered again, and upstream
\* completes its dumps.
FairSpec == Spec /\ WF_vars(Work) /\ WF_vars(DumpDone)

-----------------------------------------------------------------------------
(* Properties *)

\* Types and structure.  The process works on a released snapshot, the pointer names
\* a committed generation and the computation has one; no part is written for the
\* month that a snapshot has only begun; the plan is there before the download.
TypeOK ==
    /\ world \in Pasts
    /\ newest \in Snaps \cup {FirstSnap - 1}
    /\ \A s \in Snaps : gen[s] # Absent => s <= newest /\ DOMAIN gen[s].logs = Months
    /\ pointer \in {0} \cup {s \in Snaps : gen[s] # Absent}
    /\ meta.snap \in {0} \cup FirstSnap..newest
    /\ pc \in {"idle", "refused", "preflight", "groups", "fetch", "build", "pointer", "compute",
               "index", "events", "source", "month", "advance", "store", "stored", "part",
               "merge", "record"}
    /\ pc # "idle" => snap = newest
    /\ pc = "build" => plan[snap] # Absent /\ meta.snap = snap
    /\ pc \in {"index", "events", "source"} => todo # {}
    /\ pc \in {"month", "advance", "store", "stored", "part"} => month \in Timeline
    /\ DOMAIN out.parts \cup DOMAIN out.final \subseteq 1..snap
    /\ rights.through \in 0..month
    /\ edits \in 0..MaxEdits /\ faults \in 0..MaxFaults

\* The rights a user has carried into a month: those of the last change before it.
Carried(u, m) ==
    \E n \in 1..(m - 1) :
        /\ \E i \in Changes(u, logs[n].rights, groups) :
              /\ Holds(logs[n].rights[i].new, groups)
              /\ \A j \in Changes(u, logs[n].rights, groups) : j <= i
        /\ \A k \in (n + 1)..(m - 1) : Changes(u, logs[k].rights, groups) = {}

\* Did the user have the right at time t of month m?  By the latest change before,
\* or by a change after, from the start of the month, which takes away a right
\* that no change of the month gave.
Autopatrolled(u, t, m) ==
    LET es == logs[m].rights
        changes == Changes(u, es, groups)
    IN \/ Carried(u, m) /\ \A i \in changes : t < es[i].at
       \/ \E i \in changes : /\ es[i].at <= t /\ Holds(es[i].new, groups)
                             /\ \A j \in changes : es[j].at <= t => j <= i
       \/ \E i \in changes :
              /\ t < es[i].at /\ Holds(es[i].old, groups)
              /\ \A j \in changes : (j < i /\ \A k \in changes : k < i => k <= j)
                                       => ~Holds(es[j].new, groups)

Status(r) ==
    IF \E a \in Months : r \in logs[a].log THEN "patrolled"
    ELSE IF Autopatrolled(Author[r], TimeOf[r], MonthOf[r]) THEN "auto" ELSE "none"

\* A metric month computed from nothing but the history and the generation.
CleanMonth(m) ==
    [rows |-> {<<r, table[r], Status(r)>> : r \in Present(m)},
     acts |-> {<<r, table[r]>> : r \in logs[m].log}]

\* docs/incremental-patrol.md: "incremental and clean patrol output is
\* byte-identical".  Whatever was cached for earlier snapshots, reverted upstream
\* or left by a killed run, every part is what a computation from nothing gives,
\* and so is the whole output once it has its receipt.
OutputExact ==
    /\ \A m \in DOMAIN out.parts : out.parts[m] = CleanMonth(m)
    /\ out.receipt # Absent =>
           /\ DOMAIN out.final = OutputMonths
           /\ \A m \in OutputMonths : out.final[m] = CleanMonth(m)

\* No run is ever refused by a checkpoint that an earlier run has written
\* ("patrol rights checkpoint state changed").
CheckpointsAgree == pc # "refused"

\* A committed generation holds the logs of one published dump, although upstream
\* may replace any of its objects at any time of the download.
OneVersion == \A s \in Snaps : gen[s] # Absent => gen[s].logs \in versions[s]

\* Every snapshot gets its patrol metrics unless a newer one is released first.
Delivers == []<>(newest \in Snaps => Delivered)
=============================================================================
