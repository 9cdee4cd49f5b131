---------------------------- MODULE CandidateStore ----------------------------
(***************************************************************************)
(* The candidates and the input generations of one wiki, and everybody who *)
(* creates, authenticates and deletes them: preparation (orchestration.rs, *)
(* publication.rs), receipt-authorized retention (retention.rs), migration *)
(* of retained candidates, age-based cleanup (cleanup.rs), retirement by   *)
(* an operator, and the publisher.                                         *)
(*                                                                         *)
(* A fleet preparation holds the prepare lock of the wiki and the          *)
(* publisher the publication lock; cleanup only looks whether the prepare  *)
(* lock exists; the operator's commands take no lock.  The publication     *)
(* transaction itself is module Publication, the ingestion of a snapshot   *)
(* module SourceWindow: here each is two steps.                            *)
(***************************************************************************)
EXTENDS Naturals, Sequences, FiniteSets, SequencesExt

CONSTANTS
    MaxCands,   \* bound: candidates, numbered in the order of their run ids
    MaxSnap,    \* bound: snapshots upstream publishes
    MaxAlg,     \* bound: algorithm versions; version 2 is deployed at first
    MaxEvents,  \* bound: deployments, operator commands, cleanup passes, faults
    Limit       \* bound: one of a kind is among the first Limit[kind] of all (0: never)

Cands == 1..MaxCands
Snaps == 1..MaxSnap
Events == {"deploy", "release", "rebuild", "migrate", "retire", "resume", "retain",
           "cleanup", "crash", "fail"}

ASSUME StoreAssumption ==
    /\ MaxCands \in Nat \ {0, 1} /\ MaxSnap \in Nat \ {0} /\ MaxAlg \in Nat \ {0, 1}
    /\ MaxEvents \in Nat /\ Limit \in [Events -> 0..MaxEvents]

VARIABLES
    cand,     \* each candidate: snapshot, algorithm, directory, record, lineage
    ready,    \* of each candidate with a ready.json, the candidates whose own is no newer
    src,      \* each snapshot's fragments, generation manifest, compaction manifest and
              \* source plan, and the candidates whose stage receipts fit the inputs there
    receipt,  \* data/retention/<wiki>/<snapshot>.json
    live,     \* the target of output/<wiki>; the snapshot pointer names its snapshot
    index,    \* the ready index
    upstream, \* the newest complete snapshot, and the deployed algorithms
    prep,     \* the preparation
    lock,     \* the prepare lock exists
    pub,      \* the publisher
    mig,      \* migrate-retained-candidate
    clean,    \* cleanup-stale
    op,       \* retire-candidate
    events,   \* events so far
    raced,    \* history: candidates retired by an operator, or over a newer record
    orphans   \* history: migrations under way when a commit retired what they came from

storeVars == <<cand, ready>>
dataVars == <<src, receipt>>
actors == <<prep, lock, pub, mig, clean, op>>
history == <<raced, orphans>>
vars == <<storeVars, dataVars, live, index, upstream, actors, events, history>>

None == 0
GStates == {"none", "building", "validated", "ready", "published", "superseded", "retired"}
Resumable == {"building", "validated"}
Gone == {"superseded", "retired"}
Unused == [snap |-> 1, alg |-> 0, files |-> "none", rec |-> "none", old |-> FALSE, line |-> <<>>]
NoSource ==
    [data |-> "none", man |-> FALSE, comp |-> FALSE, plan |-> FALSE, old |-> FALSE, fits |-> {}]
Idle == [pc |-> "idle", cand |-> None]
NoOp == [pc |-> "idle", cand |-> None, alg |-> 1]
NoPrep == [pc |-> "idle", cand |-> None, snap |-> 1, alg |-> 1, locked |-> FALSE]

Event(kind) == events < Limit[kind] /\ events' = events + 1

Fresh == {c \in Cands : cand[c].rec = "none" /\ \A d \in Cands : d < c => cand[d].rec # "none"}
IsReady(c) == ready[c] # {}
Receipts == {c \in Cands : IsReady(c)}
ReadyOf(s) == {c \in Receipts : cand[c].snap = s}
Pointer == cand[live].snap

-----------------------------------------------------------------------------
(* Authentication *)

\* retained_ready_lineage_origin: the receipt names the candidate, or one it was
\* migrated from over ready receipts that all still exist.
Lineage(c, origin) ==
    \E n \in DOMAIN cand[c].line :
        /\ cand[c].line[n] = origin
        /\ \A k \in 1..n : IsReady(cand[c].line[k])

\* validate_purged_snapshot and the lineage
Retained(c) ==
    LET s == cand[c].snap
    IN receipt[s].cand # None /\ src[s].plan /\ Lineage(c, receipt[s].cand)

\* ensure_generation_manifest: the ingest receipt proves the manifest without a look
\* at the fragments; the compaction manifest that it names must be there.
Proven(s) == src[s].man /\ src[s].comp

\* The mutation authenticates purged inputs only once the purge is recorded.
Authentic_AppliedOnly(c) ==
    /\ IsReady(c)
    /\ Proven(cand[c].snap) \/ (Retained(c) /\ receipt[cand[c].snap].state = "applied")

\* validate_ready_candidate_metadata: by the manifest or by the retention receipt
Authentic(c) == IsReady(c) /\ (Proven(cand[c].snap) \/ Retained(c))

Intact(c) == cand[c].files = "full"

\* resilient_ready_candidate_reference: stage receipts that are current for the
\* present inputs and for the algorithms of the process that looks; the retention
\* receipt only once the generation manifest is gone.
RefOK(c, alg) ==
    LET s == cand[c].snap
    IN /\ Authentic(c) /\ Intact(c)
       /\ IF src[s].man THEN src[s].comp /\ c \in src[s].fits /\ cand[c].alg = alg
          ELSE Retained(c)

\* active_ready_reference needs no current stage receipts
IndexWritable == Authentic(live) /\ Intact(live)

IndexValid(alg) ==
    /\ index.newest # None
    /\ RefOK(index.newest, alg) /\ cand[index.newest].rec \notin Gone
    /\ index.active = live /\ IndexWritable

Discoverable(alg) == {c \in Receipts : RefOK(c, alg) /\ cand[c].rec \notin Gone}

\* By snapshot, then by ready_at
Newer(c, d) ==
    \/ cand[c].snap > cand[d].snap
    \/ cand[c].snap = cand[d].snap /\ d \in ready[c]
NewestOf(S) == CHOOSE c \in S : \A d \in S \ {c} : Newer(c, d)

\* indexed_latest_ready_candidate: the index, or a scan that rewrites it
CanSelect(alg) == IndexValid(alg) \/ (Discoverable(alg) # {} /\ IndexWritable)
Selection(alg) == IF IndexValid(alg) THEN index.newest ELSE NewestOf(Discoverable(alg))

\* reconcile_ready_generation_state
Reconciled(S) ==
    [c \in Cands |-> IF c \in S /\ cand[c].rec \in Resumable
                     THEN [cand[c] EXCEPT !.rec = "ready", !.old = FALSE] ELSE cand[c]]

\* A selection reconciles the indexed candidate, or all that a scan authenticates.
Scanned == {c \in Receipts : Authentic(c)}
Looked(alg) == IF IndexValid(alg) THEN {index.newest} ELSE Scanned

WriteIndex(c) == index' = [newest |-> c, active |-> live]

Record(c, s) == cand' = [cand EXCEPT ![c].rec = s, ![c].old = FALSE]

\* A ready.json written now is the newest of all.
Stamped(c) == [d \in Cands |-> IF d = c THEN Receipts \cup {c} ELSE ready[d] \ {c}]
Without(S) == [d \in Cands |-> IF d \in S THEN {} ELSE ready[d] \ S]

\* The mutation takes the directory for granted.
WriteReady_NoParent(c) ==
    /\ ready' = Stamped(c)
    /\ UNCHANGED cand

\* atomic_json makes the parent directories: a receipt in a directory that was
\* removed stands alone.
WriteReady(c) ==
    /\ ready' = Stamped(c)
    /\ cand' = [cand EXCEPT ![c].files = IF @ = "none" THEN "husk" ELSE @]

-----------------------------------------------------------------------------
(* Preparation *)

PrepGoto(pc) == prep' = [prep EXCEPT !.pc = pc]
PrepEnd == prep' = NoPrep /\ lock' = (lock /\ ~prep.locked)

\* The lock of a preparation that died is taken over when it is stale.
PrepStart ==
    /\ prep.pc = "idle"
    /\ prep' = [pc |-> "plan", cand |-> None, snap |-> upstream.snap, alg |-> upstream.alg,
                 locked |-> TRUE]
    /\ lock' = TRUE
    /\ src' = [src EXCEPT ![upstream.snap].plan = TRUE]
    /\ UNCHANGED <<storeVars, receipt, live, index, upstream, pub, mig, clean, op, events, history>>

\* The latest candidate of the snapshot has outputs of the deployed algorithms;
\* without a retention receipt its inputs are compared as well.
Unchanged(s) ==
    LET purged == receipt[s].cand # None
        current == {c \in ReadyOf(s) : /\ Intact(c) /\ cand[c].alg = prep.alg
                                       /\ Proven(s) /\ c \in src[s].fits}
    IN IF purged
       THEN IF ReadyOf(s) = {} THEN {} ELSE
            {c \in {NewestOf(ReadyOf(s))} : Intact(c) /\ cand[c].alg = prep.alg}
       ELSE {c \in current : \A d \in current : d <= c}

Planned(s) == \A c \in ReadyOf(s) : Authentic(c)

Begin(c, s) ==
    cand' = [Reconciled(ReadyOf(s)) EXCEPT
                ![c] = [snap |-> s, alg |-> prep.alg, files |-> "full", rec |-> "building",
                        old |-> FALSE, line |-> <<c>>]]

\* A same-snapshot run that has nothing to do
PlanNoOp ==
    LET s == prep.snap
    IN /\ prep.pc = "plan" /\ Planned(s)
       /\ Unchanged(s) # {} /\ CanSelect(prep.alg) /\ Selection(prep.alg) \in Unchanged(s)
       /\ cand' = Reconciled(ReadyOf(s) \cup Looked(prep.alg))
       /\ WriteIndex(Selection(prep.alg))
       /\ PrepEnd
       /\ UNCHANGED <<ready, dataVars, live, upstream, pub, mig, clean, op, events, history>>

PlanBuild ==
    LET s == prep.snap
    IN /\ prep.pc = "plan" /\ Planned(s) /\ Unchanged(s) = {}
       /\ \E c \in Fresh :
             Begin(c, s) /\ prep' = [prep EXCEPT !.pc = "source", !.cand = c]
       /\ UNCHANGED <<ready, dataVars, live, index, upstream, lock, pub, mig, clean, op, events, history>>

\* The operator's prepare-wiki --rebuild: no lock, no scan, any snapshot that is
\* complete upstream.
RebuildBegin ==
    /\ prep.pc = "idle" /\ Event("rebuild")
    /\ \E c \in Fresh, s \in 1..upstream.snap :
          /\ cand' = [cand EXCEPT ![c] = [snap |-> s, alg |-> upstream.alg, files |-> "full",
                                          rec |-> "building", old |-> FALSE, line |-> <<c>>]]
          /\ src' = [src EXCEPT ![s].plan = TRUE]
          /\ prep' = [pc |-> "source", cand |-> c, snap |-> s, alg |-> upstream.alg, locked |-> FALSE]
    /\ UNCHANGED <<ready, receipt, live, index, upstream, lock, pub, mig, clean, op, history>>

Hollow == Proven(prep.snap) /\ src[prep.snap].data = "none"
Orphaned == src[prep.snap].man /\ ~src[prep.snap].comp

\* pending_sources go by the markers beside the fragments; manifests whose fragments
\* are gone end the run.  Whoever needs the source plan writes it when it is missing.
SourceBegin ==
    /\ prep.pc = "source" /\ ~Hollow
    /\ src' = [src EXCEPT ![prep.snap].data = IF @ = "whole" THEN @ ELSE "partial",
                          ![prep.snap].old = @ /\ src[prep.snap].data # "none",
                          ![prep.snap].plan = TRUE]
    /\ PrepGoto("ingest")
    /\ UNCHANGED <<storeVars, receipt, live, index, upstream, lock, pub, mig, clean, op, events, history>>

\* A generation manifest whose compaction manifest is gone is not replaced.
SourceEnd ==
    /\ prep.pc = "ingest" /\ src[prep.snap].data # "none" /\ ~Orphaned
    /\ src' = [src EXCEPT ![prep.snap].data = "whole", ![prep.snap].man = TRUE,
                          ![prep.snap].comp = TRUE, ![prep.snap].plan = TRUE]
    /\ PrepGoto("compute")
    /\ UNCHANGED <<storeVars, receipt, live, index, upstream, lock, pub, mig, clean, op, events, history>>

Computable == src[prep.snap].data = "whole" /\ Proven(prep.snap)

\* The logs that the patrol metrics need are fetched when they are missing.  Which
\* earlier candidates the inputs fit once they have been made anew is left open.
Compute ==
    /\ prep.pc = "compute" /\ Computable
    /\ \E same \in SUBSET ReadyOf(prep.snap) :
          /\ src[prep.snap].fits # {} => same = {}
          /\ src' = [src EXCEPT ![prep.snap].fits = @ \cup same \cup {prep.cand},
                                ![prep.snap].plan = TRUE]
    /\ PrepGoto("validate")
    /\ UNCHANGED <<storeVars, receipt, live, index, upstream, lock, pub, mig, clean, op, events, history>>

\* The manifest and the patrol source are looked at again.
Validatable ==
    /\ Proven(prep.snap) /\ prep.cand \in src[prep.snap].fits
    /\ Intact(prep.cand) /\ cand[prep.cand].rec = "building"

PrepValidate ==
    /\ prep.pc = "validate" /\ Validatable
    /\ src' = [src EXCEPT ![prep.snap].plan = TRUE]
    /\ Record(prep.cand, "validated")
    /\ PrepGoto("receipt")
    /\ UNCHANGED <<ready, receipt, live, index, upstream, lock, pub, mig, clean, op, events, history>>

PrepReceipt ==
    /\ prep.pc = "receipt"
    /\ WriteReady(prep.cand)
    /\ PrepGoto("record")
    /\ UNCHANGED <<dataVars, live, index, upstream, lock, pub, mig, clean, op, events, history>>

PrepRecord ==
    /\ prep.pc = "record" /\ cand[prep.cand].rec \in {"validated", "ready"}
    /\ Record(prep.cand, "ready")
    /\ PrepGoto("index")
    /\ UNCHANGED <<ready, dataVars, live, index, upstream, lock, pub, mig, clean, op, events, history>>

PrepIndex ==
    /\ prep.pc = "index" /\ RefOK(prep.cand, prep.alg) /\ IndexWritable
    /\ WriteIndex(prep.cand)
    /\ PrepEnd
    /\ UNCHANGED <<storeVars, dataVars, live, upstream, pub, mig, clean, op, events, history>>

\* What makes the step at hand fail
PrepImpossible ==
    CASE prep.pc = "plan" ->
            LET s == prep.snap
            IN ~Planned(s) \/ (Unchanged(s) # {} /\ ~(CanSelect(prep.alg) /\ Selection(prep.alg) \in Unchanged(s)))
      [] prep.pc = "source" -> Hollow
      [] prep.pc = "ingest" -> src[prep.snap].data = "none" \/ Orphaned
      [] prep.pc = "compute" -> ~Computable
      [] prep.pc = "validate" -> ~Validatable
      [] prep.pc = "record" -> cand[prep.cand].rec \notin {"validated", "ready"}
      [] prep.pc = "index" -> ~(RefOK(prep.cand, prep.alg) /\ IndexWritable)
      [] OTHER -> FALSE

PrepFails ==
    /\ prep.pc # "idle"
    /\ Event("fail") \/ (PrepImpossible /\ UNCHANGED events)
    /\ PrepEnd
    /\ UNCHANGED <<storeVars, dataVars, live, index, upstream, pub, mig, clean, op, history>>

\* A killed preparation leaves its lock.
PrepCrash ==
    /\ prep.pc # "idle" /\ Event("crash")
    /\ prep' = NoPrep
    /\ UNCHANGED <<storeVars, dataVars, live, index, upstream, lock, pub, mig, clean, op, history>>

-----------------------------------------------------------------------------
(* The publisher and retention *)

PubGoto(pc) == pub' = [pub EXCEPT !.pc = pc]
PubEnd == pub' = Idle

\* Recovery, preflight and prepare-ready: any error ends the run, and with it the
\* publication of every wiki.
PubActivate ==
    /\ pub.pc = "idle" /\ CanSelect(upstream.alg)
    /\ Selection(upstream.alg) # live /\ cand[Selection(upstream.alg)].snap >= Pointer
    /\ index' = [newest |-> Selection(upstream.alg), active |-> live]
    /\ live' = Selection(upstream.alg)
    /\ cand' = Reconciled(Looked(upstream.alg))
    /\ pub' = [pc |-> "commit", cand |-> live]
    /\ UNCHANGED <<ready, dataVars, upstream, prep, lock, mig, clean, op, events, history>>

PubNoOp ==
    /\ pub.pc = "idle" /\ CanSelect(upstream.alg) /\ Selection(upstream.alg) = live
    /\ WriteIndex(live)
    /\ cand' = Reconciled(Looked(upstream.alg))
    /\ PubGoto("authorize")
    /\ UNCHANGED <<ready, dataVars, live, upstream, prep, lock, mig, clean, op, events, history>>

\* The mutation keeps the selected and the previous candidate alone.
Kept_NoLineage == {live, pub.cand}

\* migration_lineage_dirs: what a candidate was migrated from, as far as there are
\* receipts to follow.
Walked(c) ==
    {cand[c].line[n] : n \in {m \in DOMAIN cand[c].line :
                                  \A k \in 1..(m - 1) : IsReady(cand[c].line[k])}}

\* retire_candidates_outside_rollback keeps the selected candidate, the previous
\* one, and what they were migrated from.
Kept == Walked(live) \cup Walked(pub.cand)

\* A record of the previous candidate that cannot become superseded ends the commit
\* after the record of the selected one.
PubCommit ==
    LET retired == Receipts \ Kept
    IN /\ pub.pc = "commit" /\ cand[live].rec \in {"ready", "published"}
       /\ IF cand[pub.cand].rec = "retired"
          THEN /\ cand' = [cand EXCEPT ![live].rec = "published"]
               /\ PubEnd /\ UNCHANGED <<ready, src, index, orphans>>
          ELSE /\ cand' = [c \in Cands |->
                      CASE c = live -> [cand[c] EXCEPT !.rec = "published"]
                        [] c = pub.cand -> [cand[c] EXCEPT !.rec = "superseded"]
                        [] c \in retired -> [cand[c] EXCEPT !.rec = "retired", !.files = "none"]
                        [] OTHER -> cand[c]]
               /\ ready' = Without(retired)
               /\ src' = [s \in Snaps |-> IF s = Pointer THEN src[s] ELSE NoSource]
               /\ orphans' = IF mig.pc = "receipt" /\ ToSet(cand[mig.cand].line) \cap retired # {}
                             THEN orphans \cup {mig.cand} ELSE orphans
               /\ IF RefOK(live, upstream.alg)
                  THEN WriteIndex(live) /\ PubGoto("authorize")
                  ELSE PubEnd /\ UNCHANGED index
    /\ UNCHANGED <<receipt, live, upstream, prep, lock, mig, clean, op, events, raced>>

\* The mutation writes the receipt only when the purge is complete.
PubAuthorize_Late ==
    /\ pub.pc = "authorize" /\ Authentic(live) /\ Intact(live)
    /\ PubGoto("data")
    /\ UNCHANGED <<storeVars, dataVars, live, index, upstream, prep, lock, mig, clean, op, events, history>>

\* authorize_input_retention, then the receipt before anything is deleted
PubAuthorize ==
    /\ pub.pc = "authorize" /\ Authentic(live) /\ Intact(live)
    /\ receipt' = [receipt EXCEPT ![Pointer] = [state |-> "authorized", cand |-> live]]
    /\ PubGoto("data")
    /\ UNCHANGED <<storeVars, src, live, index, upstream, prep, lock, mig, clean, op, events, history>>

\* The paths are removed in their sorted order: the fragments with their markers, the
\* patrol source, the compaction manifest, the generation manifest and the receipt of
\* the ingestion.
Purge(inputs, next) ==
    /\ src' = inputs
    /\ PubGoto(next)
    /\ UNCHANGED <<storeVars, receipt, live, index, upstream, prep, lock, mig, clean, op, events, history>>

PurgeData ==
    /\ pub.pc = "data"
    /\ Purge([src EXCEPT ![Pointer].data = "none", ![Pointer].old = FALSE], "patrol")

\* The directory holds the logs of all snapshots of the wiki.
PurgePatrol ==
    /\ pub.pc = "patrol"
    /\ Purge([s \in Snaps |-> [src[s] EXCEPT !.fits = {}]], "compaction")

PurgeCompaction ==
    /\ pub.pc = "compaction"
    /\ Purge([src EXCEPT ![Pointer].comp = FALSE], "manifest")

PurgeManifest ==
    /\ pub.pc = "manifest"
    /\ Purge([src EXCEPT ![Pointer].man = FALSE], "applied")

PurgeApplied ==
    /\ pub.pc = "applied"
    /\ receipt' = [receipt EXCEPT ![Pointer] = [state |-> "applied", cand |-> live]]
    /\ PubEnd
    /\ UNCHANGED <<storeVars, src, live, index, upstream, prep, lock, mig, clean, op, events, history>>

\* An operator's retention-apply, between two runs of the publisher
RetentionApply ==
    /\ pub.pc = "idle" /\ Event("retain")
    /\ PubGoto("authorize")
    /\ UNCHANGED <<storeVars, dataVars, live, index, upstream, prep, lock, mig, clean, op, history>>

\* A kill inside of the transaction is a matter of module Publication.
PubFails ==
    /\ \/ pub.pc = "commit" /\ cand[live].rec \notin {"ready", "published"} /\ UNCHANGED events
       \/ pub.pc = "authorize" /\ ~(Authentic(live) /\ Intact(live)) /\ UNCHANGED events
       \/ pub.pc \in {"authorize", "data", "patrol", "compaction", "manifest", "applied"}
          /\ Event("crash")
    /\ PubEnd
    /\ UNCHANGED <<storeVars, dataVars, live, index, upstream, prep, lock, mig, clean, op, history>>

-----------------------------------------------------------------------------
(* Migration of a retained candidate *)

MigAllowed ==
    /\ mig.pc = "idle" /\ Event("migrate")
    /\ ~src[Pointer].man /\ src[Pointer].plan /\ receipt[Pointer].state = "applied"

MigBegin ==
    LET from == Selection(upstream.alg)
    IN /\ MigAllowed
       /\ CanSelect(upstream.alg) /\ cand[from].snap = Pointer
       /\ Retained(from) /\ cand[from].alg # upstream.alg
       /\ WriteIndex(from)
       /\ \E c \in Fresh :
             /\ cand' = [Reconciled(Looked(upstream.alg)) EXCEPT
                    ![c] = [snap |-> Pointer, alg |-> upstream.alg, files |-> "full",
                            rec |-> "building", old |-> FALSE, line |-> <<c>> \o cand[from].line]]
             /\ mig' = [pc |-> "receipt", cand |-> c, alg |-> upstream.alg]
       /\ UNCHANGED <<ready, dataVars, live, upstream, prep, lock, pub, clean, op, history>>

\* The command again with the run id of one that was cut short
MigResume ==
    /\ MigAllowed
    /\ \E c \in ReadyOf(Pointer) :
          /\ Len(cand[c].line) > 1 /\ Authentic(c) /\ Intact(c)
          /\ cand' = Reconciled({c})
          /\ mig' = [pc |-> "index", cand |-> c, alg |-> upstream.alg]
    /\ UNCHANGED <<ready, dataVars, live, index, upstream, prep, lock, pub, clean, op, history>>

MigReceipt ==
    /\ mig.pc = "receipt"
    /\ WriteReady(mig.cand)
    /\ mig' = [mig EXCEPT !.pc = "record"]
    /\ UNCHANGED <<dataVars, live, index, upstream, prep, lock, pub, clean, op, events, history>>

MigRecordable == Authentic(mig.cand) /\ Intact(mig.cand) /\ cand[mig.cand].rec \in Resumable

MigRecord ==
    /\ mig.pc = "record" /\ MigRecordable
    /\ Record(mig.cand, "ready")
    /\ mig' = [mig EXCEPT !.pc = "index"]
    /\ UNCHANGED <<ready, dataVars, live, index, upstream, prep, lock, pub, clean, op, events, history>>

MigIndex ==
    /\ mig.pc = "index" /\ RefOK(mig.cand, mig.alg) /\ IndexWritable
    /\ WriteIndex(mig.cand)
    /\ mig' = NoOp
    /\ UNCHANGED <<storeVars, dataVars, live, upstream, prep, lock, pub, clean, op, events, history>>

MigFails ==
    /\ \/ mig.pc # "idle" /\ Event("crash")
       \/ mig.pc = "record" /\ ~MigRecordable /\ UNCHANGED events
       \/ mig.pc = "index" /\ ~(RefOK(mig.cand, mig.alg) /\ IndexWritable) /\ UNCHANGED events
    /\ mig' = NoOp
    /\ UNCHANGED <<storeVars, dataVars, live, index, upstream, prep, lock, pub, clean, op, history>>

-----------------------------------------------------------------------------
(* Cleanup by age *)

NoClean == [pc |-> "idle", cand |-> None, live |-> None, rec |-> "none", snaps |-> {}]
CleanGoto(pc) == clean' = [clean EXCEPT !.pc = pc]

CleanBegin ==
    /\ clean.pc = "idle" /\ Event("cleanup")
    /\ clean' = [NoClean EXCEPT !.pc = "scan", !.live = live]
    /\ UNCHANGED <<storeVars, dataVars, live, index, upstream, prep, lock, pub, mig, op, history>>

\* One resumable attempt is kept, the one updated last, until its record is too old.
\* Which of two was updated last is left open.
Outdone(c) ==
    \E d \in Cands \ {c} :
        cand[d].files # "none" /\ cand[d].rec \in Resumable /\ ~cand[d].old

Removable(c) ==
    /\ cand[c].files # "none" /\ c # clean.live
    /\ \/ cand[c].rec = "retired"
       \/ cand[c].rec \in Resumable /\ (cand[c].old \/ Outdone(c))

CleanLoad ==
    /\ clean.pc = "scan"
    /\ \E c \in Cands :
          /\ Removable(c)
          /\ clean' = [clean EXCEPT !.pc = IF cand[c].rec = "retired" THEN "remove" ELSE "check",
                                    !.cand = c]
    /\ UNCHANGED <<storeVars, dataVars, live, index, upstream, prep, lock, pub, mig, op, events, history>>

\* The mutation trusts the record that the scan has read.
CleanCheck_Trusting ==
    /\ clean.pc = "check"
    /\ clean' = [clean EXCEPT !.pc = "write", !.rec = cand[clean.cand].rec]
    /\ UNCHANGED <<storeVars, dataVars, live, index, upstream, prep, lock, pub, mig, op, events, history>>

\* transition reads the record again, and refuses what is no longer resumable.
CleanCheck ==
    /\ clean.pc = "check" /\ cand[clean.cand].rec \in Resumable
    /\ clean' = [clean EXCEPT !.pc = "write", !.rec = cand[clean.cand].rec]
    /\ UNCHANGED <<storeVars, dataVars, live, index, upstream, prep, lock, pub, mig, op, events, history>>

\* and replaces whatever the record is by then.
CleanWrite ==
    /\ clean.pc = "write"
    /\ Record(clean.cand, "retired")
    /\ raced' = IF cand[clean.cand].rec = clean.rec THEN raced ELSE raced \cup {clean.cand}
    /\ CleanGoto("remove")
    /\ UNCHANGED <<ready, dataVars, live, index, upstream, prep, lock, pub, mig, op, events, orphans>>

CleanRemove ==
    /\ clean.pc = "remove"
    /\ cand' = [cand EXCEPT ![clean.cand].files = "none"]
    /\ ready' = Without({clean.cand})
    /\ CleanGoto("scan")
    /\ UNCHANGED <<dataVars, live, index, upstream, prep, lock, pub, mig, op, events, history>>

\* The snapshots that have a candidate are protected; all are while the prepare
\* lock exists.
CleanScanned ==
    /\ clean.pc = "scan" /\ \A c \in Cands : ~Removable(c)
    /\ clean' = IF lock THEN NoClean
                ELSE [clean EXCEPT !.pc = "sources",
                                   !.snaps = {cand[c].snap : c \in {d \in Cands : cand[d].files # "none"}}]
    /\ UNCHANGED <<storeVars, dataVars, live, index, upstream, prep, lock, pub, mig, op, events, history>>

CleanSources ==
    /\ clean.pc = "sources"
    /\ src' = [s \in Snaps |->
                  IF s # Pointer /\ s \notin clean.snaps /\ src[s].data # "none" /\ src[s].old
                  THEN NoSource ELSE src[s]]
    /\ clean' = NoClean
    /\ UNCHANGED <<storeVars, receipt, live, index, upstream, prep, lock, pub, mig, op, events, history>>

CleanFails ==
    /\ \/ clean.pc = "check" /\ cand[clean.cand].rec \notin Resumable /\ UNCHANGED events
       \/ clean.pc # "idle" /\ Event("crash")
    /\ clean' = NoClean
    /\ UNCHANGED <<storeVars, dataVars, live, index, upstream, prep, lock, pub, mig, op, history>>

-----------------------------------------------------------------------------
(* Retirement by an operator *)

OpCheck ==
    /\ op.pc = "idle" /\ Event("retire") /\ IndexWritable
    /\ \E c \in Receipts \ {live} :
          /\ Authentic(c) /\ Intact(c) /\ cand[c].rec \in {"ready", "retired"}
          /\ op' = [pc |-> "retire", cand |-> c, alg |-> upstream.alg]
    /\ UNCHANGED <<storeVars, dataVars, live, index, upstream, prep, lock, pub, mig, clean, history>>

\* The command again after ready.json has become retired.json
OpResume ==
    /\ op.pc = "idle" /\ Event("resume")
    /\ \E c \in Cands \ Receipts :
          /\ cand[c].rec = "retired" /\ cand[c].files = "retired"
          /\ op' = [pc |-> "index", cand |-> c, alg |-> upstream.alg]
    /\ UNCHANGED <<storeVars, dataVars, live, index, upstream, prep, lock, pub, mig, clean, history>>

OpRetire ==
    /\ op.pc = "retire" /\ cand[op.cand].rec \in {"ready", "retired"}
    /\ Record(op.cand, "retired")
    /\ raced' = raced \cup {op.cand}
    /\ op' = [op EXCEPT !.pc = "rename"]
    /\ UNCHANGED <<ready, dataVars, live, index, upstream, prep, lock, pub, mig, clean, events, orphans>>

OpRename ==
    /\ op.pc = "rename" /\ IsReady(op.cand)
    /\ ready' = Without({op.cand})
    /\ cand' = [cand EXCEPT ![op.cand].files = "retired"]
    /\ op' = [op EXCEPT !.pc = "index"]
    /\ UNCHANGED <<dataVars, live, index, upstream, prep, lock, pub, mig, clean, events, history>>

\* repair_ready_index_after_retirement
OpIndex ==
    /\ op.pc = "index"
    /\ IF Discoverable(op.alg) # {} /\ IndexWritable
       THEN WriteIndex(NewestOf(Discoverable(op.alg)))
       ELSE index' = [newest |-> None, active |-> None]
    /\ cand' = Reconciled(Scanned)
    /\ op' = NoOp
    /\ UNCHANGED <<ready, dataVars, live, upstream, prep, lock, pub, mig, clean, events, history>>

OpFails ==
    /\ \/ op.pc = "retire" /\ cand[op.cand].rec \notin {"ready", "retired"} /\ UNCHANGED events
       \/ op.pc = "rename" /\ ~IsReady(op.cand) /\ UNCHANGED events
       \/ op.pc # "idle" /\ Event("crash")
    /\ op' = NoOp
    /\ UNCHANGED <<storeVars, dataVars, live, index, upstream, prep, lock, pub, mig, clean, history>>

-----------------------------------------------------------------------------
(* The world *)

Deploy ==
    /\ upstream.alg < MaxAlg /\ Event("deploy")
    /\ upstream' = [upstream EXCEPT !.alg = @ + 1]
    /\ UNCHANGED <<storeVars, dataVars, live, index, actors, history>>

Release ==
    /\ upstream.snap < MaxSnap /\ Event("release")
    /\ upstream' = [upstream EXCEPT !.snap = @ + 1]
    /\ UNCHANGED <<storeVars, dataVars, live, index, actors, history>>

\* Six hours pass; bound: only while a cleanup, which alone asks for ages, may follow.
Tick ==
    /\ clean.pc = "idle" /\ events < Limit["cleanup"]
    /\ cand' = [c \in Cands |-> [cand[c] EXCEPT !.old = @ \/ cand[c].rec \in Resumable]]
    /\ src' = [s \in Snaps |-> [src[s] EXCEPT !.old = @ \/ src[s].data # "none"]]
    /\ <<cand', src'>> # <<cand, src>>
    /\ UNCHANGED <<ready, receipt, live, index, upstream, actors, events, history>>

Published(snap, alg, line) ==
    [snap |-> snap, alg |-> alg, files |-> "full", rec |-> "published", old |-> FALSE, line |-> line]

\* Candidate 1 has just been published; or its inputs were purged, it was migrated,
\* and the run that published candidate 2 has died before it authorized the
\* retention anew.
Init ==
    /\ \/ /\ live = 1 /\ ready = [c \in Cands |-> IF c = 1 THEN {1} ELSE {}]
          /\ cand = [c \in Cands |-> IF c = 1 THEN Published(1, 2, <<1>>) ELSE Unused]
          /\ src = [s \in Snaps |-> [NoSource EXCEPT !.data = IF s = 1 THEN "whole" ELSE "none",
                                                     !.man = s = 1, !.comp = s = 1, !.plan = s = 1,
                                                     !.fits = IF s = 1 THEN {1} ELSE {}]]
          /\ receipt = [s \in Snaps |-> [state |-> "none", cand |-> None]]
       \/ /\ live = 2 /\ ready = [c \in Cands |-> IF c \in 1..2 THEN 1..c ELSE {}]
          /\ cand = [c \in Cands |->
                        CASE c = 1 -> [Published(1, 1, <<1>>) EXCEPT !.rec = "superseded"]
                          [] c = 2 -> Published(1, 2, <<2, 1>>)
                          [] OTHER -> Unused]
          /\ src = [s \in Snaps |-> [NoSource EXCEPT !.plan = s = 1]]
          /\ receipt = [s \in Snaps |-> IF s = 1 THEN [state |-> "applied", cand |-> 1]
                                        ELSE [state |-> "none", cand |-> None]]
    /\ index = [newest |-> live, active |-> live]
    /\ upstream = [snap |-> 1, alg |-> 2]
    /\ prep = NoPrep /\ lock = FALSE
    /\ pub = Idle /\ mig = NoOp /\ clean = NoClean /\ op = NoOp
    /\ events = 0 /\ raced = {} /\ orphans = {}

Preparation ==
    \/ PrepStart \/ PlanNoOp \/ PlanBuild \/ RebuildBegin \/ SourceBegin \/ SourceEnd
    \/ Compute \/ PrepValidate \/ PrepReceipt \/ PrepRecord \/ PrepIndex
    \/ PrepFails \/ PrepCrash

Publisher ==
    \/ PubActivate \/ PubNoOp \/ PubCommit \/ RetentionApply \/ PubAuthorize \/ PurgeData
    \/ PurgePatrol \/ PurgeCompaction \/ PurgeManifest \/ PurgeApplied \/ PubFails

Migration == MigBegin \/ MigResume \/ MigReceipt \/ MigRecord \/ MigIndex \/ MigFails

Cleanup ==
    \/ CleanBegin \/ CleanLoad \/ CleanCheck \/ CleanWrite \/ CleanRemove \/ CleanScanned
    \/ CleanSources \/ CleanFails

Operator == OpCheck \/ OpResume \/ OpRetire \/ OpRename \/ OpIndex \/ OpFails

Next == Preparation \/ Publisher \/ Migration \/ Cleanup \/ Operator \/ Deploy \/ Release \/ Tick

Spec == Init /\ [][Next]_vars

-----------------------------------------------------------------------------
(* Properties *)

\* The exception: an operator has retired the candidate or one it descends from,
\* or cleanup has, over a record that had changed meanwhile.
Uprooted(c) == ToSet(cand[c].line) \cap raced # {}

\* Every document has the form its readers accept, and a ready.json a directory.
TypeOK ==
    /\ \A c \in Cands :
          /\ cand[c].snap \in Snaps /\ cand[c].alg \in 0..MaxAlg
          /\ cand[c].files \in {"none", "full", "husk", "retired"} /\ cand[c].rec \in GStates
    /\ Receipts \subseteq {c \in Cands : cand[c].files # "none"}
    /\ \A c, d \in Receipts : ready[c] \subseteq ready[d] \/ ready[d] \subseteq ready[c]
    /\ live \in Cands /\ index.newest \in Cands \cup {None}
    /\ events \in 0..MaxEvents /\ raced \subseteq Cands /\ orphans \subseteq Cands

\* The published candidate always authenticates: write_ready_index, the plan of a
\* no-op, the retention and the digest of every publisher run stop without it.
LiveAuthenticated == Uprooted(live) \/ Authentic(live)

\* Nobody deletes or retires what is being served.
LiveIntact ==
    Uprooted(live) \/ (Intact(live) /\ cand[live].rec \in {"ready", "published"})

\* Between two publisher runs the publisher can select a candidate of the wiki that
\* is no downgrade, so that one wiki does not stop the publication of all.  Three
\* things take that away: a deployment that outdates the published candidate while
\* its inputs are on disk; retention that was killed after the patrol source and
\* before the generation manifest, or inputs that are made anew after a purge, so
\* that the receipts fit what is there no longer and the fallback is refused; and a
\* preparation of an older snapshot than the served one, which puts its candidate
\* into the index all the same.
SelectionPossible ==
    \/ pub.pc # "idle" \/ Uprooted(live)
    \/ CanSelect(upstream.alg) /\ cand[Selection(upstream.alg)].snap >= Pointer
    \/ src[Pointer].man /\ cand[live].alg # upstream.alg
    \/ /\ src[Pointer].man /\ receipt[Pointer].cand # None
       /\ ~(src[Pointer].comp /\ live \in src[Pointer].fits)
    \/ index.newest # None /\ cand[index.newest].snap < Pointer

\* A ready candidate of the served snapshot stops authenticating only because the
\* inputs were purged in the name of a candidate it does not descend from: never
\* because a receipt or the plan its lineage is read from is missing.  A migration
\* that a commit overtakes is the exception: what it comes from may be retired.
LineageUnbroken ==
    \A c \in ReadyOf(Pointer) :
        \/ Authentic(c)
        \/ receipt[Pointer].cand \notin ToSet(cand[c].line) \cup {None}
        \/ ToSet(cand[c].line) \cap (raced \cup orphans) # {}
=============================================================================
