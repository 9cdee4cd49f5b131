----------------------------- MODULE Publication -----------------------------
(***************************************************************************)
(* The publication of ready candidates: publish-ready-transaction.sh, the  *)
(* parts of publication.rs it calls (recover, preflight, prepare, commit,  *)
(* roll back), build-site.sh and the generation records, with the          *)
(* preparation of the next candidates running beside it.                   *)
(*                                                                         *)
(* One publisher runs at a time, under the publication lock; preparations  *)
(* hold the lock of their wiki only.  Each action is one durable write     *)
(* (a rename, a link, an unlink or a document replaced by rename).  The    *)
(* publisher may die after any of them; the next run audits what is on     *)
(* disk and decides whether to commit, to roll back or to stop.            *)
(*                                                                         *)
(* A publication is identified by the run that merged it and by the        *)
(* candidate of each wiki it was merged from.                              *)
(***************************************************************************)
EXTENDS Naturals

CONSTANTS
    NumWikis,     \* the published wikis are 1..NumWikis, in the registry's order
    NumCands,     \* the candidates of a wiki are 1..NumCands, in the order of
                  \* (snapshot, ready_at, run_id); candidate 1 is published at first
    SnapshotOf,   \* the snapshot a candidate was computed from
    MaxRuns,      \* publication run ids in use at the same time
    FaultKinds,   \* which of "crash", "fail", "damage", "receipt" and
                  \* "upgrade" happen
    MaxFaults,    \* how many of them
    None

Wikis == 1..NumWikis
Cands == 1..NumCands
Snaps == {SnapshotOf[c] : c \in Cands}
Runs == 1..MaxRuns

ASSUME PublicationAssumption ==
    /\ NumWikis \in Nat \ {0} /\ NumCands \in Nat \ {0} /\ MaxRuns \in Nat \ {0}
    /\ SnapshotOf \in [Cands -> Nat]
    /\ \A c, d \in Cands : c <= d => SnapshotOf[c] <= SnapshotOf[d]
    /\ MaxFaults \in Nat
    /\ None \notin Nat /\ None \notin [run : Runs, vec : [Wikis -> Cands]]
    /\ None \notin [cand : Cands, prev : Cands, snap : Snaps]

VARIABLES
    \* per wiki
    ready,     \* candidates whose directory holds ready.json
    inputs,    \* snapshots whose input generation is complete
    gen,       \* _generation-state: the state of every candidate
    index,     \* the ready index: newest_valid_ready and active_published
    active,    \* the link output/<wiki>
    snap,      \* the current-snapshot pointer
    backup,    \* the previous link, in the transaction directory
    prep,      \* the preparation: its next step and its candidate
    \* the transaction
    journal,   \* selection.json of the newest transaction
    saved,     \* its copy of the previous publication artifacts
    \* the publication
    root,      \* the merged artifacts; None while they are no single publication
    cand,      \* .publication-candidate.json
    gate,      \* publication-gate.json
    site,      \* the publication the served distribution was built from
    receipt,   \* _stages/site.json
    siteNewer, \* the site receipt was written after the journal
    \* the publisher
    run, pc, mode, todo, victims,
    faults

wikiVars == <<ready, inputs, gen, index>>
linkVars == <<active, snap, backup>>
pubVars == <<root, cand, gate>>
siteVars == <<site, receipt>>
txnVars == <<journal, saved, siteNewer>>
ctlVars == <<run, pc, mode, todo, victims>>
vars == <<wikiVars, linkVars, prep, txnVars, pubVars, siteVars, ctlVars, faults>>

Publications == [run : Runs, vec : [Wikis -> Cands]]
GStates == {"none", "building", "validated", "ready", "published", "superseded", "retired"}
Entry == [cand : Cands, prev : Cands, snap : Snaps]
Terminal == {"committed", "rolled_back", "no_op"}
Unpublished == {"activating", "selected"}

Fault(kind) == kind \in FaultKinds /\ faults < MaxFaults /\ faults' = faults + 1

Goto(l) == pc' = l

-----------------------------------------------------------------------------
(* What the code reads from the disk.                                      *)

\* validate_ready_candidate: the receipt is there and the candidate's input
\* generation is complete.
Authentic(w, c) == c \in ready[w] /\ SnapshotOf[c] \in inputs[w]

\* verify: the candidate file, the gate and every artifact agree.  Partitioned
\* artifacts are read through the links of the wikis.
Verified == cand = gate /\ root = gate /\ active = gate.vec

\* current_site_matches_publication and current_site_has_valid_receipt
SiteReceiptValid == receipt.site = site
\* Mutant: the inputs that the receipt names are not compared with the publication.
SiteMatches_BytesOnly == SiteReceiptValid
SiteMatches == SiteReceiptValid /\ receipt.gate = gate /\ receipt.cand = cand

\* The wikis the journal has an entry for, and the entry of one of them.
Selected == {w \in Wikis : journal.entries[w] # None}
E(w) == journal.entries[w]

SelectedLive(w) == active[w] = E(w).cand
PreviousLive(w) == active[w] = E(w).prev

\* Mutant: a wiki whose link was not moved yet counts as lost.
BackupRecoverable_Moved(w) ==
    \/ backup[w] # None
    \/ SelectedLive(w) /\ Authentic(w, E(w).prev)

\* backups_recoverable
BackupRecoverable(w) ==
    \/ backup[w] # None
    \/ ~SelectedLive(w) /\ PreviousLive(w)
    \/ SelectedLive(w) /\ Authentic(w, E(w).prev)

\* audit_publication_transaction
Audit ==
    LET live == \A w \in Selected : /\ SelectedLive(w) /\ Authentic(w, E(w).cand)
                                    /\ snap[w] = SnapshotOf[E(w).cand]
        proven == /\ Verified /\ SiteMatches
                  /\ \A w \in Selected : SnapshotOf[gate.vec[w]] = SnapshotOf[E(w).cand]
        sameGate == gate.run = journal.run
        previousSite == /\ SiteReceiptValid
                        /\ \/ ~SiteMatches /\ sameGate
                           \/ SiteMatches /\ ~sameGate /\ ~siteNewer
        recoverable == journal.state \in Unpublished /\ previousSite
    IN  IF journal.state \in Terminal THEN "clean"
        ELSE IF live /\ proven /\ sameGate THEN "commit"
        ELSE IF live /\ proven /\ siteNewer THEN "incorporated"
        ELSE IF recoverable /\ \A w \in Selected : BackupRecoverable(w) THEN "rollback"
        ELSE IF recoverable /\ \A w \in Selected : Authentic(w, E(w).cand) THEN "resume"
        ELSE "ambiguous"

\* reconcile_ready_generation_state
Reconciled(s) == IF s \in {"none", "building", "validated"} THEN "ready" ELSE s

\* discover_latest_ready_candidate: the candidates it may return
Discoverable(w) ==
    {c \in Cands : Authentic(w, c) /\ gen[w][c] \notin {"superseded", "retired"}}

Newest(S) == CHOOSE c \in S : \A d \in S : d <= c

\* indexed_latest_ready_candidate: the index is used as it is
IndexValid(w) ==
    /\ index[w].newest \in Discoverable(w)
    /\ index[w].active = active[w]

\* Writing the index authenticates the live candidate it names.
IndexWritable(w) == active[w] = None \/ Authentic(w, active[w])

WriteIndex(w, c) == index' = [index EXCEPT ![w] = [newest |-> c, active |-> active[w]]]

\* transition_allowed; a record already in the next state is left alone
TransitionAllowed(s, t) ==
    \/ s = t
    \/ <<s, t>> \in {<<"building", "validated">>, <<"validated", "ready">>,
                     <<"ready", "published">>, <<"ready", "superseded">>,
                     <<"published", "superseded">>, <<"superseded", "retired">>,
                     <<"building", "retired">>, <<"validated", "retired">>}

Transition(w, c, t) ==
    /\ TransitionAllowed(gen[w][c], t)
    /\ gen' = [gen EXCEPT ![w][c] = t]

-----------------------------------------------------------------------------
(* Preparation of the next candidate of a wiki, under the wiki's own lock. *)

PrepGoto(w, s) == prep' = [prep EXCEPT ![w].step = s]

\* The input generation is complete and the record is created.
PrepBegin(w) ==
    LET c == prep[w].cand + 1 IN
    /\ prep[w].step = "idle" /\ c \in Cands
    /\ prep' = [prep EXCEPT ![w] = [step |-> "validate", cand |-> c]]
    /\ gen' = [gen EXCEPT ![w][c] = "building"]
    /\ inputs' = [inputs EXCEPT ![w] = @ \cup {SnapshotOf[c]}]
    /\ UNCHANGED <<ready, index, linkVars, txnVars, pubVars, siteVars, ctlVars, faults>>

\* mark_wiki_candidate_ready, from the check of the input generation to the
\* record "validated"
PrepValidate(w) ==
    LET c == prep[w].cand IN
    /\ prep[w].step = "validate"
    /\ SnapshotOf[c] \in inputs[w]
    /\ Transition(w, c, "validated")
    /\ PrepGoto(w, "receipt")
    /\ UNCHANGED <<ready, inputs, index, linkVars, txnVars, pubVars, siteVars, ctlVars, faults>>

PrepReceipt(w) ==
    /\ prep[w].step = "receipt"
    /\ ready' = [ready EXCEPT ![w] = @ \cup {prep[w].cand}]
    /\ PrepGoto(w, "record")
    /\ UNCHANGED <<inputs, gen, index, linkVars, txnVars, pubVars, siteVars, ctlVars, faults>>

\* Mutant: the candidate is indexed without the record that it is ready.
PrepRecord_Unrecorded(w) ==
    /\ prep[w].step = "record"
    /\ PrepGoto(w, "index")
    /\ UNCHANGED <<wikiVars, linkVars, txnVars, pubVars, siteVars, ctlVars, faults>>

PrepRecord(w) ==
    /\ prep[w].step = "record"
    /\ Transition(w, prep[w].cand, "ready")
    /\ PrepGoto(w, "index")
    /\ UNCHANGED <<ready, inputs, index, linkVars, txnVars, pubVars, siteVars, ctlVars, faults>>

PrepIndex(w) ==
    /\ prep[w].step = "index"
    /\ Authentic(w, prep[w].cand) /\ IndexWritable(w)
    /\ WriteIndex(w, prep[w].cand)
    /\ PrepGoto(w, "idle")
    /\ UNCHANGED <<ready, inputs, gen, linkVars, txnVars, pubVars, siteVars, ctlVars, faults>>

\* A step whose check fails ends the preparation; the fleet prepares the
\* snapshot again, as a new candidate.
PrepFails(w) ==
    /\ \/ prep[w].step = "validate" /\ SnapshotOf[prep[w].cand] \notin inputs[w]
       \/ prep[w].step = "record" /\ ~TransitionAllowed(gen[w][prep[w].cand], "ready")
       \/ prep[w].step = "index" /\ ~(Authentic(w, prep[w].cand) /\ IndexWritable(w))
    /\ PrepGoto(w, "idle")
    /\ UNCHANGED <<wikiVars, linkVars, txnVars, pubVars, siteVars, ctlVars, faults>>

-----------------------------------------------------------------------------
(* The wrapper: recover, rebuild the site if recovery asks for it,         *)
(* preflight, select.                                                      *)

RunsOnDisk ==
    {journal.run, cand.run, gate.run, site.run, receipt.gate.run, receipt.cand.run,
     receipt.site.run}
    \cup (IF root = None THEN {} ELSE {root.run})
    \cup (IF saved = None THEN {} ELSE {saved.run})

\* A run id is new: an id stands for another run only when nothing of the
\* previous one is left on disk.
Begin ==
    /\ pc = "idle"
    /\ \E r \in Runs \ RunsOnDisk :
          /\ \A q \in Runs \ RunsOnDisk : r <= q
          /\ run' = r
    /\ Goto("recover")
    /\ UNCHANGED <<wikiVars, linkVars, prep, txnVars, pubVars, siteVars, mode, todo, victims, faults>>

\* recover_publication_transactions
Recover ==
    /\ pc = "recover"
    /\ \/ /\ Audit = "clean"
          /\ Goto("preflight") /\ mode' = "publish" /\ UNCHANGED todo
       \/ /\ Audit = "commit"
          /\ Goto("commit") /\ mode' = "recover" /\ UNCHANGED todo
       \/ /\ Audit = "rollback"
          /\ Goto("undo") /\ mode' = "recover" /\ todo' = Selected
       \/ /\ Audit = "ambiguous"     \* quarantined: the run ends here
          /\ Goto("idle") /\ UNCHANGED <<mode, todo>>
    /\ UNCHANGED <<wikiVars, linkVars, prep, txnVars, pubVars, siteVars, run, victims, faults>>

\* publication_preflight_with_mode, strict
Eligible ==
    \A w \in Wikis : /\ Authentic(w, index[w].newest)
                     /\ SnapshotOf[index[w].newest] >= SnapshotOf[gate.vec[w]]

Preflight ==
    /\ pc = "preflight"
    /\ Goto(IF Audit = "clean" /\ Eligible THEN "select" ELSE "idle")
    /\ UNCHANGED <<wikiVars, linkVars, prep, txnVars, pubVars, siteVars, run, mode, todo, victims, faults>>

\* indexed_latest_ready_candidate on an index that is out of date
RebuildIndex(w) ==
    /\ pc = "select"
    /\ ~IndexValid(w) /\ Discoverable(w) # {} /\ IndexWritable(w)
    /\ gen' = [gen EXCEPT ![w] =
                 [c \in Cands |-> IF Authentic(w, c) THEN Reconciled(@[c]) ELSE @[c]]]
    /\ WriteIndex(w, Newest(Discoverable(w)))
    /\ UNCHANGED <<ready, inputs, linkVars, prep, txnVars, pubVars, siteVars, ctlVars, faults>>

\* Every writer of the journal leaves it newer than the site receipt.
WriteJournal(j) == journal' = j /\ siteNewer' = FALSE

NoEntries == [w \in Wikis |-> None]

\* Mutant: unchanged candidates are reason enough not to merge.
NoOp_Unverified ==
    /\ pc = "select"
    /\ \A w \in Wikis : IndexValid(w) /\ index[w].newest = active[w]
    /\ WriteJournal([run |-> run, state |-> "no_op", entries |-> NoEntries])
    /\ Goto("idle")
    /\ UNCHANGED <<wikiVars, linkVars, prep, saved, pubVars, siteVars, run, mode, todo, victims, faults>>

\* publication_is_immediate_noop and record_publication_noop
NoOp ==
    /\ pc = "select"
    /\ \A w \in Wikis : IndexValid(w) /\ index[w].newest = active[w]
    /\ Verified
    /\ WriteJournal([run |-> run, state |-> "no_op", entries |-> NoEntries])
    /\ Goto("idle")
    /\ UNCHANGED <<wikiVars, linkVars, prep, saved, pubVars, siteVars, run, mode, todo, victims, faults>>

\* activate_ready_candidates up to the first journal.  Unchanged candidates are
\* merged again if the publication does not verify, or if the registry, the code
\* or the site's sources have changed since an earlier run.  A publication that does not verify is
\* not saved.
Activate ==
    LET changed == {w \in Wikis : index[w].newest # active[w] \/ snap[w] # SnapshotOf[active[w]]}
    IN
    /\ pc = "select"
    /\ \A w \in Wikis : IndexValid(w) /\ SnapshotOf[index[w].newest] >= snap[w]
    /\ \/ (changed # {} \/ ~Verified) /\ UNCHANGED faults
       \/ changed = {} /\ Verified /\ gate.run # run /\ Fault("upgrade")
    /\ WriteJournal([run |-> run, state |-> "activating",
                     entries |-> [w \in Wikis |->
                        IF w \in changed
                        THEN [cand |-> index[w].newest, prev |-> active[w], snap |-> snap[w]]
                        ELSE None]])
    /\ saved' = IF Verified THEN gate ELSE None
    /\ backup' = [w \in Wikis |-> None]
    /\ todo' = changed
    /\ Goto("activate")
    /\ UNCHANGED <<wikiVars, active, snap, prep, pubVars, siteVars, run, mode, victims>>

-----------------------------------------------------------------------------
(* Activation: per wiki, in order, the link moves to the backup, the new   *)
(* link appears, the snapshot pointer follows.                             *)

First(w) == w \in todo /\ \A v \in todo : w <= v
Last(w) == w \in todo /\ \A v \in todo : v <= w

MoveActiveToBackup(w) ==
    /\ pc = "activate" /\ First(w)
    /\ backup' = [backup EXCEPT ![w] = active[w]]
    /\ active' = [active EXCEPT ![w] = None]
    /\ Goto("link")
    /\ UNCHANGED <<wikiVars, snap, prep, txnVars, pubVars, siteVars, run, mode, todo, victims, faults>>

LinkSelected(w) ==
    /\ pc = "link" /\ First(w)
    /\ active' = [active EXCEPT ![w] = E(w).cand]
    /\ Goto("point")
    /\ UNCHANGED <<wikiVars, snap, backup, prep, txnVars, pubVars, siteVars, run, mode, todo, victims, faults>>

\* set_current_snapshot_for_ready_candidate
PointSelected(w) ==
    /\ pc = "point" /\ First(w)
    /\ SnapshotOf[E(w).cand] \in inputs[w]
    /\ snap' = [snap EXCEPT ![w] = SnapshotOf[E(w).cand]]
    /\ todo' = todo \ {w}
    /\ Goto("activate")
    /\ UNCHANGED <<wikiVars, active, backup, prep, txnVars, pubVars, siteVars, run, mode, victims, faults>>

Select ==
    /\ pc = "activate" /\ todo = {}
    /\ WriteJournal([journal EXCEPT !.state = "selected"])
    /\ Goto(IF Selected = {} THEN "repair" ELSE "merge")
    /\ UNCHANGED <<wikiVars, linkVars, prep, saved, pubVars, siteVars, run, mode, todo, victims, faults>>

\* validate_active_ready_candidates: a candidate that has become ready since the
\* selection ends the run, and the selection stays as it is.
Repair ==
    /\ pc = "repair"
    /\ Goto(IF \A w \in Wikis : index[w].newest = active[w] THEN "merge" ELSE "idle")
    /\ UNCHANGED <<wikiVars, linkVars, prep, txnVars, pubVars, siteVars, run, mode, todo, victims, faults>>

-----------------------------------------------------------------------------
(* merge_outputs, record_candidate and validate: for the selection, and    *)
(* for a rollback that regenerates the previous publication.               *)

MergeBegin ==
    /\ pc = "merge"
    /\ root' = None
    /\ Goto("merged")
    /\ UNCHANGED <<wikiVars, linkVars, prep, txnVars, cand, gate, siteVars, run, mode, todo, victims, faults>>

MergeEnd ==
    /\ pc = "merged"
    /\ root' = [run |-> run, vec |-> active]
    /\ Goto("candidate")
    /\ UNCHANGED <<wikiVars, linkVars, prep, txnVars, cand, gate, siteVars, run, mode, todo, victims, faults>>

RecordCandidate ==
    /\ pc = "candidate"
    /\ root # None
    /\ cand' = root
    /\ Goto("validate")
    /\ UNCHANGED <<wikiVars, linkVars, prep, txnVars, root, gate, siteVars, run, mode, todo, victims, faults>>

\* The live candidates must prove their snapshots and the artifacts must not
\* have changed; the gate is the last write.
Validate ==
    /\ pc = "validate"
    /\ root = cand /\ cand.run = run
    /\ \A w \in Wikis : Authentic(w, active[w]) /\ snap[w] = SnapshotOf[active[w]]
    /\ gate' = cand
    /\ Goto(CASE mode = "publish" -> "build"
              [] mode = "recover" -> "rolledback"
              [] mode = "wrapper" -> "idle")
    /\ UNCHANGED <<wikiVars, linkVars, prep, txnVars, root, cand, siteVars, run, mode, todo, victims, faults>>

-----------------------------------------------------------------------------
(* build-site.sh: the staged build is verified again, the link switches,   *)
(* then site-fingerprint-record writes the receipt.                        *)

SwitchSite ==
    /\ pc = "build"
    /\ Verified
    /\ site' = gate
    /\ Goto("sitereceipt")
    /\ UNCHANGED <<wikiVars, linkVars, prep, txnVars, pubVars, receipt, run, mode, todo, victims, faults>>

RecordSite ==
    /\ pc = "sitereceipt"
    /\ receipt' = [gate |-> gate, cand |-> cand, site |-> site]
    /\ siteNewer' = TRUE
    /\ Goto(IF mode = "publish" THEN "commit" ELSE "recover")
    /\ UNCHANGED <<wikiVars, linkVars, prep, journal, saved, pubVars, site, run, mode, todo, victims, faults>>

-----------------------------------------------------------------------------
(* commit_ready_publication                                                *)

CommitAllowed ==
    journal.state \in {"selected", "committing"} /\ Verified /\ gate.run = journal.run

\* Mutant: the commit starts to retire before the journal says so.
CommitBegin_Unrecorded ==
    /\ pc = "commit" /\ CommitAllowed
    /\ todo' = Selected
    /\ Goto("publish")
    /\ UNCHANGED <<wikiVars, linkVars, prep, txnVars, pubVars, siteVars, run, mode, victims, faults>>

CommitBegin ==
    /\ pc = "commit" /\ CommitAllowed
    /\ IF journal.state = "selected"
         THEN WriteJournal([journal EXCEPT !.state = "committing"])
         ELSE UNCHANGED <<journal, siteNewer>>
    /\ todo' = Selected
    /\ Goto("publish")
    /\ UNCHANGED <<wikiVars, linkVars, prep, saved, pubVars, siteVars, run, mode, victims, faults>>

PublishSelected(w) ==
    /\ pc = "publish" /\ First(w)
    /\ snap[w] = SnapshotOf[E(w).cand]
    /\ Transition(w, E(w).cand, "published")
    /\ Goto("supersede")
    /\ UNCHANGED <<ready, inputs, index, linkVars, prep, txnVars, pubVars, siteVars, run, mode, todo, victims, faults>>

\* What is ready now is sure to be found by the walk over the directory that
\* follows; a candidate that becomes ready during it may be or not.
SupersedePrevious(w) ==
    /\ pc = "supersede" /\ First(w)
    /\ Transition(w, E(w).prev, "superseded")
    /\ victims' = ready[w] \ {E(w).cand, E(w).prev}
    /\ Goto("retire")
    /\ UNCHANGED <<ready, inputs, index, linkVars, prep, txnVars, pubVars, siteVars, run, mode, todo, faults>>

\* Mutant: the rollback candidate is not protected.
RetireCandidate_Previous(w) ==
    /\ pc = "retire" /\ First(w)
    /\ \E c \in ready[w] \ {E(w).cand} :
          /\ gen' = [gen EXCEPT ![w][c] = "retired"]
          /\ ready' = [ready EXCEPT ![w] = @ \ {c}]
          /\ victims' = victims \ {c}
    /\ UNCHANGED <<inputs, index, linkVars, prep, txnVars, pubVars, siteVars, run, pc, mode, todo, faults>>

\* retire_candidates_outside_rollback: every other ready candidate is recorded
\* superseded (if it was ready or published) and retired, then removed.
RetireCandidate(w) ==
    /\ pc = "retire" /\ First(w)
    /\ \E c \in ready[w] \ {E(w).cand, E(w).prev} :
          \/ /\ gen[w][c] # "retired"
             /\ gen' = [gen EXCEPT ![w][c] =
                          IF @ \in {"ready", "published"} THEN "superseded" ELSE "retired"]
             /\ victims' = victims \cup {c}
             /\ UNCHANGED ready
          \/ /\ gen[w][c] = "retired"
             /\ ready' = [ready EXCEPT ![w] = @ \ {c}]
             /\ victims' = victims \ {c}
             /\ UNCHANGED gen
    /\ UNCHANGED <<inputs, index, linkVars, prep, txnVars, pubVars, siteVars, run, pc, mode, todo, faults>>

\* storage::retire_inactive_snapshots
RetireInputs(w) ==
    /\ pc = "retire" /\ First(w) /\ victims = {}
    /\ inputs' = [inputs EXCEPT ![w] = {snap[w]}]
    /\ Goto("dropbackup")
    /\ UNCHANGED <<ready, gen, index, linkVars, prep, txnVars, pubVars, siteVars, run, mode, todo, victims, faults>>

RemoveCommittedBackup(w) ==
    /\ pc = "dropbackup" /\ First(w)
    /\ backup' = [backup EXCEPT ![w] = None]
    /\ Goto("indexselected")
    /\ UNCHANGED <<wikiVars, active, snap, prep, txnVars, pubVars, siteVars, run, mode, todo, victims, faults>>

IndexSelected(w) ==
    /\ pc = "indexselected" /\ First(w)
    /\ IndexWritable(w)
    /\ WriteIndex(w, E(w).cand)
    /\ todo' = todo \ {w}
    /\ Goto("publish")
    /\ UNCHANGED <<ready, inputs, gen, linkVars, prep, txnVars, pubVars, siteVars, run, mode, victims, faults>>

CommitEnd ==
    /\ pc = "publish" /\ todo = {}
    /\ WriteJournal([journal EXCEPT !.state = "committed"])
    /\ saved' = None
    /\ Goto(IF mode = "recover" THEN "preflight" ELSE "idle")
    /\ mode' = "publish"
    /\ UNCHANGED <<wikiVars, linkVars, prep, pubVars, siteVars, run, todo, victims, faults>>

-----------------------------------------------------------------------------
(* rollback_selection_files, in reverse order, then the artifacts.  Its    *)
(* callers: "activation" (a failed activation), "prepare" (a failed merge  *)
(* or validation), "wrapper" (publication-rollback-ready) and "recover".   *)

Restored(w) ==
    ~SelectedLive(w) /\ backup[w] = None /\ PreviousLive(w) /\ snap[w] = E(w).snap

UndoSkip(w) ==
    /\ pc = "undo" /\ Last(w)
    /\ Restored(w)
    /\ todo' = todo \ {w}
    /\ UNCHANGED <<wikiVars, linkVars, prep, txnVars, pubVars, siteVars, run, pc, mode, victims, faults>>

UndoUnlink(w) ==
    /\ pc = "undo" /\ Last(w)
    /\ ~Restored(w)
    /\ SelectedLive(w) \/ backup[w] # None \/ PreviousLive(w)
    /\ active' = IF SelectedLive(w) THEN [active EXCEPT ![w] = None] ELSE active
    /\ Goto("relink")
    /\ UNCHANGED <<wikiVars, snap, backup, prep, txnVars, pubVars, siteVars, run, mode, todo, victims, faults>>

\* restore_backup, or a new link to the previous candidate
UndoRelink(w) ==
    /\ pc = "relink" /\ Last(w)
    /\ \/ /\ backup[w] # None
          /\ active' = [active EXCEPT ![w] = backup[w]]
          /\ backup' = [backup EXCEPT ![w] = None]
       \/ /\ backup[w] = None
          /\ active' = IF active[w] = None /\ Authentic(w, E(w).prev)
                         THEN [active EXCEPT ![w] = E(w).prev] ELSE active
          /\ UNCHANGED backup
    /\ Goto("repoint")
    /\ UNCHANGED <<wikiVars, snap, prep, txnVars, pubVars, siteVars, run, mode, todo, victims, faults>>

\* Mutant: the link goes back, the snapshot pointer does not.
UndoPoint_Forgotten(w) ==
    /\ pc = "repoint" /\ Last(w)
    /\ Goto("reindex")
    /\ UNCHANGED <<wikiVars, linkVars, prep, txnVars, pubVars, siteVars, run, mode, todo, victims, faults>>

UndoPoint(w) ==
    /\ pc = "repoint" /\ Last(w)
    /\ E(w).snap \in inputs[w]
    /\ snap' = [snap EXCEPT ![w] = E(w).snap]
    /\ Goto("reindex")
    /\ UNCHANGED <<wikiVars, active, backup, prep, txnVars, pubVars, siteVars, run, mode, todo, victims, faults>>

UndoIndex(w) ==
    /\ pc = "reindex" /\ Last(w)
    /\ Discoverable(w) # {} /\ IndexWritable(w)
    /\ gen' = [gen EXCEPT ![w] =
                 [c \in Cands |-> IF Authentic(w, c) THEN Reconciled(@[c]) ELSE @[c]]]
    /\ WriteIndex(w, Newest(Discoverable(w)))
    /\ todo' = todo \ {w}
    /\ Goto("undo")
    /\ UNCHANGED <<ready, inputs, linkVars, prep, txnVars, pubVars, siteVars, run, mode, victims, faults>>

\* Mutant: artifacts are restored whether they were saved or not.
UndoEnd_AlwaysRestore ==
    /\ pc = "undo" /\ todo = {}
    /\ Goto(IF mode = "activation" THEN "rolledback" ELSE "restore")
    /\ UNCHANGED <<wikiVars, linkVars, prep, txnVars, pubVars, siteVars, run, mode, todo, victims, faults>>

UndoEnd ==
    /\ pc = "undo" /\ todo = {}
    /\ Goto(CASE mode = "activation" -> "rolledback"
              [] mode # "activation" /\ saved # None -> "restore"
              [] mode # "activation" /\ saved = None -> "restored")
    /\ UNCHANGED <<wikiVars, linkVars, prep, txnVars, pubVars, siteVars, run, mode, todo, victims, faults>>

\* restore_publication_artifacts, in the order of the names: the candidate
\* file, merged artifacts, the gate, merged artifacts.
RestoreCandidate ==
    /\ pc = "restore"
    /\ cand' = saved
    /\ Goto("restoregate")
    /\ UNCHANGED <<wikiVars, linkVars, prep, txnVars, root, gate, siteVars, run, mode, todo, victims, faults>>

RestoreGate ==
    /\ pc = "restoregate"
    /\ gate' = saved
    /\ root' = IF root = saved THEN root ELSE None
    /\ Goto("restoreroot")
    /\ UNCHANGED <<wikiVars, linkVars, prep, txnVars, cand, siteVars, run, mode, todo, victims, faults>>

RestoreRoot ==
    /\ pc = "restoreroot"
    /\ root' = saved
    /\ Goto("restored")
    /\ UNCHANGED <<wikiVars, linkVars, prep, txnVars, cand, gate, siteVars, run, mode, todo, victims, faults>>

\* The previous publication is there again, byte for byte.
Intact ==
    /\ Verified /\ SiteMatches
    /\ \A w \in Selected : SnapshotOf[gate.vec[w]] = E(w).snap

\* After the artifacts: recovery regenerates what is not intact, the wrapper
\* what was not saved; a restored publication that does not verify is an error.
AfterRestore ==
    /\ pc = "restored"
    /\ Goto(CASE mode = "recover" -> IF Intact THEN "rolledback" ELSE "merge"
              [] mode # "recover" -> IF saved = None \/ Verified THEN "rolledback" ELSE "idle")
    /\ UNCHANGED <<wikiVars, linkVars, prep, txnVars, pubVars, siteVars, run, mode, todo, victims, faults>>

RolledBack ==
    /\ pc = "rolledback"
    /\ WriteJournal([journal EXCEPT !.state = "rolled_back"])
    /\ saved' = None
    /\ Goto(CASE mode = "recover" -> IF gate.run = run THEN "build" ELSE "preflight"
              [] mode = "wrapper" -> IF saved = None THEN "merge" ELSE "idle"
              [] mode \in {"activation", "prepare"} -> "idle")
    /\ mode' = IF mode = "recover" /\ gate.run # run THEN "publish" ELSE mode
    /\ UNCHANGED <<wikiVars, linkVars, prep, pubVars, siteVars, run, todo, victims, faults>>

-----------------------------------------------------------------------------
(* Errors, crashes and damage.                                             *)

\* A check that fails although no operation did.
Refused ==
    \/ pc = "candidate" /\ root = None
    \/ pc = "validate" /\ root # cand
    \/ pc = "build" /\ ~Verified

Failing(from) ==
    /\ pc \in from
    /\ \/ Refused /\ UNCHANGED faults
       \/ Fault("fail")

StartUndo(m) == Goto("undo") /\ mode' = m /\ todo' = Selected

\* An error in the loop of activate_ready_candidates rolls the links back.
ActivationFails ==
    /\ pc \in {"activate", "link", "point"} /\ todo # {} /\ Fault("fail")
    /\ StartUndo("activation")
    /\ UNCHANGED <<wikiVars, linkVars, prep, txnVars, pubVars, siteVars, run, victims>>

\* prepare_ready_publication undoes a selection it cannot merge or validate;
\* a regeneration that fails just ends.
PrepareFails ==
    /\ Failing({"merge", "merged", "candidate", "validate"})
    /\ \/ mode = "publish" /\ StartUndo("prepare")
       \/ mode # "publish" /\ Goto("idle") /\ UNCHANGED <<mode, todo>>
    /\ UNCHANGED <<wikiVars, linkVars, prep, txnVars, pubVars, siteVars, run, victims>>

\* rollback_on_failure: site_published is still 0 when build-site.sh fails
BuildFails ==
    /\ \/ Failing({"build"})
       \/ pc = "sitereceipt" /\ Fault("receipt")
    /\ \/ mode = "publish" /\ StartUndo("wrapper")
       \/ mode # "publish" /\ Goto("idle") /\ UNCHANGED <<mode, todo>>
    /\ UNCHANGED <<wikiVars, linkVars, prep, txnVars, pubVars, siteVars, run, victims>>

\* A commit that does not verify leaves data and site as they are.
CommitRefused ==
    /\ pc = "commit" /\ ~CommitAllowed
    /\ Goto("idle")
    /\ UNCHANGED <<wikiVars, linkVars, prep, txnVars, pubVars, siteVars, run, mode, todo, victims, faults>>

\* The publisher's pod dies.  An error where the code has no handler leaves the
\* same state.
Crash ==
    /\ pc # "idle" /\ Fault("crash")
    /\ Goto("idle") /\ mode' = "publish" /\ todo' = {} /\ victims' = {}
    /\ UNCHANGED <<wikiVars, linkVars, prep, txnVars, pubVars, siteVars, run>>

PrepCrash(w) ==
    /\ prep[w].step # "idle" /\ Fault("crash")
    /\ PrepGoto(w, "idle")
    /\ UNCHANGED <<wikiVars, linkVars, txnVars, pubVars, siteVars, ctlVars>>

\* A merged artifact no longer is what the gate recorded.
Damage ==
    /\ root # None /\ Fault("damage")
    /\ root' = None
    /\ UNCHANGED <<wikiVars, linkVars, prep, txnVars, cand, gate, siteVars, ctlVars>>

-----------------------------------------------------------------------------
(* Every wiki was published once: the first publication of a wiki, which   *)
(* has nothing to go back to, is the operator's.                           *)

FirstPublication == [run |-> 1, vec |-> [w \in Wikis |-> 1]]

Init ==
    /\ ready = [w \in Wikis |-> {1}]
    /\ inputs = [w \in Wikis |-> {SnapshotOf[1]}]
    /\ gen = [w \in Wikis |-> [c \in Cands |-> IF c = 1 THEN "published" ELSE "none"]]
    /\ index = [w \in Wikis |-> [newest |-> 1, active |-> 1]]
    /\ active = [w \in Wikis |-> 1]
    /\ snap = [w \in Wikis |-> SnapshotOf[1]]
    /\ backup = [w \in Wikis |-> None]
    /\ prep = [w \in Wikis |-> [step |-> "idle", cand |-> 1]]
    /\ journal = [run |-> 1, state |-> "committed", entries |-> [w \in Wikis |-> None]]
    /\ saved = None
    /\ root = FirstPublication /\ cand = FirstPublication /\ gate = FirstPublication
    /\ site = FirstPublication
    /\ receipt = [gate |-> gate, cand |-> cand, site |-> site]
    /\ siteNewer = FALSE
    /\ run = 1 /\ pc = "idle" /\ mode = "publish" /\ todo = {} /\ victims = {}
    /\ faults = 0

Prepare(w) ==
    \/ PrepBegin(w) \/ PrepValidate(w) \/ PrepReceipt(w) \/ PrepRecord(w)
    \/ PrepIndex(w) \/ PrepFails(w)

Activation(w) == MoveActiveToBackup(w) \/ LinkSelected(w) \/ PointSelected(w)

Committing(w) ==
    \/ PublishSelected(w) \/ SupersedePrevious(w) \/ RetireCandidate(w)
    \/ RetireInputs(w) \/ RemoveCommittedBackup(w) \/ IndexSelected(w)

Undoing(w) ==
    UndoSkip(w) \/ UndoUnlink(w) \/ UndoRelink(w) \/ UndoPoint(w) \/ UndoIndex(w)

Publisher ==
    \/ Begin \/ Recover \/ Preflight \/ NoOp \/ Activate \/ Select \/ Repair
    \/ MergeBegin \/ MergeEnd \/ RecordCandidate \/ Validate
    \/ SwitchSite \/ RecordSite \/ CommitBegin \/ CommitEnd \/ CommitRefused
    \/ UndoEnd \/ RestoreCandidate \/ RestoreGate \/ RestoreRoot
    \/ AfterRestore \/ RolledBack
    \/ \E w \in Wikis : RebuildIndex(w) \/ Activation(w) \/ Committing(w) \/ Undoing(w)

Failures == ActivationFails \/ PrepareFails \/ BuildFails

Next ==
    \/ Publisher \/ Failures \/ Crash \/ Damage
    \/ \E w \in Wikis : Prepare(w) \/ PrepCrash(w)

Spec == Init /\ [][Next]_vars

\* The publisher is a scheduled job and preparations are fleet tasks: what they
\* have started goes on unless it dies.
FairSpec ==
    /\ Spec
    /\ WF_vars(Publisher \/ Failures)
    /\ \A w \in Wikis : WF_vars(Prepare(w))

-----------------------------------------------------------------------------
(* Properties.                                                             *)

\* The documents, links and control of the publisher have their types.
TypeOK ==
    /\ ready \in [Wikis -> SUBSET Cands] /\ inputs \in [Wikis -> SUBSET Snaps]
    /\ gen \in [Wikis -> [Cands -> GStates]]
    /\ index \in [Wikis -> [newest : Cands, active : Cands \cup {None}]]
    /\ active \in [Wikis -> Cands \cup {None}] /\ backup \in [Wikis -> Cands \cup {None}]
    /\ snap \in [Wikis -> Snaps]
    /\ prep \in [Wikis -> [step : {"idle", "validate", "receipt", "record", "index"}, cand : Cands]]
    /\ journal \in [run : Runs, state : Terminal \cup Unpublished \cup {"committing"},
                    entries : [Wikis -> Entry \cup {None}]]
    /\ saved \in Publications \cup {None} /\ root \in Publications \cup {None}
    /\ cand \in Publications /\ gate \in Publications /\ site \in Publications
    /\ receipt \in [gate : Publications, cand : Publications, site : Publications]
    /\ siteNewer \in BOOLEAN
    /\ run \in Runs
    /\ pc \in {"idle", "recover", "preflight", "select", "activate", "link", "point", "repair", "merge",
               "merged", "candidate", "validate", "build", "sitereceipt", "commit", "publish",
               "supersede", "retire", "dropbackup", "indexselected", "undo", "relink",
               "repoint", "reindex", "restore", "restoregate", "restoreroot", "restored",
               "rolledback"}
    /\ mode \in {"publish", "recover", "activation", "prepare", "wrapper"}
    /\ todo \subseteq Wikis /\ victims \subseteq Cands
    /\ faults \in 0..MaxFaults

\* Whatever is linked, or kept to be linked again, exists with its inputs.
LiveDataKept ==
    \A w \in Wikis : /\ active[w] # None => Authentic(w, active[w])
                     /\ backup[w] # None => backup[w] \in ready[w]

\* A selection that is not being committed can be undone: the previous candidate
\* of every entry is still there with its inputs, and the link to it is live, in
\* the backup, or can be made again.
RollbackPossible ==
    journal.state \in Unpublished =>
        \A w \in Selected : /\ Authentic(w, E(w).prev) /\ E(w).snap \in inputs[w]
                            /\ BackupRecoverable(w)

\* A publication that is being committed is the one that is served.
CommittedIsServed ==
    journal.state \in {"committing", "committed"} =>
        \A w \in Selected : site.vec[w] = E(w).cand

\* Between transactions, data, pointers and site show the same candidates.
Settled ==
    journal.state \in Terminal /\ pc \in {"idle", "preflight", "select"} =>
        \A w \in Wikis : active[w] = site.vec[w] /\ snap[w] = SnapshotOf[site.vec[w]]

Stuck == pc \in {"idle", "recover"} /\ Audit \notin {"clean", "commit", "rollback"}

\* Recovery decides every crash except in two windows: between the candidate
\* file and the gate, and between the site switch and its receipt.
OnlyTwoBlindWindows == Stuck => cand # gate \/ receipt.site # site

\* Whatever fails or dies, data, site and index come to agree on one candidate
\* per wiki for good, unless recovery has given up.
Converges ==
    <>[](Stuck \/ \A w \in Wikis : /\ active[w] = site.vec[w] /\ index[w].newest = site.vec[w]
                                   /\ Verified)

\* What the site shows only ever moves to candidates that were ready, never back
\* to an older one, and in one step for all wikis: the transactions, their
\* crashes and their recoveries implement PublishedSite.
Offered ==
    [w \in Wikis |->
        {c \in Cands : gen[w][c] \in {"ready", "published", "superseded", "retired"}}]

Abstract == INSTANCE PublishedSite WITH offered <- Offered, served <- site.vec

ServesForward == Abstract!Spec
=============================================================================
