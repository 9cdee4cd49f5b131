-------------------------- MODULE PublicationProofs --------------------------
(***************************************************************************)
(* Proofs about Publication, for any number of wikis, candidates, runs and *)
(* faults.                                                                 *)
(***************************************************************************)
EXTENDS Publication, NaturalSets

-----------------------------------------------------------------------------
(* The inductive invariant.                                                *)

\* A wiki that no transaction is about: its link, its pointer and its data agree.
Live(w) ==
    /\ active[w] \in Cands /\ Authentic(w, active[w])
    /\ snap[w] = SnapshotOf[active[w]] /\ backup[w] = None

\* A wiki whose link the transaction has moved to the selected candidate, and
\* one whose link is the previous one (again).
Done(w) == active[w] = E(w).cand /\ snap[w] = SnapshotOf[E(w).cand]
Back(w) == active[w] = E(w).prev /\ backup[w] = None
Undone(w) == Back(w) /\ snap[w] = E(w).snap

\* A wiki of a selection that is not being committed: both candidates are
\* there, and the link to the previous one is live or in the backup.
Pledged(w) ==
    /\ E(w).cand # E(w).prev /\ E(w).snap = SnapshotOf[E(w).prev]
    /\ Authentic(w, E(w).prev) /\ Authentic(w, E(w).cand)
    /\ \/ Back(w)
       \/ active[w] \in {None, E(w).cand} /\ backup[w] = E(w).prev

\* A wiki of a selection that is being committed.
Switching(w) ==
    /\ Done(w) /\ E(w).cand # E(w).prev /\ Authentic(w, E(w).cand)
    /\ backup[w] \in {None, E(w).prev} /\ E(w).prev \in ready[w]

WikiInv(w) ==
    /\ journal.state \in Unpublished /\ w \in Selected => Pledged(w)
    /\ journal.state = "committing" /\ w \in Selected => Switching(w)
    /\ journal.state \in Terminal \/ w \notin Selected => Live(w)

\* Where the publisher is, what the journal says and how far the links are.
Activating == {"activate", "link", "point"}
Merging == {"merge", "merged", "candidate", "validate"}
Building == {"build", "sitereceipt"}
InCommit == {"publish", "supersede", "retire", "dropbackup", "indexselected"}
InUndo == {"undo", "relink", "repoint", "reindex"}
Restoring == {"restore", "restoregate", "restoreroot"}
InRestore == Restoring \cup {"restored", "rolledback"}

AllDone == \A w \in Selected : Done(w)
AllUndone == \A w \in Selected : Undone(w)

ActivateInv ==
    pc \in Activating =>
        /\ journal.state = "activating" /\ mode = "publish" /\ todo \subseteq Selected
        /\ \A w \in Selected \ todo : Done(w)
        /\ \A w \in todo : pc = "activate" \/ ~First(w) => Back(w)
        /\ \A w \in todo : First(w) => /\ pc = "link" => active[w] = None
                                       /\ pc = "point" => active[w] = E(w).cand

PublishInv ==
    /\ pc \in {"preflight", "select"} => journal.state \in Terminal /\ mode = "publish"
    /\ pc = "repair" => journal.state = "selected" /\ Selected = {} /\ mode = "publish"
    /\ pc \in Merging => \/ mode = "publish" /\ journal.state = "selected" /\ AllDone
                         \/ mode = "recover" /\ journal.state \in Unpublished /\ AllUndone
                         \/ mode = "wrapper" /\ journal.state = "rolled_back"
    /\ pc \in Building => \/ mode = "publish" /\ journal.state = "selected" /\ AllDone
                          \/ mode = "recover" /\ journal.state = "rolled_back"
    /\ pc = "commit" => /\ journal.state \notin Terminal /\ AllDone
                        /\ mode \in {"publish", "recover"}

CommitInv ==
    pc \in InCommit =>
        /\ journal.state = "committing" /\ todo \subseteq Selected
        /\ mode \in {"publish", "recover"}
        /\ \A w \in Selected \ todo : backup[w] = None
        /\ pc = "indexselected" => \A w \in todo : First(w) => backup[w] = None

UndoInv ==
    /\ pc \in InUndo =>
           /\ journal.state \in Unpublished /\ mode # "publish" /\ todo \subseteq Selected
           /\ \A w \in Selected \ todo : Undone(w)
           /\ \A w \in todo : Last(w) => /\ pc = "relink" => active[w] # E(w).cand
                                         /\ pc \in {"repoint", "reindex"} => Back(w)
                                         /\ pc = "reindex" => Undone(w)
    /\ pc \in InRestore => journal.state \in Unpublished /\ mode # "publish" /\ AllUndone
    /\ pc \in Restoring => saved # None

PcInv == ActivateInv /\ PublishInv /\ CommitInv /\ UndoInv

Committed == journal.state = "committed" => \A w \in Selected : active[w] = E(w).cand

CoreInv == PcInv /\ (\A w \in Wikis : WikiInv(w)) /\ Committed

SafeInv == TypeOK /\ CoreInv

\* What the site and its receipt show, whatever fails: a receipt names one
\* publication, the site that is being recorded is the verified one, and what is
\* committed is served.
ReceiptInv == receipt.gate = receipt.site /\ receipt.cand = receipt.site

ServedInv ==
    /\ ReceiptInv
    /\ pc = "sitereceipt" => site = gate /\ cand = gate /\ gate.vec = active
    /\ pc = "commit" => site.vec = active /\ receipt.site = site
    /\ CommittedIsServed

\* The candidate of a wiki that the site shows until the switch.
Shown(w) == IF journal.state \in Unpublished /\ w \in Selected THEN E(w).prev ELSE active[w]

Old == \A w \in Wikis : site.vec[w] = Shown(w) /\ receipt.site.vec[w] = Shown(w)

\* The site was switched for a selection that is not being committed yet.
Switched ==
    /\ journal.state = "selected" /\ pc \in {"sitereceipt", "commit", "idle", "recover"}
    /\ site = gate /\ cand = gate /\ gate.run = journal.run

\* What the receipt shows, whatever fails: the publication before the switch, or
\* the one that is about to be committed.
Recorded ==
    /\ journal.state = "selected" /\ pc \in {"commit", "idle", "recover"}
    /\ site = gate /\ cand = gate /\ gate.run = journal.run

ReceiptOld == \A w \in Wikis : receipt.site.vec[w] = Shown(w)

\* A recovery that rolls back has found the site of the previous publication.
Regressing == mode = "recover" /\ pc \in InUndo \cup InRestore \cup Merging \cup Building

ShownInv ==
    /\ ReceiptOld \/ Recorded
    /\ Regressing => \A w \in Wikis : site.vec[w] = Shown(w)

\* The records of a wiki: nothing is known of candidates that are still to come;
\* what is linked, selected or shown is ready or published and has its data, and
\* the index names no older candidate than the site.
Known(w, c) == gen[w][c] \in {"ready", "published", "superseded", "retired"}

Standing(w, c) == gen[w][c] \in {"ready", "published"}

Present(w, c) == Standing(w, c) /\ c <= index[w].newest

RecordInv(w) ==
    /\ \A c \in Cands : c > prep[w].cand => gen[w][c] = "none" /\ c \notin ready[w]
    /\ prep[w].step = "index" => Known(w, prep[w].cand)
    /\ Known(w, index[w].newest)
    /\ active[w] # None => Present(w, active[w])
    /\ w \in Selected /\ journal.state \in Unpublished =>
           Present(w, E(w).prev) /\ Present(w, E(w).cand)
    /\ Present(w, site.vec[w]) /\ Authentic(w, site.vec[w])

AllRecords == \A w \in Wikis : RecordInv(w)

\* No transaction leads to an older candidate than the site shows.
Target(w) == IF w \in Selected THEN E(w).cand ELSE active[w]

TargetInv == journal.state \in Unpublished => \A w \in Wikis : site.vec[w] <= Target(w)

\* The publication of a run is the one of its journal.
RunInv ==
    /\ mode = "publish" /\ pc \in Activating \cup Merging \cup {"repair"} => journal.run = run
    /\ mode = "publish" /\ pc \in Building => gate.run = journal.run

-----------------------------------------------------------------------------
(* The constants and the types.                                            *)

\* What the proofs use of the constants.
LEMMA Constants ==
    /\ Wikis \subseteq Nat /\ Cands \subseteq Nat /\ 1 \in Cands /\ 1 \in Runs
    /\ None \notin Cands /\ None \notin Publications /\ None \notin Entry
    /\ \A c \in Cands : SnapshotOf[c] \in Snaps
<1>1. NumWikis \in Nat /\ NumCands \in Nat \ {0} /\ MaxRuns \in Nat \ {0}
  BY PublicationAssumption
<1>2. Wikis \subseteq Nat /\ Cands \subseteq Nat /\ 1 \in Cands /\ 1 \in Runs
  BY <1>1 DEF Wikis, Cands, Runs
<1>3. None \notin Cands
  BY <1>2, PublicationAssumption
<1>4. None \notin Publications /\ None \notin Entry
  BY PublicationAssumption DEF Publications, Entry
<1>5. \A c \in Cands : SnapshotOf[c] \in Snaps
  BY DEF Snaps
<1>6. QED
  BY <1>2, <1>3, <1>4, <1>5

DataType ==
    /\ ready \in [Wikis -> SUBSET Cands] /\ inputs \in [Wikis -> SUBSET Snaps]
    /\ gen \in [Wikis -> [Cands -> GStates]]
    /\ index \in [Wikis -> [newest : Cands, active : Cands \cup {None}]]
    /\ prep \in [Wikis -> [step : {"idle", "validate", "receipt", "record", "index"}, cand : Cands]]

LinkType ==
    /\ active \in [Wikis -> Cands \cup {None}] /\ backup \in [Wikis -> Cands \cup {None}]
    /\ snap \in [Wikis -> Snaps]

TxnType ==
    /\ journal \in [run : Runs, state : Terminal \cup Unpublished \cup {"committing"},
                    entries : [Wikis -> Entry \cup {None}]]
    /\ saved \in Publications \cup {None} /\ siteNewer \in BOOLEAN

PubType ==
    /\ root \in Publications \cup {None} /\ cand \in Publications /\ gate \in Publications

SiteType ==
    /\ site \in Publications
    /\ receipt \in [gate : Publications, cand : Publications, site : Publications]

CtlType ==
    /\ run \in Runs
    /\ pc \in {"idle", "recover", "preflight", "select", "activate", "link", "point", "repair", "merge",
               "merged", "candidate", "validate", "build", "sitereceipt", "commit", "publish",
               "supersede", "retire", "dropbackup", "indexselected", "undo", "relink",
               "repoint", "reindex", "restore", "restoregate", "restoreroot", "restored",
               "rolledback"}
    /\ mode \in {"publish", "recover", "activation", "prepare", "wrapper"}
    /\ todo \subseteq Wikis /\ victims \subseteq Cands
    /\ faults \in 0..MaxFaults

\* The type invariant, in the groups of variables that actions change together.
LEMMA TypeParts == TypeOK <=> DataType /\ LinkType /\ TxnType /\ PubType /\ SiteType /\ CtlType
BY DEF TypeOK, DataType, LinkType, TxnType, PubType, SiteType, CtlType

LEMMA TypeTogether ==
    DataType' /\ LinkType' /\ TxnType' /\ PubType' /\ SiteType' /\ CtlType' => TypeOK'
BY DEF TypeOK, DataType, LinkType, TxnType, PubType, SiteType, CtlType

\* A group whose variables do not change keeps its types.
LEMMA DataSame == DataType /\ UNCHANGED <<wikiVars, prep>> => DataType'
BY DEF DataType, wikiVars

LEMMA LinkSame == LinkType /\ UNCHANGED linkVars => LinkType'
BY DEF LinkType, linkVars

LEMMA TxnSame == TxnType /\ UNCHANGED txnVars => TxnType'
BY DEF TxnType, txnVars

LEMMA PubSame == PubType /\ UNCHANGED pubVars => PubType'
BY DEF PubType, pubVars

LEMMA SiteSame == SiteType /\ UNCHANGED siteVars => SiteType'
BY DEF SiteType, siteVars

\* An entry of the journal names two candidates and a snapshot.
LEMMA EntryType ==
    ASSUME TypeOK, NEW w \in Selected
    PROVE  w \in Wikis /\ E(w) \in Entry /\ E(w).cand \in Cands /\ E(w).prev \in Cands
           /\ E(w).snap \in Snaps
<1>1. w \in Wikis /\ E(w) # None
  BY DEF Selected, E
<1>2. journal.entries \in [Wikis -> Entry \cup {None}]
  BY TypeParts DEF TxnType
<1>3. E(w) \in Entry
  BY <1>1, <1>2 DEF E
<1>4. QED
  BY <1>1, <1>3 DEF Entry

\* The newest of some candidates is one of them.
LEMMA NewestOf ==
    ASSUME NEW S \in SUBSET Cands, S # {}
    PROVE  Newest(S) \in S /\ \A d \in S : d <= Newest(S)
<1>1. S \in SUBSET Nat /\ NumCands \in Nat /\ \A k \in S : k <= NumCands
  BY PublicationAssumption DEF Cands
<1>2. \E c \in S : \A d \in S : d <= c
  BY <1>1, LargestNat
<1>3. QED
  BY <1>2 DEF Newest

-----------------------------------------------------------------------------
(* Steps that leave the links, the journal and the control alone and only  *)
(* add to the data: the preparations, the index and damaged artifacts.     *)

\* No input generation and no receipt goes away.
DataKept == \A w \in Wikis : ready[w] \subseteq ready'[w] /\ inputs[w] \subseteq inputs'[w]

LEMMA WikiKept ==
    ASSUME SafeInv, DataKept, UNCHANGED <<linkVars, journal>>, NEW w \in Wikis
    PROVE  WikiInv(w)'
<1>1. UNCHANGED <<active, snap, backup, journal, Selected, E(w)>>
  BY DEF linkVars, Selected, E
<1>2. \A c : Authentic(w, c) => Authentic(w, c)'
  BY DEF DataKept, Authentic
<1>3. Pledged(w) => Pledged(w)'
  BY <1>1, <1>2 DEF Pledged, Back
<1>4. Switching(w) => Switching(w)'
  BY <1>1, <1>2 DEF Switching, Done, DataKept
<1>5. Live(w) => Live(w)'
  BY <1>1, <1>2 DEF Live
<1>6. QED
  BY <1>1, <1>3, <1>4, <1>5 DEF SafeInv, CoreInv, WikiInv

\* The invariant on the control reads the links, the journal and the control only.
LEMMA PcFrame ==
    ASSUME PcInv, UNCHANGED <<linkVars, journal, pc, mode, todo>>,
           saved = None \/ saved' # None
    PROVE  PcInv'
<1>1. UNCHANGED <<active, snap, backup, Selected>>
  BY DEF linkVars, Selected
<1>2. \A w : UNCHANGED <<E(w), First(w), Last(w), Done(w), Back(w), Undone(w)>>
  BY <1>1 DEF E, First, Last, Done, Back, Undone
<1>3. UNCHANGED <<AllDone, AllUndone>>
  BY <1>1, <1>2 DEF AllDone, AllUndone
<1>4. ActivateInv'
  BY <1>1, <1>2 DEF PcInv, ActivateInv, Activating
<1>5. PublishInv'
  BY <1>1, <1>3 DEF PcInv, PublishInv, Merging, Building
<1>6. CommitInv'
  BY <1>1, <1>2 DEF PcInv, CommitInv, InCommit
<1>7. UndoInv'
  BY <1>1, <1>2, <1>3 DEF PcInv, UndoInv, InUndo, InRestore, Restoring
<1>8. QED
  BY <1>4, <1>5, <1>6, <1>7 DEF PcInv

LEMMA CommittedFrame ==
    ASSUME SafeInv, UNCHANGED <<linkVars, journal>>
    PROVE  Committed'
BY DEF SafeInv, CoreInv, Committed, linkVars, Selected, E

LEMMA DataFrame ==
    ASSUME SafeInv, DataKept, UNCHANGED <<linkVars, journal, saved, pc, mode, todo>>
    PROVE  CoreInv'
<1>1. PcInv'
  BY PcFrame DEF SafeInv, CoreInv
<1>2. QED
  BY <1>1, WikiKept, CommittedFrame DEF CoreInv

LEMMA PrepStepSafe ==
    ASSUME SafeInv, DataType', DataKept, faults' \in 0..MaxFaults,
           UNCHANGED <<linkVars, txnVars, pubVars, siteVars, ctlVars>>
    PROVE  SafeInv'
<1>1. DataType /\ LinkType /\ TxnType /\ PubType /\ SiteType /\ CtlType
  BY TypeParts DEF SafeInv
<1>2. LinkType' /\ TxnType' /\ PubType' /\ SiteType'
  BY <1>1, LinkSame, TxnSame, PubSame, SiteSame
<1>3. CtlType'
  BY <1>1 DEF CtlType, ctlVars
<1>4. TypeOK'
  BY <1>2, <1>3, TypeTogether
<1>5. CoreInv'
  BY DataFrame DEF txnVars, ctlVars
<1>6. QED
  BY <1>4, <1>5 DEF SafeInv

LEMMA PrepareSafe ==
    ASSUME SafeInv, NEW w \in Wikis, Prepare(w) \/ PrepCrash(w)
    PROVE  SafeInv'
<1>1. DataType /\ CtlType
  BY TypeParts DEF SafeInv
<1>2. faults \in 0..MaxFaults /\ MaxFaults \in Nat
  BY <1>1, PublicationAssumption DEF CtlType
<1>3. prep[w].cand \in Cands
  BY <1>1 DEF DataType
<1>4. \A s \in {"idle", "validate", "receipt", "record", "index"} :
          PrepGoto(w, s) =>
            prep' \in [Wikis -> [step : {"idle", "validate", "receipt", "record", "index"},
                                 cand : Cands]]
  BY <1>1, <1>3 DEF DataType, PrepGoto
<1>5. \A s \in GStates, c \in Cands : Transition(w, c, s) => gen' \in [Wikis -> [Cands -> GStates]]
  BY <1>1 DEF DataType, Transition
<1>6. CASE PrepBegin(w)
  <2>1. prep' \in [Wikis -> [step : {"idle", "validate", "receipt", "record", "index"}, cand : Cands]]
    BY <1>1, <1>6 DEF PrepBegin, DataType
  <2>2. gen' \in [Wikis -> [Cands -> GStates]]
    <3>1. "building" \in GStates
      BY DEF GStates
    <3>2. QED
      BY <1>1, <1>6, <3>1 DEF PrepBegin, DataType
  <2>3. inputs' \in [Wikis -> SUBSET Snaps] /\ DataKept
    BY <1>1, <1>6, Constants DEF PrepBegin, DataType, DataKept
  <2>4. DataType'
    BY <1>1, <1>6, <2>1, <2>2, <2>3 DEF DataType, PrepBegin
  <2>5. QED
    BY <1>2, <1>6, <2>3, <2>4, PrepStepSafe DEF PrepBegin
<1>7. CASE PrepValidate(w)
  <2>1. prep' \in [Wikis -> [step : {"idle", "validate", "receipt", "record", "index"}, cand : Cands]]
    BY <1>4, <1>7 DEF PrepValidate
  <2>2. gen' \in [Wikis -> [Cands -> GStates]]
    <3>1. "validated" \in GStates
      BY DEF GStates
    <3>2. QED
      BY <1>3, <1>5, <1>7, <3>1 DEF PrepValidate
  <2>3. DataType' /\ DataKept
    BY <1>1, <1>7, <2>1, <2>2 DEF DataType, PrepValidate, DataKept
  <2>4. QED
    BY <1>2, <1>7, <2>3, PrepStepSafe DEF PrepValidate
<1>8. CASE PrepReceipt(w)
  <2>1. prep' \in [Wikis -> [step : {"idle", "validate", "receipt", "record", "index"}, cand : Cands]]
    BY <1>4, <1>8 DEF PrepReceipt
  <2>2. ready' \in [Wikis -> SUBSET Cands] /\ DataKept
    BY <1>1, <1>3, <1>8 DEF PrepReceipt, DataType, DataKept
  <2>3. DataType'
    BY <1>1, <1>8, <2>1, <2>2 DEF DataType, PrepReceipt
  <2>4. QED
    BY <1>2, <1>8, <2>2, <2>3, PrepStepSafe DEF PrepReceipt
<1>9. CASE PrepRecord(w)
  <2>1. prep' \in [Wikis -> [step : {"idle", "validate", "receipt", "record", "index"}, cand : Cands]]
    BY <1>4, <1>9 DEF PrepRecord
  <2>2. gen' \in [Wikis -> [Cands -> GStates]]
    <3>1. "ready" \in GStates
      BY DEF GStates
    <3>2. QED
      BY <1>3, <1>5, <1>9, <3>1 DEF PrepRecord
  <2>3. DataType' /\ DataKept
    BY <1>1, <1>9, <2>1, <2>2 DEF DataType, PrepRecord, DataKept
  <2>4. QED
    BY <1>2, <1>9, <2>3, PrepStepSafe DEF PrepRecord
<1>10. CASE PrepIndex(w)
  <2>1. prep' \in [Wikis -> [step : {"idle", "validate", "receipt", "record", "index"}, cand : Cands]]
    BY <1>4, <1>10 DEF PrepIndex
  <2>2. active[w] \in Cands \cup {None}
    BY TypeParts DEF SafeInv, LinkType
  <2>3. index' \in [Wikis -> [newest : Cands, active : Cands \cup {None}]]
    BY <1>1, <1>3, <1>10, <2>2 DEF PrepIndex, WriteIndex, DataType
  <2>4. DataType' /\ DataKept
    BY <1>1, <1>10, <2>1, <2>3 DEF DataType, PrepIndex, DataKept
  <2>5. QED
    BY <1>2, <1>10, <2>4, PrepStepSafe DEF PrepIndex
<1>11. CASE PrepFails(w) \/ PrepCrash(w)
  <2>1. PrepGoto(w, "idle") /\ UNCHANGED <<wikiVars, linkVars, txnVars, pubVars, siteVars, ctlVars>>
    BY <1>11 DEF PrepFails, PrepCrash
  <2>2. faults' = faults \/ (faults' = faults + 1 /\ faults < MaxFaults)
    <3>1. CASE PrepFails(w)
      BY <3>1 DEF PrepFails
    <3>2. CASE PrepCrash(w)
      BY <3>2 DEF PrepCrash, Fault
    <3>3. QED
      BY <1>11, <3>1, <3>2
  <2>3. faults' \in 0..MaxFaults
    BY <1>2, <2>2
  <2>4. prep' \in [Wikis -> [step : {"idle", "validate", "receipt", "record", "index"}, cand : Cands]]
    BY <1>4, <2>1
  <2>5. DataType' /\ DataKept
    BY <1>1, <2>1, <2>4 DEF DataType, DataKept, wikiVars
  <2>6. QED
    BY <2>1, <2>3, <2>5, PrepStepSafe
<1>12. QED
  BY <1>6, <1>7, <1>8, <1>9, <1>10, <1>11 DEF Prepare

-----------------------------------------------------------------------------
(* Steps that move the publisher and leave links, journal and data alone.  *)

\* What is said about the links does not change when they do not.
LEMMA SameLinks ==
    ASSUME UNCHANGED <<linkVars, journal>>
    PROVE  /\ UNCHANGED <<active, backup, snap, Selected, AllDone, AllUndone>>
           /\ \A w : UNCHANGED <<E(w), Done(w), Back(w), Undone(w)>>
<1>1. UNCHANGED <<active, snap, backup, Selected>>
  BY DEF linkVars, Selected
<1>2. \A w : UNCHANGED <<E(w), Done(w), Back(w), Undone(w)>>
  BY <1>1 DEF E, Done, Back, Undone
<1>3. UNCHANGED <<AllDone, AllUndone>>
  BY <1>1, <1>2 DEF AllDone, AllUndone
<1>4. QED
  BY <1>1, <1>2, <1>3

\* The invariant on the control, by the part of the run that a step leads to.
LEMMA PcQuiet == pc' \in {"idle", "recover"} => PcInv'
BY DEF PcInv, ActivateInv, PublishInv, CommitInv, UndoInv, Activating, Merging, Building,
       InCommit, InUndo, InRestore, Restoring

LEMMA PcActivate == pc' \in Activating /\ ActivateInv' => PcInv'
BY DEF PcInv, PublishInv, CommitInv, UndoInv, Activating, Merging, Building,
       InCommit, InUndo, InRestore, Restoring

LEMMA PcPublish ==
    /\ pc' \in {"preflight", "select", "repair", "commit"} \cup Merging \cup Building
    /\ PublishInv'
    => PcInv'
BY DEF PcInv, ActivateInv, CommitInv, UndoInv, Activating, Merging, Building,
       InCommit, InUndo, InRestore, Restoring

LEMMA PcCommit == pc' \in InCommit /\ CommitInv' => PcInv'
BY DEF PcInv, ActivateInv, PublishInv, UndoInv, Activating, Merging, Building,
       InCommit, InUndo, InRestore, Restoring

LEMMA PcUndo == pc' \in InUndo \cup InRestore /\ UndoInv' => PcInv'
BY DEF PcInv, ActivateInv, PublishInv, CommitInv, Activating, Merging, Building,
       InCommit, InUndo, InRestore, Restoring

\* A rollback starts with every wiki of the selection to go.
LEMMA UndoBegins ==
    ASSUME journal.state \in Unpublished, UNCHANGED <<linkVars, journal>>,
           pc' = "undo", mode' # "publish", todo' = Selected
    PROVE  PcInv'
<1>1. UndoInv'
  BY SameLinks DEF UndoInv, InUndo, InRestore, Restoring
<1>2. QED
  BY <1>1, PcUndo DEF InUndo

LEMMA ControlFrame ==
    ASSUME SafeInv, PcInv', UNCHANGED <<wikiVars, prep, linkVars, txnVars>>,
           PubType', SiteType', CtlType'
    PROVE  SafeInv'
<1>1. DataType /\ LinkType /\ TxnType
  BY TypeParts DEF SafeInv
<1>2. TypeOK'
  BY <1>1, DataSame, LinkSame, TxnSame, TypeTogether DEF wikiVars
<1>3. DataKept
  BY DEF DataKept, wikiVars
<1>4. CoreInv'
  BY <1>3, WikiKept, CommittedFrame DEF CoreInv, txnVars
<1>5. QED
  BY <1>2, <1>4 DEF SafeInv

\* What the audit of the transaction on disk can conclude.
LEMMA AuditMeans ==
    /\ Audit = "clean" => journal.state \in Terminal
    /\ Audit = "commit" => journal.state \notin Terminal /\ AllDone
    /\ Audit = "rollback" => journal.state \in Unpublished
BY DEF Audit, AllDone, Done, SelectedLive

LEMMA FaultCount == \A k : TypeOK /\ Fault(k) => faults' \in 0..MaxFaults
BY PublicationAssumption DEF TypeOK, Fault

\* The wrapper up to the selection.
LEMMA WrapperSafe ==
    ASSUME SafeInv, Begin \/ Recover \/ Preflight \/ Repair
    PROVE  SafeInv'
<1>1. PubType /\ SiteType /\ CtlType
  BY TypeParts DEF SafeInv
<1>2. UNCHANGED <<wikiVars, prep, linkVars, txnVars, pubVars, siteVars>>
  BY DEF Begin, Recover, Preflight, Repair
<1>3. PubType' /\ SiteType'
  BY <1>1, <1>2, PubSame, SiteSame
<1>4. UNCHANGED <<linkVars, journal>>
  BY <1>2 DEF txnVars
<1>5. CASE Begin
  <2>1. pc' = "recover" /\ UNCHANGED <<mode, todo, victims, faults>> /\ run' \in Runs
    BY <1>5 DEF Begin, Goto
  <2>2. CtlType'
    BY <1>1, <2>1 DEF CtlType
  <2>3. QED
    BY <1>2, <1>3, <2>1, <2>2, PcQuiet, ControlFrame
<1>6. CASE Recover
  <2>1. UNCHANGED <<run, victims, faults>>
    BY <1>6 DEF Recover
  <2>2. Selected \subseteq Wikis
    BY DEF Selected
  <2>3. CASE Audit = "clean" /\ pc' = "preflight" /\ mode' = "publish" /\ UNCHANGED todo
    <3>1. CtlType'
      BY <1>1, <2>1, <2>3 DEF CtlType
    <3>2. PublishInv'
      BY <1>4, <2>3, AuditMeans DEF PublishInv, Merging, Building
    <3>3. QED
      BY <1>2, <1>3, <2>3, <3>1, <3>2, PcPublish, ControlFrame
  <2>4. CASE Audit = "commit" /\ pc' = "commit" /\ mode' = "recover" /\ UNCHANGED todo
    <3>1. CtlType'
      BY <1>1, <2>1, <2>4 DEF CtlType
    <3>2. journal'.state \notin Terminal /\ AllDone'
      BY <1>4, <2>4, AuditMeans, SameLinks
    <3>3. PublishInv'
      BY <2>4, <3>2 DEF PublishInv, Merging, Building
    <3>4. QED
      BY <1>2, <1>3, <2>4, <3>1, <3>3, PcPublish, ControlFrame
  <2>5. CASE Audit = "rollback" /\ pc' = "undo" /\ mode' = "recover" /\ todo' = Selected
    <3>1. CtlType'
      BY <1>1, <2>1, <2>2, <2>5 DEF CtlType
    <3>2. PcInv'
      BY <1>4, <2>5, AuditMeans, UndoBegins
    <3>3. QED
      BY <1>2, <1>3, <3>1, <3>2, ControlFrame
  <2>6. CASE pc' = "idle" /\ UNCHANGED <<mode, todo>>
    <3>1. CtlType'
      BY <1>1, <2>1, <2>6 DEF CtlType
    <3>2. QED
      BY <1>2, <1>3, <2>6, <3>1, PcQuiet, ControlFrame
  <2>7. QED
    BY <1>6, <2>3, <2>4, <2>5, <2>6 DEF Recover, Goto
<1>7. CASE Preflight
  <2>1. UNCHANGED <<run, mode, todo, victims, faults>>
        /\ pc' = IF Audit = "clean" /\ Eligible THEN "select" ELSE "idle"
    BY <1>7 DEF Preflight, Goto
  <2>2. CtlType'
    BY <1>1, <2>1 DEF CtlType
  <2>3. CASE pc' = "idle"
    BY <1>2, <1>3, <2>2, <2>3, PcQuiet, ControlFrame
  <2>4. CASE pc' = "select" /\ Audit = "clean"
    <3>1. mode = "publish"
      BY <1>7 DEF Preflight, SafeInv, CoreInv, PcInv, PublishInv
    <3>2. PublishInv'
      BY <1>4, <2>1, <2>4, <3>1, AuditMeans DEF PublishInv, Merging, Building
    <3>3. QED
      BY <1>2, <1>3, <2>2, <2>4, <3>2, PcPublish, ControlFrame
  <2>5. QED
    BY <2>1, <2>3, <2>4
<1>8. CASE Repair
  <2>1. UNCHANGED <<run, mode, todo, victims, faults>> /\ pc' \in {"merge", "idle"} /\ pc = "repair"
    BY <1>8 DEF Repair, Goto
  <2>2. CtlType'
    BY <1>1, <2>1 DEF CtlType
  <2>3. PublishInv
    BY DEF SafeInv, CoreInv, PcInv
  <2>4. CASE pc' = "merge"
    <3>1. mode' = "publish" /\ journal'.state = "selected" /\ Selected' = {}
      BY <1>4, <2>1, <2>3, SameLinks DEF PublishInv
    <3>2. PublishInv'
      BY <2>4, <3>1 DEF PublishInv, Merging, Building, AllDone
    <3>3. QED
      BY <1>2, <1>3, <2>2, <2>4, <3>2, PcPublish, ControlFrame DEF Merging
  <2>5. QED
    BY <1>2, <1>3, <2>1, <2>2, <2>4, PcQuiet, ControlFrame
<1>9. QED
  BY <1>5, <1>6, <1>7, <1>8

\* While a publication is merged, every wiki has a live candidate.
LEMMA MergedLinks ==
    ASSUME SafeInv, pc \in Merging
    PROVE  active \in [Wikis -> Cands]
<1>1. TypeOK /\ PublishInv /\ \A w \in Wikis : WikiInv(w)
  BY DEF SafeInv, CoreInv, PcInv
<1>2. active \in [Wikis -> Cands \cup {None}]
  BY <1>1, TypeParts DEF LinkType
<1>3. ASSUME NEW w \in Wikis PROVE active[w] \in Cands
  <2>1. CASE Live(w)
    BY <2>1 DEF Live
  <2>2. CASE w \in Selected /\ (Done(w) \/ Undone(w))
    BY <1>1, <2>2, EntryType DEF Done, Undone, Back
  <2>3. CASE w \notin Selected
    BY <1>1, <2>1, <2>3 DEF WikiInv
  <2>4. CASE w \in Selected
    BY <1>1, <2>1, <2>2, <2>4 DEF WikiInv, PublishInv, AllDone, AllUndone, Terminal
  <2>5. QED
    BY <2>3, <2>4
<1>4. QED
  BY <1>2, <1>3

\* The merge goes on under the same journal, links and mode.
LEMMA MergeGoesOn ==
    ASSUME PublishInv, pc \in Merging, pc' \in Merging,
           UNCHANGED <<linkVars, journal, mode>>
    PROVE  PcInv'
<1>1. PublishInv'
  BY SameLinks DEF PublishInv, Merging, Building
<1>2. QED
  BY <1>1, PcPublish

LEMMA MergeSafe ==
    ASSUME SafeInv, MergeBegin \/ MergeEnd \/ RecordCandidate
    PROVE  SafeInv'
<1>1. PubType /\ SiteType /\ CtlType /\ PublishInv
  BY TypeParts DEF SafeInv, CoreInv, PcInv
<1>2. UNCHANGED <<wikiVars, prep, linkVars, txnVars, siteVars>>
  BY DEF MergeBegin, MergeEnd, RecordCandidate
<1>3. UNCHANGED <<run, mode, todo, victims, faults>> /\ SiteType'
  BY <1>1, <1>2, SiteSame DEF MergeBegin, MergeEnd, RecordCandidate
<1>4. pc \in Merging /\ pc' \in Merging
  BY DEF MergeBegin, MergeEnd, RecordCandidate, Goto, Merging
<1>5. CtlType'
  BY <1>1, <1>3, <1>4 DEF CtlType, Merging
<1>6. PcInv'
  BY <1>1, <1>2, <1>3, <1>4, MergeGoesOn DEF txnVars
<1>7. PubType'
  <2>1. CASE MergeBegin
    BY <1>1, <2>1 DEF MergeBegin, PubType
  <2>2. CASE MergeEnd
    <3>1. [run |-> run, vec |-> active] \in Publications
      BY <1>1, <1>4, MergedLinks DEF Publications, CtlType
    <3>2. QED
      BY <1>1, <2>2, <3>1 DEF MergeEnd, PubType
  <2>3. CASE RecordCandidate
    BY <1>1, <2>3 DEF RecordCandidate, PubType
  <2>4. QED
    BY <2>1, <2>2, <2>3
<1>8. QED
  BY <1>2, <1>3, <1>5, <1>6, <1>7, ControlFrame

LEMMA ValidateSafe ==
    ASSUME SafeInv, Validate
    PROVE  SafeInv'
<1>1. PubType /\ SiteType /\ CtlType /\ PublishInv
  BY TypeParts DEF SafeInv, CoreInv, PcInv
<1>2. UNCHANGED <<wikiVars, prep, linkVars, txnVars, siteVars>>
  BY DEF Validate
<1>3. /\ UNCHANGED <<run, mode, todo, victims, faults, root, cand>> /\ pc = "validate"
      /\ gate' = cand
      /\ pc' = CASE mode = "publish" -> "build"
                 [] mode = "recover" -> "rolledback"
                 [] mode = "wrapper" -> "idle"
  BY DEF Validate, Goto
<1>4. SiteType' /\ PubType'
  BY <1>1, <1>2, <1>3, SiteSame DEF PubType
<1>5. UNCHANGED <<linkVars, journal>>
  BY <1>2 DEF txnVars
<1>6. CASE mode = "publish" /\ journal.state = "selected" /\ AllDone
  <2>1. PublishInv' /\ pc' = "build"
    BY <1>3, <1>5, <1>6, SameLinks DEF PublishInv, Merging, Building
  <2>2. CtlType'
    BY <1>1, <1>3, <2>1 DEF CtlType
  <2>3. QED
    BY <1>2, <1>4, <2>1, <2>2, PcPublish, ControlFrame DEF Building
<1>7. CASE mode = "recover" /\ journal.state \in Unpublished /\ AllUndone
  <2>1. pc' = "rolledback"
    BY <1>3, <1>7
  <2>2. UndoInv'
    BY <1>3, <1>5, <1>7, <2>1, SameLinks DEF UndoInv, InUndo, Restoring
  <2>3. CtlType'
    BY <1>1, <1>3, <2>1 DEF CtlType
  <2>4. QED
    BY <1>2, <1>4, <2>1, <2>2, <2>3, PcUndo, ControlFrame DEF InRestore
<1>8. CASE mode = "wrapper"
  <2>1. pc' = "idle"
    BY <1>3, <1>8
  <2>2. CtlType'
    BY <1>1, <1>3, <2>1 DEF CtlType
  <2>3. QED
    BY <1>2, <1>4, <2>1, <2>2, PcQuiet, ControlFrame
<1>9. QED
  BY <1>1, <1>3, <1>6, <1>7, <1>8 DEF PublishInv, Merging

\* The build and the switch of the site.
LEMMA SiteSafe ==
    ASSUME SafeInv, SwitchSite \/ RecordSite \/ CommitRefused
    PROVE  SafeInv'
<1>1. PubType /\ SiteType /\ CtlType /\ TxnType /\ PublishInv
  BY TypeParts DEF SafeInv, CoreInv, PcInv
<1>2. UNCHANGED <<wikiVars, prep, linkVars, journal, saved, pubVars>>
  BY DEF SwitchSite, RecordSite, CommitRefused, txnVars
<1>3. UNCHANGED <<run, mode, todo, victims, faults>> /\ PubType'
  BY <1>1, <1>2, PubSame DEF SwitchSite, RecordSite, CommitRefused
<1>4. CASE SwitchSite
  <2>1. pc = "build" /\ pc' = "sitereceipt" /\ site' = gate /\ UNCHANGED <<txnVars, receipt>>
    BY <1>4 DEF SwitchSite, Goto
  <2>2. SiteType' /\ CtlType'
    BY <1>1, <1>3, <2>1 DEF SiteType, CtlType, PubType
  <2>3. PublishInv'
    BY <1>1, <1>2, <1>3, <2>1, SameLinks DEF PublishInv, Building, Merging
  <2>4. QED
    BY <1>2, <1>3, <2>1, <2>2, <2>3, PcPublish, ControlFrame DEF Building
<1>5. CASE RecordSite
  <2>1. /\ pc = "sitereceipt" /\ siteNewer' = TRUE /\ UNCHANGED site
        /\ receipt' = [gate |-> gate, cand |-> cand, site |-> site]
        /\ pc' = IF mode = "publish" THEN "commit" ELSE "recover"
    BY <1>5 DEF RecordSite, Goto
  <2>2. SiteType' /\ CtlType'
    BY <1>1, <1>3, <2>1 DEF SiteType, CtlType, PubType
  <2>3. TypeOK'
    <3>1. DataType /\ LinkType
      BY TypeParts DEF SafeInv
    <3>2. TxnType'
      BY <1>1, <1>2, <2>1 DEF TxnType
    <3>3. QED
      BY <1>2, <1>3, <2>2, <3>1, <3>2, DataSame, LinkSame, TypeTogether
  <2>4. PcInv'
    <3>1. CASE pc' = "recover"
      BY <3>1, PcQuiet
    <3>2. CASE pc' = "commit" /\ mode = "publish"
      <4>1. journal.state = "selected" /\ AllDone
        BY <1>1, <2>1, <3>2 DEF PublishInv, Building
      <4>2. PublishInv'
        BY <1>2, <1>3, <3>2, <4>1, SameLinks DEF PublishInv, Building, Merging, Terminal
      <4>3. QED
        BY <3>2, <4>2, PcPublish
    <3>3. QED
      BY <2>1, <3>1, <3>2
  <2>5. DataKept
    BY <1>2 DEF DataKept, wikiVars
  <2>6. CoreInv'
    BY <1>2, <2>4, <2>5, WikiKept, CommittedFrame DEF CoreInv
  <2>7. QED
    BY <2>3, <2>6 DEF SafeInv
<1>6. CASE CommitRefused
  <2>1. pc' = "idle" /\ UNCHANGED <<txnVars, siteVars>>
    BY <1>6 DEF CommitRefused, Goto
  <2>2. SiteType' /\ CtlType'
    BY <1>1, <1>3, <2>1, SiteSame DEF CtlType
  <2>3. QED
    BY <1>2, <1>3, <2>1, <2>2, PcQuiet, ControlFrame
<1>7. QED
  BY <1>4, <1>5, <1>6

\* The end of a rollback: the artifacts.
LEMMA RestoreSafe ==
    ASSUME SafeInv, UndoEnd \/ RestoreCandidate \/ RestoreGate \/ RestoreRoot \/ AfterRestore
    PROVE  SafeInv'
<1>1. PubType /\ SiteType /\ CtlType /\ TxnType /\ PublishInv /\ UndoInv
  BY TypeParts DEF SafeInv, CoreInv, PcInv
<1>2. UNCHANGED <<wikiVars, prep, linkVars, txnVars, siteVars>>
  BY DEF UndoEnd, RestoreCandidate, RestoreGate, RestoreRoot, AfterRestore
<1>3. UNCHANGED <<run, mode, todo, victims, faults>> /\ SiteType'
  BY <1>1, <1>2, SiteSame DEF UndoEnd, RestoreCandidate, RestoreGate, RestoreRoot, AfterRestore
<1>4. UNCHANGED <<linkVars, journal, saved>>
  BY <1>2 DEF txnVars
<1>5. journal.state \in Unpublished /\ mode # "publish" /\ AllUndone
  <2>1. CASE UndoEnd
    BY <1>1, <2>1 DEF UndoEnd, UndoInv, InUndo, AllUndone
  <2>2. CASE ~UndoEnd
    <3>1. pc \in InRestore
      BY <2>2 DEF RestoreCandidate, RestoreGate, RestoreRoot, AfterRestore, InRestore, Restoring
    <3>2. QED
      BY <1>1, <3>1 DEF UndoInv
  <2>3. QED
    BY <2>1, <2>2
<1>6. \/ pc' \in Restoring /\ saved # None
      \/ pc' \in {"restored", "rolledback"}
      \/ pc' = "merge" /\ mode = "recover"
      \/ pc' = "idle"
  <2>1. CASE UndoEnd
    BY <1>5, <2>1 DEF UndoEnd, Goto, Restoring
  <2>2. CASE RestoreCandidate \/ RestoreGate \/ RestoreRoot
    BY <1>1, <2>2 DEF RestoreCandidate, RestoreGate, RestoreRoot, Goto, UndoInv, Restoring
  <2>3. CASE AfterRestore
    <3>1. pc' = CASE mode = "recover" -> IF Intact THEN "rolledback" ELSE "merge"
                  [] mode # "recover" -> IF saved = None \/ Verified THEN "rolledback" ELSE "idle"
      BY <2>3 DEF AfterRestore, Goto
    <3>2. QED
      BY <3>1
  <2>4. QED
    BY <2>1, <2>2, <2>3
<1>7. CtlType'
  BY <1>1, <1>3, <1>6 DEF CtlType, Restoring
<1>8. PubType'
  <2>1. CASE UndoEnd \/ AfterRestore
    BY <1>1, <2>1, PubSame DEF UndoEnd, AfterRestore
  <2>2. CASE RestoreCandidate \/ RestoreGate \/ RestoreRoot
    <3>1. saved \in Publications
      BY <1>1, <2>2 DEF RestoreCandidate, RestoreGate, RestoreRoot, UndoInv, Restoring, TxnType
    <3>2. QED
      BY <1>1, <2>2, <3>1 DEF RestoreCandidate, RestoreGate, RestoreRoot, PubType
  <2>3. QED
    BY <2>1, <2>2
<1>9. PcInv'
  <2>1. CASE pc' = "idle"
    BY <2>1, PcQuiet
  <2>2. CASE pc' = "merge" /\ mode = "recover"
    <3>1. PublishInv'
      BY <1>3, <1>4, <1>5, <2>2, SameLinks DEF PublishInv, Merging, Building
    <3>2. QED
      BY <2>2, <3>1, PcPublish DEF Merging
  <2>3. CASE (pc' \in Restoring /\ saved # None) \/ pc' \in {"restored", "rolledback"}
    <3>1. UndoInv'
      BY <1>3, <1>4, <1>5, <2>3, SameLinks DEF UndoInv, InUndo, InRestore, Restoring
    <3>2. QED
      BY <2>3, <3>1, PcUndo DEF InRestore
  <2>4. QED
    BY <1>6, <2>1, <2>2, <2>3
<1>10. QED
  BY <1>2, <1>3, <1>7, <1>8, <1>9, ControlFrame

\* Failures that undo the selection, failures that end the run, and crashes.
LEMMA FailureSafe ==
    ASSUME SafeInv, ActivationFails \/ PrepareFails \/ BuildFails \/ Crash
    PROVE  SafeInv'
<1>1. PubType /\ SiteType /\ CtlType /\ PcInv /\ TypeOK
  BY TypeParts DEF SafeInv, CoreInv
<1>2. UNCHANGED <<wikiVars, prep, linkVars, txnVars, pubVars, siteVars, run>>
  BY DEF ActivationFails, PrepareFails, BuildFails, Crash
<1>3. PubType' /\ SiteType' /\ UNCHANGED <<linkVars, journal>>
  BY <1>1, <1>2, PubSame, SiteSame DEF txnVars
<1>4. faults' \in 0..MaxFaults
  <2>1. faults' = faults \/ \E k : Fault(k)
    BY DEF ActivationFails, PrepareFails, BuildFails, Crash, Failing
  <2>2. QED
    BY <1>1, <2>1, FaultCount DEF CtlType
<1>5. \/ pc' = "idle" /\ UNCHANGED <<mode, todo, victims>>
      \/ pc' = "idle" /\ mode' = "publish" /\ todo' = {} /\ victims' = {}
      \/ /\ journal.state \in Unpublished /\ UNCHANGED victims
         /\ pc' = "undo" /\ mode' \in {"activation", "prepare", "wrapper"} /\ todo' = Selected
  <2>1. CASE ActivationFails
    <3>1. journal.state \in Unpublished
      BY <1>1, <2>1 DEF ActivationFails, PcInv, ActivateInv, Activating, Unpublished
    <3>2. QED
      BY <2>1, <3>1 DEF ActivationFails, StartUndo, Goto
  <2>2. CASE PrepareFails
    <3>1. mode = "publish" => journal.state \in Unpublished
      BY <1>1, <2>2 DEF PrepareFails, Failing, PcInv, PublishInv, Merging, Unpublished
    <3>2. QED
      BY <2>2, <3>1 DEF PrepareFails, StartUndo, Goto
  <2>3. CASE BuildFails
    <3>1. mode = "publish" => journal.state \in Unpublished
      BY <1>1, <2>3 DEF BuildFails, Failing, PcInv, PublishInv, Building, Unpublished
    <3>2. QED
      BY <2>3, <3>1 DEF BuildFails, StartUndo, Goto
  <2>4. CASE Crash
    BY <2>4 DEF Crash, Goto
  <2>5. QED
    BY <2>1, <2>2, <2>3, <2>4
<1>6. CtlType'
  <2>1. Selected \subseteq Wikis
    BY DEF Selected
  <2>2. QED
    BY <1>1, <1>2, <1>4, <1>5, <2>1 DEF CtlType
<1>7. PcInv'
  BY <1>3, <1>5, PcQuiet, UndoBegins
<1>8. QED
  BY <1>2, <1>3, <1>6, <1>7, ControlFrame

\* A merged artifact is damaged: only the verification is affected.
LEMMA DamageSafe ==
    ASSUME SafeInv, Damage
    PROVE  SafeInv'
<1>1. PubType /\ SiteType /\ CtlType /\ PcInv /\ TypeOK
  BY TypeParts DEF SafeInv, CoreInv
<1>2. UNCHANGED <<wikiVars, linkVars, prep, txnVars, cand, gate, siteVars, ctlVars>>
      /\ root' = None /\ faults' \in 0..MaxFaults
  BY <1>1, FaultCount DEF Damage
<1>3. PubType' /\ SiteType'
  BY <1>1, <1>2, SiteSame DEF PubType
<1>4. CtlType'
  BY <1>1, <1>2 DEF CtlType, ctlVars
<1>5. PcInv'
  BY <1>1, <1>2, PcFrame DEF txnVars, ctlVars
<1>6. QED
  BY <1>2, <1>3, <1>4, <1>5, ControlFrame

-----------------------------------------------------------------------------
(* Steps on the records and the index of a wiki.                           *)

\* A new index names a candidate and the link as it is.
LEMMA IndexType ==
    ASSUME DataType, LinkType, NEW w \in Wikis, NEW c \in Cands, WriteIndex(w, c)
    PROVE  index' \in [Wikis -> [newest : Cands, active : Cands \cup {None}]]
<1>1. active[w] \in Cands \cup {None}
  BY DEF LinkType
<1>2. QED
  BY <1>1 DEF WriteIndex, DataType

\* The records that a rebuilt index reconciles are still records.
LEMMA ReconciledType ==
    ASSUME DataType, NEW w \in Wikis,
           gen' = [gen EXCEPT ![w] =
                     [c \in Cands |-> IF Authentic(w, c) THEN Reconciled(@[c]) ELSE @[c]]]
    PROVE  gen' \in [Wikis -> [Cands -> GStates]]
<1>1. \A s \in GStates : Reconciled(s) \in GStates
  BY DEF GStates, Reconciled
<1>2. \A c \in Cands : gen[w][c] \in GStates
  BY DEF DataType
<1>3. [c \in Cands |-> IF Authentic(w, c) THEN Reconciled(gen[w][c]) ELSE gen[w][c]]
        \in [Cands -> GStates]
  BY <1>1, <1>2
<1>4. QED
  BY <1>3 DEF DataType

LEMMA TransitionType ==
    ASSUME DataType, NEW w \in Wikis, NEW c \in Cands, NEW s \in GStates, Transition(w, c, s)
    PROVE  gen' \in [Wikis -> [Cands -> GStates]]
BY DEF DataType, Transition

\* A step that changes records and index only, besides the control.
LEMMA RecordFrame ==
    ASSUME SafeInv, PcInv', CtlType',
           gen' \in [Wikis -> [Cands -> GStates]],
           index' \in [Wikis -> [newest : Cands, active : Cands \cup {None}]],
           UNCHANGED <<ready, inputs, prep, linkVars, txnVars, pubVars, siteVars>>
    PROVE  SafeInv'
<1>1. DataType /\ LinkType /\ TxnType /\ PubType /\ SiteType
  BY TypeParts DEF SafeInv
<1>2. DataType'
  BY <1>1 DEF DataType
<1>3. TypeOK'
  BY <1>1, <1>2, LinkSame, TxnSame, PubSame, SiteSame, TypeTogether
<1>4. DataKept
  BY DEF DataKept
<1>5. CoreInv'
  BY <1>4, WikiKept, CommittedFrame DEF CoreInv, txnVars
<1>6. QED
  BY <1>3, <1>5 DEF SafeInv

LEMMA RebuildIndexSafe ==
    ASSUME SafeInv, NEW w \in Wikis, RebuildIndex(w)
    PROVE  SafeInv'
<1>1. DataType /\ LinkType /\ CtlType /\ PcInv
  BY TypeParts DEF SafeInv, CoreInv
<1>2. UNCHANGED <<ready, inputs, prep, linkVars, txnVars, pubVars, siteVars, ctlVars, faults>>
  BY DEF RebuildIndex
<1>3. Discoverable(w) \in SUBSET Cands /\ Discoverable(w) # {}
  BY DEF RebuildIndex, Discoverable
<1>4. Newest(Discoverable(w)) \in Cands
  BY <1>3, NewestOf
<1>5. index' \in [Wikis -> [newest : Cands, active : Cands \cup {None}]]
  BY <1>1, <1>4, IndexType DEF RebuildIndex
<1>6. gen' \in [Wikis -> [Cands -> GStates]]
  BY <1>1, ReconciledType DEF RebuildIndex
<1>7. CtlType'
  BY <1>1, <1>2 DEF CtlType, ctlVars
<1>8. PcInv'
  BY <1>1, <1>2, PcFrame DEF txnVars, ctlVars
<1>9. QED
  BY <1>2, <1>5, <1>6, <1>7, <1>8, RecordFrame

LEMMA UndoIndexSafe ==
    ASSUME SafeInv, NEW w \in Wikis, UndoIndex(w)
    PROVE  SafeInv'
<1>1. DataType /\ LinkType /\ CtlType /\ UndoInv
  BY TypeParts DEF SafeInv, CoreInv, PcInv
<1>2. UNCHANGED <<ready, inputs, prep, linkVars, txnVars, pubVars, siteVars>>
  BY DEF UndoIndex
<1>3. pc = "reindex" /\ Last(w) /\ pc' = "undo" /\ todo' = todo \ {w}
      /\ UNCHANGED <<run, mode, victims, faults>>
  BY DEF UndoIndex, Goto
<1>4. Discoverable(w) \in SUBSET Cands /\ Discoverable(w) # {}
  BY DEF UndoIndex, Discoverable
<1>5. Newest(Discoverable(w)) \in Cands
  BY <1>4, NewestOf
<1>6. index' \in [Wikis -> [newest : Cands, active : Cands \cup {None}]]
  BY <1>1, <1>5, IndexType DEF UndoIndex
<1>7. gen' \in [Wikis -> [Cands -> GStates]]
  BY <1>1, ReconciledType DEF UndoIndex
<1>8. CtlType'
  BY <1>1, <1>3 DEF CtlType
<1>9. UndoInv'
  <2>1. Undone(w) /\ w \in todo
    BY <1>1, <1>3 DEF UndoInv, InUndo, Last
  <2>2. UNCHANGED <<linkVars, journal>>
    BY <1>2 DEF txnVars
  <2>3. QED
    BY <1>1, <1>3, <2>1, <2>2, SameLinks DEF UndoInv, InUndo, InRestore, Restoring
<1>10. QED
  BY <1>2, <1>3, <1>6, <1>7, <1>8, <1>9, PcUndo, RecordFrame DEF InUndo

LEMMA UndoSkipSafe ==
    ASSUME SafeInv, NEW w \in Wikis, UndoSkip(w)
    PROVE  SafeInv'
<1>1. PubType /\ SiteType /\ CtlType /\ UndoInv
  BY TypeParts DEF SafeInv, CoreInv, PcInv
<1>2. UNCHANGED <<wikiVars, prep, linkVars, txnVars, pubVars, siteVars>>
  BY DEF UndoSkip
<1>3. pc = "undo" /\ Restored(w) /\ Last(w) /\ todo' = todo \ {w}
      /\ UNCHANGED <<pc, run, mode, victims, faults>>
  BY DEF UndoSkip
<1>4. CtlType'
  BY <1>1, <1>3 DEF CtlType
<1>5. UndoInv'
  <2>1. Undone(w)
    BY <1>3 DEF Restored, Undone, Back, PreviousLive
  <2>2. UNCHANGED <<linkVars, journal>>
    BY <1>2 DEF txnVars
  <2>3. QED
    BY <1>1, <1>3, <2>1, <2>2, SameLinks DEF UndoInv, InUndo, InRestore, Restoring
<1>6. PcInv'
  BY <1>3, <1>5, PcUndo DEF InUndo
<1>7. QED
  BY <1>1, <1>2, <1>4, <1>6, PubSame, SiteSame, ControlFrame

\* The records and the index of a commit.
LEMMA CommitRecordSafe ==
    ASSUME SafeInv, NEW w \in Wikis, PublishSelected(w) \/ SupersedePrevious(w) \/ IndexSelected(w)
    PROVE  SafeInv'
<1>1. DataType /\ LinkType /\ CtlType /\ CommitInv
  BY TypeParts DEF SafeInv, CoreInv, PcInv
<1>2. UNCHANGED <<ready, inputs, prep, linkVars, txnVars, pubVars, siteVars, run, mode, faults>>
  BY DEF PublishSelected, SupersedePrevious, IndexSelected
<1>3. First(w) /\ w \in todo /\ pc \in InCommit
  BY DEF PublishSelected, SupersedePrevious, IndexSelected, First, InCommit
<1>4. w \in Selected
  BY <1>1, <1>3 DEF CommitInv
<1>5. E(w).cand \in Cands /\ E(w).prev \in Cands
  BY <1>4, EntryType DEF SafeInv
<1>6. UNCHANGED <<linkVars, journal>>
  BY <1>2 DEF txnVars
<1>7. CASE PublishSelected(w)
  <2>1. pc' = "supersede" /\ UNCHANGED <<index, todo, victims>> /\ Transition(w, E(w).cand, "published")
    BY <1>7 DEF PublishSelected, Goto
  <2>2. "published" \in GStates
    BY DEF GStates
  <2>3. gen' \in [Wikis -> [Cands -> GStates]]
    BY <1>1, <1>5, <2>1, <2>2, TransitionType
  <2>4. index' \in [Wikis -> [newest : Cands, active : Cands \cup {None}]]
    BY <1>1, <2>1 DEF DataType
  <2>5. CtlType'
    BY <1>1, <1>2, <2>1 DEF CtlType
  <2>6. CommitInv'
    BY <1>1, <1>2, <1>3, <1>6, <2>1, SameLinks DEF CommitInv, InCommit
  <2>7. QED
    BY <1>2, <2>1, <2>3, <2>4, <2>5, <2>6, PcCommit, RecordFrame DEF InCommit
<1>8. CASE SupersedePrevious(w)
  <2>1. /\ pc' = "retire" /\ UNCHANGED <<index, todo>> /\ Transition(w, E(w).prev, "superseded")
        /\ victims' = ready[w] \ {E(w).cand, E(w).prev}
    BY <1>8 DEF SupersedePrevious, Goto
  <2>2. "superseded" \in GStates
    BY DEF GStates
  <2>3. gen' \in [Wikis -> [Cands -> GStates]]
    BY <1>1, <1>5, <2>1, <2>2, TransitionType
  <2>4. index' \in [Wikis -> [newest : Cands, active : Cands \cup {None}]]
    BY <1>1, <2>1 DEF DataType
  <2>5. victims' \subseteq Cands
    BY <1>1, <2>1 DEF DataType
  <2>6. CtlType'
    BY <1>1, <1>2, <2>1, <2>5 DEF CtlType
  <2>7. CommitInv'
    BY <1>1, <1>2, <1>3, <1>6, <2>1, SameLinks DEF CommitInv, InCommit
  <2>8. QED
    BY <1>2, <2>1, <2>3, <2>4, <2>6, <2>7, PcCommit, RecordFrame DEF InCommit
<1>9. CASE IndexSelected(w)
  <2>1. /\ pc = "indexselected" /\ pc' = "publish" /\ UNCHANGED <<gen, victims>>
        /\ todo' = todo \ {w} /\ WriteIndex(w, E(w).cand)
    BY <1>9 DEF IndexSelected, Goto
  <2>2. gen' \in [Wikis -> [Cands -> GStates]]
    BY <1>1, <2>1 DEF DataType
  <2>3. index' \in [Wikis -> [newest : Cands, active : Cands \cup {None}]]
    BY <1>1, <1>5, <2>1, IndexType
  <2>4. CtlType'
    BY <1>1, <1>2, <2>1 DEF CtlType
  <2>5. backup[w] = None
    BY <1>1, <1>3, <2>1 DEF CommitInv
  <2>6. CommitInv'
    BY <1>1, <1>2, <1>3, <1>6, <2>1, <2>5, SameLinks DEF CommitInv, InCommit
  <2>7. QED
    BY <1>2, <2>1, <2>2, <2>3, <2>4, <2>6, PcCommit, RecordFrame DEF InCommit
<1>10. QED
  BY <1>7, <1>8, <1>9

-----------------------------------------------------------------------------
(* Steps that move the links of one wiki.                                  *)

\* The links of v do not change.
SameWiki(v) == active'[v] = active[v] /\ snap'[v] = snap[v] /\ backup'[v] = backup[v]

LEMMA OtherWiki ==
    ASSUME UNCHANGED journal, NEW v \in Wikis, SameWiki(v)
    PROVE  UNCHANGED <<E(v), Done(v), Back(v), Undone(v)>>
BY DEF SameWiki, E, Done, Back, Undone

\* A step that moves the links of w keeps the invariant if it keeps what is said
\* about w and about the control.
LEMMA LinkFrame ==
    ASSUME SafeInv, NEW w \in Wikis, LinkType', CtlType', PcInv', WikiInv(w)',
           \A v \in Wikis \ {w} : SameWiki(v),
           journal.state # "committed",
           UNCHANGED <<wikiVars, prep, txnVars, pubVars, siteVars>>
    PROVE  SafeInv'
<1>1. DataType /\ TxnType /\ PubType /\ SiteType
  BY TypeParts DEF SafeInv
<1>2. TypeOK'
  BY <1>1, DataSame, TxnSame, PubSame, SiteSame, TypeTogether DEF wikiVars
<1>3. UNCHANGED <<ready, inputs, journal, Selected>>
  BY DEF wikiVars, txnVars, Selected
<1>4. ASSUME NEW v \in Wikis \ {w} PROVE WikiInv(v)'
  <2>1. SameWiki(v) /\ WikiInv(v) /\ UNCHANGED <<E(v), Done(v), Back(v)>>
    BY <1>3, OtherWiki DEF SafeInv, CoreInv
  <2>2. \A c : UNCHANGED Authentic(v, c)
    BY <1>3 DEF Authentic
  <2>3. UNCHANGED <<Pledged(v), Switching(v), Live(v)>>
    BY <1>3, <2>1, <2>2 DEF Pledged, Switching, Live, SameWiki
  <2>4. QED
    BY <1>3, <2>1, <2>3 DEF WikiInv
<1>5. Committed'
  BY <1>3 DEF Committed
<1>6. QED
  BY <1>2, <1>4, <1>5 DEF SafeInv, CoreInv

\* Only one wiki is the next one.
LEMMA OneFirst ==
    ASSUME NEW v \in Wikis, NEW w \in Wikis, (First(v) /\ First(w)) \/ (Last(v) /\ Last(w))
    PROVE  v = w
BY Constants DEF First, Last

\* The wiki whose links a selection moves.
LEMMA ActivatedWiki ==
    ASSUME SafeInv, NEW w \in Wikis, pc \in Activating, First(w)
    PROVE  /\ ActivateInv /\ journal.state = "activating" /\ journal.state \in Unpublished
           /\ mode = "publish" /\ w \in todo /\ w \in Selected /\ Pledged(w)
           /\ E(w).cand \in Cands /\ E(w).prev \in Cands
<1>1. ActivateInv /\ WikiInv(w)
  BY DEF SafeInv, CoreInv, PcInv
<1>2. journal.state = "activating" /\ mode = "publish" /\ w \in todo /\ w \in Selected
  BY <1>1 DEF ActivateInv, First
<1>3. Pledged(w)
  BY <1>1, <1>2 DEF WikiInv, Unpublished
<1>4. QED
  BY <1>1, <1>2, <1>3, EntryType DEF SafeInv, Unpublished

LEMMA ActivationSafe ==
    ASSUME SafeInv, NEW w \in Wikis, Activation(w)
    PROVE  SafeInv'
<1>1. pc \in Activating /\ First(w)
  BY DEF Activation, MoveActiveToBackup, LinkSelected, PointSelected, Activating
<1>2. /\ ActivateInv /\ journal.state = "activating" /\ journal.state \in Unpublished
      /\ mode = "publish" /\ w \in todo /\ w \in Selected /\ Pledged(w)
      /\ E(w).cand \in Cands /\ E(w).prev \in Cands
  BY <1>1, ActivatedWiki
<1>3. LinkType /\ CtlType
  BY TypeParts DEF SafeInv
<1>4. UNCHANGED <<wikiVars, prep, txnVars, pubVars, siteVars, run, mode, victims, faults>>
  BY DEF Activation, MoveActiveToBackup, LinkSelected, PointSelected
<1>5. UNCHANGED <<journal, Selected, E(w)>> /\ \A c : UNCHANGED Authentic(w, c)
  BY <1>4 DEF wikiVars, txnVars, Selected, E, Authentic
<1>6. \A v \in todo : UNCHANGED todo => UNCHANGED First(v)
  BY DEF First
<1>7. CASE MoveActiveToBackup(w)
  <2>1. /\ pc = "activate" /\ pc' = "link" /\ UNCHANGED <<todo, snap>>
        /\ backup' = [backup EXCEPT ![w] = active[w]]
        /\ active' = [active EXCEPT ![w] = None]
    BY <1>7 DEF MoveActiveToBackup, Goto
  <2>2. Back(w)
    BY <1>1, <1>2, <2>1 DEF ActivateInv
  <2>3. LinkType' /\ CtlType'
    BY <1>3, <1>4, <2>1 DEF LinkType, CtlType
  <2>4. \A v \in Wikis \ {w} : SameWiki(v)
    BY <1>3, <2>1 DEF LinkType, SameWiki
  <2>5. backup'[w] = E(w).prev /\ active'[w] = None
    BY <1>3, <2>1, <2>2 DEF LinkType, Back
  <2>6. WikiInv(w)'
    BY <1>2, <1>5, <2>5 DEF WikiInv, Pledged, Unpublished, Terminal
  <2>7. \A v \in Selected \ {w} : UNCHANGED <<Done(v), Back(v)>>
    BY <1>5, <2>4, OtherWiki DEF Selected
  <2>8. \A v \in Wikis : First(v) => v = w
    BY <1>1, OneFirst
  <2>9. ActivateInv'
    BY <1>1, <1>2, <1>4, <1>5, <1>6, <2>1, <2>5, <2>7, <2>8 DEF ActivateInv, Activating, Selected
  <2>10. QED
    BY <1>2, <1>4, <2>1, <2>3, <2>4, <2>6, <2>9, PcActivate, LinkFrame DEF Activating
<1>8. CASE LinkSelected(w)
  <2>1. /\ pc = "link" /\ pc' = "point" /\ UNCHANGED <<todo, snap, backup>>
        /\ active' = [active EXCEPT ![w] = E(w).cand]
    BY <1>8 DEF LinkSelected, Goto
  <2>2. active[w] = None
    BY <1>1, <1>2, <2>1 DEF ActivateInv
  <2>3. LinkType' /\ CtlType'
    BY <1>2, <1>3, <1>4, <2>1 DEF LinkType, CtlType
  <2>4. \A v \in Wikis \ {w} : SameWiki(v)
    BY <1>3, <2>1 DEF LinkType, SameWiki
  <2>5. active'[w] = E(w).cand /\ backup'[w] = E(w).prev
    <3>1. ~Back(w)
      BY <1>2, <2>2, Constants DEF Back
    <3>2. QED
      BY <1>2, <1>3, <2>1, <3>1 DEF LinkType, Pledged
  <2>6. WikiInv(w)'
    BY <1>2, <1>5, <2>5 DEF WikiInv, Pledged, Unpublished, Terminal
  <2>7. \A v \in Selected \ {w} : UNCHANGED <<Done(v), Back(v)>>
    BY <1>5, <2>4, OtherWiki DEF Selected
  <2>8. \A v \in Wikis : First(v) => v = w
    BY <1>1, OneFirst
  <2>9. ActivateInv'
    BY <1>1, <1>2, <1>4, <1>5, <1>6, <2>1, <2>5, <2>7, <2>8 DEF ActivateInv, Activating, Selected
  <2>10. QED
    BY <1>2, <1>4, <2>1, <2>3, <2>4, <2>6, <2>9, PcActivate, LinkFrame DEF Activating
<1>9. CASE PointSelected(w)
  <2>1. /\ pc = "point" /\ pc' = "activate" /\ todo' = todo \ {w} /\ UNCHANGED <<active, backup>>
        /\ snap' = [snap EXCEPT ![w] = SnapshotOf[E(w).cand]]
    BY <1>9 DEF PointSelected, Goto
  <2>2. active[w] = E(w).cand
    BY <1>1, <1>2, <2>1 DEF ActivateInv
  <2>3. LinkType' /\ CtlType'
    BY <1>2, <1>3, <1>4, <2>1, Constants DEF LinkType, CtlType
  <2>4. \A v \in Wikis \ {w} : SameWiki(v)
    BY <1>3, <2>1 DEF LinkType, SameWiki
  <2>5. Done(w)'
    BY <1>3, <1>5, <2>1, <2>2 DEF LinkType, Done
  <2>6. WikiInv(w)'
    BY <1>2, <1>5, <2>1 DEF WikiInv, Pledged, Back, Unpublished, Terminal
  <2>7. \A v \in Selected \ {w} : UNCHANGED <<Done(v), Back(v)>>
    BY <1>5, <2>4, OtherWiki DEF Selected
  <2>8. \A v \in Wikis : First(v) => v = w
    BY <1>1, OneFirst
  <2>9. ActivateInv'
    BY <1>2, <1>4, <1>5, <2>1, <2>5, <2>7, <2>8 DEF ActivateInv, Activating, Selected
  <2>10. QED
    BY <1>2, <1>4, <2>1, <2>3, <2>4, <2>6, <2>9, PcActivate, LinkFrame DEF Activating
<1>10. QED
  BY <1>7, <1>8, <1>9 DEF Activation

\* The wiki that a rollback has reached.
LEMMA UndoneWiki ==
    ASSUME SafeInv, NEW w \in Wikis, pc \in InUndo, Last(w)
    PROVE  /\ UndoInv /\ journal.state \in Unpublished /\ mode # "publish"
           /\ w \in todo /\ w \in Selected /\ Pledged(w)
           /\ E(w).cand \in Cands /\ E(w).prev \in Cands /\ E(w).snap \in Snaps
<1>1. UndoInv /\ WikiInv(w)
  BY DEF SafeInv, CoreInv, PcInv
<1>2. journal.state \in Unpublished /\ mode # "publish" /\ w \in todo /\ w \in Selected
  BY <1>1 DEF UndoInv, Last
<1>3. Pledged(w)
  BY <1>1, <1>2 DEF WikiInv
<1>4. QED
  BY <1>1, <1>2, <1>3, EntryType DEF SafeInv

LEMMA UndoLinkSafe ==
    ASSUME SafeInv, NEW w \in Wikis, UndoUnlink(w) \/ UndoRelink(w) \/ UndoPoint(w)
    PROVE  SafeInv'
<1>1. pc \in InUndo /\ Last(w)
  BY DEF UndoUnlink, UndoRelink, UndoPoint, InUndo
<1>2. /\ UndoInv /\ journal.state \in Unpublished /\ mode # "publish"
      /\ w \in todo /\ w \in Selected /\ Pledged(w)
      /\ E(w).cand \in Cands /\ E(w).prev \in Cands /\ E(w).snap \in Snaps
  BY <1>1, UndoneWiki
<1>3. LinkType /\ CtlType
  BY TypeParts DEF SafeInv
<1>4. UNCHANGED <<wikiVars, prep, txnVars, pubVars, siteVars, run, mode, todo, victims, faults>>
  BY DEF UndoUnlink, UndoRelink, UndoPoint
<1>5. UNCHANGED <<journal, Selected, E(w)>> /\ \A c : UNCHANGED Authentic(w, c)
  BY <1>4 DEF wikiVars, txnVars, Selected, E, Authentic
<1>6. \A v \in Wikis : Last(v) => v = w
  BY <1>1, OneFirst
<1>7. \A v \in Wikis : UNCHANGED Last(v)
  BY <1>4 DEF Last
<1>8. ASSUME LinkType', pc' \in InUndo, WikiInv(w)', \A v \in Wikis \ {w} : SameWiki(v),
             /\ pc' = "relink" => active'[w] # E(w).cand
             /\ pc' \in {"repoint", "reindex"} => Back(w)'
             /\ pc' = "reindex" => Undone(w)'
      PROVE  SafeInv'
  <2>1. \A v \in Selected \ {w} : UNCHANGED Undone(v)
    BY <1>5, <1>8, OtherWiki DEF Selected
  <2>2. UndoInv'
    BY <1>1, <1>2, <1>4, <1>5, <1>6, <1>7, <1>8, <2>1
       DEF UndoInv, InUndo, InRestore, Restoring, Selected
  <2>3. CtlType'
    BY <1>3, <1>4, <1>8 DEF CtlType, InUndo
  <2>4. journal.state # "committed"
    BY <1>2 DEF Unpublished
  <2>5. QED
    BY <1>4, <1>8, <2>2, <2>3, <2>4, PcUndo, LinkFrame
<1>9. CASE UndoUnlink(w)
  <2>1. /\ pc' = "relink" /\ UNCHANGED <<snap, backup>>
        /\ active' = IF SelectedLive(w) THEN [active EXCEPT ![w] = None] ELSE active
    BY <1>9 DEF UndoUnlink, Goto
  <2>2. LinkType' /\ \A v \in Wikis \ {w} : SameWiki(v)
    BY <1>3, <2>1 DEF LinkType, SameWiki
  <2>3. CASE SelectedLive(w)
    <3>1. active'[w] = None /\ backup'[w] = E(w).prev
      BY <1>2, <1>3, <2>1, <2>3 DEF LinkType, SelectedLive, Pledged, Back
    <3>2. active'[w] # E(w).cand
      BY <1>2, <3>1, Constants
    <3>3. WikiInv(w)'
      BY <1>2, <1>5, <3>1 DEF WikiInv, Pledged, Unpublished, Terminal
    <3>4. QED
      BY <1>8, <2>1, <2>2, <3>2, <3>3 DEF InUndo
  <2>4. CASE ~SelectedLive(w)
    <3>1. active'[w] # E(w).cand
      BY <2>1, <2>4 DEF SelectedLive
    <3>2. WikiInv(w)'
      BY <1>2, <1>5, <2>1, <2>4 DEF WikiInv, Pledged, Back, Unpublished, Terminal
    <3>3. QED
      BY <1>8, <2>1, <2>2, <3>1, <3>2 DEF InUndo
  <2>5. QED
    BY <2>3, <2>4
<1>10. CASE UndoRelink(w)
  <2>1. pc = "relink" /\ pc' = "repoint" /\ UNCHANGED snap
    BY <1>10 DEF UndoRelink, Goto
  <2>2. Back(w)' /\ LinkType' /\ \A v \in Wikis \ {w} : SameWiki(v)
    <3>1. CASE /\ backup[w] # None
               /\ active' = [active EXCEPT ![w] = backup[w]]
               /\ backup' = [backup EXCEPT ![w] = None]
      <4>1. backup[w] = E(w).prev
        BY <1>2, <3>1 DEF Pledged, Back
      <4>2. active'[w] = E(w).prev /\ backup'[w] = None
        BY <1>3, <3>1, <4>1 DEF LinkType
      <4>3. LinkType' /\ \A v \in Wikis \ {w} : SameWiki(v)
        BY <1>2, <1>3, <2>1, <3>1, <4>1 DEF LinkType, SameWiki
      <4>4. QED
        BY <1>5, <4>2, <4>3 DEF Back
    <3>2. CASE /\ backup[w] = None
               /\ active' = IF active[w] = None /\ Authentic(w, E(w).prev)
                              THEN [active EXCEPT ![w] = E(w).prev] ELSE active
               /\ UNCHANGED backup
      <4>1. Back(w)
        BY <1>2, <3>2, Constants DEF Pledged
      <4>2. active[w] # None
        BY <1>2, <4>1, Constants DEF Back
      <4>3. UNCHANGED active
        BY <3>2, <4>2
      <4>4. QED
        BY <1>3, <1>5, <2>1, <3>2, <4>1, <4>3 DEF Back, LinkType, SameWiki
    <3>3. QED
      BY <1>10, <3>1, <3>2 DEF UndoRelink
  <2>3. WikiInv(w)'
    BY <1>2, <1>5, <2>2 DEF WikiInv, Pledged, Unpublished, Terminal
  <2>4. QED
    BY <1>8, <2>1, <2>2, <2>3 DEF InUndo
<1>11. CASE UndoPoint(w)
  <2>1. /\ pc = "repoint" /\ pc' = "reindex" /\ UNCHANGED <<active, backup>>
        /\ snap' = [snap EXCEPT ![w] = E(w).snap]
    BY <1>11 DEF UndoPoint, Goto
  <2>2. LinkType' /\ \A v \in Wikis \ {w} : SameWiki(v)
    BY <1>2, <1>3, <2>1 DEF LinkType, SameWiki
  <2>3. Back(w)
    BY <1>1, <1>2, <2>1 DEF UndoInv
  <2>4. Back(w)' /\ Undone(w)'
    BY <1>3, <1>5, <2>1, <2>3 DEF Back, Undone, LinkType
  <2>5. WikiInv(w)'
    BY <1>2, <1>5, <2>4 DEF WikiInv, Pledged, Unpublished, Terminal
  <2>6. QED
    BY <1>8, <2>1, <2>2, <2>4, <2>5 DEF InUndo
<1>12. QED
  BY <1>9, <1>10, <1>11

\* The wiki that a commit has reached.
LEMMA CommittedWiki ==
    ASSUME SafeInv, NEW w \in Wikis, pc \in InCommit, First(w)
    PROVE  /\ CommitInv /\ journal.state = "committing" /\ w \in todo /\ w \in Selected
           /\ Switching(w) /\ E(w).cand \in Cands /\ E(w).prev \in Cands
<1>1. CommitInv /\ WikiInv(w)
  BY DEF SafeInv, CoreInv, PcInv
<1>2. journal.state = "committing" /\ w \in todo /\ w \in Selected
  BY <1>1 DEF CommitInv, First
<1>3. Switching(w)
  BY <1>1, <1>2 DEF WikiInv
<1>4. QED
  BY <1>1, <1>2, <1>3, EntryType DEF SafeInv

LEMMA DropBackupSafe ==
    ASSUME SafeInv, NEW w \in Wikis, RemoveCommittedBackup(w)
    PROVE  SafeInv'
<1>1. /\ pc = "dropbackup" /\ First(w) /\ pc' = "indexselected"
      /\ backup' = [backup EXCEPT ![w] = None]
      /\ UNCHANGED <<active, snap>>
      /\ UNCHANGED <<wikiVars, prep, txnVars, pubVars, siteVars, run, mode, todo, victims, faults>>
  BY DEF RemoveCommittedBackup, Goto
<1>2. /\ CommitInv /\ journal.state = "committing" /\ w \in todo /\ w \in Selected
      /\ Switching(w) /\ E(w).cand \in Cands /\ E(w).prev \in Cands
  BY <1>1, CommittedWiki DEF InCommit
<1>3. LinkType /\ CtlType
  BY TypeParts DEF SafeInv
<1>4. UNCHANGED <<journal, Selected, E(w)>> /\ (\A c : UNCHANGED Authentic(w, c)) /\ UNCHANGED ready
  BY <1>1 DEF wikiVars, txnVars, Selected, E, Authentic
<1>5. LinkType' /\ \A v \in Wikis \ {w} : SameWiki(v)
  BY <1>1, <1>3 DEF LinkType, SameWiki
<1>6. backup'[w] = None
  BY <1>1, <1>3 DEF LinkType
<1>7. WikiInv(w)'
  BY <1>1, <1>2, <1>4, <1>6 DEF WikiInv, Switching, Done, Unpublished, Terminal
<1>8. CtlType'
  BY <1>1, <1>3 DEF CtlType
<1>9. CommitInv'
  <2>1. \A v \in Wikis : First(v) => v = w
    BY <1>1, OneFirst
  <2>2. \A v \in Wikis : UNCHANGED First(v)
    BY <1>1 DEF First
  <2>3. QED
    BY <1>1, <1>2, <1>4, <1>5, <1>6, <2>1, <2>2 DEF CommitInv, InCommit, SameWiki, Selected
<1>10. QED
  BY <1>1, <1>2, <1>5, <1>7, <1>8, <1>9, PcCommit, LinkFrame DEF InCommit

-----------------------------------------------------------------------------
(* The retirement of a commit: the only steps that remove data.            *)

LEMMA RetireFrame ==
    ASSUME SafeInv, NEW w \in Wikis, DataType', CtlType', PcInv', WikiInv(w)',
           \A v \in Wikis \ {w} : ready'[v] = ready[v] /\ inputs'[v] = inputs[v],
           UNCHANGED <<linkVars, txnVars, pubVars, siteVars>>
    PROVE  SafeInv'
<1>1. LinkType /\ TxnType /\ PubType /\ SiteType
  BY TypeParts DEF SafeInv
<1>2. TypeOK'
  BY <1>1, LinkSame, TxnSame, PubSame, SiteSame, TypeTogether
<1>3. UNCHANGED <<linkVars, journal>>
  BY DEF txnVars
<1>4. ASSUME NEW v \in Wikis \ {w} PROVE WikiInv(v)'
  <2>1. WikiInv(v) /\ UNCHANGED <<journal, Selected, active, snap, backup, E(v), Done(v), Back(v)>>
    BY <1>3, SameLinks DEF SafeInv, CoreInv
  <2>2. (\A c : UNCHANGED Authentic(v, c)) /\ ready'[v] = ready[v]
    BY DEF Authentic
  <2>3. UNCHANGED <<Pledged(v), Switching(v), Live(v)>>
    BY <2>1, <2>2 DEF Pledged, Switching, Live
  <2>4. QED
    BY <2>1, <2>3 DEF WikiInv
<1>5. QED
  BY <1>2, <1>3, <1>4, CommittedFrame DEF SafeInv, CoreInv

LEMMA RetireSafe ==
    ASSUME SafeInv, NEW w \in Wikis, RetireCandidate(w) \/ RetireInputs(w)
    PROVE  SafeInv'
<1>1. pc = "retire" /\ First(w) /\ UNCHANGED <<index, linkVars, prep, txnVars, pubVars, siteVars,
                                              run, mode, todo, faults>>
  BY DEF RetireCandidate, RetireInputs
<1>2. /\ CommitInv /\ journal.state = "committing" /\ w \in todo /\ w \in Selected
      /\ Switching(w) /\ E(w).cand \in Cands /\ E(w).prev \in Cands
  BY <1>1, CommittedWiki DEF InCommit
<1>3. DataType /\ CtlType /\ LinkType /\ PcInv
  BY TypeParts DEF SafeInv, CoreInv
<1>4. UNCHANGED <<linkVars, journal>> /\ UNCHANGED <<journal, Selected, active, snap, backup, E(w), Done(w)>>
  BY <1>1, SameLinks DEF txnVars
<1>5. CASE RetireCandidate(w)
  <2>1. UNCHANGED <<inputs, pc>>
    BY <1>5 DEF RetireCandidate
  <2>2. PICK c \in ready[w] \ {E(w).cand, E(w).prev} :
          \/ /\ gen[w][c] # "retired"
             /\ gen' = [gen EXCEPT ![w][c] =
                          IF @ \in {"ready", "published"} THEN "superseded" ELSE "retired"]
             /\ victims' = victims \cup {c}
             /\ UNCHANGED ready
          \/ /\ gen[w][c] = "retired"
             /\ ready' = [ready EXCEPT ![w] = @ \ {c}]
             /\ victims' = victims \ {c}
             /\ UNCHANGED gen
    BY <1>5 DEF RetireCandidate
  <2>3. c \in Cands
    BY <1>3, <2>2 DEF DataType
  <2>4. gen' \in [Wikis -> [Cands -> GStates]]
    <3>1. "superseded" \in GStates /\ "retired" \in GStates
      BY DEF GStates
    <3>2. ASSUME NEW s \in GStates, gen' = [gen EXCEPT ![w][c] = s]
          PROVE  gen' \in [Wikis -> [Cands -> GStates]]
      BY <1>3, <2>3, <3>2 DEF DataType
    <3>3. \/ gen' = gen
          \/ gen' = [gen EXCEPT ![w][c] = IF gen[w][c] \in {"ready", "published"}
                                           THEN "superseded" ELSE "retired"]
      BY <2>2
    <3>4. \/ gen' = gen
          \/ gen' = [gen EXCEPT ![w][c] = "superseded"]
          \/ gen' = [gen EXCEPT ![w][c] = "retired"]
      BY <3>3
    <3>5. gen \in [Wikis -> [Cands -> GStates]]
      BY <1>3 DEF DataType
    <3>6. QED
      BY <3>1, <3>2, <3>4, <3>5
  <2>5. /\ ready' \in [Wikis -> SUBSET Cands]
        /\ \A v \in Wikis \ {w} : ready'[v] = ready[v]
        /\ \A d \in ready[w] \ {c} : d \in ready'[w]
    BY <1>3, <2>2 DEF DataType
  <2>6. DataType'
    BY <1>1, <1>3, <2>1, <2>4, <2>5 DEF DataType
  <2>7. CtlType'
    BY <1>1, <1>3, <2>1, <2>2, <2>3 DEF CtlType
  <2>8. PcInv'
    BY <1>1, <1>3, <1>4, <2>1, PcFrame DEF txnVars
  <2>9. E(w).cand \in ready'[w] /\ (E(w).prev \in ready[w] => E(w).prev \in ready'[w])
    BY <1>2, <2>2, <2>5 DEF Switching, Authentic
  <2>10. WikiInv(w)'
    BY <1>2, <1>4, <2>1, <2>9 DEF WikiInv, Switching, Authentic, Unpublished, Terminal
  <2>11. QED
    BY <1>1, <2>1, <2>5, <2>6, <2>7, <2>8, <2>10, RetireFrame
<1>6. CASE RetireInputs(w)
  <2>1. /\ inputs' = [inputs EXCEPT ![w] = {snap[w]}] /\ pc' = "dropbackup"
        /\ UNCHANGED <<ready, gen, victims>>
    BY <1>6 DEF RetireInputs, Goto
  <2>2. snap[w] \in Snaps /\ snap[w] = SnapshotOf[E(w).cand]
    BY <1>2, <1>3 DEF LinkType, Switching, Done
  <2>3. /\ inputs' \in [Wikis -> SUBSET Snaps] /\ inputs'[w] = {snap[w]}
        /\ \A v \in Wikis \ {w} : inputs'[v] = inputs[v]
    BY <1>3, <2>1, <2>2 DEF DataType
  <2>4. DataType'
    BY <1>1, <1>3, <2>1, <2>3 DEF DataType
  <2>5. CtlType'
    BY <1>1, <1>3, <2>1 DEF CtlType
  <2>6. CommitInv'
    BY <1>1, <1>2, <1>4, <2>1 DEF CommitInv, InCommit
  <2>7. WikiInv(w)'
    BY <1>2, <1>4, <2>1, <2>2, <2>3 DEF WikiInv, Switching, Authentic, Unpublished, Terminal
  <2>8. QED
    BY <1>1, <2>1, <2>3, <2>4, <2>5, <2>6, <2>7, PcCommit, RetireFrame DEF InCommit
<1>7. QED
  BY <1>5, <1>6

-----------------------------------------------------------------------------
(* Steps that replace the journal.                                         *)

LEMMA JournalFrame ==
    ASSUME SafeInv, LinkType', TxnType', CtlType', PcInv', \A w \in Wikis : WikiInv(w)',
           Committed', UNCHANGED <<wikiVars, prep, pubVars, siteVars>>
    PROVE  SafeInv'
<1>1. DataType /\ PubType /\ SiteType
  BY TypeParts DEF SafeInv
<1>2. TypeOK'
  BY <1>1, DataSame, PubSame, SiteSame, TypeTogether DEF wikiVars
<1>3. QED
  BY <1>2 DEF SafeInv, CoreInv

\* A new state of the same transaction.
LEMMA Advanced ==
    ASSUME TypeOK, NEW s, journal' = [journal EXCEPT !.state = s], UNCHANGED linkVars
    PROVE  /\ journal'.state = s /\ journal'.entries = journal.entries
           /\ UNCHANGED <<active, backup, snap, Selected, AllDone, AllUndone>>
           /\ \A w : UNCHANGED <<E(w), Done(w), Back(w), Undone(w)>>
<1>1. journal'.state = s /\ journal'.entries = journal.entries
  BY TypeParts DEF TxnType
<1>2. UNCHANGED <<active, snap, backup, Selected>>
  BY <1>1 DEF linkVars, Selected
<1>3. \A w : UNCHANGED <<E(w), Done(w), Back(w), Undone(w)>>
  BY <1>1, <1>2 DEF E, Done, Back, Undone
<1>4. UNCHANGED <<AllDone, AllUndone>>
  BY <1>2, <1>3 DEF AllDone, AllUndone
<1>5. QED
  BY <1>1, <1>2, <1>3, <1>4

LEMMA AdvancedType ==
    ASSUME TypeOK, NEW s \in Terminal \cup Unpublished \cup {"committing"},
           journal' = [journal EXCEPT !.state = s], siteNewer' \in BOOLEAN,
           saved' \in Publications \cup {None}
    PROVE  TxnType'
BY TypeParts DEF TxnType

LEMMA NoOpSafe ==
    ASSUME SafeInv, NoOp
    PROVE  SafeInv'
<1>1. /\ pc = "select" /\ pc' = "idle" /\ siteNewer' = FALSE
      /\ journal' = [run |-> run, state |-> "no_op", entries |-> NoEntries]
      /\ UNCHANGED <<wikiVars, linkVars, prep, saved, pubVars, siteVars, run, mode, todo, victims, faults>>
  BY DEF NoOp, WriteJournal, Goto
<1>2. LinkType /\ TxnType /\ CtlType /\ PublishInv
  BY TypeParts DEF SafeInv, CoreInv, PcInv
<1>3. LinkType' /\ CtlType'
  BY <1>1, <1>2, LinkSame DEF CtlType
<1>4. "no_op" \in Terminal /\ run \in Runs
  BY <1>2 DEF Terminal, CtlType
<1>5. TxnType'
  BY <1>1, <1>2, <1>4 DEF TxnType, NoEntries
<1>6. Selected' = {}
  BY <1>1 DEF Selected, NoEntries
<1>7. ASSUME NEW w \in Wikis PROVE WikiInv(w)'
  <2>1. journal.state \in Terminal
    BY <1>1, <1>2 DEF PublishInv
  <2>2. Live(w)
    BY <2>1 DEF SafeInv, CoreInv, WikiInv
  <2>3. Live(w)'
    BY <1>1, <2>2 DEF Live, linkVars, wikiVars, Authentic
  <2>4. QED
    BY <1>6, <2>3 DEF WikiInv
<1>8. Committed'
  BY <1>6 DEF Committed
<1>9. QED
  BY <1>1, <1>3, <1>5, <1>7, <1>8, PcQuiet, JournalFrame

LEMMA ActivateSafe ==
    ASSUME SafeInv, Activate
    PROVE  SafeInv'
<1> DEFINE changed == {w \in Wikis : index[w].newest # active[w] \/ snap[w] # SnapshotOf[active[w]]}
           entry(w) == [cand |-> index[w].newest, prev |-> active[w], snap |-> snap[w]]
           entries == [w \in Wikis |-> IF w \in changed THEN entry(w) ELSE None]
<1>1. /\ pc = "select" /\ pc' = "activate" /\ siteNewer' = FALSE /\ todo' = changed
      /\ journal' = [run |-> run, state |-> "activating", entries |-> entries]
      /\ saved' = IF Verified THEN gate ELSE None
      /\ backup' = [w \in Wikis |-> None]
      /\ \A w \in Wikis : IndexValid(w)
      /\ UNCHANGED <<wikiVars, active, snap, prep, pubVars, siteVars, run, mode, victims>>
  BY DEF Activate, WriteJournal, Goto
<1>2. faults' \in 0..MaxFaults
  <2>1. faults' = faults \/ Fault("upgrade")
    BY DEF Activate
  <2>2. QED
    BY <2>1, FaultCount, TypeParts DEF SafeInv, CtlType
<1>3. DataType /\ LinkType /\ TxnType /\ PubType /\ CtlType /\ PublishInv
  BY TypeParts DEF SafeInv, CoreInv, PcInv
<1>4. \A w \in Wikis : Live(w)
  <2>1. journal.state \in Terminal
    BY <1>1, <1>3 DEF PublishInv
  <2>2. QED
    BY <2>1 DEF SafeInv, CoreInv, WikiInv
<1>5. ASSUME NEW w \in changed
      PROVE  /\ w \in Wikis /\ entry(w) \in Entry /\ entry(w) # None
             /\ entry(w).cand = index[w].newest /\ entry(w).prev = active[w] /\ entry(w).snap = snap[w]
             /\ index[w].newest # active[w] /\ Authentic(w, index[w].newest)
  <2>1. w \in Wikis /\ Live(w)
    BY <1>4
  <2>2. index[w].newest \in Cands /\ active[w] \in Cands /\ snap[w] \in Snaps
    BY <1>3, <2>1 DEF DataType, LinkType, Live
  <2>3. entry(w) \in Entry
    BY <2>2 DEF Entry
  <2>4. entry(w) # None
    BY <2>3, Constants
  <2>5. index[w].newest # active[w]
    BY <2>1 DEF Live
  <2>6. Authentic(w, index[w].newest)
    BY <1>1, <2>1 DEF IndexValid, Discoverable
  <2>7. QED
    BY <2>1, <2>3, <2>4, <2>5, <2>6
<1>6. entries \in [Wikis -> Entry \cup {None}]
      /\ (\A w \in changed : entries[w] = entry(w))
      /\ (\A w \in Wikis : w \in changed <=> entries[w] # None)
  BY <1>5
<1>7. changed \subseteq Wikis
  OBVIOUS
<1> HIDE DEF changed, entry, entries
<1>8. journal'.state = "activating" /\ journal'.entries = entries
  BY <1>1
<1>9. Selected' = changed
  BY <1>6, <1>7, <1>8 DEF Selected
<1>10. \A w \in changed : E(w)' = entry(w)
  BY <1>6, <1>8 DEF E
<1>11. TxnType'
  <2>1. "activating" \in Terminal \cup Unpublished \cup {"committing"} /\ run \in Runs
    BY <1>3 DEF Unpublished, CtlType
  <2>2. saved' \in Publications \cup {None}
    BY <1>1, <1>3 DEF PubType
  <2>3. QED
    BY <1>1, <1>6, <2>1, <2>2 DEF TxnType
<1>12. LinkType'
  BY <1>1, <1>3 DEF LinkType
<1>13. CtlType'
  BY <1>1, <1>2, <1>3, <1>7 DEF CtlType
<1>14. ASSUME NEW w \in Wikis PROVE WikiInv(w)'
  <2>1. Live(w) /\ UNCHANGED <<active, snap>> /\ backup'[w] = None
        /\ (\A c : UNCHANGED Authentic(w, c))
    BY <1>1, <1>4 DEF wikiVars, Authentic
  <2>2. CASE w \in changed
    <3>1. Pledged(w)'
      <4>1. PICK p, q, n : p = active[w] /\ q = index[w].newest /\ n = snap[w]
        OBVIOUS
      <4>2. E(w)'.prev = p /\ E(w)'.cand = q /\ E(w)'.snap = n
        BY <1>5, <1>10, <2>2, <4>1
      <4>3. Authentic(w, p) /\ Authentic(w, q) /\ q # p /\ n = SnapshotOf[p]
        BY <1>5, <2>1, <2>2, <4>1 DEF Live
      <4>4. Authentic(w, p)' /\ Authentic(w, q)'
        BY <2>1, <4>3
      <4>5. Back(w)'
        BY <2>1, <4>1, <4>2 DEF Back
      <4>6. QED
        BY <4>2, <4>3, <4>4, <4>5 DEF Pledged
    <3>2. QED
      BY <1>8, <1>9, <2>2, <3>1 DEF WikiInv, Terminal
  <2>3. CASE w \notin changed
    <3>1. Live(w)'
      BY <2>1 DEF Live
    <3>2. QED
      BY <1>9, <2>3, <3>1 DEF WikiInv
  <2>4. QED
    BY <2>2, <2>3
<1>15. PcInv'
  <2>1. \A w \in changed : Back(w)'
    BY <1>1, <1>5, <1>10 DEF Back
  <2>2. mode = "publish"
    BY <1>1, <1>3 DEF PublishInv
  <2>3. ActivateInv'
    BY <1>1, <1>8, <1>9, <2>1, <2>2 DEF ActivateInv
  <2>4. QED
    BY <1>1, <2>3, PcActivate DEF Activating
<1>16. Committed'
  BY <1>8 DEF Committed
<1>17. QED
  BY <1>1, <1>11, <1>12, <1>13, <1>14, <1>15, <1>16, JournalFrame

LEMMA SelectSafe ==
    ASSUME SafeInv, Select
    PROVE  SafeInv'
<1>1. /\ pc = "activate" /\ todo = {} /\ siteNewer' = FALSE
      /\ journal' = [journal EXCEPT !.state = "selected"]
      /\ pc' = IF Selected = {} THEN "repair" ELSE "merge"
      /\ UNCHANGED <<wikiVars, linkVars, prep, saved, pubVars, siteVars, run, mode, todo, victims, faults>>
  BY DEF Select, WriteJournal, Goto
<1>2. TypeOK /\ LinkType /\ TxnType /\ CtlType /\ ActivateInv
  BY TypeParts DEF SafeInv, CoreInv, PcInv
<1>3. /\ journal'.state = "selected" /\ journal'.entries = journal.entries
      /\ UNCHANGED <<active, backup, snap, Selected, AllDone, AllUndone>>
      /\ \A w : UNCHANGED <<E(w), Done(w), Back(w), Undone(w)>>
  BY <1>1, <1>2, Advanced
<1>4. LinkType' /\ CtlType'
  BY <1>1, <1>2, LinkSame DEF CtlType
<1>5. TxnType'
  BY <1>1, <1>2, AdvancedType DEF TxnType, Unpublished
<1>6. journal.state = "activating" /\ mode = "publish" /\ AllDone
  BY <1>1, <1>2 DEF ActivateInv, Activating, AllDone
<1>7. PcInv'
  <2>1. PublishInv'
    BY <1>1, <1>3, <1>6 DEF PublishInv, Merging, Building
  <2>2. QED
    BY <1>1, <2>1, PcPublish DEF Merging
<1>8. ASSUME NEW w \in Wikis PROVE WikiInv(w)'
  <2>1. WikiInv(w) /\ \A c : UNCHANGED Authentic(w, c)
    BY <1>1 DEF SafeInv, CoreInv, Authentic, wikiVars
  <2>2. UNCHANGED <<Pledged(w), Live(w)>>
    BY <1>3, <2>1 DEF Pledged, Live
  <2>3. QED
    BY <1>3, <1>6, <2>1, <2>2 DEF WikiInv, Unpublished, Terminal
<1>9. Committed'
  BY <1>3 DEF Committed
<1>10. QED
  BY <1>1, <1>4, <1>5, <1>7, <1>8, <1>9, JournalFrame

LEMMA CommitBeginSafe ==
    ASSUME SafeInv, CommitBegin
    PROVE  SafeInv'
<1>1. /\ pc = "commit" /\ pc' = "publish" /\ todo' = Selected
      /\ journal.state \in {"selected", "committing"}
      /\ \/ journal' = [journal EXCEPT !.state = "committing"] /\ siteNewer' = FALSE
         \/ journal.state = "committing" /\ UNCHANGED <<journal, siteNewer>>
      /\ UNCHANGED <<wikiVars, linkVars, prep, saved, pubVars, siteVars, run, mode, victims, faults>>
  BY DEF CommitBegin, CommitAllowed, WriteJournal, Goto
<1>2. TypeOK /\ LinkType /\ TxnType /\ CtlType /\ PublishInv
  BY TypeParts DEF SafeInv, CoreInv, PcInv
<1>3. /\ journal'.state = "committing" /\ UNCHANGED <<active, backup, snap, Selected>>
      /\ \A w : UNCHANGED <<E(w), Done(w), Back(w), Undone(w)>>
  <2>1. CASE UNCHANGED journal /\ journal.state = "committing"
    BY <1>1, <2>1, SameLinks
  <2>2. CASE journal' = [journal EXCEPT !.state = "committing"]
    BY <1>1, <1>2, <2>2, Advanced
  <2>3. QED
    BY <1>1, <2>1, <2>2
<1>4. TxnType'
  <2>1. CASE UNCHANGED <<journal, siteNewer>>
    BY <1>1, <1>2, <2>1 DEF TxnType
  <2>2. CASE journal' = [journal EXCEPT !.state = "committing"] /\ siteNewer' = FALSE
    BY <1>1, <1>2, <2>2, AdvancedType DEF TxnType
  <2>3. QED
    BY <1>1, <2>1, <2>2
<1>5. LinkType' /\ CtlType'
  <2>1. Selected \subseteq Wikis
    BY DEF Selected
  <2>2. QED
    BY <1>1, <1>2, <2>1, LinkSame DEF CtlType
<1>6. AllDone /\ mode \in {"publish", "recover"}
  BY <1>1, <1>2 DEF PublishInv
<1>7. PcInv'
  <2>1. CommitInv'
    BY <1>1, <1>3, <1>6 DEF CommitInv
  <2>2. QED
    BY <1>1, <2>1, PcCommit DEF InCommit
<1>8. ASSUME NEW w \in Wikis PROVE WikiInv(w)'
  <2>1. WikiInv(w) /\ UNCHANGED ready /\ \A c : UNCHANGED Authentic(w, c)
    BY <1>1 DEF SafeInv, CoreInv, Authentic, wikiVars
  <2>2. CASE w \notin Selected
    <3>1. UNCHANGED Live(w)
      BY <1>3, <2>1 DEF Live
    <3>2. QED
      BY <1>3, <2>1, <2>2, <3>1 DEF WikiInv
  <2>3. CASE w \in Selected
    <3>1. Switching(w)
      <4>1. CASE journal.state = "selected"
        <5>1. Pledged(w)
          BY <2>1, <2>3, <4>1 DEF WikiInv, Unpublished
        <5>2. Done(w)
          BY <1>6, <2>3 DEF AllDone
        <5>3. QED
          BY <5>1, <5>2 DEF Pledged, Switching, Back, Authentic
      <4>2. CASE journal.state = "committing"
        BY <2>1, <2>3, <4>2 DEF WikiInv
      <4>3. QED
        BY <1>1, <4>1, <4>2
    <3>2. Switching(w)'
      BY <1>3, <2>1, <3>1 DEF Switching
    <3>3. QED
      BY <1>3, <2>3, <3>2 DEF WikiInv, Unpublished, Terminal
  <2>4. QED
    BY <2>2, <2>3
<1>9. Committed'
  BY <1>3 DEF Committed
<1>10. QED
  BY <1>1, <1>4, <1>5, <1>7, <1>8, <1>9, JournalFrame

LEMMA CommitEndSafe ==
    ASSUME SafeInv, CommitEnd
    PROVE  SafeInv'
<1>1. /\ pc = "publish" /\ todo = {} /\ siteNewer' = FALSE /\ saved' = None
      /\ journal' = [journal EXCEPT !.state = "committed"]
      /\ pc' = IF mode = "recover" THEN "preflight" ELSE "idle"
      /\ mode' = "publish"
      /\ UNCHANGED <<wikiVars, linkVars, prep, pubVars, siteVars, run, todo, victims, faults>>
  BY DEF CommitEnd, WriteJournal, Goto
<1>2. TypeOK /\ LinkType /\ TxnType /\ CtlType /\ CommitInv
  BY TypeParts DEF SafeInv, CoreInv, PcInv
<1>3. /\ journal'.state = "committed"
      /\ UNCHANGED <<active, backup, snap, Selected>>
      /\ \A w : UNCHANGED <<E(w), Done(w), Back(w), Undone(w)>>
  BY <1>1, <1>2, Advanced
<1>4. LinkType' /\ CtlType'
  BY <1>1, <1>2, LinkSame DEF CtlType
<1>5. TxnType'
  BY <1>1, <1>2, AdvancedType DEF Terminal
<1>6. journal.state = "committing" /\ \A w \in Selected : backup[w] = None
  BY <1>1, <1>2 DEF CommitInv, InCommit
<1>7. \A w \in Selected : Switching(w)
  BY <1>6 DEF SafeInv, CoreInv, WikiInv, Selected
<1>8. PcInv'
  <2>1. CASE pc' = "idle"
    BY <2>1, PcQuiet
  <2>2. CASE pc' = "preflight"
    <3>1. PublishInv'
      BY <1>1, <1>3, <2>2 DEF PublishInv, Merging, Building, Terminal
    <3>2. QED
      BY <2>2, <3>1, PcPublish
  <2>3. QED
    BY <1>1, <2>1, <2>2
<1>9. ASSUME NEW w \in Wikis PROVE WikiInv(w)'
  <2>1. Live(w)
    <3>1. CASE w \in Selected
      BY <1>2, <1>6, <1>7, <3>1, EntryType DEF Switching, Done, Live
    <3>2. CASE w \notin Selected
      BY <3>2 DEF SafeInv, CoreInv, WikiInv
    <3>3. QED
      BY <3>1, <3>2
  <2>2. Live(w)'
    BY <1>1, <1>3, <2>1 DEF Live, Authentic, wikiVars
  <2>3. QED
    BY <1>3, <2>2 DEF WikiInv, Unpublished
<1>10. Committed'
  BY <1>3, <1>7 DEF Committed, Switching, Done
<1>11. QED
  BY <1>1, <1>4, <1>5, <1>8, <1>9, <1>10, JournalFrame

LEMMA RolledBackSafe ==
    ASSUME SafeInv, RolledBack
    PROVE  SafeInv'
<1>1. /\ pc = "rolledback" /\ siteNewer' = FALSE /\ saved' = None
      /\ journal' = [journal EXCEPT !.state = "rolled_back"]
      /\ pc' = CASE mode = "recover" -> IF gate.run = run THEN "build" ELSE "preflight"
                 [] mode = "wrapper" -> IF saved = None THEN "merge" ELSE "idle"
                 [] mode \in {"activation", "prepare"} -> "idle"
      /\ mode' = IF mode = "recover" /\ gate.run # run THEN "publish" ELSE mode
      /\ UNCHANGED <<wikiVars, linkVars, prep, pubVars, siteVars, run, todo, victims, faults>>
  BY DEF RolledBack, WriteJournal, Goto
<1>2. TypeOK /\ LinkType /\ TxnType /\ CtlType /\ UndoInv
  BY TypeParts DEF SafeInv, CoreInv, PcInv
<1>3. /\ journal'.state = "rolled_back"
      /\ UNCHANGED <<active, backup, snap, Selected>>
      /\ \A w : UNCHANGED <<E(w), Done(w), Back(w), Undone(w)>>
  BY <1>1, <1>2, Advanced
<1>4. journal.state \in Unpublished /\ mode # "publish" /\ AllUndone
  BY <1>1, <1>2 DEF UndoInv, InRestore
<1>5. \/ mode = "recover" /\ mode' = "recover" /\ pc' = "build"
      \/ mode = "recover" /\ mode' = "publish" /\ pc' = "preflight"
      \/ mode = "wrapper" /\ mode' = "wrapper" /\ pc' = "merge"
      \/ pc' = "idle" /\ UNCHANGED mode
  <2>1. mode \in {"recover", "wrapper", "activation", "prepare"}
    BY <1>2, <1>4 DEF CtlType
  <2>2. QED
    BY <1>1, <2>1
<1>6. LinkType' /\ CtlType'
  BY <1>1, <1>2, <1>5, LinkSame DEF CtlType
<1>7. TxnType'
  BY <1>1, <1>2, AdvancedType DEF Terminal
<1>8. PcInv'
  <2>1. CASE pc' = "idle"
    BY <2>1, PcQuiet
  <2>2. CASE pc' # "idle"
    <3>1. PublishInv'
      BY <1>3, <1>5, <2>2 DEF PublishInv, Merging, Building, Terminal
    <3>2. QED
      BY <1>5, <2>2, <3>1, PcPublish DEF Merging, Building
  <2>3. QED
    BY <2>1, <2>2
<1>9. ASSUME NEW w \in Wikis PROVE WikiInv(w)'
  <2>1. Live(w)
    <3>1. CASE w \in Selected
      <4>1. Pledged(w) /\ Undone(w)
        BY <1>4, <3>1 DEF SafeInv, CoreInv, WikiInv, AllUndone
      <4>2. QED
        BY <1>2, <3>1, <4>1, EntryType DEF Pledged, Undone, Back, Live
    <3>2. CASE w \notin Selected
      BY <3>2 DEF SafeInv, CoreInv, WikiInv
    <3>3. QED
      BY <3>1, <3>2
  <2>2. Live(w)'
    BY <1>1, <1>3, <2>1 DEF Live, Authentic, wikiVars
  <2>3. QED
    BY <1>3, <2>2 DEF WikiInv, Unpublished
<1>10. Committed'
  BY <1>3 DEF Committed
<1>11. QED
  BY <1>1, <1>6, <1>7, <1>8, <1>9, <1>10, JournalFrame

-----------------------------------------------------------------------------
(* The theorems about the data.                                            *)

LEMMA InitSafe == Init => SafeInv
<1> SUFFICES ASSUME Init PROVE SafeInv
  OBVIOUS
<1>1. FirstPublication \in Publications
  BY Constants DEF FirstPublication, Publications
<1>2. DataType
  <2>1. "published" \in GStates /\ "none" \in GStates
    BY DEF GStates
  <2>2. gen \in [Wikis -> [Cands -> GStates]]
    BY <2>1 DEF Init
  <2>3. QED
    BY <2>2, Constants DEF Init, DataType
<1>3. LinkType
  BY Constants DEF Init, LinkType
<1>4. TxnType
  BY Constants DEF Init, TxnType, Terminal
<1>5. PubType /\ SiteType
  BY <1>1 DEF Init, PubType, SiteType
<1>6. CtlType
  BY Constants, PublicationAssumption DEF Init, CtlType
<1>7. TypeOK
  BY <1>2, <1>3, <1>4, <1>5, <1>6, TypeParts
<1>8. PcInv
  BY DEF Init, PcInv, ActivateInv, PublishInv, CommitInv, UndoInv, Activating, Merging, Building,
         InCommit, InUndo, InRestore, Restoring
<1>9. Selected = {}
  BY DEF Init, Selected
<1>10. ASSUME NEW w \in Wikis PROVE WikiInv(w)
  <2>1. Live(w)
    BY Constants DEF Init, Live, Authentic
  <2>2. QED
    BY <1>9, <2>1 DEF WikiInv
<1>11. QED
  BY <1>7, <1>8, <1>9, <1>10 DEF SafeInv, CoreInv, Committed

LEMMA StutterSafe == SafeInv /\ UNCHANGED vars => SafeInv'
<1> SUFFICES ASSUME SafeInv, UNCHANGED vars PROVE SafeInv'
  OBVIOUS
<1>1. UNCHANGED <<wikiVars, linkVars, prep, txnVars, pubVars, siteVars, ctlVars, faults>>
  BY DEF vars
<1>2. PubType /\ SiteType /\ CtlType /\ PcInv
  BY TypeParts DEF SafeInv, CoreInv
<1>3. PubType' /\ SiteType' /\ CtlType'
  BY <1>1, <1>2, PubSame, SiteSame DEF CtlType, ctlVars
<1>4. PcInv'
  BY <1>1, <1>2, PcFrame DEF txnVars, ctlVars
<1>5. QED
  BY <1>1, <1>3, <1>4, ControlFrame

LEMMA PublisherSafe ==
    ASSUME SafeInv, Publisher
    PROVE  SafeInv'
<1>1. CASE Begin \/ Recover \/ Preflight \/ Repair
  BY <1>1, WrapperSafe
<1>2. CASE NoOp \/ Activate \/ Select \/ CommitBegin \/ CommitEnd \/ RolledBack
  BY <1>2, NoOpSafe, ActivateSafe, SelectSafe, CommitBeginSafe, CommitEndSafe, RolledBackSafe
<1>3. CASE MergeBegin \/ MergeEnd \/ RecordCandidate \/ Validate
  BY <1>3, MergeSafe, ValidateSafe
<1>4. CASE SwitchSite \/ RecordSite \/ CommitRefused
  BY <1>4, SiteSafe
<1>5. CASE UndoEnd \/ RestoreCandidate \/ RestoreGate \/ RestoreRoot \/ AfterRestore
  BY <1>5, RestoreSafe
<1>6. ASSUME NEW w \in Wikis, RebuildIndex(w) \/ Activation(w) \/ Committing(w) \/ Undoing(w)
      PROVE  SafeInv'
  <2>1. CASE RebuildIndex(w) \/ Activation(w)
    BY <2>1, RebuildIndexSafe, ActivationSafe
  <2>2. CASE Committing(w)
    BY <2>2, CommitRecordSafe, RetireSafe, DropBackupSafe DEF Committing
  <2>3. CASE Undoing(w)
    BY <2>3, UndoSkipSafe, UndoLinkSafe, UndoIndexSafe DEF Undoing
  <2>4. QED
    BY <1>6, <2>1, <2>2, <2>3
<1>7. QED
  BY <1>1, <1>2, <1>3, <1>4, <1>5, <1>6 DEF Publisher

\* The data, the links and the control of every reachable state.
LEMMA SafeHolds == Spec => []SafeInv
<1>1. Init => SafeInv
  BY InitSafe
<1>2. SafeInv /\ [Next]_vars => SafeInv'
  <2> SUFFICES ASSUME SafeInv, [Next]_vars PROVE SafeInv'
    OBVIOUS
  <2>1. CASE Publisher
    BY <2>1, PublisherSafe
  <2>2. CASE Failures \/ Crash
    BY <2>2, FailureSafe DEF Failures
  <2>3. CASE Damage
    BY <2>3, DamageSafe
  <2>4. CASE \E w \in Wikis : Prepare(w) \/ PrepCrash(w)
    BY <2>4, PrepareSafe
  <2>5. CASE UNCHANGED vars
    BY <2>5, StutterSafe
  <2>6. QED
    BY <2>1, <2>2, <2>3, <2>4, <2>5 DEF Next
<1>3. QED
  BY <1>1, <1>2, PTL DEF Spec

\* Documents, links and control keep their types: above all, a publication is
\* merged only while every wiki has a live link.
THEOREM PublicationTypeCorrect == Spec => []TypeOK
<1>1. SafeInv => TypeOK
  BY DEF SafeInv
<1>2. QED
  BY <1>1, SafeHolds, PTL

\* Whatever is linked, or kept to be linked again, exists with its inputs: the
\* retirement at the end of a commit, and a run that dies anywhere, leave it.
THEOREM LiveDataKeptHolds == Spec => []LiveDataKept
<1>1. SafeInv => LiveDataKept
  <2> SUFFICES ASSUME SafeInv, NEW w \in Wikis
               PROVE  /\ active[w] # None => Authentic(w, active[w])
                      /\ backup[w] # None => backup[w] \in ready[w]
    BY DEF LiveDataKept
  <2>1. TypeOK /\ WikiInv(w)
    BY DEF SafeInv, CoreInv
  <2>2. CASE Live(w)
    BY <2>2 DEF Live
  <2>3. CASE Pledged(w)
    BY <2>3 DEF Pledged, Back, Authentic
  <2>4. CASE Switching(w)
    BY <2>4 DEF Switching, Done
  <2>5. QED
    <3>1. journal.state \in Terminal \cup Unpublished \cup {"committing"}
      BY <2>1, TypeParts DEF TxnType
    <3>2. QED
      BY <2>1, <2>2, <2>3, <2>4, <3>1 DEF WikiInv
<1>2. QED
  BY <1>1, SafeHolds, PTL

\* A selection that is not being committed can be undone, whatever failed or
\* died: the previous candidate of every entry is there with its inputs, and the
\* link to it is live, in the backup, or can be made again.
THEOREM RollbackPossibleHolds == Spec => []RollbackPossible
<1>1. SafeInv => RollbackPossible
  <2> SUFFICES ASSUME SafeInv, journal.state \in Unpublished, NEW w \in Selected
               PROVE  /\ Authentic(w, E(w).prev) /\ E(w).snap \in inputs[w]
                      /\ BackupRecoverable(w)
    BY DEF RollbackPossible
  <2>1. w \in Wikis /\ E(w).prev \in Cands
    BY EntryType DEF SafeInv
  <2>2. Pledged(w)
    BY <2>1 DEF SafeInv, CoreInv, WikiInv
  <2>3. Authentic(w, E(w).prev) /\ E(w).snap \in inputs[w]
    BY <2>2 DEF Pledged, Authentic
  <2>4. BackupRecoverable(w)
    <3>1. CASE Back(w)
      BY <2>2, <3>1 DEF Pledged, Back, BackupRecoverable, SelectedLive, PreviousLive
    <3>2. CASE backup[w] = E(w).prev
      BY <2>1, <3>2, Constants DEF BackupRecoverable
    <3>3. QED
      BY <2>2, <3>1, <3>2 DEF Pledged
  <2>5. QED
    BY <2>3, <2>4
<1>2. QED
  BY <1>1, SafeHolds, PTL

-----------------------------------------------------------------------------
(* What is served.                                                         *)

\* Steps that leave site, receipt and journal alone, and lead neither to the
\* receipt of the site nor to the commit.
Aside == UNCHANGED <<siteVars, journal>> /\ pc' \notin {"sitereceipt", "commit"}

\* Steps beside the publisher.
Beside == UNCHANGED <<siteVars, journal, pc, mode, run, cand, gate, active>>

LEMMA PublisherAside ==
    ASSUME \/ Begin \/ Preflight \/ Repair \/ MergeBegin \/ MergeEnd \/ RecordCandidate
           \/ CommitRefused \/ UndoEnd \/ RestoreCandidate \/ RestoreGate \/ RestoreRoot
           \/ ActivationFails \/ PrepareFails \/ BuildFails \/ Crash
    PROVE  Aside
<1>1. CASE Begin \/ Preflight \/ Repair \/ MergeBegin \/ MergeEnd \/ RecordCandidate \/ CommitRefused
  BY <1>1 DEF Begin, Preflight, Repair, MergeBegin, MergeEnd, RecordCandidate, CommitRefused,
              Aside, txnVars, Goto
<1>2. CASE UndoEnd
  <2>1. pc' = CASE mode = "activation" -> "rolledback"
                [] mode # "activation" /\ saved # None -> "restore"
                [] mode # "activation" /\ saved = None -> "restored"
    BY <1>2 DEF UndoEnd, Goto
  <2>2. pc' \in {"rolledback", "restore", "restored"}
    BY <2>1
  <2>3. QED
    BY <1>2, <2>2 DEF UndoEnd, Aside, txnVars
<1>3. CASE RestoreCandidate \/ RestoreGate \/ RestoreRoot
  BY <1>3 DEF RestoreCandidate, RestoreGate, RestoreRoot, Aside, txnVars, Goto
<1>4. CASE ActivationFails \/ PrepareFails \/ BuildFails \/ Crash
  BY <1>4 DEF ActivationFails, PrepareFails, BuildFails, Crash, StartUndo, Aside, txnVars, Goto
<1>5. QED
  BY <1>1, <1>2, <1>3, <1>4

LEMMA ValidateAside ==
    ASSUME SafeInv, Validate \/ AfterRestore
    PROVE  Aside
<1>1. PublishInv
  BY DEF SafeInv, CoreInv, PcInv
<1>2. UNCHANGED <<siteVars, journal>>
  BY DEF Validate, AfterRestore, txnVars
<1>3. CASE Validate
  <2>1. mode \in {"publish", "recover", "wrapper"}
    BY <1>1, <1>3 DEF PublishInv, Validate, Merging
  <2>2. pc' = CASE mode = "publish" -> "build"
                [] mode = "recover" -> "rolledback"
                [] mode = "wrapper" -> "idle"
    BY <1>3 DEF Validate, Goto
  <2>3. pc' \in {"build", "rolledback", "idle"}
    BY <2>1, <2>2
  <2>4. QED
    BY <1>2, <2>3 DEF Aside
<1>4. CASE AfterRestore
  <2>1. pc' = CASE mode = "recover" -> IF Intact THEN "rolledback" ELSE "merge"
                [] mode # "recover" -> IF saved = None \/ Verified THEN "rolledback" ELSE "idle"
    BY <1>4 DEF AfterRestore, Goto
  <2>2. pc' \in {"rolledback", "merge", "idle"}
    BY <2>1
  <2>3. QED
    BY <1>2, <2>2 DEF Aside
<1>5. QED
  BY <1>3, <1>4

LEMMA WikiAside ==
    ASSUME NEW w \in Wikis, Activation(w) \/ Committing(w) \/ Undoing(w)
    PROVE  Aside
<1>1. CASE Activation(w)
  BY <1>1 DEF Activation, MoveActiveToBackup, LinkSelected, PointSelected, Aside, txnVars, Goto
<1>2. CASE PublishSelected(w) \/ SupersedePrevious(w)
  BY <1>2 DEF PublishSelected, SupersedePrevious, Aside, txnVars, Goto
<1>3. CASE RetireCandidate(w)
  <2>1. UNCHANGED <<txnVars, siteVars, pc>> /\ pc = "retire"
    BY <1>3 DEF RetireCandidate
  <2>2. QED
    BY <2>1 DEF Aside, txnVars
<1>4. CASE RetireInputs(w) \/ RemoveCommittedBackup(w) \/ IndexSelected(w)
  BY <1>4 DEF RetireInputs, RemoveCommittedBackup, IndexSelected, Aside, txnVars, Goto
<1>5. CASE UndoSkip(w) \/ UndoUnlink(w) \/ UndoRelink(w) \/ UndoPoint(w) \/ UndoIndex(w)
  BY <1>5 DEF UndoSkip, UndoUnlink, UndoRelink, UndoPoint, UndoIndex, Aside, txnVars, Goto
<1>6. QED
  BY <1>1, <1>2, <1>3, <1>4, <1>5 DEF Committing, Undoing

LEMMA StepBeside ==
    ASSUME \/ UNCHANGED vars
           \/ Damage
           \/ \E w \in Wikis : Prepare(w) \/ PrepCrash(w) \/ RebuildIndex(w)
    PROVE  Beside /\ UNCHANGED <<backup, snap, todo>>
<1>1. CASE UNCHANGED vars
  BY <1>1 DEF vars, linkVars, txnVars, pubVars, ctlVars, Beside
<1>2. CASE Damage
  BY <1>2 DEF Damage, linkVars, txnVars, ctlVars, Beside
<1>3. ASSUME NEW w \in Wikis, Prepare(w) \/ PrepCrash(w) \/ RebuildIndex(w)
      PROVE  UNCHANGED <<linkVars, txnVars, pubVars, siteVars, ctlVars>>
  <2>1. CASE PrepBegin(w) \/ PrepValidate(w) \/ PrepReceipt(w)
    BY <2>1 DEF PrepBegin, PrepValidate, PrepReceipt
  <2>2. CASE PrepRecord(w) \/ PrepIndex(w) \/ PrepFails(w)
    BY <2>2 DEF PrepRecord, PrepIndex, PrepFails
  <2>3. CASE PrepCrash(w) \/ RebuildIndex(w)
    BY <2>3 DEF PrepCrash, RebuildIndex
  <2>4. QED
    BY <1>3, <2>1, <2>2, <2>3 DEF Prepare
<1>4. CASE \E w \in Wikis : Prepare(w) \/ PrepCrash(w) \/ RebuildIndex(w)
  <2>1. UNCHANGED <<linkVars, txnVars, pubVars, siteVars, ctlVars>>
    BY <1>3, <1>4
  <2>2. QED
    BY <2>1 DEF linkVars, txnVars, pubVars, ctlVars, Beside
<1>5. QED
  BY <1>1, <1>2, <1>4

\* The other steps: those of the site and of the journal, and the recovery.
LEMMA StepsByEffect ==
    ASSUME SafeInv, [Next]_vars
    PROVE  \/ Aside
           \/ Beside /\ UNCHANGED <<backup, snap, todo>>
           \/ Recover \/ SwitchSite \/ RecordSite
           \/ NoOp \/ Activate \/ Select \/ CommitBegin \/ CommitEnd \/ RolledBack
<1>1. CASE Publisher
  <2>1. CASE \/ Begin \/ Preflight \/ Repair \/ MergeBegin \/ MergeEnd \/ RecordCandidate
             \/ CommitRefused \/ UndoEnd \/ RestoreCandidate \/ RestoreGate \/ RestoreRoot
    BY <2>1, PublisherAside
  <2>2. CASE Validate \/ AfterRestore
    BY <2>2, ValidateAside
  <2>3. CASE \E w \in Wikis : RebuildIndex(w) \/ Activation(w) \/ Committing(w) \/ Undoing(w)
    BY <2>3, WikiAside, StepBeside
  <2>4. QED
    BY <1>1, <2>1, <2>2, <2>3 DEF Publisher
<1>2. CASE Failures \/ Crash
  BY <1>2, PublisherAside DEF Failures
<1>3. CASE UNCHANGED vars \/ Damage \/ \E w \in Wikis : Prepare(w) \/ PrepCrash(w)
  BY <1>3, StepBeside
<1>4. QED
  BY <1>1, <1>2, <1>3 DEF Next

LEMMA ServedFrame ==
    /\ ServedInv /\ (Aside \/ Beside) => ServedInv'
    /\ /\ ServedInv /\ UNCHANGED siteVars /\ pc' \notin {"sitereceipt", "commit"}
       /\ journal'.state \notin {"committing", "committed"}
       => ServedInv'
<1>1. UNCHANGED siteVars => UNCHANGED <<site, receipt, ReceiptInv>>
  BY DEF siteVars, ReceiptInv
<1>2. UNCHANGED siteVars /\ UNCHANGED journal => UNCHANGED CommittedIsServed
  BY <1>1 DEF CommittedIsServed, Selected, E
<1>3. ServedInv /\ Aside => ServedInv'
  BY <1>1, <1>2 DEF ServedInv, Aside
<1>4. ServedInv /\ Beside => ServedInv'
  BY <1>1, <1>2 DEF ServedInv, Beside
<1>5. ASSUME ServedInv, UNCHANGED siteVars, pc' \notin {"sitereceipt", "commit"},
             journal'.state \notin {"committing", "committed"}
      PROVE  ServedInv'
  <2>1. CommittedIsServed'
    BY <1>5 DEF CommittedIsServed
  <2>2. QED
    BY <1>1, <1>5, <2>1 DEF ServedInv
<1>6. QED
  BY <1>3, <1>4, <1>5

\* A recovery that commits does so for the publication that the receipt names.
LEMMA AuditCommits ==
    ASSUME ReceiptInv, Audit = "commit"
    PROVE  site.vec = active /\ receipt.site = site /\ site = gate /\ cand = gate
           /\ gate.run = journal.run /\ gate.vec = active
<1>1. Verified /\ SiteMatches /\ gate.run = journal.run
  BY DEF Audit
<1>2. QED
  BY <1>1 DEF Verified, SiteMatches, SiteReceiptValid, ReceiptInv

LEMMA ServedStep ==
    ASSUME SafeInv, SafeInv', ServedInv, [Next]_vars
    PROVE  ServedInv'
<1>1. CASE Recover
  <2>1. UNCHANGED <<siteVars, pubVars, linkVars, journal>>
    BY <1>1 DEF Recover, txnVars
  <2>2. CASE Audit = "commit" /\ pc' = "commit"
    <3>1. site.vec = active /\ receipt.site = site
      BY <2>2, AuditCommits DEF ServedInv
    <3>2. CommittedIsServed'
      BY <2>1 DEF ServedInv, CommittedIsServed, Selected, E, siteVars
    <3>3. QED
      BY <2>1, <2>2, <3>1, <3>2 DEF ServedInv, ReceiptInv, siteVars, linkVars
  <2>3. CASE pc' \in {"preflight", "undo", "idle"}
    BY <2>1, <2>3, ServedFrame DEF Aside
  <2>4. QED
    BY <1>1, <2>2, <2>3 DEF Recover, Goto
<1>2. CASE SwitchSite
  <2>1. pc = "build" /\ Verified /\ pc' = "sitereceipt" /\ site' = gate
        /\ UNCHANGED <<linkVars, txnVars, pubVars, receipt>>
    BY <1>2 DEF SwitchSite, Goto
  <2>2. journal.state \notin {"committing", "committed"}
    BY <2>1 DEF SafeInv, CoreInv, PcInv, PublishInv, Building
  <2>3. CommittedIsServed'
    BY <2>1, <2>2 DEF CommittedIsServed, txnVars
  <2>4. QED
    BY <2>1, <2>3 DEF ServedInv, ReceiptInv, Verified, linkVars, pubVars
<1>3. CASE RecordSite
  <2>1. pc = "sitereceipt" /\ receipt' = [gate |-> gate, cand |-> cand, site |-> site]
        /\ pc' \in {"commit", "recover"} /\ UNCHANGED <<linkVars, journal, pubVars, site>>
    BY <1>3 DEF RecordSite, Goto
  <2>2. site = gate /\ cand = gate /\ gate.vec = active
    BY <2>1 DEF ServedInv
  <2>3. CommittedIsServed'
    BY <2>1 DEF ServedInv, CommittedIsServed, Selected, E
  <2>4. QED
    BY <2>1, <2>2, <2>3 DEF ServedInv, ReceiptInv, linkVars
<1>4. CASE NoOp \/ Activate \/ Select \/ RolledBack
  <2>1. UNCHANGED siteVars
    BY <1>4 DEF NoOp, Activate, Select, RolledBack
  <2>2. journal'.state \in {"no_op", "activating", "selected", "rolled_back"}
    <3>1. \A s : journal' = [journal EXCEPT !.state = s] => journal'.state = s
      BY TypeParts DEF SafeInv, TxnType
    <3>2. CASE NoOp \/ Activate
      BY <3>2 DEF NoOp, Activate, WriteJournal
    <3>3. CASE Select \/ RolledBack
      BY <3>1, <3>3 DEF Select, RolledBack, WriteJournal
    <3>4. QED
      BY <1>4, <3>2, <3>3
  <2>3. pc' \notin {"sitereceipt", "commit"}
    <3>1. CASE NoOp \/ Activate \/ Select
      BY <3>1 DEF NoOp, Activate, Select, Goto
    <3>2. CASE RolledBack
      <4>1. journal'.state = "rolled_back"
        BY <3>2, TypeParts DEF SafeInv, TxnType, RolledBack, WriteJournal
      <4>2. pc' # "commit"
        BY <4>1 DEF SafeInv, CoreInv, PcInv, PublishInv, Terminal
      <4>3. pc' = CASE mode = "recover" -> IF gate.run = run THEN "build" ELSE "preflight"
                    [] mode = "wrapper" -> IF saved = None THEN "merge" ELSE "idle"
                    [] mode \in {"activation", "prepare"} -> "idle"
        BY <3>2 DEF RolledBack, Goto
      <4>4. mode \in {"recover", "wrapper", "activation", "prepare"}
        BY <3>2, TypeParts DEF SafeInv, CoreInv, PcInv, UndoInv, InRestore, RolledBack, CtlType
      <4>5. QED
        BY <4>3, <4>4
    <3>3. QED
      BY <1>4, <3>1, <3>2
  <2>4. QED
    BY <2>1, <2>2, <2>3, ServedFrame
<1>5. CASE CommitBegin
  <2>1. pc = "commit" /\ pc' = "publish" /\ UNCHANGED <<siteVars, linkVars>>
        /\ (journal' = journal \/ journal' = [journal EXCEPT !.state = "committing"])
    BY <1>5 DEF CommitBegin, Goto, WriteJournal
  <2>2. AllDone /\ site.vec = active
    BY <2>1 DEF SafeInv, CoreInv, PcInv, PublishInv, ServedInv
  <2>3. journal'.entries = journal.entries
    BY <2>1, TypeParts DEF SafeInv, TxnType
  <2>4. \A w \in Selected : site.vec[w] = E(w).cand
    BY <2>2 DEF AllDone, Done
  <2>5. CommittedIsServed'
    BY <2>1, <2>3, <2>4 DEF CommittedIsServed, Selected, E, siteVars
  <2>6. QED
    BY <2>1, <2>5 DEF ServedInv, ReceiptInv, siteVars
<1>6. CASE CommitEnd
  <2>1. pc = "publish" /\ pc' \in {"preflight", "idle"} /\ UNCHANGED siteVars
        /\ journal' = [journal EXCEPT !.state = "committed"]
    BY <1>6 DEF CommitEnd, Goto, WriteJournal
  <2>2. journal.state = "committing"
    BY <2>1 DEF SafeInv, CoreInv, PcInv, CommitInv, InCommit
  <2>3. journal'.entries = journal.entries
    BY <2>1, TypeParts DEF SafeInv, TxnType
  <2>4. CommittedIsServed'
    BY <2>1, <2>2, <2>3 DEF ServedInv, CommittedIsServed, Selected, E, siteVars
  <2>5. QED
    BY <2>1, <2>4 DEF ServedInv, ReceiptInv, siteVars
<1>7. QED
  BY <1>1, <1>2, <1>3, <1>4, <1>5, <1>6, StepsByEffect, ServedFrame

LEMMA ServedHolds == Spec => [](SafeInv /\ ServedInv)
<1>1. Init => ServedInv
  BY DEF Init, ServedInv, ReceiptInv, CommittedIsServed, Selected, FirstPublication
<1>2. SafeInv /\ SafeInv' /\ ServedInv /\ [Next]_vars => ServedInv'
  BY ServedStep
<1>3. QED
  BY <1>1, <1>2, SafeHolds, PTL DEF Spec

\* A publication that is being committed is the one that is served, whatever
\* failed, died or was damaged: the commit follows the receipt of its own site,
\* or an audit that has compared the receipt with the publication.
THEOREM CommittedIsServedHolds == Spec => []CommittedIsServed
<1>1. ServedInv => CommittedIsServed
  BY DEF ServedInv
<1>2. QED
  BY <1>1, ServedHolds, PTL

-----------------------------------------------------------------------------
(* Between transactions.                                                   *)

\* A step after which no publication is under way, and a rollback.
LEMMA RunQuiet ==
    mode' # "publish" \/ pc' \notin Activating \cup Merging \cup {"repair"} \cup Building => RunInv'
BY DEF RunInv

LEMMA RunStep ==
    ASSUME SafeInv, RunInv, [Next]_vars
    PROVE  RunInv'
<1>1. CASE Beside
  BY <1>1 DEF RunInv, Beside
<1>2. CASE Begin \/ Recover \/ Preflight \/ NoOp \/ CommitBegin \/ CommitEnd \/ CommitRefused \/ RecordSite
  <2>1. pc' \notin Activating \cup Merging \cup {"repair"} \cup Building
    BY <1>2 DEF Begin, Recover, Preflight, NoOp, CommitBegin, CommitEnd, CommitRefused, RecordSite,
                Goto, Activating, Merging, Building
  <2>2. QED
    BY <2>1, RunQuiet
<1>3. CASE Activate
  <2>1. UNCHANGED run /\ pc' = "activate" /\ journal'.run = run
    BY <1>3 DEF Activate, WriteJournal, Goto
  <2>2. QED
    BY <2>1 DEF RunInv, Building
<1>4. CASE Select
  <2>1. UNCHANGED <<run, mode>> /\ pc = "activate" /\ pc' \in {"repair", "merge"}
        /\ journal' = [journal EXCEPT !.state = "selected"]
    BY <1>4 DEF Select, WriteJournal, Goto
  <2>2. journal'.run = journal.run
    BY <2>1, TypeParts DEF SafeInv, TxnType
  <2>3. QED
    BY <2>1, <2>2 DEF RunInv, Building, Activating
<1>5. CASE Repair \/ MergeBegin \/ MergeEnd \/ RecordCandidate
  <2>1. UNCHANGED <<run, mode, journal>> /\ pc \in Merging \cup {"repair"}
        /\ pc' \in Merging \cup {"idle"}
    BY <1>5 DEF Repair, MergeBegin, MergeEnd, RecordCandidate, txnVars, Goto, Merging
  <2>2. QED
    BY <2>1 DEF RunInv, Merging, Building
<1>6. CASE Validate
  <2>1. UNCHANGED <<run, mode, journal>> /\ pc = "validate" /\ gate' = cand /\ cand.run = run
    BY <1>6 DEF Validate, txnVars
  <2>2. mode = "publish" => pc' = "build"
    BY <1>6 DEF Validate, Goto
  <2>3. QED
    BY <2>1, <2>2 DEF RunInv, Merging, Activating
<1>7. CASE SwitchSite
  <2>1. UNCHANGED <<mode, journal, gate>> /\ pc = "build" /\ pc' = "sitereceipt"
    BY <1>7 DEF SwitchSite, txnVars, pubVars, Goto
  <2>2. QED
    BY <2>1 DEF RunInv, Merging, Activating, Building
<1>8. CASE \/ UndoEnd \/ RestoreCandidate \/ RestoreGate \/ RestoreRoot \/ AfterRestore
           \/ \E w \in Wikis : Undoing(w)
  <2>1. UNCHANGED mode /\ pc \in InUndo \cup InRestore
    <3>1. CASE UndoEnd \/ RestoreCandidate \/ RestoreGate \/ RestoreRoot \/ AfterRestore
      BY <3>1 DEF UndoEnd, RestoreCandidate, RestoreGate, RestoreRoot, AfterRestore,
                  InUndo, InRestore, Restoring
    <3>2. ASSUME NEW w \in Wikis, Undoing(w) PROVE UNCHANGED mode /\ pc \in InUndo
      BY <3>2 DEF Undoing, UndoSkip, UndoUnlink, UndoRelink, UndoPoint, UndoIndex, InUndo
    <3>3. QED
      BY <1>8, <3>1, <3>2
  <2>2. mode # "publish"
    BY <2>1 DEF SafeInv, CoreInv, PcInv, UndoInv
  <2>3. QED
    BY <2>1, <2>2, RunQuiet
<1>9. CASE RolledBack
  <2>1. mode # "publish"
    BY <1>9 DEF RolledBack, SafeInv, CoreInv, PcInv, UndoInv, InRestore
  <2>2. CASE mode' # "publish"
    BY <2>2, RunQuiet
  <2>3. CASE mode = "recover" /\ gate.run # run
    <3>1. pc' = "preflight"
      BY <1>9, <2>3 DEF RolledBack, Goto
    <3>2. QED
      BY <3>1, RunQuiet DEF Activating, Merging, Building
  <2>4. QED
    BY <1>9, <2>1, <2>2, <2>3 DEF RolledBack
<1>10. CASE \E w \in Wikis : Activation(w)
  <2>1. PICK w \in Wikis : Activation(w)
    BY <1>10
  <2>2. UNCHANGED <<run, mode, journal>> /\ pc \in Activating /\ pc' \in Activating
    BY <2>1 DEF Activation, MoveActiveToBackup, LinkSelected, PointSelected, txnVars, Goto, Activating
  <2>3. QED
    BY <2>2 DEF RunInv, Activating, Building
<1>11. CASE \E w \in Wikis : Committing(w)
  <2>1. PICK w \in Wikis : Committing(w)
    BY <1>11
  <2>2. pc' \in InCommit
    <3>1. CASE RetireCandidate(w)
      BY <3>1 DEF RetireCandidate, InCommit
    <3>2. CASE ~RetireCandidate(w)
      BY <2>1, <3>2 DEF Committing, PublishSelected, SupersedePrevious, RetireInputs,
                        RemoveCommittedBackup, IndexSelected, Goto, InCommit
    <3>3. QED
      BY <3>1, <3>2
  <2>3. QED
    BY <2>2, RunQuiet DEF InCommit, Activating, Merging, Building
<1>12. CASE Failures \/ Crash
  <2>1. pc' = "idle" \/ pc' = "undo"
    BY <1>12 DEF Failures, Crash, ActivationFails, PrepareFails, BuildFails, StartUndo, Goto
  <2>2. QED
    BY <2>1, RunQuiet DEF Activating, Merging, Building
<1>13. CASE UNCHANGED vars \/ Damage \/ \E w \in Wikis : Prepare(w) \/ PrepCrash(w) \/ RebuildIndex(w)
  BY <1>1, <1>13, StepBeside
<1>14. QED
  BY <1>2, <1>3, <1>4, <1>5, <1>6, <1>7, <1>8, <1>9, <1>10, <1>11, <1>12, <1>13 DEF Next, Publisher

\* Data, pointers and site show the same candidates, but for the switch of a
\* selection.
SiteInv == Old \/ Switched

LEMMA OldFrame ==
    ASSUME Old, UNCHANGED siteVars, \A w \in Wikis : Shown(w)' = Shown(w)
    PROVE  Old'
BY DEF Old, siteVars

LEMMA ShownFrame == UNCHANGED <<journal, active>> => \A w \in Wikis : Shown(w)' = Shown(w)
BY DEF Shown, Selected, E

\* While links move, the site shows the candidates the links come from.
LEMMA ShownMoving ==
    ASSUME SafeInv, NEW w \in Wikis, Activation(w) \/ Undoing(w)
    PROVE  \A v \in Wikis : Shown(v)' = Shown(v)
<1>1. UNCHANGED <<journal, active>> \/ (First(w) /\ pc \in Activating) \/ (Last(w) /\ pc \in InUndo)
  BY DEF Activation, MoveActiveToBackup, LinkSelected, PointSelected, Activating,
         Undoing, UndoSkip, UndoUnlink, UndoRelink, UndoPoint, UndoIndex, InUndo, linkVars, txnVars
<1>2. CASE UNCHANGED <<journal, active>>
  BY <1>2, ShownFrame
<1>3. CASE (First(w) /\ pc \in Activating) \/ (Last(w) /\ pc \in InUndo)
  <2>1. w \in Selected /\ journal.state \in Unpublished
    BY <1>3, ActivatedWiki, UndoneWiki
  <2>2. UNCHANGED journal
    BY DEF Activation, MoveActiveToBackup, LinkSelected, PointSelected, txnVars,
           Undoing, UndoSkip, UndoUnlink, UndoRelink, UndoPoint, UndoIndex
  <2>3. \A v \in Wikis \ {w} : active'[v] = active[v]
    <3>1. active \in [Wikis -> Cands \cup {None}]
      BY TypeParts DEF SafeInv, LinkType
    <3>2. UNCHANGED active \/ \E c : active' = [active EXCEPT ![w] = c]
      <4>1. CASE MoveActiveToBackup(w) \/ LinkSelected(w) \/ PointSelected(w)
        BY <4>1 DEF MoveActiveToBackup, LinkSelected, PointSelected
      <4>2. CASE UndoSkip(w) \/ UndoIndex(w)
        BY <4>2 DEF UndoSkip, UndoIndex, linkVars
      <4>3. CASE UndoUnlink(w) \/ UndoPoint(w)
        BY <4>3 DEF UndoUnlink, UndoPoint
      <4>4. CASE UndoRelink(w)
        BY <4>4 DEF UndoRelink
      <4>5. QED
        BY <4>1, <4>2, <4>3, <4>4 DEF Activation, Undoing
    <3>3. QED
      BY <3>1, <3>2
  <2>4. QED
    BY <2>1, <2>2, <2>3 DEF Shown, Selected, E
<1>4. QED
  BY <1>1, <1>2, <1>3

\* A switched site is never rolled back: its receipt either is missing, and the
\* recovery stops, or is the one of the transaction.
LEMMA SwitchedStays ==
    ASSUME ServedInv, Switched
    PROVE  Audit \notin {"clean", "rollback"}
<1>1. SiteReceiptValid => SiteMatches
  BY DEF ServedInv, ReceiptInv, Switched, SiteReceiptValid, SiteMatches
<1>2. gate.run = journal.run /\ journal.state = "selected"
  BY DEF Switched
<1>3. QED
  BY <1>1, <1>2 DEF Audit, Terminal

\* The steps that leave the site, its receipt and the journal alone.
AsideStep ==
    \/ Begin \/ Preflight \/ Repair \/ MergeBegin \/ MergeEnd \/ RecordCandidate \/ Validate
    \/ CommitRefused \/ UndoEnd \/ RestoreCandidate \/ RestoreGate \/ RestoreRoot
    \/ AfterRestore \/ Failures \/ Crash
    \/ \E w \in Wikis : Activation(w) \/ Committing(w) \/ Undoing(w)

LEMMA AsideUnchanged ==
    ASSUME SafeInv, AsideStep
    PROVE  Aside /\ UNCHANGED <<siteVars, journal>>
BY PublisherAside, ValidateAside, WikiAside DEF AsideStep, Aside, Failures

LEMMA AsideShown ==
    ASSUME SafeInv, AsideStep
    PROVE  \A w \in Wikis : Shown(w)' = Shown(w)
<1>1. UNCHANGED journal
  BY AsideUnchanged
<1>2. CASE \E w \in Wikis : Activation(w) \/ Undoing(w)
  BY <1>2, ShownMoving
<1>3. CASE \E w \in Wikis : Committing(w)
  <2>1. PICK w \in Wikis : Committing(w)
    BY <1>3
  <2>2. UNCHANGED active
    <3>1. CASE RetireCandidate(w) \/ PublishSelected(w) \/ SupersedePrevious(w)
      BY <3>1 DEF RetireCandidate, PublishSelected, SupersedePrevious, linkVars
    <3>2. CASE RetireInputs(w) \/ RemoveCommittedBackup(w) \/ IndexSelected(w)
      BY <3>2 DEF RetireInputs, RemoveCommittedBackup, IndexSelected, linkVars
    <3>3. QED
      BY <2>1, <3>1, <3>2 DEF Committing
  <2>3. QED
    BY <1>1, <2>2, ShownFrame
<1>4. CASE ~\E w \in Wikis : Activation(w) \/ Committing(w) \/ Undoing(w)
  <2>1. UNCHANGED linkVars
    BY <1>4 DEF AsideStep, Begin, Preflight, Repair, MergeBegin, MergeEnd, RecordCandidate, Validate,
                CommitRefused, UndoEnd, RestoreCandidate, RestoreGate, RestoreRoot, AfterRestore,
                Failures, ActivationFails, PrepareFails, BuildFails, Crash
  <2>2. QED
    BY <1>1, <2>1, ShownFrame DEF linkVars
<1>5. QED
  BY <1>2, <1>3, <1>4

\* What such a step can do after the switch of the site.
LEMMA AsideSwitched ==
    ASSUME AsideStep, pc \in {"sitereceipt", "commit", "idle", "recover"}
    PROVE  \/ UNCHANGED pubVars /\ pc' \in {"idle", "recover"}
           \/ pc = "sitereceipt" /\ "receipt" \in FaultKinds
<1>1. CASE Begin \/ CommitRefused \/ Crash
  BY <1>1 DEF Begin, CommitRefused, Crash, Goto
<1>2. CASE \/ Preflight \/ Repair \/ MergeBegin \/ MergeEnd \/ RecordCandidate \/ Validate
           \/ UndoEnd \/ RestoreCandidate \/ RestoreGate \/ RestoreRoot \/ AfterRestore
  BY <1>2 DEF Preflight, Repair, MergeBegin, MergeEnd, RecordCandidate, Validate,
              UndoEnd, RestoreCandidate, RestoreGate, RestoreRoot, AfterRestore
<1>3. CASE Failures
  BY <1>3 DEF Failures, ActivationFails, PrepareFails, BuildFails, Failing, Fault
<1>4. CASE \E w \in Wikis : Activation(w) \/ Committing(w) \/ Undoing(w)
  BY <1>4 DEF Activation, MoveActiveToBackup, LinkSelected, PointSelected, Committing,
         PublishSelected, SupersedePrevious, RetireCandidate, RetireInputs,
         RemoveCommittedBackup, IndexSelected,
         Undoing, UndoSkip, UndoUnlink, UndoRelink, UndoPoint, UndoIndex
<1>5. QED
  BY <1>1, <1>2, <1>3, <1>4 DEF AsideStep

LEMMA AsideSite ==
    ASSUME SafeInv, SiteInv, "receipt" \notin FaultKinds, AsideStep
    PROVE  SiteInv'
<1>1. UNCHANGED <<siteVars, journal>>
  BY AsideUnchanged
<1>2. Old => Old'
  BY <1>1, AsideShown, OldFrame
<1>3. Switched => Switched'
  BY <1>1, AsideSwitched DEF Switched, siteVars, pubVars
<1>4. QED
  BY <1>2, <1>3 DEF SiteInv

\* The steps that replace the journal show what they showed, except the first
\* step of a commit, which shows what is linked.
JournalStep == NoOp \/ Activate \/ Select \/ CommitEnd \/ RolledBack

LEMMA JournalShown ==
    ASSUME SafeInv, SafeInv', JournalStep
    PROVE  \A w \in Wikis : Shown(w)' = Shown(w)
<1>1. UNCHANGED active
  BY DEF JournalStep, NoOp, Activate, Select, CommitEnd, RolledBack, linkVars
<1>2. \A s : journal' = [journal EXCEPT !.state = s] =>
                journal'.state = s /\ UNCHANGED <<Selected>> /\ \A w : UNCHANGED E(w)
  BY TypeParts DEF SafeInv, TxnType, Selected, E
<1>3. CASE NoOp
  <2>1. journal.state \notin Unpublished /\ journal'.state \notin Unpublished
    BY <1>3 DEF NoOp, WriteJournal, SafeInv, CoreInv, PcInv, PublishInv, Terminal, Unpublished
  <2>2. QED
    BY <1>1, <2>1 DEF Shown
<1>4. CASE Activate
  <2>1. journal.state \notin Unpublished
    BY <1>4 DEF Activate, SafeInv, CoreInv, PcInv, PublishInv, Terminal, Unpublished
  <2>2. \A w \in Wikis : w \in Selected' => Back(w)'
    <3>1. pc' = "activate" /\ todo' \subseteq Wikis
          /\ journal'.entries = [w \in Wikis |-> IF w \in todo'
                THEN [cand |-> index[w].newest, prev |-> active[w], snap |-> snap[w]] ELSE None]
      BY <1>4 DEF Activate, WriteJournal, Goto
    <3>2. Selected' \subseteq todo'
      BY <3>1 DEF Selected
    <3>3. \A w \in todo' : Back(w)'
      BY <3>1 DEF SafeInv, CoreInv, PcInv, ActivateInv, Activating
    <3>4. QED
      BY <3>2, <3>3
  <2>3. \A w \in Wikis : Shown(w)' = active[w]
    BY <1>1, <2>2 DEF Shown, Back
  <2>4. QED
    BY <2>1, <2>3 DEF Shown
<1>5. CASE Select
  <2>1. journal.state \in Unpublished /\ journal' = [journal EXCEPT !.state = "selected"]
    BY <1>5 DEF Select, WriteJournal, SafeInv, CoreInv, PcInv, ActivateInv, Activating, Unpublished
  <2>2. QED
    BY <1>1, <1>2, <2>1 DEF Shown, Unpublished
<1>6. CASE CommitEnd
  <2>1. journal.state = "committing" /\ journal' = [journal EXCEPT !.state = "committed"]
    BY <1>6 DEF CommitEnd, WriteJournal, SafeInv, CoreInv, PcInv, CommitInv, InCommit
  <2>2. QED
    BY <1>1, <1>2, <2>1 DEF Shown, Unpublished
<1>7. CASE RolledBack
  <2>1. AllUndone /\ journal' = [journal EXCEPT !.state = "rolled_back"]
    BY <1>7 DEF RolledBack, WriteJournal, SafeInv, CoreInv, PcInv, UndoInv, InRestore
  <2>2. \A w \in Wikis : Shown(w) = active[w]
    BY <2>1 DEF Shown, AllUndone, Undone, Back
  <2>3. \A w \in Wikis : Shown(w)' = active[w]
    BY <1>1, <1>2, <2>1 DEF Shown, Unpublished
  <2>4. QED
    BY <2>2, <2>3
<1>8. QED
  BY <1>3, <1>4, <1>5, <1>6, <1>7 DEF JournalStep

LEMMA CommitShown ==
    ASSUME SafeInv, ServedInv, CommitBegin
    PROVE  UNCHANGED siteVars /\ Old'
<1>1. site.vec = active /\ receipt.site = site /\ UNCHANGED <<siteVars, linkVars>>
  BY DEF CommitBegin, ServedInv
<1>2. journal'.state = "committing"
  <2>1. \/ UNCHANGED journal /\ journal.state = "committing"
        \/ journal' = [journal EXCEPT !.state = "committing"]
    BY DEF CommitBegin, CommitAllowed, WriteJournal
  <2>2. QED
    BY <2>1, TypeParts DEF SafeInv, TxnType
<1>3. \A w \in Wikis : Shown(w)' = active[w]
  BY <1>1, <1>2 DEF Shown, Unpublished, linkVars
<1>4. QED
  BY <1>1, <1>3 DEF Old, siteVars

LEMMA JournalSite ==
    ASSUME SafeInv, SafeInv', SiteInv, JournalStep
    PROVE  SiteInv'
<1>1. UNCHANGED siteVars
  BY DEF JournalStep, NoOp, Activate, Select, CommitEnd, RolledBack
<1>2. Old
  BY DEF SiteInv, Switched, JournalStep, NoOp, Activate, Select, CommitEnd, RolledBack
<1>3. QED
  BY <1>1, <1>2, JournalShown, OldFrame DEF SiteInv

\* Every step is one of these, or beside them.
LEMMA StepsByPart ==
    ASSUME [Next]_vars
    PROVE  \/ Beside /\ UNCHANGED <<backup, snap, todo>>
           \/ AsideStep \/ JournalStep
           \/ Recover \/ SwitchSite \/ RecordSite \/ CommitBegin
<1>1. CASE Publisher
  <2>1. CASE \E w \in Wikis : RebuildIndex(w)
    BY <2>1, StepBeside
  <2>2. CASE ~\E w \in Wikis : RebuildIndex(w)
    BY <1>1, <2>2 DEF Publisher, AsideStep, JournalStep
  <2>3. QED
    BY <2>1, <2>2
<1>2. CASE Failures \/ Crash
  BY <1>2 DEF AsideStep
<1>3. CASE UNCHANGED vars \/ Damage \/ \E w \in Wikis : Prepare(w) \/ PrepCrash(w)
  BY <1>3, StepBeside
<1>4. QED
  BY <1>1, <1>2, <1>3 DEF Next

\* The switch of the site and its receipt.
LEMMA SwitchSiteInv ==
    ASSUME SafeInv, ServedInv, RunInv, SiteInv, SwitchSite \/ RecordSite
    PROVE  SiteInv'
<1>1. pc \in Building /\ UNCHANGED <<linkVars, journal, pubVars, mode>>
  BY DEF SwitchSite, RecordSite, txnVars, Building
<1>2. \/ mode = "publish" /\ journal.state = "selected"
      \/ mode = "recover" /\ journal.state = "rolled_back"
  BY <1>1 DEF SafeInv, CoreInv, PcInv, PublishInv
<1>3. mode = "publish" => gate.run = journal.run
  BY <1>1 DEF RunInv
<1>4. \A w \in Wikis : Shown(w)' = Shown(w)
  BY <1>1, ShownFrame DEF linkVars
<1>5. site' = gate /\ cand = gate /\ gate.vec = active
  <2>1. CASE SwitchSite
    BY <2>1 DEF SwitchSite, Verified
  <2>2. CASE RecordSite
    BY <2>2 DEF RecordSite, ServedInv
  <2>3. QED
    BY <2>1, <2>2
<1>6. CASE mode = "publish" /\ journal.state = "selected"
  <2>1. pc' \in {"sitereceipt", "commit"}
    BY <1>6 DEF SwitchSite, RecordSite, Goto
  <2>2. QED
    BY <1>1, <1>3, <1>5, <1>6, <2>1 DEF SiteInv, Switched, pubVars
<1>7. CASE journal.state = "rolled_back"
  <2>1. Old
    BY <1>7 DEF SiteInv, Switched
  <2>2. \A w \in Wikis : Shown(w) = active[w]
    BY <1>7 DEF Shown, Unpublished
  <2>3. receipt'.site = receipt.site \/ receipt'.site = site
    BY DEF SwitchSite, RecordSite
  <2>4. Old'
    BY <1>4, <1>5, <2>1, <2>2, <2>3 DEF Old
  <2>5. QED
    BY <2>4 DEF SiteInv
<1>8. QED
  BY <1>2, <1>6, <1>7

LEMMA SiteStep ==
    ASSUME SafeInv, SafeInv', ServedInv, RunInv, SiteInv, [Next]_vars, "receipt" \notin FaultKinds
    PROVE  SiteInv'
<1>1. CASE Beside
  <2>1. Old => Old'
    BY <1>1, ShownFrame, OldFrame DEF Beside
  <2>2. Switched => Switched'
    BY <1>1 DEF Switched, Beside, siteVars
  <2>3. QED
    BY <2>1, <2>2 DEF SiteInv
<1>2. CASE Recover
  <2>1. UNCHANGED <<siteVars, linkVars, journal, pubVars>>
    BY <1>2 DEF Recover, txnVars
  <2>2. Old => Old'
    BY <2>1, ShownFrame, OldFrame DEF linkVars
  <2>3. ASSUME Switched PROVE Switched'
    <3>1. pc' \in {"commit", "idle"}
      BY <1>2, <2>3, SwitchedStays DEF Recover, Goto
    <3>2. QED
      BY <2>1, <2>3, <3>1 DEF Switched, siteVars, pubVars
  <2>4. QED
    BY <2>2, <2>3 DEF SiteInv
<1>3. CASE SwitchSite \/ RecordSite
  BY <1>3, SwitchSiteInv
<1>4. CASE JournalStep \/ CommitBegin
  BY <1>4, JournalSite, CommitShown DEF SiteInv
<1>5. CASE AsideStep
  BY <1>5, AsideSite
<1>6. QED
  BY <1>1, <1>2, <1>3, <1>4, <1>5, StepsByPart

LEMMA SiteHolds ==
    ASSUME "receipt" \notin FaultKinds
    PROVE  Spec => [](SafeInv /\ SiteInv)
<1>1. Init => RunInv /\ SiteInv
  <2> SUFFICES ASSUME Init PROVE RunInv /\ SiteInv
    OBVIOUS
  <2>1. RunInv
    BY DEF Init, RunInv, Activating, Merging, Building
  <2>2. \A w \in Wikis : Shown(w) = 1
    BY DEF Init, Shown, Unpublished
  <2>3. Old
    BY <2>2 DEF Init, Old, FirstPublication
  <2>4. QED
    BY <2>1, <2>3 DEF SiteInv
<1>2. SafeInv /\ SafeInv' /\ ServedInv /\ RunInv /\ SiteInv /\ [Next]_vars => RunInv' /\ SiteInv'
  BY RunStep, SiteStep
<1>3. QED
  BY <1>1, <1>2, ServedHolds, PTL DEF Spec

\* Between transactions, data, pointers and site show the same candidates: after
\* any failure, crash or damage, if the site's receipt can be written. A receipt
\* that fails after the switch rolls the data back under the new site.
THEOREM SettledHolds ==
    ASSUME "receipt" \notin FaultKinds
    PROVE  Spec => []Settled
<1>1. SafeInv /\ SiteInv => Settled
  <2> SUFFICES ASSUME SafeInv, SiteInv, journal.state \in Terminal, NEW w \in Wikis
               PROVE  active[w] = site.vec[w] /\ snap[w] = SnapshotOf[site.vec[w]]
    BY DEF Settled
  <2>1. Live(w)
    BY DEF SafeInv, CoreInv, WikiInv
  <2>2. Old
    BY DEF SiteInv, Switched, Terminal
  <2>3. site.vec[w] = active[w]
    BY <2>2 DEF Old, Shown, Terminal, Unpublished
  <2>4. QED
    BY <2>1, <2>3 DEF Live
<1>2. QED
  BY <1>1, SiteHolds, PTL

-----------------------------------------------------------------------------
(* The site never moves back.                                              *)

\* A rollback by the recovery goes on under the same mode.
LEMMA AsideRegressing ==
    ASSUME SafeInv, AsideStep, Regressing'
    PROVE  Regressing
<1>1. mode' = "recover" /\ pc' \in InUndo \cup InRestore \cup Merging \cup Building
  BY DEF Regressing
<1>2. PublishInv /\ ActivateInv
  BY DEF SafeInv, CoreInv, PcInv
<1>3. CASE Begin \/ Preflight \/ CommitRefused \/ Crash
  BY <1>1, <1>3 DEF Begin, Preflight, CommitRefused, Crash, Goto,
                    InUndo, InRestore, Restoring, Merging, Building
<1>4. CASE Repair
  BY <1>1, <1>2, <1>4 DEF Repair, PublishInv
<1>5. CASE MergeBegin \/ MergeEnd \/ RecordCandidate \/ Validate
  BY <1>1, <1>5 DEF MergeBegin, MergeEnd, RecordCandidate, Validate, Regressing, Merging
<1>6. CASE UndoEnd \/ RestoreCandidate \/ RestoreGate \/ RestoreRoot \/ AfterRestore
  BY <1>1, <1>6 DEF UndoEnd, RestoreCandidate, RestoreGate, RestoreRoot, AfterRestore, Regressing,
                    InUndo, InRestore, Restoring
<1>7. CASE Failures
  <2>1. pc' = "idle" \/ mode' # "recover"
    BY <1>7 DEF Failures, ActivationFails, PrepareFails, BuildFails, StartUndo, Goto
  <2>2. QED
    BY <1>1, <2>1 DEF InUndo, InRestore, Restoring, Merging, Building
<1>8. CASE \E w \in Wikis : Activation(w)
  BY <1>1, <1>8 DEF Activation, MoveActiveToBackup, LinkSelected, PointSelected, Goto,
                    InUndo, InRestore, Restoring, Merging, Building
<1>9. CASE \E w \in Wikis : Committing(w)
  <2>1. pc' \in InCommit
    <3>1. PICK w \in Wikis : Committing(w)
      BY <1>9
    <3>2. CASE RetireCandidate(w)
      BY <3>2 DEF RetireCandidate, InCommit
    <3>3. CASE ~RetireCandidate(w)
      BY <3>1, <3>3 DEF Committing, PublishSelected, SupersedePrevious, RetireInputs,
                        RemoveCommittedBackup, IndexSelected, Goto, InCommit
    <3>4. QED
      BY <3>2, <3>3
  <2>2. QED
    BY <1>1, <2>1 DEF InCommit, InUndo, InRestore, Restoring, Merging, Building
<1>10. CASE \E w \in Wikis : Undoing(w)
  <2>1. UNCHANGED mode /\ pc \in InUndo
    BY <1>10 DEF Undoing, UndoSkip, UndoUnlink, UndoRelink, UndoPoint, UndoIndex, InUndo
  <2>2. QED
    BY <1>1, <2>1 DEF Regressing
<1>11. QED
  BY <1>3, <1>4, <1>5, <1>6, <1>7, <1>8, <1>9, <1>10 DEF AsideStep

LEMMA ShownStep ==
    ASSUME SafeInv, SafeInv', ServedInv, RunInv, ShownInv, [Next]_vars
    PROVE  ShownInv'
<1>1. CASE Beside
  <2>1. \A w \in Wikis : Shown(w)' = Shown(w)
    BY <1>1, ShownFrame DEF Beside
  <2>2. ReceiptOld => ReceiptOld'
    BY <1>1, <2>1 DEF ReceiptOld, Beside, siteVars
  <2>3. Recorded => Recorded'
    BY <1>1 DEF Recorded, Beside, siteVars
  <2>4. Regressing' <=> Regressing
    BY <1>1 DEF Regressing, Beside
  <2>5. QED
    BY <1>1, <2>1, <2>2, <2>3, <2>4 DEF ShownInv, Beside, siteVars
<1>2. CASE AsideStep
  <2>1. UNCHANGED <<siteVars, journal>> /\ \A w \in Wikis : Shown(w)' = Shown(w)
    BY <1>2, AsideUnchanged, AsideShown
  <2>2. ReceiptOld => ReceiptOld'
    BY <2>1 DEF ReceiptOld, siteVars
  <2>3. Recorded => Recorded'
    BY <1>2, <2>1, AsideSwitched DEF Recorded, siteVars, pubVars
  <2>4. QED
    BY <1>2, <2>1, <2>2, <2>3, AsideRegressing DEF ShownInv, siteVars
<1>3. CASE JournalStep
  <2>1. UNCHANGED siteVars /\ \A w \in Wikis : Shown(w)' = Shown(w)
    BY <1>3, JournalShown DEF JournalStep, NoOp, Activate, Select, CommitEnd, RolledBack
  <2>2. ReceiptOld
    BY <1>3 DEF ShownInv, Recorded, JournalStep, NoOp, Activate, Select, CommitEnd, RolledBack
  <2>3. Regressing' => Regressing
    <3>1. CASE NoOp \/ Activate \/ CommitEnd
      BY <3>1 DEF NoOp, Activate, CommitEnd, Goto, Regressing,
                  InUndo, InRestore, Restoring, Merging, Building
    <3>2. CASE Select
      BY <3>2 DEF Select, Regressing, SafeInv, CoreInv, PcInv, ActivateInv, Activating
    <3>3. CASE RolledBack
      BY <3>3 DEF RolledBack, Regressing, InRestore
    <3>4. QED
      BY <1>3, <3>1, <3>2, <3>3 DEF JournalStep
  <2>4. QED
    BY <2>1, <2>2, <2>3 DEF ShownInv, ReceiptOld, siteVars
<1>4. CASE CommitBegin
  <2>1. Old' /\ pc' = "publish"
    BY <1>4, CommitShown DEF CommitBegin, Goto
  <2>2. QED
    BY <2>1 DEF ShownInv, ReceiptOld, Old, Regressing, InUndo, InRestore, Restoring, Merging, Building
<1>5. CASE Recover
  <2>1. UNCHANGED <<siteVars, linkVars, journal, pubVars>>
    BY <1>5 DEF Recover, txnVars
  <2>2. \A w \in Wikis : Shown(w)' = Shown(w)
    BY <2>1, ShownFrame DEF linkVars
  <2>3. ReceiptOld => ReceiptOld'
    BY <2>1, <2>2 DEF ReceiptOld, siteVars
  <2>4. Recorded => Audit \notin {"clean", "rollback"}
    BY SwitchedStays DEF Recorded, Switched
  <2>5. Recorded => Recorded'
    <3>1. Recorded => pc' \in {"commit", "idle"}
      BY <1>5, <2>4 DEF Recover, Goto
    <3>2. QED
      BY <2>1, <3>1 DEF Recorded, siteVars, pubVars
  <2>6. ASSUME Regressing' PROVE \A w \in Wikis : site.vec[w] = Shown(w)
    <3>1. Audit = "rollback"
      BY <1>5, <2>6 DEF Recover, Goto, Regressing, InUndo, InRestore, Restoring, Merging, Building
    <3>2. receipt.site = site
      BY <3>1 DEF Audit, SiteReceiptValid, Terminal
    <3>3. QED
      BY <2>4, <3>1, <3>2 DEF ShownInv, ReceiptOld
  <2>7. QED
    BY <2>1, <2>2, <2>3, <2>5, <2>6 DEF ShownInv, siteVars
<1>6. CASE SwitchSite \/ RecordSite
  <2>1. pc \in Building /\ UNCHANGED <<linkVars, journal, pubVars, mode>>
    BY <1>6 DEF SwitchSite, RecordSite, txnVars, Building
  <2>2. \/ mode = "publish" /\ journal.state = "selected"
        \/ mode = "recover" /\ journal.state = "rolled_back"
    BY <2>1 DEF SafeInv, CoreInv, PcInv, PublishInv
  <2>3. \A w \in Wikis : Shown(w)' = Shown(w)
    BY <2>1, ShownFrame DEF linkVars
  <2>4. ReceiptOld
    BY <2>1 DEF ShownInv, Recorded, Building
  <2>5. journal.state = "rolled_back" => \A w \in Wikis : Shown(w) = active[w]
    BY DEF Shown, Unpublished
  <2>6. site' = gate /\ cand = gate /\ gate.vec = active
    <3>1. CASE SwitchSite
      BY <3>1 DEF SwitchSite, Verified
    <3>2. CASE RecordSite
      BY <3>2 DEF RecordSite, ServedInv
    <3>3. QED
      BY <1>6, <3>1, <3>2
  <2>7. Regressing' => \A w \in Wikis : site'.vec[w] = Shown(w)'
    BY <2>1, <2>2, <2>3, <2>5, <2>6 DEF Regressing
  <2>8. CASE SwitchSite
    BY <2>3, <2>4, <2>7, <2>8 DEF SwitchSite, ShownInv, ReceiptOld
  <2>9. CASE RecordSite
    <3>1. receipt'.site = site' /\ pc' = IF mode = "publish" THEN "commit" ELSE "recover"
      BY <2>9 DEF RecordSite, Goto
    <3>2. CASE mode = "recover"
      <4>1. ReceiptOld'
        BY <2>2, <2>3, <2>5, <2>6, <3>1, <3>2 DEF ReceiptOld
      <4>2. QED
        BY <2>7, <4>1 DEF ShownInv
    <3>3. CASE mode = "publish"
      <4>1. gate.run = journal.run
        BY <2>1, <3>3 DEF RunInv
      <4>2. Recorded'
        BY <2>1, <2>2, <2>6, <3>1, <3>3, <4>1 DEF Recorded, pubVars
      <4>3. QED
        BY <2>7, <4>2 DEF ShownInv
    <3>4. QED
      BY <2>2, <3>2, <3>3
  <2>10. QED
    BY <1>6, <2>8, <2>9
<1>7. QED
  BY <1>1, <1>2, <1>3, <1>4, <1>5, <1>6, StepsByPart

\* What is said of a wiki follows from its records, its link, its entry and what
\* the site shows of it.
LEMMA RecordsSame ==
    ASSUME NEW v \in Wikis, RecordInv(v), UNCHANGED <<wikiVars, prep>>,
           active'[v] \in {active[v], None} \/ Present(v, active'[v]),
           v \in Selected' /\ journal'.state \in Unpublished =>
               Present(v, E(v)'.prev) /\ Present(v, E(v)'.cand),
           \/ site'.vec[v] = site.vec[v]
           \/ Present(v, site'.vec[v]) /\ Authentic(v, site'.vec[v])
    PROVE  RecordInv(v)'
<1>1. UNCHANGED <<gen, ready, inputs, index, prep>>
  BY DEF wikiVars
<1>2. \A c : Present(v, c)' <=> Present(v, c)
  BY <1>1 DEF Present, Standing
<1>3. \A c : Authentic(v, c)' <=> Authentic(v, c)
  BY <1>1 DEF Authentic
<1>4. \A c : Known(v, c)' <=> Known(v, c)
  BY <1>1 DEF Known
<1>5. active'[v] # None => Present(v, active'[v])
  BY DEF RecordInv
<1>6. Present(v, site'.vec[v]) /\ Authentic(v, site'.vec[v])
  BY DEF RecordInv
<1>7. QED
  BY <1>1, <1>2, <1>3, <1>4, <1>5, <1>6 DEF RecordInv

LEMMA RecordsAside ==
    ASSUME NEW v \in Wikis, RecordInv(v), UNCHANGED <<wikiVars, prep, active, journal, site>>
    PROVE  RecordInv(v)'
BY RecordsSame DEF RecordInv, Selected, E

\* The links of a selection move between candidates that are ready or published.
LEMMA RecordsMoving ==
    ASSUME SafeInv, NEW v \in Wikis, RecordInv(v), NEW w \in Wikis,
           Activation(w) \/ UndoSkip(w) \/ UndoUnlink(w) \/ UndoRelink(w) \/ UndoPoint(w)
    PROVE  RecordInv(v)'
<1>1. UNCHANGED <<wikiVars, prep, journal, site>>
  BY DEF Activation, MoveActiveToBackup, LinkSelected, PointSelected, txnVars, siteVars,
         UndoSkip, UndoUnlink, UndoRelink, UndoPoint
<1>2. active \in [Wikis -> Cands \cup {None}]
  BY TypeParts DEF SafeInv, LinkType
<1>3. v \in Selected' /\ journal'.state \in Unpublished =>
         Present(v, E(v)'.prev) /\ Present(v, E(v)'.cand)
  BY <1>1 DEF RecordInv, Selected, E
<1>4. active'[v] \in {active[v], None} \/ Present(v, active'[v])
  <2>1. CASE UndoSkip(w) \/ UndoUnlink(w) \/ UndoPoint(w) \/ MoveActiveToBackup(w) \/ PointSelected(w)
    BY <1>2, <2>1 DEF UndoSkip, UndoUnlink, UndoPoint, MoveActiveToBackup, PointSelected, linkVars
  <2>2. CASE LinkSelected(w)
    <3>1. active' = [active EXCEPT ![w] = E(w).cand] /\ pc \in Activating /\ First(w)
      BY <2>2 DEF LinkSelected, Activating
    <3>2. w \in Selected /\ journal.state \in Unpublished
      BY <3>1, ActivatedWiki
    <3>3. v = w => Present(v, E(v).cand)
      BY <3>2 DEF RecordInv
    <3>4. QED
      BY <1>2, <3>1, <3>3
  <2>3. CASE UndoRelink(w)
    <3>1. pc \in InUndo /\ Last(w)
      BY <2>3 DEF UndoRelink, InUndo
    <3>2. w \in Selected /\ journal.state \in Unpublished /\ Pledged(w)
      BY <3>1, UndoneWiki
    <3>3. v = w => Present(v, E(v).prev)
      BY <3>2 DEF RecordInv
    <3>4. backup[w] # None => backup[w] = E(w).prev
      BY <3>2 DEF Pledged, Back
    <3>5. active' = active \/ active' = [active EXCEPT ![w] = E(w).prev]
      BY <2>3, <3>4 DEF UndoRelink
    <3>6. QED
      BY <1>2, <3>3, <3>5
  <2>4. QED
    BY <2>1, <2>2, <2>3 DEF Activation
<1>5. QED
  BY <1>1, <1>3, <1>4, RecordsSame

\* A journal names candidates of the index and of the links.
LEMMA RecordsJournal ==
    ASSUME SafeInv, NEW v \in Wikis, RecordInv(v), JournalStep \/ CommitBegin
    PROVE  RecordInv(v)'
<1>1. UNCHANGED <<wikiVars, prep, active, site>>
  BY DEF JournalStep, NoOp, Activate, Select, CommitEnd, RolledBack, CommitBegin, linkVars, siteVars
<1>2. CASE Activate
  <2>1. DEFINE changed == {w \in Wikis : index[w].newest # active[w] \/ snap[w] # SnapshotOf[active[w]]}
  <2>2. /\ \A w \in Wikis : IndexValid(w)
        /\ journal'.entries = [w \in Wikis |-> IF w \in changed
              THEN [cand |-> index[w].newest, prev |-> active[w], snap |-> snap[w]] ELSE None]
    BY <1>2 DEF Activate, WriteJournal
  <2>3. journal.state \in Terminal
    BY <1>2 DEF Activate, SafeInv, CoreInv, PcInv, PublishInv
  <2>4. Live(v) /\ index[v].newest \in Nat
    <3>1. index[v].newest \in Cands
      BY TypeParts DEF SafeInv, DataType
    <3>2. QED
      BY <2>3, <3>1, Constants DEF SafeInv, CoreInv, WikiInv
  <2>5. Present(v, active[v])
    BY <2>4, Constants DEF RecordInv, Live
  <2>6. Present(v, index[v].newest)
    <3>1. gen[v][index[v].newest] \notin {"superseded", "retired"}
      BY <2>2 DEF IndexValid, Discoverable
    <3>2. Standing(v, index[v].newest)
      BY <3>1 DEF RecordInv, Known, Standing
    <3>3. QED
      BY <2>4, <3>2 DEF Present
  <2>7. v \in Selected' => E(v)'.cand = index[v].newest /\ E(v)'.prev = active[v]
    BY <2>2 DEF Selected, E
  <2>8. QED
    BY <1>1, <2>5, <2>6, <2>7, RecordsSame
<1>3. CASE NoOp
  <2>1. Selected' = {}
    BY <1>3 DEF NoOp, WriteJournal, Selected, NoEntries
  <2>2. QED
    BY <1>1, <2>1, RecordsSame
<1>4. CASE Select
  <2>1. journal' = [journal EXCEPT !.state = "selected"] /\ pc = "activate"
    BY <1>4 DEF Select, WriteJournal
  <2>2. journal.state \in Unpublished
    BY <2>1 DEF SafeInv, CoreInv, PcInv, ActivateInv, Activating, Unpublished
  <2>3. journal'.entries = journal.entries
    BY <2>1, TypeParts DEF SafeInv, TxnType
  <2>4. QED
    BY <1>1, <2>2, <2>3, RecordsSame DEF RecordInv, Selected, E
<1>5. CASE CommitBegin \/ CommitEnd \/ RolledBack
  <2>1. journal'.state \in {"committing", "committed", "rolled_back"}
    <3>1. \/ UNCHANGED journal /\ journal.state = "committing"
          \/ \E s \in {"committing", "committed", "rolled_back"} :
                journal' = [journal EXCEPT !.state = s]
      BY <1>5 DEF CommitBegin, CommitAllowed, CommitEnd, RolledBack, WriteJournal
    <3>2. QED
      BY <3>1, TypeParts DEF SafeInv, TxnType
  <2>2. journal'.state \notin Unpublished
    BY <2>1 DEF Unpublished
  <2>3. QED
    BY <1>1, <2>2, RecordsSame
<1>6. QED
  BY <1>2, <1>3, <1>4, <1>5 DEF JournalStep

\* The candidates of a wiki that the site, its link or the journal names.
Named(v, c) ==
    \/ c = active[v] \/ c = site.vec[v]
    \/ v \in Selected /\ journal.state \in Unpublished /\ c \in {E(v).prev, E(v).cand}

LEMMA NamedAuthentic ==
    ASSUME SafeInv, NEW v \in Wikis, RecordInv(v), NEW c \in Cands, Named(v, c)
    PROVE  Authentic(v, c) /\ Present(v, c)
<1>1. WikiInv(v)
  BY DEF SafeInv, CoreInv
<1>2. c # None
  BY Constants
<1>3. Present(v, c)
  BY <1>2 DEF Named, RecordInv
<1>4. CASE c = site.vec[v]
  BY <1>3, <1>4 DEF RecordInv
<1>5. CASE v \in Selected /\ journal.state \in Unpublished
  <2>1. Pledged(v)
    BY <1>1, <1>5 DEF WikiInv
  <2>2. active[v] \in {None, E(v).cand, E(v).prev}
    BY <2>1 DEF Pledged, Back
  <2>3. c \in {E(v).cand, E(v).prev, site.vec[v]}
    BY <1>2, <2>2 DEF Named
  <2>4. QED
    BY <1>3, <1>4, <2>1, <2>3 DEF Pledged
<1>6. CASE v \in Selected /\ journal.state = "committing" /\ c = active[v]
  BY <1>1, <1>3, <1>6 DEF WikiInv, Switching, Done
<1>7. CASE (v \notin Selected \/ journal.state \in Terminal) /\ c = active[v]
  BY <1>1, <1>3, <1>7 DEF WikiInv, Live
<1>8. journal.state \in Terminal \cup Unpublished \cup {"committing"}
  BY TypeParts DEF SafeInv, TxnType
<1>9. QED
  BY <1>4, <1>5, <1>6, <1>7, <1>8 DEF Named

\* A step on the records, the index or the data of a wiki keeps what is said of
\* it if the candidates that are named stay, and the index is not behind them.
LEMMA RecordsKept ==
    ASSUME SafeInv, NEW v \in Wikis, RecordInv(v), UNCHANGED <<active, journal, site>>,
           \A c \in Cands : c > prep'[v].cand => gen'[v][c] = "none" /\ c \notin ready'[v],
           prep'[v].step = "index" => Known(v, prep[v].cand)',
           Known(v, index[v].newest)',
           \A c \in Cands : Named(v, c) => Present(v, c)',
           Authentic(v, site.vec[v])'
    PROVE  RecordInv(v)'
<1>1. active[v] \in Cands \cup {None} /\ site.vec[v] \in Cands
  BY TypeParts DEF SafeInv, LinkType, SiteType, Publications
<1>2. active'[v] # None => Present(v, active[v])'
  BY <1>1 DEF Named
<1>3. Present(v, site.vec[v])'
  BY <1>1 DEF Named
<1>4. ASSUME (v \in Selected /\ journal.state \in Unpublished)'
      PROVE  Present(v, E(v).prev)' /\ Present(v, E(v).cand)'
  <2>1. v \in Selected /\ journal.state \in Unpublished /\ UNCHANGED E(v)
    BY <1>4 DEF Selected, E
  <2>2. E(v).prev \in Cands /\ E(v).cand \in Cands
    BY <2>1, EntryType DEF SafeInv
  <2>3. Named(v, E(v).prev) /\ Named(v, E(v).cand)
    BY <2>1 DEF Named
  <2>4. PICK p \in Cands, q \in Cands : p = E(v).prev /\ q = E(v).cand
    BY <2>2
  <2>5. Present(v, p)' /\ Present(v, q)'
    BY <2>3, <2>4
  <2>6. p = E(v)'.prev /\ q = E(v)'.cand
    BY <2>1, <2>4
  <2>7. QED
    BY <2>5, <2>6
<1>5. QED
  BY <1>2, <1>3, <1>4 DEF RecordInv

\* A step on the records of one wiki leaves those of the others alone.
LEMMA RecordsOther ==
    ASSUME NEW v \in Wikis, RecordInv(v), UNCHANGED <<active, journal, site>>,
           UNCHANGED <<gen[v], ready[v], inputs[v], index[v], prep[v]>>
    PROVE  RecordInv(v)'
BY DEF RecordInv, Selected, E, Known, Present, Standing, Authentic

\* A preparation: a new candidate has no record until it begins, is known once
\* it is ready, and is the newest then.
LEMMA RecordsPrepare ==
    ASSUME SafeInv, NEW w \in Wikis, Prepare(w) \/ PrepCrash(w), NEW v \in Wikis, RecordInv(v)
    PROVE  RecordInv(v)'
<1>1. DataType /\ prep[w].cand \in Cands
  BY TypeParts DEF SafeInv, DataType
<1>2. UNCHANGED <<active, journal, site>>
  <2>1. Beside
    BY StepBeside
  <2>2. QED
    BY <2>1 DEF Beside, siteVars
<1>3. \A c \in Cands : Named(v, c) => Authentic(v, c) /\ Present(v, c)
  BY NamedAuthentic
<1>4. site.vec[v] \in Cands /\ Named(v, site.vec[v])
  BY TypeParts DEF SafeInv, SiteType, Publications, Named
<1>5. CASE PrepBegin(w)
  <2>1. PICK c \in Cands : c = prep[w].cand + 1
    BY <1>5 DEF PrepBegin
  <2>2. /\ prep' = [prep EXCEPT ![w] = [step |-> "validate", cand |-> c]]
        /\ gen' = [gen EXCEPT ![w][c] = "building"]
        /\ inputs' = [inputs EXCEPT ![w] = @ \cup {SnapshotOf[c]}]
        /\ UNCHANGED <<ready, index>>
    BY <1>5, <2>1 DEF PrepBegin
  <2>3. CASE v # w
    BY <1>1, <1>2, <2>2, <2>3, RecordsOther DEF DataType
  <2>4. CASE v = w
    <3>1. /\ prep'[v].cand = c /\ prep'[v].step = "validate"
          /\ gen'[v][c] = "building"
          /\ \A d \in Cands \ {c} : gen'[v][d] = gen[v][d]
          /\ ready'[v] = ready[v] /\ inputs[v] \subseteq inputs'[v] /\ index'[v] = index[v]
      BY <1>1, <2>2, <2>4 DEF DataType
    <3>2. c > prep[v].cand /\ gen[v][c] = "none"
      <4>1. prep[v].cand \in Nat /\ c = prep[v].cand + 1
        BY <1>1, <2>1, <2>4, Constants
      <4>2. c > prep[v].cand
        BY <4>1
      <4>3. QED
        BY <4>2 DEF RecordInv
    <3>3. \A d \in Cands : d > c => gen'[v][d] = "none" /\ d \notin ready'[v]
      <4>1. c \in Nat /\ prep[v].cand \in Nat /\ c = prep[v].cand + 1
        BY <1>1, <2>1, <2>4, Constants
      <4>2. \A d \in Cands : d > c => d > prep[v].cand /\ d # c
        BY <4>1, Constants
      <4>3. \A d \in Cands : d > prep[v].cand => gen[v][d] = "none" /\ d \notin ready[v]
        BY DEF RecordInv
      <4>4. QED
        BY <3>1, <4>2, <4>3
    <3>4. index[v].newest \in Cands /\ index[v].newest # c
      BY <1>1, <3>2 DEF DataType, RecordInv, Known
    <3>5. Known(v, index[v].newest)'
      BY <3>1, <3>4 DEF RecordInv, Known
    <3>6. \A d \in Cands : Named(v, d) => Present(v, d)'
      BY <1>3, <3>1, <3>2 DEF Present, Standing
    <3>7. Authentic(v, site.vec[v])'
      BY <1>2, <1>3, <1>4, <3>1 DEF Authentic
    <3>8. QED
      BY <1>2, <3>1, <3>3, <3>5, <3>6, <3>7, RecordsKept
  <2>5. QED
    BY <2>3, <2>4
<1>6. CASE PrepValidate(w) \/ PrepRecord(w)
  <2>1. PICK c \in Cands, s \in {"validated", "ready"}, t \in {"receipt", "index"} :
          /\ c = prep[w].cand /\ TransitionAllowed(gen[w][c], s)
          /\ gen' = [gen EXCEPT ![w][c] = s]
          /\ prep' = [prep EXCEPT ![w].step = t]
          /\ t = "index" => s = "ready"
          /\ UNCHANGED <<ready, inputs, index>>
    BY <1>1, <1>6 DEF PrepValidate, PrepRecord, Transition, PrepGoto
  <2>2. CASE v # w
    BY <1>1, <1>2, <2>1, <2>2, RecordsOther DEF DataType
  <2>3. CASE v = w
    <3>1. /\ prep'[v].cand = c /\ prep'[v].step = t
          /\ gen'[v][c] = s
          /\ \A d \in Cands \ {c} : gen'[v][d] = gen[v][d]
          /\ ready'[v] = ready[v] /\ inputs'[v] = inputs[v] /\ index'[v] = index[v]
      BY <1>1, <2>1, <2>3 DEF DataType
    <3>2. s = "ready" \/ (gen[v][c] \in {"building", "validated"})
      BY <2>1, <2>3 DEF TransitionAllowed
    <3>3. \A d \in Cands : d > c => gen'[v][d] = "none" /\ d \notin ready'[v]
      BY <1>1, <2>1, <2>3, <3>1, Constants DEF RecordInv
    <3>4. index[v].newest \in Cands /\ Known(v, index[v].newest)
      BY <1>1 DEF DataType, RecordInv
    <3>5. Known(v, index[v].newest)'
      BY <3>1, <3>2, <3>4 DEF Known
    <3>6. \A d \in Cands : Named(v, d) => Present(v, d)'
      BY <1>3, <3>1, <3>2 DEF Present, Standing
    <3>7. Authentic(v, site.vec[v])'
      BY <1>2, <1>3, <1>4, <3>1 DEF Authentic
    <3>8. prep'[v].step = "index" => Known(v, prep[v].cand)'
      BY <2>1, <3>1 DEF Known
    <3>9. QED
      BY <1>2, <3>1, <3>3, <3>5, <3>6, <3>7, <3>8, RecordsKept
  <2>4. QED
    BY <2>2, <2>3
<1>7. CASE PrepReceipt(w)
  <2>1. PICK c \in Cands :
          /\ c = prep[w].cand
          /\ ready' = [ready EXCEPT ![w] = @ \cup {c}]
          /\ prep' = [prep EXCEPT ![w].step = "record"]
          /\ UNCHANGED <<inputs, gen, index>>
    BY <1>1, <1>7 DEF PrepReceipt, PrepGoto
  <2>2. CASE v # w
    BY <1>1, <1>2, <2>1, <2>2, RecordsOther DEF DataType
  <2>3. CASE v = w
    <3>1. /\ prep'[v].cand = c /\ prep'[v].step = "record"
          /\ gen'[v] = gen[v] /\ inputs'[v] = inputs[v] /\ index'[v] = index[v]
          /\ ready'[v] = ready[v] \cup {c}
      BY <1>1, <2>1, <2>3 DEF DataType
    <3>2. \A d \in Cands : d > c => gen'[v][d] = "none" /\ d \notin ready'[v]
      BY <1>1, <2>1, <2>3, <3>1, Constants DEF RecordInv
    <3>3. Known(v, index[v].newest)'
      BY <3>1 DEF RecordInv, Known
    <3>4. \A d \in Cands : Named(v, d) => Present(v, d)'
      BY <1>3, <3>1 DEF Present, Standing
    <3>5. Authentic(v, site.vec[v])'
      BY <1>2, <1>3, <1>4, <3>1 DEF Authentic
    <3>6. QED
      BY <1>2, <3>1, <3>2, <3>3, <3>4, <3>5, RecordsKept
  <2>4. QED
    BY <2>2, <2>3
<1>8. CASE PrepIndex(w)
  <2>1. PICK c \in Cands, k \in Cands \cup {None} :
          /\ c = prep[w].cand /\ prep[w].step = "index"
          /\ index' = [index EXCEPT ![w] = [newest |-> c, active |-> k]]
          /\ prep' = [prep EXCEPT ![w].step = "idle"]
          /\ UNCHANGED <<ready, inputs, gen>>
    BY <1>1, <1>8, TypeParts DEF SafeInv, LinkType, PrepIndex, PrepGoto, WriteIndex
  <2>2. CASE v # w
    BY <1>1, <1>2, <2>1, <2>2, RecordsOther DEF DataType
  <2>3. CASE v = w
    <3>1. /\ prep'[v].cand = c /\ prep'[v].step = "idle" /\ index'[v].newest = c
          /\ gen'[v] = gen[v] /\ inputs'[v] = inputs[v] /\ ready'[v] = ready[v]
      BY <1>1, <2>1, <2>3 DEF DataType
    <3>2. \A d \in Cands : d > c => gen[v][d] = "none" /\ d \notin ready[v]
      BY <2>1, <2>3 DEF RecordInv
    <3>3. Known(v, index[v].newest)'
      BY <2>1, <2>3, <3>1 DEF RecordInv, Known
    <3>4. \A d \in Cands : Standing(v, d) => d <= c
      BY <3>2, Constants DEF Standing
    <3>5. \A d \in Cands : Named(v, d) => Present(v, d)'
      BY <1>3, <3>1, <3>4 DEF Present, Standing
    <3>6. Authentic(v, site.vec[v])'
      BY <1>2, <1>3, <1>4, <3>1 DEF Authentic
    <3>7. QED
      BY <1>2, <3>1, <3>2, <3>3, <3>5, <3>6, RecordsKept
  <2>4. QED
    BY <2>2, <2>3
<1>9. CASE PrepFails(w) \/ PrepCrash(w)
  <2>1. prep' = [prep EXCEPT ![w].step = "idle"] /\ UNCHANGED <<ready, inputs, gen, index>>
    BY <1>9 DEF PrepFails, PrepCrash, PrepGoto, wikiVars
  <2>2. CASE v # w
    BY <1>1, <1>2, <2>1, <2>2, RecordsOther DEF DataType
  <2>3. CASE v = w
    <3>1. prep'[v].cand = prep[v].cand /\ prep'[v].step = "idle"
      BY <1>1, <2>1, <2>3 DEF DataType
    <3>2. \A d \in Cands : Named(v, d) => Present(v, d)'
      BY <1>3, <2>1 DEF Present, Standing
    <3>3. Authentic(v, site.vec[v])'
      BY <1>2, <1>3, <1>4, <2>1 DEF Authentic
    <3>4. QED
      BY <1>2, <2>1, <3>1, <3>2, <3>3, RecordsKept DEF RecordInv, Known
  <2>4. QED
    BY <2>2, <2>3
<1>10. QED
  BY <1>5, <1>6, <1>7, <1>8, <1>9 DEF Prepare

\* Rebuilding the index records what is found as ready, and names the newest of
\* it: at least the candidates that are named elsewhere.
LEMMA RecordsReconciled ==
    ASSUME SafeInv, NEW w \in Wikis, RebuildIndex(w) \/ UndoIndex(w), NEW v \in Wikis, RecordInv(v)
    PROVE  RecordInv(v)'
<1>1. DataType
  BY TypeParts DEF SafeInv
<1>2. UNCHANGED <<active, journal, site, ready, inputs, prep>>
  BY DEF RebuildIndex, UndoIndex, linkVars, txnVars, siteVars
<1>3. \A c \in Cands : Named(v, c) => Authentic(v, c) /\ Present(v, c)
  BY NamedAuthentic
<1>4. site.vec[v] \in Cands /\ Named(v, site.vec[v])
  BY TypeParts DEF SafeInv, SiteType, Publications, Named
<1>5. Discoverable(w) # {} /\ Discoverable(w) \in SUBSET Cands
  BY DEF RebuildIndex, UndoIndex, Discoverable
<1>6. PICK n \in Cands, k \in Cands \cup {None} :
        /\ n \in Discoverable(w) /\ \A d \in Discoverable(w) : d <= n
        /\ index' = [index EXCEPT ![w] = [newest |-> n, active |-> k]]
  <2>1. Newest(Discoverable(w)) \in Discoverable(w)
        /\ \A d \in Discoverable(w) : d <= Newest(Discoverable(w))
    BY <1>5, NewestOf
  <2>2. active[w] \in Cands \cup {None}
    BY TypeParts DEF SafeInv, LinkType
  <2>3. index' = [index EXCEPT ![w] = [newest |-> Newest(Discoverable(w)), active |-> active[w]]]
    BY DEF RebuildIndex, UndoIndex, WriteIndex
  <2>4. QED
    BY <1>5, <2>1, <2>2, <2>3
<1>7. \A u \in Wikis, c \in Cands :
         gen'[u][c] = IF u = w /\ Authentic(w, c) THEN Reconciled(gen[u][c]) ELSE gen[u][c]
  <2>1. gen' = [gen EXCEPT ![w] =
                  [c \in Cands |-> IF Authentic(w, c) THEN Reconciled(@[c]) ELSE @[c]]]
    BY DEF RebuildIndex, UndoIndex
  <2>2. QED
    BY <1>1, <2>1 DEF DataType
<1>8. CASE v # w
  <2>1. gen'[v] = gen[v] /\ index'[v] = index[v]
    <3>1. gen' = [gen EXCEPT ![w] =
                    [c \in Cands |-> IF Authentic(w, c) THEN Reconciled(@[c]) ELSE @[c]]]
      BY DEF RebuildIndex, UndoIndex
    <3>2. QED
      BY <1>1, <1>6, <1>8, <3>1 DEF DataType
  <2>2. QED
    BY <1>2, <2>1, RecordsOther
<1>9. CASE v = w
  <2>1. \A c \in Cands : Known(v, c) => gen'[v][c] = gen[v][c]
    BY <1>7 DEF Known, Reconciled
  <2>2. \A c \in Cands : c > prep[v].cand => gen'[v][c] = "none" /\ c \notin ready[v]
    BY <1>7, <1>9 DEF RecordInv, Authentic
  <2>3. prep[v].cand \in Cands
    BY <1>1 DEF DataType
  <2>4. prep'[v].step = "index" => Known(v, prep[v].cand)'
    BY <1>2, <2>1, <2>3 DEF RecordInv, Known
  <2>5. index'[v].newest = n
    BY <1>1, <1>6, <1>9 DEF DataType
  <2>6. Authentic(v, n) /\ gen[v][n] \notin {"superseded", "retired"} /\ gen[v][n] \in GStates
    BY <1>1, <1>6, <1>9 DEF Discoverable, DataType
  <2>7. Known(v, index[v].newest)'
    BY <1>7, <1>9, <2>5, <2>6 DEF Known, Reconciled, GStates
  <2>8. ASSUME NEW c \in Cands, Named(v, c) PROVE Present(v, c)'
    <3>1. Authentic(v, c) /\ Standing(v, c)
      BY <1>3, <2>8 DEF Present
    <3>2. c \in Discoverable(v)
      BY <3>1 DEF Standing, Discoverable
    <3>3. Known(v, c)
      BY <3>1 DEF Known, Standing
    <3>4. QED
      BY <1>6, <1>9, <2>1, <2>5, <3>1, <3>2, <3>3 DEF Present, Standing
  <2>9. Authentic(v, site.vec[v])'
    BY <1>2, <1>3, <1>4 DEF Authentic
  <2>10. QED
    BY <1>2, <2>2, <2>4, <2>7, <2>8, <2>9, RecordsKept
<1>10. QED
  BY <1>8, <1>9

\* A commit records what it publishes and what it takes away; nothing of it
\* touches what is linked and shown.
LEMMA RecordsCommit ==
    ASSUME SafeInv, ServedInv, NEW w \in Wikis, Committing(w), NEW v \in Wikis, RecordInv(v)
    PROVE  RecordInv(v)'
<1>1. DataType /\ E(w).cand \in Cands /\ E(w).prev \in Cands /\ E(w).cand # E(w).prev
      /\ journal.state = "committing" /\ w \in Selected
      /\ active[w] = E(w).cand /\ snap[w] = SnapshotOf[E(w).cand]
  <2>1. pc \in InCommit /\ First(w)
    BY DEF Committing, PublishSelected, SupersedePrevious, RetireCandidate, RetireInputs,
           RemoveCommittedBackup, IndexSelected, InCommit
  <2>2. QED
    BY <2>1, CommittedWiki, TypeParts DEF SafeInv, Switching, Done
<1>2. UNCHANGED <<active, journal, site, prep>>
  BY DEF Committing, PublishSelected, SupersedePrevious, RetireCandidate, RetireInputs,
         RemoveCommittedBackup, IndexSelected, linkVars, txnVars, siteVars
<1>3. \A c \in Cands : Named(v, c) => Authentic(v, c) /\ Present(v, c)
  BY NamedAuthentic
<1>4. site.vec[v] \in Cands /\ Named(v, site.vec[v])
  BY TypeParts DEF SafeInv, SiteType, Publications, Named
<1>5. \A c \in Cands : Named(w, c) => c = E(w).cand
  BY <1>1 DEF ServedInv, CommittedIsServed, Named, Unpublished
<1>6. index[v].newest \in Cands /\ prep[v].cand \in Cands
  BY <1>1 DEF DataType
<1>7. ASSUME NEW c \in Cands, NEW s \in {"published", "superseded", "retired"},
             gen' = [gen EXCEPT ![w][c] = s], UNCHANGED <<index, inputs>>,
             ready'[v] \subseteq ready[v],
             v # w => ready'[v] = ready[v],
             v = w => Authentic(v, site.vec[v])' /\ ~(c > prep[v].cand),
             s = "published" \/ ~Named(w, c)
      PROVE  RecordInv(v)'
  <2>1. CASE v # w
    BY <1>1, <1>2, <1>7, <2>1, RecordsOther DEF DataType
  <2>2. CASE v = w
    <3>1. gen'[v][c] = s /\ \A d \in Cands \ {c} : gen'[v][d] = gen[v][d]
      BY <1>1, <1>7, <2>2 DEF DataType
    <3>2. \A d \in Cands : d > prep[v].cand => gen'[v][d] = "none" /\ d \notin ready'[v]
      BY <1>7, <2>2, <3>1 DEF RecordInv
    <3>3. \A d \in Cands : Known(v, d) => Known(v, d)'
      BY <3>1 DEF Known
    <3>4. Known(v, index[v].newest)' /\ (prep'[v].step = "index" => Known(v, prep[v].cand)')
      <4>1. PICK d \in Cands, e \in Cands : d = index[v].newest /\ e = prep[v].cand
        BY <1>6
      <4>2. Known(v, d)' /\ (prep[v].step = "index" => Known(v, e)')
        BY <3>3, <4>1 DEF RecordInv
      <4>3. d = index'[v].newest /\ e = prep'[v].cand
        BY <1>2, <1>7, <4>1
      <4>4. QED
        BY <1>2, <4>2, <4>3 DEF Known
    <3>5. \A d \in Cands : Named(v, d) => Present(v, d)'
      BY <1>3, <1>7, <2>2, <3>1 DEF Present, Standing
    <3>6. QED
      BY <1>2, <1>7, <2>2, <3>2, <3>4, <3>5, RecordsKept
  <2>3. QED
    BY <2>1, <2>2
<1>8. UNCHANGED <<ready, inputs>> => Authentic(v, site.vec[v])'
  BY <1>2, <1>3, <1>4 DEF Authentic
<1>9. CASE PublishSelected(w)
  <2>1. /\ TransitionAllowed(gen[w][E(w).cand], "published")
        /\ gen' = [gen EXCEPT ![w][E(w).cand] = "published"]
        /\ UNCHANGED <<ready, inputs, index>>
    BY <1>9 DEF PublishSelected, Transition
  <2>2. v = w => ~(E(w).cand > prep[v].cand)
    BY <1>1, <2>1 DEF TransitionAllowed, RecordInv
  <2>3. QED
    BY <1>1, <1>7, <1>8, <2>1, <2>2
<1>10. CASE SupersedePrevious(w)
  <2>1. /\ TransitionAllowed(gen[w][E(w).prev], "superseded")
        /\ gen' = [gen EXCEPT ![w][E(w).prev] = "superseded"]
        /\ UNCHANGED <<ready, inputs, index>>
    BY <1>10 DEF SupersedePrevious, Transition
  <2>2. v = w => ~(E(w).prev > prep[v].cand)
    BY <1>1, <2>1 DEF TransitionAllowed, RecordInv
  <2>3. QED
    BY <1>1, <1>5, <1>7, <1>8, <2>1, <2>2
<1>11. CASE RetireCandidate(w)
  <2>1. PICK c \in ready[w] \ {E(w).cand, E(w).prev} :
          \/ /\ gen' = [gen EXCEPT ![w][c] =
                          IF @ \in {"ready", "published"} THEN "superseded" ELSE "retired"]
             /\ UNCHANGED <<ready, inputs, index>>
          \/ /\ ready' = [ready EXCEPT ![w] = @ \ {c}]
             /\ UNCHANGED <<gen, inputs, index>>
    BY <1>11 DEF RetireCandidate
  <2>2. c \in Cands /\ ~Named(w, c)
    BY <1>1, <1>5, <2>1 DEF DataType
  <2>3. CASE UNCHANGED ready /\ gen' = [gen EXCEPT ![w][c] =
                          IF @ \in {"ready", "published"} THEN "superseded" ELSE "retired"]
    <3>1. PICK s \in {"superseded", "retired"} : gen' = [gen EXCEPT ![w][c] = s]
      BY <2>3
    <3>2. v = w => ~(c > prep[v].cand)
      BY <2>1, <2>2 DEF RecordInv
    <3>3. QED
      BY <1>7, <1>8, <2>1, <2>2, <2>3, <3>1, <3>2
  <2>4. CASE ready' = [ready EXCEPT ![w] = @ \ {c}] /\ UNCHANGED <<gen, inputs, index>>
    <3>1. CASE v # w
      BY <1>1, <1>2, <2>4, <3>1, RecordsOther DEF DataType
    <3>2. CASE v = w
      <4>1. ready'[v] = ready[v] \ {c}
        BY <1>1, <2>4, <3>2 DEF DataType
      <4>2. \A d \in Cands : Named(v, d) => Present(v, d)'
        BY <1>3, <2>4 DEF Present, Standing
      <4>3. site.vec[v] # c
        BY <1>4, <2>2, <3>2
      <4>4. Authentic(v, site.vec[v])'
        BY <1>2, <1>3, <1>4, <2>4, <4>1, <4>3 DEF Authentic
      <4>5. QED
        BY <1>2, <2>4, <4>1, <4>2, <4>4, RecordsKept DEF RecordInv, Known
    <3>3. QED
      BY <3>1, <3>2
  <2>5. QED
    BY <2>1, <2>3, <2>4
<1>12. CASE RetireInputs(w)
  <2>1. inputs' = [inputs EXCEPT ![w] = {snap[w]}] /\ UNCHANGED <<ready, gen, index>>
    BY <1>12 DEF RetireInputs
  <2>2. CASE v # w
    BY <1>1, <1>2, <2>1, <2>2, RecordsOther DEF DataType
  <2>3. CASE v = w
    <3>1. inputs'[v] = {SnapshotOf[E(w).cand]}
      BY <1>1, <2>1, <2>3 DEF DataType
    <3>2. site.vec[v] = E(w).cand
      BY <1>4, <1>5, <2>3
    <3>3. Authentic(v, site.vec[v])'
      BY <1>2, <1>3, <1>4, <2>1, <3>1, <3>2 DEF Authentic
    <3>4. \A d \in Cands : Named(v, d) => Present(v, d)'
      BY <1>3, <2>1 DEF Present, Standing
    <3>5. QED
      BY <1>2, <2>1, <3>3, <3>4, RecordsKept DEF RecordInv, Known
  <2>4. QED
    BY <2>2, <2>3
<1>13. CASE RemoveCommittedBackup(w)
  BY <1>2, <1>13, RecordsAside DEF RemoveCommittedBackup
<1>14. CASE IndexSelected(w)
  <2>1. PICK c \in Cands : c = E(w).cand
    BY <1>1
  <2>2. index' = [index EXCEPT ![w] = [newest |-> c, active |-> c]]
        /\ UNCHANGED <<ready, inputs, gen>>
    BY <1>1, <1>14, <2>1 DEF IndexSelected, WriteIndex
  <2>3. CASE v # w
    BY <1>1, <1>2, <2>2, <2>3, RecordsOther DEF DataType
  <2>4. CASE v = w
    <3>1. index'[v].newest = c
      BY <1>1, <2>2, <2>4 DEF DataType
    <3>2. Standing(v, c)
      BY <1>1, <1>3, <2>1, <2>4 DEF Named, Present
    <3>3. Known(v, index[v].newest)'
      BY <2>2, <3>1, <3>2 DEF Known, Standing
    <3>4. \A d \in Cands : Named(v, d) => Present(v, d)'
      BY <1>5, <2>1, <2>2, <2>4, <3>1, <3>2, Constants DEF Present, Standing
    <3>5. QED
      BY <1>2, <1>8, <2>2, <3>3, <3>4, RecordsKept DEF RecordInv, Known
  <2>5. QED
    BY <2>3, <2>4
<1>15. QED
  BY <1>9, <1>10, <1>11, <1>12, <1>13, <1>14 DEF Committing

\* When the site switches, every wiki has a live candidate, and the gate names it.
LEMMA BuiltLinks ==
    ASSUME SafeInv, SwitchSite
    PROVE  /\ site' = gate /\ gate.vec = active /\ active \in [Wikis -> Cands]
           /\ UNCHANGED <<wikiVars, prep, active, journal, receipt, mode>>
           /\ \/ mode = "publish" /\ journal.state = "selected" /\ AllDone
              \/ mode = "recover" /\ journal.state = "rolled_back"
<1>1. site' = gate /\ gate.vec = active /\ UNCHANGED <<wikiVars, prep, active, journal, receipt, mode>>
  BY DEF SwitchSite, Verified, linkVars, txnVars
<1>2. \/ mode = "publish" /\ journal.state = "selected" /\ AllDone
      \/ mode = "recover" /\ journal.state = "rolled_back"
  BY DEF SwitchSite, Building, SafeInv, CoreInv, PcInv, PublishInv
<1>3. gate.vec \in [Wikis -> Cands]
  BY TypeParts DEF SafeInv, PubType, Publications
<1>4. QED
  BY <1>1, <1>2, <1>3

LEMMA RecordsSwitch ==
    ASSUME SafeInv, SwitchSite, NEW v \in Wikis, RecordInv(v)
    PROVE  RecordInv(v)'
<1>1. site'.vec[v] = active[v] /\ active[v] \in Cands
      /\ UNCHANGED <<wikiVars, prep, active, journal>>
  BY BuiltLinks
<1>2. Named(v, active[v])
  BY DEF Named
<1>3. Authentic(v, active[v]) /\ Present(v, active[v])
  BY <1>1, <1>2, NamedAuthentic
<1>4. QED
  BY <1>1, <1>3, RecordsSame DEF RecordInv, Selected, E

LEMMA RecordsStep ==
    ASSUME SafeInv, ServedInv, AllRecords, [Next]_vars
    PROVE  AllRecords'
<1> SUFFICES ASSUME NEW v \in Wikis PROVE RecordInv(v)'
  BY DEF AllRecords
<1>1. RecordInv(v)
  BY DEF AllRecords
<1>2. CASE \E w \in Wikis : Prepare(w) \/ PrepCrash(w)
  BY <1>1, <1>2, RecordsPrepare
<1>3. CASE \E w \in Wikis : RebuildIndex(w) \/ Activation(w) \/ Committing(w) \/ Undoing(w)
  <2>1. PICK w \in Wikis : RebuildIndex(w) \/ Activation(w) \/ Committing(w) \/ Undoing(w)
    BY <1>3
  <2>2. CASE Undoing(w)
    BY <1>1, <2>2, RecordsReconciled, RecordsMoving DEF Undoing
  <2>3. QED
    BY <1>1, <2>1, <2>2, RecordsReconciled, RecordsMoving, RecordsCommit
<1>4. CASE JournalStep \/ CommitBegin
  BY <1>1, <1>4, RecordsJournal
<1>5. CASE SwitchSite
  BY <1>1, <1>5, RecordsSwitch
<1>6. CASE \/ UNCHANGED vars \/ Damage \/ Recover \/ RecordSite \/ Begin \/ Preflight \/ Repair
           \/ MergeBegin \/ MergeEnd \/ RecordCandidate \/ Validate \/ CommitRefused
  BY <1>1, <1>6, RecordsAside
     DEF vars, Damage, Recover, RecordSite, Begin, Preflight, Repair, MergeBegin, MergeEnd,
         RecordCandidate, Validate, CommitRefused, linkVars, txnVars, siteVars
<1>7. CASE UndoEnd \/ RestoreCandidate \/ RestoreGate \/ RestoreRoot \/ AfterRestore
  BY <1>1, <1>7, RecordsAside
     DEF UndoEnd, RestoreCandidate, RestoreGate, RestoreRoot, AfterRestore,
         linkVars, txnVars, siteVars
<1>8. CASE Failures \/ Crash
  BY <1>1, <1>8, RecordsAside
     DEF Failures, ActivationFails, PrepareFails, BuildFails, Crash, linkVars, txnVars, siteVars
<1>9. QED
  BY <1>2, <1>3, <1>4, <1>5, <1>6, <1>7, <1>8 DEF Next, Publisher, JournalStep

\* A selection is of the newest candidates, and the site of one switches to it.
LEMMA TargetStep ==
    ASSUME SafeInv, ServedInv, ShownInv, AllRecords, TargetInv, [Next]_vars
    PROVE  TargetInv'
<1> SUFFICES ASSUME journal'.state \in Unpublished, NEW w \in Wikis
             PROVE  site'.vec[w] <= Target(w)'
  BY DEF TargetInv
<1>1. active[w] \in Cands \cup {None} /\ site.vec[w] \in Cands
  BY TypeParts DEF SafeInv, LinkType, SiteType, Publications
<1>2. CASE UNCHANGED <<journal, site>> /\ (active'[w] = active[w] \/ w \in Selected)
  BY <1>2 DEF TargetInv, Target, Selected, E
<1>3. CASE Activate
  <2>1. DEFINE changed == {u \in Wikis : index[u].newest # active[u] \/ snap[u] # SnapshotOf[active[u]]}
  <2>2. /\ journal'.entries = [u \in Wikis |-> IF u \in changed
              THEN [cand |-> index[u].newest, prev |-> active[u], snap |-> snap[u]] ELSE None]
        /\ UNCHANGED <<active, site>>
    BY <1>3 DEF Activate, WriteJournal, siteVars
  <2>3. w \in Selected' => E(w)'.cand = index[w].newest
    BY <2>2 DEF Selected, E
  <2>4. w \notin Selected' => active[w] = index[w].newest
    <3>1. w \in changed =>
            journal'.entries[w] = [cand |-> index[w].newest, prev |-> active[w], snap |-> snap[w]]
      BY <2>2
    <3>2. w \in changed => journal'.entries[w] \in Entry
      <4>1. journal.state \in Terminal
        BY <1>3 DEF Activate, SafeInv, CoreInv, PcInv, PublishInv
      <4>2. active[w] \in Cands /\ snap[w] \in Snaps /\ index[w].newest \in Cands
        BY <4>1, TypeParts DEF SafeInv, CoreInv, WikiInv, Live, DataType, LinkType
      <4>3. QED
        BY <3>1, <4>2 DEF Entry
    <3>3. w \in changed => w \in Selected'
      BY <3>2, Constants DEF Selected
    <3>4. QED
      BY <3>3
  <2>5. site.vec[w] <= index[w].newest
    BY DEF AllRecords, RecordInv, Present
  <2>6. QED
    BY <2>2, <2>3, <2>4, <2>5 DEF Target
<1>4. CASE Select \/ NoOp \/ CommitBegin \/ CommitEnd \/ RolledBack
  <2>1. CASE Select
    <3>1. journal' = [journal EXCEPT !.state = "selected"] /\ UNCHANGED <<active, site>>
      BY <2>1 DEF Select, WriteJournal, linkVars, siteVars
    <3>2. journal.state \in Unpublished
      BY <2>1 DEF Select, SafeInv, CoreInv, PcInv, ActivateInv, Activating, Unpublished
    <3>3. journal'.entries = journal.entries
      BY <3>1, TypeParts DEF SafeInv, TxnType
    <3>4. QED
      BY <3>1, <3>2, <3>3 DEF TargetInv, Target, Selected, E
  <2>2. CASE NoOp
    BY <2>2 DEF NoOp, WriteJournal, Unpublished
  <2>3. CASE CommitBegin \/ CommitEnd \/ RolledBack
    <3>1. \/ UNCHANGED journal /\ journal.state = "committing"
          \/ \E s \in {"committing", "committed", "rolled_back"} :
                journal' = [journal EXCEPT !.state = s]
      BY <2>3 DEF CommitBegin, CommitAllowed, CommitEnd, RolledBack, WriteJournal
    <3>2. QED
      BY <3>1, TypeParts DEF SafeInv, TxnType, Unpublished
  <2>4. QED
    BY <1>4, <2>1, <2>2, <2>3
<1>5. CASE SwitchSite
  <2>1. site' = gate /\ gate.vec = active /\ active \in [Wikis -> Cands]
        /\ UNCHANGED <<active, journal>> /\ (journal.state = "selected" => AllDone)
    BY <1>5, BuiltLinks
  <2>2. journal.state = "selected"
    BY <1>5, <2>1, BuiltLinks DEF Unpublished
  <2>3. Target(w)' = active[w]
    BY <2>1, <2>2 DEF AllDone, Done, Target, Selected, E
  <2>4. active[w] \in Nat
    BY <2>1, Constants
  <2>5. QED
    BY <2>1, <2>3, <2>4
<1>6. CASE RecordSite \/ Recover
  BY <1>2, <1>6 DEF RecordSite, Recover, linkVars, txnVars, siteVars
<1>7. CASE Beside
  BY <1>2, <1>7 DEF Beside, siteVars
<1>8. CASE AsideStep
  <2>1. UNCHANGED <<siteVars, journal>>
    BY <1>8, AsideUnchanged
  <2>2. \A u \in Wikis : Shown(u)' = Shown(u)
    BY <1>8, AsideShown
  <2>3. w \notin Selected => active'[w] = active[w]
    BY <2>1, <2>2 DEF Shown, Selected
  <2>4. QED
    BY <1>2, <2>1, <2>3 DEF siteVars
<1>9. QED
  BY <1>3, <1>4, <1>5, <1>6, <1>7, <1>8, StepsByPart DEF JournalStep

\* A candidate that was ready once stays known to have been; a step adds to what
\* is known of one wiki at most.
LEMMA KnownStays ==
    ASSUME SafeInv, AllRecords, [Next]_vars
    PROVE  \/ UNCHANGED gen
           \/ \E w \in Wikis : /\ \A v \in Wikis \ {w} : gen'[v] = gen[v]
                               /\ \A c \in Cands : Known(w, c) => Known(w, c)'
<1>1. DataType
  BY TypeParts DEF SafeInv
<1>2. ASSUME NEW w \in Wikis, NEW c \in Cands, NEW s \in GStates, gen' = [gen EXCEPT ![w][c] = s],
             ~Known(w, c) \/ s \in {"ready", "published", "superseded", "retired"}
      PROVE  /\ \A v \in Wikis \ {w} : gen'[v] = gen[v]
             /\ \A d \in Cands : Known(w, d) => Known(w, d)'
  <2>1. /\ \A v \in Wikis \ {w} : gen'[v] = gen[v]
        /\ gen'[w][c] = s /\ \A d \in Cands \ {c} : gen'[w][d] = gen[w][d]
    BY <1>1, <1>2 DEF DataType
  <2>2. QED
    BY <1>2, <2>1 DEF Known
<1>3. CASE \E w \in Wikis : Prepare(w) \/ PrepCrash(w)
  <2>1. PICK w \in Wikis : Prepare(w) \/ PrepCrash(w)
    BY <1>3
  <2>2. prep[w].cand \in Cands /\ RecordInv(w)
    BY <1>1 DEF DataType, AllRecords
  <2>3. CASE PrepBegin(w)
    <3>1. PICK c \in Cands : c = prep[w].cand + 1
      BY <2>3 DEF PrepBegin
    <3>2. prep[w].cand \in Nat
      BY <2>2, Constants
    <3>3. c > prep[w].cand
      BY <3>1, <3>2
    <3>4. ~Known(w, c)
      BY <2>2, <3>3 DEF RecordInv, Known
    <3>5. gen' = [gen EXCEPT ![w][c] = "building"]
      BY <2>3, <3>1 DEF PrepBegin
    <3>6. QED
      BY <1>2, <3>4, <3>5 DEF GStates
  <2>4. CASE PrepValidate(w)
    <3>1. PICK c \in Cands : c = prep[w].cand
      BY <2>2
    <3>2. TransitionAllowed(gen[w][c], "validated") /\ gen' = [gen EXCEPT ![w][c] = "validated"]
      BY <2>4, <3>1 DEF PrepValidate, Transition
    <3>3. ~Known(w, c)
      BY <3>2 DEF TransitionAllowed, Known
    <3>4. QED
      BY <1>2, <3>2, <3>3 DEF GStates
  <2>5. CASE PrepRecord(w)
    <3>1. PICK c \in Cands : gen' = [gen EXCEPT ![w][c] = "ready"]
      BY <2>2, <2>5 DEF PrepRecord, Transition
    <3>2. QED
      BY <1>2, <3>1 DEF GStates
  <2>6. CASE PrepReceipt(w) \/ PrepIndex(w) \/ PrepFails(w) \/ PrepCrash(w)
    BY <2>6 DEF PrepReceipt, PrepIndex, PrepFails, PrepCrash, wikiVars
  <2>7. QED
    BY <2>1, <2>3, <2>4, <2>5, <2>6 DEF Prepare
<1>4. CASE \E w \in Wikis : RebuildIndex(w) \/ UndoIndex(w)
  <2>1. PICK w \in Wikis : RebuildIndex(w) \/ UndoIndex(w)
    BY <1>4
  <2>2. gen' = [gen EXCEPT ![w] =
                  [c \in Cands |-> IF Authentic(w, c) THEN Reconciled(@[c]) ELSE @[c]]]
    BY <2>1 DEF RebuildIndex, UndoIndex
  <2>3. /\ \A v \in Wikis \ {w} : gen'[v] = gen[v]
        /\ \A c \in Cands : gen'[w][c] \in {gen[w][c], Reconciled(gen[w][c])}
    BY <1>1, <2>2 DEF DataType
  <2>4. \A c \in Cands : Known(w, c) => Known(w, c)'
    BY <2>3 DEF Known, Reconciled
  <2>5. QED
    BY <2>3, <2>4
<1>5. CASE \E w \in Wikis : Committing(w)
  <2>1. PICK w \in Wikis : Committing(w)
    BY <1>5
  <2>2. pc \in InCommit /\ First(w)
    BY <2>1 DEF Committing, PublishSelected, SupersedePrevious, RetireCandidate, RetireInputs,
                RemoveCommittedBackup, IndexSelected, InCommit
  <2>3. E(w).cand \in Cands /\ E(w).prev \in Cands
    BY <2>2, CommittedWiki
  <2>4. UNCHANGED gen \/ \E c \in Cands, s \in {"published", "superseded", "retired"} :
                            gen' = [gen EXCEPT ![w][c] = s]
    <3>1. CASE PublishSelected(w) \/ SupersedePrevious(w)
      BY <2>3, <3>1 DEF PublishSelected, SupersedePrevious, Transition
    <3>2. CASE RetireCandidate(w)
      <4>1. ready[w] \subseteq Cands
        BY <1>1 DEF DataType
      <4>2. QED
        BY <3>2, <4>1 DEF RetireCandidate
    <3>3. CASE RetireInputs(w) \/ RemoveCommittedBackup(w) \/ IndexSelected(w)
      BY <3>3 DEF RetireInputs, RemoveCommittedBackup, IndexSelected, wikiVars
    <3>4. QED
      BY <2>1, <3>1, <3>2, <3>3 DEF Committing
  <2>5. QED
    BY <1>2, <2>4 DEF GStates
<1>6. CASE \E w \in Wikis : Activation(w) \/ UndoSkip(w) \/ UndoUnlink(w) \/ UndoRelink(w) \/ UndoPoint(w)
  BY <1>6 DEF Activation, MoveActiveToBackup, LinkSelected, PointSelected,
              UndoSkip, UndoUnlink, UndoRelink, UndoPoint, wikiVars
<1>7. CASE JournalStep \/ CommitBegin \/ SwitchSite \/ RecordSite
  BY <1>7 DEF JournalStep, NoOp, Activate, Select, CommitEnd, RolledBack, CommitBegin,
              SwitchSite, RecordSite, wikiVars
<1>8. CASE \/ UNCHANGED vars \/ Damage \/ Recover \/ Begin \/ Preflight \/ Repair
           \/ MergeBegin \/ MergeEnd \/ RecordCandidate \/ Validate \/ CommitRefused
  BY <1>8 DEF vars, Damage, Recover, Begin, Preflight, Repair, MergeBegin, MergeEnd,
              RecordCandidate, Validate, CommitRefused, wikiVars
<1>9. CASE UndoEnd \/ RestoreCandidate \/ RestoreGate \/ RestoreRoot \/ AfterRestore
           \/ Failures \/ Crash
  BY <1>9 DEF UndoEnd, RestoreCandidate, RestoreGate, RestoreRoot, AfterRestore,
              Failures, ActivationFails, PrepareFails, BuildFails, Crash, wikiVars
<1>10. QED
  BY <1>3, <1>4, <1>5, <1>6, <1>7, <1>8, <1>9 DEF Next, Publisher, Undoing, JournalStep

ForwardInv == ServedInv /\ RunInv /\ ShownInv /\ AllRecords /\ TargetInv

LEMMA ForwardHolds == Spec => [](SafeInv /\ ForwardInv)
<1>1. Init => ForwardInv
  <2> SUFFICES ASSUME Init PROVE ForwardInv
    OBVIOUS
  <2>1. Selected = {} /\ \A w \in Wikis : Shown(w) = 1
    BY DEF Init, Shown, Selected, Unpublished
  <2>2. ServedInv
    BY <2>1 DEF Init, ServedInv, ReceiptInv, CommittedIsServed
  <2>3. RunInv
    BY DEF Init, RunInv, Activating, Merging, Building
  <2>4. ShownInv
    BY <2>1 DEF Init, ShownInv, ReceiptOld, Regressing, FirstPublication
  <2>5. TargetInv
    BY DEF Init, TargetInv, Unpublished
  <2>6. ASSUME NEW w \in Wikis PROVE RecordInv(w)
    <3>1. /\ \A c \in Cands : gen[w][c] = IF c = 1 THEN "published" ELSE "none"
          /\ ready[w] = {1} /\ inputs[w] = {SnapshotOf[1]}
          /\ index[w].newest = 1 /\ prep[w] = [step |-> "idle", cand |-> 1]
          /\ active[w] = 1 /\ site.vec[w] = 1
      BY DEF Init, FirstPublication
    <3>2. gen[w][1] = "published"
      BY <3>1, Constants
    <3>3. Present(w, 1) /\ Authentic(w, 1) /\ Known(w, 1)
      BY <3>1, <3>2 DEF Present, Standing, Authentic, Known
    <3>4. \A c \in Cands : c > 1 => gen[w][c] = "none" /\ c \notin ready[w]
      BY <3>1, Constants
    <3>5. QED
      BY <2>1, <3>1, <3>3, <3>4 DEF RecordInv
  <2>7. QED
    BY <2>2, <2>3, <2>4, <2>5, <2>6 DEF ForwardInv, AllRecords
<1>2. SafeInv /\ SafeInv' /\ ForwardInv /\ [Next]_vars => ForwardInv'
  BY ServedStep, RunStep, ShownStep, RecordsStep, TargetStep DEF ForwardInv
<1>3. QED
  BY <1>1, <1>2, SafeHolds, PTL DEF Spec

\* Every step of the publisher, of a preparation and of a failure offers
\* candidates of one wiki, publishes, or shows readers nothing new.
LEMMA ForwardStep ==
    ASSUME SafeInv, ForwardInv, [Next]_vars
    PROVE  [Abstract!Next]_<<Offered, site.vec>>
<1>1. CASE SwitchSite
  <2>1. /\ site' = gate /\ gate.vec = active /\ active \in [Wikis -> Cands]
        /\ UNCHANGED <<wikiVars, prep, active, journal, receipt, mode>>
        /\ \/ mode = "publish" /\ journal.state = "selected" /\ AllDone
           \/ mode = "recover" /\ journal.state = "rolled_back"
    BY <1>1, BuiltLinks
  <2>2. site'.vec \in [Wikis -> Cands] /\ site'.vec = active
    BY <2>1
  <2>3. ASSUME NEW w \in Wikis PROVE active[w] \in Offered[w] /\ active[w] >= site.vec[w]
    <3>1. active[w] \in Cands /\ active[w] \in Nat /\ site.vec[w] \in Nat
      BY <2>1, Constants, TypeParts DEF SafeInv, SiteType, Publications
    <3>2. Standing(w, active[w])
      BY <3>1, Constants DEF ForwardInv, AllRecords, RecordInv, Present
    <3>3. active[w] \in Offered[w]
      BY <3>1, <3>2 DEF Offered, Standing
    <3>4. CASE mode = "publish" /\ journal.state = "selected" /\ AllDone
      <4>1. Target(w) = active[w]
        BY <3>4 DEF Target, AllDone, Done
      <4>2. site.vec[w] <= active[w]
        BY <3>4, <4>1 DEF ForwardInv, TargetInv, Unpublished
      <4>3. QED
        BY <3>1, <3>3, <4>2
    <3>5. CASE mode = "recover" /\ journal.state = "rolled_back"
      <4>1. Regressing
        BY <1>1, <3>5 DEF SwitchSite, Regressing, Building
      <4>2. site.vec[w] = active[w]
        BY <3>5, <4>1 DEF ForwardInv, ShownInv, Shown, Unpublished
      <4>3. QED
        BY <3>1, <3>3, <4>2
    <3>6. QED
      BY <2>1, <3>4, <3>5
  <2>4. UNCHANGED Offered
    BY <2>1 DEF Offered, wikiVars
  <2>5. Abstract!Publish
    BY <2>2, <2>3, <2>4 DEF Abstract!Publish
  <2>6. QED
    BY <2>5 DEF Abstract!Next
<1>2. CASE ~SwitchSite
  <2>1. UNCHANGED site
    <3>1. CASE RecordSite \/ Recover \/ CommitBegin
      BY <3>1 DEF RecordSite, Recover, CommitBegin, siteVars
    <3>2. CASE JournalStep
      BY <3>2 DEF JournalStep, NoOp, Activate, Select, CommitEnd, RolledBack, siteVars
    <3>3. CASE AsideStep
      BY <3>3, AsideUnchanged DEF siteVars
    <3>4. CASE Beside
      BY <3>4 DEF Beside, siteVars
    <3>5. QED
      BY <1>2, <3>1, <3>2, <3>3, <3>4, StepsByPart
  <2>2. CASE UNCHANGED gen
    BY <2>1, <2>2 DEF Offered
  <2>3. CASE \E w \in Wikis : /\ \A v \in Wikis \ {w} : gen'[v] = gen[v]
                              /\ \A c \in Cands : Known(w, c) => Known(w, c)'
    <3>1. PICK w \in Wikis : /\ \A v \in Wikis \ {w} : gen'[v] = gen[v]
                             /\ \A c \in Cands : Known(w, c) => Known(w, c)'
      BY <2>3
    <3>2. PICK S \in SUBSET Cands : S = {c \in Cands : Known(w, c)'}
      OBVIOUS
    <3>3. \A v \in Wikis \ {w} : Offered'[v] = Offered[v]
      BY <3>1 DEF Offered
    <3>4. Offered'[w] = Offered[w] \cup S
      <4>1. Offered'[w] = S /\ Offered[w] = {c \in Cands : Known(w, c)}
        BY <3>2 DEF Offered, Known
      <4>2. QED
        BY <3>1, <3>2, <4>1
    <3>5. Offered' = [Offered EXCEPT ![w] = @ \cup S]
      <4>1. Offered \in [Wikis -> SUBSET Cands] /\ Offered' \in [Wikis -> SUBSET Cands]
        BY DEF Offered
      <4>2. QED
        BY <3>3, <3>4, <4>1
    <3>6. Abstract!Offer
      BY <2>1, <3>5 DEF Abstract!Offer
    <3>7. QED
      BY <3>6 DEF Abstract!Next
  <2>4. QED
    BY <2>2, <2>3, KnownStays DEF ForwardInv
<1>3. QED
  BY <1>1, <1>2

\* What the site shows moves in one step for all wikis, to candidates that were
\* ready, never back to an older one: whatever fails, dies or is damaged.
THEOREM ServesForwardHolds == Spec => ServesForward
<1>1. Init => Abstract!Init
  <2> SUFFICES ASSUME Init PROVE Abstract!Init
    OBVIOUS
  <2>1. site.vec = [w \in Wikis |-> 1]
    BY DEF Init, FirstPublication
  <2>2. site.vec \in [Wikis -> Cands]
    BY <2>1, Constants
  <2>3. ASSUME NEW w \in Wikis PROVE Offered[w] = {site.vec[w]}
    <3>1. \A c \in Cands : gen[w][c] = IF c = 1 THEN "published" ELSE "none"
      BY DEF Init
    <3>2. \A c \in Cands :
            gen[w][c] \in {"ready", "published", "superseded", "retired"} <=> c = 1
      BY <3>1
    <3>3. Offered[w] = {1}
      BY <3>2, Constants DEF Offered
    <3>4. QED
      BY <2>1, <3>3
  <2>4. Offered = [w \in Wikis |-> {site.vec[w]}]
    BY <2>3 DEF Offered
  <2>5. QED
    BY <2>2, <2>4 DEF Abstract!Init
<1>2. SafeInv /\ ForwardInv /\ [Next]_vars => [Abstract!Next]_<<Offered, site.vec>>
  BY ForwardStep
<1>3. QED
  BY <1>1, <1>2, ForwardHolds, PTL DEF Spec, ServesForward, Abstract!Spec

-----------------------------------------------------------------------------
(* The two windows in which recovery cannot decide.                        *)

\* The merged artifacts, the candidate file and the gate are those of a publication.
Artifacts(p) == root = p /\ cand = p /\ gate = p

\* The site was switched for this selection, recorded, and all is there to commit.
Decided ==
    /\ journal.state = "selected" /\ AllDone
    /\ Verified /\ gate.run = journal.run
    /\ site = gate /\ receipt.site = site

\* The receipt is an earlier one.  If it is that of the site, the site shows the
\* publication that was saved; the gate is that one or the one of this run.
Undecided ==
    /\ receipt.site.run # journal.run /\ ~siteNewer
    /\ receipt.site = site => saved = site
    /\ gate = saved \/ gate.run = journal.run

\* Where the run may be, or may have died, once its site is recorded.
Deciding == {"commit", "idle", "recover"}

\* A selection that is not being committed has saved the publication it started
\* from, and the recovery can tell whether the site was switched for it.
Reversible ==
    journal.state \in Unpublished =>
        /\ saved # None /\ saved.run # journal.run
        /\ \A w \in Wikis : saved.vec[w] = Shown(w)
        /\ journal.state = "activating" => Artifacts(saved)
        /\ Undecided \/ (Decided /\ pc \in Deciding)

\* The publication verifies whenever no selection is under way.
Final ==
    /\ journal.state \in Terminal => Verified /\ (receipt.site = site => site = gate)
    /\ journal.state = "committing" =>
           Verified /\ site = gate /\ receipt.site = site /\ gate.run = journal.run

\* A recovery never regenerates what it restores, a failed activation has not
\* merged yet, and a rollback puts the artifacts back in their order.
PlaceInv ==
    /\ pc \in Merging \cup Building => mode = "publish"
    /\ mode = "recover" /\ pc \in InUndo \cup InRestore => receipt.site = site
    /\ mode = "activation" /\ pc \in InUndo => journal.state = "activating"
    /\ pc = "sitereceipt" => Verified
    /\ pc = "commit" /\ journal.state \in Unpublished => Decided
    /\ pc \in {"restoregate", "restoreroot"} => cand = saved
    /\ pc = "restoreroot" => gate = saved
    /\ pc \in {"restored", "rolledback"} => Artifacts(saved)

\* Until a selection and in a recovery, the run id is of no publication yet.
Fresh == pc \in {"recover", "preflight", "select"} \/ (mode = "recover" /\ pc # "idle")

FreshInv == Fresh => run \notin RunsOnDisk

DecideInv == Reversible /\ Final /\ PlaceInv /\ FreshInv

\* Places that PlaceInv says nothing of.
LEMMA PlaceQuiet ==
    pc' \notin Merging \cup Building \cup InUndo \cup InRestore \cup {"commit"} => PlaceInv'
BY DEF PlaceInv, Building, InRestore, Restoring

LEMMA FreshFrame ==
    ASSUME FreshInv, UNCHANGED run, RunsOnDisk' \subseteq RunsOnDisk, Fresh' => Fresh
    PROVE  FreshInv'
BY DEF FreshInv

\* What is read of the transaction, the artifacts and the site when none of them
\* changes.
LEMMA SamePublication ==
    ASSUME UNCHANGED <<txnVars, pubVars, siteVars>>
    PROVE  UNCHANGED <<journal, saved, siteNewer, root, cand, gate, site, receipt, Undecided,
                       RunsOnDisk, Artifacts(saved)>>
BY DEF txnVars, pubVars, siteVars, Undecided, RunsOnDisk, Artifacts

LEMMA SameDecision ==
    ASSUME UNCHANGED <<linkVars, txnVars, pubVars, siteVars>>
    PROVE  UNCHANGED <<Verified, Decided, Final>>
<1>1. UNCHANGED <<journal, root, cand, gate, site, receipt, active>>
  BY SamePublication DEF linkVars
<1>2. UNCHANGED <<AllDone, Verified>>
  BY <1>1, SameLinks DEF Verified
<1>3. QED
  BY <1>1, <1>2 DEF Decided, Final

\* Steps of a preparation or on the index, and no step at all.
LEMMA QuietDecides ==
    ASSUME DecideInv, UNCHANGED <<linkVars, txnVars, pubVars, siteVars, run, pc, mode>>
    PROVE  DecideInv'
<1>1. /\ UNCHANGED <<journal, saved, receipt, site, cand, gate, Undecided, RunsOnDisk,
                     Artifacts(saved)>>
      /\ UNCHANGED <<Verified, Decided, Final>>
  BY SamePublication, SameDecision
<1>2. \A w \in Wikis : Shown(w)' = Shown(w)
  BY <1>1, ShownFrame DEF linkVars
<1>3. Reversible'
  BY <1>1, <1>2 DEF DecideInv, Reversible
<1>4. PlaceInv'
  BY <1>1 DEF DecideInv, PlaceInv
<1>5. FreshInv'
  BY <1>1, FreshFrame DEF DecideInv, Fresh
<1>6. QED
  BY <1>1, <1>3, <1>4, <1>5 DEF DecideInv

\* The selection is undone: what was saved is what is live.
LEMMA SavedLive ==
    ASSUME SafeInv, Reversible, journal.state \in Unpublished, AllUndone
    PROVE  saved \in Publications /\ saved.vec = active
<1>1. saved \in Publications /\ \A w \in Wikis : saved.vec[w] = Shown(w)
  BY TypeParts DEF Reversible, SafeInv, TxnType
<1>2. \A w \in Wikis : Shown(w) = active[w]
  BY DEF Shown, AllUndone, Undone, Back
<1>3. active \in [Wikis -> Cands \cup {None}] /\ saved.vec \in [Wikis -> Cands]
  BY <1>1, TypeParts DEF SafeInv, LinkType, Publications
<1>4. QED
  BY <1>1, <1>2, <1>3

\* The previous publication is there again, byte for byte, when a recovery has
\* restored it.
LEMMA RestoredIntact ==
    ASSUME SafeInv, ServedInv, DecideInv, pc \in {"restored", "rolledback"}
    PROVE  Verified /\ (receipt.site = site => site = gate) /\ (mode = "recover" => Intact)
<1>1. journal.state \in Unpublished /\ AllUndone /\ Artifacts(saved)
  BY DEF SafeInv, CoreInv, PcInv, UndoInv, InRestore, DecideInv, PlaceInv
<1>2. Verified
  BY <1>1, SavedLive DEF DecideInv, Artifacts, Verified
<1>3. receipt.site = site => site = gate
  BY <1>1 DEF DecideInv, Reversible, Undecided, Artifacts, Deciding
<1>4. ASSUME mode = "recover" PROVE Intact
  <2>1. receipt.site = site
    BY <1>4 DEF DecideInv, PlaceInv, InRestore
  <2>2. SiteMatches
    BY <1>2, <1>3, <2>1 DEF SiteMatches, SiteReceiptValid, ServedInv, ReceiptInv, Verified
  <2>3. ASSUME NEW w \in Selected PROVE SnapshotOf[gate.vec[w]] = E(w).snap
    <3>1. w \in Wikis
      BY DEF Selected
    <3>2. E(w).snap = SnapshotOf[E(w).prev]
      BY <1>1, <3>1 DEF SafeInv, CoreInv, WikiInv, Pledged
    <3>3. gate.vec[w] = E(w).prev
      BY <1>1, <1>2 DEF Verified, AllUndone, Undone, Back
    <3>4. QED
      BY <3>2, <3>3
  <2>4. QED
    BY <1>2, <2>2, <2>3 DEF Intact
<1>5. QED
  BY <1>2, <1>3, <1>4

-----------------------------------------------------------------------------
(* The steps that leave the transaction, the artifacts and the site alone. *)

\* Links move only in an activation, in a rollback, and when a commit drops its
\* backup.
LEMMA AsideLinks ==
    ASSUME AsideStep
    PROVE  \/ UNCHANGED linkVars
           \/ pc \in Activating \cup InUndo
           \/ pc \in InCommit /\ UNCHANGED active
<1>1. CASE \E w \in Wikis : Activation(w) \/ Undoing(w)
  BY <1>1 DEF Activation, MoveActiveToBackup, LinkSelected, PointSelected, Activating,
              Undoing, UndoSkip, UndoUnlink, UndoRelink, UndoPoint, UndoIndex, InUndo
<1>2. CASE \E w \in Wikis : Committing(w)
  <2>1. PICK w \in Wikis : Committing(w)
    BY <1>2
  <2>2. CASE RemoveCommittedBackup(w)
    BY <2>2 DEF RemoveCommittedBackup, InCommit
  <2>3. CASE ~RemoveCommittedBackup(w)
    BY <2>1, <2>3 DEF Committing, PublishSelected, SupersedePrevious, RetireCandidate,
                      RetireInputs, IndexSelected
  <2>4. QED
    BY <2>2, <2>3
<1>3. CASE ~\E w \in Wikis : Activation(w) \/ Committing(w) \/ Undoing(w)
  BY <1>3 DEF AsideStep, Begin, Preflight, Repair, MergeBegin, MergeEnd, RecordCandidate, Validate,
              CommitRefused, UndoEnd, RestoreCandidate, RestoreGate, RestoreRoot, AfterRestore,
              Failures, ActivationFails, PrepareFails, BuildFails, Crash
<1>4. QED
  BY <1>1, <1>2, <1>3

LEMMA AsideDecides ==
    ASSUME SafeInv, DecideInv, AsideStep, UNCHANGED <<txnVars, pubVars, siteVars>>
    PROVE  Reversible' /\ Final'
<1>1. UNCHANGED <<journal, saved, Undecided, Artifacts(saved), receipt, site, gate, cand, root>>
  BY SamePublication
<1>2. \A w \in Wikis : Shown(w)' = Shown(w)
  BY AsideShown
<1>3. Final'
  <2>1. journal.state \in Unpublished \/ UNCHANGED active
    BY AsideLinks DEF linkVars, SafeInv, CoreInv, PcInv, ActivateInv, UndoInv, Unpublished
  <2>2. UNCHANGED active => UNCHANGED Final
    BY <1>1 DEF Final, Verified
  <2>3. journal.state \in Unpublished => Final'
    BY <1>1 DEF Final, Terminal, Unpublished
  <2>4. QED
    BY <2>1, <2>2, <2>3 DEF DecideInv
<1>4. ASSUME Decided, pc \in Deciding PROVE Decided' /\ pc' \in Deciding
  <2>1. pc' \in {"idle", "recover"}
    BY <1>4, AsideSwitched DEF Deciding
  <2>2. UNCHANGED linkVars
    BY <1>4, AsideLinks DEF Deciding, Activating, InUndo, InCommit
  <2>3. QED
    BY <1>4, <2>1, <2>2, SameDecision DEF Deciding
<1>5. Reversible'
  BY <1>1, <1>2, <1>4 DEF DecideInv, Reversible
<1>6. QED
  BY <1>3, <1>5

\* The wrapper, and whatever ends the run or starts a rollback.
LEMMA EndDecides ==
    ASSUME SafeInv, DecideInv,
           Begin \/ Preflight \/ Repair \/ CommitRefused \/ Crash \/ Failures
    PROVE  DecideInv'
<1>1. UNCHANGED <<txnVars, pubVars, siteVars>>
  BY DEF Begin, Preflight, Repair, CommitRefused, Crash,
         Failures, ActivationFails, PrepareFails, BuildFails
<1>2. Reversible' /\ Final'
  BY <1>1, AsideDecides DEF AsideStep
<1>3. UNCHANGED <<RunsOnDisk, journal>>
  BY <1>1, SamePublication
<1>4. CASE Begin
  <2>1. pc' = "recover" /\ run' \notin RunsOnDisk
    BY <1>4 DEF Begin, Goto
  <2>2. PlaceInv' /\ FreshInv'
    BY <1>3, <2>1, PlaceQuiet DEF FreshInv, Merging, Building, InUndo, InRestore, Restoring
  <2>3. QED
    BY <1>2, <2>2 DEF DecideInv
<1>5. CASE Preflight
  <2>1. pc = "preflight" /\ pc' \in {"select", "idle"} /\ UNCHANGED run
    BY <1>5 DEF Preflight, Goto
  <2>2. PlaceInv'
    BY <2>1, PlaceQuiet DEF Merging, Building, InUndo, InRestore, Restoring
  <2>3. FreshInv'
    BY <1>3, <2>1, FreshFrame DEF DecideInv, Fresh
  <2>4. QED
    BY <1>2, <2>2, <2>3 DEF DecideInv
<1>6. CASE Repair
  <2>1. pc = "repair" /\ pc' \in {"merge", "idle"} /\ UNCHANGED mode
    BY <1>6 DEF Repair, Goto
  <2>2. mode' = "publish"
    BY <2>1 DEF SafeInv, CoreInv, PcInv, PublishInv
  <2>3. PlaceInv' /\ FreshInv'
    BY <2>1, <2>2 DEF PlaceInv, FreshInv, Fresh, Building, InUndo, InRestore, Restoring
  <2>4. QED
    BY <1>2, <2>3 DEF DecideInv
<1>7. CASE CommitRefused \/ Crash
  <2>1. pc' = "idle"
    BY <1>7 DEF CommitRefused, Crash, Goto
  <2>2. PlaceInv' /\ FreshInv'
    BY <2>1, PlaceQuiet DEF FreshInv, Fresh, Merging, Building, InUndo, InRestore, Restoring
  <2>3. QED
    BY <1>2, <2>2 DEF DecideInv
<1>8. CASE Failures
  <2>1. \/ pc' = "idle"
        \/ pc' = "undo" /\ mode' \in {"prepare", "wrapper"}
        \/ pc' = "undo" /\ mode' = "activation" /\ pc \in Activating
    BY <1>8 DEF Failures, ActivationFails, PrepareFails, BuildFails, StartUndo, Goto, Activating
  <2>2. pc \in Activating => journal'.state = "activating"
    BY <1>3 DEF SafeInv, CoreInv, PcInv, ActivateInv
  <2>3. PlaceInv'
    BY <2>1, <2>2 DEF PlaceInv, Merging, Building, InUndo, InRestore, Restoring
  <2>4. FreshInv'
    BY <2>1 DEF FreshInv, Fresh
  <2>5. QED
    BY <1>2, <2>3, <2>4 DEF DecideInv
<1>9. QED
  BY <1>4, <1>5, <1>6, <1>7, <1>8

\* The steps for one wiki.
LEMMA WikiDecides ==
    ASSUME SafeInv, DecideInv, NEW w \in Wikis, Activation(w) \/ Committing(w) \/ Undoing(w)
    PROVE  DecideInv'
<1>1. UNCHANGED <<txnVars, pubVars, siteVars, run, mode>>
  <2>1. CASE Activation(w)
    BY <2>1 DEF Activation, MoveActiveToBackup, LinkSelected, PointSelected
  <2>2. CASE Committing(w)
    BY <2>2 DEF Committing, PublishSelected, SupersedePrevious, RetireCandidate,
                RetireInputs, RemoveCommittedBackup, IndexSelected
  <2>3. CASE Undoing(w)
    BY <2>3 DEF Undoing, UndoSkip, UndoUnlink, UndoRelink, UndoPoint, UndoIndex
  <2>4. QED
    BY <2>1, <2>2, <2>3
<1>2. Reversible' /\ Final'
  BY <1>1, AsideDecides DEF AsideStep
<1>3. UNCHANGED <<RunsOnDisk, journal, receipt, site>>
  BY <1>1, SamePublication
<1>4. \/ pc \in Activating /\ pc' \in Activating
      \/ pc \in InCommit /\ pc' \in InCommit
      \/ pc \in InUndo /\ pc' \in InUndo
  <2>1. CASE Activation(w)
    BY <2>1 DEF Activation, MoveActiveToBackup, LinkSelected, PointSelected, Goto, Activating
  <2>2. CASE RetireCandidate(w)
    BY <2>2 DEF RetireCandidate, InCommit
  <2>3. CASE Committing(w) /\ ~RetireCandidate(w)
    BY <2>3 DEF Committing, PublishSelected, SupersedePrevious, RetireInputs,
                RemoveCommittedBackup, IndexSelected, Goto, InCommit
  <2>4. CASE UndoSkip(w)
    BY <2>4 DEF UndoSkip, InUndo
  <2>5. CASE Undoing(w) /\ ~UndoSkip(w)
    BY <2>5 DEF Undoing, UndoUnlink, UndoRelink, UndoPoint, UndoIndex, Goto, InUndo
  <2>6. QED
    BY <2>1, <2>2, <2>3, <2>4, <2>5
<1>5. FreshInv'
  <2>1. Fresh' => Fresh
    BY <1>1, <1>4 DEF Fresh, Activating, InCommit, InUndo
  <2>2. QED
    BY <1>1, <1>3, <2>1, FreshFrame DEF DecideInv
<1>6. PlaceInv'
  <2>1. CASE pc' \in Activating \cup InCommit
    BY <2>1, PlaceQuiet DEF Activating, InCommit, Merging, Building, InUndo, InRestore, Restoring
  <2>2. CASE pc \in InUndo /\ pc' \in InUndo
    BY <1>1, <1>3, <2>2 DEF DecideInv, PlaceInv, InUndo, Merging, Building
  <2>3. QED
    BY <1>4, <2>1, <2>2
<1>7. QED
  BY <1>2, <1>5, <1>6 DEF DecideInv

\* The end of the links' rollback and of the artifacts'.
LEMMA UndoneDecides ==
    ASSUME SafeInv, ServedInv, DecideInv, UndoEnd \/ AfterRestore
    PROVE  DecideInv'
<1>1. UNCHANGED <<txnVars, pubVars, siteVars, run, mode>>
  BY DEF UndoEnd, AfterRestore
<1>2. Reversible' /\ Final'
  BY <1>1, AsideDecides DEF AsideStep
<1>3. UNCHANGED <<RunsOnDisk, journal, receipt, site, Artifacts(saved)>>
  BY <1>1, SamePublication
<1>4. pc \in InUndo \cup InRestore /\ pc # "idle" /\ journal.state \in Unpublished
  BY DEF UndoEnd, AfterRestore, InUndo, InRestore, SafeInv, CoreInv, PcInv, UndoInv
<1>5. FreshInv'
  <2>1. Fresh' => Fresh
    <3>1. pc' \notin {"recover", "preflight", "select"}
      <4>1. CASE UndoEnd
        <5>1. pc' = CASE mode = "activation" -> "rolledback"
                      [] mode # "activation" /\ saved # None -> "restore"
                      [] mode # "activation" /\ saved = None -> "restored"
          BY <4>1 DEF UndoEnd, Goto
        <5>2. QED
          BY <5>1
      <4>2. CASE AfterRestore
        <5>1. pc' = CASE mode = "recover" -> IF Intact THEN "rolledback" ELSE "merge"
                      [] mode # "recover" -> IF saved = None \/ Verified THEN "rolledback" ELSE "idle"
          BY <4>2 DEF AfterRestore, Goto
        <5>2. QED
          BY <5>1
      <4>3. QED
        BY <4>1, <4>2
    <3>2. QED
      BY <1>1, <1>4, <3>1 DEF Fresh
  <2>2. QED
    BY <1>1, <1>3, <2>1, FreshFrame DEF DecideInv
<1>6. CASE UndoEnd
  <2>1. pc = "undo" /\ pc' = CASE mode = "activation" -> "rolledback"
                               [] mode # "activation" /\ saved # None -> "restore"
                               [] mode # "activation" /\ saved = None -> "restored"
    BY <1>6 DEF UndoEnd, Goto
  <2>2. saved # None
    BY <1>4 DEF DecideInv, Reversible
  <2>3. CASE mode = "activation"
    <3>1. pc' = "rolledback" /\ Artifacts(saved)
      BY <1>4, <2>1, <2>3 DEF DecideInv, PlaceInv, Reversible, InUndo
    <3>2. PlaceInv'
      BY <1>1, <1>3, <2>3, <3>1 DEF PlaceInv, Merging, Building, InUndo
    <3>3. QED
      BY <1>2, <1>5, <3>2 DEF DecideInv
  <2>4. CASE mode # "activation"
    <3>1. pc' = "restore"
      BY <2>1, <2>2, <2>4
    <3>2. PlaceInv'
      BY <1>1, <1>3, <2>1, <3>1 DEF DecideInv, PlaceInv, Merging, Building, InUndo
    <3>3. QED
      BY <1>2, <1>5, <3>2 DEF DecideInv
  <2>5. QED
    BY <2>3, <2>4
<1>7. CASE AfterRestore
  <2>1. pc = "restored"
        /\ pc' = CASE mode = "recover" -> IF Intact THEN "rolledback" ELSE "merge"
                   [] mode # "recover" -> IF saved = None \/ Verified THEN "rolledback" ELSE "idle"
    BY <1>7 DEF AfterRestore, Goto
  <2>2. pc' = "rolledback"
    BY <2>1, RestoredIntact
  <2>3. Artifacts(saved)
    BY <2>1 DEF DecideInv, PlaceInv
  <2>4. PlaceInv'
    BY <1>1, <1>3, <2>1, <2>2, <2>3 DEF DecideInv, PlaceInv, Merging, Building, InUndo, InRestore
  <2>5. QED
    BY <1>2, <1>5, <2>4 DEF DecideInv
<1>8. QED
  BY <1>6, <1>7

-----------------------------------------------------------------------------
(* The steps that replace artifacts.                                       *)

\* What a selection has saved is there until the journal is replaced.
LEMMA ArtifactsDecide ==
    ASSUME DecideInv, UNCHANGED <<linkVars, txnVars, siteVars>>,
           journal.state \in Unpublished, pc \notin Deciding,
           journal.state = "activating" => Artifacts(saved)',
           gate' = saved \/ gate'.run = journal.run \/ UNCHANGED gate
    PROVE  Reversible' /\ Final'
<1>1. UNCHANGED <<journal, saved, siteNewer, site, receipt>>
  BY DEF txnVars, siteVars
<1>2. \A w \in Wikis : Shown(w)' = Shown(w)
  BY <1>1, ShownFrame DEF linkVars
<1>3. Undecided
  BY DEF DecideInv, Reversible
<1>4. Undecided'
  BY <1>1, <1>3 DEF Undecided
<1>5. QED
  BY <1>1, <1>2, <1>4 DEF DecideInv, Reversible, Final, Terminal, Unpublished

LEMMA MergeDecides ==
    ASSUME SafeInv, RunInv, DecideInv, MergeBegin \/ MergeEnd \/ RecordCandidate \/ Validate
    PROVE  DecideInv'
<1>1. pc \in Merging /\ UNCHANGED <<linkVars, txnVars, siteVars, run, mode>>
  BY DEF MergeBegin, MergeEnd, RecordCandidate, Validate, Merging
<1>2. mode = "publish" /\ journal.state = "selected" /\ journal.run = run
  BY <1>1 DEF DecideInv, PlaceInv, SafeInv, CoreInv, PcInv, PublishInv, RunInv
<1>3. gate'.run = journal.run \/ UNCHANGED gate
  BY <1>2 DEF MergeBegin, MergeEnd, RecordCandidate, Validate
<1>4. Reversible' /\ Final'
  BY <1>1, <1>2, <1>3, ArtifactsDecide DEF Unpublished, Deciding, Merging
<1>5. pc' \in Merging \cup {"build"}
  <2>1. CASE MergeBegin \/ MergeEnd \/ RecordCandidate
    BY <2>1 DEF MergeBegin, MergeEnd, RecordCandidate, Goto, Merging
  <2>2. CASE Validate
    BY <1>2, <2>2 DEF Validate, Goto
  <2>3. QED
    BY <2>1, <2>2
<1>6. PlaceInv' /\ FreshInv'
  BY <1>1, <1>2, <1>5 DEF PlaceInv, FreshInv, Fresh, Merging, InUndo, InRestore, Restoring
<1>7. QED
  BY <1>4, <1>6 DEF DecideInv

LEMMA RestoreDecides ==
    ASSUME SafeInv, DecideInv, RestoreCandidate \/ RestoreGate \/ RestoreRoot
    PROVE  DecideInv'
<1>1. pc \in Restoring /\ UNCHANGED <<linkVars, txnVars, siteVars, run, mode>>
  BY DEF RestoreCandidate, RestoreGate, RestoreRoot, Restoring
<1>2. journal.state \in Unpublished /\ saved # None
  BY <1>1 DEF SafeInv, CoreInv, PcInv, UndoInv, InRestore
<1>3. UNCHANGED <<journal, saved, receipt, site>>
  BY <1>1 DEF txnVars, siteVars
<1>4. /\ cand' \in {cand, saved} /\ gate' \in {gate, saved} /\ root' \in {root, saved, None}
      /\ root = saved => root' = saved
  BY DEF RestoreCandidate, RestoreGate, RestoreRoot
<1>5. Reversible' /\ Final'
  <2>1. Artifacts(saved) => Artifacts(saved)'
    BY <1>3, <1>4 DEF Artifacts
  <2>2. QED
    BY <1>1, <1>2, <1>4, <2>1, ArtifactsDecide DEF DecideInv, Reversible, Restoring, Deciding
<1>6. FreshInv'
  <2>1. RunsOnDisk' \subseteq RunsOnDisk
    BY <1>2, <1>3, <1>4 DEF RunsOnDisk
  <2>2. Fresh' => Fresh
    BY <1>1 DEF Fresh, RestoreCandidate, RestoreGate, RestoreRoot, Goto
  <2>3. QED
    BY <1>1, <2>1, <2>2, FreshFrame DEF DecideInv
<1>7. PlaceInv'
  <2>1. mode = "recover" => receipt.site = site
    BY <1>1 DEF DecideInv, PlaceInv, InRestore
  <2>2. CASE RestoreCandidate
    BY <1>3, <2>1, <2>2 DEF RestoreCandidate, Goto, PlaceInv, Merging, Building, InUndo
  <2>3. CASE RestoreGate
    BY <1>3, <2>1, <2>3 DEF RestoreGate, Goto, DecideInv, PlaceInv, Merging, Building, InUndo
  <2>4. CASE RestoreRoot
    BY <1>3, <2>1, <2>4 DEF RestoreRoot, Goto, DecideInv, PlaceInv, Artifacts, Merging, Building,
                            InUndo
  <2>5. QED
    BY <2>2, <2>3, <2>4
<1>8. QED
  BY <1>5, <1>6, <1>7 DEF DecideInv

-----------------------------------------------------------------------------
(* The site, the recovery and the journal.                                 *)

LEMMA SiteDecides ==
    ASSUME SafeInv, ServedInv, RunInv, DecideInv, SwitchSite \/ RecordSite
    PROVE  DecideInv'
<1>1. pc \in Building /\ UNCHANGED <<linkVars, journal, saved, pubVars, mode>>
  BY DEF SwitchSite, RecordSite, txnVars, Building
<1>2. mode = "publish" /\ journal.state = "selected" /\ AllDone /\ gate.run = journal.run
  BY <1>1 DEF DecideInv, PlaceInv, SafeInv, CoreInv, PcInv, PublishInv, RunInv
<1>3. saved # None /\ saved.run # journal.run /\ Undecided
      /\ \A w \in Wikis : saved.vec[w] = Shown(w)
  BY <1>1, <1>2 DEF DecideInv, Reversible, Unpublished, Building, Deciding
<1>4. /\ journal'.state = "selected" /\ journal'.run = journal.run /\ saved' = saved
      /\ \A w \in Wikis : Shown(w)' = Shown(w)
  BY <1>1, <1>2, ShownFrame DEF linkVars
<1>5. UNCHANGED <<Verified, AllDone, gate>>
  BY <1>1, SameLinks DEF Verified, pubVars, linkVars
<1>6. Undecided' \/ (Decided /\ pc \in Deciding)' => Reversible'
  BY <1>3, <1>4 DEF Reversible
<1>7. Final'
  BY <1>4 DEF Final, Terminal
<1>8. FreshInv'
  BY <1>1, <1>2 DEF FreshInv, Fresh, SwitchSite, RecordSite, Goto
<1>9. CASE SwitchSite
  <2>1. pc' = "sitereceipt" /\ site' = gate /\ UNCHANGED <<receipt, siteNewer>> /\ Verified
    BY <1>9 DEF SwitchSite, Goto, txnVars
  <2>2. Undecided'
    BY <1>2, <1>3, <1>4, <1>5, <2>1 DEF Undecided
  <2>3. PlaceInv'
    BY <1>1, <1>2, <1>5, <2>1 DEF PlaceInv, InUndo, InRestore, Restoring
  <2>4. QED
    BY <1>6, <1>7, <1>8, <2>2, <2>3 DEF DecideInv
<1>10. CASE RecordSite
  <2>1. pc = "sitereceipt" /\ pc' = "commit" /\ receipt'.site = site /\ UNCHANGED site
    BY <1>2, <1>10 DEF RecordSite, Goto
  <2>2. site = gate /\ Verified
    BY <2>1 DEF ServedInv, DecideInv, PlaceInv
  <2>3. Decided'
    BY <1>2, <1>4, <1>5, <2>1, <2>2 DEF Decided
  <2>4. PlaceInv'
    BY <1>1, <1>2, <2>1, <2>3 DEF PlaceInv, InUndo, InRestore, Restoring
  <2>5. QED
    BY <1>6, <1>7, <1>8, <2>1, <2>3, <2>4 DEF DecideInv, Deciding
<1>11. QED
  BY <1>9, <1>10

\* The recovery commits what was recorded and rolls the rest back.
LEMMA RecoverDecides ==
    ASSUME SafeInv, ServedInv, DecideInv, Recover
    PROVE  DecideInv'
<1>1. pc = "recover" /\ UNCHANGED <<linkVars, txnVars, pubVars, siteVars, run>>
  BY DEF Recover
<1>2. /\ UNCHANGED <<journal, saved, receipt, site, cand, gate, Undecided, RunsOnDisk,
                     Artifacts(saved)>>
      /\ UNCHANGED <<Verified, Decided, Final>>
  BY <1>1, SamePublication, SameDecision
<1>3. \A w \in Wikis : Shown(w)' = Shown(w)
  BY <1>1, <1>2, ShownFrame DEF linkVars
<1>4. FreshInv'
  BY <1>1, <1>2, FreshFrame DEF DecideInv, Fresh
<1>5. ASSUME Decided PROVE Audit \notin {"clean", "rollback"}
  <2>1. Switched
    BY <1>1, <1>5 DEF Decided, Switched, Verified
  <2>2. QED
    BY <2>1, SwitchedStays
<1>6. pc' \in Deciding \/ ~Decided => Reversible'
  BY <1>2, <1>3 DEF DecideInv, Reversible
<1>7. CASE Audit \in {"clean", "ambiguous"} /\ pc' \in {"preflight", "idle"}
  <2>1. PlaceInv'
    BY <1>7, PlaceQuiet DEF Merging, Building, InUndo, InRestore, Restoring
  <2>2. Audit = "clean" => pc' = "preflight"
    BY DEF Recover, Goto
  <2>3. Audit = "ambiguous" => pc' = "idle"
    BY DEF Recover, Goto
  <2>4. Reversible'
    BY <1>5, <1>6, <1>7, <2>2, <2>3 DEF Deciding
  <2>5. QED
    BY <1>2, <1>4, <2>1, <2>4 DEF DecideInv
<1>8. CASE Audit = "commit" /\ pc' = "commit" /\ mode' = "recover"
  <2>1. Reversible'
    BY <1>6, <1>8 DEF Deciding
  <2>2. receipt.site.run = journal.run
    BY <1>8, AuditCommits DEF ServedInv
  <2>3. journal.state \in Unpublished => Decided
    BY <2>2 DEF DecideInv, Reversible, Undecided
  <2>4. PlaceInv'
    BY <1>2, <1>8, <2>3 DEF PlaceInv, Merging, Building, InUndo, InRestore, Restoring
  <2>5. QED
    BY <1>2, <1>4, <2>1, <2>4 DEF DecideInv
<1>9. CASE Audit = "rollback" /\ pc' = "undo" /\ mode' = "recover"
  <2>1. Reversible'
    BY <1>5, <1>6, <1>9
  <2>2. receipt.site = site
    BY <1>9 DEF Audit, SiteReceiptValid
  <2>3. PlaceInv'
    BY <1>2, <1>9, <2>2 DEF PlaceInv, Merging, Building, InRestore, Restoring
  <2>4. QED
    BY <1>2, <1>4, <2>1, <2>3 DEF DecideInv
<1>10. QED
  BY <1>7, <1>8, <1>9 DEF Recover, Goto

\* A transaction without a selection starts and ends with a publication that
\* verifies.
LEMMA NoOpDecides ==
    ASSUME SafeInv, DecideInv, NoOp
    PROVE  DecideInv'
<1>1. /\ pc = "select" /\ pc' = "idle" /\ Verified
      /\ journal' = [run |-> run, state |-> "no_op", entries |-> NoEntries]
      /\ UNCHANGED <<linkVars, pubVars, siteVars>>
  BY DEF NoOp, WriteJournal, Goto
<1>2. journal.state \in Terminal
  BY <1>1 DEF SafeInv, CoreInv, PcInv, PublishInv
<1>3. journal'.state = "no_op"
  BY <1>1
<1>4. UNCHANGED <<Verified, receipt, site, gate>>
  BY <1>1 DEF Verified, linkVars, pubVars, siteVars
<1>5. Final'
  BY <1>1, <1>2, <1>3, <1>4 DEF DecideInv, Final
<1>6. Reversible'
  BY <1>3 DEF Reversible, Unpublished
<1>7. PlaceInv' /\ FreshInv'
  BY <1>1, PlaceQuiet DEF FreshInv, Fresh, Merging, Building, InUndo, InRestore, Restoring
<1>8. QED
  BY <1>5, <1>6, <1>7 DEF DecideInv

LEMMA ActivateDecides ==
    ASSUME SafeInv, SafeInv', DecideInv, Activate
    PROVE  DecideInv'
<1>1. /\ pc = "select" /\ pc' = "activate" /\ UNCHANGED <<pubVars, siteVars, run, mode, active>>
      /\ siteNewer' = FALSE /\ saved' = IF Verified THEN gate ELSE None
      /\ journal'.state = "activating" /\ journal'.run = run
  BY DEF Activate, WriteJournal, Goto
<1>2. journal.state \in Terminal /\ mode = "publish"
  BY <1>1 DEF SafeInv, CoreInv, PcInv, PublishInv
<1>3. Verified /\ (receipt.site = site => site = gate)
  BY <1>2 DEF DecideInv, Final
<1>4. saved' = gate /\ gate \in Publications
  BY <1>1, <1>3, TypeParts DEF SafeInv, PubType
<1>5. saved' # None
  BY <1>4, Constants
<1>6. run \notin RunsOnDisk
  BY <1>1 DEF DecideInv, FreshInv, Fresh
<1>7. gate.run # run /\ receipt.site.run # run
  BY <1>6 DEF RunsOnDisk
<1>8. UNCHANGED <<root, cand, gate, site, receipt>>
  BY <1>1 DEF pubVars, siteVars
<1>9. ASSUME NEW w \in Wikis PROVE saved'.vec[w] = Shown(w)'
  <2>1. Shown(w) = active[w]
    BY <1>2 DEF Shown, Terminal, Unpublished
  <2>2. Shown(w)' = Shown(w)
    BY JournalShown DEF JournalStep
  <2>3. QED
    BY <1>3, <1>4, <2>1, <2>2 DEF Verified
<1>10. Artifacts(saved)'
  BY <1>3, <1>4, <1>8 DEF Artifacts, Verified
<1>11. Undecided'
  BY <1>1, <1>3, <1>4, <1>7, <1>8 DEF Undecided
<1>12. Reversible'
  BY <1>1, <1>4, <1>5, <1>7, <1>9, <1>10, <1>11 DEF Reversible
<1>13. Final'
  BY <1>1 DEF Final, Terminal
<1>14. PlaceInv' /\ FreshInv'
  BY <1>1, <1>2, PlaceQuiet DEF FreshInv, Fresh, Merging, Building, InUndo, InRestore, Restoring
<1>15. QED
  BY <1>12, <1>13, <1>14 DEF DecideInv

LEMMA SelectDecides ==
    ASSUME SafeInv, SafeInv', DecideInv, Select
    PROVE  DecideInv'
<1>1. /\ pc = "activate" /\ pc' \in {"repair", "merge"} /\ siteNewer' = FALSE
      /\ journal' = [journal EXCEPT !.state = "selected"]
      /\ UNCHANGED <<linkVars, pubVars, siteVars, saved, mode>>
  BY DEF Select, WriteJournal, Goto
<1>2. journal'.state = "selected" /\ journal'.run = journal.run
  BY <1>1, TypeParts DEF SafeInv, TxnType
<1>3. journal.state = "activating" /\ mode = "publish"
  BY <1>1 DEF SafeInv, CoreInv, PcInv, ActivateInv, Activating
<1>4. UNCHANGED <<gate, site, receipt>>
  BY <1>1 DEF pubVars, siteVars
<1>5. saved # None /\ saved.run # journal.run /\ Undecided
      /\ \A w \in Wikis : saved.vec[w] = Shown(w)
  BY <1>1, <1>3 DEF DecideInv, Reversible, Unpublished, Deciding
<1>6. Undecided'
  BY <1>1, <1>2, <1>4, <1>5 DEF Undecided
<1>7. \A w \in Wikis : Shown(w)' = Shown(w)
  BY JournalShown DEF JournalStep
<1>8. Reversible'
  BY <1>1, <1>2, <1>5, <1>6, <1>7 DEF Reversible
<1>9. Final'
  BY <1>2 DEF Final, Terminal
<1>10. PlaceInv' /\ FreshInv'
  BY <1>1, <1>3 DEF PlaceInv, FreshInv, Fresh, Building, InUndo, InRestore, Restoring
<1>11. QED
  BY <1>8, <1>9, <1>10 DEF DecideInv

LEMMA CommitBeginDecides ==
    ASSUME SafeInv, DecideInv, CommitBegin
    PROVE  DecideInv'
<1>1. /\ pc = "commit" /\ pc' = "publish" /\ Verified /\ gate.run = journal.run
      /\ journal.state \in {"selected", "committing"}
      /\ UNCHANGED <<linkVars, pubVars, siteVars, saved, run, mode>>
  BY DEF CommitBegin, CommitAllowed, Goto
<1>2. journal'.state = "committing" /\ journal'.run = journal.run
  <2>1. \/ UNCHANGED journal /\ journal.state = "committing"
        \/ journal' = [journal EXCEPT !.state = "committing"]
    BY <1>1 DEF CommitBegin, WriteJournal
  <2>2. QED
    BY <2>1, TypeParts DEF SafeInv, TxnType
<1>3. UNCHANGED <<Verified, root, cand, gate, site, receipt>>
  BY <1>1 DEF Verified, linkVars, pubVars, siteVars
<1>4. site = gate /\ receipt.site = site
  BY <1>1 DEF DecideInv, PlaceInv, Final, Decided, Unpublished
<1>5. Final'
  BY <1>1, <1>2, <1>3, <1>4 DEF Final, Terminal
<1>6. Reversible'
  BY <1>2 DEF Reversible, Unpublished
<1>7. FreshInv'
  <2>1. UNCHANGED RunsOnDisk
    BY <1>1, <1>2, <1>3 DEF RunsOnDisk
  <2>2. QED
    BY <1>1, <2>1, FreshFrame DEF DecideInv, Fresh
<1>8. PlaceInv'
  BY <1>1, PlaceQuiet DEF Merging, Building, InUndo, InRestore, Restoring
<1>9. QED
  BY <1>5, <1>6, <1>7, <1>8 DEF DecideInv

\* The end of a commit and of a rollback: what was saved is given up.
LEMMA ClosedDecides ==
    ASSUME SafeInv, FreshInv, NEW s \in Terminal, journal' = [journal EXCEPT !.state = s],
           saved' = None, UNCHANGED <<linkVars, pubVars, siteVars, run>>,
           Verified, receipt.site = site => site = gate,
           pc' \in {"preflight", "idle"}, pc' = "preflight" => mode = "recover" /\ pc # "idle"
    PROVE  DecideInv'
<1>1. journal'.state = s /\ journal'.run = journal.run
  BY TypeParts DEF SafeInv, TxnType
<1>2. UNCHANGED <<Verified, root, cand, gate, site, receipt>>
  BY DEF Verified, linkVars, pubVars, siteVars
<1>3. Final' /\ Reversible'
  BY <1>1, <1>2 DEF Final, Reversible, Terminal, Unpublished
<1>4. FreshInv'
  <2>1. RunsOnDisk' \subseteq RunsOnDisk
    BY <1>1, <1>2 DEF RunsOnDisk
  <2>2. Fresh' => Fresh
    BY DEF Fresh
  <2>3. QED
    BY <2>1, <2>2, FreshFrame
<1>5. PlaceInv'
  BY PlaceQuiet DEF Merging, Building, InUndo, InRestore, Restoring
<1>6. QED
  BY <1>3, <1>4, <1>5 DEF DecideInv

LEMMA EndedDecides ==
    ASSUME SafeInv, ServedInv, DecideInv, CommitEnd \/ RolledBack
    PROVE  DecideInv'
<1>1. CASE CommitEnd
  <2>1. /\ pc = "publish" /\ pc' = IF mode = "recover" THEN "preflight" ELSE "idle"
        /\ journal' = [journal EXCEPT !.state = "committed"] /\ saved' = None
        /\ UNCHANGED <<linkVars, pubVars, siteVars, run>>
    BY <1>1 DEF CommitEnd, WriteJournal, Goto
  <2>2. journal.state = "committing"
    BY <2>1 DEF SafeInv, CoreInv, PcInv, CommitInv, InCommit
  <2>3. Verified /\ site = gate
    BY <2>2 DEF DecideInv, Final
  <2>4. QED
    BY <2>1, <2>3, ClosedDecides DEF DecideInv, Terminal
<1>2. CASE RolledBack
  <2>1. /\ pc = "rolledback"
        /\ journal' = [journal EXCEPT !.state = "rolled_back"] /\ saved' = None
        /\ UNCHANGED <<linkVars, pubVars, siteVars, run>>
        /\ pc' = CASE mode = "recover" -> IF gate.run = run THEN "build" ELSE "preflight"
                   [] mode = "wrapper" -> IF saved = None THEN "merge" ELSE "idle"
                   [] mode \in {"activation", "prepare"} -> "idle"
    BY <1>2 DEF RolledBack, WriteJournal, Goto
  <2>2. mode # "publish" /\ mode \in {"publish", "recover", "activation", "prepare", "wrapper"}
        /\ saved # None
    BY <2>1, TypeParts DEF SafeInv, CoreInv, PcInv, UndoInv, InRestore, CtlType, DecideInv, Reversible
  <2>3. mode = "recover" => gate.run # run
    BY <2>1 DEF DecideInv, FreshInv, Fresh, RunsOnDisk
  <2>4. pc' = IF mode = "recover" THEN "preflight" ELSE "idle"
    <3>1. CASE mode = "recover"
      BY <2>1, <2>3, <3>1
    <3>2. CASE mode = "wrapper"
      BY <2>1, <2>2, <3>2
    <3>3. CASE mode \in {"activation", "prepare"}
      BY <2>1, <3>3
    <3>4. QED
      BY <2>2, <3>1, <3>2, <3>3
  <2>5. Verified /\ (receipt.site = site => site = gate)
    BY <2>1, RestoredIntact
  <2>6. QED
    BY <2>1, <2>4, <2>5, ClosedDecides DEF DecideInv, Terminal
<1>3. QED
  BY <1>1, <1>2

\* A step beside the publisher leaves the publication alone, unless an artifact
\* is damaged.
LEMMA StepsUndamaged ==
    ASSUME [Next]_vars, "damage" \notin FaultKinds
    PROVE  \/ UNCHANGED <<linkVars, txnVars, pubVars, siteVars, run, pc, mode>>
           \/ AsideStep \/ JournalStep
           \/ Recover \/ SwitchSite \/ RecordSite \/ CommitBegin
<1>1. ASSUME NEW w \in Wikis, RebuildIndex(w) \/ Prepare(w) \/ PrepCrash(w)
      PROVE  UNCHANGED <<linkVars, txnVars, pubVars, siteVars, run, pc, mode>>
  <2>1. CASE PrepBegin(w) \/ PrepValidate(w) \/ PrepReceipt(w)
    BY <2>1 DEF PrepBegin, PrepValidate, PrepReceipt, ctlVars
  <2>2. CASE PrepRecord(w) \/ PrepIndex(w) \/ PrepFails(w)
    BY <2>2 DEF PrepRecord, PrepIndex, PrepFails, ctlVars
  <2>3. CASE PrepCrash(w) \/ RebuildIndex(w)
    BY <2>3 DEF PrepCrash, RebuildIndex, ctlVars
  <2>4. QED
    BY <1>1, <2>1, <2>2, <2>3 DEF Prepare
<1>2. ~Damage
  BY DEF Damage, Fault
<1>3. CASE Publisher
  BY <1>1, <1>3 DEF Publisher, AsideStep, JournalStep
<1>4. CASE Failures \/ Crash
  BY <1>4 DEF AsideStep
<1>5. CASE UNCHANGED vars
  BY <1>5 DEF vars, ctlVars
<1>6. QED
  BY <1>1, <1>2, <1>3, <1>4, <1>5 DEF Next

LEMMA DecideStep ==
    ASSUME SafeInv, SafeInv', ServedInv, RunInv, DecideInv, [Next]_vars,
           "damage" \notin FaultKinds
    PROVE  DecideInv'
<1>1. CASE AsideStep
  <2>1. CASE Begin \/ Preflight \/ Repair \/ CommitRefused \/ Failures \/ Crash
    BY <2>1, EndDecides
  <2>2. CASE MergeBegin \/ MergeEnd \/ RecordCandidate \/ Validate
    BY <2>2, MergeDecides
  <2>3. CASE RestoreCandidate \/ RestoreGate \/ RestoreRoot
    BY <2>3, RestoreDecides
  <2>4. CASE UndoEnd \/ AfterRestore
    BY <2>4, UndoneDecides
  <2>5. CASE \E w \in Wikis : Activation(w) \/ Committing(w) \/ Undoing(w)
    BY <2>5, WikiDecides
  <2>6. QED
    BY <1>1, <2>1, <2>2, <2>3, <2>4, <2>5 DEF AsideStep
<1>2. CASE JournalStep
  BY <1>2, NoOpDecides, ActivateDecides, SelectDecides, EndedDecides DEF JournalStep
<1>3. CASE Recover \/ SwitchSite \/ RecordSite \/ CommitBegin
  BY <1>3, RecoverDecides, SiteDecides, CommitBeginDecides
<1>4. QED
  BY <1>1, <1>2, <1>3, StepsUndamaged, QuietDecides

LEMMA DecideHolds ==
    ASSUME "damage" \notin FaultKinds
    PROVE  Spec => [](SafeInv /\ ServedInv /\ DecideInv)
<1>1. Init => RunInv /\ DecideInv
  <2> SUFFICES ASSUME Init PROVE RunInv /\ DecideInv
    OBVIOUS
  <2>1. pc = "idle" /\ journal.state = "committed" /\ mode = "publish"
    BY DEF Init
  <2>2. RunInv /\ PlaceInv /\ FreshInv
    BY <2>1 DEF RunInv, PlaceInv, FreshInv, Fresh, Activating, Merging, Building,
                InUndo, InRestore, Restoring
  <2>3. Verified /\ site = gate
    BY DEF Init, Verified, FirstPublication
  <2>4. QED
    BY <2>1, <2>2, <2>3 DEF DecideInv, Reversible, Final, Unpublished
<1>2. SafeInv /\ SafeInv' /\ ServedInv /\ RunInv /\ DecideInv /\ [Next]_vars => RunInv' /\ DecideInv'
  BY RunStep, DecideStep
<1>3. QED
  BY <1>1, <1>2, ServedHolds, PTL DEF Spec

\* What is live, is in the receipt of the site and carries the run of the
\* transaction is committed.
LEMMA AuditOfRecorded ==
    ASSUME SafeInv, ServedInv, journal.state \notin Terminal, AllDone, Verified,
           gate.run = journal.run, site = gate, receipt.site = site
    PROVE  Audit = "commit"
<1>1. ASSUME NEW w \in Selected
      PROVE  /\ SelectedLive(w) /\ Authentic(w, E(w).cand) /\ snap[w] = SnapshotOf[E(w).cand]
             /\ SnapshotOf[gate.vec[w]] = SnapshotOf[E(w).cand]
  <2>1. w \in Wikis /\ Done(w)
    BY DEF Selected, AllDone
  <2>2. journal.state \in Unpublished \cup {"committing"}
    BY TypeParts DEF SafeInv, TxnType
  <2>3. Authentic(w, E(w).cand)
    BY <2>1, <2>2 DEF SafeInv, CoreInv, WikiInv, Pledged, Switching
  <2>4. QED
    BY <2>1, <2>3 DEF Done, SelectedLive, Verified
<1>2. SiteMatches
  BY DEF SiteMatches, SiteReceiptValid, ServedInv, ReceiptInv, Verified
<1>3. QED
  BY <1>1, <1>2 DEF Audit

\* What the receipt and the gate say of an earlier publication is rolled back.
LEMMA AuditOfUndecided ==
    ASSUME SafeInv, ServedInv, journal.state \in Unpublished, saved.run # journal.run,
           Undecided, cand = gate, receipt.site = site
    PROVE  Audit = "rollback"
<1>1. saved = site /\ site.run # journal.run /\ ~siteNewer
      /\ receipt.gate = site /\ receipt.cand = site
  BY DEF Undecided, ServedInv, ReceiptInv
<1>2. ASSUME NEW w \in Selected PROVE BackupRecoverable(w)
  <2>1. w \in Wikis /\ E(w).prev \in Cands
    BY EntryType DEF SafeInv
  <2>2. Pledged(w)
    BY <2>1 DEF SafeInv, CoreInv, WikiInv
  <2>3. CASE Back(w)
    BY <2>2, <2>3 DEF Pledged, Back, BackupRecoverable, SelectedLive, PreviousLive
  <2>4. CASE backup[w] = E(w).prev
    BY <2>1, <2>4, Constants DEF BackupRecoverable
  <2>5. QED
    BY <2>2, <2>3, <2>4 DEF Pledged
<1>3. journal.state \notin Terminal
  BY DEF Terminal, Unpublished
<1>4. CASE gate.run = journal.run
  <2>1. ~SiteMatches
    BY <1>1, <1>4 DEF SiteMatches
  <2>2. QED
    BY <1>2, <1>3, <1>4, <2>1 DEF Audit, SiteReceiptValid
<1>5. CASE gate.run # journal.run
  <2>1. gate = site
    BY <1>1, <1>5 DEF Undecided
  <2>2. SiteMatches
    BY <1>1, <2>1 DEF SiteMatches, SiteReceiptValid
  <2>3. QED
    BY <1>1, <1>2, <1>3, <1>5, <2>2 DEF Audit, SiteReceiptValid
<1>6. QED
  BY <1>4, <1>5

\* Recovery decides every crash and every error, in any order and number, except
\* between the candidate file and the gate, and between the switch of the site
\* and its receipt.  A merged artifact that is damaged behind the publisher's
\* back is another matter.
THEOREM OnlyTwoBlindWindowsHolds ==
    ASSUME "damage" \notin FaultKinds
    PROVE  Spec => []OnlyTwoBlindWindows
<1>1. SafeInv /\ ServedInv /\ DecideInv => OnlyTwoBlindWindows
  <2> SUFFICES ASSUME SafeInv, ServedInv, DecideInv, pc \in {"idle", "recover"},
                      cand = gate, receipt.site = site
               PROVE  Audit \in {"clean", "commit", "rollback"}
    BY DEF OnlyTwoBlindWindows, Stuck
  <2>1. CASE journal.state \in Terminal
    BY <2>1 DEF Audit
  <2>2. CASE journal.state = "committing"
    <3>1. AllDone
      BY <2>2 DEF SafeInv, CoreInv, WikiInv, AllDone, Switching, Selected
    <3>2. QED
      BY <2>2, <3>1, AuditOfRecorded DEF DecideInv, Final, Terminal
  <2>3. CASE journal.state \in Unpublished
    <3>1. CASE Decided
      BY <2>3, <3>1, AuditOfRecorded DEF Decided, Terminal
    <3>2. CASE Undecided
      BY <2>3, <3>2, AuditOfUndecided DEF DecideInv, Reversible
    <3>3. QED
      BY <2>3, <3>1, <3>2 DEF DecideInv, Reversible
  <2>4. QED
    BY <2>1, <2>2, <2>3, TypeParts DEF SafeInv, TxnType
<1>2. QED
  BY <1>1, DecideHolds, PTL
==============================================================================
