------------------------- MODULE CandidateStoreProofs -------------------------
(***************************************************************************)
(* Proofs about CandidateStore, for any number of candidates, snapshots,   *)
(* algorithm versions and events.                                          *)
(***************************************************************************)
EXTENDS CandidateStore, NaturalSets

-----------------------------------------------------------------------------
(* The inductive invariant.                                                *)

Files == {"none", "full", "husk", "retired"}
Candidate ==
    [snap : Snaps, alg : 0..MaxAlg, files : Files, rec : GStates, old : BOOLEAN, line : Seq(Cands)]
Input ==
    [data : {"none", "partial", "whole"}, man : BOOLEAN, comp : BOOLEAN, plan : BOOLEAN,
     old : BOOLEAN, fits : SUBSET Cands]
Receipt == [state : {"none", "authorized", "applied"}, cand : Cands \cup {None}]

StoreType == cand \in [Cands -> Candidate] /\ ready \in [Cands -> SUBSET Cands]
DataType == src \in [Snaps -> Input] /\ receipt \in [Snaps -> Receipt]
SiteType ==
    /\ live \in Cands /\ index \in [newest : Cands \cup {None}, active : Cands \cup {None}]
    /\ upstream \in [snap : Snaps, alg : 1..MaxAlg]
PrepType ==
    /\ prep \in [pc : {"idle", "plan", "source", "ingest", "compute", "validate", "receipt",
                       "record", "index"},
                 cand : Cands \cup {None}, snap : Snaps, alg : 1..MaxAlg, locked : BOOLEAN]
    /\ lock \in BOOLEAN
PubType ==
    pub \in [pc : {"idle", "commit", "authorize", "data", "patrol", "compaction", "manifest",
                   "applied"},
             cand : Cands \cup {None}]
MigType ==
    mig \in [pc : {"idle", "receipt", "record", "index"}, cand : Cands \cup {None}, alg : 1..MaxAlg]
CleanType ==
    clean \in [pc : {"idle", "scan", "check", "write", "remove", "sources"},
               cand : Cands \cup {None}, live : Cands \cup {None}, rec : GStates,
               snaps : SUBSET Snaps]
OpType ==
    op \in [pc : {"idle", "retire", "rename", "index"}, cand : Cands \cup {None}, alg : 1..MaxAlg]
PastType == events \in 0..MaxEvents /\ raced \subseteq Cands /\ orphans \subseteq Cands

TypeInv ==
    /\ StoreType /\ DataType /\ SiteType /\ PrepType /\ PubType /\ MigType /\ CleanType
    /\ OpType /\ PastType

Line(c) == cand[c].line
Origins(c) == ToSet(Line(c))
Known(c) == c \in Cands /\ cand[c].rec # "none"

\* A candidate that was never begun has left no trace; the others head their own
\* lineage, and a ready.json has a directory.
CandOf(c) ==
    /\ cand[c].rec = "none" => /\ ~IsReady(c) /\ cand[c].files = "none"
                               /\ Line(c) = <<>> /\ c \notin raced
    /\ cand[c].rec # "none" => Len(Line(c)) > 0 /\ Line(c)[1] = c
    /\ IsReady(c) => cand[c].files # "none"
    /\ c \in raced => cand[c].rec = "retired"

\* The lineage of what a candidate was migrated from is the rest of its own.
RestOf(c, j) ==
    LET a == Line(c)[j]
    IN /\ Known(a) /\ Len(Line(a)) = Len(Line(c)) - j + 1
       /\ \A i \in 1..Len(Line(a)) : Line(a)[i] = Line(c)[j + i - 1]

\* Nobody works on it any more, and it loses its ready.json before its record says
\* retired, but for the races.
Writing == {"source", "ingest", "compute", "validate", "receipt"}
Settled(a) ==
    /\ cand[a].rec \notin Resumable
    /\ cand[a].rec = "retired" => a \in raced \/ ~IsReady(a)
    /\ prep.pc \in Writing => prep.cand # a
    /\ mig.pc = "receipt" => mig.cand # a

LineOf(c) ==
    \A j \in 1..Len(Line(c)) : RestOf(c, j) /\ (j > 1 => Settled(Line(c)[j]))

\* The order of the receipts is total.
OrderInv ==
    /\ \A c \in Cands : IsReady(c) => c \in ready[c]
    /\ \A c, d \in Cands : d \in ready[c] => IsReady(d) /\ ready[d] \subseteq ready[c]
    /\ \A c, d \in Cands : IsReady(c) /\ IsReady(d) /\ c # d => (c \in ready[d] <=> d \notin ready[c])

\* All that a ready candidate was migrated from is ready.
WholeOf(c) ==
    IsReady(c) \/ (mig.pc = "receipt" /\ mig.cand = c) =>
        \/ \A a \in Origins(c) \ {c} : IsReady(a)
        \/ Origins(c) \cap (raced \cup orphans) # {}

\* What each actor knows of its candidate.
ActorInv ==
    /\ prep.pc \notin {"idle", "plan"} => Known(prep.cand)
    /\ prep.pc \in Writing => ~IsReady(prep.cand) /\ Len(Line(prep.cand)) = 1
    /\ mig.pc # "idle" => Known(mig.cand)
    /\ mig.pc = "receipt" => ~IsReady(mig.cand) /\ (prep.pc \in Writing => mig.cand # prep.cand)
    /\ clean.pc \in {"check", "write", "remove"} => Known(clean.cand)
    /\ clean.pc = "write" => clean.rec \in Resumable
    /\ clean.pc = "remove" => cand[clean.cand].rec = "retired"
    /\ op.pc # "idle" => Known(op.cand)
    /\ op.pc = "rename" => op.cand \in raced

StoreInv ==
    /\ TypeInv /\ ActorInv /\ OrderInv
    /\ \A c \in Cands : CandOf(c) /\ LineOf(c) /\ WholeOf(c)

\* What is served.
Purging == {"data", "patrol", "compaction", "manifest", "applied"}
PubInv ==
    /\ Known(live)
    /\ pub.pc = "commit" => Known(pub.cand) /\ pub.cand # live
    /\ pub.pc \in Purging => receipt[Pointer].cand = live

\* The inputs of the served snapshot are whole for the served candidate until a purge
\* has been authorized.
SourceInv ==
    /\ \A s \in Snaps : src[s].man => src[s].plan
    /\ src[Pointer].plan
    /\ receipt[Pointer].cand # None \/ (Proven(Pointer) /\ live \in src[Pointer].fits)

LiveInv == PubInv /\ SourceInv /\ LiveAuthenticated /\ LiveIntact

Inv == StoreInv /\ LiveInv

-----------------------------------------------------------------------------
(* The constants, and the operations on the store.                         *)

\* What the proofs use of the constants.
LEMMA Constants ==
    /\ Cands \subseteq Nat \ {0} /\ Snaps \subseteq Nat /\ None \notin Cands
    /\ 1 \in Cands /\ 2 \in Cands /\ 1 \in Snaps
    /\ MaxAlg \in Nat /\ 1 \in 1..MaxAlg /\ 2 \in 1..MaxAlg /\ MaxSnap \in Nat /\ MaxEvents \in Nat
BY StoreAssumption DEF Cands, Snaps, None

LEMMA ReceiptsAre == Receipts = {c \in Cands : ready[c] # {}}
BY DEF Receipts, IsReady

\* A record is replaced, and nothing else of the candidate.
LEMMA Recorded ==
    ASSUME StoreType, NEW c \in Cands, NEW s \in GStates, Record(c, s)
    PROVE  /\ cand' \in [Cands -> Candidate]
           /\ \A d \in Cands \ {c} : cand'[d] = cand[d]
           /\ cand'[c].rec = s /\ cand'[c].snap = cand[c].snap /\ cand'[c].alg = cand[c].alg
           /\ cand'[c].files = cand[c].files /\ cand'[c].line = cand[c].line
BY DEF StoreType, Candidate, Record

\* A reconciliation makes resumable records ready.
LEMMA ReconciledStore ==
    ASSUME StoreType, NEW S
    PROVE  /\ Reconciled(S) \in [Cands -> Candidate]
           /\ \A d \in Cands :
                  /\ Reconciled(S)[d].snap = cand[d].snap /\ Reconciled(S)[d].alg = cand[d].alg
                  /\ Reconciled(S)[d].files = cand[d].files
                  /\ Reconciled(S)[d].line = cand[d].line
                  /\ Reconciled(S)[d].rec =
                         IF d \in S /\ cand[d].rec \in Resumable THEN "ready" ELSE cand[d].rec
<1>1. \A d \in Cands : cand[d] \in Candidate
  BY DEF StoreType
<1>2. ASSUME NEW d \in Cands
      PROVE  /\ Reconciled(S)[d] \in Candidate
             /\ Reconciled(S)[d].snap = cand[d].snap /\ Reconciled(S)[d].alg = cand[d].alg
             /\ Reconciled(S)[d].files = cand[d].files
             /\ Reconciled(S)[d].line = cand[d].line
             /\ Reconciled(S)[d].rec =
                    IF d \in S /\ cand[d].rec \in Resumable THEN "ready" ELSE cand[d].rec
  <2>1. cand[d] \in Candidate /\ "ready" \in GStates
    BY <1>1 DEF GStates
  <2>2. Reconciled(S)[d] = IF d \in S /\ cand[d].rec \in Resumable
                           THEN [cand[d] EXCEPT !.rec = "ready", !.old = FALSE] ELSE cand[d]
    BY DEF Reconciled
  <2>3. CASE d \in S /\ cand[d].rec \in Resumable
    BY <2>1, <2>2, <2>3 DEF Candidate
  <2>4. CASE ~(d \in S /\ cand[d].rec \in Resumable)
    BY <2>1, <2>2, <2>4
  <2>5. QED
    BY <2>3, <2>4
<1>3. QED
  BY <1>2 DEF Reconciled

\* Receipts that appear and go.
LEMMA StampedStore ==
    ASSUME StoreType, NEW c \in Cands, WriteReady(c)
    PROVE  /\ cand' \in [Cands -> Candidate] /\ ready' \in [Cands -> SUBSET Cands]
           /\ \A d \in Cands : /\ cand'[d].rec = cand[d].rec /\ cand'[d].snap = cand[d].snap
                               /\ cand'[d].alg = cand[d].alg /\ cand'[d].line = cand[d].line
           /\ \A d \in Cands \ {c} : cand'[d].files = cand[d].files /\ ready'[d] = ready[d] \ {c}
           /\ cand'[c].files # "none" /\ (cand[c].files # "none" => cand'[c].files = cand[c].files)
           /\ ready'[c] = Receipts \cup {c}
<1>1. ready' \in [Cands -> SUBSET Cands] /\ ready'[c] = Receipts \cup {c}
      /\ \A d \in Cands \ {c} : ready'[d] = ready[d] \ {c}
  BY DEF StoreType, WriteReady, Stamped, Receipts
<1>2. PICK f \in Files : /\ f = IF cand[c].files = "none" THEN "husk" ELSE cand[c].files
                         /\ cand' = [cand EXCEPT ![c].files = f]
  BY DEF StoreType, WriteReady, Candidate, Files
<1>3. cand \in [Cands -> Candidate] /\ f # "none"
  BY <1>2 DEF StoreType
<1>4. cand' \in [Cands -> Candidate] /\ \A d \in Cands \ {c} : cand'[d] = cand[d]
  BY <1>2, <1>3 DEF Candidate
<1>5. /\ cand'[c].rec = cand[c].rec /\ cand'[c].snap = cand[c].snap
      /\ cand'[c].alg = cand[c].alg /\ cand'[c].line = cand[c].line /\ cand'[c].files = f
  BY <1>2, <1>3 DEF Candidate
<1>6. QED
  BY <1>1, <1>2, <1>3, <1>4, <1>5

LEMMA WithoutStore ==
    ASSUME StoreType, NEW S, ready' = Without(S)
    PROVE  /\ ready' \in [Cands -> SUBSET Cands]
           /\ \A d \in Cands \ S : ready'[d] = ready[d] \ S
           /\ \A d \in S \cap Cands : ready'[d] = {}
BY DEF StoreType, Without

-----------------------------------------------------------------------------
(* The selection.                                                          *)

\* A set of ready candidates has a newest one.
LEMMA NewestIn ==
    ASSUME StoreType, OrderInv, NEW S \in SUBSET Receipts, S # {}
    PROVE  NewestOf(S) \in S /\ \A d \in S \ {NewestOf(S)} : Newer(NewestOf(S), d)
<1>1. S \subseteq Cands /\ (\A c \in S : IsReady(c)) /\ \A c \in Cands : cand[c].snap \in Snaps
  BY DEF Receipts, StoreType, Candidate
<1> DEFINE T == {cand[c].snap : c \in S}
<1>2. T \in SUBSET Nat /\ T # {} /\ MaxSnap \in Nat /\ \A k \in T : k <= MaxSnap
  BY <1>1, StoreAssumption DEF Snaps
<1>3. PICK m \in T : \A k \in T : k <= m
  BY <1>2, LargestNat
<1> DEFINE U == {c \in S : cand[c].snap = m}
           R == {Cardinality(ready[c]) : c \in U}
<1>4. IsFiniteSet(Cands) /\ Cardinality(Cands) \in Nat
  BY StoreAssumption, FS_Interval, FS_CardinalityType DEF Cands
<1>5. ASSUME NEW c \in Cands
      PROVE  /\ IsFiniteSet(ready[c]) /\ Cardinality(ready[c]) \in Nat
             /\ Cardinality(ready[c]) <= Cardinality(Cands)
  <2>1. ready[c] \in SUBSET Cands
    BY DEF StoreType
  <2>2. QED
    BY <2>1, <1>4, FS_Subset, FS_CardinalityType
<1>6. R \in SUBSET Nat /\ R # {} /\ \A k \in R : k <= Cardinality(Cands)
  BY <1>1, <1>5
<1>7. PICK r \in R : \A k \in R : k <= r
  BY <1>4, <1>6, LargestNat
<1>8. PICK c \in U : r = Cardinality(ready[c])
  OBVIOUS
<1>9. ASSUME NEW d \in S, d # c PROVE Newer(c, d)
  <2>1. c \in Cands /\ d \in Cands /\ IsReady(c) /\ IsReady(d) /\ cand[c].snap = m
    BY <1>1
  <2>2. cand[d].snap \in Nat /\ cand[c].snap \in Nat /\ cand[d].snap <= cand[c].snap
    BY <1>1, <1>2, <1>3, <2>1
  <2>3. CASE cand[d].snap # cand[c].snap
    BY <2>2, <2>3 DEF Newer
  <2>4. CASE cand[d].snap = cand[c].snap
    <3>1. SUFFICES ASSUME d \notin ready[c] PROVE FALSE
      BY <2>4 DEF Newer
    <3>2. c \in ready[d] /\ d \in ready[d]
      BY <2>1, <3>1, <1>9 DEF OrderInv
    <3>3. ready[c] \in SUBSET ready[d]
      BY <2>1, <3>2 DEF OrderInv
    <3>4. Cardinality(ready[c]) <= Cardinality(ready[d]) /\ Cardinality(ready[c]) # Cardinality(ready[d])
      BY <3>1, <3>2, <3>3, <1>5, <2>1, FS_Subset
    <3>5. Cardinality(ready[d]) \in R
      BY <2>1, <2>4
    <3>6. Cardinality(ready[d]) <= Cardinality(ready[c])
      BY <3>5, <1>7, <1>8
    <3>7. QED
      BY <3>4, <3>6, <1>5, <2>1
  <2>5. QED
    BY <2>3, <2>4
<1>10. \E x \in S : \A d \in S \ {x} : Newer(x, d)
  BY <1>9
<1>11. QED
  BY <1>10 DEF NewestOf

LEMMA LookedReady ==
    ASSUME StoreType, SiteType, NEW alg
    PROVE  Looked(alg) \subseteq Receipts
<1>1. ASSUME IndexValid(alg) PROVE index.newest \in Receipts
  <2>1. index.newest \in Cands
    BY <1>1 DEF IndexValid, SiteType
  <2>2. IsReady(index.newest)
    BY <1>1 DEF IndexValid, RefOK, Authentic
  <2>3. QED
    BY <2>1, <2>2 DEF Receipts
<1>2. QED
  BY <1>1 DEF Looked, Scanned

\* What is selected is one of those that were looked at, and can be published.
LEMMA SelectionIs ==
    ASSUME StoreType, SiteType, OrderInv, NEW alg, CanSelect(alg)
    PROVE  /\ Selection(alg) \in Receipts /\ Selection(alg) \in Cands
           /\ RefOK(Selection(alg), alg) /\ Selection(alg) \in Looked(alg)
           /\ cand[Selection(alg)].rec \notin Gone
<1>1. CASE IndexValid(alg)
  <2>1. Selection(alg) = index.newest /\ Looked(alg) = {index.newest}
    BY <1>1 DEF Selection, Looked
  <2>2. RefOK(index.newest, alg) /\ cand[index.newest].rec \notin Gone
    BY <1>1 DEF IndexValid
  <2>3. QED
    BY <2>1, <2>2, LookedReady DEF Receipts
<1>2. CASE ~IndexValid(alg)
  <2>1. Selection(alg) = NewestOf(Discoverable(alg)) /\ Looked(alg) = Scanned
    BY <1>2 DEF Selection, Looked
  <2>2. Discoverable(alg) \in SUBSET Receipts /\ Discoverable(alg) # {}
    BY <1>2 DEF CanSelect, Discoverable
  <2>3. Selection(alg) \in Discoverable(alg)
    BY <2>1, <2>2, NewestIn
  <2>4. QED
    BY <2>1, <2>3 DEF Discoverable, Scanned, RefOK, Receipts
<1>3. QED
  BY <1>1, <1>2

-----------------------------------------------------------------------------
(* What a step does to the store.                                          *)

Kin(d) == cand'[d].snap = cand[d].snap /\ cand'[d].line = cand[d].line
Past == <<ready, raced, orphans>>
Better(d) ==
    /\ Kin(d) /\ cand'[d].files = cand[d].files
    /\ \/ cand'[d].rec = cand[d].rec
       \/ cand[d].rec \in Resumable /\ cand'[d].rec \in {"validated", "ready"}

\* Records of candidates in preparation move on;
Advances == UNCHANGED Past /\ \A d \in Cands : Better(d)

\* a candidate is begun, by itself or from a ready one;
Births(c) ==
    /\ UNCHANGED Past /\ \A d \in Cands \ {c} : Better(d)
    /\ cand[c].rec = "none" /\ cand'[c].rec = "building" /\ cand'[c].files = "full"
    /\ \/ cand'[c].line = <<c>> /\ mig' = mig
       \/ \E f \in Receipts \ {c} : /\ cand[f].rec \notin Gone /\ cand'[f].rec \notin Resumable
                                    /\ cand'[c].line = <<c>> \o cand[f].line

\* a record becomes retired, in time or too late;
Retires(c) ==
    /\ UNCHANGED <<ready, orphans>> /\ \A d \in Cands \ {c} : cand'[d] = cand[d]
    /\ Known(c) /\ cand'[c].rec = "retired" /\ Kin(c) /\ cand'[c].files = cand[c].files
    /\ \/ raced' = raced \cup {c}
       \/ raced' = raced /\ cand[c].rec \in Resumable

\* a ready.json is written,
Same(d) == Kin(d) /\ cand'[d].rec = cand[d].rec
Stamps(c) ==
    /\ UNCHANGED <<raced, orphans>> /\ \A d \in Cands : Same(d)
    /\ \A d \in Cands \ {c} : cand'[d].files = cand[d].files
    /\ cand'[c].files # "none" /\ (cand[c].files # "none" => cand'[c].files = cand[c].files)
    /\ \/ prep.pc = "receipt" /\ prep.cand = c /\ prep'.pc = "record" /\ mig' = mig
       \/ mig.pc = "receipt" /\ mig.cand = c /\ mig'.pc = "record" /\ prep' = prep
    /\ ready'[c] = Receipts \cup {c} /\ \A d \in Cands \ {c} : ready'[d] = ready[d] \ {c}

\* or removed with the directory of a retired candidate,
Drops(c) ==
    /\ UNCHANGED <<raced, orphans>> /\ \A d \in Cands : Same(d)
    /\ \A d \in Cands \ {c} : cand'[d].files = cand[d].files
    /\ cand[c].rec = "retired" /\ ready' = Without({c})

\* or with all candidates outside of the rollback window.
Outside == Receipts \ Kept
Commits ==
    /\ pub.pc = "commit" /\ cand[live].rec \in {"ready", "published"} /\ UNCHANGED raced
    /\ cand'[live].rec = "published" /\ \A d \in Cands : Kin(d)
    /\ \/ /\ UNCHANGED <<ready, orphans>>
          /\ \A d \in Cands \ {live} : cand'[d] = cand[d]
          /\ cand'[live].files = cand[live].files
       \/ /\ cand[pub.cand].rec # "retired" /\ cand'[pub.cand].rec = "superseded"
          /\ \A d \in Cands \ Outside : cand'[d].files = cand[d].files
          /\ \A d \in Cands \ (Outside \cup {live, pub.cand}) : cand'[d] = cand[d]
          /\ \A d \in Outside : cand'[d].rec = "retired" /\ cand'[d].files = "none"
          /\ ready' = Without(Outside)
          /\ orphans' = IF mig.pc = "receipt" /\ Origins(mig.cand) \cap Outside # {}
                        THEN orphans \cup {mig.cand} ELSE orphans

Effect ==
    \/ Advances \/ Commits
    \/ \E c \in Cands : Births(c) \/ Retires(c) \/ Stamps(c) \/ Drops(c)

LEMMA QuietEffect == UNCHANGED <<cand, Past>> => Advances
BY DEF Advances, Better, Kin

LEMMA ReconciledEffect ==
    ASSUME StoreType, NEW S, cand' = Reconciled(S), UNCHANGED Past
    PROVE  Advances /\ StoreType'
<1>1. \A d \in Cands : Better(d)
  BY ReconciledStore DEF Better, Kin
<1>2. QED
  BY <1>1, ReconciledStore DEF Advances, StoreType, Past

LEMMA QuietStore ==
    ASSUME StoreType, UNCHANGED <<storeVars, history>>
    PROVE  Effect /\ StoreType'
<1>1. UNCHANGED <<cand, ready, raced, orphans>>
  BY DEF storeVars, history
<1>2. UNCHANGED Past
  BY <1>1 DEF Past
<1>3. QED
  BY <1>1, <1>2, QuietEffect DEF Effect, StoreType

LEMMA QuietPreparation ==
    ASSUME StoreType,
           PrepStart \/ SourceBegin \/ SourceEnd \/ Compute \/ PrepIndex \/ PrepFails \/ PrepCrash
    PROVE  Effect /\ StoreType'
<1>1. UNCHANGED <<storeVars, history>>
  BY DEF PrepStart, SourceBegin, SourceEnd, Compute, PrepIndex, PrepFails, PrepCrash
<1>2. QED
  BY <1>1, QuietStore

LEMMA QuietPublisher ==
    ASSUME StoreType, RetentionApply \/ PubAuthorize \/ PurgeData \/ PurgePatrol
              \/ PurgeCompaction \/ PurgeManifest \/ PurgeApplied \/ PubFails
    PROVE  Effect /\ StoreType'
<1>1. UNCHANGED <<storeVars, history>>
  BY DEF RetentionApply, PubAuthorize, PurgeData, PurgePatrol, PurgeCompaction, PurgeManifest, Purge,
         PurgeApplied, PubFails
<1>2. QED
  BY <1>1, QuietStore

LEMMA QuietOthers ==
    ASSUME StoreType,
           \/ MigIndex \/ MigFails \/ Deploy \/ Release
           \/ CleanBegin \/ CleanLoad \/ CleanCheck \/ CleanScanned \/ CleanSources \/ CleanFails
           \/ OpCheck \/ OpResume \/ OpFails
    PROVE  Effect /\ StoreType'
<1>1. UNCHANGED <<storeVars, history>>
  BY DEF MigIndex, MigFails, Deploy, Release, CleanBegin, CleanLoad, CleanCheck, CleanScanned,
         CleanSources, CleanFails, OpCheck, OpResume, OpFails
<1>2. QED
  BY <1>1, QuietStore

LEMMA ReconcilingStore ==
    ASSUME StoreType, PlanNoOp \/ PubActivate \/ PubNoOp \/ MigResume \/ OpIndex
    PROVE  Effect /\ StoreType'
<1>1. UNCHANGED <<ready, history>> /\ \E S : cand' = Reconciled(S)
  <2>1. CASE PlanNoOp
    BY <2>1 DEF PlanNoOp
  <2>2. CASE PubActivate \/ PubNoOp
    BY <2>2 DEF PubActivate, PubNoOp
  <2>3. CASE MigResume
    BY <2>3 DEF MigResume
  <2>4. CASE OpIndex
    BY <2>4 DEF OpIndex
  <2>5. QED
    BY <2>1, <2>2, <2>3, <2>4
<1>2. UNCHANGED Past
  BY <1>1 DEF Past, history
<1>3. QED
  BY <1>1, <1>2, ReconciledEffect DEF Effect

\* A record replaced while the candidate is resumable.
LEMMA RecordingStore ==
    ASSUME StoreType, ActorInv, PrepValidate \/ PrepRecord \/ MigRecord
    PROVE  Effect /\ StoreType'
<1>1. UNCHANGED <<ready, history>> /\ \E c \in Cands, s \in {"validated", "ready"} :
          Record(c, s) /\ (cand[c].rec \in Resumable \/ cand[c].rec = s)
  <2>1. CASE PrepValidate
    <3>1. prep.cand \in Cands /\ Record(prep.cand, "validated") /\ cand[prep.cand].rec \in Resumable
      BY <2>1 DEF PrepValidate, Validatable, ActorInv, Known, Resumable
    <3>2. QED
      BY <2>1, <3>1 DEF PrepValidate
  <2>2. CASE PrepRecord
    <3>1. /\ prep.cand \in Cands /\ Record(prep.cand, "ready")
          /\ cand[prep.cand].rec \in Resumable \/ cand[prep.cand].rec = "ready"
      BY <2>2 DEF PrepRecord, ActorInv, Known, Resumable
    <3>2. QED
      BY <2>2, <3>1 DEF PrepRecord
  <2>3. CASE MigRecord
    <3>1. mig.cand \in Cands /\ Record(mig.cand, "ready") /\ cand[mig.cand].rec \in Resumable
      BY <2>3 DEF MigRecord, MigRecordable, ActorInv, Known
    <3>2. QED
      BY <2>3, <3>1 DEF MigRecord
  <2>4. QED
    BY <2>1, <2>2, <2>3
<1>2. PICK c \in Cands, s \in {"validated", "ready"} :
          Record(c, s) /\ (cand[c].rec \in Resumable \/ cand[c].rec = s)
  BY <1>1
<1>3. s \in GStates
  BY DEF GStates
<1>4. StoreType' /\ UNCHANGED Past
  BY <1>1, <1>2, <1>3, Recorded DEF StoreType, Past, history
<1>5. \A d \in Cands : Better(d)
  BY <1>2, <1>3, Recorded DEF Better, Kin
<1>6. QED
  BY <1>4, <1>5 DEF Effect, Advances

LEMMA TickStore ==
    ASSUME StoreType, Tick
    PROVE  Effect /\ StoreType'
<1>1. cand' = [c \in Cands |-> [cand[c] EXCEPT !.old = @ \/ cand[c].rec \in Resumable]]
  BY DEF Tick
<1>2. ASSUME NEW c \in Cands
      PROVE  cand'[c] \in Candidate /\ Better(c)
  <2>1. PICK b \in BOOLEAN : b = (cand[c].old \/ cand[c].rec \in Resumable)
    OBVIOUS
  <2>2. cand'[c] = [cand[c] EXCEPT !.old = b]
    BY <1>1, <2>1
  <2>3. cand[c] \in Candidate
    BY DEF StoreType
  <2>4. QED
    BY <2>2, <2>3 DEF Candidate, Better, Kin
<1>3. StoreType' /\ UNCHANGED Past
  BY <1>1, <1>2 DEF StoreType, Tick, Past, history
<1>4. QED
  BY <1>2, <1>3 DEF Effect, Advances

\* A fresh candidate, the others as they were or reconciled.
LEMMA Begun ==
    ASSUME StoreType, NEW c \in Cands, NEW r \in Candidate, NEW S,
           cand' = [Reconciled(S) EXCEPT ![c] = r], UNCHANGED Past
    PROVE  StoreType' /\ cand'[c] = r /\ \A d \in Cands \ {c} : Better(d) /\ cand'[d] = Reconciled(S)[d]
<1>1. Reconciled(S) \in [Cands -> Candidate]
  BY ReconciledStore
<1>2. cand' \in [Cands -> Candidate] /\ cand'[c] = r /\ \A d \in Cands \ {c} : cand'[d] = Reconciled(S)[d]
  BY <1>1
<1>3. \A d \in Cands \ {c} : Better(d)
  BY <1>2, ReconciledStore DEF Better, Kin
<1>4. QED
  BY <1>2, <1>3 DEF StoreType, Past

LEMMA BeginningStore ==
    ASSUME StoreType, SiteType, PrepType, PlanBuild \/ RebuildBegin
    PROVE  /\ StoreType' /\ UNCHANGED mig
           /\ Births(prep'.cand) /\ prep'.cand \in Cands /\ prep'.pc = "source"
           /\ cand'[prep'.cand].line = <<prep'.cand>>
<1>1. UNCHANGED <<ready, history, mig>>
  BY DEF PlanBuild, RebuildBegin
<1>2. UNCHANGED Past
  BY <1>1 DEF Past, history
<1>3. \E c \in Fresh, s \in Snaps, a \in 1..MaxAlg : \E S :
          /\ cand' = [Reconciled(S) EXCEPT
                ![c] = [snap |-> s, alg |-> a, files |-> "full", rec |-> "building",
                        old |-> FALSE, line |-> <<c>>]]
          /\ prep'.cand = c /\ prep'.pc = "source" /\ prep'.snap = s
  <2>1. CASE PlanBuild
    <3>1. PICK c \in Fresh : Begin(c, prep.snap) /\ prep' = [prep EXCEPT !.pc = "source", !.cand = c]
      BY <2>1 DEF PlanBuild
    <3>2. prep'.cand = c /\ prep'.pc = "source" /\ prep'.snap = prep.snap
      BY <3>1 DEF PrepType
    <3>3. prep.snap \in Snaps /\ prep.alg \in 1..MaxAlg
      BY DEF PrepType
    <3>4. QED
      BY <3>1, <3>2, <3>3 DEF Begin
  <2>2. CASE RebuildBegin
    <3>1. PICK c \in Fresh, s \in 1..upstream.snap :
             /\ cand' = [cand EXCEPT ![c] = [snap |-> s, alg |-> upstream.alg, files |-> "full",
                                          rec |-> "building", old |-> FALSE, line |-> <<c>>]]
             /\ prep' = [pc |-> "source", cand |-> c, snap |-> s, alg |-> upstream.alg, locked |-> FALSE]
      BY <2>2 DEF RebuildBegin
    <3>2. upstream.snap \in Snaps /\ upstream.alg \in 1..MaxAlg
      BY DEF SiteType
    <3>3. s \in Snaps
      BY <3>2, StoreAssumption DEF Snaps
    <3>4. Reconciled({}) = cand
      BY DEF Reconciled, StoreType
    <3>5. prep'.cand = c /\ prep'.pc = "source" /\ prep'.snap = s
      BY <3>1
    <3>6. QED
      BY <3>1, <3>2, <3>3, <3>4, <3>5
  <2>3. QED
    BY <2>1, <2>2
<1>4. PICK c \in Fresh, s \in Snaps, a \in 1..MaxAlg : \E S :
          /\ cand' = [Reconciled(S) EXCEPT
                ![c] = [snap |-> s, alg |-> a, files |-> "full", rec |-> "building",
                        old |-> FALSE, line |-> <<c>>]]
          /\ prep'.cand = c /\ prep'.pc = "source" /\ prep'.snap = s
  BY <1>3
<1>5. PICK S :
          /\ cand' = [Reconciled(S) EXCEPT
                ![c] = [snap |-> s, alg |-> a, files |-> "full", rec |-> "building",
                        old |-> FALSE, line |-> <<c>>]]
          /\ prep'.cand = c /\ prep'.pc = "source" /\ prep'.snap = s
  BY <1>4
<1> DEFINE r == [snap |-> s, alg |-> a, files |-> "full", rec |-> "building", old |-> FALSE, line |-> <<c>>]
<1>6. c \in Cands /\ cand[c].rec = "none"
  BY DEF Fresh
<1>7. r \in Candidate
  BY <1>6, StoreAssumption DEF Candidate, Files, GStates
<1>8. StoreType' /\ cand'[c] = r /\ \A d \in Cands \ {c} : Better(d)
  BY <1>2, <1>5, <1>6, <1>7, Begun
<1>9. Births(c)
  BY <1>1, <1>2, <1>6, <1>8 DEF Births
<1>10. QED
  BY <1>1, <1>5, <1>6, <1>8, <1>9

LEMMA MigratingStore ==
    ASSUME StoreType, SiteType, OrderInv, \A c \in Cands : CandOf(c), MigBegin
    PROVE  StoreType' /\ Births(mig'.cand) /\ mig'.cand \in Cands /\ mig'.pc = "receipt" /\ UNCHANGED prep
<1> DEFINE from == Selection(upstream.alg)
<1>1. PICK c \in Fresh :
             /\ cand' = [Reconciled(Looked(upstream.alg)) EXCEPT
                    ![c] = [snap |-> Pointer, alg |-> upstream.alg, files |-> "full",
                            rec |-> "building", old |-> FALSE, line |-> <<c>> \o cand[from].line]]
             /\ mig' = [pc |-> "receipt", cand |-> c, alg |-> upstream.alg]
  BY DEF MigBegin
<1>2. UNCHANGED <<ready, history, prep>> /\ CanSelect(upstream.alg)
  BY DEF MigBegin
<1>3. UNCHANGED Past
  BY <1>2 DEF Past, history
<1>4. /\ from \in Receipts /\ from \in Cands /\ from \in Looked(upstream.alg)
      /\ cand[from].rec \notin Gone
  BY <1>2, SelectionIs
<1>5. c \in Cands /\ cand[c].rec = "none"
  BY DEF Fresh
<1>6. from # c
  BY <1>4, <1>5 DEF CandOf, Receipts
<1>7. cand[from] \in Candidate /\ cand[live] \in Candidate /\ upstream.alg \in 0..MaxAlg
  BY <1>4 DEF StoreType, SiteType
<1>8. <<c>> \o cand[from].line \in Seq(Cands)
  BY <1>5, <1>7 DEF Candidate
<1>9. PICK l : l = <<c>> \o cand[from].line
  OBVIOUS
<1>10. PICK r : r = [snap |-> Pointer, alg |-> upstream.alg, files |-> "full", rec |-> "building",
                     old |-> FALSE, line |-> l]
  OBVIOUS
<1>11. /\ StoreType' /\ cand'[c] = r
       /\ \A d \in Cands \ {c} : Better(d) /\ cand'[d] = Reconciled(Looked(upstream.alg))[d]
  <2>1. r \in Candidate
    BY <1>7, <1>8, <1>9, <1>10 DEF Candidate, Files, GStates, Pointer
  <2>2. cand' = [Reconciled(Looked(upstream.alg)) EXCEPT ![c] = r]
    BY <1>1, <1>9, <1>10
  <2>3. QED
    BY <1>3, <1>5, <2>1, <2>2, Begun
<1>12. cand'[from].rec \notin Resumable
  <2>1. cand'[from] = Reconciled(Looked(upstream.alg))[from]
    BY <1>4, <1>6, <1>11
  <2>2. Reconciled(Looked(upstream.alg))[from].rec =
           IF cand[from].rec \in Resumable THEN "ready" ELSE cand[from].rec
    BY <1>4, ReconciledStore
  <2>3. QED
    BY <2>1, <2>2 DEF Resumable
<1>13. Births(c)
  BY <1>3, <1>4, <1>5, <1>6, <1>9, <1>10, <1>11, <1>12 DEF Births
<1>14. QED
  BY <1>1, <1>2, <1>5, <1>11, <1>13

LEMMA WritingStore ==
    ASSUME StoreType, PrepType, MigType, ActorInv, PrepReceipt \/ MigReceipt
    PROVE  Effect /\ StoreType'
<1>1. PICK c \in Cands :
          /\ WriteReady(c) /\ UNCHANGED history
          /\ \/ prep.pc = "receipt" /\ prep.cand = c /\ prep'.pc = "record" /\ mig' = mig
             \/ mig.pc = "receipt" /\ mig.cand = c /\ mig'.pc = "record" /\ prep' = prep
  <2>1. CASE PrepReceipt
    <3>1. prep' = [prep EXCEPT !.pc = "record"] /\ prep.cand \in Cands
      BY <2>1 DEF PrepReceipt, PrepGoto, ActorInv, Known, Writing
    <3>2. prep'.pc = "record"
      BY <3>1 DEF PrepType
    <3>3. QED
      BY <2>1, <3>1, <3>2 DEF PrepReceipt
  <2>2. CASE MigReceipt
    <3>1. mig' = [mig EXCEPT !.pc = "record"] /\ mig.cand \in Cands
      BY <2>2 DEF MigReceipt, ActorInv, Known
    <3>2. mig'.pc = "record"
      BY <3>1 DEF MigType
    <3>3. QED
      BY <2>2, <3>1, <3>2 DEF MigReceipt
  <2>3. QED
    BY <2>1, <2>2
<1>2. StoreType'
  BY <1>1, StampedStore DEF StoreType
<1>3. Stamps(c)
  BY <1>1, StampedStore DEF Stamps, Same, Kin, history
<1>4. QED
  BY <1>2, <1>3 DEF Effect

LEMMA RetiringStore ==
    ASSUME StoreType, ActorInv, CleanWrite \/ OpRetire
    PROVE  Effect /\ StoreType'
<1>1. PICK c \in Cands :
          /\ Record(c, "retired") /\ Known(c) /\ UNCHANGED <<ready, orphans>>
          /\ \/ raced' = raced \cup {c}
             \/ raced' = raced /\ cand[c].rec \in Resumable
  <2>1. CASE CleanWrite
    <3>1. Record(clean.cand, "retired") /\ Known(clean.cand) /\ UNCHANGED <<ready, orphans>>
      BY <2>1 DEF CleanWrite, ActorInv
    <3>2. \/ raced' = raced \cup {clean.cand}
          \/ raced' = raced /\ cand[clean.cand].rec \in Resumable
      BY <2>1 DEF CleanWrite, ActorInv
    <3>3. QED
      BY <3>1, <3>2 DEF Known
  <2>2. CASE OpRetire
    BY <2>2 DEF OpRetire, ActorInv, Known
  <2>3. QED
    BY <2>1, <2>2
<1>2. "retired" \in GStates
  BY DEF GStates
<1>3. StoreType' /\ Retires(c)
  BY <1>1, <1>2, Recorded DEF StoreType, Retires, Kin
<1>4. QED
  BY <1>3 DEF Effect

LEMMA DroppingStore ==
    ASSUME StoreType, ActorInv, \A c \in Cands : CandOf(c), CleanRemove \/ OpRename
    PROVE  Effect /\ StoreType'
<1>1. PICK c \in Cands, f \in Files :
          /\ cand' = [cand EXCEPT ![c].files = f] /\ cand[c].rec = "retired"
          /\ ready' = Without({c}) /\ UNCHANGED history
  <2>1. "none" \in Files /\ "retired" \in Files
    BY DEF Files
  <2>2. CASE CleanRemove
    BY <2>1, <2>2 DEF CleanRemove, ActorInv, Known
  <2>3. CASE OpRename
    BY <2>1, <2>3 DEF OpRename, ActorInv, Known, CandOf
  <2>4. QED
    BY <2>2, <2>3
<1>2. /\ cand' \in [Cands -> Candidate] /\ \A d \in Cands : Same(d)
      /\ \A d \in Cands \ {c} : cand'[d].files = cand[d].files
  BY <1>1 DEF StoreType, Candidate, Same, Kin
<1>3. StoreType' /\ Drops(c)
  BY <1>1, <1>2, WithoutStore DEF StoreType, Drops, history
<1>4. QED
  BY <1>3 DEF Effect

LEMMA CommittingStore ==
    ASSUME StoreType, SiteType, PubInv, MigType, \A c \in Cands : CandOf(c), PubCommit
    PROVE  Commits /\ StoreType'
<1>1. live \in Cands /\ pub.cand \in Cands /\ pub.cand # live /\ cand[live].rec \in {"ready", "published"}
  BY DEF PubCommit, PubInv, Known, SiteType
<1>2. pub.pc = "commit" /\ UNCHANGED raced
  BY DEF PubCommit
<1>3. CASE cand[pub.cand].rec = "retired"
  <2>1. cand' = [cand EXCEPT ![live].rec = "published"] /\ UNCHANGED <<ready, orphans>>
    BY <1>3 DEF PubCommit
  <2>2. /\ cand' \in [Cands -> Candidate] /\ \A d \in Cands \ {live} : cand'[d] = cand[d]
        /\ cand'[live].rec = "published" /\ \A d \in Cands : Kin(d)
        /\ cand'[live].files = cand[live].files
    BY <1>1, <2>1 DEF StoreType, Candidate, GStates, Kin
  <2>3. QED
    BY <1>1, <1>2, <2>1, <2>2 DEF Commits, StoreType
<1>4. CASE cand[pub.cand].rec # "retired"
  <2>1. cand' = [c \in Cands |->
                      CASE c = live -> [cand[c] EXCEPT !.rec = "published"]
                        [] c = pub.cand -> [cand[c] EXCEPT !.rec = "superseded"]
                        [] c \in Outside -> [cand[c] EXCEPT !.rec = "retired", !.files = "none"]
                        [] OTHER -> cand[c]]
    BY <1>4 DEF PubCommit, Outside
  <2>2. /\ ready' = Without(Outside)
        /\ orphans' = IF mig.pc = "receipt" /\ Origins(mig.cand) \cap Outside # {}
                      THEN orphans \cup {mig.cand} ELSE orphans
    BY <1>4 DEF PubCommit, Outside, Origins, Line
  <2>3. live \notin Outside /\ pub.cand \notin Outside
    <3>1. ASSUME NEW c \in Cands, Len(Line(c)) > 0, Line(c)[1] = c PROVE c \in Walked(c)
      <4>1. Line(c) \in Seq(Cands)
        BY DEF StoreType, Candidate, Line
      <4>2. 1 \in DOMAIN Line(c) /\ \A k \in 1..(1 - 1) : FALSE
        BY <3>1, <4>1
      <4>3. QED
        BY <3>1, <4>2 DEF Walked, Line
    <3>2. Len(Line(live)) > 0 /\ Line(live)[1] = live /\ Len(Line(pub.cand)) > 0 /\ Line(pub.cand)[1] = pub.cand
      BY <1>1 DEF PubCommit, PubInv, Known, CandOf
    <3>3. QED
      BY <1>1, <3>1, <3>2 DEF Outside, Kept
  <2>4. ASSUME NEW c \in Cands
        PROVE  /\ cand'[c] \in Candidate /\ Kin(c)
               /\ c = live => cand'[c].rec = "published" /\ cand'[c].files = cand[c].files
               /\ c = pub.cand => cand'[c].rec = "superseded" /\ cand'[c].files = cand[c].files
               /\ c \in Outside /\ c # live /\ c # pub.cand => cand'[c].rec = "retired" /\ cand'[c].files = "none"
               /\ c \notin Outside /\ c # live /\ c # pub.cand => cand'[c] = cand[c]
    <3>1. cand[c] \in Candidate
      BY DEF StoreType
    <3>2. CASE c = live
      <4>1. cand'[c] = [cand[c] EXCEPT !.rec = "published"]
        BY <2>1, <2>3, <1>1, <3>2
      <4>2. QED
        BY <1>1, <3>1, <3>2, <4>1 DEF Candidate, GStates, Kin
    <3>3. CASE c = pub.cand
      <4>1. cand'[c] = [cand[c] EXCEPT !.rec = "superseded"]
        BY <1>1, <2>1, <2>3, <3>3
      <4>2. QED
        BY <1>1, <3>1, <3>3, <4>1 DEF Candidate, GStates, Kin
    <3>4. CASE c # live /\ c # pub.cand /\ c \in Outside
      <4>1. cand'[c] = [cand[c] EXCEPT !.rec = "retired", !.files = "none"]
        BY <2>1, <3>4
      <4>2. QED
        BY <3>1, <3>4, <4>1 DEF Candidate, GStates, Files, Kin
    <3>5. CASE c # live /\ c # pub.cand /\ c \notin Outside
      <4>1. cand'[c] = cand[c]
        BY <2>1, <3>5
      <4>2. QED
        BY <3>1, <3>5, <4>1 DEF Kin
    <3>6. QED
      BY <3>2, <3>3, <3>4, <3>5
  <2>5. StoreType'
    BY <2>1, <2>2, <2>4, WithoutStore DEF StoreType
  <2>6. Outside \in SUBSET Cands
    BY DEF Outside, Receipts
  <2>7. QED
    BY <1>1, <1>2, <1>4, <2>2, <2>3, <2>4, <2>5, <2>6 DEF Commits
<1>5. QED
  BY <1>3, <1>4

\* Every step of the specification is one of these.
LEMMA Effects ==
    ASSUME Inv, Next
    PROVE  Effect /\ StoreType'
<1>1. StoreType /\ SiteType /\ PrepType /\ MigType /\ ActorInv /\ OrderInv /\ PubInv /\ \A c \in Cands : CandOf(c)
  BY DEF Inv, StoreInv, LiveInv, TypeInv
<1>2. CASE PrepStart \/ SourceBegin \/ SourceEnd \/ Compute \/ PrepIndex \/ PrepFails \/ PrepCrash
  BY <1>1, <1>2, QuietPreparation
<1>3. CASE RetentionApply \/ PubAuthorize \/ PurgeData \/ PurgePatrol
              \/ PurgeCompaction \/ PurgeManifest \/ PurgeApplied \/ PubFails
  BY <1>1, <1>3, QuietPublisher
<1>4. CASE \/ MigIndex \/ MigFails \/ Deploy \/ Release
           \/ CleanBegin \/ CleanLoad \/ CleanCheck \/ CleanScanned \/ CleanSources \/ CleanFails
           \/ OpCheck \/ OpResume \/ OpFails
  BY <1>1, <1>4, QuietOthers
<1>5. CASE PlanNoOp \/ PubActivate \/ PubNoOp \/ MigResume \/ OpIndex
  BY <1>1, <1>5, ReconcilingStore
<1>6. CASE PrepValidate \/ PrepRecord \/ MigRecord
  BY <1>1, <1>6, RecordingStore
<1>7. CASE Tick
  BY <1>1, <1>7, TickStore
<1>8. CASE PlanBuild \/ RebuildBegin
  BY <1>1, <1>8, BeginningStore DEF Effect
<1>9. CASE MigBegin
  BY <1>1, <1>9, MigratingStore DEF Effect
<1>10. CASE PrepReceipt \/ MigReceipt
  BY <1>1, <1>10, WritingStore
<1>11. CASE CleanWrite \/ OpRetire
  BY <1>1, <1>11, RetiringStore
<1>12. CASE CleanRemove \/ OpRename
  BY <1>1, <1>12, DroppingStore
<1>13. CASE PubCommit
  BY <1>1, <1>13, CommittingStore DEF Effect
<1>14. QED
  BY <1>2, <1>3, <1>4, <1>5, <1>6, <1>7, <1>8, <1>9, <1>10, <1>11, <1>12, <1>13
     DEF Next, Preparation, Publisher, Migration, Cleanup, Operator

-----------------------------------------------------------------------------
(* What a step does to the actors.                                         *)

PrepMoves ==
    prep'.pc \notin {"idle", "plan"} =>
        \/ /\ prep.pc \notin {"idle", "plan"} /\ prep'.cand = prep.cand
           /\ prep'.pc \in Writing => prep.pc \in Writing
        \/ /\ prep'.cand \in Cands /\ Births(prep'.cand) /\ UNCHANGED mig
           /\ cand'[prep'.cand].line = <<prep'.cand>>
MigMoves ==
    mig'.pc # "idle" =>
        \/ /\ mig.pc # "idle" /\ mig'.cand = mig.cand
           /\ mig'.pc = "receipt" => mig.pc = "receipt"
        \/ mig'.cand \in Cands /\ Births(mig'.cand) /\ UNCHANGED prep
        \/ mig'.pc # "receipt" /\ Known(mig'.cand)
CleanMoves ==
    /\ clean'.pc \in {"check", "write", "remove"} => Known(clean'.cand)
    /\ clean'.pc = "write" => clean'.rec \in Resumable
    /\ clean'.pc = "remove" => cand[clean'.cand].rec = "retired" \/ cand'[clean'.cand].rec = "retired"
OpMoves ==
    /\ op'.pc # "idle" => Known(op'.cand)
    /\ op'.pc = "rename" => op'.cand \in raced'
Moves == PrepMoves /\ MigMoves /\ CleanMoves /\ OpMoves

LEMMA PreparationMoves ==
    ASSUME StoreType, SiteType, PrepType, Preparation
    PROVE  PrepMoves
<1>1. CASE PrepStart
  BY <1>1 DEF PrepStart, PrepMoves
<1>2. CASE PlanNoOp \/ PrepIndex \/ PrepFails
  BY <1>2 DEF PlanNoOp, PrepIndex, PrepFails, PrepEnd, NoPrep, PrepMoves
<1>3. CASE PrepCrash
  BY <1>3 DEF PrepCrash, NoPrep, PrepMoves
<1>4. CASE PlanBuild \/ RebuildBegin
  BY <1>4, BeginningStore DEF PrepMoves
<1>5. CASE SourceBegin \/ SourceEnd \/ Compute \/ PrepValidate
  <2>1. /\ prep.pc \in {"source", "ingest", "compute", "validate"}
        /\ prep'.cand = prep.cand
    BY <1>5 DEF SourceBegin, SourceEnd, Compute, PrepValidate, PrepGoto, PrepType
  <2>2. QED
    BY <2>1 DEF PrepMoves, Writing
<1>6. CASE PrepReceipt \/ PrepRecord
  <2>1. /\ prep.pc \in {"receipt", "record"} /\ prep'.pc \in {"record", "index"}
        /\ prep'.cand = prep.cand
    BY <1>6 DEF PrepReceipt, PrepRecord, PrepGoto, PrepType
  <2>2. QED
    BY <2>1 DEF PrepMoves, Writing
<1>7. QED
  BY <1>1, <1>2, <1>3, <1>4, <1>5, <1>6 DEF Preparation

LEMMA MigrationMoves ==
    ASSUME StoreType, SiteType, MigType, OrderInv, \A c \in Cands : CandOf(c), Migration
    PROVE  MigMoves
<1>1. CASE MigBegin
  BY <1>1, MigratingStore DEF MigMoves
<1>2. CASE MigResume
  BY <1>2 DEF MigResume, MigMoves, ReadyOf, Receipts, Known, CandOf
<1>3. CASE MigReceipt \/ MigRecord
  <2>1. mig.pc \in {"receipt", "record"} /\ mig'.pc \in {"record", "index"} /\ mig'.cand = mig.cand
    BY <1>3 DEF MigReceipt, MigRecord, MigType
  <2>2. QED
    BY <2>1 DEF MigMoves
<1>4. CASE MigIndex \/ MigFails
  BY <1>4 DEF MigIndex, MigFails, NoOp, MigMoves
<1>5. QED
  BY <1>1, <1>2, <1>3, <1>4 DEF Migration

LEMMA CleanupMoves ==
    ASSUME StoreType, CleanType, ActorInv, \A c \in Cands : CandOf(c), Cleanup
    PROVE  CleanMoves
<1>1. CASE CleanBegin \/ CleanScanned \/ CleanSources \/ CleanFails
  <2>1. clean'.pc \in {"idle", "scan", "sources"}
    <3>1. CASE CleanSources \/ CleanFails
      BY <3>1 DEF CleanSources, CleanFails, NoClean
    <3>3. CASE CleanBegin
      BY <3>3 DEF CleanBegin, NoClean
    <3>2. CASE CleanScanned
      <4>1. PICK S : clean' = IF lock THEN NoClean ELSE [clean EXCEPT !.pc = "sources", !.snaps = S]
        BY <3>2 DEF CleanScanned
      <4>2. QED
        BY <4>1 DEF NoClean, CleanType
    <3>4. QED
      BY <1>1, <3>1, <3>2, <3>3
  <2>2. QED
    BY <2>1 DEF CleanMoves
<1>2. CASE CleanLoad
  <2>1. PICK c \in Cands :
          /\ Removable(c)
          /\ clean' = [clean EXCEPT !.pc = IF cand[c].rec = "retired" THEN "remove" ELSE "check",
                                    !.cand = c]
    BY <1>2 DEF CleanLoad
  <2>2. PICK p \in {"remove", "check"} : p = IF cand[c].rec = "retired" THEN "remove" ELSE "check"
    OBVIOUS
  <2>3. clean'.cand = c /\ clean'.pc = p
    BY <2>1, <2>2 DEF CleanType
  <2>4. Known(c)
    BY <2>1 DEF Removable, CandOf, Known
  <2>5. QED
    BY <2>2, <2>3, <2>4 DEF CleanMoves
<1>3. CASE CleanCheck
  <2>1. clean'.pc = "write" /\ clean'.cand = clean.cand /\ clean'.rec \in Resumable /\ Known(clean.cand)
    BY <1>3 DEF CleanCheck, CleanType, ActorInv
  <2>2. QED
    BY <2>1 DEF CleanMoves
<1>4. CASE CleanWrite
  <2>1. clean' = [clean EXCEPT !.pc = "remove"] /\ Known(clean.cand) /\ Record(clean.cand, "retired")
    BY <1>4 DEF CleanWrite, CleanGoto, ActorInv
  <2>2. clean'.pc = "remove" /\ clean'.cand = clean.cand
    BY <2>1 DEF CleanType
  <2>3. cand'[clean.cand].rec = "retired"
    BY <2>1, Recorded DEF Known, GStates
  <2>4. QED
    BY <2>1, <2>2, <2>3 DEF CleanMoves
<1>5. CASE CleanRemove
  <2>1. clean' = [clean EXCEPT !.pc = "scan"]
    BY <1>5 DEF CleanRemove, CleanGoto
  <2>2. clean'.pc = "scan"
    BY <2>1 DEF CleanType
  <2>3. QED
    BY <2>2 DEF CleanMoves
<1>6. QED
  BY <1>1, <1>2, <1>3, <1>4, <1>5 DEF Cleanup

LEMMA OperatorMoves ==
    ASSUME StoreType, OpType, ActorInv, \A c \in Cands : CandOf(c), Operator
    PROVE  OpMoves
<1>1. CASE OpCheck
  BY <1>1 DEF OpCheck, OpMoves, Receipts, Known, CandOf
<1>2. CASE OpResume
  BY <1>2 DEF OpResume, OpMoves, Known
<1>3. CASE OpRetire
  <2>1. op' = [op EXCEPT !.pc = "rename"] /\ Known(op.cand) /\ raced' = raced \cup {op.cand}
    BY <1>3 DEF OpRetire, ActorInv
  <2>2. op'.cand = op.cand
    BY <2>1 DEF OpType
  <2>3. QED
    BY <2>1, <2>2 DEF OpMoves
<1>4. CASE OpRename
  <2>1. op' = [op EXCEPT !.pc = "index"] /\ Known(op.cand)
    BY <1>4 DEF OpRename, ActorInv
  <2>2. op'.cand = op.cand /\ op'.pc = "index"
    BY <2>1 DEF OpType
  <2>3. QED
    BY <2>1, <2>2 DEF OpMoves
<1>5. CASE OpIndex \/ OpFails
  BY <1>5 DEF OpIndex, OpFails, NoOp, OpMoves
<1>6. QED
  BY <1>1, <1>2, <1>3, <1>4, <1>5 DEF Operator

LEMMA RestMoves ==
    /\ ActorInv /\ UNCHANGED prep => PrepMoves
    /\ ActorInv /\ UNCHANGED mig => MigMoves
    /\ ActorInv /\ UNCHANGED clean => CleanMoves
    /\ ActorInv /\ UNCHANGED op /\ raced \subseteq raced' => OpMoves
<1>1. ActorInv /\ UNCHANGED prep => PrepMoves
  BY DEF PrepMoves
<1>2. ActorInv /\ UNCHANGED mig => MigMoves
  BY DEF MigMoves
<1>3. ActorInv /\ UNCHANGED clean => CleanMoves
  BY DEF ActorInv, CleanMoves
<1>4. ActorInv /\ UNCHANGED op /\ raced \subseteq raced' => OpMoves
  BY DEF ActorInv, OpMoves
<1>5. QED
  BY <1>1, <1>2, <1>3, <1>4

LEMMA AllMoves ==
    ASSUME Inv, Next
    PROVE  Moves
<1>1. /\ StoreType /\ SiteType /\ PrepType /\ MigType /\ CleanType /\ OpType
      /\ ActorInv /\ OrderInv /\ \A c \in Cands : CandOf(c)
  BY DEF Inv, StoreInv, TypeInv
<1>2. raced \subseteq raced'
  <2>1. Effect
    BY Effects
  <2>2. CASE Advances \/ Commits
    BY <2>2 DEF Advances, Commits, Past
  <2>3. CASE \E c \in Cands : Births(c) \/ Retires(c) \/ Stamps(c) \/ Drops(c)
    BY <2>3 DEF Births, Retires, Stamps, Drops, Past
  <2>4. QED
    BY <2>1, <2>2, <2>3 DEF Effect
<1>3. PrepMoves
  <2>1. CASE Preparation
    BY <1>1, <2>1, PreparationMoves
  <2>2. CASE ~Preparation
    <3>1. UNCHANGED prep
      BY <2>2 DEF Next, Publisher, Migration, Cleanup, Operator, actors, Deploy, Release, Tick,
         PubActivate, PubNoOp, PubCommit, RetentionApply, PubAuthorize, PurgeData,
         PurgePatrol, PurgeCompaction, PurgeManifest, Purge, PurgeApplied,
         PubFails, MigBegin, MigResume, MigReceipt, MigRecord, MigIndex, MigFails, CleanBegin,
         CleanLoad, CleanCheck, CleanWrite, CleanRemove, CleanScanned, CleanSources, CleanFails,
         OpCheck, OpResume, OpRetire, OpRename, OpIndex, OpFails
    <3>2. QED
      BY <1>1, <3>1, RestMoves
  <2>3. QED
    BY <2>1, <2>2
<1>4. MigMoves
  <2>1. CASE Migration
    BY <1>1, <2>1, MigrationMoves
  <2>2. CASE ~Migration
    <3>1. UNCHANGED mig
      BY <2>2 DEF Next, Preparation, Publisher, Cleanup, Operator, actors, Deploy, Release, Tick,
         PrepStart, PlanNoOp, PlanBuild, RebuildBegin, SourceBegin, SourceEnd, Compute,
         PrepValidate, PrepReceipt, PrepRecord, PrepIndex, PrepFails, PrepCrash,
         PubActivate, PubNoOp, PubCommit, RetentionApply, PubAuthorize, PurgeData,
         PurgePatrol, PurgeCompaction, PurgeManifest, Purge, PurgeApplied,
         PubFails, CleanBegin, CleanLoad, CleanCheck, CleanWrite, CleanRemove, CleanScanned,
         CleanSources, CleanFails, OpCheck, OpResume, OpRetire, OpRename, OpIndex, OpFails
    <3>2. QED
      BY <1>1, <3>1, RestMoves
  <2>3. QED
    BY <2>1, <2>2
<1>5. CleanMoves
  <2>1. CASE Cleanup
    BY <1>1, <2>1, CleanupMoves
  <2>2. CASE ~Cleanup
    <3>1. UNCHANGED clean
      BY <2>2 DEF Next, Preparation, Publisher, Migration, Operator, actors, Deploy, Release, Tick,
         PrepStart, PlanNoOp, PlanBuild, RebuildBegin, SourceBegin, SourceEnd, Compute,
         PrepValidate, PrepReceipt, PrepRecord, PrepIndex, PrepFails, PrepCrash,
         PubActivate, PubNoOp, PubCommit, RetentionApply, PubAuthorize, PurgeData,
         PurgePatrol, PurgeCompaction, PurgeManifest, Purge, PurgeApplied,
         PubFails, MigBegin, MigResume, MigReceipt, MigRecord, MigIndex, MigFails,
         OpCheck, OpResume, OpRetire, OpRename, OpIndex, OpFails
    <3>2. QED
      BY <1>1, <3>1, RestMoves
  <2>3. QED
    BY <2>1, <2>2
<1>6. OpMoves
  <2>1. CASE Operator
    BY <1>1, <2>1, OperatorMoves
  <2>2. CASE ~Operator
    <3>1. UNCHANGED op
      BY <2>2 DEF Next, Preparation, Publisher, Migration, Cleanup, actors, Deploy, Release, Tick,
         PrepStart, PlanNoOp, PlanBuild, RebuildBegin, SourceBegin, SourceEnd, Compute,
         PrepValidate, PrepReceipt, PrepRecord, PrepIndex, PrepFails, PrepCrash,
         PubActivate, PubNoOp, PubCommit, RetentionApply, PubAuthorize, PurgeData,
         PurgePatrol, PurgeCompaction, PurgeManifest, Purge, PurgeApplied,
         PubFails, MigBegin, MigResume, MigReceipt, MigRecord, MigIndex, MigFails,
         CleanBegin, CleanLoad, CleanCheck, CleanWrite, CleanRemove, CleanScanned, CleanSources,
         CleanFails
    <3>2. QED
      BY <1>1, <1>2, <3>1, RestMoves
  <2>3. QED
    BY <2>1, <2>2
<1>7. QED
  BY <1>3, <1>4, <1>5, <1>6 DEF Moves

-----------------------------------------------------------------------------
(* The store after a step.                                                 *)

\* Whoever has begun stays begun, whatever happens to it.
LEMMA KnownStays ==
    ASSUME Effect, StoreType, NEW a, Known(a)
    PROVE  /\ Known(a)' /\ Line(a)' = Line(a) /\ ~Births(a)
           /\ cand'[a].snap = cand[a].snap
           /\ cand[a].rec = "retired" => cand'[a].rec = "retired"
<1>1. a \in Cands /\ cand[a].rec # "none"
  BY DEF Known
<1>2. ~Births(a)
  BY <1>1 DEF Births
<1>3. CASE Advances
  BY <1>1, <1>2, <1>3 DEF Advances, Better, Kin, Known, Line, Resumable
<1>4. CASE Commits
  BY <1>1, <1>2, <1>4 DEF Commits, Kin, Known, Line
<1>5. CASE \E c \in Cands : Births(c)
  BY <1>1, <1>2, <1>5 DEF Births, Better, Kin, Known, Line, Resumable
<1>6. CASE \E c \in Cands : Retires(c) \/ Stamps(c) \/ Drops(c)
  BY <1>1, <1>2, <1>6 DEF Retires, Stamps, Drops, Same, Kin, Known, Line
<1>7. QED
  BY <1>3, <1>4, <1>5, <1>6 DEF Effect

\* Who writes a ready.json
LEMMA StampsWhom ==
    ASSUME ActorInv, NEW c \in Cands, Stamps(c)
    PROVE  /\ Known(c) /\ ~IsReady(c)
           /\ (prep.pc \in Writing /\ prep.cand = c) \/ (mig.pc = "receipt" /\ mig.cand = c)
<1>1. CASE prep.pc = "receipt" /\ prep.cand = c
  <2>1. prep.pc \in Writing /\ prep.pc \notin {"idle", "plan"}
    BY <1>1 DEF Writing
  <2>2. Known(prep.cand) /\ ~IsReady(prep.cand)
    BY <2>1 DEF ActorInv
  <2>3. QED
    BY <1>1, <2>1, <2>2
<1>2. CASE mig.pc = "receipt" /\ mig.cand = c
  BY <1>2 DEF ActorInv
<1>3. QED
  BY <1>1, <1>2 DEF Stamps

\* Receipts of a set of candidates go.
LEMMA WithoutReady ==
    ASSUME OrderInv, StoreType, NEW S, ready' = Without(S), NEW d \in Cands
    PROVE  /\ IsReady(d)' => IsReady(d) /\ d \notin S
           /\ IsReady(d) /\ d \notin S => IsReady(d)'
BY WithoutStore DEF OrderInv, IsReady

LEMMA StampedReady ==
    ASSUME OrderInv, ActorInv, NEW c \in Cands, Stamps(c), NEW d \in Cands
    PROVE  /\ IsReady(c)'
           /\ d # c => ready'[d] = ready[d] /\ (IsReady(d)' <=> IsReady(d))
<1>1. IsReady(c)'
  BY DEF Stamps, IsReady
<1>2. c \notin ready[d]
  BY StampsWhom DEF OrderInv
<1>3. ASSUME d # c PROVE ready'[d] = ready[d]
  <2>1. ready'[d] = ready[d] \ {c}
    BY <1>3 DEF Stamps
  <2>2. ready[d] \ {c} = ready[d]
    BY <1>2
  <2>3. QED
    BY <2>1, <2>2
<1>4. QED
  BY <1>1, <1>3 DEF IsReady

LEMMA CandAfter ==
    ASSUME Inv, Effect, NEW c \in Cands
    PROVE  CandOf(c)'
<1>1. StoreType /\ ActorInv /\ OrderInv /\ CandOf(c) /\ PubInv /\ live \in Cands
  BY DEF Inv, StoreInv, LiveInv, TypeInv, SiteType
<1>2. CASE Advances
  <2>1. Better(c) /\ UNCHANGED <<ready, raced>>
    BY <1>2 DEF Advances, Past
  <2>2. QED
    BY <1>1, <2>1 DEF CandOf, Better, Kin, IsReady, Line, Resumable
<1>3. CASE \E b \in Cands : Births(b)
  <2>1. PICK b \in Cands : Births(b)
    BY <1>3
  <2>2. UNCHANGED <<ready, raced>>
    BY <2>1 DEF Births, Past
  <2>3. CASE c # b
    <3>1. Better(c)
      BY <2>1, <2>3 DEF Births
    <3>2. QED
      BY <1>1, <2>2, <3>1 DEF CandOf, Better, Kin, IsReady, Line, Resumable
  <2>4. CASE c = b
    <3>1. cand[c].rec = "none" /\ cand'[c].rec = "building" /\ ~IsReady(c) /\ c \notin raced
      BY <1>1, <2>1, <2>4 DEF Births, CandOf
    <3>2. Len(Line(c)') > 0 /\ Line(c)'[1] = c
      <4>1. CASE cand'[c].line = <<c>>
        BY <4>1 DEF Line
      <4>2. CASE \E f \in Receipts \ {c} : cand'[c].line = <<c>> \o cand[f].line
        <5>1. PICK f \in Cands : cand'[c].line = <<c>> \o cand[f].line
          BY <4>2 DEF Receipts
        <5>2. cand[f].line \in Seq(Cands)
          BY <1>1 DEF StoreType, Candidate
        <5>3. QED
          BY <5>1, <5>2 DEF Line
      <4>3. QED
        BY <2>1, <2>4, <4>1, <4>2 DEF Births
    <3>3. QED
      BY <3>1, <3>2, <2>2 DEF CandOf, IsReady, Line
  <2>5. QED
    BY <2>3, <2>4
<1>4. CASE \E b \in Cands : Retires(b)
  <2>1. PICK b \in Cands : Retires(b)
    BY <1>4
  <2>2. QED
    BY <1>1, <2>1 DEF CandOf, Retires, Known, Kin, IsReady, Line
<1>5. CASE \E b \in Cands : Stamps(b)
  <2>1. PICK b \in Cands : Stamps(b)
    BY <1>5
  <2>2. Known(b) /\ Same(c) /\ UNCHANGED raced
    BY <1>1, <2>1, StampsWhom DEF Stamps
  <2>3. IsReady(c)' => c = b \/ IsReady(c)
    BY <1>1, <2>1, StampedReady
  <2>4. QED
    BY <1>1, <2>1, <2>2, <2>3 DEF CandOf, Stamps, Same, Known, Kin, Line
<1>6. CASE \E b \in Cands : Drops(b)
  <2>1. PICK b \in Cands : Drops(b)
    BY <1>6
  <2>2. Same(c) /\ UNCHANGED raced /\ cand[b].rec = "retired"
    BY <2>1 DEF Drops
  <2>3. IsReady(c)' => IsReady(c) /\ c # b
    BY <1>1, <2>1, WithoutReady DEF Drops
  <2>4. QED
    BY <1>1, <2>1, <2>2, <2>3 DEF CandOf, Drops, Same, Kin, Line
<1>7. CASE Commits
  <2>1. Kin(c) /\ UNCHANGED raced /\ cand[live].rec \in {"ready", "published"} /\ cand'[live].rec = "published"
    BY <1>7 DEF Commits
  <2>2. CASE /\ \A d \in Cands \ {live} : cand'[d] = cand[d]
             /\ cand'[live].files = cand[live].files /\ ready' = ready
    BY <1>1, <2>1, <2>2 DEF CandOf, Kin, IsReady, Line
  <2>3. CASE /\ cand[pub.cand].rec # "retired" /\ cand'[pub.cand].rec = "superseded"
             /\ \A d \in Cands \ Outside : cand'[d].files = cand[d].files
             /\ \A d \in Cands \ (Outside \cup {live, pub.cand}) : cand'[d] = cand[d]
             /\ \A d \in Outside : cand'[d].rec = "retired" /\ cand'[d].files = "none"
             /\ ready' = Without(Outside)
    <3>1. IsReady(c)' => IsReady(c) /\ c \notin Outside
      BY <1>1, <2>3, WithoutReady
    <3>2. Known(pub.cand) /\ pub.pc = "commit"
      BY <1>1, <1>7 DEF PubInv, Commits
    <3>3. c \in Outside => IsReady(c)
      BY DEF Outside, Receipts
    <3>4. c \in Outside => cand'[c].rec = "retired" /\ cand[c].rec # "none"
      BY <1>1, <2>3, <3>3 DEF CandOf
    <3>5. QED
      BY <1>1, <2>1, <2>3, <3>1, <3>2, <3>4 DEF CandOf, Kin, Line, Known
  <2>4. QED
    BY <1>7, <2>2, <2>3 DEF Commits
<1>8. QED
  BY <1>2, <1>3, <1>4, <1>5, <1>6, <1>7 DEF Effect

\* Where nobody has begun a candidate of this number, the actors keep theirs.
LEMMA ActorsKeep ==
    ASSUME Moves, NEW a \in Cands, ~Births(a)
    PROVE  /\ prep'.pc \in Writing /\ prep'.cand = a => prep.pc \in Writing /\ prep.cand = a
           /\ mig'.pc = "receipt" /\ mig'.cand = a => mig.pc = "receipt" /\ mig.cand = a
BY DEF Moves, PrepMoves, MigMoves, Writing

LEMMA SettledStays ==
    ASSUME Inv, Effect, Moves, NEW a, Known(a), Settled(a)
    PROVE  Settled(a)'
<1>1. StoreType /\ ActorInv /\ OrderInv /\ a \in Cands /\ PubInv
  BY DEF Inv, StoreInv, LiveInv, TypeInv, Known
<1>2. ~Births(a)
  BY <1>1, KnownStays
<1>3. /\ prep'.pc \in Writing => prep'.cand # a
      /\ mig'.pc = "receipt" => mig'.cand # a
  BY <1>1, <1>2, ActorsKeep DEF Settled
<1>4. cand'[a].rec \notin Resumable /\ (cand'[a].rec = "retired" => a \in raced' \/ ~IsReady(a)')
  <2>1. CASE Advances
    BY <1>1, <2>1 DEF Advances, Better, Past, Settled, IsReady
  <2>2. CASE \E b \in Cands : Births(b)
    BY <1>1, <1>2, <2>2 DEF Births, Better, Past, Settled, IsReady
  <2>3. CASE \E b \in Cands : Retires(b)
    BY <1>1, <2>3 DEF Retires, Settled, IsReady, Resumable
  <2>4. CASE \E b \in Cands : Stamps(b)
    <3>1. PICK b \in Cands : Stamps(b)
      BY <2>4
    <3>2. a # b
      BY <1>1, <3>1, StampsWhom DEF Settled
    <3>3. IsReady(a)' <=> IsReady(a)
      BY <1>1, <3>1, <3>2, StampedReady
    <3>4. QED
      BY <1>1, <3>1, <3>3 DEF Settled, Stamps, Same
  <2>5. CASE \E b \in Cands : Drops(b)
    <3>1. PICK b \in Cands : Drops(b)
      BY <2>5
    <3>2. IsReady(a)' => IsReady(a)
      BY <1>1, <3>1, WithoutReady DEF Drops
    <3>3. QED
      BY <1>1, <3>1, <3>2 DEF Settled, Drops, Same
  <2>6. CASE Commits
    <3>1. CASE UNCHANGED ready /\ \A d \in Cands \ {live} : cand'[d] = cand[d]
      BY <1>1, <2>6, <3>1 DEF Settled, Commits, IsReady, Resumable
    <3>2. CASE /\ cand'[pub.cand].rec = "superseded"
               /\ \A d \in Cands \ (Outside \cup {live, pub.cand}) : cand'[d] = cand[d]
               /\ \A d \in Outside : cand'[d].rec = "retired"
               /\ ready' = Without(Outside)
      <4>1. (IsReady(a)' => IsReady(a)) /\ (a \in Outside => ~IsReady(a)')
        BY <1>1, <3>2, WithoutReady
      <4>2. QED
        BY <1>1, <2>6, <3>2, <4>1 DEF Settled, Commits, Resumable
    <3>3. QED
      BY <2>6, <3>1, <3>2 DEF Commits, Past
  <2>7. QED
    BY <2>1, <2>2, <2>3, <2>4, <2>5, <2>6 DEF Effect
<1>5. QED
  BY <1>3, <1>4 DEF Settled

\* The lineage of a migrated candidate is a lineage.
LEMMA LineKept ==
    ASSUME Inv, Effect, Moves, NEW c \in Cands, Known(c)
    PROVE  LineOf(c)'
<1>1. StoreType /\ LineOf(c) /\ Line(c)' = Line(c) /\ Line(c) \in Seq(Cands)
  BY KnownStays DEF Inv, StoreInv, TypeInv, StoreType, Candidate, Line
<1>2. ASSUME NEW j \in 1..Len(Line(c))
      PROVE  RestOf(c, j)' /\ (j > 1 => Settled(Line(c)[j])')
  <2>1. PICK a : a = Line(c)[j]
    OBVIOUS
  <2>2. /\ Known(a) /\ Len(Line(a)) = Len(Line(c)) - j + 1
        /\ \A i \in 1..Len(Line(a)) : Line(a)[i] = Line(c)[j + i - 1]
        /\ j > 1 => Settled(a)
    BY <1>1, <2>1 DEF LineOf, RestOf
  <2>3. Known(a)' /\ Line(a)' = Line(a)
    BY <1>1, <2>2, KnownStays
  <2>4. j > 1 => Settled(a)'
    BY <2>2, SettledStays
  <2>5. Line(c)'[j] = a
    BY <1>1, <2>1
  <2>6. RestOf(c, j)'
    BY <1>1, <2>2, <2>3, <2>5 DEF RestOf
  <2>7. QED
    BY <1>1, <2>1, <2>4, <2>6
<1>3. QED
  BY <1>1, <1>2 DEF LineOf

LEMMA LineBegun ==
    ASSUME Inv, Effect, Moves, StoreType', NEW c \in Cands, Births(c)
    PROVE  LineOf(c)'
<1>1. /\ StoreType /\ ActorInv /\ cand[c].rec = "none" /\ cand'[c].rec = "building"
      /\ \A f \in Cands : CandOf(f) /\ LineOf(f)
  BY DEF Inv, StoreInv, TypeInv, Births
<1>2. Known(c)'
  BY <1>1 DEF Known
<1>3. CASE cand'[c].line = <<c>>
  <2>1. Line(c)' = <<c>>
    BY <1>3 DEF Line
  <2>2. RestOf(c, 1)'
    BY <1>2, <2>1 DEF RestOf
  <2>3. QED
    BY <2>1, <2>2 DEF LineOf
<1>4. CASE \E f \in Receipts \ {c} : /\ cand[f].rec \notin Gone /\ cand'[f].rec \notin Resumable
                                     /\ cand'[c].line = <<c>> \o cand[f].line
  <2>1. PICK f \in Cands \ {c} : /\ cand[f].rec \notin Gone /\ cand'[f].rec \notin Resumable
                                 /\ cand'[c].line = <<c>> \o cand[f].line /\ IsReady(f)
    BY <1>4 DEF Receipts
  <2>2. Known(f) /\ LineOf(f) /\ Line(f) \in Seq(Cands) /\ Len(Line(f)) > 0 /\ Line(f)[1] = f
    BY <1>1, <2>1 DEF CandOf, Known, StoreType, Candidate, Line
  <2>3. Line(c)' = <<c>> \o Line(f)
    BY <2>1 DEF Line
  <2>4. /\ Len(Line(c)') = Len(Line(f)) + 1 /\ Line(c)'[1] = c
        /\ \A k \in 1..Len(Line(f)) : Line(c)'[k + 1] = Line(f)[k]
    BY <2>2, <2>3
  <2>5. Settled(f)'
    <3>1. cand'[f].rec # "retired" /\ cand'[f].rec \notin Resumable
      BY <1>1, <2>1 DEF Births, Better, Gone, Resumable
    <3>2. prep.pc \in Writing => prep.cand # f
      BY <1>1, <2>1 DEF ActorInv
    <3>3. mig.pc = "receipt" => mig.cand # f
      BY <1>1, <2>1 DEF ActorInv
    <3>4. ~Births(f)
      BY <2>2, <1>1, KnownStays
    <3>5. QED
      BY <2>1, <3>1, <3>2, <3>3, <3>4, ActorsKeep DEF Settled
  <2>6. RestOf(c, 1)'
    <3>1. Len(Line(c)') \in Nat
      BY <2>2, <2>4
    <3>2. QED
      BY <1>2, <2>4, <3>1 DEF RestOf
  <2>7. ASSUME NEW j \in 2..Len(Line(c)')
        PROVE  RestOf(c, j)' /\ Settled(Line(c)[j])'
    <3>1. j - 1 \in 1..Len(Line(f)) /\ Line(c)'[j] = Line(f)[j - 1] /\ j \in Nat /\ Len(Line(f)) \in Nat
      <4>1. Len(Line(f)) \in Nat
        BY <2>2
      <4>2. j - 1 \in 1..Len(Line(f)) /\ j \in Nat /\ (j - 1) + 1 = j
        BY <2>4, <4>1
      <4>3. QED
        BY <2>4, <4>1, <4>2
    <3>2. PICK a : a = Line(f)[j - 1]
      OBVIOUS
    <3>3. /\ Known(a) /\ Len(Line(a)) = Len(Line(f)) - (j - 1) + 1
          /\ \A i \in 1..Len(Line(a)) : Line(a)[i] = Line(f)[(j - 1) + i - 1]
          /\ j - 1 > 1 => Settled(a)
      BY <2>2, <3>1, <3>2 DEF LineOf, RestOf
    <3>4. Known(a)' /\ Line(a)' = Line(a)
      BY <1>1, <3>3, KnownStays
    <3>5. Settled(a)'
      <4>1. CASE j - 1 > 1
        BY <3>3, <4>1, SettledStays
      <4>2. CASE j - 1 = 1
        BY <2>2, <2>5, <3>2, <4>2
      <4>3. QED
        BY <3>1, <4>1, <4>2
    <3>6. Len(Line(a)) = Len(Line(c)') - j + 1
      BY <2>4, <3>1, <3>3
    <3>7. ASSUME NEW i \in 1..Len(Line(a))
          PROVE  Line(a)[i] = Line(c)'[j + i - 1]
      <4>1. Len(Line(a)) \in Nat /\ i \in Nat
        BY <2>4, <3>1, <3>6
      <4>2. (j - 1) + i - 1 \in 1..Len(Line(f)) /\ ((j - 1) + i - 1) + 1 = j + i - 1
        BY <3>1, <3>3, <4>1
      <4>3. Line(a)[i] = Line(f)[(j - 1) + i - 1]
        BY <3>3
      <4>4. Line(c)'[((j - 1) + i - 1) + 1] = Line(f)[(j - 1) + i - 1]
        BY <2>4, <4>2
      <4>5. QED
        BY <4>2, <4>3, <4>4
    <3>8. RestOf(c, j)'
      BY <3>1, <3>2, <3>4, <3>6, <3>7 DEF RestOf
    <3>9. QED
      BY <3>1, <3>2, <3>5, <3>8
  <2>8. Len(Line(c)') \in Nat
    BY <2>2, <2>4
  <2>9. QED
    BY <2>6, <2>7, <2>8 DEF LineOf
<1>5. QED
  BY <1>3, <1>4 DEF Births

LEMMA LineAfter ==
    ASSUME Inv, Effect, Moves, StoreType', NEW c \in Cands
    PROVE  LineOf(c)'
<1>1. CASE Known(c)
  BY <1>1, LineKept
<1>2. CASE Births(c)
  BY <1>2, LineBegun
<1>3. CASE ~Known(c) /\ ~Births(c)
  <2>1. CandOf(c) /\ StoreType /\ OrderInv /\ ActorInv /\ cand[c].rec = "none"
    BY <1>3 DEF Inv, StoreInv, TypeInv, Known
  <2>2. Line(c)' = Line(c)
    <3>1. CASE Advances \/ Commits
      BY <3>1 DEF Advances, Commits, Better, Kin, Line
    <3>2. CASE \E b \in Cands : Births(b)
      BY <1>3, <3>2 DEF Births, Better, Kin, Line
    <3>3. CASE \E b \in Cands : Retires(b) \/ Stamps(b) \/ Drops(b)
      BY <3>3 DEF Retires, Stamps, Drops, Same, Kin, Line
    <3>4. QED
      BY <3>1, <3>2, <3>3 DEF Effect
  <2>3. Line(c)' = <<>>
    BY <2>1, <2>2 DEF CandOf
  <2>4. QED
    BY <2>3 DEF LineOf
<1>4. QED
  BY <1>1, <1>2, <1>3

LEMMA OrderAfter ==
    ASSUME Inv, Effect
    PROVE  OrderInv'
<1>1. StoreType /\ OrderInv /\ ActorInv
  BY DEF Inv, StoreInv, TypeInv
<1>2. CASE UNCHANGED ready
  BY <1>1, <1>2 DEF OrderInv, IsReady
<1>3. CASE \E S : ready' = Without(S)
  <2>1. PICK S : ready' = Without(S)
    BY <1>3
  <2>2. \A d \in Cands : ready'[d] = IF d \in S THEN {} ELSE ready[d] \ S
    BY <2>1 DEF Without
  <2>3. \A d \in Cands : IsReady(d)' <=> IsReady(d) /\ d \notin S
    BY <1>1, <2>1, WithoutReady
  <2>4. ASSUME NEW c \in Cands, IsReady(c)' PROVE c \in ready'[c]
    BY <1>1, <2>2, <2>3, <2>4 DEF OrderInv
  <2>5. ASSUME NEW c \in Cands, NEW d \in Cands, d \in ready'[c]
        PROVE  IsReady(d)' /\ ready'[d] \subseteq ready'[c]
    <3>1. c \notin S /\ d \notin S /\ d \in ready[c]
      BY <2>2, <2>5
    <3>2. IsReady(d) /\ ready[d] \subseteq ready[c]
      BY <1>1, <3>1 DEF OrderInv
    <3>3. ready'[d] = ready[d] \ S /\ ready'[c] = ready[c] \ S
      BY <2>2, <3>1
    <3>4. QED
      BY <2>3, <3>1, <3>2, <3>3
  <2>6. ASSUME NEW c \in Cands, NEW d \in Cands, IsReady(c)', IsReady(d)', c # d
        PROVE  c \in ready'[d] <=> d \notin ready'[c]
    <3>1. c \notin S /\ d \notin S /\ IsReady(c) /\ IsReady(d)
      BY <2>3, <2>6
    <3>2. c \in ready[d] <=> d \notin ready[c]
      BY <1>1, <2>6, <3>1 DEF OrderInv
    <3>3. ready'[d] = ready[d] \ S /\ ready'[c] = ready[c] \ S
      BY <2>2, <3>1
    <3>4. QED
      BY <3>1, <3>2, <3>3
  <2>7. QED
    BY <2>4, <2>5, <2>6 DEF OrderInv
<1>4. CASE \E b \in Cands : Stamps(b)
  <2>1. PICK b \in Cands : Stamps(b)
    BY <1>4
  <2>2. \A d \in Cands \ {b} : ready'[d] = ready[d] /\ (IsReady(d)' <=> IsReady(d))
    BY <1>1, <2>1, StampedReady
  <2>3. ready'[b] = Receipts \cup {b} /\ IsReady(b)' /\ ~IsReady(b)
    BY <1>1, <2>1, StampsWhom, StampedReady DEF Stamps
  <2>4. \A d \in Cands : d \in Receipts <=> IsReady(d)
    BY DEF Receipts
  <2>5. ASSUME NEW c \in Cands, IsReady(c)' PROVE c \in ready'[c]
    BY <1>1, <2>2, <2>3, <2>5 DEF OrderInv
  <2>6. ASSUME NEW c \in Cands, NEW d \in Cands, d \in ready'[c]
        PROVE  IsReady(d)' /\ ready'[d] \subseteq ready'[c]
    <3>1. CASE c # b
      BY <1>1, <2>2, <2>3, <2>6, <3>1 DEF OrderInv
    <3>2. CASE c = b /\ d # b
      <4>1. IsReady(d)
        BY <2>3, <2>4, <2>6, <3>2
      <4>2. ready[d] \in SUBSET Receipts
        BY <1>1, <2>4, <4>1 DEF OrderInv, StoreType
      <4>3. QED
        BY <2>2, <2>3, <3>2, <4>1, <4>2
    <3>3. CASE c = b /\ d = b
      BY <2>3, <3>3
    <3>4. QED
      BY <3>1, <3>2, <3>3
  <2>7. ASSUME NEW c \in Cands, NEW d \in Cands, IsReady(c)', IsReady(d)', c # d
        PROVE  c \in ready'[d] <=> d \notin ready'[c]
    <3>1. ASSUME NEW e \in Cands, e # b, IsReady(e) PROVE e \in ready'[b] /\ b \notin ready'[e]
      BY <1>1, <2>2, <2>3, <2>4, <3>1 DEF OrderInv
    <3>2. CASE c # b /\ d # b
      BY <1>1, <2>2, <2>7, <3>2 DEF OrderInv
    <3>3. CASE c = b \/ d = b
      BY <2>2, <2>7, <3>1, <3>3
    <3>4. QED
      BY <3>2, <3>3
  <2>8. QED
    BY <2>5, <2>6, <2>7 DEF OrderInv
<1>5. QED
  <2>1. CASE Advances \/ \E b \in Cands : Births(b) \/ Retires(b)
    BY <1>2, <2>1 DEF Advances, Births, Retires, Past
  <2>2. CASE \E b \in Cands : Drops(b)
    BY <1>3, <2>2 DEF Drops
  <2>3. CASE Commits
    BY <1>2, <1>3, <2>3 DEF Commits
  <2>4. QED
    BY <1>4, <2>1, <2>2, <2>3 DEF Effect

\* Whoever is ready after a step, or about to be, was before.
Due(c) == IsReady(c) \/ (mig.pc = "receipt" /\ mig.cand = c)
Rooted(c) ==
    \/ \A a \in Origins(c) \ {c} : IsReady(a)
    \/ Origins(c) \cap (raced \cup orphans) # {}

LEMMA WholeIs == \A c : WholeOf(c) <=> (Due(c) => Rooted(c))
BY DEF WholeOf, Due, Rooted

LEMMA OriginsAre ==
    ASSUME StoreType, NEW c \in Cands
    PROVE  /\ Line(c) \in Seq(Cands) /\ Len(Line(c)) \in Nat
           /\ \A a : a \in Origins(c) <=> \E j \in 1..Len(Line(c)) : a = Line(c)[j]
<1>1. Line(c) \in Seq(Cands)
  BY DEF StoreType, Candidate, Line
<1>2. QED
  BY <1>1 DEF Origins, ToSet

LEMMA OriginsStay ==
    ASSUME Effect, StoreType, NEW c, Known(c)
    PROVE  Origins(c)' = Origins(c)
BY KnownStays DEF Origins

LEMMA DueBefore ==
    ASSUME Inv, Effect, Moves, NEW c \in Cands, ~Births(c), Due(c)'
    PROVE  Known(c) /\ Rooted(c) /\ Origins(c)' = Origins(c) /\ (Due(c) \/ Stamps(c))
<1>1. StoreType /\ ActorInv /\ OrderInv /\ WholeOf(c) /\ CandOf(c)
  BY DEF Inv, StoreInv, TypeInv
<1>2. mig'.pc = "receipt" /\ mig'.cand = c => mig.pc = "receipt" /\ mig.cand = c
  BY ActorsKeep
<1>3. IsReady(c)' => IsReady(c) \/ Stamps(c)
  <2>1. CASE Advances \/ \E b \in Cands : Births(b) \/ Retires(b)
    BY <2>1 DEF Advances, Births, Retires, Past, IsReady
  <2>2. CASE \E b \in Cands : Drops(b)
    BY <1>1, <2>2, WithoutReady DEF Drops
  <2>3. CASE Commits
    <3>1. CASE UNCHANGED ready
      BY <3>1 DEF IsReady
    <3>2. CASE ready' = Without(Outside)
      BY <1>1, <3>2, WithoutReady
    <3>3. QED
      BY <2>3, <3>1, <3>2 DEF Commits
  <2>4. CASE \E b \in Cands : Stamps(b)
    BY <1>1, <2>4, StampedReady
  <2>5. QED
    BY <2>1, <2>2, <2>3, <2>4 DEF Effect
<1>4. Due(c) \/ Stamps(c)
  BY <1>2, <1>3 DEF Due
<1>5. CASE Due(c)
  <2>1. Known(c)
    BY <1>1, <1>5 DEF Due, CandOf, Known, ActorInv
  <2>2. QED
    BY <1>1, <1>5, <2>1, WholeIs, OriginsStay
<1>6. CASE Stamps(c) /\ ~Due(c)
  <2>1. Known(c) /\ prep.pc \in Writing /\ prep.cand = c
    BY <1>1, <1>6, StampsWhom DEF Due
  <2>2. Len(Line(c)) = 1 /\ Line(c)[1] = c
    BY <1>1, <2>1 DEF ActorInv, CandOf, Known
  <2>3. Origins(c) = {c}
    BY <1>1, <2>2, OriginsAre
  <2>4. QED
    BY <1>1, <1>4, <2>1, <2>3, OriginsStay DEF Rooted
<1>7. QED
  BY <1>4, <1>5, <1>6

\* What comes after a candidate in a lineage
LEMMA OriginIsSettled ==
    ASSUME Inv, NEW c \in Cands, Known(c), NEW a, a \in Origins(c), a # c
    PROVE  Known(a) /\ Settled(a)
<1>1. StoreType /\ CandOf(c) /\ LineOf(c)
  BY DEF Inv, StoreInv, TypeInv
<1>2. PICK j \in 1..Len(Line(c)) : a = Line(c)[j]
  BY <1>1, OriginsAre
<1>3. Line(c)[1] = c
  BY <1>1 DEF CandOf, Known
<1>4. j > 1
  BY <1>1, <1>2, <1>3, OriginsAre
<1>5. QED
  BY <1>1, <1>2, <1>4 DEF LineOf, RestOf

\* The retention keeps the lineage of what it keeps.
LEMMA KeptIsClosed ==
    ASSUME Inv, NEW r \in Cands, Known(r), NEW c, c \in Walked(r),
           \A b \in Origins(c) \ {c} : IsReady(b), IsReady(c), NEW a, a \in Origins(c)
    PROVE  a \in Walked(r)
<1>1. StoreType /\ LineOf(r) /\ CandOf(r)
  BY DEF Inv, StoreInv, TypeInv
<1>2. Line(r) \in Seq(Cands) /\ Len(Line(r)) \in Nat
  BY <1>1, OriginsAre
<1>3. PICK m \in 1..Len(Line(r)) : c = Line(r)[m] /\ \A k \in 1..(m - 1) : IsReady(Line(r)[k])
  BY <1>2 DEF Walked, Line
<1>4. /\ Known(c) /\ c \in Cands /\ Len(Line(c)) = Len(Line(r)) - m + 1
      /\ \A i \in 1..Len(Line(c)) : Line(c)[i] = Line(r)[m + i - 1]
  BY <1>1, <1>3 DEF LineOf, RestOf, Known
<1>5. PICK i \in 1..Len(Line(c)) : a = Line(c)[i]
  BY <1>1, <1>4, OriginsAre
<1>6. m \in Nat /\ i \in Nat /\ Len(Line(c)) \in Nat /\ Len(Line(c)) + m = Len(Line(r)) + 1 /\ m >= 1 /\ i >= 1
      /\ i <= Len(Line(c))
  BY <1>1, <1>2, <1>4, OriginsAre
<1>7. m + i - 1 \in 1..Len(Line(r)) /\ a = Line(r)[m + i - 1]
  BY <1>2, <1>4, <1>5, <1>6
<1>8. ASSUME NEW k \in 1..((m + i - 1) - 1) PROVE IsReady(Line(r)[k])
  <2>1. CASE k \in 1..(m - 1)
    BY <1>3, <2>1
  <2>2. CASE k \notin 1..(m - 1)
    <3>1. k - m + 1 \in 1..Len(Line(c)) /\ m + (k - m + 1) - 1 = k
      BY <1>6, <2>2
    <3>2. Line(c)[k - m + 1] = Line(r)[k]
      BY <1>4, <3>1
    <3>3. Line(r)[k] \in Origins(c)
      BY <1>1, <1>4, <3>1, <3>2, OriginsAre
    <3>4. QED
      BY <3>3
  <2>3. QED
    BY <2>1, <2>2
<1>9. PICK n : n = m + i - 1
  OBVIOUS
<1>10. n \in DOMAIN Line(r) /\ a = Line(r)[n] /\ \A k \in 1..(n - 1) : IsReady(Line(r)[k])
  BY <1>2, <1>7, <1>8, <1>9
<1>11. QED
  BY <1>10 DEF Walked, Line

LEMMA WholeAfter ==
    ASSUME Inv, Effect, Moves, StoreType', NEW c \in Cands
    PROVE  WholeOf(c)'
<1>1. StoreType /\ ActorInv /\ OrderInv /\ PubInv /\ \A d \in Cands : CandOf(d) /\ WholeOf(d)
  BY DEF Inv, StoreInv, LiveInv, TypeInv
<1>2. SUFFICES ASSUME Due(c)' PROVE Rooted(c)'
  BY DEF WholeOf, Due, Rooted
<1>3. CASE Births(c)
  <2>1. ready' = ready /\ raced' = raced /\ orphans' = orphans
    BY <1>3 DEF Births, Past
  <2>2. CASE cand'[c].line = <<c>>
    <3>1. Origins(c)' = {c}
      BY <2>2 DEF Origins, Line, ToSet
    <3>2. QED
      BY <3>1 DEF Rooted
  <2>3. CASE \E f \in Receipts \ {c} : cand'[c].line = <<c>> \o cand[f].line
    <3>1. PICK f \in Cands \ {c} : cand'[c].line = <<c>> \o Line(f) /\ IsReady(f)
      BY <2>3 DEF Receipts, Line
    <3>2. Rooted(f) /\ Line(f) \in Seq(Cands)
      BY <1>1, <3>1, WholeIs, OriginsAre DEF Due
    <3>3. Line(c)' = <<c>> \o Line(f)
      BY <3>1 DEF Line
    <3>4. Origins(c)' = {c} \cup Origins(f)
      <4>1. Line(c)' \in Seq(Cands) /\ Len(Line(c)') = Len(Line(f)) + 1 /\ Line(c)'[1] = c
            /\ \A k \in 1..Len(Line(f)) : Line(c)'[k + 1] = Line(f)[k]
        BY <3>2, <3>3
      <4>2. \A a : a \in Origins(f) <=> \E j \in 1..Len(Line(f)) : a = Line(f)[j]
        BY <1>1, <3>1, OriginsAre
      <4>3. \A a : a \in Origins(c)' <=> \E j \in 1..Len(Line(c)') : a = Line(c)'[j]
        BY <4>1 DEF Origins, ToSet
      <4>4. ASSUME NEW a, a \in Origins(c)' PROVE a \in {c} \cup Origins(f)
        <5>1. PICK j \in 1..Len(Line(c)') : a = Line(c)'[j]
          BY <4>3, <4>4
        <5>2. CASE j = 1
          BY <4>1, <5>1, <5>2
        <5>3. CASE j # 1
          <6>1. j - 1 \in 1..Len(Line(f)) /\ (j - 1) + 1 = j
            BY <3>2, <4>1, <5>3
          <6>2. QED
            BY <4>1, <4>2, <5>1, <6>1
        <5>4. QED
          BY <5>2, <5>3
      <4>5. ASSUME NEW a, a \in {c} \cup Origins(f) PROVE a \in Origins(c)'
        <5>1. CASE a = c
          <6>1. 1 \in 1..Len(Line(c)')
            BY <3>2, <4>1
          <6>2. QED
            BY <4>1, <4>3, <5>1, <6>1
        <5>2. CASE a \in Origins(f)
          <6>1. PICK j \in 1..Len(Line(f)) : a = Line(f)[j]
            BY <4>2, <5>2
          <6>2. j + 1 \in 1..Len(Line(c)') /\ Line(c)'[j + 1] = a
            BY <3>2, <4>1, <6>1
          <6>3. QED
            BY <4>3, <6>2
        <5>3. QED
          BY <4>5, <5>1, <5>2
      <4>6. QED
        BY <4>4, <4>5
    <3>5. QED
      BY <2>1, <3>1, <3>2, <3>4 DEF Rooted, IsReady
  <2>4. QED
    BY <1>3, <2>2, <2>3 DEF Births
<1>4. CASE ~Births(c)
  <2>1. Known(c) /\ Rooted(c) /\ Origins(c)' = Origins(c) /\ (Due(c) \/ Stamps(c))
    BY <1>2, <1>4, DueBefore
  <2>2. c \in Origins(c)
    <3>1. Len(Line(c)) > 0 /\ Line(c)[1] = c
      BY <1>1, <2>1 DEF CandOf, Known
    <3>2. 1 \in 1..Len(Line(c))
      BY <1>1, <3>1, OriginsAre
    <3>3. QED
      BY <1>1, <3>1, <3>2, OriginsAre
  <2>3. raced \subseteq raced' /\ orphans \subseteq orphans'
    <3>1. CASE Advances \/ Commits
      BY <3>1 DEF Advances, Commits, Past
    <3>2. CASE \E b \in Cands : Births(b) \/ Retires(b) \/ Stamps(b) \/ Drops(b)
      BY <3>2 DEF Births, Retires, Stamps, Drops, Past
    <3>3. QED
      BY <3>1, <3>2 DEF Effect
  <2>4. CASE Origins(c) \cap (raced \cup orphans) # {}
    BY <2>1, <2>3, <2>4 DEF Rooted
  <2>5. CASE \A a \in Origins(c) \ {c} : IsReady(a)
    <3>1. \A a \in Origins(c) \ {c} : a \in Cands /\ Known(a) /\ Settled(a)
      BY <2>1, OriginIsSettled DEF Known
    <3>2. SUFFICES ASSUME Origins(c) \cap (raced' \cup orphans') = {}
                   PROVE  \A a \in Origins(c) \ {c} : IsReady(a)'
      BY <2>1 DEF Rooted
    <3>3. CASE ready' = ready
      BY <2>5, <3>3 DEF IsReady
    <3>4. CASE \E b \in Cands : Stamps(b)
      BY <1>1, <2>5, <3>1, <3>4, StampedReady
    <3>5. CASE \E b \in Cands : Drops(b)
      <4>1. PICK b \in Cands : Drops(b)
        BY <3>5
      <4>2. ASSUME NEW a \in Origins(c) \ {c} PROVE IsReady(a)'
        <5>1. IsReady(a) /\ a \in Cands /\ Settled(a) /\ a \notin raced
          BY <2>3, <2>5, <3>1, <3>2
        <5>2. a # b
          BY <4>1, <5>1 DEF Settled, Drops
        <5>3. QED
          BY <1>1, <4>1, <5>1, <5>2, WithoutReady DEF Drops
      <4>3. QED
        BY <4>2
    <3>6. CASE Commits /\ ready' # ready
      <4>1. /\ ready' = Without(Outside) /\ pub.pc = "commit"
            /\ orphans' = IF mig.pc = "receipt" /\ Origins(mig.cand) \cap Outside # {}
                          THEN orphans \cup {mig.cand} ELSE orphans
        BY <3>6 DEF Commits, Past
      <4>2. SUFFICES ASSUME NEW a \in Origins(c) \ {c} PROVE a \notin Outside
        BY <1>1, <2>5, <3>1, <4>1, WithoutReady
      <4>3. CASE mig.pc = "receipt" /\ mig.cand = c
        BY <2>2, <3>2, <4>1, <4>3
      <4>4. CASE ~(mig.pc = "receipt" /\ mig.cand = c)
        <5>1. IsReady(c)
          <6>1. ~Stamps(c)
            BY <3>6, <4>1, <1>1, <2>1, StampsWhom, StampedReady, WithoutReady DEF Due
          <6>2. QED
            BY <2>1, <4>4, <6>1 DEF Due
        <5>2. c \notin Outside
          <6>1. IsReady(c)'
            BY <1>1, <1>2, <1>4, <4>4, ActorsKeep DEF Due
          <6>2. QED
            BY <1>1, <4>1, <6>1, WithoutReady
        <5>3. c \in Kept
          BY <5>1, <5>2 DEF Outside, Receipts
        <5>4. PICK r \in {live, pub.cand} : c \in Walked(r)
          BY <5>3 DEF Kept
        <5>5. Known(r) /\ r \in Cands
          BY <1>1, <4>1 DEF PubInv, Known
        <5>6. a \in Walked(r)
          BY <2>5, <5>1, <5>4, <5>5, KeptIsClosed
        <5>7. QED
          BY <5>6 DEF Outside, Kept
      <4>5. QED
        BY <4>3, <4>4
    <3>7. QED
      <4>1. CASE Advances \/ \E b \in Cands : Births(b) \/ Retires(b)
        BY <3>3, <4>1 DEF Advances, Births, Retires, Past
      <4>2. QED
        BY <3>3, <3>4, <3>5, <3>6, <4>1 DEF Effect
  <2>6. QED
    BY <2>1, <2>4, <2>5 DEF Rooted
<1>5. QED
  BY <1>3, <1>4

LEMMA ActorAfter ==
    ASSUME Inv, Effect, Moves, StoreType'
    PROVE  ActorInv'
<1>1. StoreType /\ ActorInv /\ OrderInv /\ \A c \in Cands : CandOf(c)
  BY DEF Inv, StoreInv, TypeInv
<1>2. \A a : Births(a) /\ a \in Cands => Known(a)' /\ ~IsReady(a)' /\ ~Known(a)
  BY <1>1 DEF Births, Known, CandOf, Past, IsReady
<1>3. \A a : Known(a) => Known(a)' /\ Line(a)' = Line(a)
  BY <1>1, KnownStays
<1>4. ASSUME NEW a \in Cands, Known(a), ~IsReady(a), ~Stamps(a) PROVE ~IsReady(a)'
  <2>1. CASE Advances \/ \E b \in Cands : Births(b) \/ Retires(b)
    BY <1>4, <2>1 DEF Advances, Births, Retires, Past, IsReady
  <2>2. CASE \E b \in Cands : Drops(b)
    BY <1>1, <1>4, <2>2, WithoutReady DEF Drops
  <2>3. CASE \E b \in Cands : Stamps(b)
    BY <1>1, <1>4, <2>3, StampedReady
  <2>4. CASE Commits
    <3>1. CASE UNCHANGED ready
      BY <1>4, <3>1 DEF IsReady
    <3>2. CASE ready' = Without(Outside)
      BY <1>1, <1>4, <3>2, WithoutReady
    <3>3. QED
      BY <2>4, <3>1, <3>2 DEF Commits
  <2>5. QED
    BY <2>1, <2>2, <2>3, <2>4 DEF Effect
<1>5. prep'.pc \notin {"idle", "plan"} => Known(prep.cand)'
  BY <1>1, <1>2, <1>3 DEF Moves, PrepMoves, ActorInv, Known
<1>6. ASSUME prep'.pc \in Writing
      PROVE  /\ ~IsReady(prep.cand)' /\ Len(Line(prep.cand)') = 1
             /\ (prep.pc \in Writing /\ prep'.cand = prep.cand) \/ (Births(prep'.cand) /\ UNCHANGED mig)
  <2>1. prep'.pc \notin {"idle", "plan"}
    BY <1>6 DEF Writing
  <2>2. CASE prep.pc \in Writing /\ prep'.cand = prep.cand
    <3>1. Known(prep.cand) /\ ~IsReady(prep.cand) /\ Len(Line(prep.cand)) = 1 /\ prep.cand \in Cands
      BY <1>1, <2>2 DEF ActorInv, Writing, Known
    <3>2. ~Stamps(prep.cand)
      BY <1>1, <1>6, <2>2 DEF Stamps, ActorInv, Writing
    <3>3. ~IsReady(prep.cand)' /\ Len(Line(prep.cand)') = 1
      BY <1>3, <1>4, <2>2, <3>1, <3>2 DEF IsReady, Line
    <3>4. QED
      BY <2>2, <3>3
  <2>3. CASE /\ prep'.cand \in Cands /\ Births(prep'.cand) /\ UNCHANGED mig
             /\ cand'[prep'.cand].line = <<prep'.cand>>
    BY <1>2, <2>3 DEF IsReady, Line
  <2>4. QED
    BY <1>6, <2>1, <2>2, <2>3 DEF Moves, PrepMoves
<1>7. mig'.pc # "idle" => Known(mig.cand)'
  BY <1>1, <1>2, <1>3 DEF Moves, MigMoves, ActorInv, Known
<1>8. ASSUME mig'.pc = "receipt"
      PROVE  /\ ~IsReady(mig.cand)'
             /\ (mig.pc = "receipt" /\ mig'.cand = mig.cand) \/ (Births(mig'.cand) /\ UNCHANGED prep)
  <2>1. CASE mig.pc = "receipt" /\ mig'.cand = mig.cand
    <3>1. Known(mig.cand) /\ ~IsReady(mig.cand) /\ mig.cand \in Cands
      BY <1>1, <2>1 DEF ActorInv, Known
    <3>2. ~Stamps(mig.cand)
      BY <1>1, <1>8, <2>1 DEF Stamps, ActorInv, Writing
    <3>3. ~IsReady(mig.cand)'
      BY <1>4, <2>1, <3>1, <3>2 DEF IsReady
    <3>4. QED
      BY <2>1, <3>3
  <2>2. CASE mig'.cand \in Cands /\ Births(mig'.cand) /\ UNCHANGED prep
    BY <1>2, <2>2 DEF IsReady
  <2>3. QED
    BY <1>8, <2>1, <2>2 DEF Moves, MigMoves
<1>9. mig'.pc = "receipt" /\ prep'.pc \in Writing => mig'.cand # prep'.cand
  <2>1. SUFFICES ASSUME mig'.pc = "receipt", prep'.pc \in Writing, mig'.cand = prep'.cand PROVE FALSE
    OBVIOUS
  <2>2. CASE /\ prep.pc \in Writing /\ prep'.cand = prep.cand
             /\ mig.pc = "receipt" /\ mig'.cand = mig.cand
    BY <1>1, <2>1, <2>2 DEF ActorInv
  <2>3. CASE prep.pc \in Writing /\ prep'.cand = prep.cand /\ Births(mig'.cand)
    <3>1. Known(prep.cand) /\ prep.cand \in Cands
      BY <1>1, <2>3 DEF ActorInv, Writing, Known
    <3>2. QED
      BY <1>2, <2>1, <2>3, <3>1
  <2>4. CASE Births(prep'.cand) /\ UNCHANGED mig
    <3>1. Known(mig.cand) /\ mig.cand \in Cands
      BY <1>1, <2>1, <2>4 DEF ActorInv, Known
    <3>2. QED
      BY <1>2, <2>1, <2>4, <3>1
  <2>5. QED
    BY <1>6, <1>8, <2>1, <2>2, <2>3, <2>4
<1>10. /\ clean'.pc \in {"check", "write", "remove"} => Known(clean.cand)'
       /\ clean'.pc = "write" => clean'.rec \in Resumable
       /\ clean'.pc = "remove" => cand'[clean'.cand].rec = "retired"
  <2>1. ASSUME NEW a, Known(a), cand[a].rec = "retired" PROVE cand'[a].rec = "retired"
    BY <1>1, <2>1, KnownStays
  <2>2. clean'.pc \in {"check", "write", "remove"} => Known(clean'.cand)
    BY DEF Moves, CleanMoves
  <2>3. clean'.pc = "remove" => cand'[clean'.cand].rec = "retired"
    BY <2>1, <2>2 DEF Moves, CleanMoves
  <2>4. QED
    BY <1>3, <2>2, <2>3 DEF Moves, CleanMoves, Known
<1>11. /\ op'.pc # "idle" => Known(op.cand)'
       /\ op'.pc = "rename" => op'.cand \in raced'
  BY <1>3 DEF Moves, OpMoves, Known
<1>12. QED
  BY <1>5, <1>6, <1>7, <1>8, <1>9, <1>10, <1>11 DEF ActorInv

-----------------------------------------------------------------------------
(* The types after a step.                                                 *)

\* One field of an input after the other
LEMMA InputParts ==
    ASSUME NEW r \in Input
    PROVE  /\ \A b \in BOOLEAN : /\ [r EXCEPT !.man = b] \in Input /\ [r EXCEPT !.comp = b] \in Input
                               /\ [r EXCEPT !.plan = b] \in Input /\ [r EXCEPT !.old = b] \in Input
           /\ \A d \in {"none", "partial", "whole"} : [r EXCEPT !.data = d] \in Input
BY DEF Input

LEMMA SourcesTyped ==
    ASSUME Inv, Next
    PROVE  src' \in [Snaps -> Input]
<1>1. /\ src \in [Snaps -> Input] /\ prep.snap \in Snaps /\ upstream.snap \in Snaps
      /\ live \in Cands /\ cand[live] \in Candidate /\ Pointer \in Snaps
  BY DEF Inv, StoreInv, TypeInv, DataType, PrepType, SiteType, StoreType, Candidate, Pointer
<1>2. CASE UNCHANGED src
  BY <1>1, <1>2
<1>3. CASE PrepStart
  BY <1>1, <1>3 DEF PrepStart, Input
<1>4. CASE RebuildBegin
  <2>1. PICK s \in 1..upstream.snap : src' = [src EXCEPT ![s].plan = TRUE]
    BY <1>4 DEF RebuildBegin
  <2>2. QED
    BY <1>1, <2>1 DEF Input
<1>5. CASE SourceBegin
  <2>1. PICK d \in {"partial", "whole"}, o \in BOOLEAN :
            src' = [src EXCEPT ![prep.snap].data = d, ![prep.snap].old = o, ![prep.snap].plan = TRUE]
    <3>1. src[prep.snap].old \in BOOLEAN
      BY <1>1 DEF Input
    <3>2. PICK d \in {"partial", "whole"}, o \in BOOLEAN :
             /\ d = IF src[prep.snap].data = "whole" THEN src[prep.snap].data ELSE "partial"
             /\ o = (src[prep.snap].old /\ src[prep.snap].data # "none")
      OBVIOUS
    <3>3. src' = [src EXCEPT ![prep.snap].data = d, ![prep.snap].old = o, ![prep.snap].plan = TRUE]
      BY <1>1, <1>5, <3>2 DEF SourceBegin
    <3>4. QED
      BY <3>3
  <2>2. PICK r : r = [[[src[prep.snap] EXCEPT !.data = d] EXCEPT !.old = o] EXCEPT !.plan = TRUE]
    OBVIOUS
  <2>3. r \in Input
    BY <1>1, <2>2, InputParts
  <2>4. src' = [src EXCEPT ![prep.snap] = r]
    BY <1>1, <2>1, <2>2 DEF Input
  <2>5. QED
    BY <1>1, <2>3, <2>4
<1>6. CASE SourceEnd
  <2>1. PICK r : r = [[[[src[prep.snap] EXCEPT !.data = "whole"] EXCEPT !.man = TRUE]
                          EXCEPT !.comp = TRUE] EXCEPT !.plan = TRUE]
    OBVIOUS
  <2>2. r \in Input
    BY <1>1, <2>1, InputParts
  <2>3. src' = [src EXCEPT ![prep.snap] = r]
    BY <1>1, <1>6, <2>1 DEF SourceEnd, Input
  <2>4. QED
    BY <1>1, <2>2, <2>3
<1>7. CASE Compute
  <2>1. prep.cand \in Cands
    BY <1>7 DEF Compute, Inv, StoreInv, ActorInv, Known
  <2>2. PICK f \in SUBSET Cands : src' = [src EXCEPT ![prep.snap].fits = f, ![prep.snap].plan = TRUE]
    <3>1. PICK same \in SUBSET ReadyOf(prep.snap) :
             src' = [src EXCEPT ![prep.snap].fits = @ \cup same \cup {prep.cand}, ![prep.snap].plan = TRUE]
      BY <1>7 DEF Compute
    <3>2. PICK f : f = src[prep.snap].fits \cup same \cup {prep.cand}
      OBVIOUS
    <3>3. src[prep.snap].fits \in SUBSET Cands /\ same \in SUBSET Cands
      BY <1>1, <3>1 DEF Input, ReadyOf, Receipts
    <3>4. src' = [src EXCEPT ![prep.snap].fits = f, ![prep.snap].plan = TRUE]
      BY <1>1, <3>1, <3>2
    <3>5. QED
      BY <2>1, <3>2, <3>3, <3>4
  <2>3. QED
    BY <1>1, <2>2 DEF Input
<1>14. CASE PrepValidate
  BY <1>1, <1>14 DEF PrepValidate, Input
<1>8. CASE PubCommit
  <2>1. NoSource \in Input
    BY DEF NoSource, Input
  <2>2. CASE src' = [s \in Snaps |-> IF s = Pointer THEN src[s] ELSE NoSource]
    BY <1>1, <2>1, <2>2
  <2>3. QED
    BY <1>2, <1>8, <2>2 DEF PubCommit
<1>9. CASE PurgeData
  BY <1>1, <1>9 DEF PurgeData, Purge, Input
<1>15. CASE PurgePatrol
  <2>1. src' = [s \in Snaps |-> [src[s] EXCEPT !.fits = {}]]
    BY <1>15 DEF PurgePatrol, Purge
  <2>2. QED
    BY <1>1, <2>1 DEF Input
<1>10. CASE PurgeCompaction \/ PurgeManifest
  <2>1. PICK r \in Input : src' = [src EXCEPT ![Pointer] = r]
    <3>1. CASE PurgeCompaction
      <4>1. src' = [src EXCEPT ![Pointer] = [src[Pointer] EXCEPT !.comp = FALSE]]
        BY <1>1, <3>1 DEF PurgeCompaction, Purge, Input
      <4>2. QED
        BY <1>1, <4>1, InputParts
    <3>2. CASE PurgeManifest
      <4>1. src' = [src EXCEPT ![Pointer] = [src[Pointer] EXCEPT !.man = FALSE]]
        BY <1>1, <3>2 DEF PurgeManifest, Purge, Input
      <4>2. QED
        BY <1>1, <4>1, InputParts
    <3>3. QED
      BY <1>10, <3>1, <3>2
  <2>2. QED
    BY <1>1, <2>1
<1>11. CASE CleanSources
  <2>1. NoSource \in Input
    BY DEF NoSource, Input
  <2>2. PICK S : src' = [s \in Snaps |-> IF s \in S THEN NoSource ELSE src[s]]
    <3> DEFINE S == {s \in Snaps : s # Pointer /\ s \notin clean.snaps /\ src[s].data # "none" /\ src[s].old}
    <3>1. src' = [s \in Snaps |-> IF s \in S THEN NoSource ELSE src[s]]
      BY <1>11 DEF CleanSources
    <3>2. QED
      BY <3>1
  <2>3. QED
    BY <1>1, <2>1, <2>2
<1>12. CASE Tick
  <2>1. src' = [s \in Snaps |-> [src[s] EXCEPT !.old = @ \/ src[s].data # "none"]]
    BY <1>12 DEF Tick
  <2>2. ASSUME NEW s \in Snaps PROVE [src[s] EXCEPT !.old = @ \/ src[s].data # "none"] \in Input
    <3>1. PICK b \in BOOLEAN : b = (src[s].old \/ src[s].data # "none")
      OBVIOUS
    <3>2. [src[s] EXCEPT !.old = b] \in Input
      BY <1>1 DEF Input
    <3>3. QED
      BY <3>1, <3>2
  <2>3. QED
    BY <2>1, <2>2
<1>13. QED
  <2>1. CASE PlanNoOp \/ PlanBuild \/ PrepReceipt \/ PrepRecord \/ PrepIndex \/ PrepFails \/ PrepCrash
    BY <1>2, <2>1 DEF PlanNoOp, PlanBuild, PrepReceipt, PrepRecord, PrepIndex, PrepFails, PrepCrash, dataVars
  <2>2. CASE PubActivate \/ PubNoOp \/ RetentionApply \/ PubAuthorize \/ PurgeApplied \/ PubFails
    BY <1>2, <2>2 DEF PubActivate, PubNoOp, RetentionApply, PubAuthorize, PurgeApplied, PubFails, dataVars
  <2>3. CASE Migration
    BY <1>2, <2>3 DEF Migration, MigBegin, MigResume, MigReceipt, MigRecord, MigIndex, MigFails, dataVars
  <2>4. CASE CleanBegin \/ CleanLoad \/ CleanCheck \/ CleanWrite \/ CleanRemove \/ CleanScanned \/ CleanFails
    BY <1>2, <2>4 DEF CleanBegin, CleanLoad, CleanCheck, CleanWrite, CleanRemove, CleanScanned, CleanFails, dataVars
  <2>5. CASE Operator
    BY <1>2, <2>5 DEF Operator, OpCheck, OpResume, OpRetire, OpRename, OpIndex, OpFails, dataVars
  <2>6. CASE Deploy \/ Release
    BY <1>2, <2>6 DEF Deploy, Release, dataVars
  <2>7. QED
    BY <1>3, <1>4, <1>5, <1>6, <1>7, <1>8, <1>9, <1>10, <1>11, <1>12, <1>14, <1>15, <2>1, <2>2, <2>3,
       <2>4, <2>5, <2>6 DEF Next, Preparation, Publisher, Cleanup

\* The retention receipt changes only for the served snapshot and candidate.
LEMMA ReceiptMoves ==
    ASSUME Inv, Next
    PROVE  /\ receipt' \in [Snaps -> Receipt]
           /\ \/ UNCHANGED receipt
              \/ /\ PubAuthorize \/ PurgeApplied
                 /\ \E st \in {"authorized", "applied"} :
                        receipt' = [receipt EXCEPT ![Pointer] = [state |-> st, cand |-> live]]
<1>1. live \in Cands /\ receipt \in [Snaps -> Receipt]
  BY DEF Inv, StoreInv, TypeInv, SiteType, DataType
<1>2. CASE PubAuthorize \/ PurgeApplied
  BY <1>1, <1>2 DEF PubAuthorize, PurgeApplied, Receipt
<1>3. CASE ~(PubAuthorize \/ PurgeApplied)
  <2>1. CASE Preparation
    BY <1>1, <2>1 DEF Preparation, PrepStart, PlanNoOp, PlanBuild, RebuildBegin, SourceBegin, SourceEnd,
       Compute, PrepValidate, PrepReceipt, PrepRecord, PrepIndex, PrepFails, PrepCrash, dataVars
  <2>2. CASE Publisher
    BY <1>1, <1>3, <2>2 DEF Publisher, PubActivate, PubNoOp, PubCommit, RetentionApply, PurgeData,
       PurgePatrol, PurgeCompaction, PurgeManifest, Purge, PubFails, dataVars
  <2>3. CASE Migration
    BY <1>1, <2>3 DEF Migration, MigBegin, MigResume, MigReceipt, MigRecord, MigIndex, MigFails, dataVars
  <2>4. CASE Cleanup
    BY <1>1, <2>4 DEF Cleanup, CleanBegin, CleanLoad, CleanCheck, CleanWrite, CleanRemove, CleanScanned,
       CleanSources, CleanFails, dataVars
  <2>5. CASE Operator
    BY <1>1, <2>5 DEF Operator, OpCheck, OpResume, OpRetire, OpRename, OpIndex, OpFails, dataVars
  <2>6. CASE Deploy \/ Release \/ Tick
    BY <1>1, <2>6 DEF Deploy, Release, Tick, dataVars
  <2>7. QED
    BY <2>1, <2>2, <2>3, <2>4, <2>5, <2>6 DEF Next
<1>4. QED
  BY <1>2, <1>3

\* The index names candidates; the publisher alone moves what is served.
LEMMA SiteTyped ==
    ASSUME Inv, Next
    PROVE  SiteType' /\ (live' = live \/ PubActivate)
<1>1. SiteType /\ StoreType /\ OrderInv /\ PrepType /\ MigType /\ OpType /\ ActorInv
  BY DEF Inv, StoreInv, TypeInv
<1>2. ASSUME NEW a \in Cands \cup {None}, NEW b \in Cands \cup {None}, index' = [newest |-> a, active |-> b]
      PROVE  index' \in [newest : Cands \cup {None}, active : Cands \cup {None}]
  BY <1>2
<1>3. CASE UNCHANGED <<live, index, upstream>>
  BY <1>1, <1>3 DEF SiteType
<1>4. CASE Preparation
  <2>1. CASE PlanNoOp
    <3>1. Selection(prep.alg) \in Cands
      BY <1>1, <2>1, SelectionIs DEF PlanNoOp
    <3>2. QED
      BY <1>1, <1>2, <2>1, <3>1 DEF PlanNoOp, WriteIndex, SiteType
  <2>2. CASE PrepIndex
    <3>1. prep.cand \in Cands
      BY <1>1, <2>2 DEF PrepIndex, ActorInv, Known
    <3>2. QED
      BY <1>1, <1>2, <2>2, <3>1 DEF PrepIndex, WriteIndex, SiteType
  <2>3. QED
    BY <1>3, <1>4, <2>1, <2>2 DEF Preparation, PrepStart, PlanBuild, RebuildBegin, SourceBegin, SourceEnd,
       Compute, PrepValidate, PrepReceipt, PrepRecord, PrepFails, PrepCrash
<1>5. CASE Publisher
  <2>1. CASE PubActivate
    <3>1. Selection(upstream.alg) \in Cands /\ live \in Cands
      BY <1>1, <2>1, SelectionIs DEF PubActivate, SiteType
    <3>2. QED
      BY <1>1, <1>2, <2>1, <3>1 DEF PubActivate, SiteType
  <2>2. CASE PubNoOp
    BY <1>1, <1>2, <2>2 DEF PubNoOp, WriteIndex, SiteType
  <2>3. CASE PubCommit
    <3>1. UNCHANGED index \/ WriteIndex(live)
      BY <2>3 DEF PubCommit
    <3>2. live' = live /\ upstream' = upstream
      BY <2>3 DEF PubCommit
    <3>3. QED
      BY <1>1, <1>2, <3>1, <3>2 DEF WriteIndex, SiteType
  <2>4. QED
    BY <1>3, <1>5, <2>1, <2>2, <2>3 DEF Publisher, RetentionApply, PubAuthorize, PurgeData,
       PurgePatrol, PurgeCompaction, PurgeManifest, Purge, PurgeApplied, PubFails
<1>6. CASE Migration
  <2>1. CASE MigBegin
    <3>1. Selection(upstream.alg) \in Cands
      BY <1>1, <2>1, SelectionIs DEF MigBegin
    <3>2. QED
      BY <1>1, <1>2, <2>1, <3>1 DEF MigBegin, WriteIndex, SiteType
  <2>2. CASE MigIndex
    <3>1. mig.cand \in Cands
      BY <1>1, <2>2 DEF MigIndex, ActorInv, Known
    <3>2. QED
      BY <1>1, <1>2, <2>2, <3>1 DEF MigIndex, WriteIndex, SiteType
  <2>3. QED
    BY <1>3, <1>6, <2>1, <2>2 DEF Migration, MigResume, MigReceipt, MigRecord, MigFails
<1>7. CASE Cleanup
  BY <1>3, <1>7 DEF Cleanup, CleanBegin, CleanLoad, CleanCheck, CleanWrite, CleanRemove, CleanScanned,
     CleanSources, CleanFails
<1>8. CASE Operator
  <2>1. CASE OpIndex
    <3>1. CASE Discoverable(op.alg) # {} /\ IndexWritable
      <4>1. Discoverable(op.alg) \in SUBSET Receipts
        BY DEF Discoverable
      <4>2. NewestOf(Discoverable(op.alg)) \in Cands
        BY <1>1, <3>1, <4>1, NewestIn DEF Receipts
      <4>3. QED
        BY <1>1, <1>2, <2>1, <3>1, <4>2 DEF OpIndex, WriteIndex, SiteType
    <3>2. CASE ~(Discoverable(op.alg) # {} /\ IndexWritable)
      BY <1>1, <1>2, <2>1, <3>2 DEF OpIndex, SiteType
    <3>3. QED
      BY <3>1, <3>2
  <2>2. QED
    BY <1>3, <1>8, <2>1 DEF Operator, OpCheck, OpResume, OpRetire, OpRename, OpFails
<1>9. CASE Deploy
  <2>1. upstream.alg < MaxAlg /\ upstream' = [upstream EXCEPT !.alg = @ + 1] /\ UNCHANGED <<live, index>>
    BY <1>9 DEF Deploy
  <2>2. upstream.alg + 1 \in 1..MaxAlg
    BY <1>1, <2>1, Constants DEF SiteType
  <2>3. QED
    BY <1>1, <2>1, <2>2 DEF SiteType
<1>10. CASE Release
  <2>1. upstream.snap < MaxSnap /\ upstream' = [upstream EXCEPT !.snap = @ + 1] /\ UNCHANGED <<live, index>>
    BY <1>10 DEF Release
  <2>2. upstream.snap + 1 \in Snaps
    BY <1>1, <2>1, Constants DEF SiteType, Snaps
  <2>3. QED
    BY <1>1, <2>1, <2>2 DEF SiteType
<1>11. CASE Tick
  BY <1>3, <1>11 DEF Tick
<1>12. QED
  BY <1>4, <1>5, <1>6, <1>7, <1>8, <1>9, <1>10, <1>11 DEF Next

LEMMA PrepTyped ==
    ASSUME Inv, Next
    PROVE  PrepType'
<1>1. PrepType /\ SiteType
  BY DEF Inv, StoreInv, TypeInv
<1>2. CASE UNCHANGED <<prep, lock>>
  BY <1>1, <1>2 DEF PrepType
<1>3. NoPrep.locked = FALSE /\ NoPrep \in [pc : {"idle"}, cand : {None}, snap : Snaps, alg : 1..MaxAlg, locked : BOOLEAN]
  BY Constants DEF NoPrep
<1>4. CASE PrepStart
  BY <1>1, <1>4 DEF PrepStart, PrepType, SiteType
<1>5. CASE PlanNoOp \/ PrepIndex \/ PrepFails
  <2>1. prep' = NoPrep /\ lock' \in BOOLEAN
    BY <1>5 DEF PlanNoOp, PrepIndex, PrepFails, PrepEnd
  <2>2. QED
    BY <1>3, <2>1 DEF PrepType
<1>6. CASE PrepCrash
  BY <1>1, <1>3, <1>6 DEF PrepCrash, PrepType
<1>7. CASE PlanBuild
  <2>1. PICK c \in Cands : prep' = [prep EXCEPT !.pc = "source", !.cand = c]
    BY <1>7 DEF PlanBuild, Fresh
  <2>2. UNCHANGED lock
    BY <1>7 DEF PlanBuild
  <2>3. QED
    BY <1>1, <2>1, <2>2 DEF PrepType
<1>8. CASE RebuildBegin
  <2>1. PICK c \in Cands, s \in 1..upstream.snap :
            prep' = [pc |-> "source", cand |-> c, snap |-> s, alg |-> upstream.alg, locked |-> FALSE]
    BY <1>8 DEF RebuildBegin, Fresh
  <2>2. s \in Snaps /\ UNCHANGED lock
    BY <1>1, <1>8, Constants DEF RebuildBegin, SiteType, Snaps
  <2>3. QED
    BY <1>1, <2>1, <2>2 DEF PrepType, SiteType
<1>9. CASE SourceBegin \/ SourceEnd \/ Compute \/ PrepValidate \/ PrepReceipt \/ PrepRecord
  <2>1. PICK p \in {"ingest", "compute", "validate", "receipt", "record", "index"} :
            prep' = [prep EXCEPT !.pc = p] /\ UNCHANGED lock
    BY <1>9 DEF SourceBegin, SourceEnd, Compute, PrepValidate, PrepReceipt, PrepRecord, PrepGoto
  <2>2. QED
    BY <1>1, <2>1 DEF PrepType
<1>10. CASE Publisher
  BY <1>2, <1>10 DEF Publisher, PubActivate, PubNoOp, PubCommit, RetentionApply, PubAuthorize, PurgeData,
     PurgePatrol, PurgeCompaction, PurgeManifest, Purge, PurgeApplied, PubFails
<1>11. CASE Migration
  BY <1>2, <1>11 DEF Migration, MigBegin, MigResume, MigReceipt, MigRecord, MigIndex, MigFails
<1>12. CASE Cleanup
  BY <1>2, <1>12 DEF Cleanup, CleanBegin, CleanLoad, CleanCheck, CleanWrite, CleanRemove, CleanScanned,
     CleanSources, CleanFails
<1>13. CASE Operator
  BY <1>2, <1>13 DEF Operator, OpCheck, OpResume, OpRetire, OpRename, OpIndex, OpFails
<1>14. CASE Deploy \/ Release \/ Tick
  BY <1>2, <1>14 DEF Deploy, Release, Tick, actors
<1>15. QED
  BY <1>4, <1>5, <1>6, <1>7, <1>8, <1>9, <1>10, <1>11, <1>12, <1>13, <1>14 DEF Next, Preparation

LEMMA PubTyped ==
    ASSUME Inv, Next
    PROVE  PubType'
<1>1. PubType /\ SiteType
  BY DEF Inv, StoreInv, TypeInv
<1>2. CASE UNCHANGED pub
  BY <1>1, <1>2 DEF PubType
<1>3. CASE Publisher
  <2>1. CASE PubActivate
    BY <1>1, <2>1 DEF PubActivate, PubType, SiteType
  <2>2. CASE PubCommit
    <3>1. PubEnd \/ PubGoto("authorize")
      BY <2>2 DEF PubCommit
    <3>2. QED
      BY <1>1, <3>1 DEF PubEnd, PubGoto, Idle, PubType
  <2>3. CASE PurgeApplied \/ PubFails
    BY <2>3 DEF PurgeApplied, PubFails, PubEnd, Idle, PubType
  <2>4. CASE \/ PubNoOp \/ RetentionApply \/ PubAuthorize \/ PurgeData \/ PurgePatrol
             \/ PurgeCompaction \/ PurgeManifest
    <3>1. PICK p \in Purging \cup {"authorize"} : PubGoto(p)
      BY <2>4 DEF PubNoOp, RetentionApply, PubAuthorize, PurgeData, PurgePatrol, PurgeCompaction,
         PurgeManifest, Purge, Purging
    <3>2. QED
      BY <1>1, <3>1 DEF PubGoto, PubType, Purging
  <2>5. QED
    BY <1>3, <2>1, <2>2, <2>3, <2>4 DEF Publisher
<1>4. CASE Preparation
  BY <1>2, <1>4 DEF Preparation, PrepStart, PlanNoOp, PlanBuild, RebuildBegin, SourceBegin, SourceEnd,
     Compute, PrepValidate, PrepReceipt, PrepRecord, PrepIndex, PrepFails, PrepCrash
<1>5. CASE Migration
  BY <1>2, <1>5 DEF Migration, MigBegin, MigResume, MigReceipt, MigRecord, MigIndex, MigFails
<1>6. CASE Cleanup
  BY <1>2, <1>6 DEF Cleanup, CleanBegin, CleanLoad, CleanCheck, CleanWrite, CleanRemove, CleanScanned,
     CleanSources, CleanFails
<1>7. CASE Operator
  BY <1>2, <1>7 DEF Operator, OpCheck, OpResume, OpRetire, OpRename, OpIndex, OpFails
<1>8. CASE Deploy \/ Release \/ Tick
  BY <1>2, <1>8 DEF Deploy, Release, Tick, actors
<1>9. QED
  BY <1>3, <1>4, <1>5, <1>6, <1>7, <1>8 DEF Next

LEMMA MigTyped ==
    ASSUME Inv, Next
    PROVE  MigType'
<1>1. MigType /\ SiteType
  BY DEF Inv, StoreInv, TypeInv
<1>2. CASE UNCHANGED mig
  BY <1>1, <1>2 DEF MigType
<1>3. CASE Migration
  <2>1. CASE MigBegin
    <3>1. PICK c \in Cands : mig' = [pc |-> "receipt", cand |-> c, alg |-> upstream.alg]
      BY <2>1 DEF MigBegin, Fresh
    <3>2. QED
      BY <1>1, <3>1 DEF MigType, SiteType
  <2>2. CASE MigResume
    <3>1. PICK c \in Cands : mig' = [pc |-> "index", cand |-> c, alg |-> upstream.alg]
      BY <2>2 DEF MigResume, ReadyOf, Receipts
    <3>2. QED
      BY <1>1, <3>1 DEF MigType, SiteType
  <2>3. CASE MigReceipt \/ MigRecord
    <3>1. PICK p \in {"record", "index"} : mig' = [mig EXCEPT !.pc = p]
      BY <2>3 DEF MigReceipt, MigRecord
    <3>2. QED
      BY <1>1, <3>1 DEF MigType
  <2>4. CASE MigIndex \/ MigFails
    BY <2>4, Constants DEF MigIndex, MigFails, NoOp, MigType
  <2>5. QED
    BY <1>3, <2>1, <2>2, <2>3, <2>4 DEF Migration
<1>4. CASE Preparation
  BY <1>2, <1>4 DEF Preparation, PrepStart, PlanNoOp, PlanBuild, RebuildBegin, SourceBegin, SourceEnd,
     Compute, PrepValidate, PrepReceipt, PrepRecord, PrepIndex, PrepFails, PrepCrash
<1>5. CASE Publisher
  BY <1>2, <1>5 DEF Publisher, PubActivate, PubNoOp, PubCommit, RetentionApply, PubAuthorize, PurgeData,
     PurgePatrol, PurgeCompaction, PurgeManifest, Purge, PurgeApplied, PubFails
<1>6. CASE Cleanup
  BY <1>2, <1>6 DEF Cleanup, CleanBegin, CleanLoad, CleanCheck, CleanWrite, CleanRemove, CleanScanned,
     CleanSources, CleanFails
<1>7. CASE Operator
  BY <1>2, <1>7 DEF Operator, OpCheck, OpResume, OpRetire, OpRename, OpIndex, OpFails
<1>8. CASE Deploy \/ Release \/ Tick
  BY <1>2, <1>8 DEF Deploy, Release, Tick, actors
<1>9. QED
  BY <1>3, <1>4, <1>5, <1>6, <1>7, <1>8 DEF Next

LEMMA CleanTyped ==
    ASSUME Inv, Next
    PROVE  CleanType'
<1>1. CleanType /\ SiteType /\ StoreType /\ ActorInv
  BY DEF Inv, StoreInv, TypeInv
<1>2. CASE UNCHANGED clean
  BY <1>1, <1>2 DEF CleanType
<1>3. NoClean \in [pc : {"idle"}, cand : {None}, live : {None}, rec : GStates, snaps : SUBSET Snaps]
  BY DEF NoClean, GStates
<1>4. CASE Cleanup
  <2>1. CASE CleanBegin
    <3>1. clean' = [NoClean EXCEPT !.pc = "scan", !.live = live]
      BY <2>1 DEF CleanBegin
    <3>2. QED
      BY <1>1, <1>3, <3>1 DEF CleanType, SiteType
  <2>2. CASE CleanLoad
    <3>1. PICK c \in Cands, p \in {"remove", "check"} : clean' = [clean EXCEPT !.pc = p, !.cand = c]
      <4>1. PICK c \in Cands :
            clean' = [clean EXCEPT !.pc = IF cand[c].rec = "retired" THEN "remove" ELSE "check", !.cand = c]
        BY <2>2 DEF CleanLoad
      <4>2. PICK p \in {"remove", "check"} : p = IF cand[c].rec = "retired" THEN "remove" ELSE "check"
        OBVIOUS
      <4>3. QED
        BY <4>1, <4>2
    <3>2. QED
      BY <1>1, <3>1 DEF CleanType
  <2>3. CASE CleanCheck
    <3>1. PICK r \in GStates : clean' = [clean EXCEPT !.pc = "write", !.rec = r]
      <4>1. cand[clean.cand].rec \in GStates
        BY <1>1, <2>3 DEF CleanCheck, ActorInv, Known, StoreType, Candidate
      <4>2. QED
        BY <2>3, <4>1 DEF CleanCheck
    <3>2. QED
      BY <1>1, <3>1 DEF CleanType
  <2>4. CASE CleanWrite \/ CleanRemove
    <3>1. PICK p \in {"remove", "scan"} : clean' = [clean EXCEPT !.pc = p]
      BY <2>4 DEF CleanWrite, CleanRemove, CleanGoto
    <3>2. QED
      BY <1>1, <3>1 DEF CleanType
  <2>5. CASE CleanScanned
    <3>1. PICK S \in SUBSET Snaps :
            clean' = NoClean \/ clean' = [clean EXCEPT !.pc = "sources", !.snaps = S]
      <4>1. {cand[c].snap : c \in {d \in Cands : cand[d].files # "none"}} \in SUBSET Snaps
        BY <1>1 DEF StoreType, Candidate
      <4>2. QED
        BY <2>5, <4>1 DEF CleanScanned
    <3>2. QED
      BY <1>1, <1>3, <3>1 DEF CleanType
  <2>6. CASE CleanSources \/ CleanFails
    <3>1. clean' = NoClean
      BY <2>6 DEF CleanSources, CleanFails
    <3>2. QED
      BY <1>3, <3>1 DEF CleanType
  <2>7. QED
    BY <1>4, <2>1, <2>2, <2>3, <2>4, <2>5, <2>6 DEF Cleanup
<1>5. CASE Preparation
  BY <1>2, <1>5 DEF Preparation, PrepStart, PlanNoOp, PlanBuild, RebuildBegin, SourceBegin, SourceEnd,
     Compute, PrepValidate, PrepReceipt, PrepRecord, PrepIndex, PrepFails, PrepCrash
<1>6. CASE Publisher
  BY <1>2, <1>6 DEF Publisher, PubActivate, PubNoOp, PubCommit, RetentionApply, PubAuthorize, PurgeData,
     PurgePatrol, PurgeCompaction, PurgeManifest, Purge, PurgeApplied, PubFails
<1>7. CASE Migration
  BY <1>2, <1>7 DEF Migration, MigBegin, MigResume, MigReceipt, MigRecord, MigIndex, MigFails
<1>8. CASE Operator
  BY <1>2, <1>8 DEF Operator, OpCheck, OpResume, OpRetire, OpRename, OpIndex, OpFails
<1>9. CASE Deploy \/ Release \/ Tick
  BY <1>2, <1>9 DEF Deploy, Release, Tick, actors
<1>10. QED
  BY <1>4, <1>5, <1>6, <1>7, <1>8, <1>9 DEF Next

LEMMA OpTyped ==
    ASSUME Inv, Next
    PROVE  OpType'
<1>1. OpType /\ SiteType
  BY DEF Inv, StoreInv, TypeInv
<1>2. CASE UNCHANGED op
  BY <1>1, <1>2 DEF OpType
<1>3. CASE Operator
  <2>1. CASE OpCheck \/ OpResume
    <3>1. PICK c \in Cands, p \in {"retire", "index"} : op' = [pc |-> p, cand |-> c, alg |-> upstream.alg]
      BY <2>1 DEF OpCheck, OpResume, Receipts
    <3>2. QED
      BY <1>1, <3>1 DEF OpType, SiteType
  <2>2. CASE OpRetire \/ OpRename
    <3>1. PICK p \in {"rename", "index"} : op' = [op EXCEPT !.pc = p]
      BY <2>2 DEF OpRetire, OpRename
    <3>2. QED
      BY <1>1, <3>1 DEF OpType
  <2>3. CASE OpIndex \/ OpFails
    BY <2>3, Constants DEF OpIndex, OpFails, NoOp, OpType
  <2>4. QED
    BY <1>3, <2>1, <2>2, <2>3 DEF Operator
<1>4. CASE Preparation
  BY <1>2, <1>4 DEF Preparation, PrepStart, PlanNoOp, PlanBuild, RebuildBegin, SourceBegin, SourceEnd,
     Compute, PrepValidate, PrepReceipt, PrepRecord, PrepIndex, PrepFails, PrepCrash
<1>5. CASE Publisher
  BY <1>2, <1>5 DEF Publisher, PubActivate, PubNoOp, PubCommit, RetentionApply, PubAuthorize, PurgeData,
     PurgePatrol, PurgeCompaction, PurgeManifest, Purge, PurgeApplied, PubFails
<1>6. CASE Migration
  BY <1>2, <1>6 DEF Migration, MigBegin, MigResume, MigReceipt, MigRecord, MigIndex, MigFails
<1>7. CASE Cleanup
  BY <1>2, <1>7 DEF Cleanup, CleanBegin, CleanLoad, CleanCheck, CleanWrite, CleanRemove, CleanScanned,
     CleanSources, CleanFails
<1>8. CASE Deploy \/ Release \/ Tick
  BY <1>2, <1>8 DEF Deploy, Release, Tick, actors
<1>9. QED
  BY <1>3, <1>4, <1>5, <1>6, <1>7, <1>8 DEF Next

LEMMA EventsTyped ==
    ASSUME Inv, Next
    PROVE  events' \in 0..MaxEvents
<1>1. events \in 0..MaxEvents /\ MaxEvents \in Nat
  BY Constants DEF Inv, StoreInv, TypeInv, PastType
<1>0. Event("deploy") \/ Event("release") \/ Event("rebuild") \/ Event("migrate") \/ Event("retire")
      \/ Event("resume") \/ Event("retain") \/ Event("cleanup") \/ Event("crash") \/ Event("fail")
      => events < MaxEvents /\ events' = events + 1
  <2>1. Limit \in [Events -> 0..MaxEvents]
    BY StoreAssumption
  <2>2. \A kind \in Events : Limit[kind] \in 0..MaxEvents
    BY <2>1
  <2>3. \A kind \in Events : Event(kind) => events < MaxEvents /\ events' = events + 1
    BY <1>1, <2>2 DEF Event
  <2>4. QED
    BY <2>3 DEF Events
<1>2. CASE events' = events \/ (events < MaxEvents /\ events' = events + 1)
  BY <1>1, <1>2
<1>3. CASE Preparation
  BY <1>0, <1>2, <1>3 DEF Preparation, PrepStart, PlanNoOp, PlanBuild, RebuildBegin, SourceBegin, SourceEnd,
     Compute, PrepValidate, PrepReceipt, PrepRecord, PrepIndex, PrepFails, PrepCrash
<1>4. CASE Publisher
  BY <1>0, <1>2, <1>4 DEF Publisher, PubActivate, PubNoOp, PubCommit, RetentionApply, PubAuthorize, PurgeData,
     PurgePatrol, PurgeCompaction, PurgeManifest, Purge, PurgeApplied, PubFails
<1>5. CASE Migration
  BY <1>0, <1>2, <1>5 DEF Migration, MigBegin, MigResume, MigReceipt, MigRecord, MigIndex, MigFails, MigAllowed
<1>6. CASE Cleanup
  BY <1>0, <1>2, <1>6 DEF Cleanup, CleanBegin, CleanLoad, CleanCheck, CleanWrite, CleanRemove, CleanScanned,
     CleanSources, CleanFails
<1>7. CASE Operator
  BY <1>0, <1>2, <1>7 DEF Operator, OpCheck, OpResume, OpRetire, OpRename, OpIndex, OpFails
<1>8. CASE Deploy \/ Release \/ Tick
  BY <1>0, <1>2, <1>8 DEF Deploy, Release, Tick
<1>9. QED
  BY <1>3, <1>4, <1>5, <1>6, <1>7, <1>8 DEF Next

LEMMA PastTyped ==
    ASSUME Inv, Next
    PROVE  PastType'
<1>1. Effect /\ ActorInv /\ raced \subseteq Cands /\ orphans \subseteq Cands
  BY Effects DEF Inv, StoreInv, TypeInv, PastType
<1>2. raced' \subseteq Cands /\ orphans' \subseteq Cands
  <2>1. CASE Advances \/ \E c \in Cands : Births(c) \/ Retires(c) \/ Stamps(c) \/ Drops(c)
    BY <1>1, <2>1 DEF Advances, Births, Retires, Stamps, Drops, Past
  <2>2. CASE Commits
    <3>1. mig.pc = "receipt" => mig.cand \in Cands
      BY <1>1 DEF ActorInv, Known
    <3>2. raced' = raced /\ (orphans' = orphans \/ (mig.pc = "receipt" /\ orphans' = orphans \cup {mig.cand}))
      BY <2>2 DEF Commits
    <3>3. QED
      BY <1>1, <3>1, <3>2
  <2>3. QED
    BY <1>1, <2>1, <2>2 DEF Effect
<1>3. QED
  BY <1>2, EventsTyped DEF PastType

LEMMA TypeAfter ==
    ASSUME Inv, Next
    PROVE  TypeInv'
BY Effects, SourcesTyped, ReceiptMoves, SiteTyped, PrepTyped, PubTyped, MigTyped, CleanTyped,
   OpTyped, PastTyped DEF TypeInv, DataType

LEMMA StoreAfter ==
    ASSUME Inv, Next
    PROVE  StoreInv'
<1>1. Effect /\ StoreType' /\ Moves /\ TypeInv'
  BY Effects, AllMoves, TypeAfter
<1>2. ActorInv' /\ OrderInv'
  BY <1>1, ActorAfter, OrderAfter
<1>3. \A c \in Cands : CandOf(c)' /\ LineOf(c)' /\ WholeOf(c)'
  BY <1>1, CandAfter, LineAfter, WholeAfter
<1>4. QED
  BY <1>1, <1>2, <1>3 DEF StoreInv

-----------------------------------------------------------------------------
(* What is served, after a step.                                           *)

\* The plan of the served snapshot is never removed, and the rest only by the purge.
Purges == PurgePatrol \/ PurgeCompaction \/ PurgeManifest
Untouched(s) ==
    /\ Proven(s) => src'[s].man /\ src'[s].comp
    /\ src[s].fits \subseteq src'[s].fits

LEMMA SourceMoves ==
    ASSUME Inv, Next
    PROVE  /\ \A s \in Snaps : src'[s].man => src'[s].plan
           /\ src'[Pointer].plan
           /\ Purges \/ Untouched(Pointer)
<1>1. /\ src \in [Snaps -> Input] /\ prep.snap \in Snaps /\ upstream.snap \in Snaps /\ Pointer \in Snaps
      /\ \A s \in Snaps : src[s].man => src[s].plan
      /\ src[Pointer].plan
  BY DEF Inv, StoreInv, LiveInv, TypeInv, DataType, PrepType, SiteType, StoreType, Candidate, Pointer, SourceInv
<1>2. CASE UNCHANGED src
  BY <1>1, <1>2 DEF Untouched, Proven
<1>3. CASE \E s \in Snaps : src' = [src EXCEPT ![s].plan = TRUE]
  <2>1. PICK s \in Snaps : src' = [src EXCEPT ![s].plan = TRUE]
    BY <1>3
  <2>2. src'[s].plan /\ \A t \in Snaps : /\ src'[t].man = src[t].man /\ src'[t].comp = src[t].comp
                                         /\ src'[t].fits = src[t].fits /\ (t # s => src'[t] = src[t])
    BY <1>1, <2>1 DEF Input
  <2>3. QED
    BY <1>1, <2>2 DEF Untouched, Proven
<1>4. CASE SourceBegin
  <2>1. PICK d, o : src' = [src EXCEPT ![prep.snap].data = d, ![prep.snap].old = o, ![prep.snap].plan = TRUE]
    <3>1. PICK d, o :
             /\ d = IF src[prep.snap].data = "whole" THEN src[prep.snap].data ELSE "partial"
             /\ o = (src[prep.snap].old /\ src[prep.snap].data # "none")
      OBVIOUS
    <3>2. src' = [src EXCEPT ![prep.snap].data = d, ![prep.snap].old = o, ![prep.snap].plan = TRUE]
      BY <1>1, <1>4, <3>1 DEF SourceBegin
    <3>3. QED
      BY <3>2
  <2>2. /\ src'[prep.snap].plan
        /\ \A t \in Snaps : /\ src'[t].man = src[t].man /\ src'[t].comp = src[t].comp
                             /\ src'[t].fits = src[t].fits /\ (t # prep.snap => src'[t] = src[t])
    BY <1>1, <2>1 DEF Input
  <2>3. QED
    BY <1>1, <2>2 DEF Untouched, Proven
<1>5. CASE SourceEnd
  <2>1. src' = [src EXCEPT ![prep.snap].data = "whole", ![prep.snap].man = TRUE,
                           ![prep.snap].comp = TRUE, ![prep.snap].plan = TRUE]
    BY <1>5 DEF SourceEnd
  <2>2. /\ src'[prep.snap].plan /\ src'[prep.snap].man /\ src'[prep.snap].comp
        /\ src'[prep.snap].fits = src[prep.snap].fits
        /\ \A t \in Snaps : t # prep.snap => src'[t] = src[t]
    BY <1>1, <2>1 DEF Input
  <2>3. QED
    BY <1>1, <2>2 DEF Untouched, Proven
<1>12. CASE Compute
  <2>1. PICK same : src' = [src EXCEPT ![prep.snap].fits = @ \cup same \cup {prep.cand},
                                      ![prep.snap].plan = TRUE]
    BY <1>12 DEF Compute
  <2>2. PICK f : f = src[prep.snap].fits \cup same \cup {prep.cand}
    OBVIOUS
  <2>3. src' = [src EXCEPT ![prep.snap].fits = f, ![prep.snap].plan = TRUE]
    BY <1>1, <2>1, <2>2
  <2>4. /\ src'[prep.snap].plan /\ src'[prep.snap].fits = f
        /\ \A t \in Snaps : /\ src'[t].man = src[t].man /\ src'[t].comp = src[t].comp
                             /\ (t # prep.snap => src'[t] = src[t])
    BY <1>1, <2>3 DEF Input
  <2>5. src[prep.snap].fits \subseteq src'[prep.snap].fits
    BY <2>2, <2>4
  <2>6. QED
    BY <1>1, <2>4, <2>5 DEF Untouched, Proven
<1>6. CASE PubCommit
  <2>1. CASE src' = [s \in Snaps |-> IF s = Pointer THEN src[s] ELSE NoSource]
    <3>1. \A s \in Snaps : IF s = Pointer THEN src'[s] = src[s] ELSE ~src'[s].man
      BY <2>1 DEF NoSource
    <3>2. QED
      BY <1>1, <3>1 DEF Untouched, Proven
  <2>2. QED
    BY <1>2, <1>6, <2>1 DEF PubCommit
<1>7. CASE PurgeData
  <2>1. \A s \in Snaps : /\ src'[s].man = src[s].man /\ src'[s].plan = src[s].plan
                         /\ src'[s].comp = src[s].comp /\ src'[s].fits = src[s].fits
    BY <1>1, <1>7 DEF PurgeData, Purge, Input
  <2>2. QED
    BY <1>1, <2>1 DEF Untouched, Proven
<1>8. CASE Purges
  <2>1. \A s \in Snaps : src'[s].plan = src[s].plan /\ (src'[s].man => src[s].man)
    <3>1. CASE PurgePatrol
      <4>1. src' = [s \in Snaps |-> [src[s] EXCEPT !.fits = {}]]
        BY <3>1 DEF PurgePatrol, Purge
      <4>2. QED
        BY <1>1, <4>1 DEF Input
    <3>2. CASE PurgeCompaction
      BY <1>1, <3>2 DEF PurgeCompaction, Purge, Input
    <3>3. CASE PurgeManifest
      BY <1>1, <3>3 DEF PurgeManifest, Purge, Input
    <3>4. QED
      BY <1>8, <3>1, <3>2, <3>3 DEF Purges
  <2>2. QED
    BY <1>1, <1>8, <2>1
<1>9. CASE CleanSources
  <2>1. src'[Pointer] = src[Pointer] /\ \A s \in Snaps : src'[s] = src[s] \/ ~src'[s].man
    BY <1>1, <1>9 DEF CleanSources, NoSource
  <2>2. QED
    BY <1>1, <2>1 DEF Untouched, Proven
<1>10. CASE Tick
  <2>1. src' = [s \in Snaps |-> [src[s] EXCEPT !.old = @ \/ src[s].data # "none"]]
    BY <1>10 DEF Tick
  <2>2. ASSUME NEW s \in Snaps
        PROVE  /\ src'[s].man = src[s].man /\ src'[s].plan = src[s].plan
               /\ src'[s].comp = src[s].comp /\ src'[s].fits = src[s].fits
    <3>1. PICK b : b = (src[s].old \/ src[s].data # "none")
      OBVIOUS
    <3>2. src'[s] = [src[s] EXCEPT !.old = b]
      BY <2>1, <3>1
    <3>3. QED
      BY <1>1, <3>2 DEF Input
  <2>3. QED
    BY <1>1, <2>2 DEF Untouched, Proven
<1>11. QED
  <2>1. CASE PrepStart \/ RebuildBegin \/ PrepValidate
    <3>1. \A s \in 1..upstream.snap : s \in Snaps
      BY <1>1, Constants DEF Snaps
    <3>2. QED
      BY <1>1, <1>3, <2>1, <3>1 DEF PrepStart, RebuildBegin, PrepValidate
  <2>2. CASE PlanNoOp \/ PlanBuild \/ PrepReceipt \/ PrepRecord \/ PrepIndex \/ PrepFails \/ PrepCrash
    BY <1>2, <2>2 DEF PlanNoOp, PlanBuild, PrepReceipt, PrepRecord, PrepIndex, PrepFails, PrepCrash, dataVars
  <2>3. CASE PubActivate \/ PubNoOp \/ RetentionApply \/ PubAuthorize \/ PurgeApplied \/ PubFails
    BY <1>2, <2>3 DEF PubActivate, PubNoOp, RetentionApply, PubAuthorize, PurgeApplied, PubFails, dataVars
  <2>4. CASE Migration
    BY <1>2, <2>4 DEF Migration, MigBegin, MigResume, MigReceipt, MigRecord, MigIndex, MigFails, dataVars
  <2>5. CASE CleanBegin \/ CleanLoad \/ CleanCheck \/ CleanWrite \/ CleanRemove \/ CleanScanned \/ CleanFails
    BY <1>2, <2>5 DEF CleanBegin, CleanLoad, CleanCheck, CleanWrite, CleanRemove, CleanScanned, CleanFails, dataVars
  <2>6. CASE Operator
    BY <1>2, <2>6 DEF Operator, OpCheck, OpResume, OpRetire, OpRename, OpIndex, OpFails, dataVars
  <2>7. CASE Deploy \/ Release
    BY <1>2, <2>7 DEF Deploy, Release, dataVars
  <2>8. QED
    BY <1>4, <1>5, <1>6, <1>7, <1>8, <1>9, <1>10, <1>12, <2>1, <2>2, <2>3, <2>4, <2>5, <2>6, <2>7
       DEF Next, Preparation, Publisher, Cleanup, Purges

LEMMA PublisherMoves ==
    ASSUME Inv, Next
    PROVE  /\ pub'.pc = "commit" => PubActivate \/ (pub.pc = "commit" /\ pub' = pub)
           /\ pub'.pc \in Purging => PubAuthorize \/ pub.pc \in Purging
<1>1. PubType
  BY DEF Inv, StoreInv, TypeInv
<1>2. CASE UNCHANGED pub
  BY <1>2
<1>3. CASE Publisher
  <2>1. CASE PubActivate
    BY <2>1 DEF PubActivate, Purging
  <2>2. CASE PubCommit
    <3>1. PubEnd \/ PubGoto("authorize")
      BY <2>2 DEF PubCommit
    <3>2. pub'.pc \in {"idle", "authorize"}
      BY <1>1, <3>1 DEF PubEnd, PubGoto, Idle, PubType
    <3>3. QED
      BY <3>2 DEF Purging
  <2>3. CASE PurgeApplied \/ PubFails
    BY <2>3 DEF PurgeApplied, PubFails, PubEnd, Idle, Purging
  <2>4. CASE PubAuthorize
    BY <1>1, <2>4 DEF PubAuthorize, PubGoto, PubType
  <2>5. CASE PubNoOp \/ RetentionApply
    BY <1>1, <2>5 DEF PubNoOp, RetentionApply, PubGoto, PubType, Purging
  <2>6. CASE PurgeData \/ PurgePatrol \/ PurgeCompaction \/ PurgeManifest
    BY <1>1, <2>6 DEF PurgeData, PurgePatrol, PurgeCompaction, PurgeManifest, Purge, PubGoto, PubType,
       Purging
  <2>7. QED
    BY <1>3, <2>1, <2>2, <2>3, <2>4, <2>5, <2>6 DEF Publisher
<1>4. CASE Preparation
  BY <1>2, <1>4 DEF Preparation, PrepStart, PlanNoOp, PlanBuild, RebuildBegin, SourceBegin, SourceEnd,
     Compute, PrepValidate, PrepReceipt, PrepRecord, PrepIndex, PrepFails, PrepCrash
<1>5. CASE Migration
  BY <1>2, <1>5 DEF Migration, MigBegin, MigResume, MigReceipt, MigRecord, MigIndex, MigFails
<1>6. CASE Cleanup
  BY <1>2, <1>6 DEF Cleanup, CleanBegin, CleanLoad, CleanCheck, CleanWrite, CleanRemove, CleanScanned,
     CleanSources, CleanFails
<1>7. CASE Operator
  BY <1>2, <1>7 DEF Operator, OpCheck, OpResume, OpRetire, OpRename, OpIndex, OpFails
<1>8. CASE Deploy \/ Release \/ Tick
  BY <1>2, <1>8 DEF Deploy, Release, Tick, actors
<1>9. QED
  BY <1>3, <1>4, <1>5, <1>6, <1>7, <1>8 DEF Next

\* A lineage that has been followed stays ready, unless somebody raced.
LEMMA LineageStays ==
    ASSUME Inv, Effect, NEW c \in Cands, Known(c), cand[c].rec # "retired",
           pub.pc = "commit" => c \in {live, pub.cand}, Origins(c) \cap raced' = {},
           NEW n \in DOMAIN Line(c), \A k \in 1..n : IsReady(Line(c)[k])
    PROVE  \A k \in 1..n : IsReady(Line(c)[k])'
<1>1. StoreType /\ ActorInv /\ OrderInv /\ CandOf(c) /\ LineOf(c)
  BY DEF Inv, StoreInv, TypeInv
<1>2. Line(c) \in Seq(Cands) /\ Len(Line(c)) \in Nat /\ n \in 1..Len(Line(c)) /\ Line(c)' = Line(c)
  BY <1>1, OriginsAre, KnownStays
<1>3. raced \subseteq raced'
  <2>1. CASE Advances \/ Commits
    BY <2>1 DEF Advances, Commits, Past
  <2>2. CASE \E b \in Cands : Births(b) \/ Retires(b) \/ Stamps(b) \/ Drops(b)
    BY <2>2 DEF Births, Retires, Stamps, Drops, Past
  <2>3. QED
    BY <2>1, <2>2 DEF Effect
<1>4. SUFFICES ASSUME NEW k \in 1..n PROVE IsReady(Line(c)[k])'
  OBVIOUS
<1>5. PICK a : a = Line(c)[k]
  OBVIOUS
<1>6. /\ k \in 1..Len(Line(c)) /\ a \in Cands /\ IsReady(a) /\ a \in Origins(c) /\ a \notin raced /\ a \notin raced'
  BY <1>1, <1>2, <1>3, <1>5, OriginsAre
<1>7. SUFFICES IsReady(a)'
  BY <1>2, <1>5 DEF IsReady
<1>8. CASE ready' = ready
  BY <1>6, <1>8 DEF IsReady
<1>9. CASE \E b \in Cands : Stamps(b)
  BY <1>1, <1>6, <1>9, StampedReady
<1>10. CASE \E b \in Cands : Drops(b)
  <2>1. PICK b \in Cands : Drops(b)
    BY <1>10
  <2>2. CASE a = b
    <3>1. a = c \/ Settled(a)
      BY <1>6, OriginIsSettled
    <3>2. QED
      BY <1>6, <2>1, <2>2, <3>1 DEF Settled, Drops
  <2>3. CASE a # b
    BY <1>1, <1>6, <2>1, <2>3, WithoutReady DEF Drops
  <2>4. QED
    BY <2>2, <2>3
<1>11. CASE Commits /\ ready' # ready
  <2>1. ready' = Without(Outside) /\ pub.pc = "commit"
    BY <1>11 DEF Commits, Past
  <2>2. k \in DOMAIN Line(c) /\ \A i \in 1..(k - 1) : IsReady(Line(c)[i])
    BY <1>2
  <2>3. a \in Walked(c)
    BY <1>5, <2>2 DEF Walked, Line
  <2>4. a \notin Outside
    BY <2>1, <2>3 DEF Outside, Kept
  <2>5. QED
    BY <1>1, <1>6, <2>1, <2>4, WithoutReady
<1>12. QED
  <2>1. CASE Advances \/ \E b \in Cands : Births(b) \/ Retires(b)
    BY <1>8, <2>1 DEF Advances, Births, Retires, Past
  <2>2. QED
    BY <1>8, <1>9, <1>10, <1>11, <2>1 DEF Effect

\* The publisher activates what it has selected.
LEMMA Activated ==
    ASSUME Inv, StoreInv', PubActivate
    PROVE  LiveInv'
<1> DEFINE sel == Selection(upstream.alg)
<1>1. StoreType /\ SiteType /\ OrderInv /\ SourceInv /\ Known(live) /\ \A c \in Cands : CandOf(c)
  BY DEF Inv, StoreInv, LiveInv, PubInv, TypeInv
<1>2. /\ sel \in Receipts /\ sel \in Cands /\ RefOK(sel, upstream.alg) /\ sel \in Looked(upstream.alg)
      /\ cand[sel].rec \notin Gone
  BY <1>1, SelectionIs DEF PubActivate
<1>3. /\ live' = sel /\ sel # live /\ cand' = Reconciled(Looked(upstream.alg))
      /\ ready' = ready /\ src' = src /\ receipt' = receipt /\ pub' = [pc |-> "commit", cand |-> live]
  BY DEF PubActivate, dataVars
<1>4. /\ cand'[sel].snap = cand[sel].snap /\ cand'[sel].line = cand[sel].line
      /\ cand'[sel].files = cand[sel].files
      /\ cand'[sel].rec = IF cand[sel].rec \in Resumable THEN "ready" ELSE cand[sel].rec
      /\ cand'[live].rec = "none" => cand[live].rec = "none"
  BY <1>1, <1>2, <1>3, ReconciledStore DEF Resumable, SiteType
<1>5. cand[sel].rec # "none" /\ cand[sel].rec \in GStates /\ cand[sel].snap \in Snaps
  BY <1>1, <1>2 DEF CandOf, Receipts, StoreType, Candidate
<1>6. cand'[sel].rec \in {"ready", "published"}
  BY <1>2, <1>4, <1>5 DEF GStates, Gone, Resumable
<1>7. Authentic(sel) /\ Intact(sel)
  BY <1>2 DEF RefOK
<1>8. Authentic(live)'
  BY <1>3, <1>4, <1>7 DEF Authentic, Proven, Retained, Lineage, IsReady
<1>9. Intact(live)' /\ cand'[live'].rec \in {"ready", "published"}
  BY <1>3, <1>4, <1>6, <1>7 DEF Intact
<1>10. PubInv'
  BY <1>1, <1>2, <1>3, <1>4, <1>6 DEF PubInv, Known, Purging
<1>11. SourceInv'
  <2>1. Pointer' = cand[sel].snap
    BY <1>3, <1>4 DEF Pointer
  <2>2. src[cand[sel].snap].plan
    BY <1>1, <1>5, <1>7 DEF Authentic, Retained, Proven, SourceInv
  <2>3. \/ receipt[cand[sel].snap].cand # None
        \/ Proven(cand[sel].snap) /\ sel \in src[cand[sel].snap].fits
    BY <1>2 DEF RefOK, Retained, Proven
  <2>4. QED
    BY <1>1, <1>3, <2>1, <2>2, <2>3 DEF SourceInv, Proven
<1>12. QED
  BY <1>8, <1>9, <1>10, <1>11 DEF LiveInv, LiveAuthenticated, LiveIntact

\* What stays served
LEMMA ServedOn ==
    ASSUME Inv, Next, live' = live, StoreInv'
    PROVE  LiveInv'
<1>1. /\ StoreType /\ SiteType /\ DataType /\ OrderInv /\ ActorInv /\ SourceInv /\ PubInv /\ Known(live) /\ live \in Cands
      /\ Effect /\ \A c \in Cands : CandOf(c)
  BY Effects DEF Inv, StoreInv, LiveInv, PubInv, TypeInv, SiteType
<1>2. Known(live)' /\ Line(live)' = Line(live) /\ Pointer' = Pointer /\ ~Births(live) /\ Pointer \in Snaps
  BY <1>1, KnownStays DEF Known, Line, Pointer, StoreType, Candidate
<1>3. ~PubActivate
  BY DEF PubActivate
<1>4. /\ \A s \in Snaps : src'[s].man => src'[s].plan
      /\ src'[Pointer].plan
      /\ Purges \/ Untouched(Pointer)
  BY SourceMoves
<1>5. receipt'[Pointer].cand = receipt[Pointer].cand \/ receipt'[Pointer].cand = live
  BY <1>1, <1>2, ReceiptMoves DEF DataType
<1>6. Purges => receipt'[Pointer].cand = live
  <2>1. Purges => receipt[Pointer].cand = live
    BY <1>1 DEF Purges, PurgePatrol, PurgeCompaction, PurgeManifest, PubInv, Purging
  <2>2. QED
    BY <2>1, <1>5
<1>7. live # None
  BY <1>1, Constants
<1>8. SourceInv'
  <2>1. \/ receipt'[Pointer].cand # None
        \/ src'[Pointer].man /\ src'[Pointer].comp /\ live \in src'[Pointer].fits
    BY <1>1, <1>4, <1>5, <1>6, <1>7 DEF SourceInv, Untouched
  <2>2. QED
    BY <1>2, <1>4, <2>1 DEF SourceInv, Proven
<1>9. PubInv'
  <2>1. pub'.pc = "commit" => Known(pub.cand)' /\ pub'.cand # live'
    <3>1. SUFFICES ASSUME pub'.pc = "commit" PROVE Known(pub.cand)' /\ pub'.cand # live'
      OBVIOUS
    <3>2. pub' = pub /\ pub.pc = "commit"
      BY <1>3, <3>1, PublisherMoves
    <3>3. Known(pub.cand) /\ pub.cand # live
      BY <1>1, <3>2 DEF PubInv
    <3>4. QED
      BY <1>1, <3>2, <3>3, KnownStays DEF Known
  <2>2. pub'.pc \in Purging => receipt'[Pointer].cand = live
    <3>1. CASE PubAuthorize
      BY <1>1, <1>2, <3>1 DEF PubAuthorize, DataType
    <3>2. CASE ~PubAuthorize
      BY <1>1, <1>5, <3>2, PublisherMoves DEF PubInv
    <3>3. QED
      BY <3>1, <3>2
  <2>3. QED
    BY <1>2, <1>4, <2>1, <2>2 DEF PubInv
<1>10. ASSUME Origins(live) \cap raced' = {}
       PROVE  Authentic(live)' /\ Intact(live)' /\ cand'[live].rec \in {"ready", "published"}
  <2>1. live \in Origins(live) /\ 1 \in DOMAIN Line(live) /\ Line(live)[1] = live
        /\ Line(live) \in Seq(Cands) /\ Len(Line(live)) \in Nat
    <3>1. Len(Line(live)) > 0 /\ Line(live)[1] = live /\ Line(live) \in Seq(Cands) /\ Len(Line(live)) \in Nat
      BY <1>1, OriginsAre DEF CandOf, Known
    <3>2. 1 \in 1..Len(Line(live))
      BY <3>1
    <3>3. QED
      BY <1>1, <3>1, <3>2, OriginsAre
  <2>2. raced \subseteq raced'
    <3>1. CASE Advances \/ Commits
      BY <3>1 DEF Advances, Commits, Past
    <3>2. CASE \E b \in Cands : Births(b) \/ Retires(b) \/ Stamps(b) \/ Drops(b)
      BY <3>2 DEF Births, Retires, Stamps, Drops, Past
    <3>3. QED
      BY <1>1, <3>1, <3>2 DEF Effect
  <2>3. ~Uprooted(live)
    BY <1>10, <2>2 DEF Uprooted, Origins, Line
  <2>4. Authentic(live) /\ Intact(live) /\ cand[live].rec \in {"ready", "published"}
    BY <2>3 DEF Inv, LiveInv, LiveAuthenticated, LiveIntact
  <2>5. IsReady(live)
    BY <2>4 DEF Authentic
  <2>6. ASSUME NEW n \in DOMAIN Line(live), \A k \in 1..n : IsReady(Line(live)[k])
        PROVE  \A k \in 1..n : IsReady(Line(live)[k])'
    BY <1>1, <1>10, <2>4, <2>6, LineageStays
  <2>7. IsReady(live)' /\ \A k \in 1..1 : IsReady(Line(live)[k])'
    <3>1. \A k \in 1..1 : IsReady(Line(live)[k])
      BY <2>1, <2>5
    <3>2. \A k \in 1..1 : IsReady(Line(live)[k])'
      BY <2>1, <2>6, <3>1
    <3>3. IsReady(Line(live)[1])'
      BY <3>2
    <3>4. QED
      BY <1>2, <2>1, <3>2, <3>3 DEF IsReady
  <2>8. Proven(Pointer)' \/ Lineage(live, receipt[Pointer].cand)'
    <3>1. CASE receipt'[Pointer].cand = live
      BY <1>2, <2>1, <2>7, <3>1 DEF Lineage, Line
    <3>2. CASE receipt'[Pointer].cand # live /\ ~Proven(Pointer)'
      <4>1. receipt'[Pointer].cand = receipt[Pointer].cand /\ ~Proven(Pointer)
        BY <1>2, <1>4, <1>5, <1>6, <3>2 DEF Untouched, Proven
      <4>2. Lineage(live, receipt[Pointer].cand)
        BY <2>4, <4>1 DEF Authentic, Retained, Pointer
      <4>3. PICK n \in DOMAIN Line(live) : /\ Line(live)[n] = receipt[Pointer].cand
                                           /\ \A k \in 1..n : IsReady(Line(live)[k])
        BY <4>2 DEF Lineage, Line
      <4>4. \A k \in 1..n : IsReady(Line(live)[k])'
        BY <2>6, <4>3
      <4>5. QED
        BY <1>2, <4>1, <4>3, <4>4 DEF Lineage, Line
    <3>3. QED
      BY <3>1, <3>2
  <2>9. Authentic(live)'
    <3>1. Proven(Pointer)' \/ (receipt'[Pointer].cand # None /\ src'[Pointer].plan)
      BY <1>2, <1>8 DEF SourceInv
    <3>2. cand'[live].snap = Pointer
      BY <1>2 DEF Pointer
    <3>3. QED
      BY <1>2, <2>7, <2>8, <3>1, <3>2, <1>4, <1>5, <1>7 DEF Authentic, Retained
  <2>10. Intact(live)' /\ cand'[live].rec \in {"ready", "published"}
    <3>1. live \notin raced' /\ cand[live].files = "full"
      BY <1>10, <2>1, <2>4 DEF Intact
    <3>2. CASE Advances
      BY <1>1, <2>4, <3>1, <3>2 DEF Advances, Better, Intact, Resumable
    <3>3. CASE \E b \in Cands : Births(b)
      BY <1>1, <1>2, <2>4, <3>1, <3>3 DEF Births, Better, Intact, Resumable
    <3>4. CASE \E b \in Cands : Retires(b)
      BY <1>1, <2>4, <3>1, <3>4 DEF Retires, Intact, Resumable
    <3>5. CASE \E b \in Cands : Stamps(b)
      BY <1>1, <2>4, <3>1, <3>5 DEF Stamps, Same, Intact
    <3>6. CASE \E b \in Cands : Drops(b)
      BY <1>1, <2>4, <3>1, <3>6 DEF Drops, Same, Intact
    <3>7. CASE Commits
      <4>1. live \notin Outside
        <5>1. 1 \in DOMAIN Line(live) /\ \A k \in 1..(1 - 1) : IsReady(Line(live)[k])
          BY <2>1
        <5>2. live \in Walked(live)
          BY <2>1, <5>1 DEF Walked, Line
        <5>3. QED
          BY <5>2 DEF Outside, Kept
      <4>2. QED
        BY <1>1, <2>4, <3>1, <3>7, <4>1 DEF Commits, Intact
    <3>8. QED
      BY <1>1, <3>2, <3>3, <3>4, <3>5, <3>6, <3>7 DEF Effect
  <2>11. QED
    BY <2>9, <2>10
<1>11. LiveAuthenticated' /\ LiveIntact'
  <2>1. Origins(live) \cap raced' # {} => Uprooted(live)'
    BY <1>2 DEF Uprooted, Origins, Line
  <2>2. QED
    BY <1>10, <2>1 DEF LiveAuthenticated, LiveIntact
<1>12. QED
  BY <1>8, <1>9, <1>11 DEF LiveInv

LEMMA Inductive ==
    ASSUME Inv, Next
    PROVE  Inv'
<1>1. StoreInv'
  BY StoreAfter
<1>2. LiveInv'
  BY <1>1, SiteTyped, Activated, ServedOn
<1>3. QED
  BY <1>1, <1>2 DEF Inv

-----------------------------------------------------------------------------
(* The beginning.                                                          *)

\* One candidate published from its inputs
Began ==
    /\ live = 1 /\ ready = [c \in Cands |-> IF c = 1 THEN {1} ELSE {}]
    /\ cand = [c \in Cands |-> IF c = 1 THEN Published(1, 2, <<1>>) ELSE Unused]
    /\ src = [s \in Snaps |-> [NoSource EXCEPT !.data = IF s = 1 THEN "whole" ELSE "none",
                                               !.man = s = 1, !.comp = s = 1, !.plan = s = 1,
                                               !.fits = IF s = 1 THEN {1} ELSE {}]]
    /\ receipt = [s \in Snaps |-> [state |-> "none", cand |-> None]]

\* or migrated from one whose inputs were purged.
Migrated ==
    /\ live = 2 /\ ready = [c \in Cands |-> IF c \in 1..2 THEN 1..c ELSE {}]
    /\ cand = [c \in Cands |->
                  CASE c = 1 -> [Published(1, 1, <<1>>) EXCEPT !.rec = "superseded"]
                    [] c = 2 -> Published(1, 2, <<2, 1>>)
                    [] OTHER -> Unused]
    /\ src = [s \in Snaps |-> [NoSource EXCEPT !.plan = s = 1]]
    /\ receipt = [s \in Snaps |-> IF s = 1 THEN [state |-> "applied", cand |-> 1]
                                  ELSE [state |-> "none", cand |-> None]]

\* What both have in common
Quiet ==
    /\ index = [newest |-> live, active |-> live]
    /\ upstream = [snap |-> 1, alg |-> 2]
    /\ prep = NoPrep /\ lock = FALSE
    /\ pub = Idle /\ mig = NoOp /\ clean = NoClean /\ op = NoOp
    /\ events = 0 /\ raced = {} /\ orphans = {}

LEMMA InitIs == Init => (Began \/ Migrated) /\ Quiet
BY DEF Init, Began, Migrated, Quiet

LEMMA UnusedIs ==
    /\ Unused \in Candidate
    /\ Unused.rec = "none" /\ Unused.files = "none" /\ Unused.line = <<>>
<1>1. <<>> \in Seq(Cands) /\ 1 \in Snaps /\ 0 \in 0..MaxAlg
  BY Constants
<1>2. QED
  BY <1>1 DEF Unused, Candidate, Files, GStates

LEMMA QuietTypes ==
    ASSUME Quiet, live \in Cands
    PROVE  /\ SiteType /\ PrepType /\ PubType /\ MigType /\ CleanType /\ OpType /\ PastType
           /\ ActorInv
<1>1. SiteType
  BY Constants DEF Quiet, SiteType
<1>2. PrepType /\ PubType /\ MigType /\ OpType
  BY Constants DEF Quiet, PrepType, PubType, MigType, OpType, NoPrep, Idle, NoOp
<1>3. CleanType /\ PastType
  BY Constants DEF Quiet, CleanType, PastType, NoClean, GStates
<1>4. prep.pc = "idle" /\ mig.pc = "idle" /\ clean.pc = "idle" /\ op.pc = "idle"
  BY DEF Quiet, NoPrep, NoOp, NoClean
<1>5. ActorInv
  BY <1>4 DEF ActorInv, Writing
<1>6. QED
  BY <1>1, <1>2, <1>3, <1>5

LEMMA BeganStore ==
    ASSUME Began, Quiet
    PROVE  Inv
<1>1. PICK r : r = Published(1, 2, <<1>>)
  OBVIOUS
<1>2. /\ r \in Candidate /\ r.snap = 1 /\ r.rec = "published" /\ r.files = "full" /\ r.line = <<1>>
  <2>1. <<1>> \in Seq(Cands) /\ 1 \in Snaps /\ 2 \in 0..MaxAlg
    BY Constants
  <2>2. QED
    BY <1>1, <2>1 DEF Published, Candidate, Files, GStates
<1>3. /\ 1 \in Cands /\ 1 \in Snaps /\ cand[1] = r /\ \A c \in Cands \ {1} : cand[c] = Unused
      /\ \A c \in Cands : cand[c] \in Candidate
      /\ ready[1] = {1} /\ \A c \in Cands \ {1} : ready[c] = {}
  BY <1>1, <1>2, Constants, UnusedIs DEF Began
<1>4. StoreType
  BY <1>3, Constants DEF StoreType, Began
<1>5. \A s \in Snaps : /\ src[s] \in Input /\ (src[s].man <=> s = 1) /\ (src[s].plan <=> s = 1)
                       /\ (src[s].comp <=> s = 1) /\ (s = 1 => src[s].fits = {1})
  <2>1. ASSUME NEW s \in Snaps
        PROVE  /\ src[s] \in Input /\ (src[s].man <=> s = 1) /\ (src[s].plan <=> s = 1)
               /\ (src[s].comp <=> s = 1) /\ (s = 1 => src[s].fits = {1})
    <3>1. PICK d \in {"none", "whole"}, b \in BOOLEAN, f \in SUBSET Cands :
              /\ d = (IF s = 1 THEN "whole" ELSE "none") /\ b = (s = 1)
              /\ f = (IF s = 1 THEN {1} ELSE {})
      BY Constants
    <3>2. src[s] = [NoSource EXCEPT !.data = d, !.man = b, !.comp = b, !.plan = b, !.fits = f]
      BY <3>1 DEF Began
    <3>3. src[s] = [data |-> d, man |-> b, comp |-> b, plan |-> b, old |-> FALSE, fits |-> f]
      BY <3>2 DEF NoSource
    <3>4. src[s] \in Input
      BY <3>1, <3>3 DEF Input
    <3>5. src[s].man = b /\ src[s].plan = b /\ src[s].comp = b /\ src[s].fits = f
      BY <3>3
    <3>6. QED
      BY <3>1, <3>4, <3>5
  <2>2. QED
    BY <2>1
<1>6. DataType
  <2>1. receipt \in [Snaps -> Receipt]
    BY DEF Began, Receipt
  <2>2. src \in [Snaps -> Input]
    BY <1>5 DEF Began
  <2>3. QED
    BY <2>1, <2>2 DEF DataType
<1>7. TypeInv /\ ActorInv /\ live = 1
  BY <1>3, <1>4, <1>6, QuietTypes DEF TypeInv, Began
<1>8. OrderInv
  BY <1>3 DEF OrderInv, IsReady
<1>9. raced = {} /\ orphans = {} /\ prep.pc = "idle" /\ mig.pc = "idle" /\ pub.pc = "idle"
  BY DEF Quiet, NoPrep, NoOp, Idle
<1>10. ASSUME NEW c \in Cands PROVE CandOf(c) /\ LineOf(c) /\ WholeOf(c)
  <2>1. CASE c # 1
    <3>1. cand[c].rec = "none" /\ cand[c].files = "none" /\ Line(c) = <<>> /\ ready[c] = {}
      BY <1>3, <2>1, UnusedIs DEF Line
    <3>2. QED
      BY <1>9, <3>1 DEF CandOf, LineOf, WholeOf, IsReady
  <2>2. CASE c = 1
    <3>1. cand[1].rec = "published" /\ cand[1].files = "full" /\ Line(1) = <<1>> /\ Known(1)
      BY <1>2, <1>3 DEF Line, Known
    <3>2. CandOf(1)
      BY <1>9, <3>1 DEF CandOf
    <3>3. RestOf(1, 1)
      BY <3>1 DEF RestOf
    <3>4. LineOf(1)
      <4>1. Len(Line(1)) = 1 /\ \A j \in 1..1 : j = 1 /\ ~(j > 1)
        BY <3>1
      <4>2. QED
        BY <3>3, <4>1 DEF LineOf
    <3>5. Origins(1) = {1}
      BY <3>1 DEF Origins, ToSet
    <3>6. QED
      BY <2>2, <3>2, <3>4, <3>5 DEF WholeOf
  <2>3. QED
    BY <2>1, <2>2
<1>11. Pointer = 1 /\ Known(1) /\ cand[1].rec = "published" /\ Intact(1)
  BY <1>2, <1>3, <1>7 DEF Pointer, Known, Intact
<1>12. Proven(1) /\ 1 \in src[1].fits /\ src[1].plan /\ IsReady(1)
  BY <1>3, <1>5 DEF IsReady, Proven
<1>13. PubInv /\ SourceInv
  BY <1>5, <1>7, <1>9, <1>11, <1>12 DEF PubInv, SourceInv, Purging
<1>14. LiveAuthenticated /\ LiveIntact
  BY <1>7, <1>11, <1>12, <1>2, <1>3 DEF LiveAuthenticated, LiveIntact, Authentic
<1>15. QED
  BY <1>7, <1>8, <1>10, <1>13, <1>14 DEF Inv, StoreInv, LiveInv

LEMMA MigratedStore ==
    ASSUME Migrated, Quiet
    PROVE  Inv
<1>1. PICK p, q : p = [Published(1, 1, <<1>>) EXCEPT !.rec = "superseded"] /\ q = Published(1, 2, <<2, 1>>)
  OBVIOUS
<1>2. /\ p \in Candidate /\ p.snap = 1 /\ p.rec = "superseded" /\ p.files = "full" /\ p.line = <<1>>
      /\ q \in Candidate /\ q.snap = 1 /\ q.rec = "published" /\ q.files = "full" /\ q.line = <<2, 1>>
  <2>1. <<1>> \in Seq(Cands) /\ <<2, 1>> \in Seq(Cands) /\ 1 \in Snaps /\ 1 \in 0..MaxAlg /\ 2 \in 0..MaxAlg
    BY Constants
  <2>2. p = [snap |-> 1, alg |-> 1, files |-> "full", rec |-> "superseded", old |-> FALSE, line |-> <<1>>]
    BY <1>1 DEF Published
  <2>3. q = [snap |-> 1, alg |-> 2, files |-> "full", rec |-> "published", old |-> FALSE, line |-> <<2, 1>>]
    BY <1>1 DEF Published
  <2>4. "superseded" \in GStates /\ "published" \in GStates /\ "full" \in Files
    BY DEF GStates, Files
  <2>5. p \in Candidate
    BY <2>1, <2>2, <2>4 DEF Candidate
  <2>6. q \in Candidate
    BY <2>1, <2>3, <2>4 DEF Candidate
  <2>7. QED
    BY <2>2, <2>3, <2>5, <2>6
<1>3. /\ 1 \in Cands /\ 2 \in Cands /\ 1 \in Snaps /\ cand[1] = p /\ cand[2] = q
      /\ \A c \in Cands \ {1, 2} : cand[c] = Unused
      /\ ready[1] = {1} /\ ready[2] = {1, 2} /\ \A c \in Cands \ {1, 2} : ready[c] = {}
  <2>1. \A c \in Cands : cand[c] = CASE c = 1 -> p [] c = 2 -> q [] OTHER -> Unused
    BY <1>1 DEF Migrated
  <2>2. \A c \in Cands : ready[c] = IF c \in 1..2 THEN 1..c ELSE {}
    BY DEF Migrated
  <2>3. 1..1 = {1} /\ 1..2 = {1, 2}
    OBVIOUS
  <2>4. QED
    BY <2>1, <2>2, <2>3, Constants
<1>4. StoreType
  <2>1. \A c \in Cands : cand[c] \in Candidate /\ ready[c] \in SUBSET Cands
    BY <1>2, <1>3, UnusedIs
  <2>2. QED
    BY <2>1 DEF StoreType, Migrated
<1>5. \A s \in Snaps : src[s] \in Input /\ ~src[s].man /\ (src[s].plan <=> s = 1)
  <2>1. ASSUME NEW s \in Snaps
        PROVE  src[s] \in Input /\ ~src[s].man /\ (src[s].plan <=> s = 1)
    <3>1. PICK b \in BOOLEAN : b = (s = 1)
      OBVIOUS
    <3>2. src[s] = [NoSource EXCEPT !.plan = b]
      BY <3>1 DEF Migrated
    <3>3. src[s] = [data |-> "none", man |-> FALSE, comp |-> FALSE, plan |-> b, old |-> FALSE, fits |-> {}]
      BY <3>2 DEF NoSource
    <3>4. src[s] \in Input
      BY <3>1, <3>3 DEF Input
    <3>5. src[s].man = FALSE /\ src[s].plan = b
      BY <3>3
    <3>6. QED
      BY <3>1, <3>4, <3>5
  <2>2. QED
    BY <2>1
<1>6. DataType /\ receipt[1] = [state |-> "applied", cand |-> 1]
  <2>1. \A s \in Snaps : receipt[s] \in Receipt
    BY <1>3 DEF Migrated, Receipt
  <2>2. receipt \in [Snaps -> Receipt] /\ src \in [Snaps -> Input]
    BY <1>5, <2>1 DEF Migrated
  <2>3. QED
    BY <1>3, <2>2 DEF DataType, Migrated
<1>7. TypeInv /\ ActorInv /\ live = 2
  BY <1>3, <1>4, <1>6, QuietTypes DEF TypeInv, Migrated
<1>8. OrderInv
  BY <1>3 DEF OrderInv, IsReady
<1>9. raced = {} /\ orphans = {} /\ prep.pc = "idle" /\ mig.pc = "idle" /\ pub.pc = "idle"
  BY DEF Quiet, NoPrep, NoOp, Idle
<1>10. /\ cand[1].rec = "superseded" /\ cand[1].files = "full" /\ Line(1) = <<1>> /\ Known(1)
       /\ cand[2].rec = "published" /\ cand[2].files = "full" /\ Line(2) = <<2, 1>> /\ Known(2)
       /\ IsReady(1) /\ IsReady(2)
  BY <1>2, <1>3 DEF Line, Known, IsReady
<1>11. ASSUME NEW c \in Cands PROVE CandOf(c) /\ LineOf(c) /\ WholeOf(c)
  <2>1. CASE c # 1 /\ c # 2
    <3>1. cand[c].rec = "none" /\ cand[c].files = "none" /\ Line(c) = <<>> /\ ready[c] = {}
      BY <1>3, <2>1, UnusedIs DEF Line
    <3>2. QED
      BY <1>9, <3>1 DEF CandOf, LineOf, WholeOf, IsReady
  <2>2. CASE c = 1
    <3>1. CandOf(1) /\ RestOf(1, 1)
      BY <1>9, <1>10 DEF CandOf, RestOf
    <3>2. LineOf(1)
      <4>1. Len(Line(1)) = 1 /\ \A j \in 1..1 : j = 1 /\ ~(j > 1)
        BY <1>10
      <4>2. QED
        BY <3>1, <4>1 DEF LineOf
    <3>3. Origins(1) = {1}
      BY <1>10 DEF Origins, ToSet
    <3>4. QED
      BY <2>2, <3>1, <3>2, <3>3 DEF WholeOf
  <2>3. CASE c = 2
    <3>1. CandOf(2)
      BY <1>9, <1>10 DEF CandOf
    <3>2. RestOf(2, 1) /\ RestOf(2, 2)
      <4>1. /\ Len(Line(1)) = 1 /\ Line(1)[1] = 1
            /\ Len(Line(2)) = 2 /\ Line(2)[1] = 2 /\ Line(2)[2] = 1
        BY <1>10
      <4>2. RestOf(2, 1)
        BY <1>10, <4>1 DEF RestOf
      <4>3. RestOf(2, 2)
        <5>1. Known(Line(2)[2]) /\ Len(Line(Line(2)[2])) = 1 /\ Line(Line(2)[2])[1] = Line(2)[2]
          BY <1>10, <4>1
        <5>2. \A i \in 1..1 : i = 1 /\ 2 + i - 1 = 2
          OBVIOUS
        <5>3. \A i \in 1..Len(Line(Line(2)[2])) : Line(Line(2)[2])[i] = Line(2)[2 + i - 1]
          BY <5>1, <5>2
        <5>4. Len(Line(Line(2)[2])) = Len(Line(2)) - 2 + 1
          <6>1. Len(Line(2)) - 2 + 1 = 1
            BY <4>1
          <6>2. QED
            BY <5>1, <6>1
        <5>5. QED
          BY <5>1, <5>3, <5>4 DEF RestOf
      <4>4. QED
        BY <4>2, <4>3
    <3>3. Settled(1)
      BY <1>9, <1>10 DEF Settled, Resumable, Writing
    <3>4. LineOf(2)
      <4>1. Len(Line(2)) = 2 /\ Line(2)[2] = 1 /\ \A j \in 1..2 : (j = 1 /\ ~(j > 1)) \/ j = 2
        BY <1>10
      <4>2. QED
        BY <3>2, <3>3, <4>1 DEF LineOf
    <3>5. Origins(2) = {1, 2}
      BY <1>10 DEF Origins, ToSet
    <3>6. QED
      BY <1>10, <2>3, <3>1, <3>4, <3>5 DEF WholeOf
  <2>4. QED
    BY <2>1, <2>2, <2>3
<1>12. Pointer = 1 /\ src[1].plan
  BY <1>2, <1>3, <1>5, <1>7 DEF Pointer
<1>13. PubInv /\ SourceInv
  <2>1. receipt[1].cand = 1 /\ 1 # None
    BY <1>6 DEF None
  <2>2. QED
    BY <1>5, <1>6, <1>7, <1>9, <1>10, <1>12, <2>1 DEF PubInv, SourceInv, Purging
<1>14. Authentic(2)
  <2>1. Lineage(2, 1)
    <3>1. 2 \in DOMAIN Line(2) /\ Line(2)[2] = 1 /\ \A k \in 1..2 : IsReady(Line(2)[k])
      BY <1>10
    <3>2. QED
      BY <3>1 DEF Lineage, Line
  <2>2. cand[2].snap = 1 /\ receipt[1].cand = 1 /\ 1 # None
    BY <1>2, <1>3, <1>6 DEF None
  <2>3. QED
    BY <1>10, <1>12, <2>1, <2>2 DEF Authentic, Retained
<1>15. LiveAuthenticated /\ LiveIntact
  BY <1>7, <1>10, <1>14 DEF LiveAuthenticated, LiveIntact, Intact
<1>16. QED
  BY <1>7, <1>8, <1>11, <1>13, <1>15 DEF Inv, StoreInv, LiveInv

LEMMA Beginning == Init => Inv
BY InitIs, BeganStore, MigratedStore

-----------------------------------------------------------------------------
(* The theorems.                                                           *)

LEMMA Stuttering ==
    ASSUME Inv, UNCHANGED vars
    PROVE  Inv'
<1>1. UNCHANGED <<cand, ready, src, receipt, live, index, upstream, prep, lock, pub, mig, clean,
                  op, events, raced, orphans>>
  BY DEF vars, storeVars, dataVars, actors, history
<1>2. TypeInv' /\ ActorInv' /\ OrderInv'
  BY <1>1 DEF Inv, StoreInv, TypeInv, StoreType, DataType, SiteType, PrepType, PubType, MigType,
     CleanType, OpType, PastType, ActorInv, OrderInv, Known, Line, IsReady
<1>3. ASSUME NEW c \in Cands PROVE CandOf(c)' /\ LineOf(c)' /\ WholeOf(c)'
  <2>1. CandOf(c) /\ LineOf(c) /\ WholeOf(c)
    BY DEF Inv, StoreInv
  <2>2. CandOf(c)'
    BY <1>1, <2>1 DEF CandOf, Line, IsReady
  <2>3. LineOf(c)'
    BY <1>1, <2>1 DEF LineOf, RestOf, Settled, Known, Line, IsReady
  <2>4. WholeOf(c)'
    BY <1>1, <2>1 DEF WholeOf, Origins, Line, IsReady
  <2>5. QED
    BY <2>2, <2>3, <2>4
<1>4. LiveInv'
  BY <1>1 DEF Inv, LiveInv, PubInv, SourceInv, LiveAuthenticated, LiveIntact, Uprooted, Authentic,
     Proven, Retained, Lineage, Intact, Known, Pointer, IsReady
<1>5. QED
  BY <1>2, <1>3, <1>4 DEF Inv, StoreInv

\* The inductive invariant holds in every state, whatever the interleaving of the
\* preparation, the publisher, the migration, cleanup and the operator.
THEOREM Invariance == Spec => []Inv
<1>1. Init => Inv
  BY Beginning
<1>2. Inv /\ [Next]_vars => Inv'
  BY Inductive, Stuttering
<1>3. QED
  BY <1>1, <1>2, PTL DEF Spec

LEMMA InvTypeOK == Inv => TypeOK
<1>1. SUFFICES ASSUME Inv PROVE TypeOK
  OBVIOUS
<1>2. TypeInv /\ OrderInv /\ \A c \in Cands : CandOf(c)
  BY <1>1 DEF Inv, StoreInv
<1>3. ASSUME NEW c \in Cands
      PROVE  /\ cand[c].snap \in Snaps /\ cand[c].alg \in 0..MaxAlg
             /\ cand[c].files \in {"none", "full", "husk", "retired"} /\ cand[c].rec \in GStates
  BY <1>2 DEF TypeInv, StoreType, Candidate, Files
<1>4. Receipts \subseteq {c \in Cands : cand[c].files # "none"}
  BY <1>2 DEF Receipts, CandOf
<1>5. ASSUME NEW c \in Receipts, NEW d \in Receipts
      PROVE  ready[c] \subseteq ready[d] \/ ready[d] \subseteq ready[c]
  <2>1. c \in Cands /\ d \in Cands /\ IsReady(c) /\ IsReady(d)
    BY DEF Receipts
  <2>2. c = d \/ c \in ready[d] \/ d \in ready[c]
    BY <1>2, <2>1 DEF OrderInv
  <2>3. QED
    BY <1>2, <2>1, <2>2 DEF OrderInv
<1>6. live \in Cands /\ index.newest \in Cands \cup {None}
      /\ events \in 0..MaxEvents /\ raced \subseteq Cands /\ orphans \subseteq Cands
  BY <1>2 DEF TypeInv, SiteType, PastType
<1>7. QED
  BY <1>3, <1>4, <1>5, <1>6 DEF TypeOK

\* Every record has a form that its readers accept, every ready.json a directory,
\* and the receipts are ordered in time.
THEOREM Typed == Spec => []TypeOK
BY Invariance, InvTypeOK, PTL

\* What is served always authenticates: by the manifest of its inputs, or, once
\* they are purged, by the retention receipt and an unbroken lineage; unless an
\* operator or a cleanup that raced has retired it or what it descends from.
THEOREM ServedAuthenticates == Spec => []LiveAuthenticated
<1>1. Inv => LiveAuthenticated
  BY DEF Inv, LiveInv
<1>2. QED
  BY <1>1, Invariance, PTL

\* Nobody deletes or retires what is served: not the cleanup by age, whose look at
\* the published link is old, nor the retention of a commit.
THEOREM ServedIntact == Spec => []LiveIntact
<1>1. Inv => LiveIntact
  BY DEF Inv, LiveInv
<1>2. QED
  BY <1>1, Invariance, PTL

\* All ready origins prove the lineage to any of them.
LEMMA WholeLineage ==
    ASSUME StoreType, NEW c \in Cands, IsReady(c), \A a \in Origins(c) \ {c} : IsReady(a),
           NEW o, o \in Origins(c)
    PROVE  Lineage(c, o)
<1>1. PICK n \in 1..Len(Line(c)) : o = Line(c)[n]
  BY OriginsAre
<1>2. \A k \in 1..n : IsReady(Line(c)[k])
  <2>1. ASSUME NEW k \in 1..n PROVE IsReady(Line(c)[k])
    <3>1. PICK a : a = Line(c)[k]
      OBVIOUS
    <3>2. a \in Origins(c)
      BY <1>1, <3>1, OriginsAre
    <3>3. IsReady(a)
      BY <3>2
    <3>4. QED
      BY <3>1, <3>3
  <2>2. QED
    BY <2>1
<1>3. n \in DOMAIN Line(c)
  BY OriginsAre
<1>4. QED
  BY <1>1, <1>2, <1>3 DEF Lineage, Line

LEMMA InvLineageUnbroken == Inv => LineageUnbroken
<1>1. SUFFICES ASSUME Inv PROVE LineageUnbroken
  OBVIOUS
<1>2. SUFFICES ASSUME NEW c \in ReadyOf(Pointer),
                      receipt[Pointer].cand \in ToSet(cand[c].line) \cup {None},
                      ToSet(cand[c].line) \cap (raced \cup orphans) = {}
               PROVE  Authentic(c)
  BY DEF LineageUnbroken
<1>3. c \in Cands /\ IsReady(c) /\ cand[c].snap = Pointer /\ StoreType /\ WholeOf(c)
  BY <1>1 DEF ReadyOf, Receipts, Inv, StoreInv, TypeInv
<1>4. CASE Proven(Pointer)
  BY <1>3, <1>4 DEF Authentic
<1>5. CASE ~Proven(Pointer)
  <2>1. src[Pointer].plan /\ receipt[Pointer].cand # None
    BY <1>1, <1>5 DEF Inv, LiveInv, SourceInv
  <2>2. receipt[Pointer].cand \in Origins(c)
    BY <1>2, <2>1 DEF Origins, Line
  <2>3. \A a \in Origins(c) \ {c} : IsReady(a)
    BY <1>2, <1>3 DEF WholeOf, Origins, Line
  <2>4. Lineage(c, receipt[Pointer].cand)
    BY <1>3, <2>2, <2>3, WholeLineage
  <2>5. QED
    BY <1>3, <2>1, <2>4 DEF Authentic, Retained
<1>6. QED
  BY <1>4, <1>5

\* A migrated candidate is never cut off from the candidate in whose name its inputs
\* were purged, unless the operator, a race, or a commit that overtook the migration
\* has retired what lies between.
THEOREM LineageHolds == Spec => []LineageUnbroken
BY Invariance, InvLineageUnbroken, PTL

LEMMA InvSelectionPossible == Inv => SelectionPossible
<1>1. SUFFICES ASSUME Inv, ~Uprooted(live), ~(src[Pointer].man /\ cand[live].alg # upstream.alg),
                      ~(/\ src[Pointer].man /\ receipt[Pointer].cand # None
                        /\ ~(src[Pointer].comp /\ live \in src[Pointer].fits)),
                      ~(index.newest # None /\ cand[index.newest].snap < Pointer)
               PROVE  CanSelect(upstream.alg) /\ cand[Selection(upstream.alg)].snap >= Pointer
  BY DEF SelectionPossible
<1>2. /\ StoreType /\ SiteType /\ OrderInv /\ live \in Cands
      /\ Authentic(live) /\ Intact(live) /\ cand[live].rec \in {"ready", "published"}
  BY <1>1 DEF Inv, StoreInv, TypeInv, SiteType, LiveInv, LiveAuthenticated, LiveIntact
<1>3. RefOK(live, upstream.alg)
  <2>1. receipt[Pointer].cand # None \/ (Proven(Pointer) /\ live \in src[Pointer].fits)
    BY <1>1 DEF Inv, LiveInv, SourceInv
  <2>2. src[Pointer].man => src[Pointer].comp /\ live \in src[Pointer].fits /\ cand[live].alg = upstream.alg
    BY <1>1, <2>1 DEF Proven
  <2>3. QED
    BY <1>2, <2>2 DEF RefOK, Authentic, Proven, Pointer
<1>4. live \in Discoverable(upstream.alg) /\ IndexWritable
  BY <1>2, <1>3 DEF Discoverable, Receipts, Authentic, IndexWritable, Gone
<1>5. CanSelect(upstream.alg)
  BY <1>4 DEF CanSelect
<1>6. \A c \in Cands : cand[c].snap \in Nat
  BY <1>2, Constants DEF StoreType, Candidate
<1>7. CASE IndexValid(upstream.alg)
  <2>1. Selection(upstream.alg) = index.newest /\ index.newest # None /\ index.newest \in Cands
    BY <1>2, <1>7 DEF Selection, IndexValid, SiteType
  <2>2. cand[index.newest].snap \in Nat /\ Pointer \in Nat
    BY <1>2, <1>6, <2>1 DEF Pointer
  <2>3. QED
    BY <1>1, <1>5, <2>1, <2>2
<1>8. CASE ~IndexValid(upstream.alg)
  <2> DEFINE D == Discoverable(upstream.alg)
  <2>1. Selection(upstream.alg) = NewestOf(D)
    BY <1>8 DEF Selection
  <2>2. D \in SUBSET Receipts /\ D # {}
    BY <1>4 DEF Discoverable
  <2>3. NewestOf(D) \in D /\ \A d \in D \ {NewestOf(D)} : Newer(NewestOf(D), d)
    BY <1>2, <2>2, NewestIn
  <2>4. NewestOf(D) \in Cands
    BY <2>2, <2>3 DEF Receipts
  <2>5. CASE NewestOf(D) = live
    BY <1>2, <1>5, <1>6, <2>1, <2>5 DEF Pointer
  <2>6. CASE NewestOf(D) # live
    <3>1. Newer(NewestOf(D), live)
      BY <1>4, <2>3, <2>6
    <3>2. cand[NewestOf(D)].snap \in Nat /\ Pointer \in Nat
      BY <1>2, <1>6, <2>4 DEF Pointer
    <3>3. cand[NewestOf(D)].snap >= Pointer
      BY <3>1, <3>2 DEF Newer, Pointer
    <3>4. QED
      BY <1>5, <2>1, <3>3
  <2>7. QED
    BY <2>5, <2>6
<1>9. QED
  BY <1>7, <1>8

\* The publisher always finds a candidate of the wiki that is no downgrade, but for
\* the three situations that the property names.
THEOREM PublisherSelects == Spec => []SelectionPossible
BY Invariance, InvSelectionPossible, PTL
===============================================================================
