-------------------------- MODULE SourceWindowProofs --------------------------
(***************************************************************************)
(* Proofs about SourceWindow, for any number of sources, versions, workers *)
(* and processes.                                                          *)
(***************************************************************************)
EXTENDS SourceWindow, NaturalSets, SequenceTheorems

-----------------------------------------------------------------------------
(* The inductive invariant.                                                *)

Fetching == {"probe", "get", "body", "landed"}
Building == Fetching \cup {"gate", "ingest", "convert"}

Fetchers == {s \in Sources : wk[s] \in Fetching}
Unmarked == {s \in Sources : marker[s] = NoMarker}

\* Threads exist only in a process and work only while it dispatches; the gate
\* and the ledger count those that hold them.
ThreadInv ==
    /\ pc # "off" => run \in Runs
    /\ \A s \in Sources : wk[s] # "idle" => pc \notin {"off", "sweep"}
    /\ \A s \in Sources : wk[s] \notin {"idle", "received"} => pc \in {"dispatch", "join"}
    /\ gate = Cardinality(Fetchers)
    /\ ledger.workers = Cardinality(Holders)

\* The recoverable inputs of a source: one file at most, and while it is being
\* fetched the download of this run.
FilesOf(s) ==
    /\ wk[s] \in Fetching => /\ final[s] = NoFile
                             /\ \A r \in Runs : r # run => temp[s][r] = NoFile
    /\ \A r, q \in Runs : temp[s][r] # NoFile /\ temp[s][q] # NoFile => r = q
    /\ final[s] # NoFile => \A r \in Runs : temp[s][r] = NoFile
    /\ wk[s] = "body" => temp[s][run] # NoFile /\ plan[s].version \in Versions
    /\ wk[s] = "landed" => temp[s][run] # NoFile
    /\ wk[s] \in {"ingest", "convert"} => final[s] # NoFile

\* The rows a marker stands for.
Rows(s) == {<<i, marker[s].src[1]>> : i \in 1..SizeOf[marker[s].src[1]]}
Contents == [s \in Sources |-> Rows(s)]

\* A marker records a whole download of one version and all of its chunks, and
\* the fragments beside it are these until the receipt stands for them.
MarkerOf(s) ==
    marker[s] # NoMarker =>
        /\ marker[s].src \in Seq(Versions) \ {<<>>} /\ Whole(marker[s].src)
        /\ marker[s].chunks = 1..SizeOf[marker[s].src[1]]
        /\ final[s] \in {NoFile, marker[s].src}
        /\ ~Receipted => outputs[s] = Rows(s)

\* Where a worker is, and what is committed of its source.
WorkOf(s) ==
    /\ wk[s] \in Building => marker[s] = NoMarker
    /\ wk[s] \in {"release", "ok"} => marker[s] # NoMarker
    /\ wk[s] = "received" /\ pc # "join" => marker[s] # NoMarker
    /\ wk[s] \notin {"convert", "release"} => written[s] = {}
    /\ wk[s] = "convert" =>
           /\ written[s] \subseteq DOMAIN final[s]
           /\ outputs[s] = {<<i, final[s][1]>> : i \in written[s]}

\* The manifests and the compacted files, from the first manifest on: all are
\* made of the rows of the markers, and none is ahead of what it is made from.
PackInv ==
    /\ gen.schema # 0 => Unmarked = {} /\ gen.pack = Contents
    /\ tx.open => gen.schema # 0 /\ tx.pack = Contents
    /\ tx.open /\ staging.open => staging.pack = Contents
    /\ compacted.open => gen.schema # 0 /\ compacted.pack = Contents
    /\ cmanifest.open => compacted.open /\ cmanifest.pack = Contents
    /\ gen.schema = 3 => cmanifest.open
    /\ receipt.schema # 0 => Receipted
    /\ pointer => Receipted

MainInv ==
    /\ pc \in {"compact", "build", "rename", "commit", "settle"} => gen.schema # 0
    /\ pc = "build" => ~tx.open
    /\ pc = "rename" => tx.open /\ staging.open
    /\ pc = "commit" => tx.open /\ compacted.open
    /\ pc \in {"settle", "publish"} => cmanifest.open
    /\ pc = "receipt" => gen.schema = 3
    /\ pc \in {"retire", "select", "tidy", "done"} => Receipted

SourceInv(s) == FilesOf(s) /\ MarkerOf(s) /\ WorkOf(s)

\* What the dispatcher has not handed out is not committed and has no thread.
PendingInv ==
    pc \in {"dispatch", "join"} => \A p \in pending : marker[p] = NoMarker /\ wk[p] = "idle"

SafeInv ==
    /\ TypeOK /\ ThreadInv /\ PendingInv /\ PackInv /\ MainInv
    /\ \A s \in Sources : SourceInv(s)

\* The dispatcher goes through the uncommitted sources in plan order: those it
\* has handed out and that are not committed fit in the window and come before
\* those it has not, and an input is only ever one of the first of a window.
Busy == {s \in Unmarked : wk[s] # "idle"}
Before(s) == {n \in Unmarked : n <= s}
WindowInv ==
    /\ pc \in {"dispatch", "join"} =>
           /\ \A s \in Unmarked : s \in pending \/ wk[s] # "idle"
           /\ \A p \in pending, s \in Sources : wk[s] # "idle" => s < p
           /\ Cardinality(Busy) <= WorkerLimit
    /\ pc = "dispatch" => Cardinality(Active) <= WorkerLimit
    /\ \A s \in Unmarked : HasInput(s) => Cardinality(Before(s)) <= WorkerLimit

-----------------------------------------------------------------------------
(* Lemmas about the operators of the model.                                *)

DiskType ==
    /\ upstream \in [Sources -> Versions]
    /\ temp \in [Sources -> [Runs -> File]]
    /\ final \in [Sources -> File]
    /\ outputs \in Pack
    /\ marker \in [Sources -> Marker]
    /\ gen \in Manifest
    /\ staging \in Artifact /\ compacted \in Artifact
    /\ tx \in Artifact /\ cmanifest \in Artifact
    /\ fetched \in BOOLEAN /\ pointer \in BOOLEAN
    /\ receipt \in Manifest

ThreadType ==
    /\ run \in 0..MaxRuns
    /\ pc \in MainPC
    /\ pending \in SUBSET Sources
    /\ denied \in BOOLEAN
    /\ wk \in [Sources -> WorkerPC]
    /\ plan \in [Sources -> [attempt : 0..MaxAttempts, ranges : BOOLEAN,
                             version : 0..NumVersions]]
    /\ written \in [Sources -> SUBSET Nat]
    /\ gate \in 0..FetchLimit
    /\ ledger \in [workers : 0..WorkerLimit, bytes : Int]

LEMMA TypeParts == TypeOK <=> DiskType /\ ThreadType
  BY DEF TypeOK, DiskType, ThreadType

LEMMA Values ==
    /\ Sources \subseteq Nat /\ Versions \subseteq Nat \ {0} /\ Runs \subseteq Nat \ {0}
    /\ IsFiniteSet(Sources) /\ 0 \notin Runs
    /\ <<>> \in Seq(Versions) /\ NoFile # <<>> /\ NoFile \in File /\ NoFile \notin Seq(Versions)
    /\ NoMarker \in Marker /\ NoPlan \in [attempt : 0..MaxAttempts, ranges : BOOLEAN,
                                          version : 0..NumVersions]
<1>1. IsFiniteSet(Sources)
  BY FS_Interval, ConstantsAssumption DEF Sources
<1>2. <<>> \in Seq(Versions) /\ NoFile \notin Seq(Versions)
  BY ConstantsAssumption
<1>3. NoFile # <<>> /\ NoFile \in File
  BY <1>2 DEF File
<1>4. NoMarker \in Marker
  BY <1>3 DEF NoMarker, Marker
<1>5. NoPlan \in [attempt : 0..MaxAttempts, ranges : BOOLEAN, version : 0..NumVersions]
  BY ConstantsAssumption DEF NoPlan
<1>6. QED
  BY <1>1, <1>2, <1>3, <1>4, <1>5, ConstantsAssumption DEF Sources, Versions, Runs

\* What is no artifact, no pack and no manifest.
LEMMA Absences ==
    /\ NoPack \in Pack /\ Absent \in Artifact /\ ~Absent.open
    /\ [Absent EXCEPT !.open = TRUE] \in Artifact
    /\ NoManifest \in Manifest /\ NoManifest.schema = 0
<1>1. NoPack \in Pack
  BY DEF NoPack, Pack
<1>2. [s \in Sources |-> NoMarker] \in [Sources -> Marker]
  BY Values
<1>3. Absent \in Artifact /\ ~Absent.open
  BY <1>1, <1>2 DEF Absent, Artifact
<1>4. [Absent EXCEPT !.open = TRUE] \in Artifact
  BY <1>3 DEF Artifact
<1>5. QED
  BY <1>1, <1>3, <1>4 DEF NoManifest, Manifest

\* How many threads are at some of their places, when one of them moves.
Among(f, A) == {t \in Sources : f[t] \in A}

LEMMA Moved ==
    ASSUME NEW f \in [Sources -> WorkerPC], NEW s \in Sources, NEW x \in WorkerPC, NEW A
    PROVE  LET g == [f EXCEPT ![s] = x]
               n == Cardinality(Among(f, A))
           IN  /\ n \in Nat
               /\ f[s] \in A => n >= 1
               /\ f[s] \notin A /\ x \in A => Cardinality(Among(g, A)) = n + 1
               /\ f[s] \in A /\ x \notin A => Cardinality(Among(g, A)) = n - 1
               /\ (f[s] \in A <=> x \in A) => Among(g, A) = Among(f, A)
<1> DEFINE g == [f EXCEPT ![s] = x]
           F == Among(f, A)
           G == Among(g, A)
<1>1. IsFiniteSet(F)
  BY FS_Subset, Values DEF Among
<1>2. Cardinality(F) \in Nat
  BY <1>1, FS_CardinalityType
<1>3. \A t \in Sources : t \in F <=> f[t] \in A
  BY DEF Among
<1>4. \A t \in Sources : t \in G <=> (IF t = s THEN x \in A ELSE f[t] \in A)
  BY DEF Among
<1>5. F \subseteq Sources /\ G \subseteq Sources
  BY DEF Among
<1> HIDE DEF F, G, g
<1>6. f[s] \notin A /\ x \in A => s \notin F /\ G = F \cup {s}
  BY <1>3, <1>4, <1>5
<1>7. f[s] \in A /\ x \notin A => s \in F /\ G = F \ {s}
  BY <1>3, <1>4, <1>5
<1>8. (f[s] \in A <=> x \in A) => G = F
  BY <1>3, <1>4, <1>5
<1>9. f[s] \in A => Cardinality(F) >= 1
  <2>1. ASSUME f[s] \in A PROVE F # {}
    BY <1>3, <2>1
  <2>2. QED
    BY <1>1, <1>2, <2>1, FS_EmptySet
<1>10. s \notin F => Cardinality(F \cup {s}) = Cardinality(F) + 1
  BY <1>1, FS_AddElement
<1>11. s \in F => Cardinality(F \ {s}) = Cardinality(F) - 1
  BY <1>1, FS_RemoveElement
<1>12. QED
  BY <1>2, <1>6, <1>7, <1>8, <1>9, <1>10, <1>11 DEF F, G, g

\* The same as an equation: 1 for a thread that is at such a place.
Slot(x, A) == IF x \in A THEN 1 ELSE 0

Moves(f, g, s, x) ==
    /\ f \in [Sources -> WorkerPC] /\ s \in Sources /\ x \in WorkerPC
    /\ g = [f EXCEPT ![s] = x]

LEMMA Counted ==
    ASSUME NEW f, NEW g, NEW s, NEW x, Moves(f, g, s, x), NEW A
    PROVE  /\ Cardinality(Among(f, A)) \in Nat /\ Cardinality(Among(g, A)) \in Nat
           /\ Cardinality(Among(g, A)) = Cardinality(Among(f, A)) + Slot(x, A) - Slot(f[s], A)
<1> DEFINE n == Cardinality(Among(f, A))
           m == Cardinality(Among(g, A))
<1>1. /\ n \in Nat
      /\ f[s] \in A => n >= 1
      /\ f[s] \notin A /\ x \in A => m = n + 1
      /\ f[s] \in A /\ x \notin A => m = n - 1
  BY Moved DEF Moves
<1>2. (f[s] \in A <=> x \in A) => Among(g, A) = Among(f, A)
  BY Moved DEF Moves
<1>3. (f[s] \in A <=> x \in A) => m = n
  BY <1>2
<1> HIDE DEF n, m
<1>4. m \in Nat /\ m = n + Slot(x, A) - Slot(f[s], A)
  BY <1>1, <1>3 DEF Slot
<1>5. QED
  BY <1>1, <1>4 DEF n, m

\* No thread is anywhere in a process that has just started or ended.
LEMMA NoneMoving ==
    ASSUME NEW A, "idle" \notin A
    PROVE  Cardinality(Among(Idle, A)) = 0
<1>1. Among(Idle, A) = {}
  BY DEF Among, Idle
<1>2. QED
  BY <1>1, FS_EmptySet

Holding == WorkerPC \ {"idle", "ok", "err", "received"}

LEMMA Threads ==
    ASSUME ThreadType
    PROVE  Fetchers = Among(wk, Fetching) /\ Holders = Among(wk, Holding)
  BY DEF ThreadType, Fetchers, Holders, Among, Holding

LEMMA ThreadsNext ==
    ASSUME wk' \in [Sources -> WorkerPC]
    PROVE  Fetchers' = Among(wk', Fetching) /\ Holders' = Among(wk', Holding)
  BY DEF Fetchers, Holders, Among, Holding

-----------------------------------------------------------------------------
(* A step of one worker.                                                   *)

\* It leaves the files, the marker and the fragments of the other sources alone.
Same(t) ==
    /\ wk'[t] = wk[t] /\ temp'[t] = temp[t] /\ final'[t] = final[t] /\ plan'[t] = plan[t]
    /\ marker'[t] = marker[t] /\ outputs'[t] = outputs[t] /\ written'[t] = written[t]

LEMMA SourceFrame ==
    ASSUME NEW t \in Sources, SourceInv(t), Same(t), UNCHANGED <<run, gen, receipt>>,
           pc' = pc \/ pc' = "join" \/ pc # "join"
    PROVE  SourceInv(t)'
<1>1. FilesOf(t)'
  BY DEF SourceInv, FilesOf, Same
<1>2. MarkerOf(t)'
  BY DEF SourceInv, MarkerOf, Same, Rows, Receipted, Whole
<1>3. WorkOf(t)'
  BY DEF SourceInv, WorkOf, Same
<1>4. QED
  BY <1>1, <1>2, <1>3 DEF SourceInv

\* While some source has no marker there is no manifest, and nothing after it.
LEMMA NothingPacked ==
    ASSUME TypeOK, PackInv, NEW s \in Sources, marker[s] = NoMarker
    PROVE  /\ gen.schema = 0 /\ ~tx.open /\ ~compacted.open /\ ~cmanifest.open
           /\ receipt.schema = 0 /\ ~pointer /\ ~Receipted
<1>1. gen.schema = 0
  BY DEF PackInv, Unmarked
<1>2. QED
  BY <1>1 DEF PackInv, Receipted

\* The gate and the ledger follow the threads.
LEMMA CountStep ==
    ASSUME ThreadType, ThreadInv, NEW s \in Sources, NEW x \in WorkerPC,
           wk' = [wk EXCEPT ![s] = x],
           gate' = gate + Slot(x, Fetching) - Slot(wk[s], Fetching),
           ledger'.workers = ledger.workers + Slot(x, Holding) - Slot(wk[s], Holding)
    PROVE  /\ wk' \in [Sources -> WorkerPC] /\ gate' \in Nat /\ ledger'.workers \in Nat
           /\ gate' = Cardinality(Fetchers') /\ ledger'.workers = Cardinality(Holders')
<1>1. wk' \in [Sources -> WorkerPC]
  BY DEF ThreadType
<1>2. Moves(wk, wk', s, x)
  BY DEF Moves, ThreadType
<1>3. /\ gate = Cardinality(Among(wk, Fetching))
      /\ ledger.workers = Cardinality(Among(wk, Holding))
  BY Threads DEF ThreadInv
<1>4. gate' = Cardinality(Among(wk', Fetching)) /\ gate' \in Nat
  <2>1. /\ Cardinality(Among(wk', Fetching)) \in Nat
        /\ Cardinality(Among(wk', Fetching)) =
             Cardinality(Among(wk, Fetching)) + Slot(x, Fetching) - Slot(wk[s], Fetching)
    BY <1>2, Counted
  <2>2. QED
    BY <1>3, <2>1
<1>5. ledger'.workers = Cardinality(Among(wk', Holding)) /\ ledger'.workers \in Nat
  <2>1. /\ Cardinality(Among(wk', Holding)) \in Nat
        /\ Cardinality(Among(wk', Holding)) =
             Cardinality(Among(wk, Holding)) + Slot(x, Holding) - Slot(wk[s], Holding)
    BY <1>2, Counted
  <2>2. QED
    BY <1>3, <2>1
<1>6. QED
  BY <1>1, <1>4, <1>5, ThreadsNext

LEMMA ThreadStep ==
    ASSUME TypeOK, ThreadInv, NEW s \in Sources, wk[s] \notin {"idle", "received"},
           NEW x \in WorkerPC \ {"idle", "received"}, wk' = [wk EXCEPT ![s] = x],
           UNCHANGED <<run, pc>>,
           gate' = gate + Slot(x, Fetching) - Slot(wk[s], Fetching),
           ledger'.workers = ledger.workers + Slot(x, Holding) - Slot(wk[s], Holding)
    PROVE  /\ ThreadInv' /\ wk' \in [Sources -> WorkerPC]
           /\ gate' \in Nat /\ ledger'.workers \in Nat
           /\ run \in Runs /\ pc \in {"dispatch", "join"}
<1>1. ThreadType /\ x \in WorkerPC
  BY TypeParts
<1>2. run \in Runs /\ pc \in {"dispatch", "join"}
  BY DEF ThreadInv
<1>3. /\ wk' \in [Sources -> WorkerPC] /\ gate' \in Nat /\ ledger'.workers \in Nat
      /\ gate' = Cardinality(Fetchers') /\ ledger'.workers = Cardinality(Holders')
  BY <1>1, CountStep
<1>4. QED
  BY <1>1, <1>2, <1>3 DEF ThreadInv

LEMMA WorkerStep ==
    ASSUME SafeInv, NEW s \in Sources, wk[s] \notin {"idle", "received"},
           NEW x \in WorkerPC \ {"idle", "received"}, wk' = [wk EXCEPT ![s] = x],
           UNCHANGED <<run, pc, pending, packs, receipt, pointer>>,
           gate' = gate + Slot(x, Fetching) - Slot(wk[s], Fetching),
           ledger'.workers = ledger.workers + Slot(x, Holding) - Slot(wk[s], Holding),
           DiskType', ThreadType', \A t \in Sources : t # s => Same(t),
           marker' = marker \/ marker[s] = NoMarker,
           SourceInv(s)'
    PROVE  SafeInv'
<1> USE DEF SafeInv, packs
<1>1. ThreadInv'
  BY ThreadStep
<1>2. \A t \in Sources : SourceInv(t)'
  BY SourceFrame
<1>3. TypeOK'
  BY DEF TypeOK, DiskType, ThreadType
<1>4. MainInv'
  BY DEF MainInv, Receipted
<1>5. PackInv'
  <2>1. CASE marker' = marker
    BY <2>1 DEF PackInv, Receipted, Unmarked, Contents, Rows
  <2>2. CASE marker[s] = NoMarker
    BY <2>2, NothingPacked DEF PackInv, Receipted
  <2>3. QED
    BY <2>1, <2>2
<1>6. PendingInv'
  <2>1. ThreadType
    BY TypeParts
  <2>2. \A p \in pending : p # s => marker'[p] = marker[p] /\ wk'[p] = wk[p]
    BY <2>1 DEF Same, ThreadType
  <2>3. pc \in {"dispatch", "join"} => s \notin pending
    BY DEF PendingInv
  <2>4. QED
    BY <2>2, <2>3 DEF PendingInv
<1>7. QED
  BY <1>1, <1>2, <1>3, <1>4, <1>5, <1>6

\* Where a worker may be, and the run it works for.
LEMMA WorkerRuns ==
    ASSUME SafeInv, NEW s \in Sources, wk[s] \notin {"idle", "received"}
    PROVE  run \in Runs /\ pc \in {"dispatch", "join"} /\ SourceInv(s) /\ DiskType /\ ThreadType
  BY TypeParts DEF SafeInv, ThreadInv

\* The write of a download's temporary file.
LEMMA TempSet ==
    ASSUME DiskType, NEW s \in Sources, run \in Runs, NEW f \in File,
           temp' = [temp EXCEPT ![s][run] = f]
    PROVE  /\ temp' \in [Sources -> [Runs -> File]] /\ temp'[s][run] = f
           /\ \A r \in Runs : r # run => temp'[s][r] = temp[s][r]
           /\ \A t \in Sources : t # s => temp'[t] = temp[t]
  BY DEF DiskType

\* process_source returns.
LEMMA ReturnStep ==
    ASSUME SafeInv, NEW s \in Sources, wk[s] \in Holding, NEW x \in {"ok", "err"}, Return(s, x),
           DiskType', UNCHANGED <<packs, receipt, pointer>>, gate' = gate - Slot(wk[s], Fetching),
           \A t \in Sources : t # s =>
               /\ temp'[t] = temp[t] /\ final'[t] = final[t]
               /\ marker'[t] = marker[t] /\ outputs'[t] = outputs[t],
           marker' = marker \/ marker[s] = NoMarker,
           FilesOf(s)', MarkerOf(s)', x = "ok" => marker'[s] # NoMarker
    PROVE  SafeInv'
<1>1. /\ wk[s] \notin {"idle", "received", "ok", "err"} /\ x \in WorkerPC \ {"idle", "received"}
      /\ x \notin Holding /\ x \notin Fetching
  BY DEF Holding, WorkerPC, Fetching
<1>2. run \in Runs /\ pc \in {"dispatch", "join"} /\ DiskType /\ ThreadType
  BY <1>1, WorkerRuns
<1>3. /\ wk' = [wk EXCEPT ![s] = x] /\ plan' = [plan EXCEPT ![s] = NoPlan]
      /\ written' = [written EXCEPT ![s] = {}] /\ ledger' = Dropped(s)
      /\ UNCHANGED <<run, pc, pending, denied>>
  BY DEF Return
<1>4. ledger'.workers = ledger.workers + Slot(x, Holding) - Slot(wk[s], Holding)
  <2>1. Slot(x, Holding) = 0 /\ Slot(wk[s], Holding) = 1 /\ ledger.workers \in Int
    BY <1>1, <1>2 DEF Slot, ThreadType
  <2>2. QED
    BY <1>3, <2>1 DEF Dropped
<1>5. gate' = gate + Slot(x, Fetching) - Slot(wk[s], Fetching)
  <2>1. Slot(x, Fetching) = 0 /\ Slot(wk[s], Fetching) \in Int /\ gate \in Int
    BY <1>1, <1>2 DEF Slot, ThreadType
  <2>2. QED
    BY <2>1
<1>6. wk' \in [Sources -> WorkerPC] /\ gate' \in Nat /\ ledger'.workers \in Nat
  BY <1>1, <1>3, <1>4, <1>5, ThreadStep DEF SafeInv
<1>7. ThreadType'
  <2>1. gate' \in 0..FetchLimit
    <3>1. gate \in 0..FetchLimit /\ Slot(wk[s], Fetching) \in {0, 1}
      BY <1>2 DEF ThreadType, Slot
    <3>2. QED
      BY <1>6, <3>1, ConstantsAssumption
  <2>2. ledger' \in [workers : 0..WorkerLimit, bytes : Int]
    BY <1>2, <1>3, <1>6, ConstantsAssumption DEF ThreadType, Dropped
  <2>3. QED
    BY <1>2, <1>3, <1>6, <2>1, <2>2, Values DEF ThreadType
<1>8. \A t \in Sources : t # s => Same(t)
  BY <1>2, <1>3 DEF Same, ThreadType
<1>9. WorkOf(s)'
  BY <1>1, <1>2, <1>3 DEF WorkOf, Building, Fetching, ThreadType
<1>10. QED
  BY <1>1, <1>3, <1>4, <1>5, <1>7, <1>8, <1>9, WorkerStep DEF SourceInv

\* A worker that downloads: nothing is committed of its source, and it goes on
\* to another place of the download.
LEMMA FetchStep ==
    ASSUME SafeInv, NEW s \in Sources, wk[s] \in Fetching \cup {"gate"},
           NEW x \in Fetching \cup {"ingest"}, wk' = [wk EXCEPT ![s] = x],
           gate' = gate + Slot(x, Fetching) - Slot(wk[s], Fetching), gate' <= FetchLimit,
           UNCHANGED <<upstream, layers, packs, proofs, run, pc, pending, denied, written, ledger>>,
           temp' \in [Sources -> [Runs -> File]], final' \in [Sources -> File],
           plan' \in [Sources -> [attempt : 0..MaxAttempts, ranges : BOOLEAN,
                                  version : 0..NumVersions]],
           \A t \in Sources : t # s => /\ temp'[t] = temp[t] /\ final'[t] = final[t]
                                       /\ plan'[t] = plan[t],
           FilesOf(s)'
    PROVE  SafeInv'
<1>1. /\ wk[s] \notin {"idle", "received"} /\ x \in WorkerPC \ {"idle", "received"}
      /\ x \in Holding /\ wk[s] \in Holding /\ x # "convert" /\ wk[s] \in Building
      /\ x \notin {"idle", "received", "ok", "err", "release", "convert"}
  BY DEF Holding, WorkerPC, Fetching, Building
<1>2. run \in Runs /\ pc \in {"dispatch", "join"} /\ SourceInv(s) /\ DiskType /\ ThreadType
  BY <1>1, WorkerRuns
<1>3. UNCHANGED <<run, pc, pending, packs, receipt, pointer>> /\ UNCHANGED <<marker, outputs>>
  BY DEF proofs, layers
<1>4. ledger'.workers = ledger.workers + Slot(x, Holding) - Slot(wk[s], Holding)
  <2>1. Slot(x, Holding) = 1 /\ Slot(wk[s], Holding) = 1 /\ ledger.workers \in Int
    BY <1>1, <1>2 DEF Slot, ThreadType
  <2>2. QED
    BY <2>1
<1>5. wk' \in [Sources -> WorkerPC] /\ gate' \in Nat
  BY <1>1, <1>3, <1>4, ThreadStep DEF SafeInv
<1>6. ThreadType'
  <2>1. gate' \in 0..FetchLimit
    BY <1>5, ConstantsAssumption
  <2>2. QED
    BY <1>2, <1>5, <2>1 DEF ThreadType
<1>7. DiskType'
  BY <1>2 DEF DiskType, layers, packs, proofs
<1>8. \A t \in Sources : t # s => Same(t)
  BY <1>2, <1>3 DEF Same, ThreadType
<1>9. marker[s] = NoMarker
  BY <1>1, <1>2 DEF SourceInv, WorkOf
<1>10. MarkerOf(s)'
  BY <1>3, <1>9 DEF MarkerOf
<1>11. wk'[s] = x
  BY <1>2 DEF ThreadType
<1>12. WorkOf(s)'
  <2>1. wk[s] \notin {"convert", "release"}
    BY DEF Fetching
  <2>2. written'[s] = {}
    BY <1>2, <2>1 DEF SourceInv, WorkOf
  <2>3. QED
    BY <1>1, <1>3, <1>9, <1>11, <2>2 DEF WorkOf
<1>13. QED
  BY <1>1, <1>3, <1>4, <1>6, <1>7, <1>8, <1>10, <1>12, WorkerStep DEF SourceInv

\* A worker that fails and leaves its download, or removes it.
LEMMA FailStep ==
    ASSUME SafeInv, NEW s \in Sources, wk[s] \in Holding, Return(s, "err"),
           UNCHANGED <<upstream, final, layers, packs, proofs>>,
           temp' = temp \/ temp' = [temp EXCEPT ![s][run] = NoFile],
           gate' = gate - Slot(wk[s], Fetching)
    PROVE  SafeInv'
<1>1. wk[s] \notin {"idle", "received"}
  BY DEF Holding
<1>2. run \in Runs /\ pc \in {"dispatch", "join"} /\ SourceInv(s) /\ DiskType /\ ThreadType
  BY <1>1, WorkerRuns
<1>3. UNCHANGED <<final, marker, outputs, gen, receipt, packs, pointer>>
  BY DEF layers, packs, proofs
<1>4. /\ temp' \in [Sources -> [Runs -> File]]
      /\ \A r \in Runs : temp'[s][r] \in {temp[s][r], NoFile}
      /\ \A t \in Sources : t # s => temp'[t] = temp[t]
  <2>1. CASE temp' = temp
    BY <1>2, <2>1 DEF DiskType
  <2>2. CASE temp' = [temp EXCEPT ![s][run] = NoFile]
    BY <1>2, <2>2, TempSet, Values
  <2>3. QED
    BY <2>1, <2>2
<1>5. DiskType'
  BY <1>2, <1>3, <1>4 DEF DiskType, packs, proofs
<1>6. wk'[s] = "err" /\ run' = run
  BY <1>2 DEF Return, ThreadType
<1>7. FilesOf(s)'
  BY <1>2, <1>3, <1>4, <1>6 DEF SourceInv, FilesOf, Fetching
<1>8. MarkerOf(s)'
  BY <1>2, <1>3 DEF SourceInv, MarkerOf, Rows, Receipted, Whole
<1>9. QED
  BY <1>3, <1>4, <1>5, <1>7, <1>8, ReturnStep

LEMMA AcquireSafe ==
    ASSUME SafeInv, NEW s \in Sources, Acquire(s)
    PROVE  SafeInv'
<1>1. wk[s] = "gate" /\ gate < FetchLimit /\ UNCHANGED <<upstream, layers, packs, proofs>>
  BY DEF Acquire
<1>2. run \in Runs /\ pc \in {"dispatch", "join"} /\ SourceInv(s) /\ DiskType /\ ThreadType
  BY <1>1, WorkerRuns
<1>3. CASE Return(s, "err") /\ UNCHANGED <<inputs, gate>>
  <2>1. wk[s] \in Holding /\ gate' = gate - Slot(wk[s], Fetching)
    BY <1>1, <1>2, <1>3 DEF Holding, WorkerPC, Slot, Fetching, ThreadType
  <2>2. UNCHANGED <<temp, final>>
    BY <1>3 DEF inputs
  <2>3. QED
    BY <1>1, <1>3, <2>1, <2>2, FailStep
<1>4. CASE ~(Return(s, "err") /\ UNCHANGED <<inputs, gate>>)
  <2> DEFINE kept == IF Temps(s) = {} THEN final[s] ELSE temp[s][CHOOSE r \in Temps(s) : TRUE]
             here == [r \in Runs |-> IF r = run THEN kept ELSE NoFile]
  <2>1. /\ temp' = [temp EXCEPT ![s] = here]
        /\ final' = [final EXCEPT ![s] = NoFile]
        /\ wk' = [wk EXCEPT ![s] = "probe"]
        /\ gate' = gate + 1
        /\ UNCHANGED <<run, pc, pending, denied, plan, written, ledger>>
    BY <1>4 DEF Acquire
  <2>2. kept \in File
    BY <1>2 DEF Temps, DiskType
  <2>3. here \in [Runs -> File] /\ \A r \in Runs : r # run => here[r] = NoFile
    BY <2>2, Values
  <2> HIDE DEF here
  <2>4. temp' \in [Sources -> [Runs -> File]] /\ final' \in [Sources -> File]
    BY <1>2, <2>1, <2>3, Values DEF DiskType
  <2>5. temp'[s] = here /\ final'[s] = NoFile /\ wk'[s] = "probe"
    BY <1>2, <2>1 DEF DiskType, ThreadType
  <2>6. FilesOf(s)'
    BY <2>1, <2>3, <2>5 DEF FilesOf
  <2>7. \A t \in Sources : t # s => temp'[t] = temp[t] /\ final'[t] = final[t] /\ plan'[t] = plan[t]
    BY <1>2, <2>1 DEF DiskType
  <2>8. gate' = gate + Slot("probe", Fetching) - Slot(wk[s], Fetching)
    BY <1>1, <1>2, <2>1 DEF Slot, Fetching, ThreadType
  <2>9. gate' <= FetchLimit
    BY <1>1, <1>2, <2>1, ConstantsAssumption DEF ThreadType
  <2>10. "probe" \in Fetching \cup {"ingest"} /\ wk[s] \in Fetching \cup {"gate"}
    BY <1>1 DEF Fetching
  <2>11. plan' \in [Sources -> [attempt : 0..MaxAttempts, ranges : BOOLEAN, version : 0..NumVersions]]
    BY <1>2, <2>1 DEF ThreadType
  <2>12. QED
    BY <1>1, <2>1, <2>4, <2>6, <2>7, <2>8, <2>9, <2>10, <2>11, FetchStep
<1>5. QED
  BY <1>3, <1>4

LEMMA NoHeadroomSafe ==
    ASSUME SafeInv, NEW s \in Sources, NoHeadroom(s)
    PROVE  SafeInv'
<1>1. /\ wk[s] = "gate" /\ Return(s, "err") /\ UNCHANGED <<temp, gate>>
      /\ UNCHANGED <<upstream, final, layers, packs, proofs>>
  BY DEF NoHeadroom, disk, inputs
<1>2. ThreadType
  BY TypeParts DEF SafeInv
<1>3. wk[s] \in Holding /\ gate' = gate - Slot(wk[s], Fetching)
  BY <1>1, <1>2 DEF Holding, WorkerPC, Slot, Fetching, ThreadType
<1>4. QED
  BY <1>1, <1>3, FailStep

\* A step within the download of one attempt: this run's file becomes f.
LEMMA DownloadStep ==
    ASSUME SafeInv, NEW s \in Sources, wk[s] \in Fetching, NEW x \in Fetching,
           wk' = [wk EXCEPT ![s] = x], NEW f \in File,
           \/ temp' = temp /\ temp[s][run] = f
           \/ temp' = [temp EXCEPT ![s][run] = f],
           UNCHANGED <<upstream, final, layers, packs, proofs, run, pc, pending, denied,
                       written, gate, ledger>>,
           plan' \in [Sources -> [attempt : 0..MaxAttempts, ranges : BOOLEAN,
                                  version : 0..NumVersions]],
           \A t \in Sources : t # s => plan'[t] = plan[t],
           x \in {"body", "landed"} => f # NoFile,
           x = "body" => plan'[s].version \in Versions
    PROVE  SafeInv'
<1>1. wk[s] \notin {"idle", "received"}
  BY DEF Fetching
<1>2. run \in Runs /\ pc \in {"dispatch", "join"} /\ SourceInv(s) /\ DiskType /\ ThreadType
  BY <1>1, WorkerRuns
<1>3. /\ temp' \in [Sources -> [Runs -> File]] /\ temp'[s][run] = f
      /\ \A r \in Runs : r # run => temp'[s][r] = temp[s][r]
      /\ \A t \in Sources : t # s => temp'[t] = temp[t]
  <2>1. CASE temp' = temp /\ temp[s][run] = f
    BY <1>2, <2>1 DEF DiskType
  <2>2. CASE temp' = [temp EXCEPT ![s][run] = f]
    BY <1>2, <2>2, TempSet
  <2>3. QED
    BY <2>1, <2>2
<1>4. wk'[s] = x /\ run' = run /\ final' = final
  BY <1>2 DEF ThreadType
<1>5. x \notin {"ingest", "convert"}
  BY DEF Fetching
<1>6. FilesOf(s)'
  BY <1>2, <1>3, <1>4, <1>5 DEF SourceInv, FilesOf
<1>7. gate' = gate + Slot(x, Fetching) - Slot(wk[s], Fetching) /\ gate' <= FetchLimit
  <2>1. Slot(x, Fetching) = 1 /\ Slot(wk[s], Fetching) = 1 /\ gate \in 0..FetchLimit
    BY <1>2 DEF Slot, ThreadType
  <2>2. QED
    BY <2>1, ConstantsAssumption
<1>8. final' \in [Sources -> File]
  BY <1>2, <1>4 DEF DiskType
<1>9. QED
  BY <1>3, <1>4, <1>6, <1>7, <1>8, FetchStep

LEMMA ProbeSafe ==
    ASSUME SafeInv, NEW s \in Sources, Probe(s)
    PROVE  SafeInv'
<1>1. wk[s] = "probe"
  BY DEF Probe
<1>2. run \in Runs /\ DiskType /\ ThreadType
  BY <1>1, WorkerRuns
<1> DEFINE f == temp[s][run]
           size == SizeOf[upstream[s]]
<1>3. PICK remote \in Remotes :
         LET sized == remote \in {"sized", "ranged"}
             empty == f \in {NoFile, <<>>}
             skip == ~empty /\ sized /\ Len(f) = size
             keep == empty \/ skip \/ (remote = "ranged" /\ Len(f) < size)
         IN  /\ temp' = IF keep THEN temp ELSE [temp EXCEPT ![s][run] = NoFile]
             /\ wk' = [wk EXCEPT ![s] = IF skip THEN "landed" ELSE "get"]
             /\ plan' = [plan EXCEPT ![s] = [attempt |-> 1, version |-> 0,
                                             ranges |-> remote \in {"unsized", "ranged"}]]
  BY DEF Probe
<1> DEFINE empty == f \in {NoFile, <<>>}
           skip == ~empty /\ remote \in {"sized", "ranged"} /\ Len(f) = size
           keep == empty \/ skip \/ (remote = "ranged" /\ Len(f) < size)
           x == IF skip THEN "landed" ELSE "get"
           g == IF keep THEN f ELSE NoFile
           p == [attempt |-> 1, version |-> 0, ranges |-> remote \in {"unsized", "ranged"}]
<1>4. f \in File
  BY <1>2 DEF DiskType
<1>5. p \in [attempt : 0..MaxAttempts, ranges : BOOLEAN, version : 0..NumVersions]
  BY ConstantsAssumption
<1>6. plan' = [plan EXCEPT ![s] = p]
  BY <1>3
<1> HIDE DEF p
<1>7. /\ plan' \in [Sources -> [attempt : 0..MaxAttempts, ranges : BOOLEAN, version : 0..NumVersions]]
      /\ \A t \in Sources : t # s => plan'[t] = plan[t]
  BY <1>2, <1>5, <1>6 DEF ThreadType
<1>8. wk' = [wk EXCEPT ![s] = x]
  BY <1>3
<1>9. \/ temp' = temp /\ temp[s][run] = g
      \/ temp' = [temp EXCEPT ![s][run] = g]
  <2>1. CASE keep
    BY <1>3, <2>1
  <2>2. CASE ~keep
    BY <1>3, <2>2
  <2>3. QED
    BY <2>1, <2>2
<1>10. x = "landed" => g # NoFile
  OBVIOUS
<1>11. x \in {"landed", "get"} /\ g \in File
  BY <1>4, Values
<1>12. UNCHANGED <<upstream, final, layers, packs, proofs, run, pc, pending, denied,
                   written, gate, ledger>>
  BY DEF Probe
<1> HIDE DEF x, g
<1>13. x \in Fetching /\ wk[s] \in Fetching /\ x # "body"
  BY <1>1, <1>11 DEF Fetching
<1>14. x \in {"body", "landed"} => g # NoFile
  BY <1>10, <1>13
<1>15. QED
  BY <1>7, <1>8, <1>9, <1>11, <1>12, <1>13, <1>14, DownloadStep

LEMMA GetSafe ==
    ASSUME SafeInv, NEW s \in Sources, Get(s)
    PROVE  SafeInv'
<1>1. /\ wk[s] = "get" /\ wk' = [wk EXCEPT ![s] = "body"]
      /\ plan' = [plan EXCEPT ![s].version = upstream[s]]
      /\ UNCHANGED <<upstream, final, layers, packs, proofs, run, pc, pending, denied,
                     written, gate, ledger>>
  BY DEF Get
<1>2. run \in Runs /\ DiskType /\ ThreadType
  BY <1>1, WorkerRuns
<1>3. upstream[s] \in Versions /\ upstream[s] \in 0..NumVersions
  BY <1>2, ConstantsAssumption DEF DiskType, Versions
<1>4. /\ plan' \in [Sources -> [attempt : 0..MaxAttempts, ranges : BOOLEAN, version : 0..NumVersions]]
      /\ plan'[s].version = upstream[s]
      /\ \A t \in Sources : t # s => plan'[t] = plan[t]
  BY <1>1, <1>2, <1>3 DEF ThreadType
<1>5. wk[s] \in Fetching /\ "body" \in Fetching
  BY <1>1 DEF Fetching
<1>6. CASE temp' = temp /\ temp[s][run] # NoFile
  <2>1. temp[s][run] \in File
    BY <1>2 DEF DiskType
  <2>2. QED
    BY <1>1, <1>3, <1>4, <1>5, <1>6, <2>1, DownloadStep
<1>7. CASE temp' = [temp EXCEPT ![s][run] = <<>>]
  <2>1. <<>> \in File /\ <<>> # NoFile
    BY Values DEF File
  <2>2. QED
    BY <1>1, <1>3, <1>4, <1>5, <1>7, <2>1, DownloadStep
<1>8. QED
  BY <1>6, <1>7 DEF Get

LEMMA BodySafe ==
    ASSUME SafeInv, NEW s \in Sources, Body(s)
    PROVE  SafeInv'
<1> DEFINE f == Append(temp[s][run], plan[s].version)
           x == IF Len(f) = SizeOf[plan[s].version] THEN "landed" ELSE "body"
<1>1. /\ wk[s] = "body" /\ wk' = [wk EXCEPT ![s] = x] /\ temp' = [temp EXCEPT ![s][run] = f]
      /\ plan' = plan
      /\ UNCHANGED <<upstream, final, layers, packs, proofs, run, pc, pending, denied,
                     written, gate, ledger>>
  BY DEF Body
<1>2. run \in Runs /\ SourceInv(s) /\ DiskType /\ ThreadType
  BY <1>1, WorkerRuns
<1>3. plan[s].version \in Versions /\ temp[s][run] \in Seq(Versions)
  BY <1>1, <1>2 DEF SourceInv, FilesOf, DiskType, File
<1>4. f \in Seq(Versions)
  BY <1>3
<1>5. x \in {"body", "landed"}
  OBVIOUS
<1> HIDE DEF f, x
<1>6. f \in File /\ f # NoFile
  BY <1>4, Values DEF File
<1>7. x \in Fetching /\ wk[s] \in Fetching
  BY <1>1, <1>5 DEF Fetching
<1>8. /\ plan' \in [Sources -> [attempt : 0..MaxAttempts, ranges : BOOLEAN, version : 0..NumVersions]]
      /\ plan'[s].version \in Versions /\ \A t \in Sources : t # s => plan'[t] = plan[t]
  BY <1>1, <1>2, <1>3 DEF ThreadType
<1>9. QED
  BY <1>1, <1>6, <1>7, <1>8, DownloadStep

LEMMA AttemptFailsSafe ==
    ASSUME SafeInv, NEW s \in Sources, AttemptFails(s)
    PROVE  SafeInv'
<1>1. /\ wk[s] \in {"get", "body"}
      /\ temp' = temp \/ temp' = [temp EXCEPT ![s][run] = NoFile]
      /\ UNCHANGED <<upstream, final, layers, packs, proofs>>
  BY DEF AttemptFails
<1>2. run \in Runs /\ DiskType /\ ThreadType
  BY <1>1, WorkerRuns
<1>3. wk[s] \in Fetching /\ wk[s] \in Holding
  BY <1>1 DEF Fetching, Holding, WorkerPC
<1>4. CASE /\ plan[s].attempt < MaxAttempts
           /\ plan' = [plan EXCEPT ![s].attempt = @ + 1]
           /\ wk' = [wk EXCEPT ![s] = "get"]
           /\ UNCHANGED <<run, pc, pending, denied, written, gate, ledger>>
  <2> DEFINE f == IF temp' = temp THEN temp[s][run] ELSE NoFile
  <2>1. f \in File
    BY <1>2, Values DEF DiskType
  <2>2. (temp' = temp /\ temp[s][run] = f) \/ temp' = [temp EXCEPT ![s][run] = f]
    BY <1>1
  <2> HIDE DEF f
  <2>3. plan[s].attempt \in 0..MaxAttempts /\ plan[s].attempt + 1 \in 0..MaxAttempts
    BY <1>2, <1>4, ConstantsAssumption DEF ThreadType
  <2>4. /\ plan' \in [Sources -> [attempt : 0..MaxAttempts, ranges : BOOLEAN, version : 0..NumVersions]]
        /\ \A t \in Sources : t # s => plan'[t] = plan[t]
    BY <1>2, <1>4, <2>3 DEF ThreadType
  <2>5. "get" \in Fetching /\ "get" \notin {"body", "landed"} /\ "get" # "body"
    BY DEF Fetching
  <2>6. /\ wk' = [wk EXCEPT ![s] = "get"]
        /\ UNCHANGED <<upstream, final, layers, packs, proofs, run, pc, pending, denied,
                       written, gate, ledger>>
    BY <1>1, <1>4
  <2>7. QED
    BY <1>3, <2>1, <2>2, <2>4, <2>5, <2>6, DownloadStep
<1>5. CASE FetchError(s)
  <2>1. Return(s, "err") /\ gate' = gate - Slot(wk[s], Fetching)
    BY <1>3, <1>5 DEF FetchError, Slot
  <2>2. QED
    BY <1>1, <1>3, <2>1, FailStep
<1>6. QED
  BY <1>4, <1>5 DEF AttemptFails

LEMMA RefusedSafe ==
    ASSUME SafeInv, NEW s \in Sources, Refused(s)
    PROVE  SafeInv'
<1>1. /\ wk[s] = "get" /\ FetchError(s)
      /\ temp' = temp \/ temp' = [temp EXCEPT ![s][run] = NoFile]
      /\ UNCHANGED <<upstream, final, layers, packs, proofs>>
  BY DEF Refused
<1>2. wk[s] \in Fetching /\ wk[s] \in Holding
  BY <1>1 DEF Fetching, Holding, WorkerPC
<1>3. Return(s, "err") /\ gate' = gate - Slot(wk[s], Fetching)
  BY <1>1, <1>2 DEF FetchError, Slot
<1>4. QED
  BY <1>1, <1>2, <1>3, FailStep

LEMMA LandSafe ==
    ASSUME SafeInv, NEW s \in Sources, Land(s)
    PROVE  SafeInv'
<1>1. /\ wk[s] = "landed" /\ final' = [final EXCEPT ![s] = temp[s][run]]
      /\ temp' = [temp EXCEPT ![s][run] = NoFile] /\ wk' = [wk EXCEPT ![s] = "ingest"]
      /\ gate' = gate - 1 /\ plan' = plan
      /\ UNCHANGED <<upstream, layers, packs, proofs, run, pc, pending, denied, written, ledger>>
  BY DEF Land
<1>2. run \in Runs /\ SourceInv(s) /\ DiskType /\ ThreadType
  BY <1>1, WorkerRuns
<1>3. wk[s] \in Fetching /\ "ingest" \notin Fetching
  BY <1>1 DEF Fetching
<1>4. temp[s][run] \in File /\ temp[s][run] # NoFile
  BY <1>1, <1>2 DEF DiskType, SourceInv, FilesOf
<1>5. /\ temp' \in [Sources -> [Runs -> File]] /\ temp'[s][run] = NoFile
      /\ \A r \in Runs : r # run => temp'[s][r] = temp[s][r]
      /\ \A t \in Sources : t # s => temp'[t] = temp[t]
  BY <1>1, <1>2, TempSet, Values
<1>6. /\ final' \in [Sources -> File] /\ final'[s] = temp[s][run] /\ wk'[s] = "ingest"
      /\ \A t \in Sources : t # s => final'[t] = final[t]
  BY <1>1, <1>2, <1>4 DEF DiskType, ThreadType
<1>7. FilesOf(s)'
  BY <1>1, <1>2, <1>3, <1>4, <1>5, <1>6 DEF SourceInv, FilesOf
<1>8. gate' = gate + Slot("ingest", Fetching) - Slot(wk[s], Fetching) /\ gate' <= FetchLimit
  BY <1>1, <1>2, <1>3, ConstantsAssumption DEF Slot, ThreadType
<1>9. plan' \in [Sources -> [attempt : 0..MaxAttempts, ranges : BOOLEAN, version : 0..NumVersions]]
  BY <1>1, <1>2 DEF ThreadType
<1>10. "ingest" \in Fetching \cup {"ingest"} /\ wk[s] \in Fetching \cup {"gate"}
  BY <1>3
<1>11. QED
  BY <1>1, <1>5, <1>6, <1>7, <1>8, <1>9, <1>10, FetchStep

\* A worker that converts its input, or hands over to the release.
LEMMA ConvertStep ==
    ASSUME SafeInv, NEW s \in Sources, wk[s] \in {"ingest", "convert"},
           NEW x \in {"convert", "release"}, wk' = [wk EXCEPT ![s] = x],
           UNCHANGED <<upstream, inputs, packs, proofs, run, pc, pending, denied,
                       plan, gate, ledger>>,
           outputs' \in Pack, marker' \in [Sources -> Marker], written' \in [Sources -> SUBSET Nat],
           \A t \in Sources : t # s => /\ outputs'[t] = outputs[t] /\ marker'[t] = marker[t]
                                       /\ written'[t] = written[t],
           MarkerOf(s)', WorkOf(s)'
    PROVE  SafeInv'
<1>1. /\ wk[s] \notin {"idle", "received"} /\ x \in WorkerPC \ {"idle", "received"}
      /\ x \in Holding /\ wk[s] \in Holding /\ x \notin Fetching /\ wk[s] \notin Fetching
      /\ wk[s] \in Building
  BY DEF Holding, WorkerPC, Fetching, Building
<1>2. run \in Runs /\ pc \in {"dispatch", "join"} /\ SourceInv(s) /\ DiskType /\ ThreadType
  BY <1>1, WorkerRuns
<1>3. marker[s] = NoMarker
  BY <1>1, <1>2 DEF SourceInv, WorkOf
<1>4. UNCHANGED <<run, pc, pending, packs, receipt, pointer>> /\ UNCHANGED <<temp, final, plan>>
  BY DEF proofs, inputs
<1>5. /\ gate' = gate + Slot(x, Fetching) - Slot(wk[s], Fetching)
      /\ ledger'.workers = ledger.workers + Slot(x, Holding) - Slot(wk[s], Holding)
  <2>1. /\ Slot(x, Holding) = 1 /\ Slot(wk[s], Holding) = 1 /\ ledger.workers \in Int
        /\ Slot(x, Fetching) = 0 /\ Slot(wk[s], Fetching) = 0 /\ gate \in Int
    BY <1>1, <1>2 DEF Slot, ThreadType
  <2>2. QED
    BY <2>1
<1>6. wk' \in [Sources -> WorkerPC] /\ wk'[s] = x
  BY <1>1, <1>2 DEF ThreadType
<1>7. ThreadType'
  BY <1>2, <1>6 DEF ThreadType
<1>8. DiskType'
  BY <1>2, <1>4 DEF DiskType, packs, proofs
<1>9. \A t \in Sources : t # s => Same(t)
  BY <1>2, <1>4 DEF Same, ThreadType
<1>10. FilesOf(s)'
  BY <1>1, <1>2, <1>4, <1>6 DEF SourceInv, FilesOf
<1>11. QED
  BY <1>1, <1>3, <1>4, <1>5, <1>7, <1>8, <1>9, <1>10, WorkerStep DEF SourceInv

\* The staged input of a worker that converts it.
LEMMA Converting ==
    ASSUME SafeInv, NEW s \in Sources, wk[s] \in {"ingest", "convert"}
    PROVE  /\ marker[s] = NoMarker /\ ~MarkerValid(s) /\ ~pointer
           /\ final[s] \in Seq(Versions)
           /\ \A i : Readable(final[s], i) => i \in Nat /\ final[s][1] \in Versions
<1>1. wk[s] \notin {"idle", "received"} /\ wk[s] \in Building
  BY DEF Building
<1>2. SourceInv(s) /\ DiskType
  BY <1>1, WorkerRuns
<1>3. marker[s] = NoMarker
  BY <1>1, <1>2 DEF SourceInv, WorkOf
<1>4. final[s] \in Seq(Versions)
  BY <1>2 DEF SourceInv, FilesOf, DiskType, File
<1>5. ~pointer
  BY <1>3, NothingPacked DEF SafeInv
<1>6. ASSUME NEW i, Readable(final[s], i)
      PROVE  i \in Nat /\ final[s][1] \in Versions
  <2>1. i \in 1..Len(final[s]) /\ Len(final[s]) \in Nat
    BY <1>4, <1>6 DEF Readable
  <2>2. 1 \in 1..Len(final[s])
    BY <2>1
  <2>3. QED
    BY <1>4, <2>1, <2>2
<1>7. QED
  BY <1>3, <1>4, <1>5, <1>6 DEF MarkerValid

LEMMA IngestSafe ==
    ASSUME SafeInv, NEW s \in Sources, Ingest(s)
    PROVE  SafeInv'
<1>1. wk[s] = "ingest" /\ UNCHANGED <<upstream, inputs, marker, packs, proofs, gate>>
  BY DEF Ingest
<1>2. marker[s] = NoMarker /\ ~MarkerValid(s) /\ ~pointer
  BY <1>1, Converting
<1>3. /\ outputs' = [outputs EXCEPT ![s] = {}] /\ wk' = [wk EXCEPT ![s] = "convert"]
      /\ UNCHANGED <<run, pc, pending, denied, plan, written, ledger>>
  BY <1>2 DEF Ingest
<1>4. SourceInv(s) /\ DiskType /\ ThreadType
  BY <1>1, WorkerRuns
<1>5. /\ outputs' \in Pack /\ outputs'[s] = {} /\ wk'[s] = "convert"
      /\ \A t \in Sources : t # s => outputs'[t] = outputs[t]
  BY <1>3, <1>4 DEF DiskType, ThreadType, Pack
<1>6. written'[s] = {}
  BY <1>1, <1>3, <1>4 DEF SourceInv, WorkOf
<1>7. MarkerOf(s)'
  BY <1>1, <1>2 DEF MarkerOf
<1>8. WorkOf(s)'
  BY <1>1, <1>2, <1>5, <1>6 DEF WorkOf
<1>9. marker' \in [Sources -> Marker] /\ written' \in [Sources -> SUBSET Nat]
  BY <1>1, <1>3, <1>4 DEF DiskType, ThreadType
<1>10. QED
  BY <1>1, <1>3, <1>5, <1>7, <1>8, <1>9, ConvertStep

LEMMA WriteChunkSafe ==
    ASSUME SafeInv, NEW s \in Sources, WriteChunk(s)
    PROVE  SafeInv'
<1> DEFINE i == NextChunk(s)
           rows == Fragment(s, i)
<1>1. /\ wk[s] = "convert" /\ Readable(final[s], i)
      /\ outputs' = [outputs EXCEPT ![s] = rows] /\ written' = [written EXCEPT ![s] = @ \cup {i}]
      /\ UNCHANGED <<upstream, inputs, marker, packs, proofs, run, pc, pending, denied,
                     wk, plan, gate, ledger>>
  BY DEF WriteChunk
<1> HIDE DEF i
<1>2. /\ marker[s] = NoMarker /\ final[s] \in Seq(Versions) /\ i \in Nat
      /\ final[s][1] \in Versions
  BY <1>1, Converting
<1>3. SourceInv(s) /\ DiskType /\ ThreadType
  BY <1>1, WorkerRuns
<1>4. rows \subseteq Chunk
  BY <1>2, <1>3 DEF Fragment, Chunk, DiskType, Pack
<1>5. /\ written[s] \subseteq DOMAIN final[s] /\ i \in DOMAIN final[s]
      /\ outputs[s] = {<<j, final[s][1]>> : j \in written[s]}
  BY <1>1, <1>3 DEF SourceInv, WorkOf, Readable
<1>6. rows = {<<j, final[s][1]>> : j \in written[s] \cup {i}}
  BY <1>5 DEF Fragment
<1> HIDE DEF rows
<1>7. /\ outputs' \in Pack /\ outputs'[s] = rows
      /\ \A t \in Sources : t # s => outputs'[t] = outputs[t]
  BY <1>1, <1>3, <1>4 DEF DiskType, Pack
<1>8. /\ written' \in [Sources -> SUBSET Nat] /\ written'[s] = written[s] \cup {i}
      /\ \A t \in Sources : t # s => written'[t] = written[t]
  BY <1>1, <1>2, <1>3 DEF ThreadType
<1>9. wk' = [wk EXCEPT ![s] = "convert"]
  BY <1>1, <1>3 DEF ThreadType
<1>10. MarkerOf(s)'
  BY <1>1, <1>2 DEF MarkerOf
<1>11. final' = final /\ wk'[s] = "convert" /\ marker'[s] = NoMarker
  BY <1>1, <1>2 DEF inputs
<1>12. WorkOf(s)'
  BY <1>5, <1>6, <1>7, <1>8, <1>11 DEF WorkOf
<1>13. marker' \in [Sources -> Marker] /\ marker' = marker
  BY <1>1, <1>3 DEF DiskType
<1>14. UNCHANGED <<upstream, inputs, packs, proofs, run, pc, pending, denied, plan, gate, ledger>>
  BY <1>1
<1>15. wk[s] \in {"ingest", "convert"} /\ "convert" \in {"convert", "release"}
  BY <1>1
<1>16. QED
  BY <1>7, <1>8, <1>9, <1>10, <1>12, <1>13, <1>14, <1>15, ConvertStep

LEMMA CommitMarkerSafe ==
    ASSUME SafeInv, NEW s \in Sources, CommitMarker(s)
    PROVE  SafeInv'
<1> DEFINE m == [src |-> final[s], chunks |-> written[s]]
<1>1. /\ wk[s] = "convert" /\ Whole(final[s]) /\ written[s] = DOMAIN final[s]
      /\ marker' = [marker EXCEPT ![s] = m] /\ wk' = [wk EXCEPT ![s] = "release"]
      /\ outputs' = outputs /\ written' = written
      /\ UNCHANGED <<upstream, inputs, packs, proofs, run, pc, pending, denied,
                     plan, gate, ledger>>
  BY DEF CommitMarker
<1>2. marker[s] = NoMarker /\ final[s] \in Seq(Versions)
  BY <1>1, Converting
<1>3. SourceInv(s) /\ DiskType /\ ThreadType
  BY <1>1, WorkerRuns
<1>4. m \in Marker /\ m.src = final[s] /\ m.chunks = written[s] /\ m # NoMarker
  BY <1>2, <1>3, Values DEF Marker, File, ThreadType, NoMarker
<1> HIDE DEF m
<1>5. /\ marker' \in [Sources -> Marker] /\ marker'[s] = m
      /\ \A t \in Sources : t # s => marker'[t] = marker[t]
  BY <1>1, <1>3, <1>4 DEF DiskType
<1>6. DOMAIN final[s] = 1..SizeOf[final[s][1]] /\ final[s] # <<>>
  BY <1>1 DEF Whole
<1>7. outputs[s] = {<<j, final[s][1]>> : j \in written[s]}
  BY <1>1, <1>3 DEF SourceInv, WorkOf
<1>8. outputs' = outputs /\ final' = final /\ wk'[s] = "release"
  BY <1>1, <1>3 DEF inputs, ThreadType
<1>9. outputs'[s] = Rows(s)'
  <2>1. marker'[s].src = final[s]
    BY <1>4, <1>5
  <2>2. Rows(s)' = {<<j, final[s][1]>> : j \in 1..SizeOf[final[s][1]]}
    BY <2>1 DEF Rows
  <2>3. written[s] = 1..SizeOf[final[s][1]]
    BY <1>1, <1>6
  <2>4. QED
    BY <1>7, <1>8, <2>2, <2>3
<1>10. MarkerOf(s)'
  BY <1>1, <1>2, <1>4, <1>5, <1>6, <1>8, <1>9 DEF MarkerOf
<1>11. WorkOf(s)'
  BY <1>4, <1>5, <1>8 DEF WorkOf, Building, Fetching
<1>12. outputs' \in Pack /\ written' \in [Sources -> SUBSET Nat]
  BY <1>1, <1>3 DEF DiskType, ThreadType
<1>13. QED
  BY <1>1, <1>5, <1>10, <1>11, <1>12, ConvertStep

LEMMA ConvertFailsSafe ==
    ASSUME SafeInv, NEW s \in Sources, ConvertFails(s)
    PROVE  SafeInv'
<1> DEFINE left == {c \in outputs[s] : c[1] \notin written[s]}
           i == NextChunk(s)
           rest == left \cup {<<i, final[s][1]>>}
<1>1. /\ wk[s] = "convert" /\ marker' = [marker EXCEPT ![s] = NoMarker] /\ Return(s, "err")
      /\ UNCHANGED <<upstream, inputs, packs, proofs, gate>>
      /\ \/ outputs' = [outputs EXCEPT ![s] = left]
         \/ Readable(final[s], i) /\ outputs' = [outputs EXCEPT ![s] = rest]
  BY DEF ConvertFails
<1> HIDE DEF i
<1>2. /\ marker[s] = NoMarker
      /\ Readable(final[s], i) => i \in Nat /\ final[s][1] \in Versions
  BY <1>1, Converting
<1>3. run \in Runs /\ SourceInv(s) /\ DiskType /\ ThreadType
  BY <1>1, WorkerRuns
<1>4. marker' = marker
  BY <1>1, <1>2, <1>3 DEF DiskType
<1>5. left \in SUBSET Chunk
  BY <1>3 DEF DiskType, Pack
<1>6. Readable(final[s], i) => rest \in SUBSET Chunk
  BY <1>2, <1>5 DEF Chunk
<1> HIDE DEF left, rest
<1>7. outputs' \in Pack /\ \A t \in Sources : t # s => outputs'[t] = outputs[t]
  BY <1>1, <1>3, <1>5, <1>6 DEF DiskType, Pack
<1>8. UNCHANGED <<temp, final, packs, receipt, pointer>>
  BY <1>1 DEF inputs, proofs
<1>9. DiskType'
  BY <1>1, <1>3, <1>4, <1>7, <1>8 DEF DiskType, packs, proofs
<1>10. wk'[s] = "err" /\ run' = run
  BY <1>1, <1>3 DEF Return, ThreadType
<1>11. FilesOf(s)'
  BY <1>3, <1>8, <1>10 DEF SourceInv, FilesOf, Fetching
<1>12. MarkerOf(s)'
  BY <1>2, <1>4 DEF MarkerOf
<1>13. wk[s] \in Holding /\ gate' = gate - Slot(wk[s], Fetching)
  BY <1>1, <1>3 DEF Holding, WorkerPC, Slot, Fetching, ThreadType
<1>14. QED
  BY <1>1, <1>4, <1>7, <1>8, <1>9, <1>11, <1>12, <1>13, ReturnStep

LEMMA ReleaseSafe ==
    ASSUME SafeInv, NEW s \in Sources, Release(s)
    PROVE  SafeInv'
<1>1. /\ wk[s] = "release"
      /\ UNCHANGED <<upstream, temp, layers, packs, proofs, gate>>
      /\ \/ final' = [final EXCEPT ![s] = NoFile] /\ Return(s, "ok")
         \/ final' = final /\ Return(s, "err")
  BY DEF Release
<1>2. run \in Runs /\ SourceInv(s) /\ DiskType /\ ThreadType
  BY <1>1, WorkerRuns
<1>3. PICK x \in {"ok", "err"} : Return(s, x)
  BY <1>1
<1>4. /\ final' \in [Sources -> File] /\ final'[s] \in {final[s], NoFile}
      /\ \A t \in Sources : t # s => final'[t] = final[t]
  <2>1. CASE final' = final
    BY <1>2, <2>1 DEF DiskType
  <2>2. CASE final' = [final EXCEPT ![s] = NoFile]
    BY <1>2, <2>2, Values DEF DiskType
  <2>3. QED
    BY <1>1, <2>1, <2>2
<1>5. UNCHANGED <<temp, marker, outputs, packs, receipt, pointer>>
  BY <1>1 DEF layers, proofs
<1>6. DiskType'
  BY <1>1, <1>2, <1>4, <1>5 DEF DiskType, packs, proofs
<1>7. wk'[s] = x /\ run' = run
  BY <1>2, <1>3 DEF Return, ThreadType
<1>8. FilesOf(s)'
  BY <1>2, <1>4, <1>5, <1>7 DEF SourceInv, FilesOf, Fetching
<1>9. MarkerOf(s)'
  BY <1>2, <1>4, <1>5 DEF SourceInv, MarkerOf, Rows, Receipted, Whole, packs
<1>10. wk[s] \in Holding /\ gate' = gate - Slot(wk[s], Fetching)
  BY <1>1, <1>2 DEF Holding, WorkerPC, Slot, Fetching, ThreadType
<1>11. marker'[s] # NoMarker
  BY <1>1, <1>2, <1>5 DEF SourceInv, WorkOf
<1>12. QED
  BY <1>3, <1>4, <1>5, <1>6, <1>8, <1>9, <1>10, <1>11, ReturnStep

LEMMA WorkerSafe ==
    ASSUME SafeInv, NEW s \in Sources, Worker(s)
    PROVE  SafeInv'
  BY AcquireSafe, NoHeadroomSafe, ProbeSafe, GetSafe, BodySafe, AttemptFailsSafe, RefusedSafe,
     LandSafe, IngestSafe, WriteChunkSafe, ConvertFailsSafe, CommitMarkerSafe, ReleaseSafe, Zenon
     DEF Worker

-----------------------------------------------------------------------------
(* The process and its main thread.                                        *)

\* A process ends, or the next one starts, over what is on the disk; a failed
\* compaction has removed its staging directory.
LEMMA ProcessStep ==
    ASSUME SafeInv, NoThreads, pc' \in {"off", "sweep"}, run' \in 0..MaxRuns,
           pc' = "sweep" => run' \in Runs, pending' \in SUBSET Sources, denied' \in BOOLEAN,
           UNCHANGED <<upstream, inputs, layers, gen, compacted, tx, cmanifest, proofs>>,
           staging' = staging \/ staging' = Absent
    PROVE  SafeInv'
<1>1. DiskType /\ ThreadType
  BY TypeParts DEF SafeInv
<1>2. UNCHANGED <<temp, final, outputs, marker, receipt, fetched, pointer>>
  BY DEF inputs, layers, proofs
<1>3. DiskType'
  BY <1>1, <1>2, Absences DEF DiskType
<1>4. wk' = Idle /\ wk' \in [Sources -> WorkerPC] /\ \A s \in Sources : wk'[s] = "idle"
  BY DEF NoThreads, Idle, WorkerPC
<1>5. ThreadType'
  <2>1. plan' \in [Sources -> [attempt : 0..MaxAttempts, ranges : BOOLEAN, version : 0..NumVersions]]
    BY Values DEF NoThreads
  <2>2. written' \in [Sources -> SUBSET Nat]
    BY DEF NoThreads
  <2>3. gate' \in 0..FetchLimit /\ ledger' \in [workers : 0..WorkerLimit, bytes : Int]
    BY ConstantsAssumption DEF NoThreads
  <2>4. pc' \in MainPC
    BY DEF MainPC
  <2>5. QED
    BY <1>4, <2>1, <2>2, <2>3, <2>4 DEF ThreadType
<1>6. ThreadInv'
  <2>1. Fetchers' = Among(Idle, Fetching) /\ Holders' = Among(Idle, Holding)
    BY <1>4, ThreadsNext
  <2>2. "idle" \notin Fetching /\ "idle" \notin Holding
    BY DEF Fetching, Holding
  <2>3. Cardinality(Fetchers') = 0 /\ Cardinality(Holders') = 0
    BY <2>1, <2>2, NoneMoving
  <2>4. gate' = 0 /\ ledger'.workers = 0
    BY DEF NoThreads
  <2>5. QED
    BY <1>4, <2>3, <2>4 DEF ThreadInv
<1>7. PackInv'
  BY <1>2, Absences DEF SafeInv, PackInv, Receipted, Unmarked, Contents, Rows
<1>8. MainInv'
  BY DEF MainInv
<1>9. PendingInv'
  BY DEF PendingInv
<1>10. ASSUME NEW s \in Sources PROVE SourceInv(s)'
  <2>1. SourceInv(s)
    BY DEF SafeInv
  <2>2. FilesOf(s)'
    BY <1>2, <1>4, <2>1 DEF SourceInv, FilesOf, Fetching
  <2>3. MarkerOf(s)'
    BY <1>2, <2>1 DEF SourceInv, MarkerOf, Rows, Receipted, Whole
  <2>4. written'[s] = {}
    BY DEF NoThreads
  <2>5. WorkOf(s)'
    BY <1>4, <2>4 DEF WorkOf, Building, Fetching
  <2>6. QED
    BY <2>2, <2>3, <2>5 DEF SourceInv
<1>11. QED
  BY <1>3, <1>5, <1>6, <1>7, <1>8, <1>9, <1>10 DEF SafeInv, TypeOK, DiskType, ThreadType

LEMMA StartSafe ==
    ASSUME SafeInv, Start
    PROVE  SafeInv'
<1>1. ThreadType
  BY TypeParts DEF SafeInv
<1>2. run' \in Runs /\ run' \in 0..MaxRuns
  BY <1>1, ConstantsAssumption DEF Start, ThreadType, Runs
<1>3. UNCHANGED <<upstream, inputs, layers, gen, compacted, tx, cmanifest, proofs, staging>>
  BY DEF Start, disk, packs
<1>4. pending' \in SUBSET Sources /\ denied' \in BOOLEAN /\ pc' = "sweep" /\ NoThreads
  BY <1>1 DEF Start, ThreadType
<1>5. QED
  BY <1>2, <1>3, <1>4, ProcessStep

LEMMA ExitSafe ==
    ASSUME SafeInv, Exit,
           UNCHANGED <<upstream, inputs, layers, gen, compacted, tx, cmanifest, proofs>>,
           staging' = staging \/ staging' = Absent
    PROVE  SafeInv'
<1>1. ThreadType
  BY TypeParts DEF SafeInv
<1>2. run' \in 0..MaxRuns /\ pc' = "off" /\ pending' = {} /\ denied' = FALSE /\ NoThreads
  BY <1>1 DEF Exit, ThreadType
<1>3. pending' \in SUBSET Sources /\ denied' \in BOOLEAN
  BY <1>2
<1>4. QED
  BY <1>2, <1>3, ProcessStep

LEMMA ExitOnly ==
    ASSUME SafeInv, Exit, UNCHANGED <<upstream, disk>>
    PROVE  SafeInv'
  BY ExitSafe DEF disk, packs

\* The main thread goes on once no worker runs.
LEMMA GotoStep ==
    ASSUME SafeInv, \A s \in Sources : wk[s] \in {"idle", "received"},
           pc \notin {"off", "sweep", "join"},
           NEW x \in MainPC \ {"off", "sweep", "dispatch", "join"}, Goto(x),
           UNCHANGED <<upstream, inputs, marker>>, DiskType', PackInv', MainInv',
           Receipted => Receipted', outputs' = outputs
    PROVE  SafeInv'
<1>1. ThreadType /\ x \in MainPC /\ x \notin {"off", "sweep", "dispatch", "join"}
  BY TypeParts DEF SafeInv
<1>2. /\ pc' = x /\ UNCHANGED <<run, pending, denied, wk, plan, written, gate, ledger>>
      /\ UNCHANGED <<temp, final>>
  BY DEF Goto, threads, inputs
<1>3. ThreadType'
  BY <1>1, <1>2 DEF ThreadType
<1>4. ThreadInv'
  BY <1>1, <1>2 DEF SafeInv, ThreadInv, Fetchers, Holders
<1>5. PendingInv'
  BY <1>1, <1>2 DEF PendingInv
<1>6. ASSUME NEW s \in Sources PROVE SourceInv(s)'
  <2>1. SourceInv(s) /\ wk[s] \in {"idle", "received"}
    BY DEF SafeInv
  <2>2. FilesOf(s)'
    BY <1>2, <2>1 DEF SourceInv, FilesOf
  <2>3. MarkerOf(s)'
    BY <1>2, <2>1 DEF SourceInv, MarkerOf, Rows, Whole
  <2>4. WorkOf(s)'
    BY <1>1, <1>2, <2>1 DEF SourceInv, WorkOf
  <2>5. QED
    BY <2>2, <2>3, <2>4 DEF SourceInv
<1>7. QED
  BY <1>3, <1>4, <1>5, <1>6 DEF SafeInv, TypeOK, DiskType, ThreadType

LEMMA MainAlone ==
    ASSUME SafeInv, pc \notin {"off", "dispatch", "join"}
    PROVE  \A s \in Sources : wk[s] \in {"idle", "received"}
  BY DEF SafeInv, ThreadInv

LEMMA ContentsFrame ==
    ASSUME marker' = marker
    PROVE  Contents' = Contents /\ Unmarked' = Unmarked
  BY DEF Contents, Rows, Unmarked

\* A source is represented exactly when it has a marker: source_is_represented
\* never forgets a committed source and never invents one.
LEMMA RepresentedMarked ==
    ASSUME SafeInv, NEW s \in Sources
    PROVE  Represented(s) <=> marker[s] # NoMarker
<1>1. MarkerOf(s) /\ PackInv
  BY DEF SafeInv, SourceInv
<1>2. Receipted => marker[s] # NoMarker
  BY <1>1 DEF PackInv, Receipted, Unmarked
<1>3. ASSUME marker[s] # NoMarker, ~Receipted PROVE MarkerValid(s)
  <2>1. /\ marker[s].chunks = 1..SizeOf[marker[s].src[1]]
        /\ final[s] \in {NoFile, marker[s].src} /\ outputs[s] = Rows(s)
    BY <1>1, <1>3 DEF MarkerOf
  <2>2. ASSUME NEW i \in 1..SizeOf[marker[s].src[1]] PROVE i \in {c[1] : c \in Rows(s)}
    <3>1. <<i, marker[s].src[1]>> \in Rows(s)
      BY DEF Rows
    <3>2. QED
      BY <3>1
  <2>3. QED
    BY <1>3, <2>1, <2>2 DEF MarkerValid
<1>4. QED
  BY <1>2, <1>3 DEF Represented, MarkerValid

LEMMA KillSafe ==
    ASSUME SafeInv, Kill
    PROVE  SafeInv'
  BY ExitOnly DEF Kill

LEMMA RepublishSafe ==
    ASSUME SafeInv, NEW s \in Sources, Republish(s)
    PROVE  SafeInv'
<1>1. DiskType /\ ThreadType
  BY TypeParts DEF SafeInv
<1>2. /\ UNCHANGED <<temp, final, outputs, marker, gen, staging, compacted, tx, cmanifest,
                     fetched, receipt, pointer>>
      /\ UNCHANGED <<run, pc, pending, denied, wk, plan, written, gate, ledger>>
  BY DEF Republish, disk, inputs, layers, packs, proofs, process, threads
<1>3. upstream' \in [Sources -> Versions]
  BY <1>1, ConstantsAssumption DEF Republish, DiskType, Versions
<1>4. TypeOK'
  BY <1>1, <1>2, <1>3 DEF TypeOK, DiskType, ThreadType
<1>5. ThreadInv' /\ PendingInv'
  BY <1>2 DEF SafeInv, ThreadInv, Fetchers, Holders, PendingInv
<1>6. PackInv' /\ MainInv'
  BY <1>2, ContentsFrame DEF SafeInv, PackInv, MainInv, Receipted
<1>7. \A t \in Sources : SourceInv(t)'
  BY <1>2, SourceFrame DEF SafeInv, Same
<1>8. QED
  BY <1>4, <1>5, <1>6, <1>7 DEF SafeInv

LEMMA SweepSafe ==
    ASSUME SafeInv, NEW s \in Sources, Sweep(s)
    PROVE  SafeInv'
<1> DEFINE none == [r \in Runs |-> NoFile]
<1>1. /\ pc \in {"sweep", "tidy"} /\ temp' = [temp EXCEPT ![s] = none]
      /\ final' = [final EXCEPT ![s] = NoFile]
      /\ UNCHANGED <<upstream, layers, packs, proofs, process>>
  BY DEF Sweep
<1>2. DiskType /\ ThreadType
  BY TypeParts DEF SafeInv
<1>3. /\ UNCHANGED <<outputs, marker, gen, staging, compacted, tx, cmanifest, fetched, receipt, pointer>>
      /\ UNCHANGED <<run, pc, pending, denied, wk, plan, written, gate, ledger>>
  BY <1>1 DEF layers, packs, proofs, process, threads
<1>4. none \in [Runs -> File] /\ \A r \in Runs : none[r] = NoFile
  BY Values
<1> HIDE DEF none
<1>5. temp' \in [Sources -> [Runs -> File]] /\ final' \in [Sources -> File]
  BY <1>1, <1>2, <1>4, Values DEF DiskType
<1>6. /\ temp'[s] = none /\ final'[s] = NoFile
      /\ \A t \in Sources : t # s => temp'[t] = temp[t] /\ final'[t] = final[t]
  BY <1>1, <1>2 DEF DiskType
<1>7. TypeOK'
  BY <1>1, <1>2, <1>3, <1>5 DEF TypeOK, DiskType, ThreadType
<1>8. ThreadInv' /\ PendingInv'
  BY <1>3 DEF SafeInv, ThreadInv, Fetchers, Holders, PendingInv
<1>9. PackInv' /\ MainInv'
  BY <1>3, ContentsFrame DEF SafeInv, PackInv, MainInv, Receipted
<1>10. \A t \in Sources : t # s => SourceInv(t)'
  BY <1>3, <1>6, SourceFrame DEF SafeInv, Same
<1>11. SourceInv(s)'
  <2>1. SourceInv(s) /\ wk[s] \in {"idle", "received"}
    BY <1>1, MainAlone DEF SafeInv
  <2>2. FilesOf(s)'
    BY <1>3, <1>4, <1>6, <2>1 DEF FilesOf, Fetching
  <2>3. MarkerOf(s)'
    BY <1>3, <1>6, <2>1 DEF SourceInv, MarkerOf, Rows, Receipted, Whole
  <2>4. WorkOf(s)'
    BY <1>3, <2>1 DEF SourceInv, WorkOf
  <2>5. QED
    BY <2>2, <2>3, <2>4 DEF SourceInv
<1>12. QED
  BY <1>7, <1>8, <1>9, <1>10, <1>11 DEF SafeInv

LEMMA PlanSafe ==
    ASSUME SafeInv, Plan
    PROVE  SafeInv'
<1> DEFINE todo == {s \in Sources : ~Represented(s)}
<1>1. pc = "sweep" /\ UNCHANGED <<upstream, disk>>
  BY DEF Plan
<1>2. CASE Exit
  BY <1>1, <1>2, ExitOnly
<1>3. CASE pending' = todo /\ pc' = "dispatch" /\ UNCHANGED <<run, denied, threads>>
  <2>1. DiskType /\ ThreadType
    BY TypeParts DEF SafeInv
  <2>2. /\ UNCHANGED <<temp, final, outputs, marker, gen, staging, compacted, tx, cmanifest,
                       fetched, receipt, pointer>>
        /\ UNCHANGED <<run, denied, wk, plan, written, gate, ledger>>
    BY <1>1, <1>3 DEF disk, inputs, layers, packs, proofs, threads
  <2>3. TypeOK'
    BY <1>1, <1>3, <2>1, <2>2 DEF TypeOK, DiskType, ThreadType, MainPC
  <2>4. \A s \in Sources : wk[s] = "idle"
    BY <1>1 DEF SafeInv, ThreadInv
  <2>5. ThreadInv'
    BY <1>1, <1>3, <2>2, <2>4 DEF SafeInv, ThreadInv, Fetchers, Holders
  <2>6. \A p \in todo : p \in Sources /\ marker[p] = NoMarker
    BY RepresentedMarked
  <2>7. PendingInv'
    BY <1>3, <2>2, <2>4, <2>6 DEF PendingInv
  <2>8. PackInv' /\ MainInv'
    BY <1>3, <2>2, ContentsFrame DEF SafeInv, PackInv, MainInv, Receipted
  <2>9. \A t \in Sources : SourceInv(t)'
    BY <1>1, <2>2, SourceFrame DEF SafeInv, Same
  <2>10. QED
    BY <2>3, <2>5, <2>7, <2>8, <2>9 DEF SafeInv
<1>4. QED
  BY <1>2, <1>3 DEF Plan

LEMMA JoinSafe ==
    ASSUME SafeInv, Join
    PROVE  SafeInv'
  BY ExitOnly DEF Join

LEMMA ReceiveSafe ==
    ASSUME SafeInv, NEW s \in Sources, Receive(s)
    PROVE  SafeInv'
<1>1. /\ pc = "dispatch" /\ wk' = [wk EXCEPT ![s] = "received"] /\ denied' = FALSE
      /\ UNCHANGED <<upstream, disk, run, pending, plan, written, gate, ledger>>
      /\ \/ wk[s] = "ok" /\ pc' = pc
         \/ wk[s] = "err" /\ pc' = "join"
  BY DEF Receive
<1>2. DiskType /\ ThreadType /\ ThreadInv /\ SourceInv(s) /\ PendingInv
  BY TypeParts DEF SafeInv
<1>3. UNCHANGED <<temp, final, outputs, marker, gen, staging, compacted, tx, cmanifest,
                  fetched, receipt, pointer>>
  BY <1>1 DEF disk, inputs, layers, packs, proofs
<1>4. "received" \in WorkerPC /\ "received" \notin Fetching /\ "received" \notin Holding
  BY DEF WorkerPC, Fetching, Holding
<1>5. wk[s] \notin Fetching /\ wk[s] \notin Holding
  BY <1>1 DEF Fetching, Holding
<1>6. /\ gate' = gate + Slot("received", Fetching) - Slot(wk[s], Fetching)
      /\ ledger'.workers = ledger.workers + Slot("received", Holding) - Slot(wk[s], Holding)
  <2>1. /\ Slot("received", Fetching) = 0 /\ Slot(wk[s], Fetching) = 0
        /\ Slot("received", Holding) = 0 /\ Slot(wk[s], Holding) = 0
        /\ gate \in Int /\ ledger.workers \in Int
    BY <1>2, <1>4, <1>5 DEF Slot, ThreadType
  <2>2. QED
    BY <1>1, <2>1
<1>7. /\ wk' \in [Sources -> WorkerPC]
      /\ gate' = Cardinality(Fetchers') /\ ledger'.workers = Cardinality(Holders')
  BY <1>1, <1>2, <1>4, <1>6, CountStep
<1>8. /\ wk'[s] = "received" /\ \A t \in Sources : t # s => wk'[t] = wk[t]
  BY <1>1, <1>2 DEF ThreadType
<1>9. TypeOK'
  <2>1. ThreadType'
    BY <1>1, <1>2, <1>7 DEF ThreadType, MainPC
  <2>2. QED
    BY <1>1, <1>2, <1>3, <2>1 DEF TypeOK, DiskType, ThreadType
<1>10. ThreadInv'
  BY <1>1, <1>2, <1>7, <1>8 DEF ThreadInv
<1>11. PendingInv'
  <2>1. s \notin pending /\ pending \subseteq Sources
    BY <1>1, <1>2 DEF PendingInv, ThreadType
  <2>2. QED
    BY <1>1, <1>2, <1>3, <1>8, <2>1 DEF PendingInv
<1>12. PackInv' /\ MainInv'
  BY <1>1, <1>3, ContentsFrame DEF SafeInv, PackInv, MainInv, Receipted
<1>13. \A t \in Sources : t # s => SourceInv(t)'
  BY <1>1, <1>3, <1>8, SourceFrame DEF SafeInv, Same
<1>14. SourceInv(s)'
  <2>1. FilesOf(s)'
    BY <1>2, <1>3, <1>4, <1>8 DEF SourceInv, FilesOf
  <2>2. MarkerOf(s)'
    BY <1>2, <1>3 DEF SourceInv, MarkerOf, Rows, Receipted, Whole
  <2>3. WorkOf(s)'
    BY <1>1, <1>2, <1>3, <1>8 DEF SourceInv, WorkOf, Building, Fetching
  <2>4. QED
    BY <2>1, <2>2, <2>3 DEF SourceInv
<1>15. QED
  BY <1>9, <1>10, <1>11, <1>12, <1>13, <1>14 DEF SafeInv

\* The minimum of the module is one.
LEMMA MinOf ==
    ASSUME NEW S \in SUBSET Nat, S # {}
    PROVE  Min(S) \in S /\ \A k \in S : Min(S) <= k
<1>1. \E m \in S : \A k \in S : m <= k
  BY SmallestNat
<1>2. QED
  BY <1>1 DEF Min

LEMMA DispatchSafe ==
    ASSUME SafeInv, Dispatch
    PROVE  SafeInv'
<1>1. pc = "dispatch" /\ ~denied /\ pending # {} /\ UNCHANGED <<upstream, disk>>
  BY DEF Dispatch
<1>2. DiskType /\ ThreadType /\ ThreadInv /\ PendingInv
  BY TypeParts DEF SafeInv
<1>3. pending \in SUBSET Sources /\ pending \in SUBSET Nat
  BY <1>2, Values DEF ThreadType
<1>4. PICK s \in Sources : s = Min(pending) /\ s \in pending
  BY <1>1, <1>3, MinOf
<1>5. UNCHANGED <<temp, final, outputs, marker, gen, staging, compacted, tx, cmanifest,
                  fetched, receipt, pointer>>
  BY <1>1 DEF disk, inputs, layers, packs, proofs
<1>6. wk[s] = "idle" /\ marker[s] = NoMarker
  BY <1>1, <1>2, <1>4 DEF PendingInv
<1>7. CASE Exit
  BY <1>1, <1>7, ExitOnly
<1>8. CASE denied' = TRUE /\ UNCHANGED <<run, pc, pending, threads>>
  <2>1. UNCHANGED <<run, pc, pending, wk, plan, written, gate, ledger>>
    BY <1>8 DEF threads
  <2>2. TypeOK'
    BY <1>1, <1>2, <1>5, <1>8, <2>1 DEF TypeOK, DiskType, ThreadType
  <2>3. ThreadInv' /\ PendingInv'
    BY <1>2, <1>5, <2>1 DEF ThreadInv, Fetchers, Holders, PendingInv
  <2>4. PackInv' /\ MainInv'
    BY <1>5, <2>1, ContentsFrame DEF SafeInv, PackInv, MainInv, Receipted
  <2>5. \A t \in Sources : SourceInv(t)'
    BY <1>5, <2>1, SourceFrame DEF SafeInv, Same
  <2>6. QED
    BY <2>2, <2>3, <2>4, <2>5 DEF SafeInv
<1>9. CASE \E free \in Samples :
             /\ Admits(s, free)
             /\ pending' = pending \ {s}
             /\ wk' = [wk EXCEPT ![s] = "gate"]
             /\ ledger' = [workers |-> ledger.workers + 1, bytes |-> ledger.bytes + Estimate[s]]
             /\ UNCHANGED <<run, pc, denied, plan, written, gate>>
  <2>1. /\ ledger.workers < WorkerLimit
        /\ pending' = pending \ {s} /\ wk' = [wk EXCEPT ![s] = "gate"]
        /\ ledger' = [workers |-> ledger.workers + 1, bytes |-> ledger.bytes + Estimate[s]]
        /\ UNCHANGED <<run, pc, denied, plan, written, gate>>
    BY <1>9 DEF Admits
  <2>2. /\ "gate" \in WorkerPC /\ "gate" \notin Fetching /\ "gate" \in Holding
        /\ "idle" \notin Fetching /\ "idle" \notin Holding
    BY DEF WorkerPC, Fetching, Holding
  <2>3. /\ gate' = gate + Slot("gate", Fetching) - Slot(wk[s], Fetching)
        /\ ledger'.workers = ledger.workers + Slot("gate", Holding) - Slot(wk[s], Holding)
    <3>1. /\ Slot("gate", Fetching) = 0 /\ Slot(wk[s], Fetching) = 0
          /\ Slot("gate", Holding) = 1 /\ Slot(wk[s], Holding) = 0
          /\ gate \in Int /\ ledger.workers \in Int
      BY <1>2, <1>6, <2>2 DEF Slot, ThreadType
    <3>2. QED
      BY <2>1, <3>1
  <2>4. /\ wk' \in [Sources -> WorkerPC]
        /\ gate' = Cardinality(Fetchers') /\ ledger'.workers = Cardinality(Holders')
    BY <1>2, <1>4, <2>1, <2>2, <2>3, CountStep
  <2>5. wk'[s] = "gate" /\ \A t \in Sources : t # s => wk'[t] = wk[t]
    BY <1>2, <1>4, <2>1 DEF ThreadType
  <2>6. ledger' \in [workers : 0..WorkerLimit, bytes : Int]
    <3>1. ledger.workers \in 0..WorkerLimit /\ ledger.bytes \in Int /\ Estimate[s] \in Nat
      BY <1>2, ConstantsAssumption DEF ThreadType
    <3>2. ledger.workers + 1 \in 0..WorkerLimit /\ ledger.bytes + Estimate[s] \in Int
      BY <2>1, <3>1, ConstantsAssumption
    <3>3. QED
      BY <2>1, <3>2
  <2>7. TypeOK'
    <3>1. ThreadType'
      BY <1>2, <2>1, <2>4, <2>6 DEF ThreadType
    <3>2. QED
      BY <1>1, <1>2, <1>5, <3>1 DEF TypeOK, DiskType, ThreadType
  <2>8. ThreadInv'
    BY <1>1, <1>2, <2>1, <2>4, <2>5 DEF ThreadInv
  <2>9. PendingInv'
    BY <1>2, <1>3, <1>5, <2>1, <2>5 DEF PendingInv
  <2>10. PackInv' /\ MainInv'
    BY <1>5, <2>1, ContentsFrame DEF SafeInv, PackInv, MainInv, Receipted
  <2>11. \A t \in Sources : t # s => SourceInv(t)'
    BY <1>5, <2>1, <2>5, SourceFrame DEF SafeInv, Same
  <2>12. SourceInv(s)'
    <3>1. SourceInv(s)
      BY <1>4 DEF SafeInv
    <3>2. FilesOf(s)'
      BY <1>5, <2>2, <2>5, <3>1 DEF SourceInv, FilesOf
    <3>3. MarkerOf(s)'
      BY <1>5, <1>6 DEF MarkerOf
    <3>4. written'[s] = {}
      BY <1>6, <2>1, <3>1 DEF SourceInv, WorkOf
    <3>5. WorkOf(s)'
      BY <1>5, <1>6, <2>5, <3>4 DEF WorkOf
    <3>6. QED
      BY <3>2, <3>3, <3>5 DEF SourceInv
  <2>13. QED
    BY <2>7, <2>8, <2>9, <2>10, <2>11, <2>12 DEF SafeInv
<1>10. QED
  BY <1>4, <1>7, <1>8, <1>9 DEF Dispatch

\* A step of the main thread that leaves the fragments and the markers alone.
LEMMA MainStep ==
    ASSUME SafeInv, pc \notin {"off", "sweep", "dispatch", "join"},
           NEW x \in MainPC \ {"off", "sweep", "dispatch", "join"}, Goto(x),
           UNCHANGED <<upstream, inputs, layers>>, DiskType', PackInv', MainInv',
           Receipted => Receipted'
    PROVE  SafeInv'
<1>1. \A s \in Sources : wk[s] \in {"idle", "received"}
  BY MainAlone
<1>2. outputs' = outputs /\ marker' = marker
  BY DEF layers
<1>3. QED
  BY <1>1, <1>2, GotoStep

LEMMA DispatchedSafe ==
    ASSUME SafeInv, Dispatched
    PROVE  SafeInv'
<1>1. pc = "dispatch" /\ Active = {} /\ Goto("finalize") /\ UNCHANGED <<upstream, disk>>
  BY DEF Dispatched, Goto
<1>2. \A s \in Sources : wk[s] \in {"idle", "received"}
  BY <1>1 DEF Active
<1>3. UNCHANGED <<temp, final, outputs, marker, gen, staging, compacted, tx, cmanifest,
                  fetched, receipt, pointer, inputs>>
  BY <1>1 DEF disk, inputs, layers, packs, proofs
<1>4. DiskType'
  BY <1>1, <1>3, TypeParts DEF SafeInv, DiskType
<1>5. PackInv' /\ (Receipted => Receipted')
  BY <1>3, ContentsFrame DEF SafeInv, PackInv, Receipted
<1>6. pc' = "finalize"
  BY <1>1 DEF Goto
<1>7. MainInv'
  BY <1>6 DEF MainInv
<1>8. "finalize" \in MainPC \ {"off", "sweep", "dispatch", "join"}
  BY DEF MainPC
<1>9. QED
  BY <1>1, <1>2, <1>3, <1>4, <1>5, <1>7, <1>8, GotoStep

LEMMA FinalizeFetchSafe ==
    ASSUME SafeInv, FinalizeFetch
    PROVE  SafeInv'
<1>1. pc = "finalize" /\ UNCHANGED <<upstream, inputs, layers, packs, receipt, pointer>>
  BY DEF FinalizeFetch
<1>2. CASE fetched' = TRUE /\ Goto("manifest")
  <2>1. /\ UNCHANGED <<temp, final, outputs, marker, gen, staging, compacted, tx, cmanifest>>
        /\ pc' = "manifest"
    BY <1>1, <1>2 DEF inputs, layers, packs, Goto
  <2>2. DiskType'
    BY <1>1, <1>2, <2>1, TypeParts DEF SafeInv, DiskType
  <2>3. PackInv' /\ (Receipted => Receipted')
    BY <1>1, <2>1, ContentsFrame DEF SafeInv, PackInv, Receipted
  <2>4. MainInv'
    BY <2>1 DEF MainInv
  <2>5. "manifest" \in MainPC \ {"off", "sweep", "dispatch", "join"}
    BY DEF MainPC
  <2>6. QED
    BY <1>1, <1>2, <2>2, <2>3, <2>4, <2>5, MainStep
<1>3. CASE fetched' = fetched /\ Exit
  <2>1. UNCHANGED <<inputs, layers, gen, staging, compacted, tx, cmanifest, proofs>>
    BY <1>1, <1>3 DEF packs, proofs
  <2>2. QED
    BY <1>1, <1>3, <2>1, ExitSafe
<1>4. QED
  BY <1>2, <1>3 DEF FinalizeFetch

\* What write_generation_manifest lists is exactly what the markers stand for.
LEMMA ValidContents ==
    ASSUME SafeInv, ValidGeneration, ~Receipted
    PROVE  Unmarked = {} /\ outputs = Contents
<1>1. \A s \in Sources : marker[s] # NoMarker
  BY DEF ValidGeneration, MarkerValid
<1>2. \A s \in Sources : outputs[s] = Rows(s)
  BY <1>1 DEF SafeInv, SourceInv, MarkerOf
<1>3. outputs \in [Sources -> SUBSET Chunk]
  BY DEF SafeInv, TypeOK, Pack
<1>4. outputs = [s \in Sources |-> outputs[s]]
  BY <1>3
<1>5. outputs = Contents
  BY <1>2, <1>4 DEF Contents
<1>6. QED
  BY <1>1, <1>5 DEF Unmarked

LEMMA WriteManifestSafe ==
    ASSUME SafeInv, WriteManifest
    PROVE  SafeInv'
<1>1. /\ pc = "manifest"
      /\ UNCHANGED <<upstream, inputs, layers, staging, compacted, tx, cmanifest, proofs>>
  BY DEF WriteManifest
<1>2. UNCHANGED <<temp, final, outputs, marker, fetched, receipt, pointer>>
  BY <1>1 DEF inputs, layers, proofs
<1>3. DiskType /\ PackInv
  BY TypeParts DEF SafeInv
<1>4. /\ "select" \in MainPC \ {"off", "sweep", "dispatch", "join"}
      /\ "receipt" \in MainPC \ {"off", "sweep", "dispatch", "join"}
      /\ "compact" \in MainPC \ {"off", "sweep", "dispatch", "join"}
  BY DEF MainPC
<1>5. ASSUME gen' = gen PROVE DiskType' /\ PackInv' /\ (Receipted => Receipted') /\ gen'.schema = gen.schema
  BY <1>1, <1>2, <1>3, <1>5, ContentsFrame DEF DiskType, PackInv, Receipted
<1>6. CASE Receipted /\ gen' = gen /\ Goto("select")
  <2>1. MainInv'
    BY <1>5, <1>6 DEF MainInv, Goto
  <2>2. QED
    BY <1>1, <1>4, <1>5, <1>6, <2>1, MainStep
<1>7. CASE gen.schema = 3 /\ gen' = gen /\ Goto("receipt")
  <2>1. MainInv'
    BY <1>5, <1>7 DEF MainInv, Goto
  <2>2. QED
    BY <1>1, <1>4, <1>5, <1>7, <2>1, MainStep
<1>8. CASE ~Receipted /\ gen.schema # 3 /\ ValidGeneration
           /\ gen' = [schema |-> 2, pack |-> outputs] /\ Goto("compact")
  <2>1. Unmarked = {} /\ outputs = Contents
    BY <1>8, ValidContents
  <2>2. gen' \in Manifest /\ gen'.schema = 2 /\ gen'.pack = outputs
    BY <1>3, <1>8 DEF DiskType, Manifest
  <2>3. DiskType'
    BY <1>1, <1>2, <1>3, <2>2 DEF DiskType
  <2>4. receipt.schema = 0 /\ ~pointer
    BY <1>3, <1>8 DEF PackInv
  <2>5. PackInv'
    BY <1>1, <1>2, <1>3, <2>1, <2>2, <2>4, ContentsFrame DEF PackInv
  <2>6. MainInv'
    BY <1>8, <2>2 DEF MainInv, Goto
  <2>7. QED
    BY <1>1, <1>4, <1>8, <2>3, <2>5, <2>6, MainStep
<1>9. CASE gen' = gen /\ Exit
  BY <1>1, <1>9, ExitSafe
<1>10. QED
  BY <1>6, <1>7, <1>8, <1>9 DEF WriteManifest

LEMMA CompactSafe ==
    ASSUME SafeInv, Compact
    PROVE  SafeInv'
<1>1. /\ pc = "compact"
      /\ UNCHANGED <<upstream, inputs, layers, gen, compacted, tx, cmanifest, proofs>>
  BY DEF Compact
<1>2. UNCHANGED <<temp, final, outputs, marker, fetched, receipt, pointer>>
  BY <1>1 DEF inputs, layers, proofs
<1>3. DiskType /\ PackInv /\ gen.schema # 0
  BY <1>1, TypeParts DEF SafeInv, MainInv
<1>4. Receipted => Receipted'
  BY <1>1, <1>2 DEF Receipted
<1>5. ASSUME staging' = staging PROVE DiskType' /\ PackInv'
  BY <1>1, <1>2, <1>3, <1>5, ContentsFrame DEF DiskType, PackInv, Receipted
<1>6. CASE staging' = staging /\ Exit
  BY <1>1, <1>6, ExitSafe
<1>7. CASE cmanifest.open /\ staging' = staging /\ Goto("publish")
  <2>1. MainInv'
    BY <1>1, <1>7 DEF MainInv, Goto
  <2>2. "publish" \in MainPC \ {"off", "sweep", "dispatch", "join"}
    BY DEF MainPC
  <2>3. QED
    BY <1>1, <1>4, <1>5, <1>7, <2>1, <2>2, MainStep
<1>8. CASE tx.open /\ staging.open /\ staging' = staging /\ Goto("rename")
  <2>1. MainInv'
    BY <1>1, <1>3, <1>8 DEF MainInv, Goto
  <2>2. "rename" \in MainPC \ {"off", "sweep", "dispatch", "join"}
    BY DEF MainPC
  <2>3. QED
    BY <1>1, <1>4, <1>5, <1>8, <2>1, <2>2, MainStep
<1>9. CASE tx.open /\ compacted.open /\ staging' = staging /\ Goto("commit")
  <2>1. MainInv'
    BY <1>1, <1>3, <1>9 DEF MainInv, Goto
  <2>2. "commit" \in MainPC \ {"off", "sweep", "dispatch", "join"}
    BY DEF MainPC
  <2>3. QED
    BY <1>1, <1>4, <1>5, <1>9, <2>1, <2>2, MainStep
<1>10. CASE ~tx.open /\ staging' = [Absent EXCEPT !.open = TRUE] /\ Goto("build")
  <2>1. staging' \in Artifact
    BY <1>10, Absences
  <2>2. DiskType'
    BY <1>1, <1>2, <1>3, <2>1 DEF DiskType
  <2>3. PackInv'
    BY <1>1, <1>2, <1>3, <1>10, ContentsFrame DEF PackInv, Receipted
  <2>4. MainInv'
    BY <1>1, <1>3, <1>10 DEF MainInv, Goto
  <2>5. "build" \in MainPC \ {"off", "sweep", "dispatch", "join"}
    BY DEF MainPC
  <2>6. QED
    BY <1>1, <1>4, <1>10, <2>2, <2>3, <2>4, <2>5, MainStep
<1>11. QED
  <2>1. staging.open \in BOOLEAN /\ compacted.open \in BOOLEAN
    BY <1>3 DEF DiskType, Artifact
  <2>2. QED
    BY <1>6, <1>7, <1>8, <1>9, <1>10, <2>1 DEF Compact

LEMMA BuildSafe ==
    ASSUME SafeInv, Build
    PROVE  SafeInv'
<1> DEFINE a == [open |-> TRUE, pack |-> gen.pack, proof |-> marker]
<1>1. /\ pc = "build" /\ staging' = a /\ tx' = a /\ Goto("rename")
      /\ UNCHANGED <<upstream, inputs, layers, gen, compacted, cmanifest, proofs>>
  BY DEF Build
<1>2. UNCHANGED <<temp, final, outputs, marker, fetched, receipt, pointer>>
  BY <1>1 DEF inputs, layers, proofs
<1>3. DiskType /\ PackInv /\ gen.schema # 0
  BY <1>1, TypeParts DEF SafeInv, MainInv
<1>4. a \in Artifact /\ a.open /\ a.pack = gen.pack
  BY <1>3 DEF DiskType, Artifact, Manifest
<1> HIDE DEF a
<1>5. DiskType'
  BY <1>1, <1>2, <1>3, <1>4 DEF DiskType
<1>6. PackInv' /\ (Receipted => Receipted')
  BY <1>1, <1>2, <1>3, <1>4, ContentsFrame DEF PackInv, Receipted
<1>7. MainInv'
  BY <1>1, <1>3, <1>4 DEF MainInv, Goto
<1>8. "rename" \in MainPC \ {"off", "sweep", "dispatch", "join"}
  BY DEF MainPC
<1>9. QED
  BY <1>1, <1>5, <1>6, <1>7, <1>8, MainStep

LEMMA BuildFailsSafe ==
    ASSUME SafeInv, BuildFails
    PROVE  SafeInv'
  BY ExitSafe DEF BuildFails

LEMMA RenameStagingSafe ==
    ASSUME SafeInv, RenameStaging
    PROVE  SafeInv'
<1>1. /\ pc = "rename" /\ compacted' = staging /\ staging' = Absent /\ Goto("commit")
      /\ UNCHANGED <<upstream, inputs, layers, gen, tx, cmanifest, proofs>>
  BY DEF RenameStaging
<1>2. UNCHANGED <<temp, final, outputs, marker, fetched, receipt, pointer>>
  BY <1>1 DEF inputs, layers, proofs
<1>3. DiskType /\ PackInv /\ gen.schema # 0 /\ tx.open /\ staging.open
  BY <1>1, TypeParts DEF SafeInv, MainInv
<1>4. DiskType'
  BY <1>1, <1>2, <1>3, Absences DEF DiskType
<1>5. PackInv' /\ (Receipted => Receipted')
  BY <1>1, <1>2, <1>3, ContentsFrame, Absences DEF PackInv, Receipted
<1>6. MainInv'
  BY <1>1, <1>3 DEF MainInv, Goto
<1>7. "commit" \in MainPC \ {"off", "sweep", "dispatch", "join"}
  BY DEF MainPC
<1>8. QED
  BY <1>1, <1>4, <1>5, <1>6, <1>7, MainStep

LEMMA CommitCompactionSafe ==
    ASSUME SafeInv, CommitCompaction
    PROVE  SafeInv'
<1>1. /\ pc = "commit" /\ cmanifest' = tx /\ Goto("settle")
      /\ UNCHANGED <<upstream, inputs, layers, gen, staging, compacted, tx, proofs>>
  BY DEF CommitCompaction
<1>2. UNCHANGED <<temp, final, outputs, marker, fetched, receipt, pointer>>
  BY <1>1 DEF inputs, layers, proofs
<1>3. DiskType /\ PackInv /\ gen.schema # 0 /\ tx.open /\ compacted.open
  BY <1>1, TypeParts DEF SafeInv, MainInv
<1>4. DiskType'
  BY <1>1, <1>2, <1>3 DEF DiskType
<1>5. PackInv' /\ (Receipted => Receipted')
  BY <1>1, <1>2, <1>3, ContentsFrame DEF PackInv, Receipted
<1>6. MainInv'
  BY <1>1, <1>3 DEF MainInv, Goto
<1>7. "settle" \in MainPC \ {"off", "sweep", "dispatch", "join"}
  BY DEF MainPC
<1>8. QED
  BY <1>1, <1>4, <1>5, <1>6, <1>7, MainStep

LEMMA RemoveTransactionSafe ==
    ASSUME SafeInv, RemoveTransaction
    PROVE  SafeInv'
<1>1. /\ pc = "settle" /\ tx' = Absent /\ Goto("publish")
      /\ UNCHANGED <<upstream, inputs, layers, gen, staging, compacted, cmanifest, proofs>>
  BY DEF RemoveTransaction
<1>2. UNCHANGED <<temp, final, outputs, marker, fetched, receipt, pointer>>
  BY <1>1 DEF inputs, layers, proofs
<1>3. DiskType /\ PackInv /\ cmanifest.open
  BY <1>1, TypeParts DEF SafeInv, MainInv
<1>4. DiskType'
  BY <1>1, <1>2, <1>3, Absences DEF DiskType
<1>5. PackInv' /\ (Receipted => Receipted')
  BY <1>1, <1>2, <1>3, ContentsFrame, Absences DEF PackInv, Receipted
<1>6. MainInv'
  BY <1>1, <1>3 DEF MainInv, Goto
<1>7. "publish" \in MainPC \ {"off", "sweep", "dispatch", "join"}
  BY DEF MainPC
<1>8. QED
  BY <1>1, <1>4, <1>5, <1>6, <1>7, MainStep

LEMMA PublishManifestSafe ==
    ASSUME SafeInv, PublishManifest
    PROVE  SafeInv'
<1>1. /\ pc = "publish"
      /\ UNCHANGED <<upstream, inputs, layers, staging, compacted, tx, cmanifest, proofs>>
  BY DEF PublishManifest
<1>2. UNCHANGED <<temp, final, outputs, marker, fetched, receipt, pointer>>
  BY <1>1 DEF inputs, layers, proofs
<1>3. DiskType /\ PackInv /\ cmanifest.open
  BY <1>1, TypeParts DEF SafeInv, MainInv
<1>4. CASE gen.schema = 2 /\ gen' = [schema |-> 3, pack |-> cmanifest.pack] /\ Goto("receipt")
  <2>1. gen' \in Manifest /\ gen'.schema = 3 /\ gen'.pack = cmanifest.pack
    BY <1>3, <1>4 DEF DiskType, Manifest, Artifact
  <2>2. DiskType'
    BY <1>1, <1>2, <1>3, <2>1 DEF DiskType
  <2>3. ~Receipted
    BY <1>4 DEF Receipted
  <2>4. PackInv'
    BY <1>1, <1>2, <1>3, <1>4, <2>1, <2>3, ContentsFrame DEF PackInv
  <2>5. MainInv'
    BY <1>4, <2>1 DEF MainInv, Goto
  <2>6. "receipt" \in MainPC \ {"off", "sweep", "dispatch", "join"}
    BY DEF MainPC
  <2>7. QED
    BY <1>1, <1>4, <2>2, <2>3, <2>4, <2>5, <2>6, MainStep
<1>5. CASE gen' = gen /\ Exit
  BY <1>1, <1>5, ExitSafe
<1>6. QED
  BY <1>4, <1>5 DEF PublishManifest

LEMMA RecordReceiptSafe ==
    ASSUME SafeInv, RecordReceipt
    PROVE  SafeInv'
<1>1. pc = "receipt" /\ UNCHANGED <<upstream, inputs, layers, packs, fetched, pointer>>
  BY DEF RecordReceipt
<1>2. UNCHANGED <<temp, final, outputs, marker, gen, staging, compacted, tx, cmanifest>>
  BY <1>1 DEF inputs, layers, packs
<1>3. DiskType /\ PackInv /\ gen.schema = 3
  BY <1>1, TypeParts DEF SafeInv, MainInv
<1>4. CASE receipt' = gen /\ Goto("retire")
  <2>1. DiskType'
    BY <1>1, <1>2, <1>3, <1>4 DEF DiskType
  <2>2. Receipted'
    BY <1>2, <1>3, <1>4 DEF Receipted
  <2>3. PackInv'
    BY <1>1, <1>2, <1>3, <2>2, ContentsFrame DEF PackInv
  <2>4. MainInv'
    BY <1>4, <2>2 DEF MainInv, Goto
  <2>5. "retire" \in MainPC \ {"off", "sweep", "dispatch", "join"}
    BY DEF MainPC
  <2>6. QED
    BY <1>1, <1>4, <2>1, <2>2, <2>3, <2>4, <2>5, MainStep
<1>5. CASE receipt' = receipt /\ Exit
  BY <1>1, <1>2, <1>5, ExitSafe DEF proofs
<1>6. QED
  BY <1>4, <1>5 DEF RecordReceipt

LEMMA SelectSafe ==
    ASSUME SafeInv, SelectGeneration \/ Retired \/ Finish
    PROVE  SafeInv'
<1>1. PICK x \in {"select", "tidy", "done"} : Goto(x)
  BY DEF SelectGeneration, Retired, Finish
<1>2. /\ pc \in {"retire", "select", "tidy"}
      /\ UNCHANGED <<upstream, inputs, layers, packs, fetched, receipt>>
  BY DEF SelectGeneration, Retired, Finish, disk, proofs
<1>3. UNCHANGED <<temp, final, outputs, marker, gen, staging, compacted, tx, cmanifest>>
  BY <1>2 DEF inputs, layers, packs
<1>4. DiskType /\ PackInv /\ Receipted
  BY <1>2, TypeParts DEF SafeInv, MainInv
<1>5. pointer' \in BOOLEAN
  BY <1>4, ConstantsAssumption DEF SelectGeneration, Retired, Finish, disk, proofs, DiskType
<1>6. DiskType'
  BY <1>2, <1>3, <1>4, <1>5 DEF DiskType
<1>7. Receipted'
  BY <1>2, <1>3, <1>4 DEF Receipted
<1>8. PackInv'
  BY <1>2, <1>3, <1>4, <1>7, ContentsFrame DEF PackInv
<1>9. MainInv'
  BY <1>1, <1>7 DEF MainInv, Goto
<1>10. x \in MainPC \ {"off", "sweep", "dispatch", "join"}
  BY DEF MainPC
<1>11. QED
  BY <1>1, <1>2, <1>6, <1>7, <1>8, <1>9, <1>10, MainStep

LEMMA RetireSafe ==
    ASSUME SafeInv, NEW s \in Sources, Retire(s)
    PROVE  SafeInv'
<1>1. pc = "retire" /\ UNCHANGED <<upstream, inputs, marker, packs, proofs, process>>
  BY DEF Retire
<1>2. PICK c \in outputs[s] \cap cmanifest.pack[s] : outputs' = [outputs EXCEPT ![s] = @ \ {c}]
  BY DEF Retire
<1>3. DiskType /\ ThreadType /\ Receipted
  BY <1>1, TypeParts DEF SafeInv, MainInv
<1>4. /\ UNCHANGED <<temp, final, marker, gen, staging, compacted, tx, cmanifest, fetched, receipt, pointer>>
      /\ UNCHANGED <<run, pc, pending, denied, wk, plan, written, gate, ledger>>
  BY <1>1 DEF inputs, packs, proofs, process, threads
<1>5. outputs' \in Pack
  BY <1>2, <1>3 DEF DiskType, Pack
<1>6. TypeOK'
  BY <1>1, <1>3, <1>4, <1>5 DEF TypeOK, DiskType, ThreadType
<1>7. ThreadInv' /\ PendingInv'
  BY <1>4 DEF SafeInv, ThreadInv, Fetchers, Holders, PendingInv
<1>8. PackInv' /\ MainInv'
  BY <1>4, ContentsFrame DEF SafeInv, PackInv, MainInv, Receipted
<1>9. ASSUME NEW t \in Sources PROVE SourceInv(t)'
  <2>1. SourceInv(t) /\ wk[t] \in {"idle", "received"}
    BY <1>1, MainAlone DEF SafeInv
  <2>2. FilesOf(t)'
    BY <1>4, <2>1 DEF SourceInv, FilesOf
  <2>3. Receipted'
    BY <1>3, <1>4 DEF Receipted
  <2>4. MarkerOf(t)'
    BY <1>4, <2>1, <2>3 DEF SourceInv, MarkerOf, Whole
  <2>5. WorkOf(t)'
    BY <1>4, <2>1 DEF SourceInv, WorkOf
  <2>6. QED
    BY <2>2, <2>4, <2>5 DEF SourceInv
<1>10. QED
  BY <1>6, <1>7, <1>8, <1>9 DEF SafeInv

-----------------------------------------------------------------------------
(* The invariant holds, and what follows from it.                          *)

LEMMA InitSafe ==
    ASSUME Init
    PROVE  SafeInv
<1> USE DEF Init
<1>1. DiskType
  <2>1. upstream \in [Sources -> Versions]
    BY ConstantsAssumption DEF Versions
  <2>2. temp \in [Sources -> [Runs -> File]] /\ final \in [Sources -> File]
    BY Values
  <2>3. marker \in [Sources -> Marker]
    BY Values
  <2>4. QED
    BY <2>1, <2>2, <2>3, Absences DEF DiskType
<1>2. wk \in [Sources -> WorkerPC] /\ \A s \in Sources : wk[s] = "idle"
  BY DEF Idle, WorkerPC
<1>3. ThreadType
  <2>1. plan \in [Sources -> [attempt : 0..MaxAttempts, ranges : BOOLEAN, version : 0..NumVersions]]
    BY Values
  <2>2. written \in [Sources -> SUBSET Nat]
    OBVIOUS
  <2>3. /\ gate \in 0..FetchLimit /\ ledger \in [workers : 0..WorkerLimit, bytes : Int]
        /\ run \in 0..MaxRuns /\ pc \in MainPC
    BY ConstantsAssumption DEF MainPC
  <2>4. QED
    BY <1>2, <2>1, <2>2, <2>3 DEF ThreadType
<1>4. ThreadInv
  <2>1. "idle" \notin Fetching /\ "idle" \notin Holding
    BY DEF Fetching, Holding
  <2>2. Cardinality(Fetchers) = 0 /\ Cardinality(Holders) = 0
    BY <1>3, <2>1, Threads, NoneMoving
  <2>3. QED
    BY <1>2, <2>2 DEF ThreadInv
<1>5. PackInv
  BY Absences DEF PackInv
<1>6. MainInv /\ PendingInv
  BY DEF MainInv, PendingInv
<1>7. ASSUME NEW s \in Sources PROVE SourceInv(s)
  <2>1. FilesOf(s)
    BY <1>2 DEF FilesOf, Fetching
  <2>2. MarkerOf(s)
    BY DEF MarkerOf
  <2>3. WorkOf(s)
    BY <1>2 DEF WorkOf, Building, Fetching
  <2>4. QED
    BY <2>1, <2>2, <2>3 DEF SourceInv
<1>8. QED
  BY <1>1, <1>3, <1>4, <1>5, <1>6, <1>7, TypeParts DEF SafeInv

LEMMA MainSafe ==
    ASSUME SafeInv, Main
    PROVE  SafeInv'
<1>1. CASE Plan \/ Dispatch \/ Join \/ Dispatched
  BY <1>1, PlanSafe, DispatchSafe, JoinSafe, DispatchedSafe
<1>2. CASE FinalizeFetch \/ WriteManifest \/ Compact \/ Build \/ BuildFails
  BY <1>2, FinalizeFetchSafe, WriteManifestSafe, CompactSafe, BuildSafe, BuildFailsSafe
<1>3. CASE RenameStaging \/ CommitCompaction \/ RemoveTransaction \/ PublishManifest
  BY <1>3, RenameStagingSafe, CommitCompactionSafe, RemoveTransactionSafe, PublishManifestSafe
<1>4. CASE RecordReceipt \/ Retired \/ SelectGeneration \/ Finish
  BY <1>4, RecordReceiptSafe, SelectSafe
<1>5. CASE \E s \in Sources : Sweep(s) \/ Receive(s) \/ Retire(s)
  BY <1>5, SweepSafe, ReceiveSafe, RetireSafe
<1>6. QED
  BY <1>1, <1>2, <1>3, <1>4, <1>5 DEF Main

LEMMA StutterSafe ==
    ASSUME SafeInv, UNCHANGED vars
    PROVE  SafeInv'
<1>1. /\ UNCHANGED <<upstream, temp, final, outputs, marker, gen, staging, compacted, tx, cmanifest,
                     fetched, receipt, pointer>>
      /\ UNCHANGED <<run, pc, pending, denied, wk, plan, written, gate, ledger>>
  BY DEF vars, disk, inputs, layers, packs, proofs, process, threads
<1>2. TypeOK'
  BY <1>1 DEF SafeInv, TypeOK
<1>3. ThreadInv' /\ PendingInv'
  BY <1>1 DEF SafeInv, ThreadInv, Fetchers, Holders, PendingInv
<1>4. PackInv' /\ MainInv'
  BY <1>1, ContentsFrame DEF SafeInv, PackInv, MainInv, Receipted
<1>5. \A t \in Sources : SourceInv(t)'
  BY <1>1, SourceFrame DEF SafeInv, Same
<1>6. QED
  BY <1>2, <1>3, <1>4, <1>5 DEF SafeInv

LEMMA SafeStep ==
    ASSUME SafeInv, [Next]_vars
    PROVE  SafeInv'
  BY StartSafe, KillSafe, MainSafe, RepublishSafe, WorkerSafe, StutterSafe DEF Next

LEMMA SafeHolds == Spec => []SafeInv
<1>1. Init => SafeInv
  BY InitSafe
<1>2. SafeInv /\ [Next]_vars => SafeInv'
  BY SafeStep
<1>3. QED
  BY <1>1, <1>2, PTL DEF Spec

\* The types of the preparation's state hold in every reachable state: in
\* particular the download gate never exceeds its limit and never goes below
\* zero, and the governor's ledger never admits more workers than its limit.
THEOREM SourceTypeCorrect == Spec => []TypeOK
  BY SafeHolds, PTL DEF SafeInv

\* Whatever is killed, fails or is resumed, a source has at most one
\* recoverable input, so adopt_source_download never meets an ambiguity.
THEOREM OneInputHolds == Spec => []OneInput
<1>1. SafeInv => OneInput
  <2> SUFFICES ASSUME SafeInv, NEW s \in Sources
               PROVE  Cardinality(Temps(s)) + (IF final[s] = NoFile THEN 0 ELSE 1) <= 1
    BY DEF OneInput
  <2>1. FilesOf(s)
    BY DEF SafeInv, SourceInv
  <2>2. CASE Temps(s) = {}
    BY <2>2, FS_EmptySet
  <2>3. CASE Temps(s) # {}
    <3>1. PICK r \in Runs : temp[s][r] # NoFile
      BY <2>3 DEF Temps
    <3>2. Temps(s) = {r}
      BY <2>1, <3>1 DEF FilesOf, Temps
    <3>3. Cardinality(Temps(s)) = 1
      BY <3>2, FS_Singleton
    <3>4. final[s] = NoFile
      BY <2>1, <3>1 DEF FilesOf
    <3>5. QED
      BY <3>3, <3>4
  <2>4. QED
    BY <2>2, <2>3
<1>2. QED
  BY <1>1, SafeHolds, PTL

\* What is visible.
LEMMA Visible ==
    ASSUME SafeInv, Receipted \/ pointer
    PROVE  VisibleExact
<1>1. PackInv /\ \A s \in Sources : MarkerOf(s)
  BY DEF SafeInv, SourceInv
<1>2. Receipted /\ gen.schema = 3
  BY <1>1 DEF PackInv, Receipted
<1>3. compacted.open /\ compacted.pack = gen.pack /\ gen.pack = Contents /\ Unmarked = {}
  BY <1>1, <1>2 DEF PackInv
<1>4. ASSUME NEW s \in Sources PROVE Exact(gen.pack[s])
  <2>1. marker[s].src \in Seq(Versions) \ {<<>>}
    BY <1>1, <1>3 DEF MarkerOf, Unmarked
  <2>2. marker[s].src[1] \in Versions
    BY <2>1
  <2>3. gen.pack[s] = Rows(s)
    BY <1>3 DEF Contents
  <2>4. QED
    BY <2>2, <2>3 DEF Exact, Rows
<1>5. QED
  BY <1>3, <1>4 DEF VisibleExact

\* What the receipt or the pointer makes visible holds every source once, whole
\* and of one published version, and the compacted files are exactly that:
\* through kills, retries, a source published again in the middle of a download,
\* failed conversions and a compaction that is resumed at any of its renames.
THEOREM VisibleExactHolds == Spec => []VisibleExact
<1>1. SafeInv => VisibleExact
  BY Visible DEF VisibleExact
<1>2. QED
  BY <1>1, SafeHolds, PTL

-----------------------------------------------------------------------------
(* The preparation implements SnapshotIngest.                              *)

\* The version a source is committed with, from its marker alone.
Version(s) == IF marker[s] = NoMarker THEN 0 ELSE marker[s].src[1]

LEMMA ContentVersion == SafeInv => \A s \in Sources : Content(s) = Version(s)
<1> SUFFICES ASSUME SafeInv, NEW s \in Sources PROVE Content(s) = Version(s)
  OBVIOUS
<1>1. MarkerOf(s) /\ PackInv
  BY DEF SafeInv, SourceInv
<1>2. CASE MarkerValid(s)
  BY <1>2 DEF Content, Version, MarkerValid
<1>3. CASE ~MarkerValid(s) /\ Receipted
  <2>1. marker[s] # NoMarker /\ gen.pack[s] = Rows(s)
    BY <1>1, <1>3 DEF PackInv, Receipted, Unmarked, Contents
  <2>2. marker[s].src[1] \in Versions
    BY <1>1, <2>1 DEF MarkerOf
  <2>3. SizeOf[marker[s].src[1]] \in Nat \ {0}
    BY <2>2, ConstantsAssumption
  <2>4. <<1, marker[s].src[1]>> \in gen.pack[s]
    BY <2>1, <2>3 DEF Rows
  <2>5. \A c \in gen.pack[s] : c[2] = marker[s].src[1]
    BY <2>1 DEF Rows
  <2>6. (CHOOSE c \in gen.pack[s] : TRUE) \in gen.pack[s]
    BY <2>4
  <2>7. QED
    BY <1>3, <2>1, <2>5, <2>6 DEF Content, Version
<1>4. CASE ~MarkerValid(s) /\ ~Receipted
  <2>1. ~Represented(s)
    BY <1>4 DEF Represented
  <2>2. marker[s] = NoMarker
    BY <2>1, RepresentedMarked
  <2>3. QED
    BY <1>4, <2>2 DEF Content, Version
<1>5. QED
  BY <1>2, <1>3, <1>4

LEMMA ContentVersionNext == SafeInv' => \A s \in Sources : Content(s)' = Version(s)'
<1>1. (SafeInv => \A s \in Sources : Content(s) = Version(s))'
  BY ContentVersion, PTL
<1>2. QED
  BY <1>1

\* What a step does to what the readers of the snapshot see.
Keeps == UNCHANGED <<marker, gen, receipt, pointer>>
Commits(s) ==
    /\ marker[s] = NoMarker /\ marker'[s] # NoMarker
    /\ \A t \in Sources : t # s => marker'[t] = marker[t]
    /\ UNCHANGED <<gen, receipt, pointer>>
Seals == Unmarked = {} /\ Receipted' /\ UNCHANGED <<marker, pointer>>
Selects == Receipted /\ Receipted' /\ pointer' \in {pointer, TRUE} /\ UNCHANGED marker
Drafts == ~Receipted /\ ~Receipted' /\ UNCHANGED <<marker, pointer>>

LEMMA WorkerView ==
    ASSUME SafeInv, NEW s \in Sources, Worker(s)
    PROVE  Keeps \/ Commits(s)
<1>1. ASSUME UNCHANGED <<layers, packs, proofs>> PROVE Keeps
  BY <1>1 DEF Keeps, layers, packs, proofs
<1>2. ASSUME UNCHANGED <<marker, packs, proofs>> PROVE Keeps
  BY <1>2 DEF Keeps, packs, proofs
<1>3. CASE Acquire(s) \/ Probe(s) \/ Get(s) \/ Body(s) \/ AttemptFails(s)
  BY <1>1, <1>3 DEF Acquire, Probe, Get, Body, AttemptFails
<1>4. CASE NoHeadroom(s) \/ Refused(s) \/ Land(s) \/ Release(s)
  BY <1>1, <1>4 DEF NoHeadroom, Refused, Land, Release, disk
<1>5. CASE Ingest(s) \/ WriteChunk(s)
  BY <1>2, <1>5 DEF Ingest, WriteChunk
<1>6. CASE ConvertFails(s)
  <2>1. /\ wk[s] = "convert" /\ marker' = [marker EXCEPT ![s] = NoMarker]
        /\ UNCHANGED <<packs, proofs>>
    BY <1>6 DEF ConvertFails
  <2>2. marker[s] = NoMarker
    BY <2>1, Converting
  <2>3. marker' = marker
    BY <2>1, <2>2 DEF SafeInv, TypeOK
  <2>4. QED
    BY <1>2, <2>1, <2>3
<1>7. CASE CommitMarker(s)
  <2> DEFINE m == [src |-> final[s], chunks |-> written[s]]
  <2>1. /\ wk[s] = "convert" /\ marker' = [marker EXCEPT ![s] = m]
        /\ UNCHANGED <<packs, proofs>>
    BY <1>7 DEF CommitMarker
  <2>2. marker[s] = NoMarker /\ final[s] \in Seq(Versions)
    BY <2>1, Converting
  <2>3. m # NoMarker
    BY <2>2, Values DEF NoMarker
  <2> HIDE DEF m
  <2>4. marker'[s] = m /\ \A t \in Sources : t # s => marker'[t] = marker[t]
    BY <2>1 DEF SafeInv, TypeOK
  <2>5. QED
    BY <2>1, <2>2, <2>3, <2>4 DEF Commits, packs, proofs
<1>8. QED
  BY <1>3, <1>4, <1>5, <1>6, <1>7 DEF Worker

LEMMA MainView ==
    ASSUME SafeInv, Main
    PROVE  Keeps \/ Seals \/ Selects \/ Drafts
<1>1. ASSUME UNCHANGED disk PROVE Keeps
  BY <1>1 DEF Keeps, disk, layers, packs, proofs
<1>2. ASSUME UNCHANGED <<layers, gen, proofs>> PROVE Keeps
  BY <1>2 DEF Keeps, layers, proofs
<1>3. PackInv /\ MainInv
  BY DEF SafeInv
<1>4. CASE Plan \/ Dispatch \/ Join \/ Dispatched \/ Retired \/ Finish
  BY <1>1, <1>4 DEF Plan, Dispatch, Join, Dispatched, Retired, Finish
<1>5. CASE FinalizeFetch
  BY <1>5 DEF FinalizeFetch, Keeps, layers, packs
<1>6. CASE Compact \/ Build \/ BuildFails \/ RenameStaging \/ CommitCompaction \/ RemoveTransaction
  BY <1>2, <1>6 DEF Compact, Build, BuildFails, RenameStaging, CommitCompaction, RemoveTransaction
<1>7. CASE WriteManifest
  <2>1. UNCHANGED <<marker, receipt, pointer>>
    BY <1>7 DEF WriteManifest, layers, proofs
  <2>2. gen' = gen \/ (~Receipted /\ gen' = [schema |-> 2, pack |-> outputs])
    BY <1>7 DEF WriteManifest
  <2>3. CASE gen' = gen
    BY <2>1, <2>3 DEF Keeps
  <2>4. CASE ~Receipted /\ gen' = [schema |-> 2, pack |-> outputs]
    <3>1. gen'.schema = 2 /\ receipt'.schema = 0
      BY <1>3, <2>1, <2>4 DEF PackInv
    <3>2. QED
      BY <2>1, <2>4, <3>1 DEF Drafts, Receipted
  <2>5. QED
    BY <2>2, <2>3, <2>4
<1>8. CASE PublishManifest
  <2>1. UNCHANGED <<marker, receipt, pointer>>
    BY <1>8 DEF PublishManifest, layers, proofs
  <2>2. gen' = gen \/ gen.schema = 2
    BY <1>8 DEF PublishManifest
  <2>3. CASE gen' = gen
    BY <2>1, <2>3 DEF Keeps
  <2>4. CASE gen.schema = 2
    <3>1. ~Receipted /\ receipt'.schema = 0
      BY <1>3, <2>1, <2>4 DEF PackInv, Receipted
    <3>2. QED
      BY <2>1, <3>1 DEF Drafts, Receipted
  <2>5. QED
    BY <2>2, <2>3, <2>4
<1>9. CASE RecordReceipt
  <2>1. pc = "receipt" /\ UNCHANGED <<marker, gen, pointer>> /\ receipt' \in {gen, receipt}
    BY <1>9 DEF RecordReceipt, layers, packs
  <2>2. CASE receipt' = receipt
    BY <2>1, <2>2 DEF Keeps
  <2>3. CASE receipt' = gen
    <3>1. gen.schema = 3 /\ Unmarked = {}
      BY <1>3, <2>1 DEF MainInv, PackInv
    <3>2. QED
      BY <2>1, <2>3, <3>1 DEF Seals, Receipted
  <2>4. QED
    BY <2>1, <2>2, <2>3
<1>10. CASE SelectGeneration
  <2>1. pc = "select" /\ UNCHANGED <<marker, gen, receipt>>
    BY <1>10 DEF SelectGeneration, layers, packs
  <2>2. pointer' \in {pointer, TRUE}
    <3>1. pointer \in BOOLEAN
      BY DEF SafeInv, TypeOK
    <3>2. QED
      BY <1>10, <3>1, ConstantsAssumption DEF SelectGeneration
  <2>3. Receipted
    BY <1>3, <2>1 DEF MainInv
  <2>4. QED
    BY <2>1, <2>2, <2>3 DEF Selects, Receipted
<1>11. CASE \E s \in Sources : Sweep(s) \/ Receive(s) \/ Retire(s)
  <2>1. PICK s \in Sources : Sweep(s) \/ Receive(s) \/ Retire(s)
    BY <1>11
  <2>2. CASE Sweep(s) \/ Receive(s)
    BY <1>1, <1>2, <2>2 DEF Sweep, Receive, packs
  <2>3. CASE Retire(s)
    BY <2>3 DEF Retire, Keeps, packs, proofs
  <2>4. QED
    BY <2>1, <2>2, <2>3
<1>12. QED
  BY <1>4, <1>5, <1>6, <1>7, <1>8, <1>9, <1>10, <1>11 DEF Main

LEMMA NextView ==
    ASSUME SafeInv, [Next]_vars
    PROVE  Keeps \/ Seals \/ Selects \/ Drafts \/ \E s \in Sources : Commits(s)
<1>1. ASSUME UNCHANGED disk PROVE Keeps
  BY <1>1 DEF Keeps, disk, layers, packs, proofs
<1>2. CASE Start \/ Kill \/ \E s \in Sources : Republish(s)
  BY <1>1, <1>2 DEF Start, Kill, Republish
<1>3. CASE UNCHANGED vars
  BY <1>1, <1>3 DEF vars
<1>4. CASE \E s \in Sources : Worker(s)
  BY <1>4, WorkerView
<1>5. QED
  BY <1>2, <1>3, <1>4, MainView DEF Next

LEMMA PromiseInit ==
    ASSUME Init
    PROVE  Promise!Init
<1>1. SafeInv
  BY InitSafe
<1>2. \A s \in Sources : Content(s) = 0
  BY <1>1, ContentVersion DEF Init, Version
<1>3. ~Receipted /\ pointer = FALSE
  BY Absences DEF Init, Receipted
<1>4. Receipted = FALSE
  BY <1>3 DEF Receipted
<1>5. [s \in Sources |-> Content(s)] = [s \in 1..NumSources |-> 0]
  BY <1>2 DEF Sources
<1>6. QED
  BY <1>3, <1>4, <1>5 DEF Promise!Init, Promise!Sources, Sources

LEMMA PromiseStep ==
    ASSUME SafeInv, SafeInv', [Next]_vars
    PROVE  [Promise!Next]_<<[s \in Sources |-> Content(s)], Receipted, pointer>>
<1> DEFINE view == [s \in Sources |-> Content(s)]
<1>1. \A s \in Sources : Content(s) = Version(s) /\ Content(s)' = Version(s)'
  BY ContentVersion, ContentVersionNext
<1>2. /\ view = [s \in Sources |-> Version(s)]
      /\ view' = [s \in Sources |-> Version(s)']
  BY <1>1
<1>3. marker' = marker => view' = view
  BY <1>2 DEF Version
<1>4. Receipted \in BOOLEAN /\ Receipted' \in BOOLEAN /\ pointer \in BOOLEAN /\ pointer' \in BOOLEAN
  BY DEF Receipted, SafeInv, TypeOK
<1>5. CASE Keeps
  <2>1. view' = view /\ Receipted' = Receipted /\ pointer' = pointer
    BY <1>3, <1>5 DEF Keeps, Receipted
  <2>2. QED
    BY <2>1
<1>6. CASE Drafts
  <2>1. view' = view /\ Receipted' = Receipted /\ pointer' = pointer
    BY <1>3, <1>4, <1>6 DEF Drafts
  <2>2. QED
    BY <2>1
<1>7. CASE Seals
  <2>1. view' = view /\ Receipted' = TRUE /\ pointer' = pointer
    BY <1>3, <1>4, <1>7 DEF Seals
  <2>2. \A s \in Sources : view[s] # 0
    <3>1. ASSUME NEW s \in Sources PROVE Version(s) # 0
      <4>1. marker[s] # NoMarker /\ MarkerOf(s)
        BY <1>7 DEF Seals, Unmarked, SafeInv, SourceInv
      <4>2. marker[s].src[1] \in Versions
        BY <4>1 DEF MarkerOf
      <4>3. QED
        BY <4>1, <4>2, Values DEF Version
    <3>2. QED
      BY <1>2, <3>1
  <2>3. Promise!Seal
    BY <2>1, <2>2 DEF Promise!Seal, Promise!Sources, Sources
  <2>4. QED
    BY <2>3 DEF Promise!Next
<1>8. CASE Selects
  <2>1. view' = view /\ Receipted /\ Receipted' = Receipted /\ pointer' \in {pointer, TRUE}
    BY <1>3, <1>4, <1>8 DEF Selects
  <2>2. CASE pointer' = pointer
    BY <2>1, <2>2
  <2>3. CASE pointer' = TRUE
    <3>1. Promise!Select
      BY <2>1, <2>3 DEF Promise!Select
    <3>2. QED
      BY <3>1 DEF Promise!Next
  <2>4. QED
    BY <2>1, <2>2, <2>3
<1>9. CASE \E s \in Sources : Commits(s)
  <2>1. PICK s \in Sources : Commits(s)
    BY <1>9
  <2>2. ~Receipted
    BY <2>1, NothingPacked DEF SafeInv, Commits
  <2>3. Receipted' = Receipted /\ pointer' = pointer
    BY <2>1 DEF Commits, Receipted
  <2>4. Version(s)' \in Versions
    <3>1. marker'[s] # NoMarker /\ MarkerOf(s)'
      BY <2>1 DEF Commits, SafeInv, SourceInv
    <3>2. marker'[s].src[1] \in Versions
      BY <3>1 DEF MarkerOf
    <3>3. QED
      BY <3>1, <3>2 DEF Version
  <2>5. view[s] = 0
    BY <1>2, <2>1 DEF Commits, Version
  <2>6. \A t \in Sources : t # s => Version(t)' = Version(t)
    BY <2>1 DEF Commits, Version
  <2> DEFINE v == Version(s)'
  <2>7. view' = [view EXCEPT ![s] = v]
    BY <1>2, <2>6
  <2> HIDE DEF view, v
  <2>8. v \in 1..NumVersions
    BY <2>4 DEF v, Versions
  <2>9. s \in 1..NumSources
    BY DEF Sources
  <2>10. Promise!Commit(s)
    BY <2>2, <2>3, <2>5, <2>7, <2>8 DEF Promise!Commit, view
  <2>11. QED
    BY <2>9, <2>10 DEF Promise!Next, Promise!Sources
<1>10. QED
  BY <1>5, <1>6, <1>7, <1>8, <1>9, NextView

\* The preparation implements SnapshotIngest: every step of it commits one
\* source with one published version, seals the generation after the last
\* commit, selects the sealed one, or changes nothing a reader sees; nothing
\* committed is lost or replaced, whatever the disk and the processes go
\* through, the retirement of the fragments the markers name included.
THEOREM RefinesHolds == Spec => Refines
<1>1. Init => Promise!Init
  BY PromiseInit
<1>2. SafeInv /\ SafeInv' /\ [Next]_vars
        => [Promise!Next]_<<[s \in Sources |-> Content(s)], Receipted, pointer>>
  BY PromiseStep
<1>3. QED
  BY <1>1, <1>2, SafeHolds, PTL DEF Spec, Refines, Promise!Spec

-----------------------------------------------------------------------------
(* The window.                                                             *)

LEMMA Counts ==
    ASSUME NEW S \in SUBSET Sources, NEW T \in SUBSET S
    PROVE  /\ IsFiniteSet(S) /\ Cardinality(S) \in Nat /\ Cardinality(T) \in Nat
           /\ Cardinality(T) <= Cardinality(S)
<1>1. IsFiniteSet(S)
  BY Values, FS_Subset
<1>2. QED
  BY <1>1, FS_Subset, FS_CardinalityType

\* Everything uncommitted up to a source that a worker has is a worker's too.
LEMMA BusyBefore ==
    ASSUME SafeInv, WindowInv, pc \in {"dispatch", "join"}, NEW s \in Sources, wk[s] # "idle"
    PROVE  Cardinality(Before(s)) <= WorkerLimit
<1>1. ASSUME NEW n \in Before(s) PROVE n \in Busy
  <2>1. n \in Unmarked /\ n \in Sources /\ n <= s
    BY <1>1 DEF Before, Unmarked
  <2>2. n \in pending => s < n
    BY DEF WindowInv
  <2>3. n \notin pending
    BY <2>1, <2>2, Values
  <2>4. QED
    BY <2>1, <2>3 DEF WindowInv, Busy
<1>2. Before(s) \in SUBSET Busy /\ Busy \in SUBSET Sources
  BY <1>1 DEF Busy, Unmarked
<1>3. Cardinality(Before(s)) <= Cardinality(Busy)
  BY <1>2, Counts
<1>4. Cardinality(Busy) <= WorkerLimit
  BY DEF WindowInv
<1>5. Cardinality(Before(s)) \in Nat /\ Cardinality(Busy) \in Nat
  BY <1>2, Counts
<1>6. QED
  BY <1>3, <1>4, <1>5, ConstantsAssumption

InputsInWindow == \A s \in Unmarked : HasInput(s) => Cardinality(Before(s)) <= WorkerLimit

\* Only a worker makes an input appear, and a marker never disappears.
LEMMA InputsStep ==
    ASSUME SafeInv, WindowInv, Unmarked' \subseteq Unmarked,
           \A s \in Sources : HasInput(s)' =>
               HasInput(s) \/ (wk[s] # "idle" /\ pc \in {"dispatch", "join"})
    PROVE  InputsInWindow'
<1> SUFFICES ASSUME NEW s \in Unmarked', HasInput(s)'
             PROVE  Cardinality(Before(s)') <= WorkerLimit
  BY DEF InputsInWindow
<1>1. s \in Unmarked /\ s \in Sources
  BY DEF Unmarked
<1>2. Cardinality(Before(s)) <= WorkerLimit
  BY <1>1, BusyBefore DEF WindowInv
<1>3. Before(s)' \in SUBSET Before(s) /\ Before(s) \in SUBSET Sources
  BY DEF Before, Unmarked
<1>4. /\ Cardinality(Before(s)') <= Cardinality(Before(s))
      /\ Cardinality(Before(s)) \in Nat /\ Cardinality(Before(s)') \in Nat
  BY <1>3, Counts
<1>5. QED
  BY <1>2, <1>4, ConstantsAssumption

LEMMA WindowFrame ==
    ASSUME SafeInv, WindowInv, Unmarked' \subseteq Unmarked,
           \/ pc' = pc
           \/ pc' \notin {"dispatch", "join"}
           \/ pc = "dispatch" /\ pc' = "join",
           pc' \in {"dispatch", "join"} =>
               pending' = pending /\ \A t \in Sources : wk'[t] = "idle" <=> wk[t] = "idle",
           pc' = "dispatch" => Active' \subseteq Active,
           \A s \in Sources : HasInput(s)' =>
               HasInput(s) \/ (wk[s] # "idle" /\ pc \in {"dispatch", "join"})
    PROVE  WindowInv'
<1>1. InputsInWindow'
  BY InputsStep
<1>2. ASSUME pc' \in {"dispatch", "join"}
      PROVE  /\ \A s \in Unmarked' : s \in pending' \/ wk'[s] # "idle"
             /\ \A p \in pending', s \in Sources : wk'[s] # "idle" => s < p
             /\ Cardinality(Busy') <= WorkerLimit
  <2>1. pc \in {"dispatch", "join"} /\ pending' = pending
    BY <1>2
  <2>2. \A t \in Sources : wk'[t] = "idle" <=> wk[t] = "idle"
    BY <1>2
  <2>3. \A s \in Unmarked' : s \in pending' \/ wk'[s] # "idle"
    BY <2>1, <2>2 DEF WindowInv, Unmarked
  <2>4. \A p \in pending', s \in Sources : wk'[s] # "idle" => s < p
    BY <2>1, <2>2 DEF WindowInv
  <2>5. Busy' \in SUBSET Busy /\ Busy \in SUBSET Sources
    BY <2>2 DEF Busy, Unmarked
  <2>6. /\ Cardinality(Busy') <= Cardinality(Busy)
        /\ Cardinality(Busy) \in Nat /\ Cardinality(Busy') \in Nat
    BY <2>5, Counts
  <2>7. Cardinality(Busy) <= WorkerLimit
    BY <2>1 DEF WindowInv
  <2>8. Cardinality(Busy') <= WorkerLimit
    BY <2>6, <2>7, ConstantsAssumption
  <2>9. QED
    BY <2>3, <2>4, <2>8
<1>3. ASSUME pc' = "dispatch" PROVE Cardinality(Active') <= WorkerLimit
  <2>1. Active' \in SUBSET Active /\ Active \in SUBSET Sources
    BY <1>3 DEF Active
  <2>2. /\ Cardinality(Active') <= Cardinality(Active)
        /\ Cardinality(Active) \in Nat /\ Cardinality(Active') \in Nat
    BY <2>1, Counts
  <2>3. Cardinality(Active) <= WorkerLimit
    BY <1>3 DEF WindowInv
  <2>4. QED
    BY <2>2, <2>3, ConstantsAssumption
<1>4. QED
  BY <1>1, <1>2, <1>3 DEF WindowInv, InputsInWindow

\* A step of a worker: it goes on or ends, and touches its own files only.
Works(s) ==
    /\ wk[s] \notin {"idle", "received"}
    /\ \E x \in WorkerPC \ {"idle", "received"} : wk' = [wk EXCEPT ![s] = x]
    /\ UNCHANGED <<pc, pending>>
    /\ \A t \in Sources : t # s => temp'[t] = temp[t] /\ final'[t] = final[t]

LEMMA WorkerFrame ==
    ASSUME SafeInv, NEW s \in Sources, Worker(s)
    PROVE  Works(s)
<1>1. temp \in [Sources -> [Runs -> File]] /\ final \in [Sources -> File]
      /\ wk \in [Sources -> WorkerPC]
  BY DEF SafeInv, TypeOK
<1>2. ASSUME NEW x \in {"ok", "err"}, Return(s, x)
      PROVE  /\ \E y \in WorkerPC \ {"idle", "received"} : wk' = [wk EXCEPT ![s] = y]
             /\ UNCHANGED <<pc, pending>>
  BY <1>2 DEF Return, WorkerPC
<1>3. \A f : temp' = [temp EXCEPT ![s][run] = f] => \A t \in Sources : t # s => temp'[t] = temp[t]
  BY <1>1
<1>4. \A f : temp' = [temp EXCEPT ![s] = f] => \A t \in Sources : t # s => temp'[t] = temp[t]
  BY <1>1
<1>5. \A f : final' = [final EXCEPT ![s] = f] => \A t \in Sources : t # s => final'[t] = final[t]
  BY <1>1
<1>6. CASE Acquire(s)
  <2>1. wk[s] = "gate"
    BY <1>6 DEF Acquire
  <2>2. CASE Return(s, "err") /\ UNCHANGED inputs
    BY <1>2, <2>1, <2>2 DEF Works, inputs
  <2>3. CASE /\ \E f : temp' = [temp EXCEPT ![s] = f]
             /\ final' = [final EXCEPT ![s] = NoFile]
             /\ wk' = [wk EXCEPT ![s] = "probe"] /\ UNCHANGED <<pc, pending>>
    BY <1>4, <1>5, <2>1, <2>3 DEF Works, WorkerPC
  <2>4. QED
    BY <1>6, <2>2, <2>3 DEF Acquire
<1>7. CASE NoHeadroom(s)
  BY <1>2, <1>7 DEF NoHeadroom, Works, disk, inputs
<1>8. CASE Probe(s)
  <2>1. /\ wk[s] = "probe" /\ UNCHANGED <<final, pc, pending>>
        /\ temp' = temp \/ temp' = [temp EXCEPT ![s][run] = NoFile]
        /\ wk' = [wk EXCEPT ![s] = "landed"] \/ wk' = [wk EXCEPT ![s] = "get"]
    BY <1>8 DEF Probe
  <2>2. QED
    BY <1>3, <2>1 DEF Works, WorkerPC
<1>9. CASE Get(s)
  <2>1. /\ wk[s] = "get" /\ UNCHANGED <<final, pc, pending>>
        /\ temp' = temp \/ temp' = [temp EXCEPT ![s][run] = <<>>]
        /\ wk' = [wk EXCEPT ![s] = "body"]
    BY <1>9 DEF Get
  <2>2. QED
    BY <1>3, <2>1 DEF Works, WorkerPC
<1>10. CASE Body(s)
  <2>1. /\ wk[s] = "body" /\ UNCHANGED <<final, pc, pending>>
        /\ \E f : temp' = [temp EXCEPT ![s][run] = f]
        /\ wk' = [wk EXCEPT ![s] = "landed"] \/ wk' = [wk EXCEPT ![s] = "body"]
    BY <1>10 DEF Body
  <2>2. QED
    BY <1>3, <2>1 DEF Works, WorkerPC
<1>11. CASE AttemptFails(s) \/ Refused(s)
  <2>1. /\ wk[s] \in {"get", "body"} /\ UNCHANGED final
        /\ temp' = temp \/ temp' = [temp EXCEPT ![s][run] = NoFile]
        /\ Return(s, "err") \/ (wk' = [wk EXCEPT ![s] = "get"] /\ UNCHANGED <<pc, pending>>)
    BY <1>11 DEF AttemptFails, Refused, FetchError
  <2>2. \A t \in Sources : t # s => temp'[t] = temp[t] /\ final'[t] = final[t]
    BY <1>3, <2>1
  <2>3. /\ \E y \in WorkerPC \ {"idle", "received"} : wk' = [wk EXCEPT ![s] = y]
        /\ UNCHANGED <<pc, pending>>
    BY <1>2, <2>1 DEF WorkerPC
  <2>4. QED
    BY <2>1, <2>2, <2>3 DEF Works
<1>12. CASE Land(s)
  <2>1. /\ wk[s] = "landed" /\ UNCHANGED <<pc, pending>>
        /\ \E f : final' = [final EXCEPT ![s] = f]
        /\ temp' = [temp EXCEPT ![s][run] = NoFile]
        /\ wk' = [wk EXCEPT ![s] = "ingest"]
    BY <1>12 DEF Land
  <2>2. QED
    BY <1>3, <1>5, <2>1 DEF Works, WorkerPC
<1>13. CASE Ingest(s)
  <2>1. wk[s] = "ingest" /\ UNCHANGED inputs
    BY <1>13 DEF Ingest
  <2>2. \/ Return(s, "err")
        \/ /\ wk' = [wk EXCEPT ![s] = "release"] \/ wk' = [wk EXCEPT ![s] = "convert"]
           /\ UNCHANGED <<pc, pending>>
    BY <1>13 DEF Ingest
  <2>3. /\ \E y \in WorkerPC \ {"idle", "received"} : wk' = [wk EXCEPT ![s] = y]
        /\ UNCHANGED <<pc, pending>>
    BY <1>2, <2>2 DEF WorkerPC
  <2>4. QED
    BY <2>1, <2>3 DEF Works, inputs
<1>14. CASE WriteChunk(s)
  <2>1. wk[s] = "convert" /\ UNCHANGED <<inputs, wk, pc, pending>>
    BY <1>14 DEF WriteChunk
  <2>2. wk' = [wk EXCEPT ![s] = "convert"]
    BY <1>1, <2>1
  <2>3. QED
    BY <2>1, <2>2 DEF Works, inputs, WorkerPC
<1>15. CASE ConvertFails(s)
  BY <1>2, <1>15 DEF ConvertFails, Works, inputs
<1>16. CASE CommitMarker(s)
  BY <1>16 DEF CommitMarker, Works, inputs, WorkerPC
<1>17. CASE Release(s)
  <2>1. /\ wk[s] = "release" /\ temp' = temp
        /\ final' = final \/ final' = [final EXCEPT ![s] = NoFile]
        /\ Return(s, "ok") \/ Return(s, "err")
    BY <1>17 DEF Release
  <2>2. QED
    BY <1>2, <1>5, <2>1 DEF Works
<1>18. QED
  BY <1>6, <1>7, <1>8, <1>9, <1>10, <1>11, <1>12, <1>13, <1>14, <1>15, <1>16, <1>17 DEF Worker

LEMMA WorkerWindow ==
    ASSUME SafeInv, WindowInv, Unmarked' \subseteq Unmarked, NEW s \in Sources, Worker(s)
    PROVE  WindowInv'
<1>1. Works(s) /\ wk \in [Sources -> WorkerPC]
  BY WorkerFrame DEF SafeInv, TypeOK
<1>2. PICK x \in WorkerPC \ {"idle", "received"} : wk' = [wk EXCEPT ![s] = x]
  BY <1>1 DEF Works
<1>3. /\ wk'[s] \notin {"idle", "received"} /\ wk[s] \notin {"idle", "received"}
      /\ \A t \in Sources : t # s => wk'[t] = wk[t]
  BY <1>1, <1>2 DEF Works
<1>4. \A t \in Sources : wk'[t] = "idle" <=> wk[t] = "idle"
  BY <1>3
<1>5. Active' \subseteq Active
  BY <1>3 DEF Active
<1>6. pc' = pc /\ pending' = pending /\ pc \in {"dispatch", "join"}
  BY <1>1, <1>3, WorkerRuns DEF Works
<1>7. \A t \in Sources : HasInput(t)' => HasInput(t) \/ (wk[t] # "idle" /\ pc \in {"dispatch", "join"})
  BY <1>1, <1>3, <1>6 DEF Works, HasInput
<1>8. QED
  BY <1>4, <1>5, <1>6, <1>7, WindowFrame

\* A step that leaves the inputs alone, outside the dispatch.
LEMMA QuietWindow ==
    ASSUME SafeInv, WindowInv, Unmarked' \subseteq Unmarked,
           pc' \notin {"dispatch", "join"}, UNCHANGED inputs
    PROVE  WindowInv'
<1>1. \A t \in Sources : HasInput(t)' => HasInput(t)
  BY DEF HasInput, inputs
<1>2. QED
  BY <1>1, WindowFrame

LEMMA PlanWindow ==
    ASSUME SafeInv, SafeInv', WindowInv, Unmarked' \subseteq Unmarked, Plan
    PROVE  WindowInv'
<1> DEFINE todo == {s \in Sources : ~Represented(s)}
<1>1. pc = "sweep" /\ UNCHANGED <<inputs, marker>>
  BY DEF Plan, disk, layers
<1>2. CASE Exit
  BY <1>1, <1>2, QuietWindow DEF Exit
<1>3. CASE pending' = todo /\ pc' = "dispatch" /\ UNCHANGED threads
  <2>1. todo = Unmarked /\ Unmarked' = Unmarked
    BY <1>1, RepresentedMarked DEF Unmarked
  <2>2. \A s \in Sources : wk'[s] = "idle"
    BY <1>1, <1>3 DEF SafeInv, ThreadInv, threads
  <2>3. \A t \in Sources : HasInput(t)' => HasInput(t)
    BY <1>1 DEF HasInput, inputs
  <2>4. InputsInWindow'
    BY <2>3, InputsStep
  <2>5. Busy' = {} /\ Active' = {}
    BY <2>2 DEF Busy, Active, Unmarked
  <2>6. Cardinality({}) = 0 /\ 0 <= WorkerLimit
    BY FS_EmptySet, ConstantsAssumption
  <2>7. Cardinality(Busy') <= WorkerLimit /\ Cardinality(Active') <= WorkerLimit
    BY <2>5, <2>6
  <2>8. \A s \in Unmarked' : s \in pending' \/ wk'[s] # "idle"
    BY <1>3, <2>1
  <2>9. \A p \in pending', s \in Sources : wk'[s] # "idle" => s < p
    BY <2>2
  <2>10. QED
    BY <2>4, <2>7, <2>8, <2>9 DEF WindowInv, InputsInWindow
<1>4. QED
  BY <1>2, <1>3 DEF Plan

LEMMA DispatchWindow ==
    ASSUME SafeInv, SafeInv', WindowInv, Unmarked' \subseteq Unmarked, Dispatch
    PROVE  WindowInv'
<1>1. /\ pc = "dispatch" /\ pending # {} /\ Cardinality(Active) < WorkerLimit
      /\ UNCHANGED <<inputs, marker>>
  BY DEF Dispatch, disk, layers
<1>2. /\ pending \in SUBSET Sources /\ pending \in SUBSET Nat
      /\ wk \in [Sources -> WorkerPC]
  BY Values DEF SafeInv, TypeOK
<1>3. /\ Min(pending) \in pending /\ \A k \in pending : Min(pending) <= k
  BY <1>1, <1>2, MinOf
<1>4. PICK s \in Sources : s = Min(pending) /\ s \in pending
  BY <1>2, <1>3
<1>5. \A k \in pending : s <= k
  BY <1>3, <1>4
<1>6. \A t \in Sources : HasInput(t)' => HasInput(t)
  BY <1>1 DEF HasInput, inputs
<1>7. CASE Exit
  BY <1>1, <1>7, QuietWindow DEF Exit
<1>8. CASE UNCHANGED <<run, pc, pending, threads>>
  <2>1. UNCHANGED <<pc, pending, wk>> /\ Active' = Active
    BY <1>8 DEF threads, Active
  <2>2. QED
    BY <1>6, <2>1, WindowFrame
<1>9. CASE pending' = pending \ {s} /\ wk' = [wk EXCEPT ![s] = "gate"] /\ pc' = pc
  <2>1. wk'[s] = "gate" /\ \A t \in Sources : t # s => wk'[t] = wk[t]
    BY <1>2, <1>9
  <2>2. wk[s] = "idle"
    BY <1>1, <1>4 DEF SafeInv, PendingInv
  <2>3. Active' = Active \cup {s} /\ s \notin Active
    BY <2>1, <2>2 DEF Active
  <2>4. IsFiniteSet(Active) /\ Cardinality(Active) \in Nat
    BY Counts DEF Active
  <2>5. Cardinality(Active') = Cardinality(Active) + 1
    BY <2>3, <2>4, FS_AddElement
  <2>6. Cardinality(Active') <= WorkerLimit
    BY <1>1, <2>4, <2>5, ConstantsAssumption
  <2>7. Busy' \in SUBSET (Active') /\ Active' \in SUBSET Sources
    <3>1. ASSUME NEW t \in Sources, marker'[t] = NoMarker, wk'[t] # "idle"
          PROVE  wk'[t] # "received"
      BY <1>1, <1>9, <3>1 DEF SafeInv, SourceInv, WorkOf
    <3>2. QED
      BY <3>1 DEF Busy, Unmarked, Active
  <2>8. /\ Cardinality(Busy') <= Cardinality(Active')
        /\ Cardinality(Busy') \in Nat /\ Cardinality(Active') \in Nat
    BY <2>7, Counts
  <2>9. Cardinality(Busy') <= WorkerLimit
    BY <2>6, <2>8, ConstantsAssumption
  <2>10. \A n \in Unmarked' : n \in pending' \/ wk'[n] # "idle"
    BY <1>1, <1>9, <2>1 DEF WindowInv, Unmarked
  <2>11. \A p \in pending', n \in Sources : wk'[n] # "idle" => n < p
    <3>1. ASSUME NEW p \in pending' PROVE p \in pending /\ p # s /\ s < p
      BY <1>2, <1>5, <1>9, Values
    <3>2. QED
      BY <1>1, <2>1, <3>1 DEF WindowInv
  <2>12. InputsInWindow'
    BY <1>6, InputsStep
  <2>13. QED
    BY <2>6, <2>9, <2>10, <2>11, <2>12 DEF WindowInv, InputsInWindow
<1>10. QED
  BY <1>4, <1>7, <1>8, <1>9 DEF Dispatch

LEMMA ReceiveWindow ==
    ASSUME SafeInv, WindowInv, Unmarked' \subseteq Unmarked, NEW s \in Sources, Receive(s)
    PROVE  WindowInv'
<1>1. /\ pc = "dispatch" /\ pc' \in {pc, "join"} /\ wk[s] \in {"ok", "err"}
      /\ wk' = [wk EXCEPT ![s] = "received"] /\ pending' = pending /\ UNCHANGED inputs
  BY DEF Receive, disk
<1>2. wk'[s] = "received" /\ \A t \in Sources : t # s => wk'[t] = wk[t]
  BY <1>1 DEF SafeInv, TypeOK
<1>3. \A t \in Sources : wk'[t] = "idle" <=> wk[t] = "idle"
  BY <1>1, <1>2
<1>4. Active' \subseteq Active
  BY <1>2 DEF Active
<1>5. \A t \in Sources : HasInput(t)' => HasInput(t)
  BY <1>1 DEF HasInput, inputs
<1>6. QED
  BY <1>1, <1>3, <1>4, <1>5, WindowFrame

LEMMA SweepWindow ==
    ASSUME SafeInv, WindowInv, Unmarked' \subseteq Unmarked, NEW s \in Sources, Sweep(s)
    PROVE  WindowInv'
<1> DEFINE none == [r \in Runs |-> NoFile]
<1>1. /\ pc \in {"sweep", "tidy"} /\ pc' = pc /\ temp' = [temp EXCEPT ![s] = none]
      /\ final' = [final EXCEPT ![s] = NoFile]
  BY DEF Sweep, process
<1>2. temp \in [Sources -> [Runs -> File]] /\ final \in [Sources -> File]
  BY DEF SafeInv, TypeOK
<1>3. \A r \in Runs : none[r] = NoFile
  OBVIOUS
<1> HIDE DEF none
<1>4. /\ temp'[s] = none /\ final'[s] = NoFile
      /\ \A t \in Sources : t # s => temp'[t] = temp[t] /\ final'[t] = final[t]
  BY <1>1, <1>2
<1>5. \A t \in Sources : HasInput(t)' => HasInput(t)
  BY <1>3, <1>4 DEF HasInput
<1>6. QED
  BY <1>1, <1>5, WindowFrame

LEMMA MainWindow ==
    ASSUME SafeInv, SafeInv', WindowInv, Unmarked' \subseteq Unmarked, Main
    PROVE  WindowInv'
<1>1. ASSUME Exit PROVE pc' \notin {"dispatch", "join"}
  BY <1>1 DEF Exit
<1>2. ASSUME NEW x \in {"manifest", "select", "receipt", "compact", "publish", "rename", "commit",
                        "build", "settle", "retire", "tidy", "done"}, Goto(x)
      PROVE  pc' \notin {"dispatch", "join"}
  BY <1>2 DEF Goto
<1>3. CASE Join \/ Dispatched \/ Retired \/ Finish \/ SelectGeneration
  <2>1. UNCHANGED inputs
    BY <1>3 DEF Join, Dispatched, Retired, Finish, SelectGeneration, disk
  <2>2. pc' \notin {"dispatch", "join"}
    BY <1>1, <1>2, <1>3 DEF Join, Dispatched, Retired, Finish, SelectGeneration
  <2>3. QED
    BY <2>1, <2>2, QuietWindow
<1>4. CASE FinalizeFetch \/ WriteManifest \/ PublishManifest \/ RecordReceipt
  <2>1. UNCHANGED inputs
    BY <1>4 DEF FinalizeFetch, WriteManifest, PublishManifest, RecordReceipt
  <2>2. pc' \notin {"dispatch", "join"}
    BY <1>1, <1>2, <1>4 DEF FinalizeFetch, WriteManifest, PublishManifest, RecordReceipt
  <2>3. QED
    BY <2>1, <2>2, QuietWindow
<1>5. CASE Compact \/ Build \/ BuildFails \/ RenameStaging \/ CommitCompaction \/ RemoveTransaction
  <2>1. UNCHANGED inputs
    BY <1>5 DEF Compact, Build, BuildFails, RenameStaging, CommitCompaction, RemoveTransaction
  <2>2. pc' \notin {"dispatch", "join"}
    BY <1>1, <1>2, <1>5
       DEF Compact, Build, BuildFails, RenameStaging, CommitCompaction, RemoveTransaction
  <2>3. QED
    BY <2>1, <2>2, QuietWindow
<1>6. CASE \E s \in Sources : Retire(s)
  <2>1. UNCHANGED inputs /\ pc' = "retire"
    BY <1>6 DEF Retire, process
  <2>2. QED
    BY <2>1, QuietWindow
<1>7. CASE \E s \in Sources : Sweep(s) \/ Receive(s)
  BY <1>7, SweepWindow, ReceiveWindow
<1>8. QED
  BY <1>3, <1>4, <1>5, <1>6, <1>7, PlanWindow, DispatchWindow DEF Main

LEMMA WindowStep ==
    ASSUME SafeInv, SafeInv', WindowInv, [Next]_vars
    PROVE  WindowInv'
<1>1. Unmarked' \subseteq Unmarked
  BY NextView DEF Keeps, Seals, Selects, Drafts, Commits, Unmarked
<1>2. CASE Start \/ Kill
  <2>1. UNCHANGED inputs /\ pc' \notin {"dispatch", "join"}
    BY <1>2 DEF Start, Kill, Exit, disk
  <2>2. QED
    BY <1>1, <2>1, QuietWindow
<1>3. CASE UNCHANGED vars \/ \E s \in Sources : Republish(s)
  <2>1. UNCHANGED <<inputs, pc, pending, wk>>
    BY <1>3 DEF vars, Republish, disk, process, threads
  <2>2. Active' = Active /\ \A t \in Sources : HasInput(t)' => HasInput(t)
    BY <2>1 DEF Active, HasInput, inputs
  <2>3. QED
    BY <1>1, <2>1, <2>2, WindowFrame
<1>4. CASE \E s \in Sources : Worker(s)
  BY <1>1, <1>4, WorkerWindow
<1>5. QED
  BY <1>1, <1>2, <1>3, <1>4, MainWindow DEF Next

LEMMA WindowHolds == Spec => [](SafeInv /\ WindowInv)
<1>1. Init => WindowInv
  <2> SUFFICES ASSUME Init PROVE WindowInv
    OBVIOUS
  <2>1. pc = "off" /\ \A s \in Sources : ~HasInput(s)
    BY DEF Init, HasInput
  <2>2. QED
    BY <2>1 DEF WindowInv, Unmarked
<1>2. SafeInv /\ SafeInv' /\ WindowInv /\ [Next]_vars => WindowInv'
  BY WindowStep
<1>3. QED
  BY <1>1, <1>2, SafeHolds, PTL DEF Spec

\* The compressed inputs that no commit covers never exceed the window, however
\* many processes are killed with however many workers busy: each later process
\* dispatches in plan order and takes the leftovers of the earlier ones first.
THEOREM StagingBoundedHolds == Spec => []StagingBounded
<1>1. SafeInv /\ WindowInv => StagingBounded
  <2> SUFFICES ASSUME SafeInv, WindowInv PROVE StagingBounded
    OBVIOUS
  <2> DEFINE X == {s \in Sources : HasInput(s) /\ ~Represented(s)}
  <2>1. \A s \in X : s \in Unmarked /\ HasInput(s)
    BY RepresentedMarked DEF Unmarked
  <2>2. X \in SUBSET Sources /\ X \in SUBSET Nat /\ \A k \in X : k <= NumSources
    BY Values, ConstantsAssumption DEF Sources
  <2> HIDE DEF X
  <2>3. CASE X = {}
    <3>1. Cardinality(X) = 0
      BY <2>3, FS_EmptySet
    <3>2. Cardinality(X) <= WorkerLimit
      BY <3>1, ConstantsAssumption
    <3>3. QED
      BY <3>2 DEF StagingBounded, X
  <2>4. CASE X # {}
    <3>1. PICK m \in X : \A k \in X : k <= m
      BY <2>2, <2>4, LargestNat, ConstantsAssumption
    <3>2. Cardinality(Before(m)) <= WorkerLimit
      BY <2>1, <3>1 DEF WindowInv
    <3>3. X \in SUBSET Before(m) /\ Before(m) \in SUBSET Sources
      BY <2>1, <3>1 DEF Before, Unmarked
    <3>4. /\ Cardinality(X) <= Cardinality(Before(m))
          /\ Cardinality(X) \in Nat /\ Cardinality(Before(m)) \in Nat
      BY <3>3, Counts
    <3>5. Cardinality(X) <= WorkerLimit
      BY <3>2, <3>4, ConstantsAssumption
    <3>6. QED
      BY <3>5 DEF StagingBounded, X
  <2>5. QED
    BY <2>3, <2>4
<1>2. QED
  BY <1>1, WindowHolds, PTL

-----------------------------------------------------------------------------
(* The ledger of the resource governor.                                    *)

\* The bytes the sources of S reserve, one by one.
Bytes(S) == UNION {{s} \X (1..Estimate[s]) : s \in S}

\* They grow by its estimate with each source.
LEMMA BytesStep ==
    ASSUME NEW S \in SUBSET Sources
    PROVE  /\ IsFiniteSet(Bytes(S)) /\ Cardinality(Bytes(S)) \in Nat
           /\ S = {} => Cardinality(Bytes(S)) = 0
           /\ \A s \in S : Cardinality(Bytes(S)) = Estimate[s] + Cardinality(Bytes(S \ {s}))
<1>1. ASSUME NEW s \in Sources
      PROVE  /\ IsFiniteSet({s} \X (1..Estimate[s]))
             /\ Cardinality({s} \X (1..Estimate[s])) = Estimate[s]
  <2>1. Estimate[s] \in Nat
    BY ConstantsAssumption
  <2>2. IsFiniteSet(1..Estimate[s]) /\ Cardinality(1..Estimate[s]) = Estimate[s]
    BY <2>1, FS_Interval
  <2>3. IsFiniteSet({s}) /\ Cardinality({s}) = 1
    BY FS_Singleton
  <2>4. /\ IsFiniteSet({s} \X (1..Estimate[s]))
        /\ Cardinality({s} \X (1..Estimate[s])) = Cardinality({s}) * Cardinality(1..Estimate[s])
    BY <2>2, <2>3, FS_Product
  <2>5. QED
    BY <2>1, <2>2, <2>3, <2>4
<1>2. ASSUME NEW U \in SUBSET Sources PROVE IsFiniteSet(Bytes(U)) /\ Cardinality(Bytes(U)) \in Nat
  <2>1. IsFiniteSet(U)
    BY FS_Subset, Values
  <2> DEFINE T == {{s} \X (1..Estimate[s]) : s \in U}
             f == [s \in U |-> {s} \X (1..Estimate[s])]
  <2>2. IsFiniteSet(T)
    <3>1. f \in Surjection(U, T)
      BY DEF Surjection
    <3>2. QED
      BY <2>1, <3>1, FS_Surjection
  <2>3. IsFiniteSet(Bytes(U))
    BY <1>1, <2>2, FS_UNION DEF Bytes
  <2>4. QED
    BY <2>3, FS_CardinalityType
<1>3. ASSUME S = {} PROVE Cardinality(Bytes(S)) = 0
  <2>1. Bytes(S) = {}
    BY <1>3 DEF Bytes
  <2>2. QED
    BY <2>1, FS_EmptySet
<1>4. ASSUME NEW s \in S
      PROVE  Cardinality(Bytes(S)) = Estimate[s] + Cardinality(Bytes(S \ {s}))
  <2> DEFINE A == Bytes(S \ {s})
             B == {s} \X (1..Estimate[s])
  <2>1. Bytes(S) = A \cup B
    BY DEF Bytes
  <2>2. A \cap B = {}
    BY DEF Bytes
  <2>3. /\ IsFiniteSet(A) /\ Cardinality(A) \in Nat
        /\ IsFiniteSet(B) /\ Cardinality(B) = Estimate[s] /\ Estimate[s] \in Nat
    BY <1>1, <1>2, ConstantsAssumption
  <2> HIDE DEF A, B
  <2>4. Cardinality(A \cup B) = Cardinality(A) + Cardinality(B)
    <3>1. Cardinality(A \cup B) = Cardinality(A) + Cardinality(B) - Cardinality(A \cap B)
      BY <2>3, FS_Union
    <3>2. Cardinality(A \cap B) = 0
      BY <2>2, FS_EmptySet
    <3>3. QED
      BY <2>3, <3>1, <3>2
  <2>5. Cardinality(Bytes(S)) = Estimate[s] + Cardinality(A)
    BY <2>1, <2>3, <2>4
  <2>6. QED
    BY <2>5 DEF A
<1>5. QED
  BY <1>2, <1>3, <1>4

\* What Demand is: the fold's recursive function, applied to the whole set.
Pick(S) == CHOOSE s \in S : TRUE
Sums(f, S) ==
    f = [U \in SUBSET S |-> IF U = {} THEN 0 ELSE Estimate[Pick(U)] + f[U \ {Pick(U)}]]

LEMMA DemandFold ==
    ASSUME NEW S
    PROVE  Demand(S) = (CHOOSE f : Sums(f, S))[S]
BY DEF Demand, MapThenSumSet, MapThenFoldSet, Sums, Pick

\* A function that sums so counts these bytes: of the sets it is wrong about a
\* smallest one would be wrong without one of its elements.
LEMMA SumsOnce ==
    ASSUME NEW S \in SUBSET Sources, NEW f, Sums(f, S)
    PROVE  f[S] = Cardinality(Bytes(S))
<1> DEFINE Wrong == {U \in SUBSET S : f[U] # Cardinality(Bytes(U))}
           Sizes == {Cardinality(U) : U \in Wrong}
<1>1. ASSUME NEW U \in SUBSET S
      PROVE  /\ U = {} => f[U] = 0
             /\ U # {} => Pick(U) \in U /\ f[U] = Estimate[Pick(U)] + f[U \ {Pick(U)}]
  BY DEF Sums, Pick
<1>2. ASSUME NEW U \in SUBSET S PROVE IsFiniteSet(U) /\ Cardinality(U) \in Nat
  BY FS_Subset, FS_CardinalityType, Values
<1>3. Sizes \in SUBSET Nat
  BY <1>2
<1>4. ASSUME NEW U \in Wrong, \A W \in Wrong : Cardinality(U) <= Cardinality(W) PROVE FALSE
  <2> DEFINE s == Pick(U)
             W == U \ {s}
  <2>1. U \in SUBSET S /\ U \in SUBSET Sources
    OBVIOUS
  <2>2. U # {}
    BY <1>1, <2>1, BytesStep
  <2>3. s \in U /\ f[U] = Estimate[s] + f[W] /\ W \in SUBSET S
    BY <1>1, <2>1, <2>2
  <2>4. Cardinality(W) = Cardinality(U) - 1
    BY <1>2, <2>1, <2>3, FS_RemoveElement
  <2>5. W \notin Wrong
    BY <1>2, <1>4, <2>1, <2>3, <2>4
  <2>6. f[W] = Cardinality(Bytes(W))
    BY <2>3, <2>5
  <2>7. Cardinality(Bytes(U)) = Estimate[s] + Cardinality(Bytes(W))
    BY <2>1, <2>3, BytesStep
  <2>8. QED
    BY <1>4, <2>3, <2>6, <2>7
<1>5. CASE Wrong # {}
  <2>1. Sizes # {}
    BY <1>5
  <2>2. PICK m \in Sizes : \A k \in Sizes : m <= k
    BY <1>3, <2>1, SmallestNat
  <2>3. PICK U \in Wrong : m = Cardinality(U)
    BY <2>2
  <2>4. \A W \in Wrong : Cardinality(U) <= Cardinality(W)
    BY <2>2, <2>3
  <2>5. QED
    BY <1>4, <2>4
<1>6. CASE Wrong = {}
  <2>1. S \in SUBSET S
    OBVIOUS
  <2>2. QED
    BY <1>6, <2>1
<1>7. QED
  BY <1>5, <1>6

LEMMA SumsExists ==
    ASSUME NEW S \in SUBSET Sources
    PROVE  \E f : Sums(f, S)
<1> DEFINE f == [U \in SUBSET S |-> Cardinality(Bytes(U))]
           g == [U \in SUBSET S |-> IF U = {} THEN 0
                                    ELSE Estimate[Pick(U)] + f[U \ {Pick(U)}]]
<1>1. ASSUME NEW U \in SUBSET S PROVE f[U] = g[U]
  <2>1. U \in SUBSET Sources
    OBVIOUS
  <2>2. CASE U = {}
    BY <2>1, <2>2, BytesStep
  <2>3. CASE U # {}
    <3>1. Pick(U) \in U /\ U \ {Pick(U)} \in SUBSET S
      BY <2>3 DEF Pick
    <3>2. Cardinality(Bytes(U)) = Estimate[Pick(U)] + Cardinality(Bytes(U \ {Pick(U)}))
      BY <2>1, <3>1, BytesStep
    <3>3. QED
      BY <2>3, <3>1, <3>2
  <2>4. QED
    BY <2>2, <2>3
<1>2. f = g
  BY <1>1
<1>3. Sums(f, S)
  BY <1>2 DEF Sums
<1>4. QED
  BY <1>3

\* The sum of the estimates, by what it counts.
LEMMA DemandCounts ==
    ASSUME NEW S \in SUBSET Sources
    PROVE  Demand(S) = Cardinality(Bytes(S))
<1> DEFINE f == CHOOSE f : Sums(f, S)
<1>1. Sums(f, S)
  BY SumsExists
<1>2. Demand(S) = f[S]
  BY DemandFold
<1> HIDE DEF f
<1>3. QED
  BY <1>1, <1>2, SumsOnce

LEMMA DemandStep ==
    ASSUME NEW S \in SUBSET Sources
    PROVE  /\ Demand(S) \in Nat
           /\ S = {} => Demand(S) = 0
           /\ \A s \in S : Demand(S) = Estimate[s] + Demand(S \ {s})
<1>1. ASSUME NEW s \in S PROVE Demand(S \ {s}) = Cardinality(Bytes(S \ {s}))
  <2>1. S \ {s} \in SUBSET Sources
    OBVIOUS
  <2>2. QED
    BY <2>1, DemandCounts
<1>2. QED
  BY <1>1, DemandCounts, BytesStep

\* The reservations are those of the workers that hold a permit, and fit.
LedgerInv == ledger.bytes = Demand(Holders) /\ ledger.bytes <= Room

LEMMA LedgerStays ==
    ASSUME LedgerInv, UNCHANGED ledger, Holders' = Holders
    PROVE  LedgerInv'
  BY DEF LedgerInv

LEMMA LedgerEmpties ==
    ASSUME NoThreads
    PROVE  LedgerInv'
<1>1. ledger'.bytes = 0 /\ wk' = Idle
  BY DEF NoThreads
<1>2. Holders' = {}
  BY <1>1 DEF Holders, Idle
<1>3. Demand(Holders') = 0
  BY <1>2, DemandStep
<1>4. QED
  BY <1>1, <1>3, ConstantsAssumption DEF LedgerInv

\* A worker goes on with its permit.
LEMMA PermitKept ==
    ASSUME TypeOK, LedgerInv, NEW s \in Sources, wk[s] \in Holding, NEW x \in Holding,
           wk' = [wk EXCEPT ![s] = x], UNCHANGED ledger
    PROVE  LedgerInv'
<1>1. wk'[s] = x /\ \A t \in Sources : t # s => wk'[t] = wk[t]
  BY DEF TypeOK
<1>2. Holders' = Holders
  BY <1>1 DEF Holders, Holding
<1>3. QED
  BY <1>2, LedgerStays

\* A worker ends and gives it back.
LEMMA PermitDropped ==
    ASSUME TypeOK, LedgerInv, NEW s \in Sources, wk[s] \in Holding,
           NEW outcome \in {"ok", "err"}, Return(s, outcome)
    PROVE  LedgerInv'
<1>1. wk'[s] = outcome /\ \A t \in Sources : t # s => wk'[t] = wk[t]
  BY DEF TypeOK, Return
<1>2. s \in Holders /\ Holders' = Holders \ {s} /\ Holders \in SUBSET Sources
  BY <1>1 DEF Holders, Holding
<1>3. /\ Demand(Holders) = Estimate[s] + Demand(Holders')
      /\ Demand(Holders) \in Nat
  BY <1>2, DemandStep
<1>4. Demand(Holders') \in Nat
  <2>1. Holders' \in SUBSET Sources
    BY <1>2
  <2>2. QED
    BY <2>1, DemandStep
<1>5. ledger'.bytes = ledger.bytes - Estimate[s]
  BY DEF Return, Dropped
<1>6. Estimate[s] \in Nat /\ Room \in Nat
  BY ConstantsAssumption
<1>7. ledger.bytes = Demand(Holders) /\ ledger.bytes <= Room
  BY DEF LedgerInv
<1>8. ledger'.bytes = Demand(Holders') /\ ledger'.bytes <= Room
  BY <1>3, <1>4, <1>5, <1>6, <1>7
<1>9. QED
  BY <1>8 DEF LedgerInv

\* Every path of a worker, the failing ones included, keeps its permit or gives
\* it back once.
LEMMA WorkerLedger ==
    ASSUME TypeOK, LedgerInv, NEW s \in Sources, Worker(s)
    PROVE  LedgerInv'
<1>1. ASSUME wk[s] \in Holding, NEW outcome \in {"ok", "err"}, Return(s, outcome)
      PROVE  LedgerInv'
  BY <1>1, PermitDropped
<1>2. ASSUME wk[s] \in Holding, NEW x \in Holding, wk' = [wk EXCEPT ![s] = x], ledger' = ledger
      PROVE  LedgerInv'
  BY <1>2, PermitKept
<1>3. {"gate", "probe", "get", "body", "landed", "ingest", "convert", "release"} \subseteq Holding
  BY DEF Holding, WorkerPC
<1>4. CASE Acquire(s)
  BY <1>1, <1>2, <1>3, <1>4 DEF Acquire
<1>5. CASE NoHeadroom(s)
  BY <1>1, <1>3, <1>5 DEF NoHeadroom
<1>6. CASE Probe(s)
  <2>1. wk[s] = "probe" /\ ledger' = ledger
    BY <1>6 DEF Probe
  <2>2. PICK x \in {"landed", "get"} : wk' = [wk EXCEPT ![s] = x]
    BY <1>6 DEF Probe
  <2>3. QED
    BY <1>2, <1>3, <2>1, <2>2
<1>7. CASE Get(s)
  BY <1>2, <1>3, <1>7 DEF Get
<1>8. CASE Body(s)
  <2>1. wk[s] = "body" /\ ledger' = ledger
    BY <1>8 DEF Body
  <2>2. PICK x \in {"landed", "body"} : wk' = [wk EXCEPT ![s] = x]
    BY <1>8 DEF Body
  <2>3. QED
    BY <1>2, <1>3, <2>1, <2>2
<1>9. CASE AttemptFails(s)
  BY <1>1, <1>2, <1>3, <1>9 DEF AttemptFails, FetchError
<1>10. CASE Refused(s)
  BY <1>1, <1>3, <1>10 DEF Refused, FetchError
<1>11. CASE Land(s)
  BY <1>2, <1>3, <1>11 DEF Land
<1>12. CASE Ingest(s)
  BY <1>1, <1>2, <1>3, <1>12 DEF Ingest
<1>13. CASE WriteChunk(s)
  <2>1. UNCHANGED <<wk, ledger>>
    BY <1>13 DEF WriteChunk
  <2>2. Holders' = Holders
    BY <2>1 DEF Holders
  <2>3. QED
    BY <2>1, <2>2, LedgerStays
<1>14. CASE ConvertFails(s)
  BY <1>1, <1>3, <1>14 DEF ConvertFails
<1>15. CASE CommitMarker(s)
  BY <1>2, <1>3, <1>15 DEF CommitMarker
<1>16. CASE Release(s)
  BY <1>1, <1>3, <1>16 DEF Release
<1>17. QED
  BY <1>4, <1>5, <1>6, <1>7, <1>8, <1>9, <1>10, <1>11, <1>12, <1>13, <1>14, <1>15, <1>16 DEF Worker

\* The governor admits a source beside the permits that are out.
LEMMA DispatchLedger ==
    ASSUME SafeInv, LedgerInv, Dispatch
    PROVE  LedgerInv'
<1>1. /\ pc = "dispatch" /\ pending # {}
      /\ pending \in SUBSET Sources /\ pending \in SUBSET Nat
  BY Values DEF Dispatch, SafeInv, TypeOK
<1>2. PICK s \in Sources : s = Min(pending) /\ s \in pending
  BY <1>1, MinOf
<1>3. wk[s] = "idle" /\ wk \in [Sources -> WorkerPC]
  BY <1>1, <1>2 DEF SafeInv, PendingInv, TypeOK
<1>4. PICK free \in Samples :
        \/ /\ Admits(s, free)
           /\ wk' = [wk EXCEPT ![s] = "gate"]
           /\ ledger' = [workers |-> ledger.workers + 1, bytes |-> ledger.bytes + Estimate[s]]
        \/ UNCHANGED threads
        \/ Exit
  BY <1>2 DEF Dispatch
<1>5. CASE UNCHANGED threads
  <2>1. UNCHANGED <<wk, ledger>>
    BY <1>5 DEF threads
  <2>2. Holders' = Holders
    BY <2>1 DEF Holders
  <2>3. QED
    BY <2>1, <2>2, LedgerStays
<1>6. CASE Exit
  BY <1>6, LedgerEmpties DEF Exit
<1>7. CASE /\ Admits(s, free)
           /\ wk' = [wk EXCEPT ![s] = "gate"]
           /\ ledger' = [workers |-> ledger.workers + 1, bytes |-> ledger.bytes + Estimate[s]]
  <2>1. wk'[s] = "gate" /\ \A t \in Sources : t # s => wk'[t] = wk[t]
    BY <1>3, <1>7
  <2>2. s \in Holders' /\ Holders = Holders' \ {s} /\ Holders' \in SUBSET Sources
    BY <1>3, <2>1 DEF Holders
  <2>3. /\ Demand(Holders') = Estimate[s] + Demand(Holders)
        /\ Demand(Holders') \in Nat
    BY <2>2, DemandStep
  <2>4. Holders \in SUBSET Sources
    BY DEF Holders
  <2>5. Demand(Holders) \in Nat
    BY <2>4, DemandStep
  <2>6. ledger'.bytes = ledger.bytes + Estimate[s] /\ free >= ledger.bytes + Estimate[s]
    BY <1>7 DEF Admits
  <2>7. free \in {0, Room} /\ Room \in Nat /\ Estimate[s] \in Nat
    BY ConstantsAssumption DEF Samples
  <2>8. ledger.bytes = Demand(Holders)
    BY DEF LedgerInv
  <2>9. ledger'.bytes = Demand(Holders') /\ ledger'.bytes <= Room
    BY <2>3, <2>5, <2>6, <2>7, <2>8
  <2>10. QED
    BY <2>9 DEF LedgerInv
<1>8. QED
  BY <1>4, <1>5, <1>6, <1>7

LEMMA MainLedger ==
    ASSUME SafeInv, LedgerInv, Main
    PROVE  LedgerInv'
<1>1. ASSUME UNCHANGED threads PROVE LedgerInv'
  <2>1. UNCHANGED <<wk, ledger>>
    BY <1>1 DEF threads
  <2>2. Holders' = Holders
    BY <2>1 DEF Holders
  <2>3. QED
    BY <2>1, <2>2, LedgerStays
<1>2. ASSUME Exit PROVE LedgerInv'
  BY <1>2, LedgerEmpties DEF Exit
<1>3. ASSUME NEW next, Goto(next) PROVE UNCHANGED threads
  BY <1>3 DEF Goto
<1>4. CASE Plan
  BY <1>1, <1>2, <1>4 DEF Plan
<1>5. CASE Join \/ Dispatched \/ Retired \/ Finish \/ SelectGeneration
  BY <1>1, <1>2, <1>3, <1>5 DEF Join, Dispatched, Retired, Finish, SelectGeneration
<1>6. CASE FinalizeFetch \/ WriteManifest \/ PublishManifest \/ RecordReceipt
  BY <1>1, <1>2, <1>3, <1>6 DEF FinalizeFetch, WriteManifest, PublishManifest, RecordReceipt
<1>7. CASE Compact
  BY <1>1, <1>2, <1>3, <1>7 DEF Compact
<1>8. CASE Build \/ BuildFails \/ RenameStaging \/ CommitCompaction \/ RemoveTransaction
  BY <1>1, <1>2, <1>3, <1>8
     DEF Build, BuildFails, RenameStaging, CommitCompaction, RemoveTransaction
<1>9. CASE \E s \in Sources : Sweep(s) \/ Retire(s)
  BY <1>1, <1>9 DEF Sweep, Retire, process
<1>10. ASSUME NEW s \in Sources, Receive(s) PROVE LedgerInv'
  <2>1. /\ wk[s] \in {"ok", "err"} /\ wk' = [wk EXCEPT ![s] = "received"]
        /\ ledger' = ledger /\ wk \in [Sources -> WorkerPC]
    BY <1>10 DEF Receive, SafeInv, TypeOK
  <2>2. wk'[s] = "received" /\ \A t \in Sources : t # s => wk'[t] = wk[t]
    BY <2>1
  <2>3. Holders' = Holders
    BY <2>1, <2>2 DEF Holders
  <2>4. QED
    BY <2>1, <2>3, LedgerStays
<1>11. QED
  BY <1>4, <1>5, <1>6, <1>7, <1>8, <1>9, <1>10, DispatchLedger DEF Main

LEMMA LedgerStep ==
    ASSUME SafeInv, LedgerInv, [Next]_vars
    PROVE  LedgerInv'
<1>1. CASE Start \/ Kill
  BY <1>1, LedgerEmpties DEF Start, Kill, Exit
<1>2. CASE UNCHANGED vars \/ \E s \in Sources : Republish(s)
  <2>1. UNCHANGED <<wk, ledger>>
    BY <1>2 DEF vars, Republish, process, threads
  <2>2. Holders' = Holders
    BY <2>1 DEF Holders
  <2>3. QED
    BY <2>1, <2>2, LedgerStays
<1>3. CASE \E s \in Sources : Worker(s)
  BY <1>3, WorkerLedger DEF SafeInv
<1>4. QED
  BY <1>1, <1>2, <1>3, MainLedger DEF Next

\* The ledger of the resource governor is at any time the sum of the permits of
\* the workers that hold one, whatever fails or is killed (no permit is lost, none
\* is given back twice), and never promises more than the volume has.
THEOREM LedgerExactHolds == Spec => []LedgerExact
<1>1. Init => LedgerInv
  <2> SUFFICES ASSUME Init PROVE LedgerInv
    OBVIOUS
  <2>1. wk = Idle /\ ledger.bytes = 0
    BY DEF Init
  <2>2. Holders = {}
    BY <2>1 DEF Holders, Idle
  <2>3. Demand(Holders) = 0
    BY <2>2, DemandStep
  <2>4. QED
    BY <2>1, <2>3, ConstantsAssumption DEF LedgerInv
<1>2. SafeInv /\ LedgerInv /\ [Next]_vars => LedgerInv'
  BY LedgerStep
<1>3. SafeInv /\ LedgerInv => LedgerExact
  <2> SUFFICES ASSUME SafeInv, LedgerInv PROVE LedgerExact
    OBVIOUS
  <2>1. ledger = [workers |-> ledger.workers, bytes |-> ledger.bytes]
    BY DEF SafeInv, TypeOK
  <2>2. ledger.workers = Cardinality(Holders)
    BY DEF SafeInv, ThreadInv
  <2>3. QED
    BY <2>1, <2>2 DEF LedgerInv, LedgerExact
<1>4. QED
  BY <1>1, <1>2, <1>3, SafeHolds, PTL DEF Spec

===============================================================================
