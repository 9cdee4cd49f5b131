------------------------- MODULE RefreshPipelineProofs -------------------------
(***************************************************************************)
(* Proofs about RefreshPipeline, for any number of jobs of any kinds, any  *)
(* number of pods, kills, failed writes and hung heartbeats.                           *)
(***************************************************************************)
EXTENDS RefreshPipeline, TLAPS

-----------------------------------------------------------------------------
(* Names and numbers.                                                      *)

\* A run is none of the values that stand for no run, and a full refresh is no
\* stage of the pipeline.
LEMMA Names ==
    /\ None \notin Runs /\ Orphan \notin Runs /\ Orphan # None
    /\ Runs \subseteq Int
    /\ "all" \notin Stages /\ "ingest" \notin Compute /\ "publish" \notin Compute
    /\ "ingest" \in Stages /\ "publish" \in Stages /\ Compute \subseteq Stages
  BY ConstantsAssumption DEF None, Orphan, Runs, Stages

\* What the scan of acquire_refresh_lock looks for: a full refresh for the locks
\* of all stages, a stage for that of a full refresh before any other.
LEMMA ConflictOrder ==
    ASSUME NEW k \in Kinds
    PROVE  /\ k = "all" => \A s \in Stages : \E i \in DOMAIN Conflicts(k) : Conflicts(k)[i] = s
           /\ k # "all" => 1 \in DOMAIN Conflicts(k) /\ Conflicts(k)[1] = "all"
           /\ DOMAIN Conflicts(k) \subseteq Nat \ {0}
  BY ConstantsAssumption DEF Conflicts, Kinds, Stages

-----------------------------------------------------------------------------
(* Type correctness.                                                       *)

Job == [kind : Kinds, pc : PC, attempt : 1..MaxAttempts, seen : Kinds \X Owner,
        beat : {"off", "on", "silent", "term"}, ok : BOOLEAN, gen : Owner]
State == [gen : Owner, active : SUBSET Stages,
          stages : [Stages -> [status : {"pending", "running", "succeeded", "failed"},
                               run : Owner]]]

\* .pipeline-state.json lists as active what its entries say is running.
ActiveOK(d) == \A s \in Stages : s \in d.active <=> d.stages[s].status = "running"

\* Only the stages of the pipeline come to pipeline-state.cjs.
JobType ==
    /\ job \in [Runs -> Job]
    /\ \A r \in Runs : job[r].pc = "begin" => job[r].kind # "all"
StateType == st \in State /\ ActiveOK(st)
LockType ==
    /\ lock \in [Kinds -> Owner] /\ adm \in Owner \cup {Orphan}
    /\ expired \in SUBSET Runs
    /\ art \in [Compute -> [gen : Owner, leased : BOOLEAN]]
    /\ recheck \in BOOLEAN /\ faults \in 0..MaxFaults /\ robbed \in BOOLEAN
    /\ unrecorded \in SUBSET Runs

TypeInv == JobType /\ StateType /\ LockType

LEMMA TypeParts == TypeInv => TypeOK
  BY DEF TypeOK, TypeInv, JobType, Job, StateType, State, ActiveOK, LockType

\* A run as run-refresh.sh starts it, and one that is gone.
LEMMA FreshType ==
    /\ Fresh \in Job /\ Fresh.seen = Unseen
    /\ \A place \in PC : /\ [Fresh EXCEPT !.pc = place] \in Job
                        /\ [Fresh EXCEPT !.pc = place].pc = place
    /\ \A k \in Kinds : LET j == [Fresh EXCEPT !.kind = k, !.pc = "admission"]
                        IN  j \in Job /\ j.pc = "admission" /\ j.kind = k
<1>1. Fresh \in Job /\ Fresh.seen = Unseen
  BY ConstantsAssumption DEF Fresh, Job, Kinds, PC, Unseen, Owner
<1>2. ASSUME NEW place \in PC
      PROVE  /\ [Fresh EXCEPT !.pc = place] \in Job
             /\ [Fresh EXCEPT !.pc = place].pc = place
  BY <1>1 DEF Job
<1>3. ASSUME NEW k \in Kinds
      PROVE  LET j == [Fresh EXCEPT !.kind = k, !.pc = "admission"]
             IN  j \in Job /\ j.pc = "admission" /\ j.kind = k
  <2> DEFINE f == [Fresh EXCEPT !.kind = k]
  <2>1. f \in Job /\ f.kind = k
    BY <1>1 DEF Job
  <2> HIDE DEF f
  <2>2. [f EXCEPT !.pc = "admission"] \in Job
    BY <2>1 DEF Job, PC
  <2>3. QED
    BY <2>1, <2>2 DEF Job, f
<1>4. QED
  BY <1>1, <1>2, <1>3

\* A run moves on in run-refresh.sh.
Place(f, r, place) == [f EXCEPT ![r].pc = place]

LEMMA Placed ==
    ASSUME NEW f \in [Runs -> Job], NEW r \in Runs, NEW place \in PC
    PROVE  /\ Place(f, r, place) \in [Runs -> Job]
           /\ Place(f, r, place)[r].pc = place
           /\ Place(f, r, place)[r].kind = f[r].kind
           /\ Place(f, r, place)[r].seen = f[r].seen
           /\ Place(f, r, place)[r].gen = f[r].gen
           /\ Place(f, r, place)[r].ok = f[r].ok
           /\ \A q \in Runs : q # r => Place(f, r, place)[q] = f[q]
  BY DEF Job, Place

Others(r) == \A q \in Runs : q # r => job'[q] = job[q]

\* The same when other fields of the run, but not its kind, change with it.
LEMMA PlacedJob ==
    ASSUME JobType, NEW f \in [Runs -> Job], NEW r \in Runs, NEW place \in PC,
           f[r].kind = job[r].kind, \A q \in Runs : q # r => f[q] = job[q],
           place = "begin" => job[r].kind # "all",
           job' = Place(f, r, place)
    PROVE  /\ JobType' /\ Others(r)
           /\ job'[r].pc = place /\ job'[r].kind = job[r].kind /\ job'[r].seen = f[r].seen
           /\ job'[r].gen = f[r].gen /\ job'[r].ok = f[r].ok
<1>1. /\ job' \in [Runs -> Job] /\ job'[r].pc = place /\ job'[r].kind = f[r].kind
      /\ job'[r].seen = f[r].seen /\ job'[r].gen = f[r].gen /\ job'[r].ok = f[r].ok
      /\ \A q \in Runs : q # r => job'[q] = f[q]
  BY Placed
<1>2. ASSUME NEW q \in Runs, job'[q].pc = "begin"
      PROVE  job'[q].kind # "all"
  BY <1>1, <1>2 DEF JobType
<1>3. QED
  BY <1>1, <1>2 DEF JobType, Others

\* What the steps of a run do to it, and that they do nothing to any other.
LEMMA GotoJob ==
    ASSUME JobType, NEW r \in Runs, NEW place \in PC, place # "begin", Goto(r, place)
    PROVE  /\ JobType' /\ Others(r)
           /\ job'[r].pc = place /\ job'[r].kind = job[r].kind /\ job'[r].seen = job[r].seen
           /\ job'[r].gen = job[r].gen /\ job'[r].ok = job[r].ok
  BY DEF JobType, Job, Goto, Others

LEMMA EndJob ==
    ASSUME JobType, NEW r \in Runs, End(r)
    PROVE  JobType' /\ Others(r) /\ job'[r].pc = "end"
<1>1. "end" \in PC
  BY DEF PC
<1>2. QED
  BY <1>1, FreshType DEF JobType, End, Others

LEMMA StartJob ==
    ASSUME JobType, NEW r \in Runs, NEW k \in KindsOf[r], Start(r, k)
    PROVE  /\ JobType' /\ Others(r) /\ job'[r].pc \in {"end", "admission"}
           /\ job[r].pc \in {"new", "end"}
<1>1. k \in Kinds
  BY ConstantsAssumption
<1>2. CASE job' = [job EXCEPT ![r] = [Fresh EXCEPT !.kind = k, !.pc = "admission"]]
  BY <1>1, <1>2, FreshType DEF JobType, Others, Start, At
<1>3. QED
  BY <1>2, EndJob DEF Start, At

LEMMA KillJob ==
    ASSUME JobType, NEW r \in Runs, Kill(r)
    PROVE  JobType' /\ Others(r) /\ job'[r].pc = "dead"
<1>1. "dead" \in PC
  BY DEF PC
<1>2. QED
  BY <1>1, FreshType DEF JobType, Kill, Others

LEMMA HeartbeatJob ==
    ASSUME JobType, NEW r \in Runs, Heartbeat(r)
    PROVE  /\ JobType' /\ Others(r)
           /\ job'[r].pc = job[r].pc /\ job'[r].kind = job[r].kind /\ job'[r].seen = job[r].seen
           /\ job'[r].gen = job[r].gen /\ job'[r].ok = job[r].ok
  BY DEF JobType, Job, Heartbeat, Others

Noted(f, r, found, place) == [f EXCEPT ![r].seen = found, ![r].pc = place]

LEMMA SeenJob ==
    ASSUME JobType, NEW r \in Runs, NEW place \in PC, place # "begin", NEW found \in Kinds \X Owner,
           job' = Noted(job, r, found, place)
    PROVE  /\ JobType' /\ Others(r)
           /\ job'[r].pc = place /\ job'[r].kind = job[r].kind /\ job'[r].seen = found
<1> DEFINE f == [job EXCEPT ![r].seen = found]
<1>1. f \in [Runs -> Job] /\ f[r].seen = found /\ f[r].kind = job[r].kind
  BY DEF JobType, Job
<1>2. \A q \in Runs : q # r => f[q] = job[q]
  BY DEF JobType
<1>3. job' = Place(f, r, place)
  BY DEF Place, Noted
<1> HIDE DEF f
<1>4. QED
  BY <1>1, <1>2, <1>3, PlacedJob

LEMMA EnterJob ==
    ASSUME JobType, NEW r \in Runs, Enter(r)
    PROVE  /\ JobType' /\ Others(r)
           /\ job'[r].pc \in {"begin", "work"} /\ (job'[r].pc = "work" => ~Pipeline(r))
           /\ job'[r].kind = job[r].kind /\ job'[r].seen = job[r].seen
<1> DEFINE f == [job EXCEPT ![r].beat = "on"]
<1>1. f \in [Runs -> Job] /\ f[r].seen = job[r].seen /\ f[r].kind = job[r].kind
  BY DEF JobType, Job
<1>2. \A q \in Runs : q # r => f[q] = job[q]
  BY DEF JobType
<1>3. \/ Pipeline(r) /\ job' = Place(f, r, "begin")
      \/ ~Pipeline(r) /\ job' = Place(f, r, "work")
  BY DEF Enter, Place
<1>4. "begin" \in PC /\ "work" \in PC
  BY DEF PC
<1> HIDE DEF f
<1>5. CASE Pipeline(r) /\ job' = Place(f, r, "begin")
  BY <1>1, <1>2, <1>4, <1>5, PlacedJob DEF Pipeline
<1>6. CASE ~Pipeline(r) /\ job' = Place(f, r, "work")
  BY <1>1, <1>2, <1>4, <1>6, PlacedJob
<1>7. QED
  BY <1>3, <1>5, <1>6

LEMMA OwnMoveJob ==
    ASSUME JobType, NEW r \in Runs, OwnMove(r)
    PROVE  /\ JobType' /\ Others(r)
           /\ \/ job'[r].pc = "end"
              \/ /\ job'[r].pc = "admission" /\ job'[r].kind = job[r].kind
                 /\ job'[r].seen = Unseen
<1> DEFINE f == [job EXCEPT ![r].attempt = @ + 1]
           g == [f EXCEPT ![r].seen = Unseen]
<1>1. ASSUME job[r].attempt < MaxAttempts
      PROVE  f \in [Runs -> Job] /\ f[r].kind = job[r].kind
  <2>1. job[r].attempt + 1 \in 1..MaxAttempts
    BY <1>1, ConstantsAssumption DEF JobType, Job
  <2>2. QED
    BY <2>1 DEF JobType, Job
<1>2. \A q \in Runs : q # r => f[q] = job[q]
  BY DEF JobType
<1>3. End(r) \/ (job[r].attempt < MaxAttempts /\ job' = Place(g, r, "admission"))
  BY DEF OwnMove, Place
<1>4. Unseen \in Kinds \X Owner /\ "admission" \in PC
  BY DEF Unseen, Kinds, Owner, PC
<1> HIDE DEF f
<1>5. ASSUME job[r].attempt < MaxAttempts
      PROVE  /\ g \in [Runs -> Job] /\ g[r].seen = Unseen /\ g[r].kind = job[r].kind
             /\ \A q \in Runs : q # r => g[q] = job[q]
  BY <1>1, <1>2, <1>4, <1>5 DEF Job
<1> HIDE DEF g
<1>6. CASE job[r].attempt < MaxAttempts /\ job' = Place(g, r, "admission")
  BY <1>4, <1>5, <1>6, PlacedJob
<1>7. QED
  BY <1>3, <1>6, EndJob

LEMMA WorkJob ==
    ASSUME JobType, NEW r \in Runs, NEW wrote \in BOOLEAN, NEW good \in BOOLEAN,
           Work(r, wrote, good)
    PROVE  /\ JobType' /\ Others(r)
           /\ job'[r].pc = "finish" /\ job'[r].kind = job[r].kind /\ job'[r].seen = job[r].seen
           /\ job'[r].gen = job[r].gen /\ job'[r].ok = good
<1> DEFINE f == [job EXCEPT ![r].ok = good]
           g == [f EXCEPT ![r].beat = "off"]
<1>1. /\ f \in [Runs -> Job] /\ f[r].kind = job[r].kind /\ f[r].seen = job[r].seen
      /\ f[r].gen = job[r].gen /\ f[r].ok = good
  BY DEF JobType, Job
<1>2. \A q \in Runs : q # r => f[q] = job[q]
  BY DEF JobType
<1>3. job' = Place(g, r, "finish")
  BY DEF Work, Place
<1>4. "finish" \in PC
  BY DEF PC
<1> HIDE DEF f
<1>5. /\ g \in [Runs -> Job] /\ g[r].kind = job[r].kind /\ g[r].seen = job[r].seen
      /\ g[r].gen = job[r].gen /\ g[r].ok = good
      /\ \A q \in Runs : q # r => g[q] = job[q]
  BY <1>1, <1>2 DEF Job
<1> HIDE DEF g
<1>6. QED
  BY <1>3, <1>4, <1>5, PlacedJob

\* recoverStaleStages leaves a well-formed state.
LEMMA RecoveredType ==
    ASSUME StateType
    PROVE  /\ Recovered \in State /\ ActiveOK(Recovered)
           /\ Recovered.active \subseteq st.active /\ Recovered.gen = st.gen
           /\ \A s \in st.active \ Recovered.active :
                 st.stages[s].run \in expired /\ Recovered.stages[s].status = "failed"
           /\ \A s \in Stages : /\ Recovered.stages[s].run = st.stages[s].run
                                /\ s \in Recovered.active => /\ st.stages[s].run \notin expired
                                                            /\ Recovered.stages[s] = st.stages[s]
                                /\ s \notin st.active => Recovered.stages[s] = st.stages[s]
                                /\ Recovered.stages[s].status = "succeeded" =>
                                       Recovered.stages[s] = st.stages[s]
  BY DEF Recovered, StateType, State, ActiveOK

LEMMA BlankType == [gen |-> None, active |-> {}, stages |-> Blank] \in State
  BY DEF State, Blank, Owner

\* begin, of a run whose stage the recovered state admits: its generation is new
\* for an ingest, and its entry is running.
LEMMA BeginType ==
    ASSUME JobType, StateType, NEW r \in Runs, Begin(r),
           Admissible(job[r].kind, Recovered)
    PROVE  /\ JobType' /\ Others(r) /\ StateType'
           /\ job[r].kind \in Stages
           /\ job'[r].pc = "begun" /\ job'[r].kind = job[r].kind /\ job'[r].seen = job[r].seen
           /\ job'[r].gen = st'.gen
           /\ st'.gen = (IF job[r].kind = "ingest" THEN r ELSE st.gen)
           /\ st'.active = Recovered.active \cup {job[r].kind}
           /\ st'.stages[job[r].kind] = [status |-> "running", run |-> r]
           /\ \A t \in Stages \ {job[r].kind} :
                 st'.stages[t] = IF job[r].kind = "ingest" THEN Blank[t] ELSE Recovered.stages[t]
<1> DEFINE d == Generation(r, Recovered)
           s == job[r].kind
           e == [d EXCEPT !.active = @ \cup {s}]
           x == [status |-> "running", run |-> r]
           f == [job EXCEPT ![r].gen = d.gen]
<1>0. s \in Stages
  BY DEF Begin, At, JobType, Job, Kinds
<1>1. /\ d \in State /\ ActiveOK(d) /\ d.active = Recovered.active
      /\ d.gen = (IF s = "ingest" THEN r ELSE st.gen)
      /\ d.stages = (IF s = "ingest" THEN Blank ELSE Recovered.stages)
  <2>1. CASE s = "ingest"
    <3>1. d = [gen |-> r, active |-> {}, stages |-> Blank]
      BY <2>1 DEF Generation
    <3>2. Recovered.active = {}
      BY <2>1 DEF Admissible
    <3>3. QED
      BY <2>1, <3>1, <3>2 DEF State, ActiveOK, Blank, Owner
  <2>2. CASE s # "ingest"
    BY <2>2, RecoveredType DEF Generation
  <2>3. QED
    BY <2>1, <2>2
<1>2. /\ f \in [Runs -> Job] /\ f[r].kind = s /\ f[r].seen = job[r].seen /\ f[r].gen = d.gen
      /\ \A q \in Runs : q # r => f[q] = job[q]
  BY <1>1 DEF JobType, Job, State
<1>3. job' = Place(f, r, "begun") /\ st' = [e EXCEPT !.stages[s] = x]
  BY DEF Begin, Place
<1>4. e \in State /\ e.active = d.active \cup {s} /\ e.stages = d.stages /\ e.gen = d.gen
  BY <1>0, <1>1 DEF State
<1>5. x \in [status : {"pending", "running", "succeeded", "failed"}, run : Owner]
  BY DEF Owner
<1>6. x.status = "running" /\ "begun" \in PC
  BY DEF PC
<1> HIDE DEF d, e, x, f
<1>7. /\ JobType' /\ Others(r) /\ job'[r].pc = "begun" /\ job'[r].kind = s
      /\ job'[r].seen = job[r].seen /\ job'[r].gen = d.gen
  BY <1>2, <1>3, <1>6, PlacedJob
<1>8. st' \in State /\ st'.active = e.active /\ st'.gen = e.gen
  BY <1>0, <1>3, <1>4, <1>5 DEF State
<1>9. st'.stages = [d.stages EXCEPT ![s] = x]
  BY <1>3, <1>4 DEF State
<1>10. StateType'
  BY <1>0, <1>1, <1>4, <1>6, <1>8, <1>9 DEF StateType, State, ActiveOK
<1>11. st'.stages[s] = x /\ \A t \in Stages \ {s} : st'.stages[t] = d.stages[t]
  BY <1>0, <1>1, <1>9 DEF State
<1>12. QED
  BY <1>0, <1>1, <1>4, <1>7, <1>8, <1>10, <1>11 DEF x

\* What complete and fail write, of a run that owns its stage.
Closed(r, x) == [st EXCEPT !.active = @ \ {job[r].kind}, !.stages[job[r].kind].status = x]

LEMMA ClosedType ==
    ASSUME StateType, NEW r \in Runs, Leased(r), NEW x \in {"succeeded", "failed"},
           st' = Closed(r, x)
    PROVE  /\ StateType' /\ job[r].kind \in Stages
           /\ st'.gen = st.gen /\ st'.active = st.active \ {job[r].kind}
           /\ st'.stages[job[r].kind].status = x
           /\ \A t \in Stages : st'.stages[t].run = st.stages[t].run
           /\ \A t \in Stages \ {job[r].kind} : st'.stages[t] = st.stages[t]
<1> DEFINE s == job[r].kind
           e == [st EXCEPT !.active = @ \ {s}]
<1>1. s \in Stages
  BY DEF Leased, StateType, State
<1>2. e \in State /\ e.active = st.active \ {s} /\ e.stages = st.stages /\ e.gen = st.gen
  BY DEF StateType, State
<1>3. st' = [e EXCEPT !.stages[s].status = x]
  BY DEF Closed
<1> HIDE DEF e
<1>4. st' \in State /\ st'.active = e.active /\ st'.gen = e.gen
  BY <1>1, <1>2, <1>3 DEF State
<1>5. st'.stages = [st.stages EXCEPT ![s].status = x]
  BY <1>2, <1>3 DEF State
<1>6. /\ st'.stages[s].status = x /\ st'.stages[s].run = st.stages[s].run
      /\ \A t \in Stages \ {s} : st'.stages[t] = st.stages[t]
  BY <1>1, <1>5 DEF StateType, State
<1>7. StateType'
  BY <1>2, <1>4, <1>6 DEF StateType, ActiveOK
<1>8. QED
  BY <1>1, <1>2, <1>4, <1>6, <1>7

\* The end of a stage is recorded, or nothing is written.
LEMMA FinishCases ==
    ASSUME NEW r \in Runs, Finish(r) \/ FinishFails(r)
    PROVE  /\ job[r].pc = "finish" /\ Goto(r, "release")
           /\ UNCHANGED <<lock, adm, expired, art, recheck, robbed>>
           /\ \/ /\ Leased(r) /\ unrecorded' = unrecorded
                 /\ \E x \in {"succeeded", "failed"} :
                       st' = Closed(r, x) /\ (x = "succeeded" => job[r].ok)
              \/ /\ ~(Pipeline(r) /\ Leased(r)) /\ st' = st /\ unrecorded' = unrecorded
              \/ /\ Leased(r) /\ st' = st /\ unrecorded' = unrecorded \cup {r}
<1>1. CASE Finish(r)
  <2>1. /\ job[r].pc = "finish" /\ Goto(r, "release")
        /\ UNCHANGED <<lock, adm, expired, art, recheck, robbed, unrecorded>>
    BY <1>1 DEF Finish, At
  <2>2. CASE Pipeline(r) /\ Leased(r)
    <3>1. CASE job[r].ok
      <4>1. st' = Closed(r, "succeeded")
        BY <1>1, <2>2, <3>1 DEF Finish, Closed
      <4>2. QED
        BY <2>1, <2>2, <3>1, <4>1
    <3>2. CASE ~job[r].ok
      <4>1. st' = Closed(r, "failed")
        BY <1>1, <2>2, <3>2 DEF Finish, Closed
      <4>2. QED
        BY <2>1, <2>2, <4>1
    <3>3. QED
      BY <3>1, <3>2
  <2>3. CASE ~(Pipeline(r) /\ Leased(r))
    BY <1>1, <2>1, <2>3 DEF Finish
  <2>4. QED
    BY <2>2, <2>3
<1>2. CASE FinishFails(r)
  BY <1>2 DEF FinishFails, Closed, Unrecorded, At
<1>3. QED
  BY <1>1, <1>2

LEMMA TypeStep == TypeInv /\ [Next]_vars => TypeInv'
<1> SUFFICES ASSUME JobType, StateType, LockType, [Next]_vars
             PROVE  JobType' /\ StateType' /\ LockType'
  BY DEF TypeInv
<1>1. CASE UNCHANGED vars
  BY <1>1 DEF vars, JobType, StateType, LockType, ActiveOK
<1>2. ASSUME NEW r \in Runs, NEW k \in KindsOf[r], Start(r, k)
      PROVE  JobType' /\ StateType' /\ LockType'
  BY <1>2, StartJob DEF Start, StateType, LockType, ActiveOK
<1>3. ASSUME NEW r \in Runs, Kill(r)
      PROVE  JobType' /\ StateType' /\ LockType'
  <2>1. faults' \in 0..MaxFaults
    BY <1>3, ConstantsAssumption DEF Kill, LockType
  <2>2. QED
    BY <1>3, <2>1, KillJob DEF Kill, StateType, LockType, ActiveOK
<1>4. ASSUME NEW r \in Runs, Expire(r) \/ Hang(r) \/ Resume(r)
      PROVE  JobType' /\ StateType' /\ LockType'
  <2>1. faults' \in 0..MaxFaults
    BY <1>4, ConstantsAssumption DEF Expire, Hang, Resume, LockType
  <2>2. QED
    BY <1>4, <2>1 DEF Expire, Hang, Resume, JobType, StateType, LockType, ActiveOK
<1>5. ASSUME NEW r \in Runs, Heartbeat(r)
      PROVE  JobType' /\ StateType' /\ LockType'
  <2>1. faults' \in 0..MaxFaults
    BY <1>5, ConstantsAssumption DEF Heartbeat, LockType
  <2>2. QED
    BY <1>5, <2>1, HeartbeatJob DEF Heartbeat, StateType, LockType, ActiveOK
<1>6. ASSUME NEW r \in Runs, Step(r)
      PROVE  JobType' /\ StateType' /\ LockType'
  <2>1. CASE Admit(r) \/ AdmissionBusy(r) \/ AdmissionStale(r) \/ AdmissionWait(r)
    BY <2>1, GotoJob, EndJob
    DEF Admit, AdmissionBusy, AdmissionStale, AdmissionWait, PC, StateType, LockType, ActiveOK, Owner
  <2>2. CASE AdmissionMove(r)
    <3>1. robbed' \in BOOLEAN
      BY <2>2, Zenon DEF AdmissionMove
    <3>2. QED
      BY <2>2, <3>1, GotoJob DEF AdmissionMove, PC, StateType, LockType, ActiveOK, Owner
  <2>3. CASE Scan(r)
    <3>1. JobType'
      <4>1. \A name \in Kinds : <<name, lock[name]>> \in Kinds \X Owner
        BY DEF LockType
      <4>2. ASSUME NEW name \in Kinds, job' = Noted(job, r, <<name, lock[name]>>, "recheck")
            PROVE  JobType'
        BY <4>1, <4>2, SeenJob DEF PC
      <4>3. ASSUME NEW i \in Held(job[r].kind)
            PROVE  Conflicts(job[r].kind)[i] \in Kinds
        BY DEF Held
      <4>4. QED
        BY <2>3, <4>2, <4>3, GotoJob, EndJob DEF Scan, PC, Noted
    <3>2. UNCHANGED <<lock, expired, st, art, recheck, faults, robbed, unrecorded>>
      BY <2>3 DEF Scan
    <3>3. adm' \in Owner \cup {Orphan}
      BY <2>3 DEF Scan, Released, LockType, Owner
    <3>4. QED
      BY <3>1, <3>2, <3>3 DEF StateType, LockType, ActiveOK
  <2>4. CASE Recheck(r)
    BY <2>4, GotoJob, EndJob DEF Recheck, Released, PC, StateType, LockType, ActiveOK, Owner
  <2>5. CASE Move(r)
    <3>1. JobType'
      BY <2>5, GotoJob, EndJob DEF Move, PC
    <3>2. QED
      BY <2>5, <3>1 DEF Move, Released, StateType, LockType, ActiveOK, Owner
  <2>6. CASE Mkdir(r)
    <3>1. JobType'
      BY <2>6, GotoJob DEF Mkdir, PC
    <3>2. QED
      BY <2>6, <3>1 DEF Mkdir, Released, StateType, LockType, ActiveOK, Owner
  <2>7. CASE Enter(r)
    BY <2>7, EnterJob DEF Enter, Released, StateType, LockType, ActiveOK, Owner
  <2>17. CASE EnterFails(r)
    <3>1. faults' \in 0..MaxFaults
      BY <2>17, ConstantsAssumption DEF EnterFails, LockType
    <3>2. lock' \in [Kinds -> Owner]
      BY <2>17 DEF EnterFails, LockType, Owner
    <3>3. QED
      BY <2>17, <3>1, <3>2, EndJob DEF EnterFails, Released, StateType, LockType, ActiveOK, Owner
  <2>8. CASE Own(r)
    <3>1. <<job[r].kind, lock[job[r].kind]>> \in Kinds \X Owner
      BY DEF JobType, Job, LockType
    <3>2. CASE job' = Noted(job, r, <<job[r].kind, lock[job[r].kind]>>, "ownrecheck")
      BY <2>8, <3>1, <3>2, SeenJob DEF Own, PC, StateType, LockType, ActiveOK
    <3>3. QED
      BY <2>8, <3>2, EndJob DEF Own, Noted, StateType, LockType, ActiveOK
  <2>9. CASE OwnRecheck(r)
    BY <2>9, GotoJob, EndJob DEF OwnRecheck, PC, StateType, LockType, ActiveOK
  <2>10. CASE OwnMove(r)
    <3>1. lock' \in [Kinds -> Owner]
      BY <2>10 DEF OwnMove, LockType, Owner
    <3>2. UNCHANGED <<adm, expired, st, art, recheck, faults, robbed, unrecorded>>
      BY <2>10 DEF OwnMove
    <3>3. QED
      BY <2>10, <3>1, <3>2, OwnMoveJob DEF StateType, LockType, ActiveOK
  <2>11. CASE Begin(r)
    <3>1. LockType'
      BY <2>11 DEF Begin, LockType
    <3>2. CASE ~Admissible(job[r].kind, Recovered)
      BY <2>11, <3>1, <3>2, RecoveredType, GotoJob DEF Begin, PC, StateType
    <3>3. CASE Admissible(job[r].kind, Recovered)
      BY <2>11, <3>1, <3>3, BeginType
    <3>4. QED
      BY <3>2, <3>3
  <2>12. CASE GiveUp(r)
    BY <2>12, GotoJob DEF GiveUp, PC, StateType, LockType, ActiveOK
  <2>18. CASE Activate(r)
    BY <2>18, GotoJob DEF Activate, PC, StateType, LockType, ActiveOK
  <2>19. CASE ExitBegun(r)
    <3>1. faults' \in 0..MaxFaults /\ unrecorded' \in SUBSET Runs
      BY <2>19, ConstantsAssumption DEF ExitBegun, Unrecorded, LockType
    <3>2. QED
      BY <2>19, <3>1, GotoJob DEF ExitBegun, PC, StateType, LockType, ActiveOK
  <2>13. CASE Finish(r) \/ FinishFails(r)
    <3>1. JobType'
      BY <2>13, FinishCases, GotoJob DEF PC
    <3>2. StateType'
      <4>1. \A x \in {"succeeded", "failed"} : Leased(r) /\ st' = Closed(r, x) => StateType'
        BY ClosedType
      <4>2. st' = st => StateType'
        BY DEF StateType, ActiveOK
      <4>3. QED
        BY <2>13, <4>1, <4>2, FinishCases
    <3>3. faults' \in 0..MaxFaults
      BY <2>13, ConstantsAssumption DEF Finish, FinishFails, LockType
    <3>4. LockType'
      BY <2>13, <3>3, FinishCases DEF LockType
    <3>5. QED
      BY <3>1, <3>2, <3>4
  <2>14. CASE Release(r)
    BY <2>14, EndJob DEF Release, StateType, LockType, ActiveOK, Owner
  <2>15. ASSUME NEW wrote \in BOOLEAN, NEW good \in BOOLEAN, Work(r, wrote, good)
         PROVE  JobType' /\ StateType' /\ LockType'
    <3>1. art' \in [Compute -> [gen : Owner, leased : BOOLEAN]]
      <4>1. (Pipeline(r) /\ Leased(r)) \in BOOLEAN /\ job[r].gen \in Owner
        BY DEF Pipeline, Leased, JobType, Job
      <4>2. QED
        BY <2>15, <4>1 DEF Work, LockType
    <3>2. UNCHANGED <<lock, adm, expired, st, recheck, faults, robbed, unrecorded>>
      BY <2>15 DEF Work
    <3>3. QED
      BY <2>15, <3>1, <3>2, WorkJob DEF StateType, LockType, ActiveOK
  <2>16. QED
    BY <1>6, <2>1, <2>2, <2>3, <2>4, <2>5, <2>6, <2>7, <2>8, <2>9, <2>10, <2>11, <2>12, <2>13,
       <2>14, <2>15, <2>17, <2>18, <2>19 DEF Step
<1>7. QED
  BY <1>1, <1>2, <1>3, <1>4, <1>5, <1>6 DEF Next

LEMMA TypeInit == Init => TypeInv
<1> SUFFICES ASSUME Init PROVE TypeInv
  OBVIOUS
<1>1. JobType
  BY FreshType DEF Init, JobType, Fresh
<1>2. StateType
  BY BlankType DEF Init, StateType, ActiveOK, Blank
<1>3. LockType
  <2>1. recheck \in BOOLEAN /\ robbed \in BOOLEAN
    BY ConstantsAssumption, Zenon DEF Init
  <2>2. QED
    BY <2>1, ConstantsAssumption DEF Init, LockType, Owner
<1>4. QED
  BY <1>1, <1>2, <1>3 DEF TypeInv

LEMMA TypeAlways == Spec => []TypeInv
  BY TypeInit, TypeStep, PTL DEF Spec

\* The shell variables of every job, the locks, the pipeline state and the
\* artifacts stay what TypeOK says; .pipeline-state.json never lists a stage as
\* active that its entry does not show as running, or the other way round.
THEOREM RefreshTypeCorrect == Spec => []TypeOK
  BY TypeAlways, TypeParts, PTL

-----------------------------------------------------------------------------
(* Locks, leases and receipts of the pipeline.                             *)

\* Where a run may be while a lock names it, and while a stage does.
Keeping == {"held", "begin", "begun", "work", "finish", "release", "dead"}
Serving == {"begun", "work", "finish", "dead"}

\* What is true of a run and the shared files: a lock that names it is its own,
\* and it has not released it yet;
LockOf(r) ==
    \A k \in Kinds : lock[k] = r =>
        /\ job[r].pc \in Keeping
        /\ job[r].pc # "dead" => job[r].kind = k

\* a running stage that names it is its own, and it has not finished it yet or
\* was one of those that gave their lock up without;
StageOf(r) ==
    \A s \in Stages : s \in st.active /\ st.stages[s].run = r =>
        \/ /\ job[r].pc \in Serving
           /\ job[r].pc # "dead" => job[r].kind = s
        \/ job[r].pc \in {"release", "end"} /\ r \in unrecorded

\* the stage it works on is its own until its heartbeats have expired;
LeaseOf(r) ==
    job[r].pc \in {"begun", "work"} /\ job[r].kind # "all" /\ r \notin expired => Leased(r)

\* it works for the present generation when the stage is its own;
GenerationOf(r) ==
    job[r].pc \in {"begun", "work", "finish"} /\ Leased(r) => job[r].gen = st.gen

\* and the receipt it is about to write is one for artifacts of this generation,
\* unless another run has overwritten them since.
Coherent(s) == art[s].gen = st.gen \/ ~art[s].leased

ReceiptOf(r) ==
    job[r].pc = "finish" /\ Leased(r) /\ job[r].ok /\ job[r].kind \in Compute =>
        Coherent(job[r].kind)

RunInv(r) == LockOf(r) /\ StageOf(r) /\ LeaseOf(r) /\ GenerationOf(r) /\ ReceiptOf(r)

\* Ingest and publish run alone, the latter over complete compute stages; the
\* artifacts of a complete stage are of this generation or nobody's with a lease.
AloneInv ==
    /\ "ingest" \in st.active => st.active = {"ingest"}
    /\ "publish" \in st.active =>
           st.active = {"publish"} /\ \A s \in Compute : st.stages[s].status = "succeeded"
ReceiptInv == \A s \in Compute : st.stages[s].status = "succeeded" => Coherent(s)

PipelineInv == (\A r \in Runs : RunInv(r)) /\ AloneInv /\ ReceiptInv

\* While the pipeline state and the artifacts stay, what is true of the other
\* runs stays: a step of one run can only take a lock away from them.
LEMMA OtherRuns ==
    ASSUME TypeInv, PipelineInv, NEW r \in Runs, Others(r), st' = st, art' = art,
           \A q \in Runs : q # r /\ q \in expired => q \in expired',
           unrecorded \subseteq unrecorded',
           \A k \in Kinds : lock'[k] \in {lock[k], None, r},
           RunInv(r)'
    PROVE  PipelineInv'
<1>1. ASSUME NEW q \in Runs, q # r
      PROVE  RunInv(q)'
  <2>1. job'[q] = job[q]
    BY <1>1 DEF Others
  <2>2. RunInv(q)
    BY DEF PipelineInv
  <2>3. Leased(q)' <=> Leased(q)
    BY <2>1 DEF Leased, Entry
  <2>4. LockOf(q)'
    BY <1>1, <2>1, <2>2, Names DEF RunInv, LockOf
  <2>5. StageOf(q)'
    BY <2>1, <2>2 DEF RunInv, StageOf
  <2>6. LeaseOf(q)'
    BY <1>1, <2>1, <2>2, <2>3 DEF RunInv, LeaseOf
  <2>7. GenerationOf(q)' /\ ReceiptOf(q)'
    BY <2>1, <2>2, <2>3 DEF RunInv, GenerationOf, ReceiptOf, Coherent
  <2>8. QED
    BY <2>4, <2>5, <2>6, <2>7 DEF RunInv
<1>2. AloneInv' /\ ReceiptInv'
  BY DEF PipelineInv, AloneInv, ReceiptInv, Coherent
<1>3. QED
  BY <1>1, <1>2 DEF PipelineInv

\* No running stage names the run.
Unnamed(r) == \A s \in Stages : s \in st.active => st.stages[s].run # r

\* A run that keeps nothing before and after the step, or that is killed.
LEMMA QuietRun ==
    ASSUME TypeInv, PipelineInv, NEW r \in Runs, Others(r), st' = st, art' = art,
           \A q \in Runs : q # r /\ q \in expired => q \in expired',
           unrecorded' = unrecorded,
           \A k \in Kinds : lock'[k] \in {lock[k], None},
           \/ job'[r].pc = "dead"
           \/ /\ job[r].pc \notin Keeping /\ job'[r].pc \notin Keeping
              /\ job[r].pc = "end" => Unnamed(r)
    PROVE  PipelineInv'
<1>1. RunInv(r)
  BY DEF PipelineInv
<1>2. LockOf(r)'
  BY <1>1, Names DEF RunInv, LockOf, Keeping
<1>3. StageOf(r)'
  <2>1. CASE job'[r].pc = "dead"
    BY <2>1 DEF StageOf, Serving
  <2>2. CASE job'[r].pc # "dead"
    <3>1. Unnamed(r)
      BY <1>1, <2>2 DEF RunInv, StageOf, Keeping, Serving, Unnamed
    <3>2. QED
      BY <3>1 DEF StageOf, Unnamed
  <2>3. QED
    BY <2>1, <2>2
<1>4. LeaseOf(r)' /\ GenerationOf(r)' /\ ReceiptOf(r)'
  BY DEF LeaseOf, GenerationOf, ReceiptOf, Keeping
<1>5. QED
  BY <1>2, <1>3, <1>4, OtherRuns DEF RunInv

\* A run between taking its lock and releasing it that moves on to a place where
\* it works on no stage; one it may have begun and not finished is given.
LEMMA MovingRun ==
    ASSUME TypeInv, PipelineInv, NEW r \in Runs, Others(r), st' = st, art' = art,
           expired' = expired, unrecorded \subseteq unrecorded', job'[r].kind = job[r].kind,
           \A k \in Kinds : lock'[k] \in {lock[k], None} \/ (lock'[k] = r /\ k = job[r].kind),
           job'[r].pc \in {"held", "begin", "release"} \/ (job'[r].pc = "work" /\ ~Pipeline(r)),
           job[r].pc # "dead",
           Unnamed(r) \/ (job'[r].pc = "release" /\ r \in unrecorded')
    PROVE  PipelineInv'
<1>1. RunInv(r)
  BY DEF PipelineInv
<1>2. LockOf(r)'
  BY <1>1, Names DEF RunInv, LockOf, Keeping
<1>3. StageOf(r)'
  BY DEF StageOf, Unnamed
<1>4. LeaseOf(r)'
  BY DEF LeaseOf, Pipeline
<1>5. GenerationOf(r)' /\ ReceiptOf(r)'
  <2>1. CASE Unnamed(r)
    <3>1. ~Leased(r)'
      BY <2>1 DEF Unnamed, Leased, Entry, TypeInv, StateType, State
    <3>2. QED
      BY <3>1 DEF GenerationOf, ReceiptOf
  <2>2. CASE job'[r].pc = "release"
    BY <2>2 DEF GenerationOf, ReceiptOf
  <2>3. QED
    BY <2>1, <2>2
<1>6. QED
  BY <1>2, <1>3, <1>4, <1>5, OtherRuns DEF RunInv

\* A step that writes .pipeline-state.json takes no other run's live stage away.
LEMMA OtherLeases ==
    ASSUME TypeInv, PipelineInv, NEW r \in Runs, Others(r), art' = art,
           expired' = expired, lock' = lock, unrecorded' = unrecorded, NEW q \in Runs, q # r,
           Leased(q)' => Leased(q) /\ st'.gen = st.gen,
           Leased(q) /\ q \notin expired => Leased(q)',
           \A s \in Stages : s \in st'.active /\ st'.stages[s].run = q =>
                                s \in st.active /\ st.stages[s].run = q
    PROVE  RunInv(q)'
<1>1. job'[q] = job[q]
  BY DEF Others
<1>2. RunInv(q)
  BY DEF PipelineInv
<1>3. LockOf(q)'
  BY <1>1, <1>2 DEF RunInv, LockOf
<1>4. StageOf(q)'
  BY <1>1, <1>2 DEF RunInv, StageOf
<1>5. LeaseOf(q)'
  BY <1>1, <1>2 DEF RunInv, LeaseOf
<1>6. GenerationOf(q)' /\ ReceiptOf(q)'
  BY <1>1, <1>2 DEF RunInv, GenerationOf, ReceiptOf, Coherent
<1>7. QED
  BY <1>3, <1>4, <1>5, <1>6 DEF RunInv

\* The entry of a stage that is running is that of the run it names.
LEMMA LeaseParts ==
    ASSUME StateType, NEW r \in Runs
    PROVE  Leased(r) <=> job[r].kind \in st.active /\ st.stages[job[r].kind].run = r
  BY DEF Leased, Entry, StateType, State, ActiveOK

LEMMA LeasePartsNext ==
    ASSUME StateType', NEW r \in Runs
    PROVE  Leased(r)' <=> job'[r].kind \in st'.active /\ st'.stages[job'[r].kind].run = r
  BY DEF Leased, Entry, StateType, State, ActiveOK

\* A stage that names a run at work or about to finish is the one it owns.
LEMMA NamedStage ==
    ASSUME TypeInv, PipelineInv, NEW r \in Runs, job[r].pc \in {"begun", "work", "finish"},
           NEW s \in Stages, s \in st.active, st.stages[s].run = r
    PROVE  s = job[r].kind /\ Pipeline(r) /\ Leased(r)
<1>1. StageOf(r)
  BY DEF PipelineInv, RunInv
<1>2. s = job[r].kind
  BY <1>1 DEF StageOf
<1>3. QED
  BY <1>2, LeaseParts, Names DEF Pipeline, TypeInv

\* The end of a stage is recorded.
LEMMA ClosedRun ==
    ASSUME TypeInv, PipelineInv, StateType', NEW r \in Runs, Leased(r), job[r].pc = "finish",
           Others(r), job'[r].pc = "release", job'[r].kind = job[r].kind,
           UNCHANGED <<lock, expired, art, unrecorded>>,
           NEW x \in {"succeeded", "failed"}, st' = Closed(r, x), x = "succeeded" => job[r].ok
    PROVE  PipelineInv'
<1>1. RunInv(r)
  BY DEF PipelineInv
<1>2. /\ job[r].kind \in Stages
      /\ st'.gen = st.gen /\ st'.active = st.active \ {job[r].kind}
      /\ st'.stages[job[r].kind].status = x
      /\ \A t \in Stages : st'.stages[t].run = st.stages[t].run
      /\ \A t \in Stages \ {job[r].kind} : st'.stages[t] = st.stages[t]
  BY ClosedType DEF TypeInv
<1>3. job[r].kind \in st.active /\ st.stages[job[r].kind].run = r
  BY LeaseParts DEF TypeInv
<1>4. ASSUME NEW q \in Runs, q # r
      PROVE  RunInv(q)'
  <2>1. Leased(q) <=> Leased(q)'
    <3>1. job'[q] = job[q] /\ job[q].kind \in Kinds
      BY <1>4 DEF Others, TypeInv, JobType, Job
    <3>2. st.active \in SUBSET Stages
      BY DEF TypeInv, StateType, State
    <3>3. QED
      BY <1>2, <1>3, <1>4, <3>1, <3>2, LeaseParts, LeasePartsNext DEF TypeInv
  <2>2. QED
    BY <1>2, <1>4, <2>1, OtherLeases
<1>5. RunInv(r)'
  <2>1. LockOf(r)'
    BY <1>1 DEF RunInv, LockOf, Keeping
  <2>2. StageOf(r)'
    BY <1>2, NamedStage DEF StageOf
  <2>3. LeaseOf(r)' /\ GenerationOf(r)' /\ ReceiptOf(r)'
    BY DEF LeaseOf, GenerationOf, ReceiptOf
  <2>4. QED
    BY <2>1, <2>2, <2>3 DEF RunInv
<1>6. AloneInv'
  BY <1>2, <1>3, Names DEF PipelineInv, AloneInv
<1>7. ReceiptInv'
  <2>1. ASSUME NEW s \in Compute, st'.stages[s].status = "succeeded"
        PROVE  Coherent(s)
    <3>1. CASE s = job[r].kind
      <4>1. job[r].ok
        BY <1>2, <2>1, <3>1
      <4>2. QED
        BY <1>1, <2>1, <3>1, <4>1 DEF RunInv, ReceiptOf
    <3>2. CASE s # job[r].kind
      BY <1>2, <2>1, <3>2, Names DEF PipelineInv, ReceiptInv
    <3>3. QED
      BY <3>1, <3>2
  <2>2. QED
    BY <1>2, <2>1 DEF ReceiptInv, Coherent
<1>8. QED
  BY <1>4, <1>5, <1>6, <1>7 DEF PipelineInv

LEMMA FinishRun ==
    ASSUME TypeInv, PipelineInv, NEW r \in Runs, Finish(r) \/ FinishFails(r), StateType'
    PROVE  PipelineInv'
<1>1. Others(r) /\ job'[r].pc = "release" /\ job'[r].kind = job[r].kind
  <2>1. "release" \in PC
    BY DEF PC
  <2>2. QED
    BY <2>1, FinishCases, GotoJob DEF TypeInv
<1>2. UNCHANGED <<lock, expired, art>> /\ job[r].pc = "finish"
  BY FinishCases
<1>3. ASSUME Leased(r), unrecorded' = unrecorded,
             NEW x \in {"succeeded", "failed"}, st' = Closed(r, x), x = "succeeded" => job[r].ok
      PROVE  PipelineInv'
  BY <1>1, <1>2, <1>3, ClosedRun
<1>4. CASE ~(Pipeline(r) /\ Leased(r)) /\ st' = st /\ unrecorded' = unrecorded
  <2>1. Unnamed(r)
    BY <1>2, <1>4, NamedStage DEF Unnamed
  <2>2. QED
    BY <1>1, <1>2, <1>4, <2>1, MovingRun
<1>5. CASE st' = st /\ unrecorded' = unrecorded \cup {r}
  BY <1>1, <1>2, <1>5, MovingRun
<1>6. QED
  BY <1>3, <1>4, <1>5, FinishCases

\* A run exits between begin and PIPELINE_STAGE_ACTIVE=1, or sets it.
LEMMA BegunRun ==
    ASSUME TypeInv, PipelineInv, NEW r \in Runs, Activate(r) \/ ExitBegun(r)
    PROVE  PipelineInv'
<1>1. CASE ExitBegun(r)
  <2>1. Others(r) /\ job'[r].pc = "release" /\ job'[r].kind = job[r].kind
    BY <1>1, GotoJob DEF ExitBegun, PC, TypeInv
  <2>2. UNCHANGED <<lock, expired, st, art>> /\ job[r].pc = "begun" /\ unrecorded' = Unrecorded(r)
    BY <1>1 DEF ExitBegun, At
  <2>3. Unnamed(r) \/ Leased(r)
    BY <2>2, NamedStage DEF Unnamed
  <2>4. QED
    BY <2>1, <2>2, <2>3, MovingRun DEF Unrecorded
<1>2. CASE Activate(r)
  <2>1. /\ Others(r) /\ job'[r].pc = "work" /\ job'[r].kind = job[r].kind
        /\ job'[r].gen = job[r].gen
    BY <1>2, GotoJob DEF Activate, PC, TypeInv
  <2>2. UNCHANGED <<lock, expired, st, art, unrecorded>> /\ job[r].pc = "begun"
    BY <1>2 DEF Activate, At
  <2>3. RunInv(r)
    BY DEF PipelineInv
  <2>4. Leased(r)' <=> Leased(r)
    BY <2>1, <2>2 DEF Leased, Entry
  <2>5. LockOf(r)' /\ StageOf(r)'
    BY <2>1, <2>2, <2>3 DEF RunInv, LockOf, StageOf, Keeping, Serving
  <2>6. LeaseOf(r)' /\ GenerationOf(r)' /\ ReceiptOf(r)'
    BY <2>1, <2>2, <2>3, <2>4 DEF RunInv, LeaseOf, GenerationOf, ReceiptOf
  <2>7. QED
    BY <2>1, <2>2, <2>5, <2>6, OtherRuns DEF RunInv
<1>3. QED
  BY <1>1, <1>2

\* begin, whether it admits the run or only writes what it has recovered: of the
\* other runs, those whose heartbeats are fresh keep their stage.
LEMMA BeginOthers ==
    ASSUME TypeInv, PipelineInv, NEW r \in Runs, Begin(r), StateType', Others(r),
           NEW q \in Runs, q # r
    PROVE  RunInv(q)'
<1>1. UNCHANGED <<lock, expired, art, unrecorded>>
  BY DEF Begin
<1>2. job'[q] = job[q] /\ job[q].kind \in Kinds
  BY DEF Others, TypeInv, JobType, Job
<1>3. st.active \in SUBSET Stages /\ Recovered.active \in SUBSET Stages
  BY RecoveredType DEF TypeInv, StateType, State
<1>4. ASSUME NEW s \in st.active, st.stages[s].run \notin expired
      PROVE  s \in Recovered.active
  BY <1>4, RecoveredType DEF TypeInv
<1>5. CASE ~Admissible(job[r].kind, Recovered)
  <2>1. st' = Recovered
    BY <1>5 DEF Begin
  <2>2. ASSUME NEW s \in Stages, s \in st'.active
        PROVE  s \in st.active /\ st'.stages[s] = st.stages[s]
    BY <2>1, <2>2, RecoveredType DEF TypeInv
  <2>3. st'.gen = st.gen
    BY <2>1, RecoveredType DEF TypeInv
  <2>4. Leased(q)' => Leased(q)
    BY <1>2, <1>3, <2>1, <2>2, LeaseParts, LeasePartsNext DEF TypeInv
  <2>5. Leased(q) /\ q \notin expired => Leased(q)'
    BY <1>2, <1>3, <1>4, <2>1, <2>2, LeaseParts, LeasePartsNext DEF TypeInv
  <2>6. QED
    BY <1>1, <2>2, <2>3, <2>4, <2>5, OtherLeases
<1>6. CASE Admissible(job[r].kind, Recovered)
  <2>1. /\ job[r].kind \in Stages
        /\ st'.gen = (IF job[r].kind = "ingest" THEN r ELSE st.gen)
        /\ st'.active = Recovered.active \cup {job[r].kind}
        /\ st'.stages[job[r].kind] = [status |-> "running", run |-> r]
        /\ \A t \in Stages \ {job[r].kind} :
              st'.stages[t] = IF job[r].kind = "ingest" THEN Blank[t] ELSE Recovered.stages[t]
    BY <1>6, BeginType DEF TypeInv
  <2>2. /\ job[r].kind \notin Recovered.active
        /\ job[r].kind = "ingest" => Recovered.active = {}
    BY <1>6 DEF Admissible
  <2>3. ASSUME NEW s \in Stages, s \in st'.active, s # job[r].kind
        PROVE  /\ s \in st.active /\ s \in Recovered.active /\ st'.stages[s] = st.stages[s]
               /\ job[r].kind # "ingest"
    BY <2>1, <2>2, <2>3, RecoveredType DEF TypeInv
  <2>4. ASSUME NEW s \in Stages, s \in st'.active, st'.stages[s].run = q
        PROVE  /\ s # job[r].kind /\ s \in st.active /\ st.stages[s].run = q
               /\ st'.gen = st.gen
    BY <2>1, <2>3, <2>4
  <2>5. Leased(q)' => Leased(q) /\ st'.gen = st.gen
    <3>1. st'.active \in SUBSET Stages
      BY DEF StateType, State
    <3>2. QED
      BY <1>2, <2>4, <3>1, LeaseParts, LeasePartsNext DEF TypeInv
  <2>6. Leased(q) /\ q \notin expired => Leased(q)'
    <3>1. SUFFICES ASSUME Leased(q), q \notin expired
                   PROVE  Leased(q)'
      OBVIOUS
    <3>2. job[q].kind \in st.active /\ st.stages[job[q].kind].run = q
      BY <3>1, LeaseParts DEF TypeInv
    <3>3. job[q].kind \in Recovered.active
      BY <1>4, <3>1, <3>2
    <3>4. job[q].kind \in st'.active /\ job[q].kind # job[r].kind
      BY <2>1, <2>2, <3>3
    <3>5. st'.stages[job[q].kind].run = q
      BY <1>3, <2>3, <3>2, <3>4
    <3>6. QED
      BY <1>2, <3>4, <3>5, LeasePartsNext
  <2>7. QED
    BY <1>1, <2>4, <2>5, <2>6, OtherLeases
<1>7. QED
  BY <1>5, <1>6

LEMMA BeginRun ==
    ASSUME TypeInv, PipelineInv, NEW r \in Runs, Begin(r), StateType'
    PROVE  PipelineInv'
<1>1. RunInv(r) /\ job[r].pc = "begin"
  BY DEF PipelineInv, Begin, At
<1>2. UNCHANGED <<lock, expired, art, unrecorded>>
  BY DEF Begin
<1>3. ASSUME NEW s \in Stages, s \in st.active
      PROVE  st.stages[s].run # r
  BY <1>1, <1>3 DEF RunInv, StageOf, Serving
<1>4. CASE ~Admissible(job[r].kind, Recovered)
  <2>1. "release" \in PC
    BY DEF PC
  <2>2. st' = Recovered /\ Goto(r, "release")
    BY <1>4 DEF Begin
  <2>3. Others(r) /\ job'[r].pc = "release" /\ job'[r].kind = job[r].kind
    BY <2>1, <2>2, GotoJob DEF TypeInv
  <2>4. LockOf(r)'
    BY <1>1, <1>2, <2>3 DEF RunInv, LockOf, Keeping
  <2>5. StageOf(r)'
    BY <1>3, <2>2, RecoveredType DEF StageOf, TypeInv
  <2>6. LeaseOf(r)' /\ GenerationOf(r)' /\ ReceiptOf(r)'
    BY <2>3 DEF LeaseOf, GenerationOf, ReceiptOf
  <2>7. AloneInv'
    <3>1. \A s \in Compute : st.stages[s].status = "succeeded" => st'.stages[s].status = "succeeded"
      BY <2>2, RecoveredType, Names DEF TypeInv, StateType, ActiveOK
    <3>2. QED
      BY <2>2, <3>1, RecoveredType DEF TypeInv, PipelineInv, AloneInv
  <2>8. ReceiptInv'
    <3>1. ASSUME NEW s \in Compute, st'.stages[s].status = "succeeded"
          PROVE  st.stages[s].status = "succeeded"
      BY <2>2, <3>1, RecoveredType, Names DEF TypeInv
    <3>2. st'.gen = st.gen
      BY <2>2, RecoveredType DEF TypeInv
    <3>3. QED
      BY <1>2, <3>1, <3>2 DEF PipelineInv, ReceiptInv, Coherent
  <2>9. QED
    BY <2>3, <2>4, <2>5, <2>6, <2>7, <2>8, BeginOthers DEF PipelineInv, RunInv
<1>5. CASE Admissible(job[r].kind, Recovered)
  <2>1. /\ Others(r) /\ job[r].kind \in Stages
        /\ job'[r].pc = "begun" /\ job'[r].kind = job[r].kind /\ job'[r].gen = st'.gen
        /\ st'.gen = (IF job[r].kind = "ingest" THEN r ELSE st.gen)
        /\ st'.active = Recovered.active \cup {job[r].kind}
        /\ st'.stages[job[r].kind] = [status |-> "running", run |-> r]
        /\ \A t \in Stages \ {job[r].kind} :
              st'.stages[t] = IF job[r].kind = "ingest" THEN Blank[t] ELSE Recovered.stages[t]
    BY <1>5, BeginType DEF TypeInv
  <2>2. Recovered.active \subseteq st.active /\ Recovered.active \subseteq Stages
    BY RecoveredType DEF TypeInv, StateType, State
  <2>3. \/ job[r].kind = "ingest" /\ Recovered.active = {}
        \/ job[r].kind \in Compute /\ Recovered.active \subseteq Compute
        \/ /\ job[r].kind = "publish" /\ Recovered.active = {}
           /\ \A s \in Compute : Recovered.stages[s].status = "succeeded"
    <3>1. CASE job[r].kind \in Compute
      BY <1>5, <3>1, Names DEF Admissible
    <3>2. CASE job[r].kind = "publish"
      <4>1. Prerequisites("publish") = Compute
        BY Names DEF Prerequisites
      <4>2. QED
        BY <1>5, <3>2, <4>1, Names DEF Admissible
    <3>3. CASE job[r].kind = "ingest"
      BY <1>5, <3>3 DEF Admissible
    <3>4. QED
      BY <2>1, <3>1, <3>2, <3>3 DEF Stages
  <2>4. LockOf(r)'
    BY <1>1, <1>2, <2>1 DEF RunInv, LockOf, Keeping
  <2>5. StageOf(r)'
    <3>1. ASSUME NEW s \in Stages, s \in st'.active, st'.stages[s].run = r
          PROVE  s = job[r].kind
      <4>1. SUFFICES ASSUME s # job[r].kind PROVE FALSE
        OBVIOUS
      <4>2. s \in Recovered.active /\ job[r].kind # "ingest"
        BY <2>1, <2>3, <3>1, <4>1, Names
      <4>3. st.stages[s].run = r
        BY <2>1, <3>1, <4>1, <4>2, RecoveredType DEF TypeInv
      <4>4. QED
        BY <1>3, <2>2, <4>2, <4>3
    <3>2. QED
      BY <2>1, <3>1 DEF StageOf, Serving
  <2>6. Leased(r)'
    BY <2>1, LeasePartsNext
  <2>7. LeaseOf(r)' /\ GenerationOf(r)' /\ ReceiptOf(r)'
    BY <2>1, <2>6 DEF LeaseOf, GenerationOf, ReceiptOf
  <2>8. AloneInv'
    <3>1. "ingest" \in st'.active => st'.active = {"ingest"}
      BY <2>1, <2>3, Names
    <3>2. ASSUME "publish" \in st'.active
          PROVE  st'.active = {"publish"} /\ \A s \in Compute : st'.stages[s].status = "succeeded"
      BY <2>1, <2>3, <3>2, Names
    <3>3. QED
      BY <3>1, <3>2 DEF AloneInv
  <2>9. ReceiptInv'
    <3>1. ASSUME NEW s \in Compute, st'.stages[s].status = "succeeded"
          PROVE  st.stages[s].status = "succeeded" /\ st'.gen = st.gen
      <4>1. s \in Stages \ {job[r].kind} /\ job[r].kind # "ingest"
        BY <2>1, <3>1, Names DEF Blank
      <4>2. QED
        BY <2>1, <3>1, <4>1, RecoveredType DEF TypeInv
    <3>2. QED
      BY <1>2, <3>1 DEF PipelineInv, ReceiptInv, Coherent
  <2>10. QED
    BY <2>1, <2>4, <2>5, <2>7, <2>8, <2>9, BeginOthers DEF PipelineInv, RunInv
<1>6. QED
  BY <1>4, <1>5

\* The driver of a run that has lost its stage leaves artifacts without a lease,
\* and so does a full refresh; the owner of a stage writes those of the present
\* generation.
LEMMA WorkRun ==
    ASSUME TypeInv, PipelineInv, NEW r \in Runs, NEW wrote \in BOOLEAN, NEW good \in BOOLEAN,
           Work(r, wrote, good)
    PROVE  PipelineInv'
<1>1. /\ Others(r) /\ job'[r].pc = "finish" /\ job'[r].kind = job[r].kind
      /\ job'[r].gen = job[r].gen /\ job'[r].ok = good
  BY WorkJob DEF TypeInv
<1>2. UNCHANGED <<lock, expired, st, unrecorded>> /\ job[r].pc = "work" /\ (good => wrote)
  BY DEF Work, At
<1>3. RunInv(r)
  BY DEF PipelineInv
<1>4. ASSUME NEW s \in Compute, wrote, s \in Writes(r)
      PROVE  Coherent(s)'
  <2>1. art'[s] = [gen |-> job[r].gen, leased |-> Pipeline(r) /\ Leased(r)]
    BY <1>4 DEF Work
  <2>2. CASE Pipeline(r) /\ Leased(r)
    BY <1>2, <1>3, <2>1, <2>2 DEF RunInv, GenerationOf, Coherent
  <2>3. CASE ~(Pipeline(r) /\ Leased(r))
    <3>1. art'[s].leased = (Pipeline(r) /\ Leased(r))
      BY <2>1
    <3>2. ~art'[s].leased
      BY <2>3, <3>1, Zenon
    <3>3. QED
      BY <3>2 DEF Coherent
  <2>4. QED
    BY <2>2, <2>3
<1>5. ASSUME NEW s \in Compute, Coherent(s)
      PROVE  Coherent(s)'
  <2>1. CASE wrote /\ s \in Writes(r)
    BY <1>4, <2>1
  <2>2. CASE ~(wrote /\ s \in Writes(r))
    <3>1. art'[s] = art[s]
      BY <2>2 DEF Work
    <3>2. QED
      BY <1>2, <1>5, <3>1 DEF Coherent
  <2>3. QED
    BY <2>1, <2>2
<1>6. ASSUME NEW q \in Runs, q # r
      PROVE  RunInv(q)'
  <2>1. job'[q] = job[q] /\ RunInv(q)
    BY <1>1, <1>6 DEF Others, PipelineInv
  <2>2. Leased(q)' <=> Leased(q)
    BY <1>2, <2>1 DEF Leased, Entry
  <2>3. LockOf(q)'
    BY <1>2, <2>1 DEF RunInv, LockOf
  <2>4. StageOf(q)'
    BY <1>2, <2>1 DEF RunInv, StageOf
  <2>5. LeaseOf(q)' /\ GenerationOf(q)'
    BY <1>2, <2>1, <2>2 DEF RunInv, LeaseOf, GenerationOf
  <2>6. ReceiptOf(q)'
    BY <1>5, <2>1, <2>2 DEF RunInv, ReceiptOf
  <2>7. QED
    BY <2>3, <2>4, <2>5, <2>6 DEF RunInv
<1>7. RunInv(r)'
  <2>1. Leased(r)' <=> Leased(r)
    BY <1>1, <1>2 DEF Leased, Entry
  <2>2. LockOf(r)'
    BY <1>1, <1>2, <1>3 DEF RunInv, LockOf, Keeping
  <2>3. StageOf(r)'
    BY <1>1, <1>2, <1>3 DEF RunInv, StageOf, Serving
  <2>4. LeaseOf(r)' /\ GenerationOf(r)'
    BY <1>1, <1>2, <1>3, <2>1 DEF RunInv, LeaseOf, GenerationOf
  <2>5. ReceiptOf(r)'
    <3>1. ASSUME NEW s \in Compute, s = job[r].kind, good
          PROVE  Coherent(s)'
      <4>1. s \in Writes(r)
        BY <3>1, Names DEF Writes, Pipeline
      <4>2. QED
        BY <1>2, <1>4, <3>1, <4>1
    <3>2. QED
      BY <1>1, <3>1 DEF ReceiptOf
  <2>6. QED
    BY <2>2, <2>3, <2>4, <2>5 DEF RunInv
<1>8. AloneInv' /\ ReceiptInv'
  BY <1>2, <1>5 DEF PipelineInv, AloneInv, ReceiptInv
<1>9. QED
  BY <1>6, <1>7, <1>8 DEF PipelineInv

LEMMA PipelineStep == TypeInv /\ TypeInv' /\ PipelineInv /\ [Next]_vars => PipelineInv'
<1> SUFFICES ASSUME TypeInv, StateType', PipelineInv, [Next]_vars
             PROVE  PipelineInv'
  BY DEF TypeInv
<1> USE DEF TypeInv
<1>1. CASE UNCHANGED vars
  BY <1>1 DEF vars, PipelineInv, RunInv, LockOf, StageOf, LeaseOf, GenerationOf, ReceiptOf,
              AloneInv, ReceiptInv, Coherent, Leased, Entry
<1>2. ASSUME NEW r \in Runs, NEW k \in KindsOf[r], Start(r, k)
      PROVE  PipelineInv'
  <2>1. Others(r) /\ job[r].pc \notin Keeping /\ job'[r].pc \notin Keeping
    BY <1>2, StartJob DEF Keeping
  <2>2. /\ st' = st /\ art' = art /\ lock' = lock /\ expired' = expired \ {r}
        /\ unrecorded' = unrecorded
    BY <1>2 DEF Start
  <2>3. job[r].pc = "end" => Unnamed(r)
    BY <1>2 DEF Start, At, Holds, Unnamed
  <2>4. QED
    BY <2>1, <2>2, <2>3, QuietRun
<1>3. ASSUME NEW r \in Runs, Kill(r)
      PROVE  PipelineInv'
  <2>1. Others(r) /\ job'[r].pc = "dead"
    BY <1>3, KillJob
  <2>2. UNCHANGED <<st, art, lock, expired, unrecorded>>
    BY <1>3 DEF Kill
  <2>3. QED
    BY <2>1, <2>2, QuietRun
<1>8. ASSUME NEW r \in Runs, Resume(r)
      PROVE  PipelineInv'
  <2>1. /\ UNCHANGED <<job, lock, st, art, unrecorded>> /\ expired' = expired \ {r} /\ Others(r)
        /\ job[r].pc \in {"begun", "work"} /\ job[r].kind # "all" => Leased(r)
    BY <1>8 DEF Resume, Others, Pipeline, At
  <2>2. RunInv(r)'
    BY <2>1 DEF PipelineInv, RunInv, LockOf, StageOf, LeaseOf, GenerationOf, ReceiptOf, Coherent,
                Leased, Entry
  <2>3. QED
    BY <2>1, <2>2, OtherRuns
<1>4. ASSUME NEW r \in Runs, Expire(r) \/ Hang(r)
      PROVE  PipelineInv'
  <2>1. UNCHANGED <<job, lock, st, art, unrecorded>> /\ expired \subseteq expired' /\ Others(r)
    BY <1>4 DEF Expire, Hang, Others
  <2>2. RunInv(r)'
    BY <2>1 DEF PipelineInv, RunInv, LockOf, StageOf, LeaseOf, GenerationOf, ReceiptOf, Coherent,
                Leased, Entry
  <2>3. QED
    BY <2>1, <2>2, OtherRuns
<1>5. ASSUME NEW r \in Runs, Heartbeat(r)
      PROVE  PipelineInv'
  <2>1. /\ Others(r) /\ job'[r].pc = job[r].pc /\ job'[r].kind = job[r].kind
        /\ job'[r].gen = job[r].gen /\ job'[r].ok = job[r].ok
    BY <1>5, HeartbeatJob
  <2>2. UNCHANGED <<lock, expired, st, art, unrecorded>>
    BY <1>5 DEF Heartbeat
  <2>3. RunInv(r)'
    BY <2>1, <2>2 DEF PipelineInv, RunInv, LockOf, StageOf, LeaseOf, GenerationOf, ReceiptOf,
                      Coherent, Leased, Entry
  <2>4. QED
    BY <2>1, <2>2, <2>3, OtherRuns
<1>6. ASSUME NEW r \in Runs, Step(r)
      PROVE  PipelineInv'
  <2>1. CASE Admit(r) \/ AdmissionBusy(r) \/ AdmissionStale(r) \/ AdmissionWait(r) \/ AdmissionMove(r)
    <3>1. Others(r) /\ job[r].pc \notin Keeping \cup {"end"} /\ job'[r].pc \notin Keeping
      BY <2>1, GotoJob, EndJob
      DEF Admit, AdmissionBusy, AdmissionStale, AdmissionWait, AdmissionMove, At, PC, Keeping
    <3>2. UNCHANGED <<lock, expired, st, art, unrecorded>>
      BY <2>1 DEF Admit, AdmissionBusy, AdmissionStale, AdmissionWait, AdmissionMove
    <3>3. QED
      BY <3>1, <3>2, QuietRun
  <2>2. CASE Scan(r)
    <3>1. \A name \in Kinds : <<name, lock[name]>> \in Kinds \X Owner
      BY DEF LockType
    <3>2. ASSUME NEW name \in Kinds, job' = Noted(job, r, <<name, lock[name]>>, "recheck")
          PROVE  Others(r) /\ job'[r].pc \notin Keeping
      BY <3>1, <3>2, SeenJob DEF PC, Keeping
    <3>3. ASSUME NEW i \in Held(job[r].kind)
          PROVE  Conflicts(job[r].kind)[i] \in Kinds
      BY DEF Held
    <3>4. Others(r) /\ job'[r].pc \notin Keeping
      BY <2>2, <3>2, <3>3, GotoJob, EndJob DEF Scan, PC, Noted, Keeping
    <3>5. UNCHANGED <<lock, expired, st, art, unrecorded>> /\ job[r].pc \notin Keeping \cup {"end"}
      BY <2>2 DEF Scan, At, Keeping
    <3>6. QED
      BY <3>4, <3>5, QuietRun
  <2>3. CASE Recheck(r) \/ OwnRecheck(r)
    <3>1. Others(r) /\ job[r].pc \notin Keeping \cup {"end"} /\ job'[r].pc \notin Keeping
      BY <2>3, GotoJob, EndJob DEF Recheck, OwnRecheck, At, PC, Keeping
    <3>2. UNCHANGED <<lock, expired, st, art, unrecorded>>
      BY <2>3 DEF Recheck, OwnRecheck
    <3>3. QED
      BY <3>1, <3>2, QuietRun
  <2>4. CASE Move(r)
    <3>1. Others(r) /\ job[r].pc \notin Keeping \cup {"end"} /\ job'[r].pc \notin Keeping
      BY <2>4, GotoJob, EndJob DEF Move, At, PC, Keeping
    <3>2. UNCHANGED <<expired, st, art, unrecorded>> /\ \A k \in Kinds : lock'[k] \in {lock[k], None}
      BY <2>4 DEF Move, LockType
    <3>3. QED
      BY <3>1, <3>2, QuietRun
  <2>5. CASE Mkdir(r)
    <3>1. UNCHANGED <<expired, st, art, unrecorded>> /\ job[r].pc = "mkdir"
      BY <2>5 DEF Mkdir, At
    <3>2. CASE lock[job[r].kind] = None
      <4>1. Others(r) /\ job'[r].pc = "held" /\ job'[r].kind = job[r].kind
        BY <2>5, <3>2, GotoJob DEF Mkdir, PC
      <4>2. \A k \in Kinds : lock'[k] = lock[k] \/ (lock'[k] = r /\ k = job[r].kind)
        BY <2>5, <3>2 DEF Mkdir, LockType
      <4>3. Unnamed(r)
        BY <3>1 DEF PipelineInv, RunInv, StageOf, Serving, Unnamed
      <4>4. QED
        BY <3>1, <4>1, <4>2, <4>3, MovingRun
    <3>3. CASE lock[job[r].kind] # None
      <4>1. Others(r) /\ job'[r].pc = "own" /\ lock' = lock
        BY <2>5, <3>3, GotoJob DEF Mkdir, PC
      <4>2. QED
        BY <3>1, <4>1, QuietRun DEF Keeping
    <3>4. QED
      BY <3>2, <3>3
  <2>6. CASE Enter(r)
    <3>1. /\ Others(r) /\ job'[r].kind = job[r].kind
          /\ job'[r].pc = "begin" \/ (job'[r].pc = "work" /\ ~Pipeline(r))
      BY <2>6, EnterJob
    <3>2. UNCHANGED <<lock, expired, st, art, unrecorded>> /\ job[r].pc = "held"
      BY <2>6 DEF Enter, At
    <3>3. Unnamed(r)
      BY <3>2 DEF PipelineInv, RunInv, StageOf, Serving, Unnamed
    <3>4. QED
      BY <3>1, <3>2, <3>3, MovingRun
  <2>7. CASE Own(r)
    <3>1. <<job[r].kind, lock[job[r].kind]>> \in Kinds \X Owner
      BY DEF JobType, Job, LockType
    <3>2. "ownrecheck" \in PC
      BY DEF PC
    <3>3. Others(r) /\ job'[r].pc \in {"ownrecheck", "end"}
      BY <2>7, <3>1, <3>2, SeenJob, EndJob DEF Own, Noted
    <3>4. UNCHANGED <<lock, expired, st, art, unrecorded>> /\ job[r].pc = "own"
      BY <2>7 DEF Own, At
    <3>5. QED
      BY <3>3, <3>4, QuietRun DEF Keeping
  <2>8. CASE OwnMove(r)
    <3>1. Others(r) /\ job'[r].pc \in {"end", "admission"}
      BY <2>8, OwnMoveJob
    <3>2. UNCHANGED <<expired, st, art, unrecorded>> /\ job[r].pc = "ownmove"
      BY <2>8 DEF OwnMove, At
    <3>3. \A k \in Kinds : lock'[k] \in {lock[k], None}
      BY <2>8 DEF OwnMove, LockType
    <3>4. QED
      BY <3>1, <3>2, <3>3, QuietRun DEF Keeping
  <2>9. CASE Begin(r)
    BY <2>9, BeginRun
  <2>10. CASE GiveUp(r)
    <3>1. Others(r) /\ job'[r].pc = "release" /\ job'[r].kind = job[r].kind
      BY <2>10, GotoJob DEF GiveUp, PC
    <3>2. UNCHANGED <<lock, expired, st, art, unrecorded>> /\ job[r].pc = "begin"
      BY <2>10 DEF GiveUp, At
    <3>3. Unnamed(r)
      BY <3>2 DEF PipelineInv, RunInv, StageOf, Serving, Unnamed
    <3>4. QED
      BY <3>1, <3>2, <3>3, MovingRun
  <2>11. CASE Finish(r) \/ FinishFails(r)
    BY <2>11, FinishRun
  <2>14. CASE Activate(r) \/ ExitBegun(r)
    BY <2>14, BegunRun
  <2>15. CASE EnterFails(r)
    <3>1. Others(r) /\ job'[r].pc = "end"
      BY <2>15, EndJob DEF EnterFails
    <3>2. UNCHANGED <<expired, st, art, unrecorded>> /\ job[r].pc = "held"
      BY <2>15 DEF EnterFails, At
    <3>3. \A k \in Kinds : lock'[k] \in {lock[k], None}
      BY <2>15 DEF EnterFails, LockType
    <3>4. RunInv(r)
      BY DEF PipelineInv
    <3>5. LockOf(r)'
      <4>1. ASSUME NEW k \in Kinds
            PROVE  lock'[k] # r
        BY <2>15, <3>2, <3>4, Names DEF EnterFails, LockType, RunInv, LockOf
      <4>2. QED
        BY <4>1 DEF LockOf
    <3>6. StageOf(r)'
      BY <3>2, <3>4 DEF RunInv, StageOf, Serving
    <3>7. LeaseOf(r)' /\ GenerationOf(r)' /\ ReceiptOf(r)'
      BY <3>1 DEF LeaseOf, GenerationOf, ReceiptOf
    <3>8. QED
      BY <3>1, <3>2, <3>3, <3>5, <3>6, <3>7, OtherRuns DEF RunInv
  <2>12. CASE Release(r)
    <3>1. Others(r) /\ job'[r].pc = "end"
      BY <2>12, EndJob DEF Release
    <3>2. UNCHANGED <<expired, st, art, unrecorded>> /\ job[r].pc = "release"
      BY <2>12 DEF Release, At
    <3>3. \A k \in Kinds : lock'[k] \in {lock[k], None}
      BY <2>12 DEF Release, LockType
    <3>4. RunInv(r)
      BY DEF PipelineInv
    <3>5. LockOf(r)'
      <4>1. ASSUME NEW k \in Kinds
            PROVE  lock'[k] # r
        BY <2>12, <3>2, <3>4, Names DEF Release, LockType, RunInv, LockOf
      <4>2. QED
        BY <4>1 DEF LockOf
    <3>6. StageOf(r)'
      BY <3>1, <3>2, <3>4 DEF RunInv, StageOf, Serving
    <3>7. LeaseOf(r)' /\ GenerationOf(r)' /\ ReceiptOf(r)'
      BY <3>1 DEF LeaseOf, GenerationOf, ReceiptOf
    <3>8. QED
      BY <3>1, <3>2, <3>3, <3>5, <3>6, <3>7, OtherRuns DEF RunInv
  <2>13. QED
    BY <1>6, <2>1, <2>2, <2>3, <2>4, <2>5, <2>6, <2>7, <2>8, <2>9, <2>10, <2>11, <2>12,
       <2>14, <2>15, WorkRun
    DEF Step
<1>7. QED
  BY <1>1, <1>2, <1>3, <1>4, <1>5, <1>6, <1>8 DEF Next

LEMMA PipelineInit == Init => PipelineInv
<1> SUFFICES ASSUME Init PROVE PipelineInv
  OBVIOUS
<1>1. /\ \A r \in Runs : job[r].pc = "new"
      /\ \A k \in Kinds : lock[k] = None
      /\ st.active = {} /\ \A s \in Stages : st.stages[s].status = "pending"
  BY DEF Init, Fresh, Blank
<1>2. ASSUME NEW r \in Runs
      PROVE  RunInv(r)
  BY <1>1, Names DEF RunInv, LockOf, StageOf, LeaseOf, GenerationOf, ReceiptOf
<1>3. QED
  BY <1>1, <1>2, Names DEF PipelineInv, AloneInv, ReceiptInv

LEMMA PipelineAlways == Spec => [](TypeInv /\ PipelineInv)
  BY TypeInit, TypeStep, PipelineInit, PipelineStep, PTL DEF Spec

\* However a job fails, and however its locks are fought over, when it has ended
\* by itself no lock names it, and a running stage does only if the job gave its
\* lock up in one of the two windows of run-refresh.sh: between begin and
\* PIPELINE_STAGE_ACTIVE=1, or with neither complete nor fail recorded.
THEOREM StrandedStages == Spec => []StrandedOnlyUnrecorded
<1>1. ASSUME TypeInv, PipelineInv
      PROVE  StrandedOnlyUnrecorded
  <2>1. ASSUME NEW r \in Runs, job[r].pc = "end"
        PROVE  /\ \A k \in Kinds : lock[k] # r
               /\ \A s \in st.active : st.stages[s].run = r => r \in unrecorded
    <3>1. RunInv(r) /\ st.active \in SUBSET Stages
      BY <1>1 DEF PipelineInv, TypeInv, StateType, State
    <3>2. QED
      BY <2>1, <3>1 DEF RunInv, LockOf, StageOf, Keeping, Serving
  <2>2. QED
    BY <2>1 DEF StrandedOnlyUnrecorded, At
<1>2. QED
  BY <1>1, PipelineAlways, PTL

\* At most one of the runs that work on a stage of the pipeline has heartbeats
\* that are fresh: that one owns the stage in .pipeline-state.json, however many
\* recoveries of the stage's lock have raced.
THEOREM StageExclusiveHolds == Spec => []StageExclusive
<1>1. ASSUME TypeInv, PipelineInv
      PROVE  StageExclusive
  <2>1. ASSUME NEW r \in Runs, NEW q \in Runs, At(r, "work"), At(q, "work"), Pipeline(r),
               job[r].kind = job[q].kind, r \notin expired, q \notin expired
        PROVE  r = q
    <3>1. Leased(r) /\ Leased(q)
      BY <1>1, <2>1 DEF PipelineInv, RunInv, LeaseOf, At, Pipeline
    <3>2. QED
      BY <1>1, <2>1, <3>1, LeaseParts DEF TypeInv
  <2>2. QED
    BY <2>1 DEF StageExclusive
<1>2. QED
  BY <1>1, PipelineAlways, PTL

\* A run that publishes joins artifacts of its own generation, whatever runs were
\* killed, expired or recovered on the way; all others were written without a
\* lease on their stage.
THEOREM JoinCoherentHolds == Spec => []JoinCoherent
<1>1. ASSUME TypeInv, PipelineInv
      PROVE  JoinCoherent
  <2>1. ASSUME NEW r \in Runs, job[r].kind = "publish", At(r, "work"), Leased(r),
               NEW s \in Compute
        PROVE  art[s].gen = job[r].gen \/ ~art[s].leased
    <3>1. job[r].gen = st.gen /\ "publish" \in st.active
      BY <1>1, <2>1 DEF PipelineInv, RunInv, GenerationOf, At, Leased
    <3>2. Coherent(s)
      BY <1>1, <3>1 DEF PipelineInv, AloneInv, ReceiptInv
    <3>3. QED
      BY <3>1, <3>2 DEF Coherent
  <2>2. QED
    BY <2>1 DEF JoinCoherent
<1>2. QED
  BY <1>1, PipelineAlways, PTL

-----------------------------------------------------------------------------
(* Full refreshes and the pipeline.                                        *)

\* Where a run is while it holds the admission lock, as long as none is robbed.
Admitted == {"scan", "recheck", "move", "mkdir", "held"}
AdmissionOf(r) == job[r].pc \in Admitted => adm = r

\* What a run has made sure of when it comes to its mkdir: a stage that no full
\* refresh has its lock, a full refresh that has recovered no lock that no stage
\* has one.
ScanOf(r) ==
    /\ job[r].pc \in {"recheck", "move"} =>
           /\ job[r].seen # Unseen
           /\ job[r].kind # "all" => job[r].seen[1] = "all" \/ lock["all"] = None
    /\ job[r].pc = "mkdir" =>
           /\ job[r].kind # "all" => lock["all"] = None
           /\ job[r].kind = "all" /\ job[r].seen = Unseen => \A s \in Stages : lock[s] = None

\* A full refresh that has recovered no lock holds its own beside no other.
FullOf(r) ==
    lock["all"] = r /\ job[r].pc # "dead" /\ job[r].seen = Unseen =>
        \A s \in Stages : lock[s] = None

ModeOf(r) == AdmissionOf(r) /\ ScanOf(r) /\ FullOf(r)
ModesInv == ~robbed => \A r \in Runs : ModeOf(r)

\* A step that takes no lock leaves the other runs what they have made sure of.
LEMMA OtherModes ==
    ASSUME TypeInv, \A q \in Runs : ModeOf(q), NEW r \in Runs, Others(r),
           \A k \in Kinds : lock'[k] \in {lock[k], None},
           \A q \in Runs : q # r /\ adm = q => adm' = q,
           ModeOf(r)'
    PROVE  \A q \in Runs : ModeOf(q)'
<1>1. SUFFICES ASSUME NEW q \in Runs, q # r
               PROVE  ModeOf(q)'
  OBVIOUS
<1>2. job'[q] = job[q] /\ ModeOf(q)
  BY <1>1 DEF Others
<1>3. "all" \in Kinds /\ Stages \subseteq Kinds
  BY DEF Kinds
<1>4. AdmissionOf(q)'
  BY <1>1, <1>2 DEF ModeOf, AdmissionOf
<1>5. ScanOf(q)'
  BY <1>2, <1>3 DEF ModeOf, ScanOf, Unseen
<1>6. FullOf(q)'
  BY <1>2, <1>3, Names DEF ModeOf, FullOf, Unseen
<1>7. QED
  BY <1>4, <1>5, <1>6 DEF ModeOf

\* Steps outside of the admission lock, or out of it.
LEMMA OutsideModes ==
    ASSUME TypeInv, PipelineInv, \A q \in Runs : ModeOf(q), NEW r \in Runs, Others(r),
           \A k \in Kinds : lock'[k] \in {lock[k], None},
           \A q \in Runs : q # r /\ adm = q => adm' = q,
           job'[r].pc \notin Admitted,
           \/ job'[r].pc = "dead" \/ job[r].pc \notin Keeping
           \/ lock'["all"] # r \/ (job'[r].seen = job[r].seen /\ job[r].pc # "dead")
    PROVE  \A q \in Runs : ModeOf(q)'
<1>1. AdmissionOf(r)' /\ ScanOf(r)'
  BY DEF AdmissionOf, ScanOf, Admitted
<1>2. "all" \in Kinds /\ Stages \subseteq Kinds
  BY DEF Kinds
<1>3. FullOf(r)'
  <2>1. SUFFICES ASSUME lock'["all"] = r, job'[r].pc # "dead", job'[r].seen = Unseen
                 PROVE  \A s \in Stages : lock'[s] = None
    BY DEF FullOf, Unseen
  <2>2. lock["all"] = r
    BY <1>2, <2>1, Names
  <2>3. job[r].pc \in Keeping
    BY <1>2, <2>2 DEF PipelineInv, RunInv, LockOf
  <2>4. job[r].seen = Unseen /\ job[r].pc # "dead"
    BY <2>1, <2>3
  <2>5. \A s \in Stages : lock[s] = None
    BY <2>2, <2>4 DEF ModeOf, FullOf
  <2>6. QED
    BY <1>2, <2>5
<1>4. QED
  BY <1>1, <1>3, OtherModes DEF ModeOf

\* The scan: of the locks it looks for, none exists when it goes on to mkdir, and
\* the first that does is what it notes.
LEMMA ScanModes ==
    ASSUME TypeInv, PipelineInv, \A q \in Runs : ModeOf(q), NEW r \in Runs, Scan(r)
    PROVE  \A q \in Runs : ModeOf(q)'
<1> USE DEF TypeInv
<1>1. lock' = lock /\ job[r].pc = "scan" /\ job[r].kind \in Kinds
  BY DEF Scan, At, JobType, Job
<1>2. lock["all"] # r
  BY <1>1 DEF PipelineInv, RunInv, LockOf, Keeping, Kinds
<1>3. adm = r /\ \A q \in Runs : q # r => adm # q
  BY <1>1 DEF ModeOf, AdmissionOf, Admitted
<1>4. CASE Held(job[r].kind) = {} /\ Goto(r, "mkdir") /\ UNCHANGED adm
  <2>1. Others(r) /\ job'[r].pc = "mkdir" /\ job'[r].kind = job[r].kind
    BY <1>4, GotoJob DEF PC
  <2>2. \A i \in DOMAIN Conflicts(job[r].kind) :
           Conflicts(job[r].kind)[i] \in Kinds => lock[Conflicts(job[r].kind)[i]] = None
    BY <1>4 DEF Held
  <2>3. ASSUME job[r].kind # "all"
        PROVE  lock["all"] = None
    BY <1>1, <2>2, <2>3, ConflictOrder DEF Kinds
  <2>4. ASSUME job[r].kind = "all", NEW s \in Stages
        PROVE  lock[s] = None
    BY <1>1, <2>2, <2>4, ConflictOrder DEF Kinds
  <2>5. AdmissionOf(r)' /\ FullOf(r)'
    BY <1>1, <1>2, <1>3, <1>4 DEF AdmissionOf, FullOf
  <2>6. ScanOf(r)'
    BY <1>1, <2>1, <2>3, <2>4 DEF ScanOf
  <2>7. QED
    BY <1>1, <1>4, <2>1, <2>5, <2>6, OtherModes DEF ModeOf
<1>5. CASE End(r) /\ adm' \in {None, Orphan, adm}
  <2>1. Others(r) /\ job'[r].pc = "end"
    BY <1>5, EndJob
  <2>2. QED
    BY <1>1, <1>2, <1>3, <1>5, <2>1, OutsideModes DEF Admitted
<1>6. ASSUME NEW i \in Held(job[r].kind), \A j \in Held(job[r].kind) : i <= j,
             NEW name \in Kinds, name = Conflicts(job[r].kind)[i],
             job' = Noted(job, r, <<name, lock[name]>>, "recheck"), UNCHANGED adm
      PROVE  \A q \in Runs : ModeOf(q)'
  <2>1. <<name, lock[name]>> \in Kinds \X Owner
    BY DEF LockType
  <2>2. /\ Others(r) /\ job'[r].pc = "recheck" /\ job'[r].kind = job[r].kind
        /\ job'[r].seen = <<name, lock[name]>>
    BY <1>6, <2>1, SeenJob DEF PC
  <2>3. lock[name] # None
    BY <1>6 DEF Held
  <2>4. ASSUME job[r].kind # "all", lock["all"] # None
        PROVE  name = "all"
    <3>1. 1 \in Held(job[r].kind)
      BY <1>1, <2>4, ConflictOrder DEF Held, Kinds
    <3>2. i \in Nat \ {0} /\ i <= 1
      BY <1>1, <1>6, <3>1, ConflictOrder DEF Held
    <3>3. QED
      BY <1>1, <1>6, <2>4, <3>2, ConflictOrder
  <2>5. AdmissionOf(r)' /\ FullOf(r)'
    BY <1>1, <1>2, <1>3, <1>6 DEF AdmissionOf, FullOf
  <2>6. ScanOf(r)'
    BY <1>1, <2>2, <2>3, <2>4 DEF ScanOf, Unseen
  <2>7. QED
    BY <1>1, <1>6, <2>2, <2>5, <2>6, OtherModes DEF ModeOf
<1>7. ASSUME NEW i \in Held(job[r].kind)
      PROVE  Conflicts(job[r].kind)[i] \in Kinds
  BY DEF Held
<1>8. QED
  BY <1>4, <1>5, <1>6, <1>7 DEF Scan, Noted, Released

LEMMA MkdirModes ==
    ASSUME TypeInv, PipelineInv, \A q \in Runs : ModeOf(q), NEW r \in Runs, Mkdir(r)
    PROVE  \A q \in Runs : ModeOf(q)'
<1> USE DEF TypeInv
<1>1. job[r].pc = "mkdir" /\ job[r].kind \in Kinds /\ "all" \in Kinds
  BY DEF Mkdir, At, JobType, Job, Kinds
<1>2. adm = r /\ \A q \in Runs : q # r => adm # q
  BY <1>1 DEF ModeOf, AdmissionOf, Admitted
<1>3. CASE lock[job[r].kind] # None
  <2>1. Others(r) /\ job'[r].pc = "own" /\ lock' = lock
    BY <1>3, GotoJob DEF Mkdir, PC
  <2>2. QED
    BY <1>1, <1>2, <2>1, OutsideModes DEF Admitted, Keeping
<1>4. CASE lock[job[r].kind] = None
  <2>1. /\ Others(r) /\ job'[r].pc = "held" /\ job'[r].kind = job[r].kind
        /\ job'[r].seen = job[r].seen
    BY <1>4, GotoJob DEF Mkdir, PC
  <2>2. adm' = adm /\ lock' = [lock EXCEPT ![job[r].kind] = r]
    BY <1>4 DEF Mkdir
  <2>3. \A k \in Kinds : lock'[k] = IF k = job[r].kind THEN r ELSE lock[k]
    BY <2>2 DEF LockType
  <2>4. ScanOf(r)
    BY DEF ModeOf
  <2>5. ASSUME NEW q \in Runs, q # r
        PROVE  ModeOf(q)'
    <3>1. job'[q] = job[q] /\ job[q].pc \notin Admitted
      BY <1>2, <2>1, <2>5 DEF Others, ModeOf, AdmissionOf
    <3>2. lock'["all"] # q
      BY <1>1, <2>3, <2>4, <2>5, Names DEF ScanOf
    <3>3. QED
      BY <3>1, <3>2 DEF ModeOf, AdmissionOf, ScanOf, FullOf, Admitted
  <2>6. ModeOf(r)'
    <3>1. AdmissionOf(r)' /\ ScanOf(r)'
      BY <1>2, <2>1, <2>2 DEF AdmissionOf, ScanOf
    <3>2. ASSUME lock'["all"] = r, job[r].seen = Unseen, NEW s \in Stages
          PROVE  lock'[s] = None
      <4>1. job[r].kind = "all"
        BY <1>1, <2>3, <2>4, <3>2, Names DEF ScanOf
      <4>2. QED
        BY <1>1, <2>3, <2>4, <3>2, <4>1, Names DEF ScanOf, Kinds
    <3>3. FullOf(r)'
      BY <2>1, <3>2 DEF FullOf, Unseen
    <3>4. QED
      BY <3>1, <3>3 DEF ModeOf
  <2>7. QED
    BY <2>5, <2>6
<1>5. QED
  BY <1>3, <1>4

LEMMA MoveModes ==
    ASSUME TypeInv, PipelineInv, \A q \in Runs : ModeOf(q), NEW r \in Runs, Recheck(r) \/ Move(r)
    PROVE  \A q \in Runs : ModeOf(q)'
<1> USE DEF TypeInv
<1>1. job[r].pc \in {"recheck", "move"} /\ "all" \in Kinds /\ job[r].seen[1] \in Kinds
  BY DEF Recheck, Move, At, JobType, Job, Kinds
<1>2. adm = r /\ \A q \in Runs : q # r => adm # q
  BY <1>1 DEF ModeOf, AdmissionOf, Admitted
<1>3. \A k \in Kinds : lock'[k] \in {lock[k], None}
  BY DEF Recheck, Move, LockType
<1>4. lock["all"] # r
  BY <1>1 DEF PipelineInv, RunInv, LockOf, Keeping
<1>5. lock'["all"] # r
  BY <1>1, <1>3, <1>4, Names
<1>6. ScanOf(r)
  BY DEF ModeOf
<1>7. CASE End(r)
  <2>1. Others(r) /\ job'[r].pc = "end"
    BY <1>7, EndJob
  <2>2. QED
    BY <1>2, <1>3, <1>5, <2>1, OutsideModes DEF Admitted
<1>8. CASE Recheck(r) /\ Goto(r, "move") /\ UNCHANGED adm
  <2>1. /\ Others(r) /\ job'[r].pc = "move" /\ job'[r].kind = job[r].kind
        /\ job'[r].seen = job[r].seen
    BY <1>8, GotoJob DEF PC
  <2>2. lock' = lock
    BY <1>8 DEF Recheck
  <2>3. AdmissionOf(r)' /\ FullOf(r)' /\ ScanOf(r)'
    BY <1>1, <1>2, <1>5, <1>6, <1>8, <2>1, <2>2 DEF AdmissionOf, FullOf, ScanOf, Unseen
  <2>4. QED
    BY <1>2, <1>3, <2>1, <2>3, OtherModes DEF ModeOf
<1>9. CASE Move(r) /\ Goto(r, "mkdir") /\ UNCHANGED adm /\ lock' = [lock EXCEPT ![job[r].seen[1]] = None]
  <2>1. /\ Others(r) /\ job'[r].pc = "mkdir" /\ job'[r].kind = job[r].kind
        /\ job'[r].seen = job[r].seen
    BY <1>9, GotoJob DEF PC
  <2>2. lock'[job[r].seen[1]] = None
    BY <1>1, <1>9 DEF LockType
  <2>3. job[r].kind # "all" => lock'["all"] = None
    BY <1>1, <1>3, <1>6, <2>2 DEF ScanOf
  <2>4. AdmissionOf(r)' /\ FullOf(r)'
    BY <1>2, <1>5, <1>9 DEF AdmissionOf, FullOf
  <2>5. ScanOf(r)'
    BY <1>1, <1>6, <2>1, <2>3 DEF ScanOf, Unseen
  <2>6. QED
    BY <1>2, <1>3, <2>1, <2>4, <2>5, OtherModes DEF ModeOf
<1>10. QED
  BY <1>7, <1>8, <1>9 DEF Recheck, Move

\* Only breaking the admission lock can rob a run of it.
LEMMA RobbedStep == [Next]_vars => robbed' = robbed \/ \E r \in Runs : AdmissionMove(r)
<1>1. UNCHANGED vars => robbed' = robbed
  BY DEF vars
<1>2. ASSUME NEW r \in Runs
      PROVE  /\ \A k \in KindsOf[r] : Start(r, k) => robbed' = robbed
             /\ Kill(r) \/ Expire(r) \/ Hang(r) => robbed' = robbed
             /\ Heartbeat(r) \/ Resume(r) => robbed' = robbed
  BY Zenon DEF Start, Kill, Expire, Hang, Heartbeat, Resume
<1>3. ASSUME NEW r \in Runs
      PROVE  /\ Admit(r) \/ AdmissionBusy(r) \/ AdmissionStale(r) \/ AdmissionWait(r) =>
                    robbed' = robbed
             /\ Scan(r) \/ Recheck(r) \/ Move(r) \/ Mkdir(r) \/ Enter(r) => robbed' = robbed
  BY Zenon DEF Admit, AdmissionBusy, AdmissionStale, AdmissionWait, Scan, Recheck, Move, Mkdir, Enter
<1>4. ASSUME NEW r \in Runs
      PROVE  /\ Own(r) \/ OwnRecheck(r) \/ OwnMove(r) => robbed' = robbed
             /\ Begin(r) \/ GiveUp(r) \/ Finish(r) \/ Release(r) => robbed' = robbed
             /\ EnterFails(r) \/ Activate(r) \/ ExitBegun(r) => robbed' = robbed
             /\ FinishFails(r) => robbed' = robbed
             /\ \A wrote, good \in BOOLEAN : Work(r, wrote, good) => robbed' = robbed
  BY Zenon DEF Own, OwnRecheck, OwnMove, Begin, GiveUp, Finish, Release, Work, EnterFails,
               Activate, ExitBegun, FinishFails
<1>5. QED
  BY <1>1, <1>2, <1>3, <1>4 DEF Next, Step

LEMMA ModesStep == TypeInv /\ PipelineInv /\ ModesInv /\ [Next]_vars => ModesInv'
<1> SUFFICES ASSUME TypeInv, PipelineInv, \A q \in Runs : ModeOf(q), ~robbed', ~robbed, [Next]_vars
             PROVE  \A q \in Runs : ModeOf(q)'
  <2>1. [Next]_vars => robbed' = robbed \/ \E r \in Runs : AdmissionMove(r)
    BY RobbedStep
  <2>2. ASSUME NEW r \in Runs, AdmissionMove(r), robbed
        PROVE  robbed'
    BY <2>2, Zenon DEF AdmissionMove
  <2>3. QED
    BY <2>1, <2>2 DEF ModesInv
<1> USE DEF TypeInv
<1>0. "all" \in Kinds /\ \A r \in Runs : LockOf(r)
  BY DEF Kinds, PipelineInv, RunInv
<1>1. CASE UNCHANGED vars
  BY <1>1 DEF vars, ModeOf, AdmissionOf, ScanOf, FullOf, Unseen
<1>2. ASSUME NEW r \in Runs, NEW k \in KindsOf[r], Start(r, k)
      PROVE  \A q \in Runs : ModeOf(q)'
  <2>1. Others(r) /\ job[r].pc \notin Keeping /\ job'[r].pc \notin Admitted
    BY <1>2, StartJob DEF Keeping, Admitted
  <2>2. UNCHANGED <<lock, adm>>
    BY <1>2 DEF Start
  <2>3. QED
    BY <2>1, <2>2, OutsideModes
<1>3. ASSUME NEW r \in Runs, Kill(r)
      PROVE  \A q \in Runs : ModeOf(q)'
  <2>1. Others(r) /\ job'[r].pc = "dead"
    BY <1>3, KillJob
  <2>2. lock' = lock /\ \A q \in Runs : q # r /\ adm = q => adm' = q
    BY <1>3 DEF Kill
  <2>3. QED
    BY <2>1, <2>2, OutsideModes DEF Admitted
<1>4. ASSUME NEW r \in Runs, Expire(r) \/ Hang(r) \/ Resume(r)
      PROVE  \A q \in Runs : ModeOf(q)'
  BY <1>4 DEF Expire, Hang, Resume, ModeOf, AdmissionOf, ScanOf, FullOf, Unseen
<1>5. ASSUME NEW r \in Runs, Heartbeat(r)
      PROVE  \A q \in Runs : ModeOf(q)'
  <2>1. Others(r) /\ job'[r].pc = job[r].pc /\ job'[r].seen = job[r].seen
    BY <1>5, HeartbeatJob
  <2>2. UNCHANGED <<lock, adm>> /\ job[r].pc \in {"begin", "begun", "work"}
    BY <1>5 DEF Heartbeat
  <2>3. QED
    BY <2>1, <2>2, OutsideModes DEF Admitted
<1>6. ASSUME NEW r \in Runs, Step(r)
      PROVE  \A q \in Runs : ModeOf(q)'
  <2>1. CASE Admit(r)
    <3>1. Others(r) /\ job'[r].pc = "scan"
      BY <2>1, GotoJob DEF Admit, PC
    <3>2. lock' = lock /\ adm' = r /\ adm = None /\ job[r].pc = "admission"
      BY <2>1 DEF Admit, At
    <3>3. ModeOf(r)'
      BY <1>0, <3>1, <3>2 DEF LockOf, Keeping, ModeOf, AdmissionOf, ScanOf, FullOf
    <3>4. QED
      BY <3>1, <3>2, <3>3, OtherModes, Names
  <2>2. CASE AdmissionBusy(r) \/ AdmissionStale(r) \/ AdmissionWait(r)
    <3>1. Others(r) /\ job[r].pc \notin Keeping /\ job'[r].pc \notin Admitted
      BY <2>2, GotoJob, EndJob
      DEF AdmissionBusy, AdmissionStale, AdmissionWait, At, PC, Keeping, Admitted
    <3>2. UNCHANGED <<lock, adm>>
      BY <2>2 DEF AdmissionBusy, AdmissionStale, AdmissionWait
    <3>3. QED
      BY <3>1, <3>2, OutsideModes
  <2>3. CASE AdmissionMove(r)
    <3>1. Others(r) /\ job[r].pc \notin Keeping /\ job'[r].pc \notin Admitted
      BY <2>3, GotoJob DEF AdmissionMove, At, PC, Keeping, Admitted
    <3>2. lock' = lock /\ adm \notin Runs
      BY <2>3 DEF AdmissionMove
    <3>3. QED
      BY <3>1, <3>2, OutsideModes
  <2>4. CASE Scan(r)
    BY <2>4, ScanModes
  <2>5. CASE Recheck(r) \/ Move(r)
    BY <2>5, MoveModes
  <2>6. CASE Mkdir(r)
    BY <2>6, MkdirModes
  <2>7. CASE Enter(r)
    <3>1. Others(r) /\ job'[r].pc \notin Admitted /\ job'[r].seen = job[r].seen
      BY <2>7, EnterJob DEF Admitted
    <3>2. lock' = lock /\ job[r].pc = "held" /\ \A q \in Runs : q # r /\ adm = q => adm' = q
      BY <2>7 DEF Enter, At, Released
    <3>3. QED
      BY <3>1, <3>2, OutsideModes
  <2>16. CASE EnterFails(r)
    <3>1. Others(r) /\ job'[r].pc = "end"
      BY <2>16, EndJob DEF EnterFails
    <3>2. job[r].pc = "held" /\ \A q \in Runs : q # r /\ adm = q => adm' = q
      BY <2>16 DEF EnterFails, At, Released
    <3>3. \A k \in Kinds : lock'[k] \in {lock[k], None}
      BY <2>16 DEF EnterFails, LockType
    <3>4. lock'["all"] # r
      BY <1>0, <2>16, <3>2, Names DEF EnterFails, LockType, LockOf
    <3>5. QED
      BY <3>1, <3>2, <3>3, <3>4, OutsideModes DEF Admitted
  <2>8. CASE Own(r)
    <3>1. <<job[r].kind, lock[job[r].kind]>> \in Kinds \X Owner
      BY DEF JobType, Job, LockType
    <3>2. "ownrecheck" \in PC
      BY DEF PC
    <3>3. Others(r) /\ job'[r].pc \in {"ownrecheck", "end"}
      BY <2>8, <3>1, <3>2, SeenJob, EndJob DEF Own, Noted
    <3>4. UNCHANGED <<lock, adm>> /\ job[r].pc = "own"
      BY <2>8 DEF Own, At
    <3>5. QED
      BY <3>3, <3>4, OutsideModes DEF Keeping, Admitted
  <2>9. CASE OwnRecheck(r)
    <3>1. Others(r) /\ job[r].pc \notin Keeping /\ job'[r].pc \notin Admitted
      BY <2>9, GotoJob, EndJob DEF OwnRecheck, At, PC, Keeping, Admitted
    <3>2. UNCHANGED <<lock, adm>>
      BY <2>9 DEF OwnRecheck
    <3>3. QED
      BY <3>1, <3>2, OutsideModes
  <2>10. CASE OwnMove(r)
    <3>1. Others(r) /\ job'[r].pc \in {"end", "admission"}
      BY <2>10, OwnMoveJob
    <3>2. adm' = adm /\ job[r].pc = "ownmove"
      BY <2>10 DEF OwnMove, At
    <3>3. \A k \in Kinds : lock'[k] \in {lock[k], None}
      BY <2>10 DEF OwnMove, LockType
    <3>4. QED
      BY <3>1, <3>2, <3>3, OutsideModes DEF Keeping, Admitted
  <2>11. CASE Begin(r)
    <3>1. Others(r) /\ job'[r].pc \in {"begun", "release"} /\ job'[r].seen = job[r].seen
      <4>1. CASE Admissible(job[r].kind, Recovered)
        BY <2>11, <4>1, BeginType
      <4>2. CASE ~Admissible(job[r].kind, Recovered)
        BY <2>11, <4>2, GotoJob DEF Begin, PC
      <4>3. QED
        BY <4>1, <4>2
    <3>2. UNCHANGED <<lock, adm>> /\ job[r].pc = "begin"
      BY <2>11 DEF Begin, At
    <3>3. QED
      BY <3>1, <3>2, OutsideModes DEF Admitted
  <2>12. CASE GiveUp(r) \/ Activate(r) \/ ExitBegun(r) \/ Finish(r) \/ FinishFails(r)
    <3>1. Others(r) /\ job'[r].pc \in {"work", "release"} /\ job'[r].seen = job[r].seen
      BY <2>12, GotoJob DEF GiveUp, Activate, ExitBegun, Finish, FinishFails, PC
    <3>2. UNCHANGED <<lock, adm>> /\ job[r].pc # "dead"
      BY <2>12 DEF GiveUp, Activate, ExitBegun, Finish, FinishFails, At
    <3>3. QED
      BY <3>1, <3>2, OutsideModes DEF Admitted
  <2>13. CASE Release(r)
    <3>1. Others(r) /\ job'[r].pc = "end"
      BY <2>13, EndJob DEF Release
    <3>2. adm' = adm /\ job[r].pc = "release"
      BY <2>13 DEF Release, At
    <3>3. \A k \in Kinds : lock'[k] \in {lock[k], None}
      BY <2>13 DEF Release, LockType
    <3>4. lock'["all"] # r
      BY <1>0, <2>13, <3>2, Names DEF Release, LockType, LockOf
    <3>5. QED
      BY <3>1, <3>2, <3>3, <3>4, OutsideModes DEF Admitted
  <2>14. ASSUME NEW wrote \in BOOLEAN, NEW good \in BOOLEAN, Work(r, wrote, good)
         PROVE  \A q \in Runs : ModeOf(q)'
    <3>1. Others(r) /\ job'[r].pc = "finish" /\ job'[r].seen = job[r].seen
      BY <2>14, WorkJob
    <3>2. UNCHANGED <<lock, adm>> /\ job[r].pc = "work"
      BY <2>14 DEF Work, At
    <3>3. QED
      BY <3>1, <3>2, OutsideModes DEF Admitted
  <2>15. QED
    BY <1>6, <2>1, <2>2, <2>3, <2>4, <2>5, <2>6, <2>7, <2>8, <2>9, <2>10, <2>11, <2>12, <2>13,
       <2>14, <2>16 DEF Step
<1>7. QED
  BY <1>1, <1>2, <1>3, <1>4, <1>5, <1>6 DEF Next

LEMMA ModesInit == Init => ModesInv
<1> SUFFICES ASSUME Init PROVE ModesInv
  OBVIOUS
<1>1. (\A r \in Runs : job[r].pc = "new") /\ lock["all"] = None
  BY DEF Init, Fresh, Kinds
<1>2. QED
  BY <1>1, Names DEF ModesInv, ModeOf, AdmissionOf, ScanOf, FullOf, Admitted

\* A full refresh and a stage of the pipeline work side by side only when one of
\* them has lost its lock, when the admission lock was taken from a run that was
\* alive, or when the full refresh recovered a stale lock and so ended its scan.
THEOREM ModesExcludeHolds == Spec => []ModesExclude
<1>1. ASSUME TypeInv, ModesInv
      PROVE  ModesExclude
  <2>1. ASSUME NEW r \in Runs, NEW q \in Runs, Working(r), ~Pipeline(r), Pipeline(q),
               ~robbed, ~Dispossessed(r), ~Dispossessed(q), job[r].seen = Unseen
        PROVE  FALSE
    <3>1. lock["all"] = r /\ job[r].pc # "dead"
      BY <2>1 DEF Working, Pipeline, Dispossessed
    <3>2. job[q].kind \in Stages /\ lock[job[q].kind] = q
      BY <1>1, <2>1 DEF TypeInv, JobType, Job, Kinds, Pipeline, Dispossessed
    <3>3. QED
      BY <1>1, <2>1, <3>1, <3>2, Names DEF ModesInv, ModeOf, FullOf
  <2>2. QED
    BY <2>1 DEF ModesExclude
<1>2. Spec => []ModesInv
  BY TypeInit, TypeStep, PipelineInit, PipelineStep, ModesInit, ModesStep, PTL DEF Spec
<1>3. QED
  BY <1>1, <1>2, TypeAlways, PTL

================================================================================
