-------------------------- MODULE DirectoryLockProofs --------------------------
(***************************************************************************)
(* Proofs about DirectoryLock, for any number of runs and faults.          *)
(***************************************************************************)
EXTENDS DirectoryLock, TLAPS

-----------------------------------------------------------------------------
(* Type correctness.                                                       *)

\* A run that is still acquiring has an attempt left.
RoundInv == \A p \in Procs : pc[p] # "idle" /\ pc[p] \notin Attending => round[p] <= Rounds

TypeInv == TypeOK /\ RoundInv

\* Every step of run-with-lock.sh, and the passing of time, keeps the lock
\* directory and the place of each run well formed.
LEMMA TypeStep == TypeInv /\ [Next]_vars => TypeInv'
<1> SUFFICES ASSUME TypeInv, [Next]_vars
             PROVE  TypeInv'
  OBVIOUS
<1> USE LockAssumption DEF TypeInv, TypeOK, RoundInv, Labels, Attending, Rounds
<1>1. CASE UNCHANGED vars
  BY <1>1 DEF vars
<1>2. ASSUME NEW p \in Procs, Acquiring(p)
      PROVE  TypeInv'
  <2>1. CASE Start(p)
    BY <2>1 DEF Start, Goto, diskVars
  <2>2. CASE Mkdir(p)
    BY <2>2 DEF Mkdir, Goto
  <2>3. CASE WriteToken(p)
    BY <2>3 DEF WriteToken, Goto
  <2>4. CASE WriteOwner(p)
    BY <2>4 DEF WriteOwner, Goto
  <2>5. CASE StaleCheck(p)
    BY <2>5 DEF StaleCheck, Goto, diskVars
  <2>6. CASE ReadToken(p)
    BY <2>6 DEF ReadToken, Goto, diskVars
  <2>7. CASE RereadToken(p)
    BY <2>7 DEF RereadToken, Goto, diskVars
  <2>8. CASE Recheck(p)
    BY <2>8 DEF Recheck, Goto, diskVars
  <2>9. CASE Move(p)
    <3>1. stolen' \in BOOLEAN
      BY <2>9, Zenon DEF Move
    <3>2. round[p] \in 1..Rounds
      BY <2>9 DEF Move
    <3>3. pc' \in [Procs -> Labels] /\ round' \in [Procs -> 1..(Rounds + 1)]
      BY <2>9, <3>2 DEF Move, Goto
    <3>4. RoundInv'
      <4> SUFFICES ASSUME NEW q \in Procs, pc'[q] # "idle", pc'[q] \notin Attending
                   PROVE  round'[q] <= Rounds
        OBVIOUS
      <4>1. CASE q = p
        BY <2>9, <3>2, <4>1 DEF Move, Goto
      <4>2. CASE q # p
        BY <2>9, <4>2 DEF Move, Goto
      <4>3. QED
        BY <4>1, <4>2
    <3>5. lockDir' \in BOOLEAN /\ aged' \in BOOLEAN /\ token' = None /\ owner' = "absent"
      BY <2>9 DEF Move
    <3>6. UNCHANGED <<seen, hb, faults>>
      BY <2>9 DEF Move
    <3>7. QED
      BY <3>1, <3>3, <3>4, <3>5, <3>6
  <2>10. QED
    BY <1>2, <2>1, <2>2, <2>3, <2>4, <2>5, <2>6, <2>7, <2>8, <2>9 DEF Acquiring
<1>3. ASSUME NEW p \in Procs, Releasing(p)
      PROVE  TypeInv'
  <2>1. CASE CommandEnds(p)
    BY <2>1 DEF CommandEnds, Goto, diskVars
  <2>2. CASE Release(p)
    BY <2>2 DEF Release, Goto, diskVars
  <2>3. CASE UnlinkOwner(p)
    BY <2>3 DEF UnlinkOwner, Goto
  <2>4. CASE UnlinkToken(p)
    BY <2>4 DEF UnlinkToken, Goto
  <2>5. CASE RemoveDir(p)
    BY <2>5 DEF RemoveDir, Goto
  <2>6. QED
    BY <1>3, <2>1, <2>2, <2>3, <2>4, <2>5 DEF Releasing
<1>4. ASSUME NEW p \in Procs, HeartbeatCheck(p) \/ HeartbeatWrite(p) \/ HeartbeatFails(p)
      PROVE  TypeInv'
  <2>1. CASE HeartbeatCheck(p)
    BY <2>1 DEF HeartbeatCheck, diskVars
  <2>2. CASE HeartbeatWrite(p)
    BY <2>2 DEF HeartbeatWrite
  <2>3. CASE HeartbeatFails(p)
    <3>1. hb' \in [Procs -> {"off", "on", "write", "orphan"}] /\ faults' \in 0..MaxFaults
      BY <2>3 DEF HeartbeatFails, Fault
    <3>2. QED
      BY <2>3, <3>1 DEF HeartbeatFails, diskVars
  <2>4. QED
    BY <1>4, <2>1, <2>2, <2>3
<1>5. ASSUME NEW p \in Procs, Crash(p)
      PROVE  TypeInv'
  <2>1. faults' \in 0..MaxFaults
    BY <1>5 DEF Crash, Fault
  <2>2. /\ pc' \in [Procs -> Labels]
        /\ seen' \in [Procs -> Procs \cup {None}]
        /\ hb' \in [Procs -> {"off", "on", "write", "orphan"}]
    BY <1>5 DEF Crash, Goto
  <2>3. RoundInv'
    BY <1>5 DEF Crash, Goto
  <2>4. QED
    BY <1>5, <2>1, <2>2, <2>3 DEF Crash, diskVars
<1>6. CASE LockAges \/ LockStalls
  <2>1. faults' \in 0..MaxFaults
    BY <1>6 DEF LockAges, LockStalls, Fault
  <2>2. QED
    BY <1>6, <2>1 DEF LockAges, LockStalls, Age
<1>7. QED
  BY <1>1, <1>2, <1>3, <1>4, <1>5, <1>6 DEF Next

\* The lock directory, its token and its heartbeat file, and the place of every
\* run of the script, stay what TypeOK says; no run makes a fourth attempt.
THEOREM LockTypeCorrect == Spec => []TypeOK
<1>1. Init => TypeInv
  <2> SUFFICES ASSUME Init PROVE TypeInv
    OBVIOUS
  <2>1. pc \in [Procs -> Labels] /\ RoundInv
    BY DEF Init, Labels, RoundInv, Attending
  <2>2. round \in [Procs -> 1..(Rounds + 1)] /\ faults \in 0..MaxFaults
    BY LockAssumption DEF Init, Rounds
  <2>3. QED
    BY <2>1, <2>2 DEF Init, TypeInv, TypeOK
<1>2. TypeInv => TypeOK
  BY DEF TypeInv
<1>3. QED
  BY <1>1, <1>2, TypeStep, PTL DEF Spec

-----------------------------------------------------------------------------
(* Exclusion up to the takeover.                                           *)

\* The token on disk while p attends the lock: none between mkdir and the write
\* of the token and between its removal and rmdir, its own otherwise.
TokenOf(p) == IF pc[p] \in {"token", "rmdir"} THEN None ELSE p

Attends(p) == pc[p] \in Attending => lockDir /\ token = TokenOf(p)

Alone(p, q) == pc[p] \in Attending /\ pc[q] \in Attending => p = q

\* There is no token without the directory and, unless a live lock was moved
\* away, one run at most attends the lock, and the disk shows it.
LockInv ==
    /\ ~lockDir => token = None
    /\ ~stolen => /\ \A p \in Procs : Attends(p)
                  /\ \A p, q \in Procs : Alone(p, q)

\* Steps of a run that leave the lock directory and its token alone and do not
\* bring it back to the lock.
LEMMA LockKept ==
    ASSUME TypeOK, LockInv, UNCHANGED <<lockDir, token, stolen>>,
           \A p \in Procs : pc'[p] \in Attending =>
                /\ pc[p] \in Attending
                /\ pc[p] \in {"token", "rmdir"} <=> pc'[p] \in {"token", "rmdir"}
    PROVE  LockInv'
  BY DEF LockInv, Attends, Alone, TokenOf

\* Every step keeps LockInv: mkdir succeeds only on a lock nobody attends, all
\* other operations on the directory are those of the one run that attends it,
\* and mv is harmless unless it is recorded in stolen.
LEMMA LockStep == TypeOK /\ LockInv /\ [Next]_vars => LockInv'
<1> SUFFICES ASSUME TypeOK, LockInv, [Next]_vars
             PROVE  LockInv'
  OBVIOUS
<1> USE LockAssumption
<1> USE DEF Attending
<1>1. CASE UNCHANGED vars
  BY <1>1, LockKept DEF vars
<1>2. ASSUME NEW p \in Procs, Acquiring(p)
      PROVE  LockInv'
  <2>1. CASE Start(p)
    BY <2>1, LockKept DEF Start, Goto, diskVars, TypeOK
  <2>2. CASE Mkdir(p)
    <3>1. CASE lockDir
      BY <2>2, <3>1, LockKept DEF Mkdir, Goto, TypeOK
    <3>2. CASE ~lockDir
      <4>1. ~stolen => \A q \in Procs : pc[q] \notin Attending
        BY <3>2 DEF LockInv, Attends
      <4>2. lockDir' /\ UNCHANGED <<stolen, token>> /\ pc' = [pc EXCEPT ![p] = "token"]
        BY <2>2, <3>2 DEF Mkdir, Goto
      <4>3. QED
        <5>1. token' = None
          BY <3>2, <4>2 DEF LockInv
        <5>2. ~stolen => \A q \in Procs : pc'[q] \in Attending => q = p /\ pc'[q] = "token"
          BY <4>1, <4>2 DEF TypeOK
        <5>3. QED
          BY <4>2, <5>1, <5>2 DEF LockInv, Attends, Alone, TokenOf
    <3>3. QED
      BY <3>1, <3>2
  <2>3. CASE WriteToken(p)
    BY <2>3 DEF WriteToken, Goto, LockInv, Attends, Alone, TokenOf, TypeOK
  <2>4. CASE WriteOwner(p)
    BY <2>4, LockKept DEF WriteOwner, Goto, TypeOK
  <2>5. CASE StaleCheck(p)
    BY <2>5, LockKept DEF StaleCheck, Goto, diskVars, TypeOK
  <2>6. CASE ReadToken(p)
    BY <2>6, LockKept DEF ReadToken, Goto, diskVars, TypeOK
  <2>7. CASE RereadToken(p)
    BY <2>7, LockKept DEF RereadToken, Goto, diskVars, TypeOK
  <2>8. CASE Recheck(p)
    BY <2>8, LockKept DEF Recheck, Goto, diskVars, TypeOK
  <2>9. CASE Move(p)
    <3> SUFFICES ASSUME ~stolen'
                 PROVE  \A q \in Procs : pc'[q] \notin Attending
      BY <2>9 DEF Move, LockInv, Attends, Alone
    <3>1. ~stolen /\ (lockDir => ~Attended)
      BY <2>9 DEF Move
    <3>2. \A q \in Procs : pc[q] \notin Attending
      BY <3>1 DEF LockInv, Attends, TokenOf, Attended
    <3>3. QED
      BY <2>9, <3>2 DEF Move, Goto, TypeOK
  <2>10. QED
    BY <1>2, <2>1, <2>2, <2>3, <2>4, <2>5, <2>6, <2>7, <2>8, <2>9 DEF Acquiring
<1>3. ASSUME NEW p \in Procs, Releasing(p)
      PROVE  LockInv'
  <2>1. CASE CommandEnds(p)
    BY <2>1, LockKept DEF CommandEnds, Goto, diskVars, TypeOK
  <2>2. CASE Release(p)
    BY <2>2, LockKept DEF Release, Goto, diskVars, TypeOK
  <2>3. CASE UnlinkOwner(p)
    BY <2>3, LockKept DEF UnlinkOwner, Goto, TypeOK
  <2>4. CASE UnlinkToken(p)
    BY <2>4 DEF UnlinkToken, Goto, LockInv, Attends, Alone, TokenOf, TypeOK
  <2>5. CASE RemoveDir(p)
    BY <2>5 DEF RemoveDir, Goto, LockInv, Attends, Alone, TokenOf, TypeOK
  <2>6. QED
    BY <1>3, <2>1, <2>2, <2>3, <2>4, <2>5 DEF Releasing
<1>4. ASSUME NEW p \in Procs, HeartbeatCheck(p) \/ HeartbeatWrite(p) \/ HeartbeatFails(p)
      PROVE  LockInv'
  BY <1>4, LockKept DEF HeartbeatCheck, HeartbeatWrite, HeartbeatFails, diskVars
<1>5. ASSUME NEW p \in Procs, Crash(p)
      PROVE  LockInv'
  BY <1>5, LockKept DEF Crash, Goto, diskVars, TypeOK
<1>6. CASE LockAges \/ LockStalls
  BY <1>6, LockKept DEF LockAges, LockStalls, Age
<1>7. QED
  BY <1>1, <1>2, <1>3, <1>4, <1>5, <1>6 DEF Next

\* As long as mv has not moved a live lock away, a run that executes its command
\* has the lock directory with its own token in it, so that no other run
\* executes one.
THEOREM ExclusionUpToTakeover == Spec => []HeldUnlessStolen
<1>1. Init => LockInv
  BY DEF Init, LockInv, Attends, Alone, Attending
<1>2. LockInv => HeldUnlessStolen
  BY DEF LockInv, Attends, TokenOf, Attending, HeldUnlessStolen
<1>3. QED
  BY <1>1, <1>2, LockStep, LockTypeCorrect, PTL DEF Spec
================================================================================
