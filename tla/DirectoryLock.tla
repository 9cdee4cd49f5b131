---------------------------- MODULE DirectoryLock ----------------------------
(***************************************************************************)
(* run-with-lock.sh: the NFS directory lock around the preparation of one  *)
(* wiki, publication, and the admin dispatcher.  The lock is a directory   *)
(* (atomic mkdir) holding a token that names its owner and a heartbeat     *)
(* file.  A lock whose heartbeat is too old is moved away after it has     *)
(* been seen stale twice with the same token.  Each action is one          *)
(* file-system operation of the script.                                    *)
(*                                                                         *)
(* Everything is addressed by path: a write goes to whichever directory    *)
(* has the lock's name at that moment.                                     *)
(***************************************************************************)
EXTENDS Naturals

CONSTANTS
    Procs,       \* the runs of the script that compete for one lock
    MaxFaults,   \* bound on crashes and stalls
    None

\* "for attempt in 1 2 3"
Rounds == 3

ASSUME LockAssumption == MaxFaults \in Nat /\ None \notin Procs

VARIABLES
    lockDir,   \* the lock directory exists
    token,     \* owner-token
    owner,     \* owner.json: absent, or its heartbeat_epoch is fresh or stale
    aged,      \* the directory's own mtime is older than the stale interval
    pc,        \* the next operation of each run
    round,     \* which attempt it is
    seen,      \* token_before
    hb,        \* the heartbeat loop
    faults,
    stolen     \* history: a lock was moved away that was no abandoned stale lock

diskVars == <<lockDir, token, owner, aged>>
vars == <<lockDir, token, owner, aged, pc, round, seen, hb, faults, stolen>>

Goto(p, l) == pc' = [pc EXCEPT ![p] = l]

Fault == faults < MaxFaults /\ faults' = faults + 1

\* The script has touched the lock and has not left it yet.
Attending == {"token", "owner", "run", "release", "unlinkowner", "unlinktoken", "rmdir"}

-----------------------------------------------------------------------------
(* Acquiring.                                                              *)

\* A run's token is new: a name stands for another run only once nothing of the
\* previous one is left.
Start(p) ==
    /\ pc[p] = "idle" /\ hb[p] = "off"
    /\ token # p /\ \A q \in Procs : seen[q] # p
    /\ Goto(p, "mkdir")
    /\ round' = [round EXCEPT ![p] = 1]
    /\ UNCHANGED <<diskVars, seen, hb, faults, stolen>>

\* Mutant: mkdir -p, which succeeds on a directory that exists.
Mkdir_Parents(p) ==
    /\ pc[p] = "mkdir"
    /\ lockDir' = TRUE
    /\ aged' = (lockDir /\ aged)
    /\ Goto(p, "token")
    /\ UNCHANGED <<token, owner, round, seen, hb, faults, stolen>>

Mkdir(p) ==
    /\ pc[p] = "mkdir"
    /\ \/ /\ ~lockDir
          /\ lockDir' = TRUE
          /\ aged' = FALSE
          /\ Goto(p, "token")
       \/ /\ lockDir
          /\ Goto(p, "check")
          /\ UNCHANGED <<lockDir, aged>>
    /\ UNCHANGED <<token, owner, round, seen, hb, faults, stolen>>

\* A write into a directory that has been moved away fails, and set -e ends the
\* script with lock_owned=0.
WriteToken(p) ==
    /\ pc[p] = "token"
    /\ \/ /\ lockDir
          /\ token' = p
          /\ aged' = FALSE
          /\ Goto(p, "owner")
       \/ /\ ~lockDir
          /\ Goto(p, "idle")
          /\ UNCHANGED <<token, aged>>
    /\ UNCHANGED <<lockDir, owner, round, seen, hb, faults, stolen>>

\* write_owner; then the heartbeat loop and the command start.
WriteOwner(p) ==
    /\ pc[p] = "owner"
    /\ \/ /\ lockDir
          /\ owner' = "fresh"
          /\ aged' = FALSE
          /\ hb' = [hb EXCEPT ![p] = "on"]
          /\ Goto(p, "run")
       \/ /\ ~lockDir
          /\ Goto(p, "idle")
          /\ UNCHANGED <<owner, aged, hb>>
    /\ UNCHANGED <<lockDir, token, round, seen, faults, stolen>>

-----------------------------------------------------------------------------
(* The stale takeover.                                                     *)

\* Mutant: a lock without a readable owner.json is never stale.
LockIsStale_OwnerOnly == lockDir /\ owner = "stale"

\* lock_is_stale: the heartbeat in owner.json, or, without one, the age of the
\* directory; a directory that is gone counts as active.
LockIsStale == lockDir /\ (owner = "stale" \/ (owner = "absent" /\ aged))

\* Exit 75: contention.
StaleCheck(p) ==
    /\ pc[p] = "check"
    /\ Goto(p, IF LockIsStale THEN "readtoken" ELSE "idle")
    /\ UNCHANGED <<diskVars, round, seen, hb, faults, stolen>>

ReadToken(p) ==
    /\ pc[p] = "readtoken"
    /\ seen' = [seen EXCEPT ![p] = token]
    /\ Goto(p, "retoken")
    /\ UNCHANGED <<diskVars, round, hb, faults, stolen>>

RereadToken(p) ==
    /\ pc[p] = "retoken"
    /\ Goto(p, IF token = seen[p] THEN "recheck" ELSE "idle")
    /\ seen' = [seen EXCEPT ![p] = None]
    /\ UNCHANGED <<diskVars, round, hb, faults, stolen>>

Recheck(p) ==
    /\ pc[p] = "recheck"
    /\ Goto(p, IF LockIsStale THEN "move" ELSE "idle")
    /\ UNCHANGED <<diskVars, round, seen, hb, faults, stolen>>

\* Some run still attends the lock as it is on disk: it holds the token, or it
\* is about to write or has just removed it.
Attended ==
    \E p \in Procs : pc[p] \in Attending /\ token \in {p, None}

\* Mutant: one attempt too many.
Move_OneMore(p) ==
    /\ pc[p] = "move"
    /\ lockDir' = FALSE
    /\ token' = None
    /\ owner' = "absent"
    /\ aged' = FALSE
    /\ stolen' = (stolen \/ (lockDir /\ (Attended \/ ~LockIsStale)))
    /\ round' = [round EXCEPT ![p] = @ + 1]
    /\ Goto(p, IF round[p] <= Rounds THEN "mkdir" ELSE "idle")
    /\ UNCHANGED <<seen, hb, faults>>

\* mv takes whatever directory has the name now, and the moved directory is
\* removed; the next attempt follows in either case.
Move(p) ==
    /\ pc[p] = "move"
    /\ lockDir' = FALSE
    /\ token' = None
    /\ owner' = "absent"
    /\ aged' = FALSE
    /\ stolen' = (stolen \/ (lockDir /\ (Attended \/ ~LockIsStale)))
    /\ round' = [round EXCEPT ![p] = @ + 1]
    /\ Goto(p, IF round[p] < Rounds THEN "mkdir" ELSE "idle")
    /\ UNCHANGED <<seen, hb, faults>>

-----------------------------------------------------------------------------
(* The heartbeat loop: check the token, then write owner.json.             *)

HeartbeatCheck(p) ==
    /\ hb[p] = "on"
    /\ hb' = [hb EXCEPT ![p] = IF lockDir /\ token = p THEN "write" ELSE "off"]
    /\ UNCHANGED <<diskVars, pc, round, seen, faults, stolen>>

\* A failed write sends TERM to the script, which bash handles when the command
\* has ended; the loop is over either way.
HeartbeatWrite(p) ==
    /\ hb[p] \in {"write", "orphan"}
    /\ owner' = IF lockDir THEN "fresh" ELSE owner
    /\ aged' = FALSE
    /\ hb' = [hb EXCEPT ![p] = IF @ = "write" /\ lockDir THEN "on" ELSE "off"]
    /\ UNCHANGED <<lockDir, token, pc, round, seen, faults, stolen>>

\* A write of owner.json or of the run record fails: TERM waits for the command
\* as above, and the lock is not refreshed any more while the command runs on.
HeartbeatFails(p) ==
    /\ hb[p] = "write"
    /\ Fault
    /\ hb' = [hb EXCEPT ![p] = "off"]
    /\ UNCHANGED <<diskVars, pc, round, seen, stolen>>

-----------------------------------------------------------------------------
(* The command ends; cleanup.                                              *)

\* kill and wait end the loop, not a write_owner in progress.
CommandEnds(p) ==
    /\ pc[p] = "run"
    /\ hb' = [hb EXCEPT ![p] = IF @ = "write" THEN "orphan" ELSE "off"]
    /\ Goto(p, "release")
    /\ UNCHANGED <<diskVars, round, seen, faults, stolen>>

OwnToken(p) == lockDir /\ token = p

Release(p) ==
    /\ pc[p] = "release"
    /\ Goto(p, IF OwnToken(p) THEN "unlinkowner" ELSE "idle")
    /\ UNCHANGED <<diskVars, round, seen, hb, faults, stolen>>

UnlinkOwner(p) ==
    /\ pc[p] = "unlinkowner"
    /\ owner' = "absent"
    /\ aged' = FALSE
    /\ Goto(p, "unlinktoken")
    /\ UNCHANGED <<lockDir, token, round, seen, hb, faults, stolen>>

UnlinkToken(p) ==
    /\ pc[p] = "unlinktoken"
    /\ token' = None
    /\ aged' = FALSE
    /\ Goto(p, "rmdir")
    /\ UNCHANGED <<lockDir, owner, round, seen, hb, faults, stolen>>

\* rmdir ... || true: a directory that is not empty stays.
RemoveDir(p) ==
    /\ pc[p] = "rmdir"
    /\ lockDir' = (lockDir /\ ~(owner = "absent" /\ token = None))
    /\ Goto(p, "idle")
    /\ UNCHANGED <<token, owner, aged, round, seen, hb, faults, stolen>>

-----------------------------------------------------------------------------
(* Time and failures.                                                      *)

\* The pod dies, heartbeat included.
Crash(p) ==
    /\ pc[p] # "idle"
    /\ Fault
    /\ Goto(p, "idle")
    /\ seen' = [seen EXCEPT ![p] = None]
    /\ hb' = [hb EXCEPT ![p] = "off"]
    /\ UNCHANGED <<diskVars, round, stolen>>

Age ==
    /\ lockDir
    /\ owner # "stale" /\ ~(owner = "absent" /\ aged)
    /\ owner' = IF owner = "fresh" THEN "stale" ELSE owner
    /\ aged' = TRUE
    /\ UNCHANGED <<lockDir, token, pc, round, seen, hb, stolen>>

\* The lock is being set up, refreshed or removed.
Refreshed ==
    \E p \in Procs : /\ pc[p] \in Attending /\ token \in {p, None}
                     /\ pc[p] = "run" => hb[p] # "off"

\* A lock that nobody refreshes grows stale; another one only when its holder is
\* stalled for longer than the stale interval.
LockAges   == ~Refreshed /\ Age /\ UNCHANGED faults
LockStalls == Refreshed /\ Age /\ Fault

-----------------------------------------------------------------------------

Init ==
    /\ lockDir = FALSE
    /\ token = None
    /\ owner = "absent"
    /\ aged = FALSE
    /\ pc = [p \in Procs |-> "idle"]
    /\ round = [p \in Procs |-> 1]
    /\ seen = [p \in Procs |-> None]
    /\ hb = [p \in Procs |-> "off"]
    /\ faults = 0
    /\ stolen = FALSE

Acquiring(p) ==
    \/ Start(p) \/ Mkdir(p) \/ WriteToken(p) \/ WriteOwner(p)
    \/ StaleCheck(p) \/ ReadToken(p) \/ RereadToken(p) \/ Recheck(p) \/ Move(p)

Releasing(p) ==
    \/ CommandEnds(p) \/ Release(p) \/ UnlinkOwner(p) \/ UnlinkToken(p) \/ RemoveDir(p)

Next ==
    \/ \E p \in Procs :
          \/ Acquiring(p) \/ Releasing(p)
          \/ HeartbeatCheck(p) \/ HeartbeatWrite(p) \/ HeartbeatFails(p) \/ Crash(p)
    \/ LockAges \/ LockStalls

Spec == Init /\ [][Next]_vars

(***************************************************************************)
(* Jobs are started again on schedule, a script in progress runs on unless *)
(* it dies, and every command ends; an abandoned lock grows old.           *)
(***************************************************************************)
Fairness ==
    /\ \A p \in Procs : /\ WF_vars(Acquiring(p) \/ Releasing(p))
                        /\ WF_vars(hb[p] = "orphan" /\ HeartbeatWrite(p))
    /\ WF_vars(LockAges)

FairSpec == Spec /\ Fairness

-----------------------------------------------------------------------------
(* Properties.                                                             *)

Labels == Attending \cup {"idle", "mkdir", "check", "readtoken", "retoken", "recheck", "move"}

\* What the lock directory holds and where each run is.
TypeOK ==
    /\ lockDir \in BOOLEAN
    /\ token \in Procs \cup {None}
    /\ owner \in {"absent", "fresh", "stale"}
    /\ aged \in BOOLEAN
    /\ pc \in [Procs -> Labels]
    /\ round \in [Procs -> 1..(Rounds + 1)]
    /\ seen \in [Procs -> Procs \cup {None}]
    /\ hb \in [Procs -> {"off", "on", "write", "orphan"}]
    /\ faults \in 0..MaxFaults
    /\ stolen \in BOOLEAN

\* A run that has started its command keeps the lock, with its own token in it,
\* until its own cleanup: nothing but mv can take it away, neither another
\* run's mkdir or cleanup nor any heartbeat.
HeldUnlessStolen ==
    \A p \in Procs : pc[p] = "run" /\ ~stolen => lockDir /\ token = p

\* The lock comes free again: commands run over and over, whatever run dies
\* with the lock in its hands.
Recovered == []<>(\E p \in Procs : pc[p] = "run")
=============================================================================
