-------------------------- MODULE PatrolMonthsProofs --------------------------
(***************************************************************************)
(* Proofs about PatrolMonths, for any months, users, revisions, logs,      *)
(* changes of the past and kills.                                          *)
(***************************************************************************)
EXTENDS PatrolMonths, NaturalSets

-----------------------------------------------------------------------------
(* Months and their sets.                                                  *)

LEMMA Constants ==
    /\ NumMonths \in Nat /\ FirstSnap \in Nat /\ 1 <= FirstSnap /\ FirstSnap <= NumMonths
    /\ NumParts \in Nat
    /\ Months \subseteq Nat /\ Snaps \subseteq Months /\ YearEnds \subseteq Months
    /\ MaxEdits \in Nat /\ MaxFaults \in Nat
BY PatrolAssumption DEF PatrolAssumption, Months, Snaps

\* What holds at 0 and is handed on, holds up to n.
LEMMA UpTo ==
    ASSUME NEW n \in Nat, NEW T, 0 \in T, \A i \in 0..(n - 1) : i \in T => i + 1 \in T
    PROVE  \A i \in 0..n : i \in T
<1> DEFINE S == {i \in 0..n : i \notin T}
<1>1. S \in SUBSET Nat
  OBVIOUS
<1>2. CASE S # {}
  <2>1. PICK m \in S : \A k \in S : m <= k
    BY <1>1, <1>2, SmallestNat
  <2>2. m # 0 /\ m \in 0..n
    OBVIOUS
  <2>3. m - 1 \in 0..(n - 1) /\ m - 1 \notin S
    BY <2>1, <2>2
  <2>4. m - 1 \in T /\ (m - 1) + 1 = m
    BY <2>2, <2>3
  <2>5. QED
    BY <2>3, <2>4
<1>3. QED
  BY <1>2

LEMMA MinIn ==
    ASSUME NEW S \in SUBSET Nat, S # {}
    PROVE  Min(S) \in S /\ \A k \in S : Min(S) <= k
<1>1. \E x \in S : \A y \in S : x <= y
  BY SmallestNat
<1>2. QED
  BY <1>1 DEF Min

LEMMA MaxIn ==
    ASSUME NEW S \in SUBSET Nat, S # {}, NEW b \in Nat, \A k \in S : k <= b
    PROVE  Max(S) \in S /\ \A k \in S : Max(S) >= k
<1>1. \E x \in S : \A y \in S : x >= y
  BY LargestNat
<1>2. QED
  BY <1>1 DEF Max

-----------------------------------------------------------------------------
(* The replay of the rights events of a month.                             *)

Base(u, users) == [start |-> IF u \in users THEN 0 ELSE None, ivs |-> {}]

\* The accumulator before every event and at the end
Walk(acc, n, u, events, grps, users) ==
    /\ acc = [i \in 0..n |-> acc[i]]
    /\ acc[0] = Base(u, users)
    /\ \A i \in 1..n :
          acc[i] = IF i \in Changes(u, events, grps)
                   THEN Step(acc[i - 1], events[i], grps) ELSE acc[i - 1]

LEMMA WalkExists ==
    ASSUME NEW u, NEW events, NEW grps, NEW users, NEW n \in Nat
    PROVE  \E acc : Walk(acc, n, u, events, grps, users)
<1> DEFINE T == {m \in 0..n : \E acc : Walk(acc, m, u, events, grps, users)}
<1>1. 0 \in T
  <2> DEFINE a == [i \in 0..0 |-> Base(u, users)]
  <2>1. Walk(a, 0, u, events, grps, users)
    BY DEF Walk
  <2>2. QED
    BY <2>1
<1>2. ASSUME NEW m \in 0..(n - 1), m \in T PROVE m + 1 \in T
  <2>1. PICK a : Walk(a, m, u, events, grps, users)
    BY <1>2
  <2> DEFINE next == IF m + 1 \in Changes(u, events, grps)
                     THEN Step(a[m], events[m + 1], grps) ELSE a[m]
             b == [i \in 0..(m + 1) |-> IF i = m + 1 THEN next ELSE a[i]]
  <2>2. /\ b = [i \in 0..(m + 1) |-> b[i]] /\ b[m + 1] = next
        /\ \A i \in 0..m : b[i] = a[i]
    OBVIOUS
  <2>3. b[0] = Base(u, users)
    BY <2>1, <2>2 DEF Walk
  <2>4. ASSUME NEW i \in 1..(m + 1)
        PROVE  b[i] = IF i \in Changes(u, events, grps)
                      THEN Step(b[i - 1], events[i], grps) ELSE b[i - 1]
    <3> HIDE DEF b
    <3>1. CASE i = m + 1
      <4> m \in Nat /\ m \in 0..m
        OBVIOUS
      <4>1. i - 1 = m
        BY <3>1
      <4>2. b[m] = a[m]
        BY <2>2
      <4>3. QED
        BY <2>2, <3>1, <4>1, <4>2
    <3>2. CASE i \in 1..m
      <4>1. i - 1 \in 0..m /\ i \in 0..m
        BY <3>2
      <4>2. b[i] = a[i] /\ b[i - 1] = a[i - 1]
        BY <2>2, <4>1
      <4>3. QED
        BY <2>1, <3>2, <4>2 DEF Walk
    <3>3. QED
      BY <3>1, <3>2
  <2>5. Walk(b, m + 1, u, events, grps, users)
    <3> HIDE DEF b
    <3>1. QED
      BY <2>2, <2>3, <2>4 DEF Walk
  <2>6. QED
    BY <2>5
<1> HIDE DEF T
<1>3. n \in T
  BY <1>1, <1>2, UpTo
<1>4. QED
  BY <1>3 DEF T

LEMMA ReplayWalk ==
    ASSUME NEW u, NEW events, NEW grps, NEW users, Len(events) \in Nat
    PROVE  \E acc : /\ Walk(acc, Len(events), u, events, grps, users)
                    /\ Replay(u, events, grps, users) = acc[Len(events)]
<1> DEFINE n == Len(events)
           rec(f) == [i \in 0..n |->
                        IF i = 0 THEN [start |-> IF u \in users THEN 0 ELSE None, ivs |-> {}]
                        ELSE IF i \in Changes(u, events, grps) THEN Step(f[i - 1], events[i], grps)
                        ELSE f[i - 1]]
           acc[i \in 0..n] ==
                IF i = 0 THEN [start |-> IF u \in users THEN 0 ELSE None, ivs |-> {}]
                ELSE IF i \in Changes(u, events, grps) THEN Step(acc[i - 1], events[i], grps)
                ELSE acc[i - 1]
<1>1. \E f : f = rec(f)
  <2>1. PICK f : Walk(f, n, u, events, grps, users)
    BY WalkExists
  <2>2. \A i \in 0..n : f[i] = rec(f)[i]
    BY <2>1 DEF Walk, Base
  <2>3. f = rec(f)
    BY <2>1, <2>2 DEF Walk
  <2>4. QED
    BY <2>3
<1>2. acc = rec(acc)
  BY <1>1
<1>3. Replay(u, events, grps, users) = acc[n]
  BY DEF Replay
<1> HIDE DEF acc
<1>4. Walk(acc, n, u, events, grps, users)
  <2>1. acc = [i \in 0..n |-> acc[i]]
    BY <1>2
  <2>2. acc[0] = Base(u, users)
    BY <1>2 DEF Base
  <2>3. ASSUME NEW i \in 1..n
        PROVE  acc[i] = IF i \in Changes(u, events, grps)
                        THEN Step(acc[i - 1], events[i], grps) ELSE acc[i - 1]
    <3>1. i \in 0..n /\ i # 0
      OBVIOUS
    <3>2. acc[i] = rec(acc)[i]
      BY <1>2
    <3>3. QED
      BY <3>1, <3>2
  <2>4. QED
    BY <2>1, <2>2, <2>3 DEF Walk
<1>5. QED
  BY <1>3, <1>4

\* One change of the right of a user
LEMMA StepChange ==
    ASSUME NEW s, NEW v, NEW e, e.at # None, NEW grps, Holds(e.old, grps) <=> ~Holds(e.new, grps)
    PROVE  Step([start |-> s, ivs |-> v], e, grps) =
             IF Holds(e.new, grps)
             THEN [start |-> e.at, ivs |-> IF s = None THEN v ELSE v \cup {<<s, e.at>>}]
             ELSE [start |-> None, ivs |-> v \cup {<<IF s = None THEN 0 ELSE s, e.at>>}]
<1> DEFINE acc == [start |-> s, ivs |-> v]
<1>1. [acc EXCEPT !.start = 0] = [start |-> 0, ivs |-> v]
  OBVIOUS
<1>2. [acc EXCEPT !.start = e.at] = [start |-> e.at, ivs |-> v] /\ [acc EXCEPT !.start = acc.start] = acc
  OBVIOUS
<1>3. 0 # None
  BY DEF None, OpenEnd
<1>4. CASE Holds(e.old, grps) /\ s = None
  BY <1>1, <1>3, <1>4 DEF Step
<1>5. CASE Holds(e.old, grps) /\ s # None
  BY <1>5 DEF Step
<1>6. CASE ~Holds(e.old, grps) /\ s = None
  BY <1>2, <1>6 DEF Step
<1>7. CASE ~Holds(e.old, grps) /\ s # None
  BY <1>7 DEF Step
<1>8. QED
  BY <1>4, <1>5, <1>6, <1>7

LEMMA ChangeTimes ==
    ASSUME NEW u, NEW events, Chronological(events), NEW grps
    PROVE  /\ Len(events) \in Nat /\ Changes(u, events, grps) \subseteq 1..Len(events)
           /\ \A j \in Changes(u, events, grps) :
                 /\ events[j].at \in Nat /\ events[j].at # None
                 /\ (Holds(events[j].old, grps) <=> ~Holds(events[j].new, grps))
<1>1. \A j \in Changes(u, events, grps) : Holds(events[j].old, grps) <=> ~Holds(events[j].new, grps)
  BY DEF Changes, Holds
<1>2. Len(events) \in Nat /\ Changes(u, events, grps) \subseteq 1..Len(events)
  BY DEF Chronological, Changes
<1>3. \A j \in Changes(u, events, grps) : events[j].at \in 0..(OpenEnd - 1)
  BY <1>2 DEF Chronological
<1>4. 0..(OpenEnd - 1) \subseteq Nat /\ None \notin 0..(OpenEnd - 1)
  BY DEF None, OpenEnd
<1>5. QED
  BY <1>1, <1>2, <1>3, <1>4

\* The interval that a change closes
Closes(acc, j, events, grps) ==
    IF acc[j - 1].start # None THEN {<<acc[j - 1].start, events[j].at>>}
    ELSE IF Holds(events[j].old, grps) THEN {<<0, events[j].at>>} ELSE {}

\* The accumulator after the first i events
Reached(acc, i, u, events, grps, users) ==
    LET C == {j \in Changes(u, events, grps) : j <= i}
    IN /\ acc[i] = [start |-> acc[i].start, ivs |-> acc[i].ivs]
       /\ C = {} => acc[i].start = Base(u, users).start
       /\ \A j \in C : (\A k \in C : k <= j) =>
             acc[i].start = IF Holds(events[j].new, grps) THEN events[j].at ELSE None
       /\ \A iv : iv \in acc[i].ivs <=> \E j \in C : iv \in Closes(acc, j, events, grps)

LEMMA WalkReaches ==
    ASSUME NEW u, NEW events, Chronological(events), NEW grps, NEW users, NEW acc,
           Walk(acc, Len(events), u, events, grps, users)
    PROVE  \A i \in 0..Len(events) : Reached(acc, i, u, events, grps, users)
<1> DEFINE n == Len(events)
           D == Changes(u, events, grps)
           T == {i \in 0..n : Reached(acc, i, u, events, grps, users)}
<1>1. n \in Nat /\ D \subseteq 1..n
      /\ \A j \in D : events[j].at \in Nat /\ events[j].at # None
                      /\ (Holds(events[j].old, grps) <=> ~Holds(events[j].new, grps))
  BY ChangeTimes
<1>2. 0 \in T
  <2>1. acc[0] = [start |-> Base(u, users).start, ivs |-> {}]
    BY DEF Walk, Base
  <2>2. {j \in D : j <= 0} = {}
    BY <1>1
  <2>3. Reached(acc, 0, u, events, grps, users)
    BY <2>1, <2>2 DEF Reached
  <2>4. QED
    BY <1>1, <2>3
<1>3. ASSUME NEW m \in 0..(n - 1), m \in T PROVE m + 1 \in T
  <2> DEFINE C == {j \in D : j <= m}
             E == {j \in D : j <= m + 1}
  <2>1. m \in Nat /\ m + 1 \in 1..n /\ (m + 1) - 1 = m
    BY <1>1
  <2>2. /\ acc[m] = [start |-> acc[m].start, ivs |-> acc[m].ivs]
        /\ C = {} => acc[m].start = Base(u, users).start
        /\ \A j \in C : (\A k \in C : k <= j) =>
              acc[m].start = IF Holds(events[j].new, grps) THEN events[j].at ELSE None
        /\ \A iv : iv \in acc[m].ivs <=> \E j \in C : iv \in Closes(acc, j, events, grps)
    BY <1>3 DEF Reached
  <2>3. acc[m + 1] = IF m + 1 \in D THEN Step(acc[m], events[m + 1], grps) ELSE acc[m]
    BY <2>1 DEF Walk
  <2>4. CASE m + 1 \notin D
    <3>1. E = C
      BY <1>1, <2>1, <2>4
    <3>2. acc[m + 1] = acc[m]
      BY <2>3, <2>4
    <3> HIDE DEF C
    <3>3. Reached(acc, m + 1, u, events, grps, users)
      BY <2>2, <3>1, <3>2 DEF Reached
    <3>4. QED
      BY <2>1, <3>3
  <2>5. CASE m + 1 \in D
    <3> DEFINE e == events[m + 1]
               from == IF acc[m].start = None THEN 0 ELSE acc[m].start
    <3>1. E = C \cup {m + 1} /\ \A k \in E : k <= m + 1
      BY <1>1, <2>1, <2>5
    <3>2. e.at # None /\ (Holds(e.old, grps) <=> ~Holds(e.new, grps))
      BY <1>1, <2>5
    <3>3. acc[m + 1] = Step(acc[m], e, grps)
      BY <2>3, <2>5
    <3>4. acc[m + 1] =
            IF Holds(e.new, grps)
            THEN [start |-> e.at,
                  ivs |-> IF acc[m].start = None THEN acc[m].ivs
                          ELSE acc[m].ivs \cup {<<acc[m].start, e.at>>}]
            ELSE [start |-> None, ivs |-> acc[m].ivs \cup {<<from, e.at>>}]
      <4> DEFINE s == acc[m].start
                 v == acc[m].ivs
      <4>1. acc[m] = [start |-> s, ivs |-> v]
        BY <2>2
      <4>2. acc[m + 1] = Step([start |-> s, ivs |-> v], e, grps)
        BY <3>3, <4>1
      <4> HIDE DEF s, v, e
      <4>3. QED
        BY <3>2, <4>2, StepChange DEF s, v
    <3>5. acc[m + 1].ivs = acc[m].ivs \cup Closes(acc, m + 1, events, grps)
      BY <2>1, <3>2, <3>4 DEF Closes
    <3>6. \A iv : iv \in acc[m + 1].ivs <=> \E j \in E : iv \in Closes(acc, j, events, grps)
      <4> HIDE DEF C, E
      <4>1. QED
        BY <2>2, <3>1, <3>5
    <3>7. \A j \in E : (\A k \in E : k <= j) => j = m + 1
      <4>1. m + 1 \in E
        BY <2>1, <2>5
      <4>2. \A j \in E : j \in Nat
        BY <1>1
      <4>3. QED
        BY <2>1, <3>1, <4>1, <4>2
    <3>8. acc[m + 1].start = IF Holds(e.new, grps) THEN e.at ELSE None
      BY <3>2, <3>4
    <3>9. acc[m + 1] = [start |-> acc[m + 1].start, ivs |-> acc[m + 1].ivs]
      <4>1. CASE Holds(e.new, grps)
        BY <3>4, <4>1
      <4>2. CASE ~Holds(e.new, grps)
        BY <3>4, <4>2
      <4>3. QED
        BY <4>1, <4>2
    <3>10. Reached(acc, m + 1, u, events, grps, users)
      <4>1. E # {}
        BY <2>1, <2>5
      <4>2. \A j \in E : (\A k \in E : k <= j) =>
               acc[m + 1].start = IF Holds(events[j].new, grps) THEN events[j].at ELSE None
        BY <3>7, <3>8
      <4>3. QED
        BY <3>6, <3>9, <4>1, <4>2 DEF Reached
    <3>11. QED
      BY <2>1, <3>10
  <2>6. QED
    BY <2>4, <2>5
<1> HIDE DEF T
<1>4. \A i \in 0..n : i \in T
  BY <1>1, <1>2, <1>3, UpTo
<1>5. QED
  BY <1>4 DEF T

\* The last change of the month gives the right.
GivesLast(u, events, grps) ==
    \E i \in Changes(u, events, grps) :
        Holds(events[i].new, grps) /\ \A j \in Changes(u, events, grps) : j <= i

LEMMA LastChange ==
    ASSUME NEW n \in Nat, NEW C \in SUBSET (1..n), C # {}
    PROVE  \E p \in C : \A k \in C : k <= p
<1>1. C \in SUBSET Nat /\ \A k \in C : k <= n
  OBVIOUS
<1>2. QED
  BY <1>1, LargestNat

LEMMA BaseStart ==
    ASSUME NEW u, NEW users
    PROVE  /\ u \in users => Base(u, users).start = 0
           /\ u \notin users => Base(u, users).start = None
           /\ 0 # None
BY DEF Base, None, OpenEnd

\* advance_rights_month carries over who had the right and did not lose it, and who
\* was given it last.
LEMMA HoldersClosed ==
    ASSUME NEW events, Chronological(events), NEW grps, NEW users
    PROVE  Holders(events, grps, users) =
             {u \in Users : \/ GivesLast(u, events, grps)
                            \/ Changes(u, events, grps) = {} /\ u \in users}
<1>1. ASSUME NEW u \in Users
      PROVE  Replay(u, events, grps, users).start # None
                <=> \/ GivesLast(u, events, grps)
                    \/ Changes(u, events, grps) = {} /\ u \in users
  <2> DEFINE n == Len(events)
             C == Changes(u, events, grps)
  <2>1. /\ n \in Nat /\ C \subseteq 1..n
        /\ \A j \in C : events[j].at # None
    BY ChangeTimes
  <2>2. PICK acc : Walk(acc, n, u, events, grps, users) /\ Replay(u, events, grps, users) = acc[n]
    BY <2>1, ReplayWalk
  <2>3. Reached(acc, n, u, events, grps, users)
    BY <2>1, <2>2, WalkReaches
  <2>4. {j \in C : j <= n} = C
    BY <2>1
  <2>5. /\ C = {} => acc[n].start = Base(u, users).start
        /\ \A j \in C : (\A k \in C : k <= j) =>
              acc[n].start = IF Holds(events[j].new, grps) THEN events[j].at ELSE None
    BY <2>3, <2>4 DEF Reached
  <2>6. CASE C = {}
    BY <2>2, <2>5, <2>6, BaseStart DEF GivesLast
  <2>7. CASE C # {}
    <3>1. PICK p \in C : \A k \in C : k <= p
      BY <2>1, <2>7, LastChange
    <3>2. acc[n].start # None <=> Holds(events[p].new, grps)
      BY <2>1, <2>5, <3>1
    <3>3. \A i \in C : (\A j \in C : j <= i) => i = p
      BY <2>1, <3>1
    <3>4. GivesLast(u, events, grps) <=> Holds(events[p].new, grps)
      BY <3>1, <3>3 DEF GivesLast
    <3>5. QED
      BY <2>2, <2>7, <3>2, <3>4
  <2>8. QED
    BY <2>6, <2>7
<1>2. QED
  BY <1>1 DEF Holders

\* Whether time t of the month counts, from the events alone
AutoAt(carried, u, t, events, grps) ==
    LET C == Changes(u, events, grps)
    IN \/ carried /\ \A i \in C : t < events[i].at
       \/ \E i \in C : /\ events[i].at <= t /\ Holds(events[i].new, grps)
                       /\ \A j \in C : events[j].at <= t => j <= i
       \/ \E i \in C :
              /\ t < events[i].at /\ Holds(events[i].old, grps)
              /\ \A j \in C : (j < i /\ \A k \in C : k < i => k <= j) => ~Holds(events[j].new, grps)

\* A change closes an interval around t.
Covers(acc, j, t, events, grps) ==
    /\ t < events[j].at
    /\ \/ acc[j - 1].start # None /\ acc[j - 1].start <= t
       \/ acc[j - 1].start = None /\ Holds(events[j].old, grps)

LEMMA ClosesCovers ==
    ASSUME NEW acc, NEW j, NEW t \in Nat, NEW events, NEW grps
    PROVE  (\E iv \in Closes(acc, j, events, grps) : iv[1] <= t /\ t < iv[2])
              <=> Covers(acc, j, t, events, grps)
<1> DEFINE s == acc[j - 1].start
           a == events[j].at
<1>0. ASSUME NEW x, NEW y
      PROVE  (\E iv \in {<<x, y>>} : iv[1] <= t /\ t < iv[2]) <=> x <= t /\ t < y
  <2>1. <<x, y>>[1] = x /\ <<x, y>>[2] = y
    OBVIOUS
  <2>2. QED
    BY <2>1
<1>1. CASE acc[j - 1].start # None
  <2>1. Closes(acc, j, events, grps) = {<<s, a>>}
    BY <1>1 DEF Closes
  <2>2. Covers(acc, j, t, events, grps) <=> s <= t /\ t < a
    BY <1>1 DEF Covers
  <2> HIDE DEF s, a
  <2>3. QED
    BY <1>0, <2>1, <2>2
<1>2. CASE acc[j - 1].start = None /\ Holds(events[j].old, grps)
  <2>1. Closes(acc, j, events, grps) = {<<0, a>>}
    BY <1>2 DEF Closes
  <2>2. Covers(acc, j, t, events, grps) <=> 0 <= t /\ t < a
    BY <1>2 DEF Covers
  <2> HIDE DEF a
  <2>3. QED
    BY <1>0, <2>1, <2>2
<1>3. CASE acc[j - 1].start = None /\ ~Holds(events[j].old, grps)
  BY <1>3 DEF Closes, Covers
<1>4. QED
  BY <1>1, <1>2, <1>3

\* user_has_autopatrol_at over the intervals of advance_rights_month: by the latest
\* change before, or by a later one that takes away what no change gave.
LEMMA AutopatrolClosed ==
    ASSUME NEW events, Chronological(events), NEW grps, NEW users, NEW u,
           NEW t \in 0..(OpenEnd - 1)
    PROVE  HasAutopatrol(u, t, events, grps, users)
              <=> AutoAt(u \in users, u, t, events, grps)
<1> DEFINE n == Len(events)
           C == Changes(u, events, grps)
<1>1. /\ n \in Nat /\ C \subseteq 1..n /\ t \in Nat /\ t < OpenEnd /\ C \in SUBSET Nat
      /\ \A j \in C : events[j].at \in Nat /\ events[j].at # None
                      /\ (Holds(events[j].old, grps) <=> ~Holds(events[j].new, grps))
  <2>1. t \in Nat /\ t < OpenEnd
    BY DEF OpenEnd
  <2>2. C \subseteq 1..n /\ n \in Nat
    BY ChangeTimes
  <2>3. C \in SUBSET Nat
    BY <2>2
  <2>4. QED
    BY <2>1, <2>2, <2>3, ChangeTimes
<1>2. PICK acc : Walk(acc, n, u, events, grps, users) /\ Replay(u, events, grps, users) = acc[n]
  BY <1>1, ReplayWalk
<1>3. \A i \in 0..n : Reached(acc, i, u, events, grps, users)
  BY <1>2, WalkReaches
<1>4. \A i, j \in C : i <= j => events[i].at <= events[j].at
  BY <1>1 DEF Chronological
\* The interval that is open before event j, and at the end
<1>5. ASSUME NEW j \in C
      PROVE  /\ (\A k \in C : k >= j) => acc[j - 1].start = Base(u, users).start
             /\ \A p \in C : (p < j /\ \A k \in C : k < j => k <= p) =>
                   acc[j - 1].start = IF Holds(events[p].new, grps) THEN events[p].at ELSE None
  <2>1. j \in 1..n /\ j - 1 \in 0..n
    BY <1>1
  <2>2. \A k \in C : k \in Nat /\ (k <= j - 1 <=> k < j)
    BY <1>1
  <2>3. Reached(acc, j - 1, u, events, grps, users)
    BY <1>3, <2>1
  <2> DEFINE D == {k \in C : k <= j - 1}
  <2>4. /\ D = {} => acc[j - 1].start = Base(u, users).start
        /\ \A p \in D : (\A k \in D : k <= p) =>
              acc[j - 1].start = IF Holds(events[p].new, grps) THEN events[p].at ELSE None
    BY <2>3 DEF Reached
  <2>5. (\A k \in C : k >= j) => D = {}
    BY <1>1, <2>2
  <2>6. QED
    BY <2>4, <2>5, <2>2
<1>6. /\ C = {} => acc[n].start = Base(u, users).start
      /\ \A p \in C : (\A k \in C : k <= p) =>
            acc[n].start = IF Holds(events[p].new, grps) THEN events[p].at ELSE None
      /\ \A iv : iv \in acc[n].ivs <=> \E j \in C : iv \in Closes(acc, j, events, grps)
  <2>1. Reached(acc, n, u, events, grps, users)
    BY <1>1, <1>3
  <2>2. {j \in C : j <= n} = C
    BY <1>1
  <2>3. QED
    BY <2>1, <2>2 DEF Reached
<1>7. HasAutopatrol(u, t, events, grps, users)
        <=> \/ \E j \in C : Covers(acc, j, t, events, grps)
            \/ acc[n].start # None /\ acc[n].start <= t
  <2> DEFINE open == IF acc[n].start = None THEN {} ELSE {<<acc[n].start, OpenEnd>>}
  <2>1. Intervals(u, events, grps, users) = acc[n].ivs \cup open
    BY <1>2 DEF Intervals
  <2>2. (\E iv \in open : iv[1] <= t /\ t < iv[2]) <=> acc[n].start # None /\ acc[n].start <= t
    <3>1. CASE acc[n].start = None
      BY <3>1
    <3>2. CASE acc[n].start # None
      <4>1. open = {<<acc[n].start, OpenEnd>>}
        BY <3>2
      <4>2. <<acc[n].start, OpenEnd>>[1] = acc[n].start /\ <<acc[n].start, OpenEnd>>[2] = OpenEnd
        OBVIOUS
      <4> HIDE DEF open
      <4>3. QED
        BY <1>1, <3>2, <4>1, <4>2
    <3>3. QED
      BY <3>1, <3>2
  <2>3. (\E iv \in acc[n].ivs : iv[1] <= t /\ t < iv[2])
          <=> \E j \in C : Covers(acc, j, t, events, grps)
    <3>1. \A j \in C : (\E iv \in Closes(acc, j, events, grps) : iv[1] <= t /\ t < iv[2])
                          <=> Covers(acc, j, t, events, grps)
      BY <1>1, ClosesCovers
    <3>2. QED
      BY <1>6, <3>1
  <2> HIDE DEF open
  <2>4. QED
    BY <2>1, <2>2, <2>3 DEF HasAutopatrol
<1> DEFINE InA == u \in users /\ \A i \in C : t < events[i].at
           InB(i) == /\ events[i].at <= t /\ Holds(events[i].new, grps)
                     /\ \A j \in C : events[j].at <= t => j <= i
           InC(i) == /\ t < events[i].at /\ Holds(events[i].old, grps)
                     /\ \A j \in C : (j < i /\ \A k \in C : k < i => k <= j)
                                        => ~Holds(events[j].new, grps)
<1>8. AutoAt(u \in users, u, t, events, grps)
        <=> InA \/ (\E i \in C : InB(i)) \/ (\E i \in C : InC(i))
  BY DEF AutoAt
\* The change before another one, if any
<1>9. ASSUME NEW j \in C, \E k \in C : k < j
      PROVE  \E p \in C : p < j /\ \A k \in C : k < j => k <= p
  <2>1. {k \in C : k < j} \in SUBSET (1..n) /\ {k \in C : k < j} # {}
    BY <1>1, <1>9
  <2>2. PICK p \in {k \in C : k < j} : \A k \in {i \in C : i < j} : k <= p
    BY <1>1, <2>1, LastChange
  <2>3. QED
    BY <2>2
<1>10. ASSUME NEW j \in C, Covers(acc, j, t, events, grps)
       PROVE  InA \/ (\E i \in C : InB(i)) \/ (\E i \in C : InC(i))
  <2>1. t < events[j].at
    BY <1>10 DEF Covers
  <2>2. \A k \in C : k >= j => t < events[k].at
    <3>1. \A k \in C : k >= j => events[j].at <= events[k].at
      BY <1>1, <1>4
    <3>2. QED
      BY <1>1, <2>1, <3>1
  <2>3. CASE \A k \in C : k >= j
    <3>1. acc[j - 1].start = Base(u, users).start
      BY <1>5, <2>3
    <3>2. CASE u \in users
      BY <2>2, <2>3, <3>2
    <3>3. CASE u \notin users
      <4>1. Holds(events[j].old, grps)
        BY <1>10, <3>1, <3>3, BaseStart DEF Covers
      <4>2. \A i \in C : ~(i < j)
        BY <1>1, <2>3
      <4>3. InC(j)
        BY <2>1, <4>1, <4>2
      <4>4. QED
        BY <4>3
    <3>4. QED
      BY <3>2, <3>3
  <2>4. CASE \E k \in C : k < j
    <3>1. PICK p \in C : p < j /\ \A k \in C : k < j => k <= p
      BY <1>9, <2>4
    <3>2. acc[j - 1].start = IF Holds(events[p].new, grps) THEN events[p].at ELSE None
      BY <1>5, <3>1
    <3>3. CASE Holds(events[p].new, grps)
      <4>1. events[p].at <= t
        BY <1>1, <1>10, <3>2, <3>3 DEF Covers
      <4>2. ASSUME NEW k \in C, events[k].at <= t PROVE k <= p
        <5>1. ~(k >= j)
          BY <1>1, <2>2, <4>2
        <5>2. QED
          BY <1>1, <3>1, <5>1
      <4>3. InB(p)
        BY <3>3, <4>1, <4>2
      <4>4. QED
        BY <4>3
    <3>4. CASE ~Holds(events[p].new, grps)
      <4>1. Holds(events[j].old, grps)
        BY <1>10, <3>2, <3>4 DEF Covers
      <4>2. \A i \in C : (i < j /\ \A k \in C : k < j => k <= i) => i = p
        BY <1>1, <3>1
      <4>3. InC(j)
        BY <2>1, <3>4, <4>1, <4>2
      <4>4. QED
        BY <4>3
    <3>5. QED
      BY <3>3, <3>4
  <2>5. QED
    BY <1>1, <2>3, <2>4
<1>11. ASSUME acc[n].start # None, acc[n].start <= t
       PROVE  InA \/ (\E i \in C : InB(i)) \/ (\E i \in C : InC(i))
  <2>1. CASE C = {}
    <3>1. u \in users
      BY <1>6, <1>11, <2>1, BaseStart
    <3>2. QED
      BY <2>1, <3>1
  <2>2. CASE C # {}
    <3>1. PICK p \in C : \A k \in C : k <= p
      BY <1>1, <2>2, LastChange
    <3>2. Holds(events[p].new, grps) /\ events[p].at <= t
      BY <1>6, <1>11, <3>1
    <3>3. InB(p)
      BY <3>1, <3>2
    <3>4. QED
      BY <3>3
  <2>3. QED
    BY <2>1, <2>2
<1>12. ASSUME InA
       PROVE  \/ \E j \in C : Covers(acc, j, t, events, grps)
              \/ acc[n].start # None /\ acc[n].start <= t
  <2>1. CASE C = {}
    BY <1>1, <1>6, <1>12, <2>1, BaseStart
  <2>2. CASE C # {}
    <3>1. PICK j \in C : \A k \in C : j <= k
      BY <1>1, <2>2, SmallestNat
    <3>2. acc[j - 1].start = 0
      BY <1>1, <1>5, <1>12, <3>1, BaseStart
    <3>3. Covers(acc, j, t, events, grps)
      BY <1>1, <1>12, <3>2, BaseStart DEF Covers
    <3>4. QED
      BY <3>3
  <2>3. QED
    BY <2>1, <2>2
<1>13. ASSUME NEW i \in C, InB(i)
       PROVE  \/ \E j \in C : Covers(acc, j, t, events, grps)
              \/ acc[n].start # None /\ acc[n].start <= t
  <2>1. CASE \A k \in C : k <= i
    <3>1. acc[n].start = events[i].at
      BY <1>6, <1>13, <2>1
    <3>2. QED
      BY <1>1, <1>13, <3>1
  <2>2. CASE \E k \in C : i < k
    <3> DEFINE S == {k \in C : i < k}
    <3>1. PICK j \in S : \A k \in S : j <= k
      <4>1. S \in SUBSET Nat /\ S # {}
        BY <1>1, <2>2
      <4>2. QED
        BY <4>1, SmallestNat
    <3>2. j \in C /\ i < j /\ \A k \in C : k < j => k <= i
      BY <1>1, <3>1
    <3>3. acc[j - 1].start = events[i].at
      BY <1>5, <1>13, <3>2
    <3>4. t < events[j].at
      <4>1. ~(events[j].at <= t)
        BY <1>1, <1>13, <3>2
      <4>2. QED
        BY <1>1, <3>2, <4>1
    <3>5. Covers(acc, j, t, events, grps)
      BY <1>1, <1>13, <3>3, <3>4 DEF Covers
    <3>6. QED
      BY <3>2, <3>5
  <2>3. QED
    BY <1>1, <2>1, <2>2
<1>14. ASSUME NEW i \in C, InC(i) PROVE Covers(acc, i, t, events, grps)
  <2>1. CASE \A k \in C : k >= i
    <3>1. acc[i - 1].start = Base(u, users).start
      BY <1>5, <2>1
    <3>2. acc[i - 1].start = 0 \/ acc[i - 1].start = None
      BY <3>1, BaseStart
    <3>3. QED
      BY <1>1, <1>14, <3>2, BaseStart DEF Covers
  <2>2. CASE \E k \in C : k < i
    <3>1. PICK p \in C : p < i /\ \A k \in C : k < i => k <= p
      BY <1>9, <2>2
    <3>2. ~Holds(events[p].new, grps)
      BY <1>14, <3>1
    <3>3. acc[i - 1].start = None
      BY <1>5, <3>1, <3>2
    <3>4. QED
      BY <1>14, <3>3 DEF Covers
  <2>3. QED
    BY <1>1, <2>1, <2>2
<1>15. QED
  BY <1>7, <1>8, <1>10, <1>11, <1>12, <1>13, <1>14

-----------------------------------------------------------------------------
(* The inductive invariant.                                                *)

Log == [log : SUBSET Revs, rights : RightsLogs \cup {<<>>}]
Logs == [Months -> Log]
Released == {s \in Snaps : s <= newest}

\* Upstream: every snapshot has a revision, and none of a month it does not cover;
\* its dump is one of its versions.
UpstreamInv ==
    /\ world \in Pasts /\ newest \in Snaps \cup {FirstSnap - 1} /\ edits \in 0..MaxEdits
    /\ hist \in [Snaps -> [Revs -> Kinds \cup {Gone}]]
    /\ versions \in [Snaps -> SUBSET Logs]
    /\ dump \in [Snaps -> [logs : Logs \cup {Absent}, done : BOOLEAN]]
    /\ \A s \in Released :
          /\ \E r \in Revs : hist[s][r] # Gone
          /\ \A r \in Revs : hist[s][r] # Gone => MonthOf[r] <= s
          /\ dump[s].logs \in versions[s]

SourceInv ==
    /\ plan = [s \in Snaps |-> plan[s]] /\ gen = [s \in Snaps |-> gen[s]]
    /\ \A s \in Snaps : plan[s] # Absent => s \in Released /\ plan[s] \in versions[s]
    /\ \A s \in Snaps : gen[s] # Absent => s \in Released /\ gen[s].logs \in versions[s]
    /\ meta = [snap |-> meta.snap, groups |-> meta.groups] /\ meta.snap \in {0} \cup Released
    /\ pointer \in {0} \cup {s \in Snaps : gen[s] # Absent}

Indexing == {"index", "events", "source"}
Loop == {"month", "advance", "store", "stored", "part"}
Ending == {"merge", "record"}
Computing == {"compute"} \cup Indexing \cup Loop \cup Ending
Fetching == {"preflight", "groups", "fetch", "build"}

\* The process: its download is a part of the plan, its computation has a generation.
ProcessInv ==
    /\ pc \in {"idle", "pointer"} \cup Fetching \cup Computing
    /\ out.snap \in Snaps /\ faults \in 0..MaxFaults
    /\ pc # "idle" => out.snap = newest
    /\ pc \in {"pointer"} \cup Computing => gen[snap] # Absent
    /\ load = [stage |-> load.stage, part |-> load.part, refreshed |-> load.refreshed, got |-> load.got]
    /\ load.part \in Nat
    /\ pc \in {"idle", "preflight", "groups", "fetch"} => load.part = 1 /\ load.got = <<>>
    /\ pc \in {"groups", "build"} => gen[snap] = Absent /\ plan[snap] # Absent
    /\ pc = "build" =>
          /\ meta.snap = snap
          /\ load.part > 1 => load.got = [m \in DOMAIN load.got |-> load.got[m]]
          /\ DOMAIN load.got = {m \in Months : PartOf[m] < load.part}
          /\ \A m \in DOMAIN load.got : load.got[m] = plan[snap][m]

\* The events that a source index stands for
DataOf(x) ==
    {<<r, IF MonthOf[r] \in DOMAIN x.deps /\ r \in DOMAIN x.deps[MonthOf[r]]
          THEN x.deps[MonthOf[r]][r] ELSE Gone>> : r \in x.art[2]}

\* A user has the right when month m begins, by the rights logs p before it.
CarriedIn(p, grps, u, m) ==
    \E n \in DOMAIN p :
        /\ n < m /\ GivesLast(u, p[n], grps)
        /\ \A k \in DOMAIN p : n < k /\ k < m => Changes(u, p[k], grps) = {}

\* The metric month that a key stands for
StatusIn(key, r) ==
    IF \E a \in DOMAIN key[5] : r \in key[5][a].art[2] THEN "patrolled"
    ELSE IF AutoAt(CarriedIn(key[2], key[3], Author[r], MonthOf[r]), Author[r], TimeOf[r],
                   IF MonthOf[r] \in DOMAIN key[2] THEN key[2][MonthOf[r]] ELSE <<>>, key[3])
    THEN "auto" ELSE "none"
FrameOf(key) ==
    [rows |-> {<<r, key[1][r], StatusIn(key, r)>> : r \in DOMAIN key[1]},
     acts |-> IF key[4] = Absent THEN {} ELSE DataOf(key[4])]

\* The cache: every artifact is a function of its key.
PointerOK(x) ==
    /\ x = [art |-> x.art, deps |-> x.deps, unresolved |-> x.unresolved]
    /\ x.deps = [m \in DOMAIN x.deps |-> x.deps[m]]
    /\ ~x.unresolved =>
          /\ x.unresolved = FALSE /\ DOMAIN x.deps = {MonthOf[r] : r \in x.art[2]}
          /\ \A r \in x.art[2] : r \in DOMAIN x.deps[MonthOf[r]]
EventsOK(e) == e = [key |-> e.key, data |-> e.data, receipt |-> e.receipt] /\ e.data = DataOf(e.key)
FrameOK(f) == f = [key |-> f.key, frame |-> f.frame, receipt |-> f.receipt] /\ f.frame = FrameOf(f.key)
CheckpointOK(c) == c.users = {u \in Users : CarriedIn(c.key[2], c.key[3], u, c.key[1] + 1)}
CacheInv ==
    /\ \A x \in ptr : PointerOK(x)
    /\ \A e \in ev : EventsOK(e)
    /\ \A f \in frames : FrameOK(f)
    /\ \A c \in chk : CheckpointOK(c)

\* The source indexes of a computation are those of its own inputs.
IndexInv ==
    /\ idx = [a \in DOMAIN idx |-> idx[a]]
    /\ \A a \in DOMAIN idx : idx[a] = Index(a) /\ EventsReusable(idx[a])
    /\ pc \notin Computing \ {"compute"} => DOMAIN idx = {}
    /\ pc \in Indexing => todo # {} /\ todo \subseteq ActionMonths /\ DOMAIN idx = ActionMonths \ todo
    /\ pc \in Loop \cup Ending => DOMAIN idx = ActionMonths
    /\ pc = "events" => \E e \in ev : e.key = Index(Min(todo))
    /\ pc = "source" => EventsReusable(Index(Min(todo)))

\* The rights state is the one a computation from nothing has.
RightsInv ==
    /\ rights = [through |-> rights.through, users |-> rights.users]
    /\ month \in Nat /\ rights.through \in 0..month
    /\ pc \notin Loop \cup Ending => rights.through = 0 /\ rights.users = {}
    /\ pc \in Indexing => month = Min(Timeline)
    /\ pc \in Loop => /\ month \in Timeline
                      /\ rights.users = {u \in Users : Carried(u, rights.through + 1)}
    /\ pc \in {"month", "advance"} => rights.through < month

Exact(parts) == \A m \in DOMAIN parts : parts[m] = CleanMonth(m)

\* What is in memory and in the candidate directory is exact.
OutputInv ==
    /\ out = [snap |-> out.snap, parts |-> out.parts, final |-> out.final, receipt |-> out.receipt]
    /\ pc \notin Loop => frame = NoFrame
    /\ pc = "month" => frame = NoFrame
    /\ pc \in {"store", "stored", "part"} => month \in OutputMonths /\ frame # NoFrame
    /\ frame # NoFrame => month \in OutputMonths /\ frame = CleanMonth(month)
    /\ pc \in Indexing => DOMAIN out.parts = {}
    /\ pc \in Loop => DOMAIN out.parts = {n \in OutputMonths : n < month}
    /\ pc = "merge" => DOMAIN out.parts = OutputMonths
    /\ pc = "record" => DOMAIN out.final = OutputMonths /\ Exact(out.final)
    /\ pc \in Computing \ {"compute"} => out.receipt = Absent
    /\ out.receipt # Absent => /\ out.receipt = StageReceipt
                               /\ DOMAIN out.final = OutputMonths /\ Exact(out.final)
    /\ Exact(out.parts)
    /\ DOMAIN out.parts \cup DOMAIN out.final \subseteq 1..snap
    /\ gen[snap] = Absent => DOMAIN out.parts = {} /\ DOMAIN out.final = {} /\ out.receipt = Absent

\* What a computation reads.
Inputs ==
    /\ snap \in Snaps /\ table \in [Revs -> Kinds \cup {Gone}] /\ logs \in Logs
    /\ \E r \in Revs : table[r] # Gone
    /\ \A r \in Revs : table[r] # Gone => MonthOf[r] <= snap

Inv ==
    /\ UpstreamInv /\ SourceInv /\ ProcessInv /\ CacheInv
    /\ IndexInv /\ RightsInv /\ OutputInv

-----------------------------------------------------------------------------
(* What the computation reads.                                             *)

LEMMA InputsHold ==
    ASSUME UpstreamInv, SourceInv, out.snap \in Snaps, gen[snap] # Absent
    PROVE  Inputs
<1>1. snap \in Released /\ logs \in versions[snap]
  BY DEF SourceInv, snap, logs
<1>2. logs \in Logs
  BY <1>1 DEF UpstreamInv, snap
<1>3. QED
  BY <1>1, <1>2 DEF UpstreamInv, Inputs, table, snap

LEMMA EmptyLog ==
    /\ Chronological(<<>>)
    /\ \A u, grps : Changes(u, <<>>, grps) = {} /\ ~GivesLast(u, <<>>, grps)
<1>1. DOMAIN <<>> = {} /\ Len(<<>>) = 0
  OBVIOUS
<1>2. 1..0 = {}
  OBVIOUS
<1>3. \A u, grps : Changes(u, <<>>, grps) = {}
  BY <1>1 DEF Changes
<1>4. QED
  BY <1>1, <1>2, <1>3 DEF Chronological, GivesLast

LEMMA LogFacts ==
    ASSUME Inputs, NEW m \in Months
    PROVE  logs[m].log \subseteq Revs /\ Chronological(logs[m].rights)
<1>1. logs[m] \in Log
  BY DEF Inputs, Logs
<1>2. logs[m].log \subseteq Revs /\ logs[m].rights \in RightsLogs \cup {<<>>}
  BY <1>1 DEF Log
<1>3. QED
  BY <1>2, EmptyLog, PatrolAssumption DEF PatrolAssumption

LEMMA MonthFacts ==
    ASSUME Inputs
    PROVE  /\ OutputMonths \in SUBSET (1..snap) /\ OutputMonths \in SUBSET Months
           /\ OutputMonths \subseteq Timeline /\ snap \in Nat
           /\ Timeline \in SUBSET Nat /\ Timeline \in SUBSET Months /\ Timeline # {}
           /\ \A n \in Timeline, k \in Months :
                 k <= n /\ logs[k].rights # <<>> => k \in Timeline
           /\ \A n \in Timeline : \E k \in OutputMonths : n <= k
<1>1. snap \in Nat /\ Months \in SUBSET Nat /\ snap \in Snaps
  BY Constants DEF Inputs
<1>2. OutputMonths \in SUBSET (1..snap) /\ OutputMonths \in SUBSET Months
  BY <1>1, Constants DEF OutputMonths, Months
<1>3. OutputMonths # {}
  <2>1. PICK r \in Revs : table[r] # Gone
    BY DEF Inputs
  <2>2. MonthOf[r] \in Months /\ MonthOf[r] <= snap
    BY <2>1, PatrolAssumption DEF Inputs, PatrolAssumption
  <2>3. r \in Present(MonthOf[r])
    BY <2>1 DEF Present
  <2>4. MonthOf[r] \in OutputMonths
    BY <2>2, <2>3 DEF OutputMonths
  <2>5. QED
    BY <2>4
<1>4. Max(OutputMonths) \in OutputMonths
  <2>1. OutputMonths \in SUBSET Nat /\ \A k \in OutputMonths : k <= snap
    BY <1>1, <1>2
  <2>2. QED
    BY <1>1, <1>3, <2>1, MaxIn
<1>5. \A k \in OutputMonths : Max(OutputMonths) >= k
  <2>1. OutputMonths \in SUBSET Nat /\ \A k \in OutputMonths : k <= snap
    BY <1>1, <1>2
  <2>2. QED
    BY <1>1, <1>3, <2>1, MaxIn
<1>6. Timeline \in SUBSET Months /\ OutputMonths \subseteq Timeline
  BY <1>2 DEF Timeline
<1>7. \A n \in Timeline : n <= Max(OutputMonths)
  BY <1>1, <1>2, <1>4, <1>5 DEF Timeline
<1>8. \A n \in Timeline, k \in Months : k <= n /\ logs[k].rights # <<>> => k \in Timeline
  <2>1. ASSUME NEW n \in Timeline, NEW k \in Months, k <= n, logs[k].rights # <<>>
        PROVE  k \in Timeline
    <3>0. k \in Nat /\ n \in Nat /\ Max(OutputMonths) \in Nat
      BY <1>1, <1>2, <1>4, <1>6
    <3>1. k <= Max(OutputMonths)
      BY <1>7, <2>1, <3>0
    <3>2. QED
      BY <2>1, <3>1 DEF Timeline
  <2>2. QED
    BY <2>1
<1>9. Timeline \in SUBSET Nat
  BY <1>1, <1>6
<1>10. QED
  BY <1>1, <1>2, <1>3, <1>4, <1>6, <1>7, <1>8, <1>9

-----------------------------------------------------------------------------
(* The rights a month begins with.                                         *)

LEMMA CarriedGives ==
    ASSUME NEW u, NEW m
    PROVE  Carried(u, m) <=>
             \E n \in 1..(m - 1) :
                 /\ GivesLast(u, logs[n].rights, groups)
                 /\ \A k \in (n + 1)..(m - 1) : Changes(u, logs[k].rights, groups) = {}
BY DEF Carried, GivesLast

LEMMA CarriedNext ==
    ASSUME NEW u, NEW n \in Nat, n # 0
    PROVE  Carried(u, n + 1) <=>
             \/ GivesLast(u, logs[n].rights, groups)
             \/ Changes(u, logs[n].rights, groups) = {} /\ Carried(u, n)
<1>1. (n + 1) - 1 = n
  OBVIOUS
<1>2. Carried(u, n + 1) <=>
        \E i \in 1..n :
            /\ GivesLast(u, logs[i].rights, groups)
            /\ \A k \in (i + 1)..n : Changes(u, logs[k].rights, groups) = {}
  BY <1>1, CarriedGives
<1>3. ASSUME Carried(u, n + 1)
      PROVE  \/ GivesLast(u, logs[n].rights, groups)
             \/ Changes(u, logs[n].rights, groups) = {} /\ Carried(u, n)
  <2>1. PICK i \in 1..n : /\ GivesLast(u, logs[i].rights, groups)
                          /\ \A k \in (i + 1)..n : Changes(u, logs[k].rights, groups) = {}
    BY <1>2, <1>3
  <2>2. CASE i = n
    BY <2>1, <2>2
  <2>3. CASE i # n
    <3>1. i \in 1..(n - 1) /\ n \in (i + 1)..n /\ (i + 1)..(n - 1) \subseteq (i + 1)..n
      BY <2>3
    <3>2. QED
      BY <2>1, <3>1, CarriedGives
  <2>4. QED
    BY <2>2, <2>3
<1>4. ASSUME GivesLast(u, logs[n].rights, groups) PROVE Carried(u, n + 1)
  <2>1. n \in 1..n /\ (n + 1)..n = {}
    OBVIOUS
  <2>2. QED
    BY <1>2, <1>4, <2>1
<1>5. ASSUME Changes(u, logs[n].rights, groups) = {}, Carried(u, n) PROVE Carried(u, n + 1)
  <2>1. PICK i \in 1..(n - 1) :
            /\ GivesLast(u, logs[i].rights, groups)
            /\ \A k \in (i + 1)..(n - 1) : Changes(u, logs[k].rights, groups) = {}
    BY <1>5, CarriedGives
  <2>2. i \in 1..n /\ (i + 1)..n \subseteq ((i + 1)..(n - 1)) \cup {n}
    OBVIOUS
  <2>3. QED
    BY <1>2, <1>5, <2>1, <2>2
<1>6. QED
  BY <1>3, <1>4, <1>5

\* Months without rights events change nothing.
LEMMA CarriedOver ==
    ASSUME NEW u, NEW n \in Nat \ {0}, NEW m \in Nat, n <= m,
           \A k \in n..(m - 1) : logs[k].rights = <<>>
    PROVE  Carried(u, m) <=> Carried(u, n)
<1> DEFINE T == {i \in 0..(m - n) : Carried(u, n + i) <=> Carried(u, n)}
<1>1. m - n \in Nat
  OBVIOUS
<1>2. 0 \in T
  <2>1. n + 0 = n
    OBVIOUS
  <2>2. QED
    BY <1>1, <2>1
<1>3. ASSUME NEW i \in 0..((m - n) - 1), i \in T PROVE i + 1 \in T
  <2>1. n + i \in Nat /\ n + i # 0 /\ n + i \in n..(m - 1) /\ (n + i) + 1 = n + (i + 1)
        /\ i + 1 \in 0..(m - n)
    BY <1>1
  <2>2. Carried(u, (n + i) + 1) <=> Carried(u, n + i)
    BY <2>1, CarriedNext, EmptyLog
  <2>3. QED
    BY <1>3, <2>1, <2>2
<1> HIDE DEF T
<1>4. m - n \in T
  BY <1>1, <1>2, <1>3, UpTo
<1>5. n + (m - n) = m
  OBVIOUS
<1>6. QED
  BY <1>4, <1>5 DEF T

LEMMA CarriedPrefix ==
    ASSUME NEW u, NEW n \in Nat, NEW m \in Nat, m <= n + 1
    PROVE  Carried(u, m) <=> CarriedIn(Prefix(n), groups, u, m)
<1> DEFINE p == Prefix(n)
<1>1. /\ DOMAIN p = {k \in 1..n : logs[k].rights # <<>>}
      /\ \A k \in DOMAIN p : p[k] = logs[k].rights
  BY DEF Prefix
<1> HIDE DEF p
<1>2. \A k \in 1..(m - 1) : k \in 1..n /\ k < m
  OBVIOUS
<1>3. ASSUME Carried(u, m) PROVE CarriedIn(p, groups, u, m)
  <2>1. PICK i \in 1..(m - 1) :
            /\ GivesLast(u, logs[i].rights, groups)
            /\ \A k \in (i + 1)..(m - 1) : Changes(u, logs[k].rights, groups) = {}
    BY <1>3, CarriedGives
  <2>2. i \in DOMAIN p /\ i < m /\ p[i] = logs[i].rights
    BY <1>1, <1>2, <2>1, EmptyLog
  <2>3. ASSUME NEW k \in DOMAIN p, i < k, k < m PROVE Changes(u, p[k], groups) = {}
    <3>1. k \in (i + 1)..(m - 1)
      BY <1>1, <2>3
    <3>2. QED
      BY <1>1, <2>1, <3>1
  <2>4. QED
    BY <2>1, <2>2, <2>3 DEF CarriedIn
<1>4. ASSUME CarriedIn(p, groups, u, m) PROVE Carried(u, m)
  <2>1. PICK i \in DOMAIN p :
            /\ i < m /\ GivesLast(u, p[i], groups)
            /\ \A k \in DOMAIN p : i < k /\ k < m => Changes(u, p[k], groups) = {}
    BY <1>4 DEF CarriedIn
  <2>2. i \in 1..(m - 1) /\ GivesLast(u, logs[i].rights, groups)
    BY <1>1, <2>1
  <2>3. ASSUME NEW k \in (i + 1)..(m - 1) PROVE Changes(u, logs[k].rights, groups) = {}
    <3>1. k \in 1..n /\ i < k /\ k < m
      BY <2>2
    <3>2. CASE k \in DOMAIN p
      BY <1>1, <2>1, <3>1, <3>2
    <3>3. CASE k \notin DOMAIN p
      BY <1>1, <3>1, <3>3, EmptyLog
    <3>4. QED
      BY <3>2, <3>3
  <2>4. QED
    BY <2>2, <2>3, CarriedGives
<1>5. QED
  BY <1>3, <1>4 DEF p

-----------------------------------------------------------------------------
(* Source indexes.                                                         *)

LEMMA IndexParts ==
    ASSUME NEW a
    PROVE  /\ Index(a).art[1] = a /\ Index(a).art[2] = logs[a].log
           /\ DOMAIN Index(a).deps = {MonthOf[r] : r \in Found(a)}
           /\ \A m \in DOMAIN Index(a).deps : Index(a).deps[m] = Digest(m)
           /\ Index(a).unresolved = (Found(a) # logs[a].log)
BY DEF Index, Artifact

LEMMA DigestParts ==
    ASSUME NEW m
    PROVE  DOMAIN Digest(m) = Present(m) /\ \A r \in Present(m) : Digest(m)[r] = table[r]
BY DEF Digest

\* The events of a source index are those of the inputs it was built from.
LEMMA DataIndex ==
    ASSUME Inputs, NEW a \in Months
    PROVE  DataOf(Index(a)) = Enriched(a)
<1> DEFINE x == Index(a)
           val(r) == IF MonthOf[r] \in DOMAIN x.deps /\ r \in DOMAIN x.deps[MonthOf[r]]
                     THEN x.deps[MonthOf[r]][r] ELSE Gone
<1>1. x.art[2] = logs[a].log /\ logs[a].log \subseteq Revs
  BY IndexParts, LogFacts
<1>2. ASSUME NEW r \in logs[a].log PROVE val(r) = table[r]
  <2>1. CASE table[r] = Gone
    <3>1. r \notin Present(MonthOf[r])
      BY <2>1 DEF Present
    <3>2. MonthOf[r] \in DOMAIN x.deps => r \notin DOMAIN x.deps[MonthOf[r]]
      BY <3>1, IndexParts, DigestParts
    <3> HIDE DEF x
    <3>3. QED
      BY <2>1, <3>2
  <2>2. CASE table[r] # Gone
    <3>1. r \in Found(a) /\ r \in Present(MonthOf[r])
      BY <1>1, <2>2 DEF Found, Present
    <3>2. MonthOf[r] \in DOMAIN x.deps /\ x.deps[MonthOf[r]] = Digest(MonthOf[r])
      BY <3>1, IndexParts
    <3>3. r \in DOMAIN x.deps[MonthOf[r]] /\ x.deps[MonthOf[r]][r] = table[r]
      BY <3>1, <3>2, DigestParts
    <3> HIDE DEF x
    <3>4. QED
      BY <3>2, <3>3
  <2>3. QED
    BY <2>1, <2>2
<1>3. DataOf(x) = {<<r, val(r)>> : r \in x.art[2]}
  BY DEF DataOf
<1> HIDE DEF x, val
<1>4. DataOf(x) = {<<r, table[r]>> : r \in logs[a].log}
  BY <1>1, <1>2, <1>3
<1>5. QED
  BY <1>4 DEF Enriched, x

LEMMA IndexOK ==
    ASSUME Inputs, NEW a \in Months
    PROVE  PointerOK(Index(a))
<1> DEFINE x == Index(a)
<1>1. /\ x = [art |-> x.art, deps |-> x.deps, unresolved |-> x.unresolved]
      /\ x.deps = [m \in DOMAIN x.deps |-> x.deps[m]]
  BY DEF Index
<1>2. ASSUME ~x.unresolved
      PROVE  /\ x.unresolved = FALSE /\ DOMAIN x.deps = {MonthOf[r] : r \in x.art[2]}
             /\ \A r \in x.art[2] : r \in DOMAIN x.deps[MonthOf[r]]
  <2>1. Found(a) = logs[a].log /\ x.unresolved = FALSE
    BY <1>2, IndexParts
  <2>2. x.art[2] = Found(a) /\ DOMAIN x.deps = {MonthOf[r] : r \in Found(a)}
    BY <2>1, IndexParts
  <2>3. ASSUME NEW r \in Found(a) PROVE r \in DOMAIN x.deps[MonthOf[r]]
    <3>1. r \in Present(MonthOf[r])
      BY LogFacts DEF Found, Present
    <3>2. x.deps[MonthOf[r]] = Digest(MonthOf[r])
      BY <2>2, IndexParts
    <3>3. QED
      BY <3>1, <3>2, DigestParts
  <2> HIDE DEF x
  <2>4. QED
    BY <2>1, <2>2, <2>3
<1> HIDE DEF x
<1>3. QED
  BY <1>1, <1>2 DEF PointerOK, x

\* load_reusable_source_index accepts nothing but what build_source_index would build.
LEMMA ReusableIndex ==
    ASSUME Inputs, NEW a \in Months, NEW x, PointerOK(x), x.art = Artifact(a), DependenciesMatch(x)
    PROVE  x = Index(a)
<1>1. /\ x = [art |-> x.art, deps |-> x.deps, unresolved |-> x.unresolved]
      /\ x.deps = [m \in DOMAIN x.deps |-> x.deps[m]]
      /\ x.unresolved = FALSE /\ DOMAIN x.deps = {MonthOf[r] : r \in x.art[2]}
      /\ \A r \in x.art[2] : r \in DOMAIN x.deps[MonthOf[r]]
  BY DEF PointerOK, DependenciesMatch
<1>2. x.art[2] = logs[a].log /\ logs[a].log \subseteq Revs
  BY LogFacts DEF Artifact
<1>3. \A m \in DOMAIN x.deps : Digest(m) = x.deps[m]
  BY DEF DependenciesMatch
<1>4. Found(a) = logs[a].log
  <2>1. ASSUME NEW r \in logs[a].log PROVE table[r] # Gone
    <3>1. MonthOf[r] \in DOMAIN x.deps
      BY <1>1, <1>2
    <3>2. r \in Present(MonthOf[r])
      BY <1>1, <1>2, <1>3, <3>1, DigestParts
    <3>3. QED
      BY <3>2 DEF Present
  <2>2. QED
    BY <2>1 DEF Found
<1>5. x.deps = [m \in {MonthOf[r] : r \in Found(a)} |-> Digest(m)]
  BY <1>1, <1>2, <1>3, <1>4
<1>6. Index(a) = [art |-> x.art, deps |-> x.deps, unresolved |-> x.unresolved]
  BY <1>1, <1>4, <1>5 DEF Index
<1>7. QED
  BY <1>1, <1>6

-----------------------------------------------------------------------------
(* Metric months.                                                          *)

Indexed ==
    /\ DOMAIN idx = ActionMonths
    /\ \A a \in DOMAIN idx : idx[a] = Index(a) /\ EventsReusable(idx[a])

LEMMA EventsExact ==
    ASSUME Inputs, Indexed, \A e \in ev : EventsOK(e), NEW a \in ActionMonths
    PROVE  EventsOf(a) = {<<r, table[r]>> : r \in logs[a].log}
<1> DEFINE E == {f \in ev : f.key = idx[a] /\ f.receipt}
<1>1. idx[a] = Index(a) /\ EventsReusable(idx[a]) /\ a \in Months
  BY DEF Indexed, ActionMonths
<1>2. DataOf(idx[a]) = Enriched(a)
  BY <1>1, DataIndex
<1>3. E # {}
  BY <1>1 DEF EventsReusable
<1>4. \A f \in E : f.data = Enriched(a)
  BY <1>2 DEF EventsOK
<1>5. EventsOf(a) = UNION {e.data : e \in E}
  BY DEF EventsOf
<1> HIDE DEF E
<1>6. EventsOf(a) = Enriched(a)
  BY <1>3, <1>4, <1>5
<1>7. QED
  BY <1>6 DEF Enriched

\* A month refers to the action months that have an action on one of its revisions.
LEMMA Referring ==
    ASSUME Inputs, Indexed, NEW m \in Months, NEW r \in Present(m)
    PROVE  /\ \A a \in DOMAIN idx : r \in logs[a].log => m \in DOMAIN idx[a].deps
           /\ \A a \in Months : r \in logs[a].log => a \in DOMAIN idx
<1>1. r \in Revs /\ MonthOf[r] = m /\ table[r] # Gone
  BY DEF Present
<1>2. ASSUME NEW a \in DOMAIN idx, r \in logs[a].log PROVE m \in DOMAIN idx[a].deps
  <2>1. r \in Found(a) /\ idx[a] = Index(a)
    BY <1>1, <1>2 DEF Found, Indexed
  <2>2. QED
    BY <1>1, <2>1, IndexParts
<1>3. ASSUME NEW a \in Months, r \in logs[a].log PROVE a \in DOMAIN idx
  BY <1>3 DEF Indexed, ActionMonths
<1>4. QED
  BY <1>2, <1>3

LEMMA StatusCases ==
    ASSUME NEW r
    PROVE  Status(r) = IF \E a \in Months : r \in logs[a].log THEN "patrolled"
                       ELSE IF AutoAt(Carried(Author[r], MonthOf[r]), Author[r], TimeOf[r],
                                      logs[MonthOf[r]].rights, groups)
                       THEN "auto" ELSE "none"
<1>1. Autopatrolled(Author[r], TimeOf[r], MonthOf[r])
        <=> AutoAt(Carried(Author[r], MonthOf[r]), Author[r], TimeOf[r],
                   logs[MonthOf[r]].rights, groups)
  BY DEF Autopatrolled, AutoAt
<1>2. QED
  BY <1>1 DEF Status

\* compute_month gives what a computation from nothing gives.
LEMMA ComputedFrame ==
    ASSUME Inputs, Indexed, \A e \in ev : EventsOK(e), NEW m \in Months,
           NEW users, users = {u \in Users : Carried(u, m)}
    PROVE  MonthFrame(m, users) = CleanMonth(m)
<1> DEFINE referring == {a \in DOMAIN idx : m \in DOMAIN idx[a].deps}
           patrolled == {e[1] : e \in {f \in UNION {EventsOf(a) : a \in referring} :
                                           f[2] # Gone /\ MonthOf[f[1]] = m}}
<1>1. \A a \in DOMAIN idx : a \in ActionMonths /\ a \in Months
        /\ EventsOf(a) = {<<r, table[r]>> : r \in logs[a].log}
  BY EventsExact DEF Indexed, ActionMonths
<1>2. ASSUME NEW r \in Present(m)
      PROVE  r \in patrolled <=> \E a \in Months : r \in logs[a].log
  <2>1. r \in Revs /\ MonthOf[r] = m /\ table[r] # Gone
    BY DEF Present
  <2>2. ASSUME NEW a \in Months, r \in logs[a].log PROVE r \in patrolled
    <3>1. a \in referring /\ a \in DOMAIN idx
      BY <2>2, Referring
    <3>2. <<r, table[r]>> \in EventsOf(a)
      BY <1>1, <2>2, <3>1
    <3> DEFINE f == <<r, table[r]>>
    <3>3. f[1] = r /\ f[2] = table[r] /\ f \in UNION {EventsOf(b) : b \in referring}
      BY <3>1, <3>2
    <3> HIDE DEF f, referring
    <3>4. QED
      BY <2>1, <3>3
  <2>3. ASSUME r \in patrolled PROVE \E a \in Months : r \in logs[a].log
    <3>1. PICK a \in referring : \E f \in EventsOf(a) : f[1] = r
      BY <2>3
    <3>2. PICK f \in EventsOf(a) : f[1] = r
      BY <3>1
    <3>3. a \in Months /\ f \in {<<q, table[q]>> : q \in logs[a].log}
      BY <1>1, <3>2
    <3>4. PICK q \in logs[a].log : f = <<q, table[q]>>
      BY <3>3
    <3>5. q = r
      BY <3>2, <3>4
    <3>6. QED
      BY <3>3, <3>4, <3>5
  <2>4. QED
    BY <2>2, <2>3
<1>3. ASSUME NEW r \in Present(m) PROVE Class(r, patrolled, users) = Status(r)
  <2>1. r \in Revs /\ MonthOf[r] = m
    BY DEF Present
  <2>2. Author[r] \in Users /\ TimeOf[r] \in 0..(OpenEnd - 1) /\ Chronological(logs[m].rights)
    BY <2>1, LogFacts, PatrolAssumption DEF PatrolAssumption
  <2>3. Author[r] \in users <=> Carried(Author[r], m)
    BY <2>2
  <2>4. HasAutopatrol(Author[r], TimeOf[r], logs[m].rights, groups, users)
          <=> AutoAt(Author[r] \in users, Author[r], TimeOf[r], logs[m].rights, groups)
    BY <2>2, AutopatrolClosed
  <2>5. AutoAt(Author[r] \in users, Author[r], TimeOf[r], logs[m].rights, groups)
          <=> AutoAt(Carried(Author[r], m), Author[r], TimeOf[r], logs[m].rights, groups)
    BY <2>3 DEF AutoAt
  <2> HIDE DEF patrolled
  <2>6. QED
    BY <1>2, <2>1, <2>4, <2>5, StatusCases DEF Class
<1>4. Actions(m) = {<<r, table[r]>> : r \in logs[m].log}
  <2>1. CASE m \in DOMAIN idx
    BY <1>1, <2>1 DEF Actions
  <2>2. CASE m \notin DOMAIN idx
    <3>1. logs[m].log = {}
      BY <2>2 DEF Indexed, ActionMonths
    <3>2. QED
      BY <2>2, <3>1 DEF Actions
  <2>3. QED
    BY <2>1, <2>2
<1>5. MonthFrame(m, users) = [rows |-> {<<r, table[r], Class(r, patrolled, users)>> : r \in Present(m)},
                              acts |-> Actions(m)]
  BY DEF MonthFrame
<1> HIDE DEF patrolled
<1>6. {<<r, table[r], Class(r, patrolled, users)>> : r \in Present(m)}
        = {<<r, table[r], Status(r)>> : r \in Present(m)}
  BY <1>3
<1>7. QED
  BY <1>4, <1>5, <1>6 DEF CleanMonth

\* The key of a month determines what a computation from nothing gives.
LEMMA FrameOfKey ==
    ASSUME Inputs, Indexed, NEW m \in Months
    PROVE  FrameOf(MonthKey(m)) = CleanMonth(m)
<1> DEFINE key == MonthKey(m)
<1>1. /\ key[1] = Digest(m) /\ key[2] = Prefix(m) /\ key[3] = groups
      /\ key[4] = ActionKey(m) /\ key[5] = References(m)
  BY DEF MonthKey
<1> HIDE DEF key
<1>2. ASSUME NEW r \in Present(m)
      PROVE  (\E a \in DOMAIN key[5] : r \in key[5][a].art[2])
                <=> \E a \in Months : r \in logs[a].log
  <2>1. /\ DOMAIN key[5] = {b \in DOMAIN idx : m \in DOMAIN idx[b].deps}
        /\ \A a \in DOMAIN key[5] : key[5][a] = idx[a]
    BY <1>1 DEF References
  <2>2. \A a \in DOMAIN idx : a \in Months /\ idx[a].art[2] = logs[a].log
    BY IndexParts DEF Indexed, ActionMonths
  <2>3. QED
    BY <2>1, <2>2, Referring
<1>3. ASSUME NEW r \in Present(m) PROVE StatusIn(key, r) = Status(r)
  <2> DEFINE es == IF MonthOf[r] \in DOMAIN key[2] THEN key[2][MonthOf[r]] ELSE <<>>
  <2>1. MonthOf[r] = m /\ m \in Nat
    BY Constants DEF Present
  <2>2. CarriedIn(key[2], key[3], Author[r], MonthOf[r]) <=> Carried(Author[r], m)
    BY <1>1, <2>1, CarriedPrefix
  <2>3. es = logs[m].rights
    <3>1. /\ DOMAIN key[2] = {k \in 1..m : logs[k].rights # <<>>}
          /\ \A k \in DOMAIN key[2] : key[2][k] = logs[k].rights
      BY <1>1 DEF Prefix
    <3>2. m \in 1..m
      BY <2>1 DEF Months
    <3>3. QED
      BY <2>1, <3>1, <3>2
  <2> HIDE DEF es
  <2>4. AutoAt(CarriedIn(key[2], key[3], Author[r], MonthOf[r]), Author[r], TimeOf[r], es, key[3])
          <=> AutoAt(Carried(Author[r], MonthOf[r]), Author[r], TimeOf[r],
                     logs[MonthOf[r]].rights, groups)
    BY <1>1, <2>1, <2>2, <2>3 DEF AutoAt
  <2>5. QED
    BY <1>2, <2>4, StatusCases DEF StatusIn, es
<1>4. (IF key[4] = Absent THEN {} ELSE DataOf(key[4])) = {<<r, table[r]>> : r \in logs[m].log}
  <2>1. CASE m \in DOMAIN idx
    <3>1. key[4] = Index(m)
      BY <1>1, <2>1 DEF ActionKey, Indexed
    <3>2. Index(m) # Absent
      BY DEF Index, Absent
    <3>3. QED
      BY <3>1, <3>2, DataIndex DEF Enriched
  <2>2. CASE m \notin DOMAIN idx
    <3>1. logs[m].log = {} /\ key[4] = Absent
      BY <1>1, <2>2 DEF Indexed, ActionMonths, ActionKey
    <3>2. QED
      BY <3>1
  <2>3. QED
    BY <2>1, <2>2
<1>5. {<<r, key[1][r], StatusIn(key, r)>> : r \in DOMAIN key[1]}
        = {<<r, table[r], Status(r)>> : r \in Present(m)}
  BY <1>1, <1>3, DigestParts
<1>6. FrameOf(key) = CleanMonth(m)
  BY <1>4, <1>5 DEF FrameOf, CleanMonth
<1>7. QED
  BY <1>6 DEF key

LEMMA FrameNotAbsent ==
    ASSUME NEW m
    PROVE  CleanMonth(m) # NoFrame
BY DEF CleanMonth, NoFrame, Absent

\* One month more
LEMMA HoldersNext ==
    ASSUME Inputs, NEW n \in Months, NEW users, users = {u \in Users : Carried(u, n)}
    PROVE  Holders(logs[n].rights, groups, users) = {u \in Users : Carried(u, n + 1)}
<1>1. n \in Nat /\ n # 0 /\ Chronological(logs[n].rights)
  BY LogFacts, Constants DEF Months
<1>2. \A u \in Users : Carried(u, n + 1) <=>
        \/ GivesLast(u, logs[n].rights, groups)
        \/ Changes(u, logs[n].rights, groups) = {} /\ u \in users
  BY <1>1, CarriedNext
<1>3. QED
  BY <1>1, <1>2, HoldersClosed

\* The months between two of the timeline change no rights.
LEMMA CarriedTimeline ==
    ASSUME Inputs, NEW t \in Nat, NEW n \in Timeline, t < n, \A k \in Timeline : k > t => n <= k
    PROVE  \A u : Carried(u, n) <=> Carried(u, t + 1)
<1>1. n \in Nat /\ n \in Months
  BY MonthFacts
<1>2. ASSUME NEW k \in (t + 1)..(n - 1) PROVE logs[k].rights = <<>>
  <2>1. k \in Months /\ k <= n /\ k > t /\ ~(n <= k)
    BY <1>1, Constants DEF Months
  <2>2. QED
    BY <2>1, MonthFacts
<1>3. t + 1 \in Nat \ {0} /\ t + 1 <= n
  BY <1>1
<1>4. QED
  BY <1>1, <1>2, <1>3, CarriedOver

\* A checkpoint that exists is the one that would be written.
LEMMA CheckpointUsers ==
    ASSUME NEW n \in Months, NEW c \in Checkpoints(n), CheckpointOK(c)
    PROVE  c.users = {u \in Users : Carried(u, n + 1)}
<1>1. c.key = <<n, Prefix(n), groups>>
  BY DEF Checkpoints, CheckpointKey
<1>2. c.key[1] = n /\ c.key[2] = Prefix(n) /\ c.key[3] = groups
  BY <1>1
<1>3. n \in Nat /\ n + 1 \in Nat /\ n + 1 <= n + 1
  BY Constants
<1>4. QED
  BY <1>2, <1>3, CarriedPrefix DEF CheckpointOK

LEMMA CheckpointWritten ==
    ASSUME NEW n \in Months, NEW users, users = {u \in Users : Carried(u, n + 1)}
    PROVE  CheckpointOK([key |-> CheckpointKey(n), users |-> users])
<1> DEFINE c == [key |-> CheckpointKey(n), users |-> users]
<1>1. c.users = users /\ c.key[1] = n /\ c.key[2] = Prefix(n) /\ c.key[3] = groups
  BY DEF CheckpointKey
<1>2. n \in Nat /\ n + 1 \in Nat /\ n + 1 <= n + 1
  BY Constants
<1>3. \A u : Carried(u, n + 1) <=> CarriedIn(c.key[2], c.key[3], u, c.key[1] + 1)
  BY <1>1, <1>2, CarriedPrefix
<1> HIDE DEF c
<1>4. CheckpointOK(c)
  BY <1>1, <1>3 DEF CheckpointOK
<1>5. QED
  BY <1>4 DEF c

-----------------------------------------------------------------------------
(* What a step leaves alone.                                               *)

SameInputs == snap' = snap /\ hist'[snap'] = hist[snap] /\ gen'[snap'] = gen[snap]

LEMMA SameSources ==
    ASSUME SameInputs
    PROVE  /\ snap' = snap /\ table' = table /\ logs' = logs /\ groups' = groups
           /\ (gen[snap])' = gen[snap]
BY DEF SameInputs, table, logs, groups, snap

LEMMA SameMonths ==
    ASSUME SameInputs
    PROVE  /\ \A m : Present(m)' = Present(m)
           /\ ActionMonths' = ActionMonths /\ OutputMonths' = OutputMonths /\ Timeline' = Timeline
<1>1. snap' = snap /\ table' = table /\ logs' = logs
  BY SameSources
<1>2. \A m : Present(m)' = Present(m)
  BY <1>1 DEF Present
<1>3. ActionMonths' = ActionMonths
  BY <1>1 DEF ActionMonths
<1>4. OutputMonths' = OutputMonths
  BY <1>1, <1>2, <1>3 DEF OutputMonths
<1>5. Timeline' = Timeline
  BY <1>1, <1>4 DEF Timeline
<1>6. QED
  BY <1>2, <1>3, <1>4, <1>5

LEMMA SameIndex ==
    ASSUME SameInputs
    PROVE  \A a : Index(a)' = Index(a)
<1>1. table' = table /\ logs' = logs /\ \A m : Present(m)' = Present(m)
  BY SameSources, SameMonths
<1>2. \A m : Digest(m)' = Digest(m)
  BY <1>1 DEF Digest
<1>3. \A a : Found(a)' = Found(a) /\ Artifact(a)' = Artifact(a)
  BY <1>1 DEF Found, Artifact
<1>4. QED
  BY <1>1, <1>2, <1>3 DEF Index

LEMMA SameRights ==
    ASSUME SameInputs
    PROVE  /\ \A u, m : Carried(u, m)' <=> Carried(u, m)
           /\ \A m : Prefix(m)' = Prefix(m)
BY SameSources DEF Carried, Prefix

LEMMA SameClean ==
    ASSUME SameInputs
    PROVE  \A m : CleanMonth(m)' = CleanMonth(m)
<1>1. table' = table /\ logs' = logs /\ groups' = groups
  BY SameSources
<1>2. \A m : Present(m)' = Present(m)
  BY SameMonths
<1>3. \A u, m : Carried(u, m)' <=> Carried(u, m)
  BY SameRights
<1>4. \A u, t, m : Autopatrolled(u, t, m)' <=> Autopatrolled(u, t, m)
  BY <1>1, <1>3 DEF Autopatrolled
<1>5. \A r : Status(r)' = Status(r)
  BY <1>1, <1>4 DEF Status
<1>6. QED
  BY <1>1, <1>2, <1>5 DEF CleanMonth

LEMMA SameExact ==
    ASSUME SameInputs, NEW parts, Exact(parts)
    PROVE  Exact(parts)'
BY SameClean DEF Exact

LEMMA SameReceipt ==
    ASSUME SameInputs, out'.final = out.final
    PROVE  StageReceipt' = StageReceipt
BY SameSources DEF StageReceipt

LEMMA UpstreamKept ==
    ASSUME UpstreamInv, UNCHANGED upstream
    PROVE  UpstreamInv' /\ Released' = Released
BY DEF UpstreamInv, upstream, Released

LEMMA SourceKept ==
    ASSUME SourceInv, UNCHANGED <<upstream, sources>>
    PROVE  SourceInv'
<1>1. Released' = Released /\ versions' = versions
  BY DEF Released, upstream
<1>2. QED
  BY <1>1 DEF SourceInv, sources

LEMMA CacheKept ==
    ASSUME CacheInv, UNCHANGED cache
    PROVE  CacheInv'
BY DEF CacheInv, cache

\* Nothing is indexed before a computation or after it.
LEMMA IndexEmpty ==
    ASSUME IndexInv, pc \notin Computing \ {"compute"}, pc' \notin Computing \ {"compute"}, idx' = idx
    PROVE  IndexInv'
<1>1. DOMAIN idx = {} /\ DOMAIN idx' = {} /\ idx' = [a \in DOMAIN idx' |-> idx'[a]]
  BY DEF IndexInv
<1>2. pc' \notin Indexing /\ pc' \notin Loop /\ pc' \notin Ending /\ pc' # "events" /\ pc' # "source"
  BY DEF Computing, Indexing, Loop, Ending
<1>3. QED
  BY <1>1, <1>2 DEF IndexInv

LEMMA IndexKept ==
    ASSUME IndexInv, SameInputs, pc \in Loop \cup Ending, pc' \in Loop \cup Ending,
           UNCHANGED <<idx, ev>>
    PROVE  IndexInv'
<1>1. /\ idx' = [a \in DOMAIN idx' |-> idx'[a]] /\ DOMAIN idx' = ActionMonths'
  BY SameMonths DEF IndexInv
<1>2. \A a \in DOMAIN idx' : idx'[a] = Index(a)' /\ EventsReusable(idx[a])'
  BY SameIndex DEF IndexInv, EventsReusable
<1>3. QED
  BY <1>1, <1>2 DEF IndexInv, Loop, Ending, Indexing, Computing

LEMMA RightsEmpty ==
    ASSUME RightsInv, pc \notin Computing \ {"compute"}, pc' \notin Computing \ {"compute"},
           UNCHANGED <<rights, month>>
    PROVE  RightsInv'
BY DEF RightsInv, Computing, Loop, Ending, Indexing

LEMMA FrameEmpty ==
    ASSUME OutputInv, pc \notin Computing \ {"compute"}
    PROVE  frame = NoFrame
BY DEF OutputInv, Loop, Computing

LEMMA OutputKept ==
    ASSUME OutputInv, pc' \notin Computing \ {"compute"}, frame' = NoFrame, UNCHANGED out,
           gen[snap] # Absent => SameInputs, gen'[snap'] = Absent => gen[snap] = Absent
    PROVE  OutputInv'
<1>1. frame' = NoFrame
  OBVIOUS
<1>2. CASE gen[snap] = Absent
  <2>1. DOMAIN out'.parts = {} /\ DOMAIN out'.final = {} /\ out'.receipt = Absent
    BY <1>2 DEF OutputInv
  <2>2. Exact(out.parts)'
    BY <2>1 DEF Exact
  <2>3. QED
    BY <1>1, <2>1, <2>2 DEF OutputInv, Loop, Ending, Indexing, Computing
<1>3. CASE gen[snap] # Absent
  <2>1. SameInputs /\ gen'[snap'] # Absent
    BY <1>3 DEF SameInputs
  <2>2. Exact(out.parts)'
    BY <2>1, SameExact DEF OutputInv
  <2>3. out.receipt # Absent => /\ (out.receipt = StageReceipt)'
                                /\ (DOMAIN out.final = OutputMonths)' /\ Exact(out.final)'
    BY <2>1, SameExact, SameReceipt, SameMonths DEF OutputInv
  <2>4. out' = [snap |-> out'.snap, parts |-> out'.parts, final |-> out'.final, receipt |-> out'.receipt]
        /\ (DOMAIN out.parts \cup DOMAIN out.final \subseteq 1..snap)'
    BY <2>1, SameSources DEF OutputInv
  <2>5. QED
    BY <1>1, <2>1, <2>2, <2>3, <2>4 DEF OutputInv, Loop, Ending, Indexing, Computing
<1>4. QED
  BY <1>2, <1>3

\* A step that changes nothing a process works with
LEMMA WorkKept ==
    ASSUME Inv, SameInputs, UNCHANGED <<cache, out, pc, memory>>
    PROVE  CacheInv' /\ IndexInv' /\ RightsInv' /\ OutputInv'
<1>1. IndexInv /\ RightsInv /\ OutputInv /\ CacheInv
  BY DEF Inv
<1>2. CacheInv'
  BY <1>1, CacheKept
<1>3. /\ idx' = idx /\ ev' = ev /\ pc' = pc /\ todo' = todo /\ month' = month /\ rights' = rights
      /\ frame' = frame /\ out' = out
  BY DEF memory, cache
<1>4. /\ ActionMonths' = ActionMonths /\ OutputMonths' = OutputMonths /\ Timeline' = Timeline
      /\ \A a : Index(a)' = Index(a)
  BY SameMonths, SameIndex
<1>5. IndexInv'
  <2>1. \A a \in DOMAIN idx' : (idx[a] = Index(a) /\ EventsReusable(idx[a]))'
    BY <1>1, <1>3, <1>4 DEF IndexInv, EventsReusable
  <2>2. Min(todo)' = Min(todo) /\ Index(Min(todo))' = Index(Min(todo))
    BY <1>3, <1>4
  <2>3. pc' = "source" => EventsReusable(Index(Min(todo)))'
    BY <1>1, <1>3, <2>2 DEF IndexInv, EventsReusable
  <2>4. pc' = "events" => (\E e \in ev : e.key = Index(Min(todo)))'
    BY <1>1, <1>3, <2>2 DEF IndexInv
  <2>5. QED
    BY <1>1, <1>3, <1>4, <2>1, <2>3, <2>4 DEF IndexInv
<1>6. RightsInv'
  <2>1. {u \in Users : Carried(u, rights.through + 1)}' = {u \in Users : Carried(u, rights.through + 1)}
    BY <1>3, SameRights
  <2>2. QED
    BY <1>1, <1>3, <1>4, <2>1 DEF RightsInv
<1>7. OutputInv'
  <2>1. Exact(out.parts)' /\ (Exact(out.final) => Exact(out.final)') /\ StageReceipt' = StageReceipt
    BY <1>1, <1>3, SameExact, SameReceipt DEF OutputInv
  <2>2. \A m : CleanMonth(m)' = CleanMonth(m)
    BY SameClean
  <2>3. snap' = snap /\ (gen[snap])' = gen[snap]
    BY SameSources
  <2>4. CleanMonth(month)' = CleanMonth(month)
    BY <1>3, <2>2
  <2>5. QED
    BY <1>1, <1>3, <1>4, <2>1, <2>3, <2>4 DEF OutputInv
<1>8. QED
  BY <1>2, <1>5, <1>6, <1>7

-----------------------------------------------------------------------------
(* Upstream.                                                               *)

LEMMA EditedPast ==
    ASSUME NEW v \in Pasts, NEW w \in Edited(v)
    PROVE  w \in Pasts
<1>1. CASE w = v
  BY <1>1
<1>2. ASSUME NEW r \in Revs, NEW k \in Kinds \cup {Gone}, w = [v EXCEPT !.revs[r] = k]
      PROVE  w \in Pasts
  BY <1>2 DEF Pasts
<1>3. ASSUME NEW c \in LogEdits,
             w = [v EXCEPT !.log = [m \in Months |-> SymDiff(@[m], {r \in Revs : <<m, r>> \in c})]]
      PROVE  w \in Pasts
  <2>1. w.log = [m \in Months |-> SymDiff(v.log[m], {r \in Revs : <<m, r>> \in c})]
    BY <1>3 DEF Pasts
  <2>2. \A m \in Months : SymDiff(v.log[m], {r \in Revs : <<m, r>> \in c}) \subseteq Revs
    BY DEF SymDiff, Pasts
  <2>3. w.log \in [Months -> SUBSET Revs]
    BY <2>1, <2>2
  <2>4. w = [revs |-> v.revs, log |-> w.log, rights |-> v.rights, groups |-> v.groups]
    BY <1>3 DEF Pasts
  <2>5. QED
    BY <2>3, <2>4 DEF Pasts
<1>4. ASSUME NEW m \in Months, NEW e \in RightsLogs, w = [v EXCEPT !.rights[m] = e]
      PROVE  w \in Pasts
  BY <1>4 DEF Pasts
<1>5. ASSUME NEW g \in GroupSets, w = [v EXCEPT !.groups = g] PROVE w \in Pasts
  BY <1>5 DEF Pasts
<1>6. QED
  BY <1>1, <1>2, <1>3, <1>4, <1>5 DEF Edited

LEMMA PastSeen ==
    ASSUME NEW w \in Pasts, NEW s
    PROVE  /\ Logged(w, s) \in Logs
           /\ History(w, s) \in [Revs -> Kinds \cup {Gone}]
           /\ \A r \in Revs : History(w, s)[r] # Gone => MonthOf[r] <= s
<1>1. \A m \in Months : [log |-> w.log[m], rights |-> w.rights[m]] \in Log
  BY DEF Pasts, Log
<1>2. [log |-> {}, rights |-> <<>>] \in Log
  BY DEF Log
<1>3. Logged(w, s) \in Logs
  BY <1>1, <1>2 DEF Logged, Logs
<1>4. QED
  BY <1>3 DEF History, Pasts

LEMMA LogsPresent == \A l \in Logs : l # Absent
<1>1. \A l \in Logs : DOMAIN l = Months
  BY DEF Logs
<1>2. Months # {} /\ DOMAIN <<>> = {}
  BY PatrolAssumption DEF PatrolAssumption
<1>3. QED
  BY <1>1, <1>2 DEF Absent

LEMMA Released1 ==
    ASSUME UpstreamInv
    PROVE  /\ newest \in Nat /\ Released \subseteq Snaps /\ Snaps \subseteq Nat
           /\ newest \in Snaps => newest \in Released
           /\ \A s \in Released : s <= newest
BY Constants DEF UpstreamInv, Released, Snaps

LEMMA ReleaseKeeps ==
    ASSUME Inv, Release
    PROVE  Inv'
<1> DEFINE t == newest + 1
<1>1. /\ UpstreamInv /\ SourceInv /\ ProcessInv /\ CacheInv
      /\ IndexInv /\ RightsInv /\ OutputInv
  BY DEF Inv
<1>2. /\ pc = "idle" /\ newest < NumMonths /\ newest' = t
      /\ UNCHANGED <<sources, cache, out, pc, memory, faults>>
  BY DEF Release
<1>3. PICK w \in Edited(world) :
          /\ \E r \in Revs : History(w, newest')[r] # Gone
          /\ Edit(w)
          /\ hist' = [hist EXCEPT ![newest'] = History(w, newest')]
          /\ dump' = [dump EXCEPT ![newest'] = [logs |-> Logged(w, newest'), done |-> FALSE]]
          /\ versions' = [versions EXCEPT ![newest'] = {Logged(w, newest')}]
  BY DEF Release
<1>4. t \in Snaps /\ t \notin Released /\ Released' = Released \cup {t}
  <2>1. newest \in Nat /\ FirstSnap \in Nat /\ NumMonths \in Nat /\ FirstSnap <= t /\ t <= NumMonths
    BY <1>1, <1>2, Constants DEF UpstreamInv, Snaps
  <2>2. t \in Snaps /\ ~(t <= newest) /\ \A s \in Snaps : s <= t <=> s <= newest \/ s = t
    BY <2>1 DEF Snaps
  <2>3. Released = {s \in Snaps : s <= newest} /\ Released' = {s \in Snaps : s <= t}
    BY <1>2 DEF Released
  <2> HIDE DEF t
  <2>4. QED
    BY <2>2, <2>3
<1>5. /\ w \in Pasts /\ Logged(w, t) \in Logs /\ History(w, t) \in [Revs -> Kinds \cup {Gone}]
      /\ \A r \in Revs : History(w, t)[r] # Gone => MonthOf[r] <= t
  BY <1>1, EditedPast, PastSeen DEF UpstreamInv
<1>6. PICK h : h = History(w, t)
  OBVIOUS
<1>7. PICK l : l = Logged(w, t)
  OBVIOUS
<1>8. /\ hist' = [hist EXCEPT ![t] = h] /\ versions' = [versions EXCEPT ![t] = {l}]
      /\ dump' = [dump EXCEPT ![t] = [logs |-> l, done |-> FALSE]]
      /\ l \in Logs /\ h \in [Revs -> Kinds \cup {Gone}]
      /\ \E r \in Revs : h[r] # Gone
      /\ \A r \in Revs : h[r] # Gone => MonthOf[r] <= t
  BY <1>2, <1>3, <1>5, <1>6, <1>7
<1>9. world' \in Pasts /\ edits' \in 0..MaxEdits
  BY <1>1, <1>3, <1>5, Constants DEF Edit, UpstreamInv
<1> HIDE DEF t
<1>10. /\ hist'[t] = h /\ versions'[t] = {l} /\ dump'[t].logs = l
       /\ \A s \in Released : hist'[s] = hist[s] /\ versions'[s] = versions[s] /\ dump'[s] = dump[s]
       /\ \A s \in Snaps : s # t => versions'[s] = versions[s]
  <2>1. hist \in [Snaps -> [Revs -> Kinds \cup {Gone}]] /\ DOMAIN versions = Snaps /\ DOMAIN dump = Snaps
    BY <1>1 DEF UpstreamInv
  <2>2. Released \subseteq Snaps
    BY DEF Released
  <2>3. QED
    BY <1>4, <1>8, <2>1, <2>2
<1>11. UpstreamInv'
  <2>1. hist' \in [Snaps -> [Revs -> Kinds \cup {Gone}]]
    BY <1>1, <1>8 DEF UpstreamInv
  <2>2. versions' \in [Snaps -> SUBSET Logs]
    BY <1>1, <1>8 DEF UpstreamInv
  <2>3. dump' \in [Snaps -> [logs : Logs \cup {Absent}, done : BOOLEAN]]
    BY <1>1, <1>8 DEF UpstreamInv
  <2>4. \A s \in Released' :
           /\ \E r \in Revs : hist'[s][r] # Gone
           /\ \A r \in Revs : hist'[s][r] # Gone => MonthOf[r] <= s
           /\ dump'[s].logs \in versions'[s]
    BY <1>1, <1>4, <1>8, <1>10 DEF UpstreamInv
  <2>5. newest' \in Snaps \cup {FirstSnap - 1}
    BY <1>2, <1>4 DEF t
  <2>6. QED
    BY <1>9, <2>1, <2>2, <2>3, <2>4, <2>5 DEF UpstreamInv
<1>12. gen' = gen /\ plan' = plan /\ meta' = meta /\ pointer' = pointer
  BY <1>2 DEF sources
<1>13. SourceInv'
  <2>1. \A s \in Snaps : plan'[s] # Absent => s \in Released' /\ plan'[s] \in versions'[s]
    BY <1>1, <1>4, <1>10, <1>12 DEF SourceInv
  <2>2. \A s \in Snaps : gen'[s] # Absent => s \in Released' /\ gen'[s].logs \in versions'[s]
    BY <1>1, <1>4, <1>10, <1>12 DEF SourceInv
  <2>3. meta'.snap \in {0} \cup Released' /\ pointer' \in {0} \cup {s \in Snaps : gen'[s] # Absent}
    BY <1>1, <1>4, <1>12 DEF SourceInv
  <2>4. plan' = [s \in Snaps |-> plan'[s]] /\ gen' = [s \in Snaps |-> gen'[s]]
        /\ meta' = [snap |-> meta'.snap, groups |-> meta'.groups]
    BY <1>1, <1>12 DEF SourceInv
  <2>5. QED
    BY <2>1, <2>2, <2>3, <2>4 DEF SourceInv
<1>14. out' = out /\ load' = load /\ idx' = idx /\ month' = month /\ rights' = rights /\ frame' = frame
       /\ pc' = pc /\ faults' = faults
  BY <1>2 DEF memory
<1>15. ProcessInv'
  BY <1>1, <1>2, <1>14 DEF ProcessInv, Fetching, Computing, Indexing, Loop, Ending
<1>16. pc \notin Computing \ {"compute"}
  BY <1>2 DEF Computing, Indexing, Loop, Ending
<1>17. CacheInv' /\ IndexInv' /\ RightsInv'
  BY <1>1, <1>2, <1>14, <1>16, CacheKept, IndexEmpty, RightsEmpty
<1>18. OutputInv'
  <2>1. gen[snap] # Absent => SameInputs
    <3>1. gen[snap] # Absent => snap \in Released
      BY <1>1 DEF SourceInv, ProcessInv, snap
    <3>2. QED
      BY <1>10, <1>12, <1>14, <3>1 DEF SameInputs, snap
  <2>2. gen'[snap'] = Absent => gen[snap] = Absent
    BY <1>12, <1>14 DEF snap
  <2>3. QED
    BY <1>1, <1>14, <1>16, <2>1, <2>2, FrameEmpty, OutputKept
<1>19. QED
  BY <1>11, <1>13, <1>15, <1>17, <1>18 DEF Inv

\* A snapshot whose process computes has its generation.
LEMMA Rewritten ==
    ASSUME Inv, NEW d, newest \in Snaps,
           dump' = [dump EXCEPT ![newest] = d], d \in [logs : Logs, done : BOOLEAN],
           versions' = [versions EXCEPT ![newest] = @ \cup {d.logs}], gen[newest] = Absent,
           world' \in Pasts, edits' \in 0..MaxEdits,
           UNCHANGED <<newest, hist, sources, cache, out, pc, memory, faults>>
    PROVE  Inv'
<1>1. /\ UpstreamInv /\ SourceInv /\ ProcessInv /\ CacheInv
      /\ IndexInv /\ RightsInv /\ OutputInv
  BY DEF Inv
<1>2. PICK l : l = d.logs /\ l \in Logs
  OBVIOUS
<1>3. /\ dump'[newest] = d /\ \A s \in Snaps : s # newest => dump'[s] = dump[s]
      /\ versions'[newest] = versions[newest] \cup {l}
      /\ \A s \in Snaps : s # newest => versions'[s] = versions[s]
      /\ Released' = Released /\ Released \subseteq Snaps
  BY <1>1, <1>2 DEF UpstreamInv, Released
<1>4. UpstreamInv'
  <2>1. versions' \in [Snaps -> SUBSET Logs]
    BY <1>1, <1>2 DEF UpstreamInv
  <2>2. dump' \in [Snaps -> [logs : Logs \cup {Absent}, done : BOOLEAN]]
    BY <1>1 DEF UpstreamInv
  <2>3. \A s \in Released' : dump'[s].logs \in versions'[s]
    BY <1>1, <1>2, <1>3 DEF UpstreamInv
  <2>4. QED
    BY <1>1, <1>3, <2>1, <2>2, <2>3 DEF UpstreamInv
<1>5. gen' = gen /\ plan' = plan /\ meta' = meta /\ pointer' = pointer
  BY DEF sources
<1>6. \A s \in Snaps : versions[s] \subseteq versions'[s]
  BY <1>3
<1>7. SourceInv'
  BY <1>1, <1>3, <1>5, <1>6 DEF SourceInv
<1>8. load' = load /\ pc' = pc /\ out' = out /\ faults' = faults /\ newest' = newest /\ hist' = hist
  BY DEF memory
<1>9. ProcessInv'
  BY <1>1, <1>5, <1>8 DEF ProcessInv, snap
<1>10. SameInputs
  BY <1>5, <1>8 DEF SameInputs, snap
<1>11. QED
  BY <1>4, <1>7, <1>9, <1>10, WorkKept DEF Inv

LEMMA RepublishKeeps ==
    ASSUME Inv, Republish
    PROVE  Inv'
<1>1. /\ newest \in Snaps /\ gen[newest] = Absent
      /\ UNCHANGED <<newest, hist, sources, cache, out, pc, memory, faults>>
  BY DEF Republish
<1>2. PICK w \in Edited(world) :
          /\ Edit(w)
          /\ dump' = [dump EXCEPT ![newest] = [logs |-> Logged(w, newest), done |-> FALSE]]
          /\ versions' = [versions EXCEPT ![newest] = @ \cup {Logged(w, newest)}]
  BY DEF Republish
<1>3. world \in Pasts /\ edits \in Nat
  BY Constants DEF Inv, UpstreamInv
<1>4. w \in Pasts /\ Logged(w, newest) \in Logs
  BY <1>3, EditedPast, PastSeen
<1>5. world' \in Pasts /\ edits' \in 0..MaxEdits
  BY <1>2, <1>3, <1>4, Constants DEF Edit
<1>6. PICK d : d = [logs |-> Logged(w, newest), done |-> FALSE]
  OBVIOUS
<1>7. d \in [logs : Logs, done : BOOLEAN] /\ d.logs = Logged(w, newest)
  BY <1>4, <1>6
<1>8. QED
  BY <1>1, <1>2, <1>5, <1>6, <1>7, Rewritten

LEMMA DumpDoneKeeps ==
    ASSUME Inv, DumpDone
    PROVE  Inv'
<1>1. /\ UpstreamInv /\ SourceInv /\ ProcessInv /\ CacheInv
      /\ IndexInv /\ RightsInv /\ OutputInv
  BY DEF Inv
<1>2. /\ newest \in Snaps /\ dump' = [dump EXCEPT ![newest].done = TRUE]
      /\ UNCHANGED <<world, newest, hist, versions, edits, sources, cache, out, pc, memory, faults>>
  BY DEF DumpDone
<1>3. /\ dump' \in [Snaps -> [logs : Logs \cup {Absent}, done : BOOLEAN]]
      /\ \A s \in Snaps : dump'[s].logs = dump[s].logs
  BY <1>1, <1>2 DEF UpstreamInv
<1>4. Released' = Released /\ Released \subseteq Snaps
  BY <1>2 DEF Released
<1>5. UpstreamInv'
  BY <1>1, <1>2, <1>3, <1>4 DEF UpstreamInv
<1>6. gen' = gen /\ plan' = plan /\ meta' = meta /\ pointer' = pointer
  BY <1>2 DEF sources
<1>7. SourceInv'
  BY <1>1, <1>2, <1>4, <1>6 DEF SourceInv
<1>8. load' = load /\ pc' = pc /\ out' = out /\ faults' = faults /\ newest' = newest /\ hist' = hist
  BY <1>2 DEF memory
<1>9. ProcessInv'
  BY <1>1, <1>6, <1>8 DEF ProcessInv, snap
<1>10. SameInputs
  BY <1>6, <1>8 DEF SameInputs, snap
<1>11. QED
  BY <1>2, <1>5, <1>7, <1>9, <1>10, WorkKept DEF Inv

-----------------------------------------------------------------------------
(* The process before its computation.                                     *)

\* A process that ends, or is killed, has forgotten its memory.
LEMMA Ended ==
    ASSUME End
    PROVE  /\ IndexInv' /\ RightsInv' /\ frame' = NoFrame /\ pc' = "idle"
           /\ pc' \notin Computing \ {"compute"}
<1>1. /\ pc' = "idle" /\ load' = NoLoad /\ idx' = <<>> /\ month' = 0 /\ frame' = NoFrame
      /\ rights' = [through |-> 0, users |-> {}]
  BY DEF End, Forget
<1>2. DOMAIN idx' = {} /\ idx' = [a \in DOMAIN idx' |-> idx'[a]]
  BY <1>1
<1>3. pc' \notin Computing /\ pc' \notin Indexing /\ pc' \notin Loop /\ pc' \notin Ending
  BY <1>1 DEF Computing, Indexing, Loop, Ending
<1>4. IndexInv'
  BY <1>1, <1>2, <1>3 DEF IndexInv
<1>5. RightsInv'
  BY <1>1, <1>3 DEF RightsInv, Loop, Ending, Indexing
<1>6. QED
  BY <1>1, <1>3, <1>4, <1>5

LEMMA EndedProcess ==
    ASSUME ProcessInv, End, out'.snap = out.snap, faults' \in 0..MaxFaults
    PROVE  ProcessInv'
BY DEF ProcessInv, End, Forget, NoLoad, Computing, Indexing, Loop, Ending, Fetching

\* A process that works does so on the newest snapshot, and knows its inputs.
LEMMA Working ==
    ASSUME Inv, pc # "idle"
    PROVE  snap = newest /\ snap \in Snaps /\ snap \in Released
BY Released1 DEF Inv, ProcessInv, snap

LEMMA WorkingInputs ==
    ASSUME Inv, pc \in Computing
    PROVE  Inputs
<1>1. UpstreamInv /\ SourceInv /\ out.snap \in Snaps /\ gen[snap] # Absent
  BY DEF Inv, ProcessInv
<1>2. QED
  BY <1>1, InputsHold

\* Steps between stages: sources and cache as they are, nothing in memory
LEMMA Quiet ==
    ASSUME Inv, UNCHANGED <<upstream, gen, cache, out>>,
           idx' = idx, rights' = rights, month' = month, frame' = frame,
           pc \notin Computing \ {"compute"}, pc' \notin Computing \ {"compute"}
    PROVE  UpstreamInv' /\ CacheInv' /\ IndexInv' /\ RightsInv' /\ OutputInv' /\ Released' = Released
<1>1. UpstreamInv /\ CacheInv /\ IndexInv /\ RightsInv /\ OutputInv
  BY DEF Inv
<1>2. UpstreamInv' /\ Released' = Released
  BY <1>1, UpstreamKept
<1>3. SameInputs
  BY DEF SameInputs, snap, upstream
<1>4. frame' = NoFrame
  BY <1>1, FrameEmpty
<1>5. gen'[snap'] = gen[snap]
  BY <1>3 DEF SameInputs, snap
<1>6. QED
  BY <1>1, <1>2, <1>3, <1>4, <1>5, CacheKept, IndexEmpty, RightsEmpty, OutputKept

LEMMA StartKeeps ==
    ASSUME Inv, Start
    PROVE  Inv'
<1>1. /\ UpstreamInv /\ SourceInv /\ ProcessInv /\ CacheInv
      /\ IndexInv /\ RightsInv /\ OutputInv
  BY DEF Inv
<1>2. /\ pc = "idle" /\ newest \in Snaps /\ pc' = "preflight"
      /\ UNCHANGED <<upstream, sources, cache, memory, faults>>
  BY DEF Start, Goto
<1>3. /\ load' = load /\ idx' = idx /\ todo' = todo /\ month' = month /\ rights' = rights
      /\ frame' = frame /\ gen' = gen /\ plan' = plan /\ newest' = newest /\ hist' = hist
  BY <1>2 DEF memory, sources, upstream
<1>4. pc \notin Computing \ {"compute"} /\ pc' \notin Computing \ {"compute"}
  BY <1>2 DEF Computing, Indexing, Loop, Ending
<1>5. UpstreamInv' /\ SourceInv' /\ CacheInv' /\ IndexInv' /\ RightsInv'
  BY <1>1, <1>2, <1>3, <1>4, UpstreamKept, SourceKept, CacheKept, IndexEmpty, RightsEmpty
<1>6. out'.snap = newest
  BY <1>2 DEF Start, snap, NoOutput
<1>7. ProcessInv'
  BY <1>1, <1>2, <1>3, <1>6 DEF ProcessInv, Computing, Indexing, Loop, Ending, Fetching
<1>8. frame' = NoFrame
  BY <1>1, <1>3, <1>4, FrameEmpty
<1>9. CASE out' = out
  <2>1. SameInputs /\ gen'[snap'] = gen[snap]
    BY <1>3, <1>9 DEF SameInputs, snap
  <2>2. OutputInv'
    BY <1>1, <1>4, <1>8, <1>9, <2>1, OutputKept
  <2>3. QED
    BY <1>5, <1>7, <2>2 DEF Inv
<1>10. CASE out' = NoOutput(newest)
  <2>1. /\ DOMAIN out'.parts = {} /\ DOMAIN out'.final = {} /\ out'.receipt = Absent
        /\ out' = [snap |-> out'.snap, parts |-> out'.parts, final |-> out'.final,
                   receipt |-> out'.receipt]
    BY <1>10 DEF NoOutput
  <2>2. Exact(out.parts)'
    BY <2>1 DEF Exact
  <2>3. pc' \notin Loop /\ pc' \notin Indexing /\ pc' \notin Computing
    BY <1>2 DEF Computing, Indexing, Loop, Ending
  <2>4. OutputInv'
    BY <1>2, <1>8, <2>1, <2>2, <2>3 DEF OutputInv
  <2>5. QED
    BY <1>5, <1>7, <2>4 DEF Inv
<1>11. QED
  BY <1>2, <1>9, <1>10 DEF Start

LEMMA KillKeeps ==
    ASSUME Inv, Kill
    PROVE  Inv'
<1>1. /\ UpstreamInv /\ SourceInv /\ ProcessInv /\ CacheInv
      /\ IndexInv /\ RightsInv /\ OutputInv
  BY DEF Inv
<1>2. End /\ faults' = faults + 1 /\ faults < MaxFaults /\ UNCHANGED <<upstream, sources, cache, out>>
  BY DEF Kill
<1>3. faults' \in 0..MaxFaults
  BY <1>1, <1>2, Constants DEF ProcessInv
<1>4. SameInputs /\ gen'[snap'] = gen[snap] /\ out' = out
  BY <1>2 DEF SameInputs, snap, upstream, sources
<1>5. IndexInv' /\ RightsInv' /\ frame' = NoFrame /\ pc' \notin Computing \ {"compute"}
  BY <1>2, Ended
<1>6. OutputInv'
  BY <1>1, <1>4, <1>5, OutputKept
<1>7. ProcessInv'
  BY <1>1, <1>2, <1>3, <1>4, EndedProcess
<1>8. QED
  BY <1>1, <1>2, <1>5, <1>6, <1>7, UpstreamKept, SourceKept, CacheKept DEF Inv

\* PatrolSourcePlan::refresh
LEMMA Refreshed ==
    ASSUME Inv, pc # "idle", Refresh, Resolves, UNCHANGED <<upstream, meta, gen, pointer>>
    PROVE  SourceInv' /\ plan'[snap] # Absent
<1>1. SourceInv /\ UpstreamInv /\ snap \in Snaps /\ snap \in Released
  BY Working DEF Inv
<1>2. plan' = [plan EXCEPT ![snap] = dump[snap].logs] /\ DOMAIN plan = Snaps
  BY <1>1 DEF Refresh, SourceInv
<1>3. dump[snap].logs \in versions[snap] /\ dump[snap].logs # Absent
  BY <1>1, LogsPresent DEF UpstreamInv
<1>4. plan'[snap] = dump[snap].logs /\ \A s \in Snaps : s # snap => plan'[s] = plan[s]
  BY <1>1, <1>2
<1>5. Released' = Released /\ versions' = versions
  BY DEF Released, upstream
<1>6. plan' = [s \in Snaps |-> plan'[s]]
  BY <1>2
<1>7. SourceInv'
  BY <1>1, <1>3, <1>4, <1>5, <1>6 DEF SourceInv
<1>8. QED
  BY <1>3, <1>4, <1>7

LEMMA PreflightKeeps ==
    ASSUME Inv, Preflight
    PROVE  Inv'
<1>1. /\ UpstreamInv /\ SourceInv /\ ProcessInv /\ CacheInv
      /\ IndexInv /\ RightsInv /\ OutputInv
  BY DEF Inv
<1>2. pc = "preflight" /\ UNCHANGED <<upstream, meta, gen, pointer, cache, out, faults>>
  BY DEF Preflight
<1>3. SameInputs /\ gen'[snap'] = gen[snap] /\ out' = out /\ newest' = newest /\ snap' = snap
  BY <1>2 DEF SameInputs, snap, upstream
<1>4. pc \notin Computing \ {"compute"}
  BY <1>2 DEF Computing, Indexing, Loop, Ending
<1>5. CASE gen[snap] # Absent /\ Goto("fetch") /\ UNCHANGED <<plan, memory>>
  <2>1. /\ pc' = "fetch" /\ load' = load /\ idx' = idx /\ rights' = rights /\ month' = month
        /\ frame' = frame /\ UNCHANGED sources
    BY <1>2, <1>5 DEF Goto, memory, sources
  <2>2. pc' \notin Computing \ {"compute"}
    BY <2>1 DEF Computing, Indexing, Loop, Ending
  <2>3. UpstreamInv' /\ CacheInv' /\ IndexInv' /\ RightsInv' /\ OutputInv'
    BY <1>2, <1>4, <2>1, <2>2, Quiet
  <2>4. SourceInv'
    BY <1>1, <1>2, <2>1, SourceKept
  <2>5. ProcessInv'
    BY <1>1, <1>2, <1>3, <2>1 DEF ProcessInv, Computing, Indexing, Loop, Ending, Fetching
  <2>6. QED
    BY <2>3, <2>4, <2>5 DEF Inv
<1>6. CASE gen[snap] = Absent /\ Resolves /\ Refresh /\ Goto("groups") /\ UNCHANGED memory
  <2>1. /\ pc' = "groups" /\ load' = load /\ idx' = idx /\ rights' = rights /\ month' = month
        /\ frame' = frame
    BY <1>6 DEF Goto, memory
  <2>2. pc' \notin Computing \ {"compute"}
    BY <2>1 DEF Computing, Indexing, Loop, Ending
  <2>3. UpstreamInv' /\ CacheInv' /\ IndexInv' /\ RightsInv' /\ OutputInv'
    BY <1>2, <1>4, <2>1, <2>2, Quiet
  <2>4. SourceInv' /\ plan'[snap'] # Absent /\ gen'[snap'] = Absent
    BY <1>2, <1>3, <1>6, Refreshed
  <2>5. ProcessInv'
    BY <1>1, <1>2, <1>3, <2>1, <2>4 DEF ProcessInv, Computing, Indexing, Loop, Ending, Fetching
  <2>6. QED
    BY <2>3, <2>4, <2>5 DEF Inv
<1>7. CASE gen[snap] = Absent /\ ~Resolves /\ End /\ UNCHANGED plan
  <2>1. IndexInv' /\ RightsInv' /\ frame' = NoFrame /\ pc' \notin Computing \ {"compute"}
    BY <1>7, Ended
  <2>2. OutputInv'
    BY <1>1, <1>3, <2>1, OutputKept
  <2>3. ProcessInv'
    BY <1>1, <1>2, <1>3, <1>7, EndedProcess DEF ProcessInv
  <2>4. UpstreamInv' /\ SourceInv' /\ CacheInv'
    BY <1>1, <1>2, <1>7, UpstreamKept, SourceKept, CacheKept DEF sources
  <2>5. QED
    BY <2>1, <2>2, <2>3, <2>4 DEF Inv
<1>8. QED
  BY <1>5, <1>6, <1>7 DEF Preflight

LEMMA GroupsKeeps ==
    ASSUME Inv, Groups
    PROVE  Inv'
<1>1. /\ UpstreamInv /\ SourceInv /\ ProcessInv /\ CacheInv
      /\ IndexInv /\ RightsInv /\ OutputInv
  BY DEF Inv
<1>2. pc = "groups" /\ UNCHANGED <<upstream, plan, gen, pointer, cache, out, memory, faults>>
  BY DEF Groups
<1>3. pc' = "fetch" \/ pc' = "build"
  BY DEF Groups, Goto
<1>4. /\ load' = load /\ idx' = idx /\ rights' = rights /\ month' = month /\ frame' = frame
      /\ snap' = snap /\ newest' = newest /\ versions' = versions /\ out' = out
  BY <1>2 DEF memory, snap, upstream
<1>5. pc \notin Computing \ {"compute"} /\ pc' \notin Computing \ {"compute"}
  BY <1>2, <1>3 DEF Computing, Indexing, Loop, Ending
<1>6. UpstreamInv' /\ CacheInv' /\ IndexInv' /\ RightsInv' /\ OutputInv' /\ Released' = Released
  BY <1>2, <1>4, <1>5, Quiet
<1>7. meta' = [snap |-> meta'.snap, groups |-> meta'.groups] /\ meta'.snap = snap
  BY DEF Groups
<1>8. SourceInv'
  <2>1. snap \in Released
    BY <1>2, Working
  <2>2. QED
    BY <1>1, <1>2, <1>4, <1>6, <1>7, <2>1 DEF SourceInv
<1>9. load.part = 1 /\ load.got = <<>> /\ plan[snap] # Absent /\ gen[snap] = Absent
  BY <1>1, <1>2 DEF ProcessInv
<1>10. DOMAIN load.got = {m \in Months : PartOf[m] < load.part}
  <2>1. \A m \in Months : PartOf[m] \in Nat /\ 1 <= PartOf[m]
    BY PatrolAssumption DEF PatrolAssumption, Parts
  <2>2. DOMAIN <<>> = {}
    OBVIOUS
  <2>3. QED
    BY <1>9, <2>1, <2>2
<1>11. \A m \in DOMAIN load.got : load.got[m] = plan[snap][m]
  BY <1>9
<1>12. ProcessInv'
  <2>1. plan' = plan /\ gen' = gen /\ faults' = faults
    BY <1>2
  <2>2. pc' \notin Computing /\ pc' # "pointer" /\ pc' # "idle" /\ pc' # "groups"
    BY <1>3 DEF Computing, Indexing, Loop, Ending
  <2>3. pc' \in {"idle", "pointer"} \cup Fetching \cup Computing
    BY <1>3 DEF Fetching
  <2>4. pc' = "build" =>
          /\ meta'.snap = snap'
          /\ load'.part > 1 => load'.got = [m \in DOMAIN load'.got |-> load'.got[m]]
          /\ DOMAIN load'.got = {m \in Months : PartOf[m] < load'.part}
          /\ \A m \in DOMAIN load'.got : load'.got[m] = plan'[snap'][m]
    BY <1>4, <1>7, <1>9, <1>10, <1>11, <2>1
  <2>5. plan'[snap'] # Absent /\ gen'[snap'] = Absent /\ out'.snap = newest'
    BY <1>1, <1>2, <1>4, <1>9, <2>1 DEF ProcessInv
  <2>6. QED
    BY <1>1, <1>4, <1>9, <2>1, <2>2, <2>3, <2>4, <2>5 DEF ProcessInv
<1>13. QED
  BY <1>6, <1>8, <1>12 DEF Inv

LEMMA FetchKeeps ==
    ASSUME Inv, Fetch
    PROVE  Inv'
<1>1. /\ UpstreamInv /\ SourceInv /\ ProcessInv /\ CacheInv
      /\ IndexInv /\ RightsInv /\ OutputInv
  BY DEF Inv
<1>2. /\ pc = "fetch"
      /\ UNCHANGED <<upstream, plan, meta, gen, cache, out, idx, todo, month, rights, frame, faults>>
  BY DEF Fetch
<1>3. \/ gen[snap] # Absent /\ pointer' \in {pointer, snap} /\ pc' = "compute" /\ load' = load
      \/ load' = [load EXCEPT !.stage = "fetch"] /\ pc' = "preflight" /\ pointer' = pointer
  BY DEF Fetch, Goto
<1>4. snap' = snap /\ newest' = newest /\ snap \in Snaps /\ snap = newest /\ out' = out
      /\ versions' = versions
  BY <1>2, Working DEF snap, upstream
<1>5. pc \notin Computing \ {"compute"} /\ pc' \notin Computing \ {"compute"}
  BY <1>2, <1>3 DEF Computing, Indexing, Loop, Ending
<1>6. UpstreamInv' /\ CacheInv' /\ IndexInv' /\ RightsInv' /\ OutputInv' /\ Released' = Released
  BY <1>2, <1>5, Quiet
<1>7. pointer' \in {0} \cup {s \in Snaps : gen[s] # Absent}
  BY <1>1, <1>3, <1>4 DEF SourceInv
<1>8. SourceInv'
  BY <1>1, <1>2, <1>4, <1>6, <1>7 DEF SourceInv
<1>9. /\ load' = [stage |-> load'.stage, part |-> load'.part, refreshed |-> load'.refreshed,
                  got |-> load'.got]
      /\ load'.part = load.part /\ load'.got = load.got
  BY <1>1, <1>3 DEF ProcessInv
<1>10. load.part = 1 /\ load.got = <<>> /\ faults' = faults
  BY <1>1, <1>2 DEF ProcessInv
<1>11. CASE gen[snap] # Absent /\ pc' = "compute"
  <2>1. pc' # "idle" /\ pc' # "groups" /\ pc' # "build" /\ pc' \notin Fetching /\ pc' \in Computing
    BY <1>11 DEF Computing, Fetching
  <2>2. QED
    <3>1. ProcessInv'
      BY <1>1, <1>2, <1>4, <1>9, <1>10, <1>11, <2>1 DEF ProcessInv, Fetching
    <3>2. QED
      BY <1>6, <1>8, <3>1 DEF Inv
<1>12. CASE pc' = "preflight"
  <2>1. pc' \notin Computing /\ pc' \in Fetching
    BY <1>12 DEF Computing, Indexing, Loop, Ending, Fetching
  <2>2. ProcessInv'
    BY <1>1, <1>2, <1>4, <1>9, <1>10, <1>12, <2>1 DEF ProcessInv
  <2>3. QED
    BY <1>6, <1>8, <2>2 DEF Inv
<1>13. QED
  BY <1>3, <1>11, <1>12

\* The download takes nothing but what the plan identifies.
LEMMA DownloadKeeps ==
    ASSUME Inv, Download
    PROVE  Inv'
<1>1. /\ UpstreamInv /\ SourceInv /\ ProcessInv /\ CacheInv
      /\ IndexInv /\ RightsInv /\ OutputInv
  BY DEF Inv
<1>2. /\ pc = "build" /\ load.part \in Parts /\ Matches(load.part)
      /\ load' = [load EXCEPT !.part = @ + 1, !.got = Over(PartLogs(dump[snap].logs, load.part), @)]
      /\ UNCHANGED <<upstream, sources, cache, out, pc, idx, todo, month, rights, frame, faults>>
  BY DEF Download
<1>3. PICK p : p = load.part
  OBVIOUS
<1>4. PICK new : new = PartLogs(dump[snap].logs, p)
  OBVIOUS
<1>5. /\ load = [stage |-> load.stage, part |-> load.part, refreshed |-> load.refreshed,
                 got |-> load.got]
      /\ p \in Nat /\ DOMAIN load.got = {m \in Months : PartOf[m] < p}
      /\ \A m \in DOMAIN load.got : load.got[m] = plan[snap][m]
      /\ meta.snap = snap /\ gen[snap] = Absent /\ plan[snap] # Absent
  BY <1>1, <1>2, <1>3 DEF ProcessInv
<1>6. /\ load' = [stage |-> load'.stage, part |-> load'.part, refreshed |-> load'.refreshed,
                  got |-> load'.got]
      /\ load'.part = p + 1 /\ load'.got = Over(new, load.got)
  BY <1>2, <1>3, <1>4, <1>5
<1>7. DOMAIN new = {m \in Months : PartOf[m] = p} /\ \A m \in DOMAIN new : new[m] = plan[snap][m]
  <2>1. new = PartLogs(plan[snap], p)
    BY <1>2, <1>3, <1>4 DEF Matches
  <2>2. QED
    BY <2>1 DEF PartLogs
<1>8. \A m \in Months : PartOf[m] \in Nat
  BY PatrolAssumption DEF PatrolAssumption, Parts
<1>9. /\ load'.got = [m \in DOMAIN load'.got |-> load'.got[m]]
      /\ DOMAIN load'.got = DOMAIN new \cup DOMAIN load.got
      /\ \A m \in DOMAIN load'.got : load'.got[m] = plan[snap][m]
  BY <1>5, <1>6, <1>7 DEF Over
<1>10. DOMAIN load'.got = {m \in Months : PartOf[m] < p + 1}
  BY <1>5, <1>7, <1>8, <1>9
<1>11. out' = out /\ snap' = snap /\ newest' = newest /\ plan' = plan /\ meta' = meta /\ gen' = gen
  BY <1>2 DEF snap, upstream, sources
<1>12. pc \notin Computing \ {"compute"}
  BY <1>2 DEF Computing, Indexing, Loop, Ending
<1>13. UpstreamInv' /\ CacheInv' /\ IndexInv' /\ RightsInv' /\ OutputInv'
  BY <1>2, <1>11, <1>12, Quiet
<1>14. SourceInv'
  BY <1>1, <1>2, SourceKept
<1>15. ProcessInv'
  <2>1. p + 1 \in Nat
    BY <1>5
  <2>2. pc' = "build" /\ pc' \notin Computing
    BY <1>2 DEF Computing, Indexing, Loop, Ending
  <2>3. QED
    BY <1>1, <1>2, <1>5, <1>6, <1>9, <1>10, <1>11, <2>1, <2>2 DEF ProcessInv
<1>16. QED
  BY <1>13, <1>14, <1>15 DEF Inv

LEMMA ChangedKeeps ==
    ASSUME Inv, Changed
    PROVE  Inv'
<1>1. /\ UpstreamInv /\ SourceInv /\ ProcessInv /\ CacheInv
      /\ IndexInv /\ RightsInv /\ OutputInv
  BY DEF Inv
<1>2. pc = "build" /\ UNCHANGED <<upstream, meta, gen, pointer, cache, out, faults>>
  BY DEF Changed
<1>3. out' = out /\ snap' = snap /\ newest' = newest /\ SameInputs /\ gen'[snap'] = gen[snap]
  BY <1>2 DEF snap, upstream, SameInputs
<1>4. CASE /\ Refresh /\ Resolves
           /\ load' = [load EXCEPT !.part = 1, !.got = <<>>, !.refreshed = TRUE]
           /\ UNCHANGED <<pc, idx, todo, month, rights, frame>>
  <2>1. pc \notin Computing \ {"compute"} /\ pc' \notin Computing /\ pc' = "build"
    BY <1>2, <1>4 DEF Computing, Indexing, Loop, Ending
  <2>2. UpstreamInv' /\ CacheInv' /\ IndexInv' /\ RightsInv' /\ OutputInv'
    BY <1>2, <1>4, <2>1, Quiet
  <2>3. SourceInv' /\ plan'[snap'] # Absent
    BY <1>2, <1>3, <1>4, Refreshed
  <2>4. /\ load' = [stage |-> load'.stage, part |-> load'.part, refreshed |-> load'.refreshed,
                    got |-> load'.got]
        /\ load'.part = 1 /\ load'.got = <<>>
    BY <1>1, <1>4 DEF ProcessInv
  <2>5. DOMAIN load'.got = {m \in Months : PartOf[m] < load'.part}
    <3>1. \A m \in Months : PartOf[m] \in Nat /\ 1 <= PartOf[m]
      BY PatrolAssumption DEF PatrolAssumption, Parts
    <3>2. DOMAIN <<>> = {}
      OBVIOUS
    <3>3. QED
      BY <2>4, <3>1, <3>2
  <2>6. \A m \in DOMAIN load'.got : load'.got[m] = plan'[snap'][m]
    BY <2>4
  <2>7. ProcessInv'
    BY <1>1, <1>2, <1>3, <2>1, <2>3, <2>4, <2>5, <2>6 DEF ProcessInv
  <2>8. QED
    BY <2>2, <2>3, <2>7 DEF Inv
<1>5. CASE End /\ UNCHANGED plan
  <2>1. IndexInv' /\ RightsInv' /\ frame' = NoFrame /\ pc' \notin Computing \ {"compute"}
    BY <1>5, Ended
  <2>2. OutputInv'
    BY <1>1, <1>3, <2>1, OutputKept
  <2>3. ProcessInv'
    BY <1>1, <1>2, <1>3, <1>5, EndedProcess DEF ProcessInv
  <2>4. UpstreamInv' /\ SourceInv' /\ CacheInv'
    BY <1>1, <1>2, <1>5, UpstreamKept, SourceKept, CacheKept DEF sources
  <2>5. QED
    BY <2>1, <2>2, <2>3, <2>4 DEF Inv
<1>6. QED
  BY <1>4, <1>5 DEF Changed

\* The generation is committed with the logs of the plan, all of them.
LEMMA CommitKeeps ==
    ASSUME Inv, Commit
    PROVE  Inv'
<1>1. /\ UpstreamInv /\ SourceInv /\ ProcessInv /\ CacheInv
      /\ IndexInv /\ RightsInv /\ OutputInv
  BY DEF Inv
<1>2. /\ pc = "build" /\ load.part > NumParts /\ pc' = "pointer"
      /\ gen' = [gen EXCEPT ![snap] = [logs |-> load.got, groups |-> meta.groups]]
      /\ UNCHANGED <<upstream, plan, meta, pointer, cache, out, memory, faults>>
  BY DEF Commit, Goto
<1>3. /\ snap \in Released /\ snap \in Snaps /\ plan[snap] \in versions[snap] /\ plan[snap] # Absent
      /\ versions[snap] \subseteq Logs /\ gen[snap] = Absent
  BY <1>1, <1>2, Working DEF UpstreamInv, SourceInv, ProcessInv
<1>4. load.got = plan[snap]
  <2>1. \A m \in Months : PartOf[m] \in Nat /\ 1 <= PartOf[m] /\ PartOf[m] <= NumParts
    BY PatrolAssumption DEF PatrolAssumption, Parts
  <2>2. load.part \in Nat /\ load.part > 1
    BY <1>1, <1>2, <2>1, Constants DEF ProcessInv
  <2>3. DOMAIN load.got = Months
    BY <1>1, <1>2, <2>1, <2>2, Constants DEF ProcessInv
  <2>4. load.got = [m \in Months |-> load.got[m]] /\ \A m \in Months : load.got[m] = plan[snap][m]
    BY <1>1, <1>2, <2>2, <2>3 DEF ProcessInv
  <2>5. plan[snap] = [m \in Months |-> plan[snap][m]]
    BY <1>3 DEF Logs
  <2>6. QED
    BY <2>4, <2>5
<1>5. PICK g : g = [logs |-> load.got, groups |-> meta.groups]
  OBVIOUS
<1>6. g # Absent /\ g.logs \in versions[snap]
  BY <1>3, <1>4, <1>5 DEF Absent
<1>7. /\ gen' = [s \in Snaps |-> gen'[s]] /\ gen'[snap] = g
      /\ \A s \in Snaps : s # snap => gen'[s] = gen[s]
  BY <1>1, <1>2, <1>3, <1>5 DEF SourceInv
<1>8. Released' = Released /\ versions' = versions /\ snap' = snap /\ out' = out /\ newest' = newest
  BY <1>2 DEF Released, upstream, snap
<1>9. SourceInv'
  BY <1>1, <1>2, <1>3, <1>6, <1>7, <1>8 DEF SourceInv
<1>10. idx' = idx /\ rights' = rights /\ month' = month /\ frame' = frame /\ load' = load
  BY <1>2 DEF memory
<1>11. /\ pc \notin Computing \ {"compute"} /\ pc' \notin Computing \ {"compute"}
       /\ pc' \notin Fetching /\ pc' # "idle"
  BY <1>2 DEF Computing, Indexing, Loop, Ending, Fetching
<1>12. UpstreamInv' /\ CacheInv' /\ IndexInv' /\ RightsInv'
  BY <1>1, <1>2, <1>10, <1>11, UpstreamKept, CacheKept, IndexEmpty, RightsEmpty
<1>13. OutputInv'
  BY <1>1, <1>3, <1>8, <1>10, <1>11, FrameEmpty, OutputKept
<1>14. ProcessInv'
  BY <1>1, <1>2, <1>6, <1>7, <1>8, <1>10, <1>11 DEF ProcessInv, Fetching
<1>15. QED
  BY <1>9, <1>12, <1>13, <1>14 DEF Inv

LEMMA PublishPointerKeeps ==
    ASSUME Inv, PublishPointer
    PROVE  Inv'
<1>1. /\ UpstreamInv /\ SourceInv /\ ProcessInv /\ CacheInv
      /\ IndexInv /\ RightsInv /\ OutputInv
  BY DEF Inv
<1>2. /\ pc = "pointer" /\ pointer' = snap /\ pc' = "compute"
      /\ UNCHANGED <<upstream, plan, meta, gen, cache, out, memory, faults>>
  BY DEF PublishPointer, Goto
<1>3. /\ idx' = idx /\ rights' = rights /\ month' = month /\ frame' = frame /\ load' = load
      /\ snap' = snap /\ newest' = newest /\ versions' = versions /\ out' = out
  BY <1>2 DEF memory, snap, upstream
<1>4. /\ pc \notin Computing \ {"compute"} /\ pc' \notin Computing \ {"compute"}
      /\ pc' \notin Fetching /\ pc' # "idle" /\ pc' \in Computing
  BY <1>2 DEF Computing, Indexing, Loop, Ending, Fetching
<1>5. UpstreamInv' /\ CacheInv' /\ IndexInv' /\ RightsInv' /\ OutputInv' /\ Released' = Released
  BY <1>2, <1>3, <1>4, Quiet
<1>6. snap \in Snaps /\ gen[snap] # Absent
  BY <1>1, <1>2, Working DEF ProcessInv
<1>7. SourceInv'
  BY <1>1, <1>2, <1>3, <1>5, <1>6 DEF SourceInv
<1>8. ProcessInv'
  BY <1>1, <1>2, <1>3, <1>4, <1>6 DEF ProcessInv, Fetching
<1>9. QED
  BY <1>5, <1>7, <1>8 DEF Inv

-----------------------------------------------------------------------------
(* The computation: source indexes.                                        *)

LEMMA Beginning ==
    ASSUME Inputs
    PROVE  /\ Min(Timeline) \in Timeline /\ Min(Timeline) \in Nat /\ 0 < Min(Timeline)
           /\ {n \in OutputMonths : n < Min(Timeline)} = {}
           /\ {u \in Users : Carried(u, 0 + 1)} = {}
<1>1. /\ Timeline \in SUBSET Nat /\ Timeline # {} /\ OutputMonths \subseteq Timeline
      /\ Timeline \in SUBSET Months
  BY MonthFacts
<1>2. Min(Timeline) \in Timeline /\ \A k \in Timeline : Min(Timeline) <= k
  BY <1>1, MinIn
<1>3. Min(Timeline) \in Nat /\ 0 < Min(Timeline)
  <2>1. \A k \in Months : k \in Nat /\ 0 < k
    BY Constants DEF Months
  <2>2. QED
    BY <1>1, <1>2, <2>1
<1>4. {n \in OutputMonths : n < Min(Timeline)} = {}
  <2>1. PICK t : t = Min(Timeline)
    OBVIOUS
  <2>2. \A n \in OutputMonths : n \in Nat /\ t <= n /\ t \in Nat
    BY <1>1, <1>2, <1>3, <2>1
  <2>3. QED
    BY <2>1, <2>2
<1>5. {u \in Users : Carried(u, 0 + 1)} = {}
  <2>1. 1..((0 + 1) - 1) = {}
    OBVIOUS
  <2>2. QED
    BY <2>1 DEF Carried
<1>6. QED
  BY <1>2, <1>3, <1>4, <1>5

\* A computation that has all its indexes begins with the first month.
LEMMA AfterIndexKeeps ==
    ASSUME Inputs, SameInputs, gen[snap] # Absent,
           idx' = [a \in DOMAIN idx' |-> idx'[a]],
           \A a \in DOMAIN idx' : idx'[a] = Index(a) /\ (EventsReusable(idx[a]))',
           todo' \subseteq ActionMonths, DOMAIN idx' = ActionMonths \ todo',
           pc' = AfterIndex(todo'), month' = Min(Timeline),
           rights' = [through |-> rights'.through, users |-> rights'.users],
           rights'.through = 0, rights'.users = {}, frame' = NoFrame,
           out' = [snap |-> out'.snap, parts |-> out'.parts, final |-> out'.final,
                   receipt |-> out'.receipt],
           DOMAIN out'.parts = {}, DOMAIN out'.final \subseteq 1..snap, out'.receipt = Absent
    PROVE  IndexInv' /\ RightsInv' /\ OutputInv' /\ pc' \in Computing \ {"compute"}
<1>1. /\ snap' = snap /\ ActionMonths' = ActionMonths /\ OutputMonths' = OutputMonths
      /\ Timeline' = Timeline /\ \A a : Index(a)' = Index(a)
      /\ (gen[snap])' = gen[snap]
  BY SameMonths, SameIndex, SameSources
<1>2. \/ pc' = "month" /\ todo' = {}
      \/ pc' = "index" /\ todo' # {}
  BY DEF AfterIndex
<1>3. /\ pc' \notin Ending /\ pc' # "compute" /\ pc' # "events" /\ pc' # "source" /\ pc' \in Computing
      /\ pc' \in Indexing => todo' # {}
      /\ pc' \in Loop => pc' = "month" /\ todo' = {}
  BY <1>2 DEF Computing, Ending, Indexing, Loop
<1>4. IndexInv'
  BY <1>1, <1>3 DEF IndexInv
<1>5. RightsInv'
  <2>1. Min(Timeline) \in Timeline /\ Min(Timeline) \in Nat /\ 0 < Min(Timeline)
    BY Beginning
  <2>2. {u \in Users : Carried(u, rights.through + 1)}' = {}
    BY Beginning, SameRights
  <2>3. 0 \in 0..Min(Timeline)
    BY <2>1
  <2>4. QED
    BY <1>1, <1>3, <2>1, <2>2, <2>3 DEF RightsInv
<1>6. OutputInv'
  <2>1. {n \in OutputMonths : n < Min(Timeline)} = {}
    BY Beginning
  <2>2. Exact(out.parts)'
    BY DEF Exact
  <2>3. pc' # "store" /\ pc' # "stored" /\ pc' # "part" /\ pc' # "merge" /\ pc' # "record"
    BY <1>2
  <2>4. QED
    BY <1>1, <1>3, <2>1, <2>2, <2>3 DEF OutputInv
<1>7. QED
  BY <1>3, <1>4, <1>5, <1>6

\* A step of the computation keeps what a process knows.
LEMMA ProcessKept ==
    ASSUME ProcessInv, pc \in Computing, pc' \in Computing, out'.snap = out.snap,
           UNCHANGED <<upstream, sources, load, faults>>
    PROVE  ProcessInv'
<1>1. /\ pc \notin {"idle", "pointer"} \cup Fetching /\ pc' \notin {"idle", "pointer"} \cup Fetching
  BY DEF Computing, Indexing, Loop, Ending, Fetching
<1>2. newest' = newest /\ gen' = gen /\ plan' = plan /\ meta' = meta
  BY DEF upstream, sources
<1>3. QED
  BY <1>1, <1>2 DEF ProcessInv, Fetching, snap

LEMMA ComputeSame ==
    ASSUME UNCHANGED <<upstream, sources>>, out'.snap = out.snap
    PROVE  SameInputs /\ gen'[snap'] = gen[snap]
BY DEF SameInputs, snap, upstream, sources

LEMMA ComputeKeeps ==
    ASSUME Inv, Compute
    PROVE  Inv'
<1>1. /\ UpstreamInv /\ SourceInv /\ ProcessInv /\ CacheInv
      /\ IndexInv /\ RightsInv /\ OutputInv
  BY DEF Inv
<1>2. pc = "compute" /\ UNCHANGED <<upstream, sources, cache, faults>> /\ pc \in Computing
  BY DEF Compute, Computing
<1>3. UpstreamInv' /\ SourceInv' /\ CacheInv'
  BY <1>1, <1>2, UpstreamKept, SourceKept, CacheKept
<1>4. Inputs /\ gen[snap] # Absent
  BY <1>1, <1>2, WorkingInputs DEF ProcessInv
<1>5. frame = NoFrame /\ rights.through = 0 /\ rights.users = {}
  <2>1. pc \notin Loop /\ pc \notin Ending
    BY <1>2 DEF Loop, Ending
  <2>2. QED
    BY <1>1, <2>1 DEF OutputInv, RightsInv
<1>6. CASE End /\ out' = out
  <2>1. IndexInv' /\ RightsInv' /\ frame' = NoFrame /\ pc' \notin Computing \ {"compute"}
    BY <1>6, Ended
  <2>2. SameInputs /\ gen'[snap'] = gen[snap]
    BY <1>2, <1>6, ComputeSame
  <2>3. OutputInv'
    BY <1>1, <1>6, <2>1, <2>2, OutputKept
  <2>4. ProcessInv'
    BY <1>1, <1>2, <1>6, EndedProcess DEF ProcessInv
  <2>5. QED
    BY <1>3, <2>1, <2>3, <2>4 DEF Inv
<1>7. CASE /\ out.receipt # StageReceipt
           /\ out' = [out EXCEPT !.parts = <<>>]
           /\ idx' = [a \in {b \in ActionMonths : Reusable(b) # {}} |->
                         CHOOSE x \in Reusable(a) : TRUE]
           /\ todo' = ActionMonths \ DOMAIN idx'
           /\ month' = Min(Timeline)
           /\ pc' = AfterIndex(todo')
           /\ UNCHANGED <<load, rights, frame>>
  <2>1. /\ out' = [snap |-> out'.snap, parts |-> out'.parts, final |-> out'.final,
                   receipt |-> out'.receipt]
        /\ out'.snap = out.snap /\ DOMAIN out'.parts = {} /\ out'.final = out.final
        /\ out'.receipt = out.receipt
    BY <1>1, <1>7 DEF OutputInv
  <2>2. out'.receipt = Absent /\ DOMAIN out'.final \subseteq 1..snap
    BY <1>1, <1>7, <2>1 DEF OutputInv
  <2>3. SameInputs
    BY <1>2, <2>1, ComputeSame
  <2>4. ASSUME NEW a \in DOMAIN idx' PROVE idx'[a] = Index(a) /\ (EventsReusable(idx[a]))'
    <3>1. a \in Months /\ Reusable(a) # {} /\ idx'[a] = CHOOSE x \in Reusable(a) : TRUE
      BY <1>7 DEF ActionMonths
    <3>2. PICK x : x = idx'[a]
      OBVIOUS
    <3>3. x \in Reusable(a)
      BY <3>1, <3>2
    <3>4. x \in ptr /\ x.art = Artifact(a) /\ DependenciesMatch(x) /\ EventsReusable(x)
      BY <3>3 DEF Reusable
    <3>5. x = Index(a)
      BY <1>1, <1>4, <3>1, <3>4, ReusableIndex DEF CacheInv
    <3>6. ev' = ev
      BY <1>2 DEF cache
    <3>7. QED
      BY <3>2, <3>4, <3>5, <3>6 DEF EventsReusable
  <2>5. idx' = [a \in DOMAIN idx' |-> idx'[a]] /\ DOMAIN idx' \subseteq ActionMonths
    BY <1>7
  <2>6. todo' \subseteq ActionMonths /\ DOMAIN idx' = ActionMonths \ todo'
    BY <1>7, <2>5
  <2>7. rights' = [through |-> rights'.through, users |-> rights'.users] /\ rights'.through = 0
        /\ rights'.users = {} /\ frame' = NoFrame
    BY <1>1, <1>5, <1>7 DEF RightsInv
  <2>8. IndexInv' /\ RightsInv' /\ OutputInv' /\ pc' \in Computing
    BY <1>4, <1>7, <2>1, <2>2, <2>3, <2>4, <2>5, <2>6, <2>7, AfterIndexKeeps
  <2>9. ProcessInv'
    BY <1>1, <1>2, <1>7, <2>1, <2>8, ProcessKept
  <2>10. QED
    BY <1>3, <2>8, <2>9 DEF Inv
<1>8. QED
  BY <1>6, <1>7 DEF Compute, Goto

\* What a process that indexes knows
LEMMA Indexes ==
    ASSUME Inv, pc \in Indexing
    PROVE  /\ Inputs /\ gen[snap] # Absent /\ pc \in Computing
           /\ Min(todo) \in todo /\ Min(todo) \in ActionMonths /\ Min(todo) \in Months
           /\ todo \subseteq ActionMonths /\ DOMAIN idx = ActionMonths \ todo
           /\ idx = [a \in DOMAIN idx |-> idx[a]]
           /\ \A a \in DOMAIN idx : idx[a] = Index(a) /\ EventsReusable(idx[a])
           /\ month = Min(Timeline) /\ rights.through = 0 /\ rights.users = {} /\ frame = NoFrame
           /\ rights = [through |-> rights.through, users |-> rights.users]
           /\ out = [snap |-> out.snap, parts |-> out.parts, final |-> out.final,
                     receipt |-> out.receipt]
           /\ DOMAIN out.parts = {} /\ DOMAIN out.final \subseteq 1..snap /\ out.receipt = Absent
<1>1. pc \in Computing /\ pc \notin Loop /\ pc \notin Ending /\ pc \in Computing \ {"compute"}
  BY DEF Indexing, Loop, Ending, Computing
<1>2. Inputs /\ gen[snap] # Absent
  BY <1>1, WorkingInputs DEF Inv, ProcessInv
<1>3. /\ todo # {} /\ todo \subseteq ActionMonths /\ DOMAIN idx = ActionMonths \ todo
      /\ idx = [a \in DOMAIN idx |-> idx[a]]
      /\ \A a \in DOMAIN idx : idx[a] = Index(a) /\ EventsReusable(idx[a])
  BY DEF Inv, IndexInv
<1>4. todo \in SUBSET Nat /\ ActionMonths \subseteq Months
  BY <1>3, Constants DEF ActionMonths
<1>5. Min(todo) \in todo
  BY <1>3, <1>4, MinIn
<1>6. /\ month = Min(Timeline) /\ rights.through = 0 /\ rights.users = {}
      /\ rights = [through |-> rights.through, users |-> rights.users]
  BY <1>1 DEF Inv, RightsInv
<1>7. /\ frame = NoFrame
      /\ out = [snap |-> out.snap, parts |-> out.parts, final |-> out.final,
                receipt |-> out.receipt]
      /\ DOMAIN out.parts = {} /\ DOMAIN out.final \subseteq 1..snap /\ out.receipt = Absent
  BY <1>1 DEF Inv, OutputInv
<1>8. QED
  BY <1>1, <1>2, <1>3, <1>4, <1>5, <1>6, <1>7

\* The index of the first month to do is there with its events.
LEMMA PointedKeeps ==
    ASSUME Inv, pc \in Indexing, EventsReusable(Index(Min(todo))), Pointed(Min(todo)),
           UNCHANGED <<upstream, sources, ev, frames, chk, out, load, month, rights, frame, faults>>
    PROVE  Inv'
<1>1. /\ UpstreamInv /\ SourceInv /\ ProcessInv /\ CacheInv
      /\ IndexInv /\ RightsInv /\ OutputInv
  BY DEF Inv
<1>2. PICK a : a = Min(todo)
  OBVIOUS
<1>3. /\ Inputs /\ gen[snap] # Absent /\ pc \in Computing
      /\ a \in todo /\ a \in ActionMonths /\ a \in Months
      /\ todo \subseteq ActionMonths /\ DOMAIN idx = ActionMonths \ todo
      /\ idx = [b \in DOMAIN idx |-> idx[b]]
      /\ \A b \in DOMAIN idx : idx[b] = Index(b) /\ EventsReusable(idx[b])
      /\ month = Min(Timeline) /\ rights.through = 0 /\ rights.users = {} /\ frame = NoFrame
      /\ rights = [through |-> rights.through, users |-> rights.users]
      /\ out = [snap |-> out.snap, parts |-> out.parts, final |-> out.final,
                receipt |-> out.receipt]
      /\ DOMAIN out.parts = {} /\ DOMAIN out.final \subseteq 1..snap /\ out.receipt = Absent
  BY <1>2, Indexes
<1>4. /\ ptr' = {x \in ptr : x.art # Artifact(a)} \cup {Index(a)}
      /\ idx' = Put(a, Index(a), idx) /\ todo' = todo \ {a} /\ pc' = AfterIndex(todo')
      /\ ev' = ev /\ frames' = frames /\ chk' = chk
  BY <1>2 DEF Pointed, Goto
<1>5. CacheInv'
  BY <1>1, <1>3, <1>4, IndexOK DEF CacheInv
<1>6. /\ idx' = [b \in DOMAIN idx' |-> idx'[b]] /\ DOMAIN idx' = DOMAIN idx \cup {a}
      /\ \A b \in DOMAIN idx : b # a => idx'[b] = idx[b]
      /\ idx'[a] = Index(a)
  <2>1. PICK i : i = Index(a)
    OBVIOUS
  <2>2. idx' = Put(a, i, idx)
    BY <1>4, <2>1
  <2>3. a \notin DOMAIN idx
    BY <1>3
  <2>4. QED
    BY <2>1, <2>2, <2>3 DEF Put, Over
<1>7. ASSUME NEW b \in DOMAIN idx' PROVE idx'[b] = Index(b) /\ (EventsReusable(idx[b]))'
  <2>1. idx'[b] = Index(b) /\ EventsReusable(Index(b))
    BY <1>2, <1>3, <1>6
  <2>2. QED
    BY <1>4, <2>1 DEF EventsReusable
<1>8. todo' \subseteq ActionMonths /\ DOMAIN idx' = ActionMonths \ todo'
  BY <1>3, <1>4, <1>6
<1>9. SameInputs /\ out' = out
  BY ComputeSame
<1>10. IndexInv' /\ RightsInv' /\ OutputInv' /\ pc' \in Computing
  BY <1>3, <1>4, <1>6, <1>7, <1>8, <1>9, AfterIndexKeeps
<1>11. ProcessInv'
  BY <1>1, <1>3, <1>9, <1>10, ProcessKept
<1>12. QED
  BY <1>1, <1>5, <1>10, <1>11, UpstreamKept, SourceKept DEF Inv

\* A step that writes the events of the first month to do
LEMMA WrittenKeeps ==
    ASSUME Inv, pc \in Indexing, pc' \in {"events", "source"},
           UNCHANGED <<upstream, sources, ptr, idx, todo, frames, chk, out, load, month, rights,
                       frame, faults>>,
           \A e \in ev' : EventsOK(e),
           \A a \in DOMAIN idx : (EventsReusable(idx[a]))',
           pc' = "events" => \E e \in ev' : e.key = Index(Min(todo)),
           pc' = "source" => \E e \in ev' : e.key = Index(Min(todo)) /\ e.receipt
    PROVE  Inv'
<1>1. /\ UpstreamInv /\ SourceInv /\ ProcessInv /\ CacheInv
      /\ IndexInv /\ RightsInv /\ OutputInv
  BY DEF Inv
<1>2. /\ SameInputs /\ idx' = idx /\ todo' = todo /\ out' = out /\ month' = month
      /\ rights' = rights /\ frame' = frame
  BY ComputeSame
<1>3. /\ snap' = snap /\ ActionMonths' = ActionMonths /\ OutputMonths' = OutputMonths
      /\ Timeline' = Timeline /\ \A a : Index(a)' = Index(a) /\ (gen[snap])' = gen[snap]
  BY <1>2, SameMonths, SameIndex, SameSources
<1>4. /\ pc \in Computing /\ gen[snap] # Absent
      /\ todo # {} /\ todo \subseteq ActionMonths /\ DOMAIN idx = ActionMonths \ todo
      /\ idx = [a \in DOMAIN idx |-> idx[a]]
      /\ \A a \in DOMAIN idx : idx[a] = Index(a) /\ EventsReusable(idx[a])
      /\ month = Min(Timeline) /\ rights.through = 0 /\ rights.users = {} /\ frame = NoFrame
      /\ DOMAIN out.parts = {} /\ DOMAIN out.final \subseteq 1..snap /\ out.receipt = Absent
  BY Indexes
<1>5. /\ pc' \in Computing /\ pc' \in Indexing /\ pc' \notin Loop /\ pc' \notin Ending
      /\ pc' # "compute"
  BY DEF Computing, Indexing, Loop, Ending
<1>6. CacheInv'
  BY <1>1 DEF CacheInv
<1>7. IndexInv'
  <2>1. \A a \in DOMAIN idx' : (idx[a] = Index(a) /\ EventsReusable(idx[a]))'
    BY <1>2, <1>3, <1>4
  <2>2. (Index(Min(todo)))' = Index(Min(todo))
    BY <1>2, <1>3
  <2>3. pc' = "source" => (EventsReusable(Index(Min(todo))))'
    BY <2>2 DEF EventsReusable
  <2>4. pc' = "events" => (\E e \in ev : e.key = Index(Min(todo)))'
    BY <2>2
  <2>5. QED
    BY <1>2, <1>3, <1>4, <1>5, <2>1, <2>3, <2>4 DEF IndexInv
<1>8. RightsInv'
  BY <1>1, <1>2, <1>3, <1>4, <1>5 DEF RightsInv
<1>9. OutputInv'
  <2>1. Exact(out.parts)'
    BY <1>2, <1>4 DEF Exact
  <2>2. QED
    BY <1>1, <1>2, <1>3, <1>4, <1>5, <2>1 DEF OutputInv
<1>10. ProcessInv'
  BY <1>1, <1>2, <1>4, <1>5, ProcessKept
<1>11. QED
  BY <1>1, <1>6, <1>7, <1>8, <1>9, <1>10, UpstreamKept, SourceKept DEF Inv

LEMMA IndexEventsKeeps ==
    ASSUME Inv, IndexEvents
    PROVE  Inv'
<1>1. pc = "index" /\ pc \in Indexing
      /\ UNCHANGED <<upstream, sources, frames, chk, out, load, month, rights, frame, faults>>
  BY DEF IndexEvents, Indexing
<1>2. PICK a : a = Min(todo)
  OBVIOUS
<1>3. CASE EventsReusable(Index(a)) /\ Pointed(a) /\ UNCHANGED ev
  BY <1>1, <1>2, <1>3, PointedKeeps
<1>4. CASE /\ ~EventsReusable(Index(a))
           /\ ev' = {e \in ev : e.key # Index(a)}
                    \cup {[key |-> Index(a), data |-> Enriched(a), receipt |-> FALSE]}
           /\ pc' = "events" /\ UNCHANGED <<ptr, idx, todo>>
  <2>1. Inputs /\ a \in Months /\ \A b \in DOMAIN idx : EventsReusable(idx[b])
    BY <1>1, <1>2, Indexes
  <2>2. PICK new : new = [key |-> Index(a), data |-> Enriched(a), receipt |-> FALSE]
    OBVIOUS
  <2>3. EventsOK(new) /\ new.key = Index(a)
    BY <2>1, <2>2, DataIndex DEF EventsOK
  <2>4. ev' = {e \in ev : e.key # Index(a)} \cup {new}
    BY <1>4, <2>2
  <2>5. \A e \in ev' : EventsOK(e)
    BY <2>3, <2>4 DEF Inv, CacheInv
  <2>6. ASSUME NEW b \in DOMAIN idx PROVE (EventsReusable(idx[b]))'
    <3>1. EventsReusable(idx[b]) /\ idx' = idx
      BY <1>4, <2>1
    <3>2. PICK e \in ev : e.key = idx[b] /\ e.receipt
      BY <3>1 DEF EventsReusable
    <3>3. e.key # Index(a)
      BY <1>4, <3>2 DEF EventsReusable
    <3>4. QED
      BY <2>4, <3>1, <3>2, <3>3 DEF EventsReusable
  <2>7. \E e \in ev' : e.key = Index(Min(todo))
    BY <1>2, <2>3, <2>4
  <2>8. QED
    BY <1>1, <1>4, <2>5, <2>6, <2>7, WrittenKeeps
<1>5. QED
  BY <1>2, <1>3, <1>4 DEF IndexEvents, Goto

LEMMA IndexReceiptKeeps ==
    ASSUME Inv, IndexReceipt
    PROVE  Inv'
<1>1. /\ pc = "events" /\ pc \in Indexing /\ pc' = "source"
      /\ UNCHANGED <<upstream, sources, ptr, frames, chk, out, memory, faults>>
  BY DEF IndexReceipt, Indexing, Goto
<1>2. PICK x : x = Index(Min(todo))
  OBVIOUS
<1>3. ev' = {[e EXCEPT !.receipt = @ \/ e.key = x] : e \in ev}
  BY <1>2 DEF IndexReceipt
<1>4. \A e \in ev : EventsOK(e)
  BY DEF Inv, CacheInv
<1>5. \A e \in ev' : EventsOK(e)
  BY <1>3, <1>4 DEF EventsOK
<1>6. ASSUME NEW e \in ev, e.receipt \/ e.key = x
      PROVE  \E f \in ev' : f.key = e.key /\ f.receipt
  <2>1. (e.receipt \/ e.key = x) = TRUE
    BY <1>6
  <2>2. [e EXCEPT !.receipt = TRUE] \in ev'
    BY <1>3, <2>1
  <2>3. e = [key |-> e.key, data |-> e.data, receipt |-> e.receipt]
    BY <1>4 DEF EventsOK
  <2>4. [e EXCEPT !.receipt = TRUE].key = e.key /\ [e EXCEPT !.receipt = TRUE].receipt
    BY <2>3
  <2>5. QED
    BY <2>2, <2>4
<1>7. ASSUME NEW b \in DOMAIN idx PROVE (EventsReusable(idx[b]))'
  <2>1. EventsReusable(idx[b]) /\ idx' = idx
    BY <1>1, Indexes DEF memory
  <2>2. PICK e \in ev : e.key = idx[b] /\ e.receipt
    BY <2>1 DEF EventsReusable
  <2>3. QED
    BY <1>6, <2>1, <2>2 DEF EventsReusable
<1>8. \E e \in ev' : e.key = Index(Min(todo)) /\ e.receipt
  <2>1. \E e \in ev : e.key = x
    BY <1>1, <1>2 DEF Inv, IndexInv
  <2>2. QED
    BY <1>2, <1>6, <2>1
<1>9. UNCHANGED <<idx, todo, load, month, rights, frame>>
  BY <1>1 DEF memory
<1>10. QED
  BY <1>1, <1>5, <1>7, <1>8, <1>9, WrittenKeeps

LEMMA IndexPointerKeeps ==
    ASSUME Inv, IndexPointer
    PROVE  Inv'
<1>1. /\ pc = "source" /\ pc \in Indexing /\ Pointed(Min(todo))
      /\ UNCHANGED <<upstream, sources, ev, frames, chk, out, load, month, rights, frame, faults>>
  BY DEF IndexPointer, Indexing
<1>2. EventsReusable(Index(Min(todo)))
  BY <1>1 DEF Inv, IndexInv
<1>3. QED
  BY <1>1, <1>2, PointedKeeps

-----------------------------------------------------------------------------
(* The computation: months.                                                *)

\* What a process knows between its indexes and its end
LEMMA Loops ==
    ASSUME Inv, pc \in Loop
    PROVE  /\ Inputs /\ gen[snap] # Absent /\ Indexed /\ \A e \in ev : EventsOK(e)
           /\ month \in Timeline /\ month \in Nat /\ month \in Months
           /\ rights = [through |-> rights.through, users |-> rights.users]
           /\ rights.through \in 0..month /\ rights.through \in Nat
           /\ rights.users = {u \in Users : Carried(u, rights.through + 1)}
           /\ out = [snap |-> out.snap, parts |-> out.parts, final |-> out.final,
                     receipt |-> out.receipt]
           /\ DOMAIN out.parts = {n \in OutputMonths : n < month} /\ Exact(out.parts)
           /\ DOMAIN out.final \subseteq 1..snap /\ out.receipt = Absent
           /\ frame # NoFrame => month \in OutputMonths /\ frame = CleanMonth(month)
<1>1. pc \in Computing /\ pc \in Computing \ {"compute"}
  BY DEF Computing, Loop
<1>2. Inputs /\ gen[snap] # Absent
  BY <1>1, WorkingInputs DEF Inv, ProcessInv
<1>3. Indexed /\ \A e \in ev : EventsOK(e)
  BY DEF Inv, IndexInv, Indexed, CacheInv
<1>4. /\ month \in Timeline /\ month \in Nat /\ rights.through \in 0..month
      /\ rights = [through |-> rights.through, users |-> rights.users]
      /\ rights.users = {u \in Users : Carried(u, rights.through + 1)}
  BY DEF Inv, RightsInv
<1>5. month \in Months
  BY <1>2, <1>4, MonthFacts
<1>6. rights.through \in Nat
  BY <1>4
<1>7. /\ out = [snap |-> out.snap, parts |-> out.parts, final |-> out.final,
                receipt |-> out.receipt]
      /\ DOMAIN out.parts = {n \in OutputMonths : n < month} /\ Exact(out.parts)
      /\ DOMAIN out.final \subseteq 1..snap /\ out.receipt = Absent
      /\ frame # NoFrame => month \in OutputMonths /\ frame = CleanMonth(month)
  BY <1>1 DEF Inv, OutputInv
<1>8. QED
  BY <1>2, <1>3, <1>4, <1>5, <1>6, <1>7

\* A step from month to month leaves the sources and the indexes alone.
LEMMA Within ==
    ASSUME Inv, pc \in Loop \cup Ending, pc' \in Loop \cup Ending, out'.snap = out.snap,
           UNCHANGED <<upstream, sources, ev, idx, todo, load, faults>>
    PROVE  UpstreamInv' /\ SourceInv' /\ ProcessInv' /\ IndexInv'
<1>1. UpstreamInv /\ SourceInv /\ ProcessInv /\ IndexInv
  BY DEF Inv
<1>2. pc \in Computing /\ pc' \in Computing
  BY DEF Computing
<1>3. SameInputs
  BY ComputeSame
<1>4. UpstreamInv' /\ SourceInv'
  BY <1>1, UpstreamKept, SourceKept
<1>5. ProcessInv'
  BY <1>1, <1>2, ProcessKept
<1>6. IndexInv'
  BY <1>1, <1>3, IndexKept
<1>7. QED
  BY <1>4, <1>5, <1>6

LEMMA CarriedSame ==
    ASSUME SameInputs
    PROVE  {u \in Users : Carried(u, rights.through + 1)}'
             = {u \in Users : Carried(u, rights'.through + 1)}
BY SameRights

\* A step within a month
LEMMA SameMonth ==
    ASSUME Inv, pc \in Loop, pc' \in Loop, SameInputs, month' = month, out' = out,
           rights' = [through |-> rights'.through, users |-> rights'.users],
           rights'.through \in 0..month,
           rights'.users = {u \in Users : Carried(u, rights'.through + 1)},
           pc' = "advance" => rights'.through < month, pc' # "month",
           frame' # NoFrame => month \in OutputMonths /\ frame' = CleanMonth(month),
           pc' \in {"store", "stored", "part"} => frame' # NoFrame
    PROVE  RightsInv' /\ OutputInv'
<1>1. /\ snap' = snap /\ OutputMonths' = OutputMonths /\ Timeline' = Timeline
      /\ (gen[snap])' = gen[snap] /\ CleanMonth(month)' = CleanMonth(month)
  BY SameMonths, SameClean, SameSources
<1>2. /\ pc' \notin Ending /\ pc' \notin Indexing /\ pc' # "compute" /\ pc' # "merge" /\ pc' # "record"
      /\ pc' \in Computing
  BY DEF Computing, Ending, Indexing, Loop
<1>3. /\ gen[snap] # Absent /\ month \in Timeline /\ month \in Nat
      /\ out = [snap |-> out.snap, parts |-> out.parts, final |-> out.final,
                receipt |-> out.receipt]
      /\ DOMAIN out.parts = {n \in OutputMonths : n < month} /\ Exact(out.parts)
      /\ DOMAIN out.final \subseteq 1..snap /\ out.receipt = Absent
      /\ DOMAIN out.parts \cup DOMAIN out.final \subseteq 1..snap
  BY Loops DEF Inv, OutputInv
<1>4. RightsInv'
  BY <1>1, <1>2, <1>3, CarriedSame DEF RightsInv
<1>5. Exact(out.parts)'
  BY <1>3, SameExact
<1>6. OutputInv'
  BY <1>1, <1>2, <1>3, <1>5 DEF OutputInv
<1>7. QED
  BY <1>4, <1>6

\* The month is done.
LEMMA NextMonthKeeps ==
    ASSUME Inv, pc \in Loop, NextMonth, SameInputs,
           rights' = [through |-> rights'.through, users |-> rights'.users],
           rights'.through \in 0..month,
           rights'.users = {u \in Users : Carried(u, rights'.through + 1)},
           out' = [snap |-> out'.snap, parts |-> out'.parts, final |-> out'.final,
                   receipt |-> out'.receipt],
           out'.final = out.final, out'.receipt = out.receipt,
           DOMAIN out'.parts = {n \in OutputMonths : n <= month}, Exact(out'.parts)
    PROVE  RightsInv' /\ OutputInv' /\ pc' \in Loop \cup Ending
<1>1. /\ snap' = snap /\ OutputMonths' = OutputMonths /\ Timeline' = Timeline
      /\ (gen[snap])' = gen[snap]
  BY SameMonths, SameSources
<1>2. /\ Inputs /\ gen[snap] # Absent /\ month \in Timeline /\ month \in Nat
      /\ DOMAIN out.final \subseteq 1..snap /\ out.receipt = Absent
  BY Loops
<1>3. /\ OutputMonths \in SUBSET (1..snap) /\ OutputMonths \subseteq Timeline
      /\ Timeline \in SUBSET Nat
  BY <1>2, MonthFacts
<1>4. frame' = NoFrame /\ Exact(out.parts)'
  BY SameExact DEF NextMonth
<1>5. DOMAIN out'.parts \cup DOMAIN out'.final \subseteq 1..snap
  BY <1>2, <1>3
<1>6. CASE Later(month) = {}
  <2>1. month' = month /\ pc' = "merge"
    BY <1>6 DEF NextMonth, Goto
  <2>2. pc' \in Ending /\ pc' \notin Loop /\ pc' \notin Indexing
    BY <2>1 DEF Loop, Ending, Indexing
  <2>3. DOMAIN out'.parts = OutputMonths
    BY <1>2, <1>3, <1>6 DEF Later
  <2>4. RightsInv'
    BY <1>2, <2>1, <2>2 DEF RightsInv
  <2>5. OutputInv'
    BY <1>1, <1>2, <1>4, <1>5, <2>1, <2>2, <2>3 DEF OutputInv
  <2>6. QED
    BY <2>2, <2>4, <2>5
<1>7. CASE Later(month) # {}
  <2>1. month' = Min(Later(month)) /\ pc' = "month"
    BY <1>7 DEF NextMonth, Goto
  <2>2. Later(month) \in SUBSET Nat /\ Later(month) = {n \in Timeline : n > month}
    BY <1>3 DEF Later
  <2>3. PICK t : t = Min(Later(month))
    OBVIOUS
  <2>4. t \in Later(month) /\ \A k \in Later(month) : t <= k
    BY <1>7, <2>2, <2>3, MinIn
  <2>5. month' = t /\ t \in Timeline /\ t \in Nat /\ t > month
    BY <2>1, <2>2, <2>3, <2>4
  <2>6. {n \in OutputMonths : n <= month} = {n \in OutputMonths : n < t}
    <3>1. ASSUME NEW n \in OutputMonths PROVE n <= month <=> n < t
      <4>1. n \in Nat /\ n \in Timeline
        BY <1>3
      <4>2. n > month => t <= n
        BY <2>2, <2>4, <4>1
      <4>3. QED
        BY <1>2, <2>5, <4>1, <4>2
    <3>2. QED
      BY <3>1
  <2>7. /\ pc' \in Loop /\ pc' \notin Indexing /\ pc' \notin Ending
    BY <2>1 DEF Loop, Ending, Indexing
  <2>8. RightsInv'
    <3>1. rights'.through \in 0..t /\ rights'.through < t
      BY <1>2, <2>5
    <3>2. QED
      BY <1>1, <2>1, <2>5, <2>7, <3>1, CarriedSame DEF RightsInv
  <2>9. OutputInv'
    BY <1>1, <1>2, <1>4, <1>5, <2>1, <2>5, <2>6, <2>7 DEF OutputInv
  <2>10. QED
    BY <2>7, <2>8, <2>9
<1>8. QED
  BY <1>6, <1>7

\* restore_rights_checkpoint gives the rights of a computation from nothing.
LEMMA RestoredRights ==
    ASSUME Inputs, \A c \in chk : CheckpointOK(c), month \in Nat
    PROVE  /\ Restored = [through |-> Restored.through, users |-> Restored.users]
           /\ Restored.through \in 0..month /\ (Restored.through < month \/ Restored.through = 0)
           /\ Restored.users = {u \in Users : Carried(u, Restored.through + 1)}
<1> DEFINE ends == {n \in YearEnds \cap Timeline : n < month /\ Checkpoints(n) # {}}
<1>1. Restored = IF ends = {} THEN [through |-> 0, users |-> {}]
                 ELSE [through |-> Max(ends),
                       users |-> (CHOOSE c \in Checkpoints(Max(ends)) : TRUE).users]
  BY DEF Restored
<1>2. ends \in SUBSET Nat /\ ends \subseteq Months /\ \A k \in ends : k <= month
  BY MonthFacts
<1>3. \A k \in ends : k < month /\ Checkpoints(k) # {}
  OBVIOUS
<1> HIDE DEF ends
<1>4. CASE ends = {}
  <2>1. Restored = [through |-> 0, users |-> {}]
    BY <1>1, <1>4
  <2>2. Restored.through = 0 /\ Restored.users = {} /\ 0 \in 0..month
    BY <2>1
  <2>3. {u \in Users : Carried(u, 0 + 1)} = {}
    BY Beginning
  <2>4. QED
    BY <2>1, <2>2, <2>3
<1>5. CASE ends # {}
  <2>1. PICK n : n = Max(ends)
    OBVIOUS
  <2>2. n \in ends
    BY <1>2, <1>5, <2>1, MaxIn
  <2>3. n \in Months /\ n \in Nat /\ n < month /\ Checkpoints(n) # {}
    BY <1>2, <1>3, <2>2
  <2>4. PICK c : c = CHOOSE d \in Checkpoints(n) : TRUE
    OBVIOUS
  <2>5. c \in Checkpoints(n)
    BY <2>3, <2>4
  <2>6. c \in chk
    BY <2>5 DEF Checkpoints
  <2>7. c.users = {u \in Users : Carried(u, n + 1)}
    BY <2>3, <2>5, <2>6, CheckpointUsers
  <2>8. Restored = [through |-> n, users |-> c.users]
    BY <1>1, <1>5, <2>1, <2>4
  <2>9. n \in 0..month
    BY <2>3
  <2>10. QED
    BY <2>3, <2>7, <2>8, <2>9
<1>6. QED
  BY <1>4, <1>5

LEMMA BeginKeeps ==
    ASSUME Inv, Begin
    PROVE  Inv'
<1>1. /\ UpstreamInv /\ SourceInv /\ ProcessInv /\ CacheInv
      /\ IndexInv /\ RightsInv /\ OutputInv
  BY DEF Inv
<1>2. /\ pc = "month" /\ pc \in Loop /\ pc \in Loop \cup Ending
      /\ UNCHANGED <<upstream, sources, cache, out, load, idx, todo, faults>>
  BY DEF Begin, Loop
<1>3. SameInputs /\ out' = out /\ ev' = ev
  BY <1>2, ComputeSame DEF cache
<1>4. /\ Inputs /\ Indexed /\ month \in Months /\ month \in Nat
      /\ rights = [through |-> rights.through, users |-> rights.users]
      /\ rights.through \in 0..month
      /\ rights.users = {u \in Users : Carried(u, rights.through + 1)}
      /\ out = [snap |-> out.snap, parts |-> out.parts, final |-> out.final,
                receipt |-> out.receipt]
      /\ DOMAIN out.parts = {n \in OutputMonths : n < month} /\ Exact(out.parts)
  BY <1>2, Loops
<1>5. rights.through < month /\ frame = NoFrame
  BY <1>1, <1>2 DEF RightsInv, OutputInv
<1>6. CacheInv' /\ UpstreamInv' /\ SourceInv'
  BY <1>1, <1>2, CacheKept, UpstreamKept, SourceKept
<1>7. ASSUME RightsInv', OutputInv', pc' \in Loop \cup Ending PROVE Inv'
  BY <1>2, <1>3, <1>6, <1>7, Within DEF Inv
<1>8. CASE /\ month \in OutputMonths /\ Cached(month) # {}
           /\ frame' = (CHOOSE f \in Cached(month) : TRUE).frame
           /\ pc' = (IF rights.through = 0 THEN "part" ELSE "advance")
           /\ UNCHANGED <<rights, month>>
  <2>1. PICK f : f = CHOOSE g \in Cached(month) : TRUE
    OBVIOUS
  <2>2. f \in frames /\ f.key = MonthKey(month)
    BY <1>8, <2>1 DEF Cached
  <2>3. frame' = CleanMonth(month) /\ frame' # NoFrame
    BY <1>1, <1>4, <1>8, <2>1, <2>2, FrameOfKey, FrameNotAbsent DEF CacheInv, FrameOK
  <2>4. pc' \in Loop /\ pc' # "month"
    BY <1>8 DEF Loop
  <2>5. RightsInv' /\ OutputInv'
    BY <1>2, <1>3, <1>4, <1>5, <1>8, <2>3, <2>4, SameMonth
  <2>6. QED
    BY <1>7, <2>4, <2>5
<1>9. CASE /\ month \in OutputMonths
           /\ rights' = IF rights.through = 0 THEN Restored ELSE rights
           /\ pc' = "advance" /\ UNCHANGED <<frame, month>>
  <2>1. /\ Restored = [through |-> Restored.through, users |-> Restored.users]
        /\ Restored.through \in 0..month /\ (Restored.through < month \/ Restored.through = 0)
        /\ Restored.users = {u \in Users : Carried(u, Restored.through + 1)}
    BY <1>1, <1>4, RestoredRights DEF CacheInv
  <2>2. Restored.through < month /\ Restored.through \in 0..month
    BY <1>4, <1>5, <2>1
  <2>3. /\ rights' = [through |-> rights'.through, users |-> rights'.users]
        /\ rights'.through \in 0..month /\ rights'.through < month
        /\ rights'.users = {u \in Users : Carried(u, rights'.through + 1)}
    <3>1. CASE rights' = Restored
      BY <2>1, <2>2, <3>1
    <3>2. CASE rights' = rights
      BY <1>4, <1>5, <3>2
    <3>3. QED
      BY <1>9, <3>1, <3>2
  <2>4. pc' \in Loop /\ pc' # "month" /\ frame' = NoFrame
    BY <1>5, <1>9 DEF Loop
  <2>5. RightsInv' /\ OutputInv'
    BY <1>2, <1>3, <1>9, <2>3, <2>4, SameMonth
  <2>6. QED
    BY <1>7, <2>4, <2>5
<1>10. CASE month \notin OutputMonths /\ NextMonth /\ rights' = rights
  <2>1. DOMAIN out'.parts = {n \in OutputMonths : n <= month}
    <3>1. \A n \in OutputMonths : n \in Nat /\ n # month
      BY <1>4, <1>10, MonthFacts
    <3>2. QED
      BY <1>3, <1>4, <3>1
  <2>2. RightsInv' /\ OutputInv' /\ pc' \in Loop \cup Ending
    BY <1>2, <1>3, <1>4, <1>10, <2>1, NextMonthKeeps
  <2>3. QED
    BY <1>7, <2>2
<1>11. CASE pc' = "advance" /\ UNCHANGED <<rights, frame, month>>
  <2>1. pc' \in Loop /\ pc' # "month" /\ frame' = NoFrame
    BY <1>5, <1>11 DEF Loop
  <2>2. RightsInv' /\ OutputInv'
    BY <1>2, <1>3, <1>4, <1>5, <1>11, <2>1, SameMonth
  <2>3. QED
    BY <1>7, <2>1, <2>2
<1>12. QED
  BY <1>8, <1>9, <1>10, <1>11 DEF Begin, Goto

\* advance_state_through: no checkpoint contradicts it.
LEMMA AdvanceKeeps ==
    ASSUME Inv, Advance
    PROVE  Inv'
<1>1. /\ UpstreamInv /\ SourceInv /\ ProcessInv /\ CacheInv
      /\ IndexInv /\ RightsInv /\ OutputInv
  BY DEF Inv
<1>2. /\ pc = "advance" /\ pc \in Loop /\ pc \in Loop \cup Ending
      /\ UNCHANGED <<upstream, sources, ptr, ev, frames, out, load, idx, todo, faults>>
  BY DEF Advance, Loop
<1>3. SameInputs /\ out' = out
  BY <1>2, ComputeSame
<1>4. /\ Inputs /\ Indexed /\ \A e \in ev : EventsOK(e)
      /\ month \in Timeline /\ month \in Months /\ month \in Nat
      /\ rights.through \in Nat
      /\ rights.users = {u \in Users : Carried(u, rights.through + 1)}
      /\ out = [snap |-> out.snap, parts |-> out.parts, final |-> out.final,
                receipt |-> out.receipt]
      /\ DOMAIN out.parts = {n \in OutputMonths : n < month} /\ Exact(out.parts)
      /\ frame # NoFrame => month \in OutputMonths /\ frame = CleanMonth(month)
  BY <1>2, Loops
<1>5. rights.through < month
  BY <1>1, <1>2 DEF RightsInv
<1>6. PICK n : n = Min({k \in Timeline : k > rights.through})
  OBVIOUS
<1>7. Timeline \in SUBSET Nat /\ Timeline \in SUBSET Months
  BY <1>4, MonthFacts
<1>8. /\ n \in Timeline /\ n \in Nat /\ n \in Months /\ rights.through < n
      /\ \A k \in Timeline : k > rights.through => n <= k
  <2> DEFINE S == {k \in Timeline : k > rights.through}
  <2>1. S \in SUBSET Nat /\ month \in S
    BY <1>4, <1>5, <1>7
  <2>2. n \in S /\ \A k \in S : n <= k
    <3> HIDE DEF S
    <3>1. S # {}
      BY <2>1
    <3>2. n = Min(S)
      BY <1>6 DEF S
    <3>3. QED
      BY <2>1, <3>1, <3>2, MinIn
  <2>3. QED
    BY <1>7, <2>2
<1>9. n <= month
  BY <1>4, <1>5, <1>8
<1>10. rights.users = {u \in Users : Carried(u, n)}
  BY <1>4, <1>8, CarriedTimeline
<1>11. PICK users : users = Holders(logs[n].rights, groups, rights.users)
  OBVIOUS
<1>12. users = {u \in Users : Carried(u, n + 1)}
  BY <1>4, <1>8, <1>10, <1>11, HoldersNext
<1>13. ~Contradicted(n, users)
  <2>1. ASSUME NEW c \in Checkpoints(n) PROVE c.users = users
    <3>1. CheckpointOK(c)
      BY <1>1 DEF CacheInv, Checkpoints
    <3>2. QED
      BY <1>8, <1>12, <3>1, CheckpointUsers
  <2>2. QED
    BY <2>1 DEF Contradicted
<1>14. /\ chk' = IF n \in YearEnds
                 THEN chk \cup {[key |-> CheckpointKey(n), users |-> users]} ELSE chk
       /\ rights' = [through |-> n, users |-> users]
       /\ \/ n # month /\ UNCHANGED <<pc, month, frame>>
          \/ n = month /\ month \notin OutputMonths /\ NextMonth
          \/ frame # NoFrame /\ pc' = "part" /\ UNCHANGED <<month, frame>>
          \/ /\ n = month /\ month \in OutputMonths /\ frame' = MonthFrame(month, rights.users)
             /\ pc' = "store" /\ month' = month
  BY <1>6, <1>11, <1>13 DEF Advance, Goto
<1>15. CacheInv'
  <2>1. CheckpointOK([key |-> CheckpointKey(n), users |-> users])
    BY <1>8, <1>12, CheckpointWritten
  <2>2. \A c \in chk' : CheckpointOK(c)
    BY <1>1, <1>14, <2>1 DEF CacheInv
  <2>3. QED
    BY <1>1, <1>2, <2>2 DEF CacheInv
<1>16. /\ rights' = [through |-> rights'.through, users |-> rights'.users] /\ rights'.through = n
       /\ rights'.through \in 0..month
       /\ rights'.users = {u \in Users : Carried(u, rights'.through + 1)}
  BY <1>4, <1>8, <1>9, <1>12, <1>14
<1>17. ASSUME RightsInv', OutputInv', pc' \in Loop \cup Ending PROVE Inv'
  BY <1>2, <1>3, <1>15, <1>17, Within DEF Inv
<1>18. CASE n # month /\ UNCHANGED <<pc, month, frame>>
  <2>1. n < month
    BY <1>4, <1>8, <1>9, <1>18
  <2>2. RightsInv' /\ OutputInv'
    BY <1>2, <1>3, <1>4, <1>16, <1>18, <2>1, SameMonth
  <2>3. QED
    BY <1>2, <1>17, <1>18, <2>2
<1>19. CASE month \notin OutputMonths /\ NextMonth
  <2>1. DOMAIN out'.parts = {k \in OutputMonths : k <= month}
    <3>1. \A k \in OutputMonths : k \in Nat /\ k # month
      BY <1>4, <1>19, MonthFacts
    <3>2. QED
      BY <1>3, <1>4, <3>1
  <2>2. RightsInv' /\ OutputInv' /\ pc' \in Loop \cup Ending
    BY <1>2, <1>3, <1>4, <1>16, <1>19, <2>1, NextMonthKeeps
  <2>3. QED
    BY <1>17, <2>2
<1>20. CASE frame # NoFrame /\ pc' = "part" /\ UNCHANGED <<month, frame>>
  <2>1. pc' \in Loop /\ pc' # "month" /\ pc' # "advance"
    BY <1>20 DEF Loop
  <2>2. RightsInv' /\ OutputInv'
    BY <1>2, <1>3, <1>4, <1>16, <1>20, <2>1, SameMonth
  <2>3. QED
    BY <1>17, <2>1, <2>2
<1>21. CASE /\ n = month /\ month \in OutputMonths /\ frame' = MonthFrame(month, rights.users)
            /\ pc' = "store" /\ month' = month
  <2>1. frame' = CleanMonth(month) /\ frame' # NoFrame
    BY <1>4, <1>10, <1>21, ComputedFrame, FrameNotAbsent
  <2>2. pc' \in Loop /\ pc' # "month" /\ pc' # "advance"
    BY <1>21 DEF Loop
  <2>3. RightsInv' /\ OutputInv'
    BY <1>2, <1>3, <1>4, <1>16, <1>21, <2>1, <2>2, SameMonth
  <2>4. QED
    BY <1>17, <2>2, <2>3
<1>22. QED
  BY <1>14, <1>18, <1>19, <1>20, <1>21

\* A step that writes a metric month into the cache
LEMMA FramesKeep ==
    ASSUME Inv, pc \in {"store", "stored"}, pc' \in {"stored", "part"},
           UNCHANGED <<upstream, sources, ptr, ev, chk, out, memory, faults>>,
           \A f \in frames' : FrameOK(f)
    PROVE  Inv'
<1>1. /\ UpstreamInv /\ SourceInv /\ ProcessInv /\ CacheInv
      /\ IndexInv /\ RightsInv /\ OutputInv
  BY DEF Inv
<1>2. /\ pc \in Loop /\ pc' \in Loop /\ pc \in Loop \cup Ending /\ pc' \in Loop \cup Ending
      /\ pc' # "month" /\ pc' # "advance"
  BY DEF Loop
<1>3. /\ load' = load /\ idx' = idx /\ todo' = todo /\ month' = month /\ rights' = rights
      /\ frame' = frame /\ out' = out /\ SameInputs
  BY ComputeSame DEF memory
<1>4. /\ rights = [through |-> rights.through, users |-> rights.users]
      /\ rights.through \in 0..month
      /\ rights.users = {u \in Users : Carried(u, rights.through + 1)}
      /\ frame # NoFrame => month \in OutputMonths /\ frame = CleanMonth(month)
  BY <1>2, Loops
<1>5. frame # NoFrame
  BY <1>1 DEF OutputInv
<1>6. RightsInv' /\ OutputInv'
  BY <1>2, <1>3, <1>4, <1>5, SameMonth
<1>7. CacheInv'
  BY <1>1 DEF CacheInv
<1>8. QED
  BY <1>2, <1>3, <1>6, <1>7, Within DEF Inv

LEMMA StoreKeeps ==
    ASSUME Inv, Store
    PROVE  Inv'
<1>1. /\ pc = "store" /\ pc' = "stored"
      /\ UNCHANGED <<upstream, sources, ptr, ev, chk, out, memory, faults>>
  BY DEF Store, Goto
<1>2. PICK new : new = [key |-> MonthKey(month), frame |-> frame, receipt |-> FALSE]
  OBVIOUS
<1>3. frames' = {f \in frames : f.key # MonthKey(month)} \cup {new}
  BY <1>2 DEF Store
<1>4. frame = CleanMonth(month)
  BY <1>1 DEF Inv, OutputInv
<1>5. pc \in Loop
  BY <1>1 DEF Loop
<1>6. frame = FrameOf(MonthKey(month))
  BY <1>4, <1>5, Loops, FrameOfKey
<1>7. FrameOK(new)
  BY <1>2, <1>6 DEF FrameOK
<1>8. \A f \in frames' : FrameOK(f)
  BY <1>3, <1>7 DEF Inv, CacheInv
<1>9. QED
  BY <1>1, <1>8, FramesKeep

LEMMA StoreReceiptKeeps ==
    ASSUME Inv, StoreReceipt
    PROVE  Inv'
<1>1. /\ pc = "stored" /\ pc' = "part"
      /\ UNCHANGED <<upstream, sources, ptr, ev, chk, out, memory, faults>>
  BY DEF StoreReceipt, Goto
<1>2. PICK key : key = MonthKey(month)
  OBVIOUS
<1>3. frames' = {[f EXCEPT !.receipt = @ \/ f.key = key] : f \in frames}
  BY <1>2 DEF StoreReceipt
<1>4. \A f \in frames : FrameOK(f)
  BY DEF Inv, CacheInv
<1>5. \A f \in frames' : FrameOK(f)
  BY <1>3, <1>4 DEF FrameOK
<1>6. QED
  BY <1>1, <1>5, FramesKeep

LEMMA StoreFailsKeeps ==
    ASSUME Inv, StoreFails
    PROVE  Inv'
<1>1. /\ UpstreamInv /\ SourceInv /\ ProcessInv /\ CacheInv
      /\ IndexInv /\ RightsInv /\ OutputInv
  BY DEF Inv
<1>2. End /\ faults' = faults + 1 /\ faults < MaxFaults /\ UNCHANGED <<upstream, sources, ptr, chk, out>>
  BY DEF StoreFails
<1>3. ev' \subseteq ev /\ frames' \subseteq frames
  BY DEF StoreFails
<1>4. CacheInv'
  BY <1>1, <1>2, <1>3 DEF CacheInv
<1>5. faults' \in 0..MaxFaults
  BY <1>1, <1>2, Constants DEF ProcessInv
<1>6. SameInputs /\ gen'[snap'] = gen[snap] /\ out' = out
  BY <1>2, ComputeSame
<1>7. IndexInv' /\ RightsInv' /\ frame' = NoFrame /\ pc' \notin Computing \ {"compute"}
  BY <1>2, Ended
<1>8. OutputInv'
  BY <1>1, <1>6, <1>7, OutputKept
<1>9. ProcessInv'
  BY <1>1, <1>2, <1>5, <1>6, EndedProcess
<1>10. QED
  BY <1>1, <1>2, <1>4, <1>7, <1>8, <1>9, UpstreamKept, SourceKept DEF Inv

LEMMA WritePartKeeps ==
    ASSUME Inv, WritePart
    PROVE  Inv'
<1>1. /\ pc = "part" /\ pc \in Loop /\ pc \in Loop \cup Ending /\ NextMonth
      /\ out' = [out EXCEPT !.parts = Put(month, frame, @)]
      /\ UNCHANGED <<upstream, sources, cache, load, idx, todo, rights, faults>>
  BY DEF WritePart, Loop
<1>2. /\ month \in Nat /\ month \in OutputMonths /\ frame = CleanMonth(month) /\ Inputs
      /\ rights = [through |-> rights.through, users |-> rights.users]
      /\ rights.through \in 0..month
      /\ rights.users = {u \in Users : Carried(u, rights.through + 1)}
      /\ out = [snap |-> out.snap, parts |-> out.parts, final |-> out.final,
                receipt |-> out.receipt]
      /\ DOMAIN out.parts = {n \in OutputMonths : n < month} /\ Exact(out.parts)
  <2>1. frame # NoFrame
    BY <1>1 DEF Inv, OutputInv
  <2>2. QED
    BY <1>1, <2>1, Loops
<1>3. /\ out' = [snap |-> out'.snap, parts |-> out'.parts, final |-> out'.final,
                 receipt |-> out'.receipt]
      /\ out'.snap = out.snap /\ out'.final = out.final /\ out'.receipt = out.receipt
      /\ out'.parts = Put(month, frame, out.parts)
  BY <1>1, <1>2
<1>4. PICK parts : parts = out.parts
  OBVIOUS
<1>5. /\ DOMAIN out'.parts = DOMAIN parts \cup {month}
      /\ \A n \in DOMAIN parts : n # month => out'.parts[n] = parts[n]
      /\ out'.parts[month] = frame
  <2>1. out'.parts = Put(month, frame, parts)
    BY <1>3, <1>4
  <2>2. QED
    BY <2>1 DEF Put, Over
<1>6. DOMAIN out'.parts = {n \in OutputMonths : n <= month}
  <2>1. \A n \in OutputMonths : n \in Nat
    BY <1>2, MonthFacts
  <2>2. QED
    BY <1>2, <1>4, <1>5, <2>1
<1>7. Exact(out'.parts)
  BY <1>2, <1>4, <1>5 DEF Exact
<1>8. SameInputs /\ ev' = ev
  BY <1>1, <1>3, ComputeSame DEF cache
<1>9. RightsInv' /\ OutputInv' /\ pc' \in Loop \cup Ending
  BY <1>1, <1>2, <1>3, <1>6, <1>7, <1>8, NextMonthKeeps
<1>10. CacheInv'
  BY <1>1, CacheKept DEF Inv
<1>11. QED
  BY <1>1, <1>3, <1>8, <1>9, <1>10, Within DEF Inv

LEMMA MergePartsKeeps ==
    ASSUME Inv, MergeParts
    PROVE  Inv'
<1>1. /\ UpstreamInv /\ SourceInv /\ ProcessInv /\ CacheInv
      /\ IndexInv /\ RightsInv /\ OutputInv
  BY DEF Inv
<1>2. /\ pc = "merge" /\ pc' = "record" /\ out' = [out EXCEPT !.final = out.parts]
      /\ UNCHANGED <<upstream, sources, cache, memory, faults>>
  BY DEF MergeParts, Goto
<1>3. /\ pc \in Ending /\ pc' \in Ending /\ pc \notin Loop /\ pc' \notin Loop /\ pc' \notin Indexing
      /\ pc \in Computing \ {"compute"} /\ pc' # "compute"
      /\ pc \in Loop \cup Ending /\ pc' \in Loop \cup Ending
  BY <1>2 DEF Ending, Loop, Indexing, Computing
<1>4. /\ out' = [snap |-> out'.snap, parts |-> out'.parts, final |-> out'.final,
                 receipt |-> out'.receipt]
      /\ out'.snap = out.snap /\ out'.final = out.parts /\ out'.receipt = out.receipt
      /\ out'.parts = out.parts
  BY <1>1, <1>2 DEF OutputInv
<1>5. /\ load' = load /\ idx' = idx /\ todo' = todo /\ month' = month /\ rights' = rights
      /\ frame' = frame /\ ev' = ev
  BY <1>2 DEF memory, cache
<1>6. SameInputs
  BY <1>2, <1>4, ComputeSame
<1>7. /\ snap' = snap /\ OutputMonths' = OutputMonths /\ (gen[snap])' = gen[snap]
  BY <1>6, SameMonths, SameSources
<1>8. /\ DOMAIN out.parts = OutputMonths /\ Exact(out.parts) /\ frame = NoFrame
      /\ out.receipt = Absent /\ DOMAIN out.parts \subseteq 1..snap /\ gen[snap] # Absent
  <2>1. pc \in {"pointer"} \cup Computing
    BY <1>3
  <2>2. QED
    BY <1>1, <1>2, <1>3, <2>1 DEF OutputInv, ProcessInv
<1>9. (Exact(out.parts))' /\ (Exact(out.final))'
  BY <1>4, <1>6, <1>8, SameExact
<1>10. RightsInv'
  BY <1>1, <1>2, <1>3, <1>5 DEF RightsInv
<1>11. OutputInv'
  BY <1>2, <1>3, <1>4, <1>5, <1>7, <1>8, <1>9 DEF OutputInv
<1>12. CacheInv'
  BY <1>1, <1>2, CacheKept
<1>13. QED
  BY <1>2, <1>3, <1>4, <1>5, <1>10, <1>11, <1>12, Within DEF Inv

LEMMA RecordKeeps ==
    ASSUME Inv, Record
    PROVE  Inv'
<1>1. /\ UpstreamInv /\ SourceInv /\ ProcessInv /\ CacheInv
      /\ IndexInv /\ RightsInv /\ OutputInv
  BY DEF Inv
<1>2. /\ pc = "record" /\ out' = [out EXCEPT !.receipt = StageReceipt] /\ End
      /\ UNCHANGED <<upstream, sources, cache, faults>>
  BY DEF Record
<1>3. PICK receipt : receipt = StageReceipt
  OBVIOUS
<1>4. /\ out' = [snap |-> out'.snap, parts |-> out'.parts, final |-> out'.final,
                 receipt |-> out'.receipt]
      /\ out'.snap = out.snap /\ out'.final = out.final /\ out'.receipt = StageReceipt
      /\ out'.parts = out.parts
  BY <1>1, <1>2, <1>3 DEF OutputInv
<1>5. pc \in {"pointer"} \cup Computing
  BY <1>2 DEF Computing, Ending
<1>6. SameInputs /\ StageReceipt' = StageReceipt
  BY <1>2, <1>4, ComputeSame, SameReceipt
<1>7. /\ snap' = snap /\ OutputMonths' = OutputMonths /\ (gen[snap])' = gen[snap]
  BY <1>6, SameMonths, SameSources
<1>8. IndexInv' /\ RightsInv' /\ frame' = NoFrame /\ pc' = "idle"
  BY <1>2, Ended
<1>9. /\ DOMAIN out.final = OutputMonths /\ Exact(out.final) /\ Exact(out.parts)
      /\ gen[snap] # Absent /\ DOMAIN out.parts \cup DOMAIN out.final \subseteq 1..snap
  BY <1>1, <1>2, <1>5 DEF OutputInv, ProcessInv
<1>10. (Exact(out.parts))' /\ (Exact(out.final))'
  BY <1>4, <1>6, <1>9, SameExact
<1>11. OutputInv'
  <2>1. pc' \notin Loop /\ pc' \notin Indexing /\ pc' \notin Computing
    BY <1>8 DEF Loop, Indexing, Ending, Computing
  <2>2. QED
    BY <1>4, <1>6, <1>7, <1>8, <1>9, <1>10, <2>1 DEF OutputInv
<1>12. ProcessInv'
  BY <1>1, <1>2, <1>4, EndedProcess DEF ProcessInv
<1>13. QED
  BY <1>1, <1>2, <1>8, <1>11, <1>12, UpstreamKept, SourceKept, CacheKept DEF Inv

-----------------------------------------------------------------------------
(* The theorems.                                                           *)

LEMMA InitInv ==
    ASSUME Init
    PROVE  Inv
<1>1. FirstSnap \in Snaps /\ FirstSnap - 1 \in Nat /\ \A s \in Snaps : ~(s <= FirstSnap - 1)
  BY Constants DEF Snaps
<1>2. world \in Pasts
  BY PatrolAssumption DEF Init, PatrolAssumption
<1>3. Released = {}
  BY <1>1 DEF Init, Released
<1>4. UpstreamInv
  BY <1>1, <1>2, <1>3, Constants DEF Init, UpstreamInv
<1>5. SourceInv
  BY <1>1, <1>3 DEF Init, SourceInv
<1>6. /\ pc = "idle" /\ pc \notin Computing /\ pc \notin Loop /\ pc \notin Ending
      /\ pc \notin Indexing /\ pc \notin Fetching
  BY DEF Init, Computing, Loop, Ending, Indexing, Fetching
<1>7. ProcessInv
  BY <1>1, <1>6, Constants DEF Init, ProcessInv, NoLoad, NoOutput, Fetching
<1>8. CacheInv
  BY DEF Init, CacheInv
<1>9. IndexInv
  <2>1. DOMAIN idx = {} /\ idx = [a \in DOMAIN idx |-> idx[a]]
    BY DEF Init
  <2>2. QED
    BY <1>6, <2>1 DEF IndexInv
<1>10. RightsInv
  BY <1>6 DEF Init, RightsInv
<1>11. OutputInv
  <2>1. out = NoOutput(FirstSnap) /\ frame = NoFrame
    BY DEF Init
  <2>2. /\ out = [snap |-> out.snap, parts |-> out.parts, final |-> out.final,
                  receipt |-> out.receipt]
        /\ DOMAIN out.parts = {} /\ DOMAIN out.final = {} /\ out.receipt = Absent
    BY <2>1 DEF NoOutput
  <2>3. QED
    BY <1>6, <2>1, <2>2 DEF OutputInv, Exact
<1>12. QED
  BY <1>4, <1>5, <1>7, <1>8, <1>9, <1>10, <1>11 DEF Inv

LEMMA NextInv ==
    ASSUME Inv, [Next]_vars
    PROVE  Inv'
<1>1. CASE UNCHANGED vars
  <2>1. UNCHANGED <<upstream, sources, cache, out, pc, memory, faults>>
    BY <1>1 DEF vars
  <2>2. SameInputs
    BY <2>1, ComputeSame
  <2>3. UpstreamInv' /\ SourceInv' /\ CacheInv' /\ IndexInv' /\ RightsInv' /\ OutputInv'
    BY <2>1, <2>2, WorkKept, UpstreamKept, SourceKept DEF Inv
  <2>4. ProcessInv'
    <3>1. load' = load /\ newest' = newest /\ gen' = gen /\ plan' = plan /\ meta' = meta
      BY <2>1 DEF memory, upstream, sources
    <3>2. QED
      BY <2>1, <3>1 DEF Inv, ProcessInv, snap
  <2>5. QED
    BY <2>3, <2>4 DEF Inv
<1>2. CASE Work
  BY <1>2, StartKeeps, PreflightKeeps, GroupsKeeps, FetchKeeps, DownloadKeeps, ChangedKeeps,
     CommitKeeps, PublishPointerKeeps, ComputeKeeps, IndexEventsKeeps, IndexReceiptKeeps,
     IndexPointerKeeps, BeginKeeps, AdvanceKeeps, StoreKeeps, StoreReceiptKeeps, WritePartKeeps,
     MergePartsKeeps, RecordKeeps DEF Work
<1>3. CASE Release \/ Republish \/ DumpDone \/ Kill \/ StoreFails
  BY <1>3, ReleaseKeeps, RepublishKeeps, DumpDoneKeeps, KillKeeps, StoreFailsKeeps
<1>4. QED
  BY <1>1, <1>2, <1>3 DEF Next

\* The inductive invariant: every artifact of the cache is the function of its key that
\* a computation from nothing would give, and what a computation has in memory or in
\* the candidate directory is exact.
THEOREM Invariance == Spec => []Inv
<1>1. Init => Inv
  BY InitInv
<1>2. Inv /\ [Next]_vars => Inv'
  BY NextInv
<1>3. QED
  BY <1>1, <1>2, PTL DEF Spec

\* Types and structure: the process works on a released snapshot, the pointer names a
\* committed generation and the computation has one, no part is written for the month
\* that a snapshot has only begun, and the plan is there before the download.
THEOREM Typed == Spec => []TypeOK
<1>1. Inv => TypeOK
  <2> SUFFICES ASSUME Inv PROVE TypeOK
    OBVIOUS
  <2>1. /\ UpstreamInv /\ SourceInv /\ ProcessInv /\ CacheInv
        /\ IndexInv /\ RightsInv /\ OutputInv
    BY DEF Inv
  <2>2. world \in Pasts /\ newest \in Snaps \cup {FirstSnap - 1} /\ edits \in 0..MaxEdits
    BY <2>1 DEF UpstreamInv
  <2>3. \A s \in Snaps : gen[s] # Absent => s <= newest /\ DOMAIN gen[s].logs = Months
    BY <2>1 DEF SourceInv, UpstreamInv, Released, Logs
  <2>4. pointer \in {0} \cup {s \in Snaps : gen[s] # Absent}
    BY <2>1 DEF SourceInv
  <2>5. meta.snap \in {0} \cup FirstSnap..newest
    <3>1. \A s \in Released : s \in FirstSnap..newest
      BY <2>1, Released1, Constants DEF Snaps, Released
    <3>2. QED
      BY <2>1, <3>1 DEF SourceInv
  <2>6. pc \in {"idle", "refused", "preflight", "groups", "fetch", "build", "pointer", "compute",
                "index", "events", "source", "month", "advance", "store", "stored", "part",
                "merge", "record"}
    BY <2>1 DEF ProcessInv, Fetching, Computing, Indexing, Loop, Ending
  <2>7. /\ pc # "idle" => snap = newest
        /\ pc = "build" => plan[snap] # Absent /\ meta.snap = snap
    BY <2>1 DEF ProcessInv, snap
  <2>8. /\ pc \in {"index", "events", "source"} => todo # {}
        /\ pc \in {"month", "advance", "store", "stored", "part"} => month \in Timeline
    BY <2>1 DEF IndexInv, RightsInv, Indexing, Loop
  <2>9. DOMAIN out.parts \cup DOMAIN out.final \subseteq 1..snap /\ rights.through \in 0..month
    BY <2>1 DEF OutputInv, RightsInv
  <2>10. faults \in 0..MaxFaults
    BY <2>1 DEF ProcessInv
  <2>11. QED
    BY <2>2, <2>3, <2>4, <2>5, <2>6, <2>7, <2>8, <2>9, <2>10 DEF TypeOK
<1>2. QED
  BY <1>1, Invariance, PTL

\* A committed generation holds the logs of one published dump, however often upstream
\* replaces an object of it while it is downloaded.
THEOREM GenerationOfOneVersion == Spec => []OneVersion
<1>1. Inv => OneVersion
  BY DEF Inv, SourceInv, OneVersion
<1>2. QED
  BY <1>1, Invariance, PTL

\* No rights checkpoint that was written for other snapshots, by killed runs or before
\* upstream reverted its past, contradicts a later computation.
THEOREM NeverRefused == Spec => []CheckpointsAgree
<1>1. Inv => CheckpointsAgree
  BY DEF Inv, ProcessInv, CheckpointsAgree, Fetching, Computing, Indexing, Loop, Ending
<1>2. QED
  BY <1>1, Invariance, PTL

\* Incremental output is the output of a computation from nothing, part by part.
THEOREM Incremental == Spec => []OutputExact
<1>1. Inv => OutputExact
  BY DEF Inv, OutputInv, Exact, OutputExact
<1>2. QED
  BY <1>1, Invariance, PTL
===============================================================================
