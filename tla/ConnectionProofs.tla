--------------------------- MODULE ConnectionProofs ---------------------------
(***************************************************************************)
(* What connects processes and machines.  First the bus inside a machine:  *)
(* what is connected to, and what the socket path names, is the server of  *)
(* a living process (`OwnerBus`).  Then the exchange between the stores of *)
(* two machines: what one is ahead in it can still export, no batch names  *)
(* a task its receiver lacks, and deletions stand (`PeerSync`).  The two   *)
(* parts share nothing but this module.                                    *)
(*                                                                         *)
(* A delivery between stores applies a batch entry by entry, so what it    *)
(* leaves is found by induction along the batch (`AlongTurn`,              *)
(* `AlongCourse`).  The prover has no rule of induction that takes a       *)
(* predicate; a set takes its place: a set of numbers has a least element  *)
(* (`Least`), hence one that holds 0 and is closed under successor holds   *)
(* them all (`Induction`), and a function defined by recursion satisfies   *)
(* its equations (`CourseStages`).                                         *)
(***************************************************************************)
EXTENDS OwnerBus, PeerSync, WellFoundedInduction, TLAPS

-----------------------------------------------------------------------------
(* The bus.                                                                *)

BusInv == TypeOK /\ OnTheBus

\* Cutting the connections of p leaves the links and peers well formed.
LEMMA CutTypes ==
    ASSUME TypeOK, NEW p \in Procs, NEW next \in {"idle", "reclaim"}, Cut(p, next)
    PROVE  /\ peer' \in [Members -> Procs \cup {NoProc}]
           /\ link' \in [Members -> {"idle", "connect", "reclaim", "bind", "retry", "timer"}]
BY DEF TypeOK, Cut, Members

\* Every step keeps the types.
LEMMA BusTypes == ASSUME TypeOK, [BusNext]_busVars PROVE TypeOK'
<1> USE OwnerBusAssumption
<1>1. ASSUME NEW m \in Members, Connect(m) PROVE TypeOK'
  BY <1>1 DEF TypeOK, Connect, Refused, Members, Lives, lock, bus
<1>2. ASSUME NEW m \in Members, Timer(m) PROVE TypeOK'
  BY <1>2 DEF TypeOK, Timer, Members, Lives, lock, bus
<1>3. ASSUME NEW p \in Procs, Reclaim(p) PROVE TypeOK'
  BY <1>3 DEF TypeOK, Reclaim, Members, Lives, lock, bus
<1>4. ASSUME NEW p \in Procs, Bind(p) PROVE TypeOK'
  BY <1>4 DEF TypeOK, Bind, Members, Lives, lock, bus
<1>5. ASSUME NEW p \in Procs, Retry(p) PROVE TypeOK'
  <2>1. peer' \in [Members -> Procs \cup {NoProc}]
    BY <1>5 DEF TypeOK, Retry, Members
  <2>2. link' \in [Members -> {"idle", "connect", "reclaim", "bind", "retry", "timer"}]
    BY <1>5 DEF TypeOK, Retry, Members
  <2>3. ready' \in [Procs -> BOOLEAN]
    BY <1>5 DEF TypeOK, Retry
  <2> QED BY <1>5, <2>1, <2>2, <2>3 DEF TypeOK, Retry, lock
<1>6. ASSUME NEW p \in Procs, Acquire(p) PROVE TypeOK'
  BY <1>6 DEF TypeOK, Acquire, Members, Lives, lock, bus
<1>7. ASSUME NEW p \in Procs, Open(p) PROVE TypeOK'
  BY <1>7 DEF TypeOK, Open, Members, Lives, lock, bus
<1>8. ASSUME NEW p \in Procs, Tick(p) PROVE TypeOK'
  <2> DEFINE Reading == [failures : Nat, pending : BOOLEAN]
  <2>1. UNCHANGED <<lock, used>>
    BY <1>8 DEF Tick
  <2>2. sentinel' \in [Procs -> Reading]
    <3> DEFINE n == IF sentinel[p].failures < FailuresBeforeReserve
                    THEN sentinel[p].failures + 1 ELSE sentinel[p].failures
    <3>1. n \in Nat /\ sentinel[p] \in Reading /\ sentinel \in [Procs -> Reading]
      BY DEF TypeOK
    <3>2. [sentinel[p] EXCEPT !.failures = IF @ < FailuresBeforeReserve THEN @ + 1 ELSE @]
            = [failures |-> n, pending |-> sentinel[p].pending]
      BY <3>1
    <3>3. \E r \in Reading : sentinel' = [sentinel EXCEPT ![p] = r]
      <4> HIDE DEF n
      <4>1. [failures |-> n, pending |-> sentinel[p].pending] \in Reading
        BY <3>1
      <4>2. [failures |-> n, pending |-> TRUE] \in Reading /\ [failures |-> 0, pending |-> FALSE] \in Reading
        BY <3>1
      <4> QED BY <1>8, <3>2, <4>1, <4>2 DEF Tick, Reset, Rested
    <3> QED BY <3>1, <3>3
  <2>3. \/ UNCHANGED <<path, bus>>
        \/ path' \in {path, Absent} /\ Stop(p) /\ Cut(p, "reclaim") /\ UNCHANGED ready
    BY <1>8 DEF Tick
  <2>4. CASE UNCHANGED <<path, bus>>
    BY <2>1, <2>2, <2>4 DEF TypeOK, lock, bus
  <2>5. CASE path' \in {path, Absent} /\ Stop(p) /\ Cut(p, "reclaim") /\ UNCHANGED ready
    BY <2>1, <2>2, <2>5, CutTypes DEF TypeOK, Stop, lock
  <2> QED BY <2>3, <2>4, <2>5
<1>9. ASSUME NEW p \in Procs, Start(p) PROVE TypeOK'
  BY <1>9 DEF TypeOK, Start, Reset, Rested, Members, Lives, lock, bus
<1>10. ASSUME NEW p \in Procs, Release(p) PROVE TypeOK'
  BY <1>10 DEF TypeOK, Release, Members, Lives, lock, bus
<1>11. ASSUME NEW p \in Procs, Disconnect(p) PROVE TypeOK'
  BY <1>11, CutTypes DEF TypeOK, Disconnect, Stop, Cut, Members, Lives, lock, bus
<1>12. ASSUME NEW p \in Procs, Leave(p) PROVE TypeOK'
  BY <1>12 DEF TypeOK, Leave, Members, Lives, lock, bus
<1>13. ASSUME NEW p \in Procs, Crash(p) PROVE TypeOK'
  BY <1>13, CutTypes DEF TypeOK, Crash, Stop, Cut, Members, Lives, lock, bus
<1>14. ASSUME Erase PROVE TypeOK'
  BY <1>14 DEF TypeOK, Erase, Members, Lives, lock, bus
<1>15. CASE UNCHANGED busVars
  BY <1>15 DEF TypeOK, busVars, Members, Lives, lock, bus
<1> QED
  BY <1>1, <1>2, <1>3, <1>4, <1>5, <1>6, <1>7, <1>8, <1>9, <1>10, <1>11, <1>12, <1>13, <1>14, <1>15 DEF BusNext, Link, Serve, Own

\* Every step keeps what is on the bus.
LEMMA BusSteps == ASSUME BusInv, [BusNext]_busVars PROVE OnTheBus'
<1> USE OwnerBusAssumption DEF BusInv
<1>1. ASSUME NEW m \in Members, Connect(m) PROVE OnTheBus'
  <2>1. /\ UNCHANGED <<path, life, holder, serves>>
        /\ link[m] = "connect" /\ peer[m] = NoProc
        /\ \A n \in Members \ {m} : link'[n] = link[n] /\ peer'[n] = peer[n]
    BY <1>1 DEF TypeOK, OnTheBus, Connect, Members, lock
  <2>2. \/ path \in Procs /\ peer'[m] = path /\ link'[m] = "idle"
        \/ peer'[m] = NoProc /\ (m \in Viewers => link'[m] = "timer")
    <3>1. /\ peer'[m] = IF path \in Procs THEN path ELSE NoProc
          /\ link'[m] = IF path \in Procs THEN "idle" ELSE Refused(m)
      BY <1>1 DEF TypeOK, Connect
    <3>2. CASE path \in Procs
      BY <3>1, <3>2
    <3>3. CASE path \notin Procs
      BY <3>1, <3>3 DEF Refused
    <3> QED BY <3>2, <3>3
  <2>3. m \in Procs => ~serves[m] /\ Lives(m)
    BY <2>1 DEF OnTheBus
  <2>4. \A n \in Members, q \in Procs : peer'[n] = q => serves'[q]
    BY <2>1, <2>2 DEF OnTheBus
  <2>5. /\ \A q \in Procs : serves'[q] => Lives(q)' /\ link'[q] = "idle" /\ peer'[q] = NoProc
        /\ \A q \in Procs : ~Lives(q)' => link'[q] = "idle" /\ peer'[q] = NoProc
    BY <2>1, <2>3 DEF OnTheBus, Members, Lives
  <2>6. /\ \A n \in Members : link'[n] # "idle" => peer'[n] = NoProc
        /\ \A v \in Viewers : link'[v] \in {"idle", "connect", "timer"}
    BY <2>1, <2>2 DEF OnTheBus, Members
  <2> QED BY <2>1, <2>4, <2>5, <2>6 DEF OnTheBus
<1>2. ASSUME NEW m \in Members, Timer(m) PROVE OnTheBus'
  BY <1>2 DEF TypeOK, OnTheBus, Timer, Members, Lives, lock, bus
<1>3. ASSUME NEW p \in Procs, Reclaim(p) PROVE OnTheBus'
  BY <1>3 DEF TypeOK, OnTheBus, Reclaim, Members, Lives, lock, bus
<1>4. ASSUME NEW p \in Procs, Bind(p) PROVE OnTheBus'
  BY <1>4 DEF TypeOK, OnTheBus, Bind, Members, Lives, lock, bus
<1>5. ASSUME NEW p \in Procs, Retry(p) PROVE OnTheBus'
  <2>1. /\ UNCHANGED <<path, life, holder, serves>>
        /\ link[p] = "retry" /\ peer[p] = NoProc
        /\ \A n \in Members \ {p} : link'[n] = link[n] /\ peer'[n] = peer[n]
    BY <1>5 DEF TypeOK, OnTheBus, Retry, Members, lock
  <2>2. \/ path \in Procs /\ peer'[p] = path /\ link'[p] = "idle"
        \/ peer'[p] = NoProc /\ link'[p] = "timer"
    BY <1>5, <2>1 DEF TypeOK, Retry, Members
  <2>3. ~serves[p] /\ Lives(p)
    BY <2>1 DEF OnTheBus
  <2>4. \A n \in Members, q \in Procs : peer'[n] = q => serves'[q]
    BY <2>1, <2>2 DEF OnTheBus
  <2>5. /\ \A q \in Procs : serves'[q] => Lives(q)' /\ link'[q] = "idle" /\ peer'[q] = NoProc
        /\ \A q \in Procs : ~Lives(q)' => link'[q] = "idle" /\ peer'[q] = NoProc
    BY <2>1, <2>3 DEF OnTheBus, Members, Lives
  <2>6. /\ \A n \in Members : link'[n] # "idle" => peer'[n] = NoProc
        /\ \A v \in Viewers : link'[v] \in {"idle", "connect", "timer"}
    BY <2>1, <2>2 DEF OnTheBus, Members
  <2> QED BY <2>1, <2>4, <2>5, <2>6 DEF OnTheBus
<1>6. ASSUME NEW p \in Procs, Acquire(p) PROVE OnTheBus'
  BY <1>6 DEF TypeOK, OnTheBus, Acquire, Members, Lives, lock, bus
<1>7. ASSUME NEW p \in Procs, Open(p) PROVE OnTheBus'
  BY <1>7 DEF TypeOK, OnTheBus, Open, Members, Lives, lock, bus
<1>8. ASSUME NEW p \in Procs, Tick(p) PROVE OnTheBus'
  <2>1. CASE UNCHANGED <<path, bus>>
    BY <1>8, <2>1 DEF OnTheBus, Tick, Lives, lock, bus
  <2>2. CASE /\ path' = IF serves[p] THEN Absent ELSE path
             /\ Stop(p) /\ Cut(p, "reclaim")
    <3>1. UNCHANGED <<life, holder>> /\ life[p] = "owner"
      BY <1>8 DEF Tick, lock
    <3>2. /\ serves' = [serves EXCEPT ![p] = FALSE]
          /\ path' = IF serves[p] THEN Absent ELSE path
      BY <2>2 DEF Stop
    <3>3. /\ \A q \in Procs : path' = q => serves'[q]
          /\ \A q \in Procs : holder' = q <=> life'[q] \in {"opening", "owner"}
      BY <3>1, <3>2 DEF TypeOK, OnTheBus
    <3>4. \A m \in Members, q \in Procs : peer'[m] = q => serves'[q]
      BY <2>2, <3>2 DEF TypeOK, OnTheBus, Cut, Members
    <3>5. \A q \in Procs : serves'[q] => Lives(q)' /\ link'[q] = "idle" /\ peer'[q] = NoProc
      BY <2>2, <3>1, <3>2 DEF TypeOK, OnTheBus, Cut, Members, Lives
    <3>6. \A q \in Procs : ~Lives(q)' => link'[q] = "idle" /\ peer'[q] = NoProc
      BY <2>2, <3>1 DEF TypeOK, OnTheBus, Cut, Members, Lives
    <3>7. /\ \A m \in Members : link'[m] # "idle" => peer'[m] = NoProc
          /\ \A v \in Viewers : link'[v] \in {"idle", "connect", "timer"}
      BY <2>2 DEF TypeOK, OnTheBus, Cut, Members
    <3> QED BY <3>3, <3>4, <3>5, <3>6, <3>7 DEF OnTheBus
  <2> QED BY <1>8, <2>1, <2>2 DEF Tick
<1>9. ASSUME NEW p \in Procs, Start(p) PROVE OnTheBus'
  BY <1>9 DEF TypeOK, OnTheBus, Start, Reset, Rested, Members, Lives, lock, bus
<1>10. ASSUME NEW p \in Procs, Release(p) PROVE OnTheBus'
  BY <1>10 DEF TypeOK, OnTheBus, Release, Members, Lives, lock, bus
<1>11. ASSUME NEW p \in Procs, Disconnect(p) PROVE OnTheBus'
  BY <1>11 DEF TypeOK, OnTheBus, Disconnect, Stop, Cut, Members, Lives, lock, bus
<1>12. ASSUME NEW p \in Procs, Leave(p) PROVE OnTheBus'
  BY <1>12 DEF TypeOK, OnTheBus, Leave, Members, Lives, lock, bus
<1>13. ASSUME NEW p \in Procs, Crash(p) PROVE OnTheBus'
  <2>1. /\ \A q \in Procs : path' = q => serves'[q]
        /\ \A q \in Procs : holder' = q <=> life'[q] \in {"opening", "owner"}
    BY <1>13 DEF TypeOK, OnTheBus, Crash, Stop, Lives
  <2>2. \A m \in Members, q \in Procs : peer'[m] = q => serves'[q]
    BY <1>13 DEF TypeOK, OnTheBus, Crash, Stop, Cut, Members
  <2>3. \A q \in Procs : serves'[q] => Lives(q)' /\ link'[q] = "idle" /\ peer'[q] = NoProc
    BY <1>13 DEF TypeOK, OnTheBus, Crash, Stop, Cut, Members, Lives
  <2>4. \A q \in Procs : ~Lives(q)' => link'[q] = "idle" /\ peer'[q] = NoProc
    BY <1>13 DEF TypeOK, OnTheBus, Crash, Stop, Cut, Members, Lives
  <2>5. /\ \A m \in Members : link'[m] # "idle" => peer'[m] = NoProc
        /\ \A v \in Viewers : link'[v] \in {"idle", "connect", "timer"}
    BY <1>13 DEF TypeOK, OnTheBus, Crash, Cut, Members
  <2> QED BY <2>1, <2>2, <2>3, <2>4, <2>5 DEF OnTheBus
<1>14. ASSUME Erase PROVE OnTheBus'
  BY <1>14 DEF TypeOK, OnTheBus, Erase, Members, Lives, lock, bus
<1>15. CASE UNCHANGED busVars
  BY <1>15 DEF OnTheBus, busVars, Members, Lives, lock, bus
<1> QED
  BY <1>1, <1>2, <1>3, <1>4, <1>5, <1>6, <1>7, <1>8, <1>9, <1>10, <1>11, <1>12, <1>13, <1>14, <1>15 DEF BusNext, Link, Serve, Own

\* The inductive invariant of the bus.
THEOREM BusInvariant == BusSpec => []BusInv
<1>1. BusInit => BusInv
  <2> SUFFICES ASSUME BusInit PROVE BusInv
    OBVIOUS
  <2>1. TypeOK
    BY OwnerBusAssumption DEF BusInit, TypeOK, Members, Rested
  <2>2. OnTheBus
    BY OwnerBusAssumption DEF BusInit, OnTheBus, Members, Lives
  <2> QED BY <2>1, <2>2 DEF BusInv
<1>2. BusInv /\ [BusNext]_busVars => BusInv'
  BY BusTypes, BusSteps DEF BusInv
<1> QED BY <1>1, <1>2, PTL DEF BusSpec

\* The types of the bus, for any processes, viewers and bounds.
THEOREM BusTypeCorrect == BusSpec => []TypeOK
<1>1. BusInv => TypeOK
  BY DEF BusInv
<1> QED BY <1>1, BusInvariant, PTL

\* tryConnect, serveAsOwner and disconnect: however processes race for the
\* path, what it names and what is connected to is a server that listens,
\* of a living process that is nobody's client, and the lock has one holder.
THEOREM BusOnTheBus == BusSpec => []OnTheBus
<1>1. BusInv => OnTheBus
  BY DEF BusInv
<1> QED BY <1>1, BusInvariant, PTL

-----------------------------------------------------------------------------
(* Induction: a set of natural numbers has a least element.                *)

LEMMA Least ==
    ASSUME NEW S \in SUBSET Nat, S # {}
    PROVE  \E n \in S : \A m \in S : n <= m
<1>1. \E n \in S : \A m \in S : ~ (<<m, n>> \in OpToRel(<, Nat))
  <2> HIDE DEF OpToRel
  <2> QED
    BY NatLessThanWellFounded, WFMin
<1>2. PICK n \in S : \A m \in S : ~ (<<m, n>> \in OpToRel(<, Nat))
  BY <1>1
<1>3. \A m \in S : ~(m < n)
  BY <1>2 DEF OpToRel
<1> QED
  BY <1>3

\* What holds of 0 and goes from a number to the next holds of all of them.
LEMMA Induction ==
    ASSUME NEW S, 0 \in S, NEW N \in Nat, \A n \in 0 .. N - 1 : n \in S => n + 1 \in S
    PROVE  0 .. N \subseteq S
<1> DEFINE Bad == {n \in 0 .. N : n \notin S}
<1>1. ASSUME Bad # {} PROVE FALSE
  <2>1. PICK n \in Bad : \A m \in Bad : n <= m
    <3>1. Bad \in SUBSET Nat
      OBVIOUS
    <3> HIDE DEF Bad
    <3> QED
      BY <1>1, <3>1, Least
  <2>2. n # 0 /\ n - 1 \in 0 .. N - 1 /\ n - 1 \notin Bad
    BY <2>1
  <2> QED
    BY <2>1, <2>2
<1> QED
  BY <1>1

\* A bounded set of natural numbers has a greatest element.
LEMMA Greatest ==
    ASSUME NEW S \in SUBSET Nat, S # {}, NEW b \in Nat, \A n \in S : n < b
    PROVE  \E n \in S : \A m \in S : n >= m
<1> DEFINE T == {b - n : n \in S}
<1>1. T \in SUBSET Nat /\ T # {}
  <2>1. \A n \in S : b - n \in Nat
    OBVIOUS
  <2>2. PICK n \in S : TRUE
    OBVIOUS
  <2>3. b - n \in T
    BY <2>2
  <2> QED
    BY <2>1, <2>3
<1>2. PICK k \in T : \A l \in T : k <= l
  <2> HIDE DEF T
  <2> QED
    BY <1>1, Least
<1>3. PICK n \in S : k = b - n
  BY <1>2
<1>4. \A m \in S : b - n <= b - m
  BY <1>2, <1>3
<1>5. n \in Nat /\ \A m \in S : m \in Nat
  OBVIOUS
<1> HIDE DEF T
<1>6. \A m \in S : n >= m
  BY <1>4, <1>5
<1> QED
  BY <1>6

-----------------------------------------------------------------------------
(* The databases after each number of a batch.                             *)

Stage(db, S, f, n) == IF n = 0 THEN db ELSE Turn(f[n - 1], S, n)

LEMMA CourseStages ==
    ASSUME NEW db, NEW S, NEW N \in Nat
    PROVE  /\ Course(db, S, N)[0] = db
           /\ \A n \in 1 .. N : Course(db, S, N)[n] = Turn(Course(db, S, N)[n - 1], S, n)
<1> DEFINE Is(f, n) == f = [k \in 0 .. n |-> Stage(db, S, f, k)]
           T == {n \in Nat : \E f : Is(f, n)}
<1>1. 0 \in T
  <2>1. Is([k \in 0 .. 0 |-> db], 0)
    BY DEF Stage
  <2> QED
    BY <2>1
<1>2. ASSUME NEW n \in Nat, n \in T PROVE n + 1 \in T
  <2>1. PICK f : Is(f, n)
    BY <1>2
  <2> DEFINE g == [k \in 0 .. n + 1 |-> IF k = n + 1 THEN Turn(f[n], S, n + 1) ELSE f[k]]
  <2>2. ASSUME NEW k \in 0 .. n + 1 PROVE g[k] = Stage(db, S, g, k)
    <3>1. CASE k = n + 1
      BY <3>1 DEF Stage
    <3>2. CASE k # n + 1
      <4>1. k \in 0 .. n /\ g[k] = f[k] /\ f[k] = Stage(db, S, f, k)
        BY <2>1, <3>2
      <4>2. k # 0 => g[k - 1] = f[k - 1]
        BY <4>1
      <4> QED
        BY <4>1, <4>2 DEF Stage
    <3> QED
      BY <3>1, <3>2
  <2>3. g = [k \in 0 .. n + 1 |-> g[k]]
    OBVIOUS
  <2>4. Is(g, n + 1)
    <3> HIDE DEF g
    <3> QED
      BY <2>2, <2>3
  <2> HIDE DEF g, Is
  <2>5. \E h : Is(h, n + 1)
    BY <2>4
  <2> QED
    BY <2>5
<1>3. N \in T
  <2> HIDE DEF T
  <2> QED
    BY <1>1, <1>2, Induction
<1>4. Course(db, S, N) = CHOOSE f : Is(f, N)
  BY DEF Course, Stage
<1>5. Is(Course(db, S, N), N)
  BY <1>3, <1>4
<1> HIDE DEF Is
<1>6. \A n \in 0 .. N : Course(db, S, N)[n] = Stage(db, S, Course(db, S, N), n)
  <2> DEFINE c == Course(db, S, N)
  <2>1. c = [k \in 0 .. N |-> Stage(db, S, c, k)]
    BY <1>5 DEF Is
  <2> HIDE DEF c
  <2>2. \A n \in 0 .. N : c[n] = Stage(db, S, c, n)
    BY <2>1
  <2> QED
    BY <2>2 DEF c
<1> QED
  BY <1>6 DEF Stage

-----------------------------------------------------------------------------
(* Shapes.                                                                 *)

Ops == {"upsert", "tombstone"} \cup Rollups
Entries == [seq : Nat \ {0}, of : Entities, op : Ops, row : Nat, home : BOOLEAN]
Bases == [row : [Entities -> Nat], log : SUBSET Entries, next : Nat \ {0}, cursor : Int]
Deltas == [high : Nat, entries : SUBSET Entries]

\* A journal numbers its entries.
Numbered(db) ==
    /\ \A x \in db.log : x.seq < db.next
    /\ \A x, y \in db.log : x.seq = y.seq => x = y

\* A task has a row of a task, and a workflow.
Rooted(db) ==
    \A t \in Tasks : /\ db.row[t] \in TaskRows \cup {0}
                     /\ db.row[t] # 0 => db.row[Workflow] # 0

Sane(db) == db \in Bases /\ Numbered(db) /\ Rooted(db)

\* A row `theirs` that the row `mine` of e is not ahead of.
Covers(theirs, mine, e) == mine <= theirs \/ (e = Workflow /\ theirs > Alive)

LEMMA Kinds ==
    /\ Workflow \in Entities /\ Tasks \subseteq Entities /\ Attempts \subseteq Entities
    /\ \A a \in Attempts : TaskOf[a] \in Tasks /\ a # Workflow /\ a \notin Tasks
    /\ \A t \in Tasks : t # Workflow /\ t \notin Attempts
  BY PeerSyncAssumption DEF Entities

LEMMA PeerFacts ==
    ASSUME NEW s \in Stores
    PROVE  /\ Peer(s) \in Stores /\ Peer(s) # s /\ Peer(Peer(s)) = s
           /\ \A r \in Stores : r = s \/ r = Peer(s)
<1>1. PICK a, b \in Stores : a # b /\ Stores = {a, b}
  BY PeerSyncAssumption
<1>2. \A r \in Stores : Peer(r) \in Stores /\ Peer(r) # r
  BY <1>1 DEF Peer
<1> QED
  BY <1>1, <1>2

LEMMA JournaledSane ==
    ASSUME NEW db, Sane(db), NEW e \in Entities, NEW op \in Ops, NEW v \in Nat, NEW h \in BOOLEAN
    PROVE  /\ Sane(Journaled(db, e, op, v, h))
           /\ Journaled(db, e, op, v, h).row = db.row
           /\ Journaled(db, e, op, v, h).cursor = db.cursor
           /\ Journaled(db, e, op, v, h).next = db.next + 1
           /\ Journaled(db, e, op, v, h).log = db.log \cup {Entry(db, e, op, v, h)}
           /\ Entry(db, e, op, v, h) \in Entries
<1> DEFINE n == Journaled(db, e, op, v, h)
           x == Entry(db, e, op, v, h)
<1>1. /\ x \in Entries /\ x.seq = db.next
  BY DEF Entry, Entries, Sane, Bases
<1>2. /\ n.row = db.row /\ n.cursor = db.cursor /\ n.next = db.next + 1
      /\ n.log = db.log \cup {x} /\ n \in Bases
  <2> HIDE DEF x
  <2>1. n = [db EXCEPT !.log = @ \cup {x}, !.next = @ + 1]
    BY DEF Journaled, x
  <2>2. db \in Bases /\ db.log \cup {x} \subseteq Entries /\ db.next + 1 \in Nat \ {0}
    BY <1>1 DEF Sane, Bases
  <2> HIDE DEF n
  <2> QED
    BY <2>1, <2>2 DEF Bases
<1> HIDE DEF n, x
<1>3. Numbered(n)
  <2>1. \A y \in db.log : y \in Entries /\ y.seq < db.next /\ y.seq \in Nat
    BY DEF Sane, Numbered, Bases, Entries
  <2>2. db.next \in Nat
    BY DEF Sane, Bases
  <2> QED
    BY <1>1, <1>2, <2>1, <2>2 DEF Numbered, Sane
<1>4. Rooted(n)
  BY <1>2 DEF Sane, Rooted
<1> QED
  BY <1>1, <1>2, <1>3, <1>4 DEF Sane, n, x

-----------------------------------------------------------------------------
(* One entry of a batch.                                                   *)

\* What the sender of an entry has in its own rows; free are the rows of
\* which it never took one back.
Fair(x, far, free) ==
    /\ x.row >= 1 /\ far[Workflow] >= 1
    /\ x.of \in Tasks => x.row \in TaskRows
    /\ x.of \in free => x.row <= far[x.of]

\* The rows of db after an import, against those before and the sender's;
\* free are the rows that the merge alters none of.
Imports(db, n, x, far, free) ==
    /\ Sane(n) /\ n.cursor = db.cursor /\ n.next >= db.next
    /\ \A e \in Entities : db.row[e] # 0 => n.row[e] # 0
    /\ n.row[x.of] # 0
    /\ n.row[Workflow] >= db.row[Workflow]
    /\ \A e \in free : n.row[e] >= db.row[e]
    /\ x.of \in free => n.row[x.of] >= x.row \/ (x.of = Workflow /\ n.row[Workflow] > Alive)
    /\ \A y \in n.log : y \in db.log \/ (~y.home /\ y.seq >= db.next)
    /\ \A y \in db.log : y \in n.log \/ (y.home /\ y.of = x.of)
    /\ \A e \in free :
         \/ n.row[e] = db.row[e] /\ Home(n, e) = Home(db, e)
         \/ Covers(far[e], n.row[e], e)
    /\ \A e \in free : Covers(far[e], db.row[e], e) => Covers(far[e], n.row[e], e)
    /\ \A e \in Entities : n.row[e] = db.row[e] \/ e \in {Workflow, x.of}

LEMMA EnsuredSane ==
    ASSUME NEW db, Sane(db), NEW x \in Entries
    PROVE  /\ Ensured(db, x) \in Bases /\ Numbered(Ensured(db, x)) /\ Rooted(Ensured(db, x))
           /\ Ensured(db, x).log = db.log /\ Ensured(db, x).next = db.next
           /\ Ensured(db, x).cursor = db.cursor
           /\ \A e \in Entities : \/ Ensured(db, x).row[e] = db.row[e]
                                  \/ e = Workflow /\ db.row[e] = 0 /\ Ensured(db, x).row[e] = Alive
           /\ x.of \in Tasks => Ensured(db, x).row[Workflow] # 0
  BY Kinds DEF Ensured, Sane, Bases, Numbered, Rooted, Alive

LEMMA PurgedSane ==
    ASSUME NEW db, Sane(db), NEW e \in Entities
    PROVE  /\ Sane(Purged(db, e)) /\ Purged(db, e).row = db.row /\ Purged(db, e).next = db.next
           /\ Purged(db, e).cursor = db.cursor /\ Purged(db, e).log = db.log \ Home(db, e)
<1>1. /\ Purged(db, e).row = db.row /\ Purged(db, e).next = db.next
      /\ Purged(db, e).cursor = db.cursor /\ Purged(db, e).log = db.log \ Home(db, e)
      /\ Purged(db, e) \in Bases
  BY DEF Purged, Sane, Bases
<1> QED
  BY <1>1 DEF Sane, Numbered, Rooted

\* The merge of a row of e, which the rows of tasks keep within their kind.
LEMMA MergedRow ==
    ASSUME NEW local \in Nat, NEW x \in Entries, x.row >= 1,
           x.of \in Tasks => local \in TaskRows \cup {0} /\ x.row \in TaskRows
    PROVE  /\ Merged(local, x) \in Nat /\ Merged(local, x) # 0
           /\ x.of \in Tasks => Merged(local, x) \in TaskRows \cup {0}
<1>1. x.row \in Nat /\ x.row > local => Stored(local, x) \in Nat /\ Stored(local, x) # 0
  <2>1. CASE x.of \in Tasks
    BY <2>1, PeerSyncAssumption DEF Stored
  <2>2. CASE x.of \notin Tasks
    BY <2>2 DEF Stored
  <2> QED
    BY <2>1, <2>2
<1>2. x.of \in Tasks => Stored(local, x) \in TaskRows
  BY PeerSyncAssumption DEF Stored
<1>3. x.row \in Nat
  BY DEF Entries
<1>4. CASE Merged(local, x) = local /\ (x.row <= local \/ local > Alive)
  BY <1>3, <1>4 DEF Alive
<1>5. CASE Merged(local, x) = Stored(local, x) /\ x.row > local
  BY <1>1, <1>2, <1>3, <1>5
<1> QED
  BY <1>3, <1>4, <1>5 DEF Merged

\* A merge that does not alter a row takes the local row or the entry's,
\* never the lower one.
LEMMA MergedOne ==
    ASSUME NEW local \in Nat, NEW x \in Entries, ~Alters(local, x)
    PROVE  /\ Merged(local, x) \in {local, x.row} /\ Merged(local, x) >= local
           /\ Merged(local, x) >= x.row \/ (x.of = Workflow /\ local > Alive)
<1>1. x.row \in Nat
  BY DEF Entries
<1>2. x.row > local => Stored(local, x) = x.row
  BY DEF Alters, Stored
<1> QED
  BY <1>1, <1>2 DEF Merged

\* What supersedes a row covers what the merge makes of it.
LEMMA SupersededCovered ==
    ASSUME NEW local \in Nat, NEW x \in Entries, NEW far \in [Entities -> Nat], NEW free,
           Fair(x, far, free), x.of \in free, Supersedes(local, x), ~Alters(local, x)
    PROVE  Covers(far[x.of], Merged(local, x), x.of)
<1>0. x.of \in Entities /\ x.row \in Nat /\ far[x.of] \in Nat /\ Workflow \in Entities
  BY Kinds DEF Entries
<1>1. CASE x.of # Workflow
  BY <1>0, <1>1, MergedOne DEF Supersedes, Fair, Covers
<1>2. CASE x.of = Workflow /\ local <= Alive
  BY <1>0, <1>2, MergedOne DEF Fair, Covers, Alive
<1>3. CASE x.of = Workflow /\ local > Alive
  <2>1. x.row > Alive
    BY <1>0, <1>3 DEF Supersedes, Wins, Fair, Alive
  <2> QED
    BY <1>0, <1>3, <2>1 DEF Fair, Covers, Alive
<1> QED
  BY <1>0, <1>1, <1>2, <1>3 DEF Alive

LEMMA AppliedImports ==
    ASSUME NEW db, Sane(db), NEW x \in Entries, NEW far \in [Entities -> Nat],
           NEW free \in SUBSET Entities, Fair(x, far, free),
           x.of \in free => ~Alters(db.row[x.of], x)
    PROVE  Imports(db, Applied(db, x), x, far, free)
<1> DEFINE base == Ensured(db, x)
           local == base.row[x.of]
           kept == IF Supersedes(local, x) THEN Purged(base, x.of) ELSE base
           row == Merged(local, x)
           set == [kept EXCEPT !.row[x.of] = row]
           n == Applied(db, x)
           no == FALSE
<1>0. x.of \in Entities /\ x.op \in Ops /\ x.row \in Nat
  BY DEF Entries
<1>1. Sane(base)
  BY EnsuredSane DEF Sane
<1>2. /\ Sane(kept) /\ kept.row = base.row /\ kept.next = db.next /\ kept.cursor = db.cursor
      /\ kept.log = IF Supersedes(local, x) THEN db.log \ Home(base, x.of) ELSE db.log
  <2> HIDE DEF base, local
  <2>1. base.next = db.next /\ base.cursor = db.cursor /\ base.log = db.log
    BY EnsuredSane DEF base
  <2>2. CASE Supersedes(local, x)
    <3>1. kept = Purged(base, x.of)
      BY <2>2
    <3> HIDE DEF kept
    <3> QED
      BY <1>0, <1>1, <2>1, <2>2, <3>1, PurgedSane
  <2>3. CASE ~Supersedes(local, x)
    BY <1>1, <2>1, <2>3
  <2> QED
    BY <2>2, <2>3
<1>3. /\ local \in Nat /\ row \in Nat /\ row # 0
      /\ x.of \in Tasks => row \in TaskRows \cup {0}
      /\ ~Alters(local, x) =>
            /\ row \in {local, x.row} /\ row >= local
            /\ row >= x.row \/ (x.of = Workflow /\ local > Alive)
  <2>1. local \in Nat /\ (x.of \in Tasks => local \in TaskRows \cup {0})
    BY <1>0, <1>1 DEF Sane, Bases, Rooted
  <2>2. x.row >= 1 /\ (x.of \in Tasks => x.row \in TaskRows)
    BY DEF Fair
  <2> HIDE DEF local
  <2> QED
    BY <1>0, <2>1, <2>2, MergedOne, MergedRow
<1>b. x.of \in free \cup {Workflow} => ~Alters(local, x)
  <2>1. x.of \in Tasks => local = db.row[x.of]
    BY <1>0, EnsuredSane, Kinds
  <2>2. x.of \notin Tasks => ~Alters(local, x)
    BY DEF Alters
  <2> HIDE DEF local
  <2> QED
    BY <2>1, <2>2, Kinds
<1>4. Sane(set) /\ set.row = [base.row EXCEPT ![x.of] = row]
      /\ set.log = kept.log /\ set.next = kept.next /\ set.cursor = kept.cursor
  <2> HIDE DEF kept, row, base
  <2>1. /\ set.row = [base.row EXCEPT ![x.of] = row]
        /\ set.log = kept.log /\ set.next = kept.next /\ set.cursor = kept.cursor
        /\ set \in Bases
    BY <1>0, <1>2, <1>3 DEF Sane, Bases
  <2>2. Numbered(set)
    BY <1>2, <2>1 DEF Numbered, Sane
  <2>3. Rooted(set)
    <3> SUFFICES ASSUME NEW t \in Tasks
                 PROVE  /\ set.row[t] \in TaskRows \cup {0}
                        /\ set.row[t] # 0 => set.row[Workflow] # 0
      BY DEF Rooted
    <3>1. base.row \in [Entities -> Nat] /\ t \in Entities /\ Workflow \in Entities
      BY <1>1, Kinds DEF Sane, Bases
    <3>2. set.row[t] # 0 => base.row[Workflow] # 0
      <4>1. CASE t = x.of
        BY <4>1, EnsuredSane DEF base
      <4>2. CASE t # x.of
        BY <1>1, <2>1, <3>1, <4>2 DEF Sane, Rooted
      <4> QED
        BY <4>1, <4>2
    <3>3. set.row[t] \in TaskRows \cup {0}
      BY <1>1, <1>3, <2>1, <3>1 DEF Sane, Rooted
    <3>4. base.row[Workflow] # 0 => set.row[Workflow] # 0
      BY <1>3, <2>1, <3>1
    <3> QED
      BY <3>2, <3>3, <3>4
  <2> QED
    BY <2>1, <2>2, <2>3 DEF Sane
<1>5. n = IF row = local THEN kept ELSE Journaled(set, x.of, x.op, x.row, no)
  BY DEF Applied
<1>a. no \in BOOLEAN
  OBVIOUS
<1>6. /\ Sane(n) /\ n.row = [base.row EXCEPT ![x.of] = row] /\ n.cursor = db.cursor
      /\ n.next \in {db.next, db.next + 1}
      /\ n.log \in {kept.log, kept.log \cup {Entry(set, x.of, x.op, x.row, no)}}
  <2> HIDE DEF set, kept, row, base, n, no
  <2>1. CASE row = local
    BY <1>1, <1>2, <1>3, <1>5, <2>1 DEF Sane, Bases, local
  <2>2. CASE row # local
    <3>1. n = Journaled(set, x.of, x.op, x.row, no)
      BY <1>5, <2>2
    <3>2. /\ Sane(n) /\ n.row = set.row /\ n.cursor = set.cursor /\ n.next = set.next + 1
          /\ n.log = set.log \cup {Entry(set, x.of, x.op, x.row, no)}
      <4>1. Sane(set) /\ no \in BOOLEAN
        BY <1>4, <1>a
      <4>2. /\ Sane(Journaled(set, x.of, x.op, x.row, no))
            /\ Journaled(set, x.of, x.op, x.row, no).row = set.row
            /\ Journaled(set, x.of, x.op, x.row, no).cursor = set.cursor
            /\ Journaled(set, x.of, x.op, x.row, no).next = set.next + 1
            /\ Journaled(set, x.of, x.op, x.row, no).log = set.log \cup {Entry(set, x.of, x.op, x.row, no)}
        BY <1>0, <4>1, JournaledSane
      <4> QED
        BY <3>1, <4>2
    <3> QED
      BY <1>2, <1>4, <3>2
  <2> QED
    BY <2>1, <2>2
<1>7. /\ ~Entry(set, x.of, x.op, x.row, no).home
      /\ Entry(set, x.of, x.op, x.row, no).seq = db.next
  BY <1>2, <1>4 DEF Entry
<1> HIDE DEF no
<1>8. base.row \in [Entities -> Nat] /\ db.row \in [Entities -> Nat] /\ db.next \in Nat
  BY <1>1 DEF Sane, Bases
<1>9. \A e \in Entities : \/ base.row[e] = db.row[e]
                          \/ e = Workflow /\ db.row[e] = 0 /\ base.row[e] = Alive
  BY EnsuredSane
<1>10. Home(base, x.of) = Home(db, x.of)
  BY EnsuredSane DEF Home
<1>11. x.of \in free /\ Supersedes(local, x) => Covers(far[x.of], row, x.of)
  BY <1>3, <1>b, SupersededCovered
<1> HIDE DEF set, kept, row, base, local, n
<1>c. \A e \in Entities : n.row[e] = (IF e = x.of THEN row ELSE base.row[e])
  BY <1>6, <1>8
<1>12. \A e \in free \cup {Workflow} : n.row[e] >= db.row[e]
  <2> SUFFICES ASSUME NEW e \in free \cup {Workflow} PROVE n.row[e] >= db.row[e]
    OBVIOUS
  <2>0. e \in Entities /\ base.row[e] \in Nat /\ db.row[e] \in Nat /\ base.row[e] >= db.row[e]
    BY <1>8, <1>9, Kinds DEF Alive
  <2>1. CASE e = x.of
    BY <1>3, <1>b, <1>c, <2>0, <2>1 DEF local
  <2>2. CASE e # x.of
    BY <1>c, <2>0, <2>2
  <2> QED
    BY <2>1, <2>2
<1>d. n.row[x.of] # 0 /\ \A e \in Entities : db.row[e] # 0 => n.row[e] # 0
  BY <1>0, <1>3, <1>9, <1>c DEF Alive
<1>13. x.of \in free => n.row[x.of] >= x.row \/ (x.of = Workflow /\ n.row[Workflow] > Alive)
  <2> SUFFICES ASSUME x.of \in free
               PROVE  n.row[x.of] >= x.row \/ (x.of = Workflow /\ n.row[Workflow] > Alive)
    OBVIOUS
  <2>1. row \in Nat /\ local \in Nat /\ row >= local
        /\ (row >= x.row \/ (x.of = Workflow /\ local > Alive))
    BY <1>3, <1>b
  <2>2. n.row[x.of] = row
    BY <1>0, <1>c
  <2> QED
    BY <2>1, <2>2 DEF Alive
<1>14. \A y \in n.log : y \in db.log \/ (~y.home /\ y.seq >= db.next)
  <2> DEFINE w == Entry(set, x.of, x.op, x.row, no)
  <2>1. n.log \subseteq db.log \cup {w}
    BY <1>2, <1>6
  <2>2. ~w.home /\ w.seq >= db.next
    BY <1>7, <1>8
  <2> HIDE DEF w
  <2> QED
    BY <2>1, <2>2
<1>15. \A y \in db.log : y \in n.log \/ (y.home /\ y.of = x.of)
  BY <1>2, <1>6, <1>10 DEF Home
<1>16. ASSUME NEW e \in free
       PROVE  \/ n.row[e] = db.row[e] /\ Home(n, e) = Home(db, e)
              \/ Covers(far[e], n.row[e], e)
  <2>0. e \in Entities /\ far[e] \in Nat /\ far[Workflow] \in Nat /\ Workflow \in Entities
    BY Kinds
  <2>1. CASE base.row[e] # db.row[e] /\ e # x.of
    BY <1>6, <1>8, <1>9, <2>0, <2>1 DEF Fair, Covers, Alive
  <2>2. CASE base.row[e] = db.row[e] /\ e # x.of
    <3>1. n.row[e] = db.row[e]
      BY <1>6, <1>8, <2>0, <2>2
    <3>2. \A y : y.of = e /\ y.home => (y \in n.log <=> y \in db.log)
      BY <1>2, <1>6, <1>7, <1>10, <2>2, <2>0 DEF Home, Entry
    <3> QED
      BY <3>1, <3>2 DEF Home
  <2>3. CASE e = x.of /\ Supersedes(local, x)
    BY <1>6, <1>8, <1>11, <2>3, <2>0
  <2>4. CASE e = x.of /\ ~Supersedes(local, x)
    <3>1. local # 0
      BY <2>4 DEF Supersedes
    <3>2. local = db.row[e]
      <4>1. e = Workflow => base = db
        BY <2>4, Kinds DEF base, Ensured
      <4> QED
        BY <1>9, <2>0, <2>4, <4>1 DEF local
    <3>3. CASE row = local
      <4>1. n.row[e] = db.row[e] /\ n.log = db.log
        BY <1>2, <1>5, <1>6, <1>8, <2>0, <2>4, <3>2, <3>3
      <4> QED
        BY <4>1 DEF Home
    <3>4. CASE row = x.row
      BY <1>6, <1>8, <2>0, <2>4, <3>4 DEF Fair, Covers
    <3> QED
      BY <1>3, <1>b, <2>4, <3>3, <3>4
  <2> QED
    BY <2>1, <2>2, <2>3, <2>4
<1>17. ASSUME NEW e \in free, Covers(far[e], db.row[e], e)
       PROVE  Covers(far[e], n.row[e], e)
  <2>0. e \in Entities /\ far[e] \in Nat /\ far[Workflow] \in Nat /\ Workflow \in Entities
        /\ db.row[e] \in Nat /\ base.row[e] \in Nat
    BY <1>8, Kinds
  <2>1. Covers(far[e], base.row[e], e)
    BY <1>9, <1>17, <2>0 DEF Covers, Fair, Alive
  <2>2. n.row[e] \in {base.row[e], x.row} /\ (n.row[e] = base.row[e] \/ e = x.of)
    BY <1>3, <1>b, <1>c, <2>0 DEF local
  <2> QED
    BY <1>0, <2>0, <2>1, <2>2 DEF Fair, Covers
<1>18. \A e \in Entities : n.row[e] = db.row[e] \/ e \in {Workflow, x.of}
  BY <1>6, <1>8, <1>9
<1> QED
  <2>1. n.row[Workflow] >= db.row[Workflow] /\ \A e \in free : n.row[e] >= db.row[e]
    BY <1>12
  <2>2. Sane(n) /\ n.cursor = db.cursor /\ n.next >= db.next
    BY <1>6, <1>8
  <2> QED
    BY <1>13, <1>14, <1>15, <1>16, <1>17, <1>18, <1>d, <2>1, <2>2 DEF Imports, n

-----------------------------------------------------------------------------
(* A whole batch.                                                          *)

\* The database n after the entries of S up to number k, against the one
\* before the batch and the sender's rows.
Along(db, n, S, k, far, free) ==
    /\ Sane(n) /\ n.cursor = db.cursor /\ n.next >= db.next
    /\ \A e \in Entities : db.row[e] # 0 => n.row[e] # 0
    /\ \A x \in S : x.seq <= k => n.row[x.of] # 0
    /\ n.row[Workflow] >= db.row[Workflow]
    /\ \A e \in free : n.row[e] >= db.row[e]
    /\ \A x \in S : x.seq <= k /\ x.of \in free =>
          n.row[x.of] >= x.row \/ (x.of = Workflow /\ n.row[Workflow] > Alive)
    /\ \A y \in n.log : y \in db.log \/ (~y.home /\ y.seq >= db.next)
    /\ \A y \in db.log : y \in n.log \/ (y.home /\ \E x \in S : x.of = y.of)
    /\ \A e \in free :
         \/ n.row[e] = db.row[e] /\ Home(n, e) = Home(db, e)
         \/ Covers(far[e], n.row[e], e)
    /\ \A e \in Entities : n.row[e] = db.row[e] \/ e = Workflow \/ \E x \in S : x.of = e

LEMMA AlongTurn ==
    ASSUME NEW db, Sane(db), NEW n, NEW S \in SUBSET Entries, NEW k \in Nat,
           NEW far \in [Entities -> Nat], NEW free \in SUBSET Entities,
           \A x \in S : Fair(x, far, free),
           \A x, y \in S : x.seq = y.seq => x = y,
           \A x \in S : x.seq = k + 1 /\ x.of \in free => ~Alters(n.row[x.of], x),
           Along(db, n, S, k, far, free)
    PROVE  Along(db, Turn(n, S, k + 1), S, k + 1, far, free)
<1>0. /\ Sane(n) /\ db.next \in Nat /\ n.next \in Nat
      /\ db.row \in [Entities -> Nat] /\ n.row \in [Entities -> Nat]
      /\ \A x \in S : x.seq \in Nat /\ x.row \in Nat /\ x.of \in Entities
      /\ \A y \in n.log : y.seq \in Nat
      /\ Workflow \in Entities
  BY Kinds DEF Along, Sane, Bases, Entries
<1>1. CASE ~ \E x \in S : x.seq = k + 1
  <2>1. Turn(n, S, k + 1) = n
    BY <1>1 DEF Turn
  <2>2. \A x \in S : x.seq <= k + 1 => x.seq <= k
    BY <1>0, <1>1
  <2> QED
    BY <2>1, <2>2 DEF Along
<1>2. CASE \E x \in S : x.seq = k + 1
  <2> DEFINE x == CHOOSE x \in S : x.seq = k + 1
             j == Applied(n, x)
  <2>1. x \in S /\ x.seq = k + 1 /\ x \in Entries
    BY <1>2
  <2>2. Turn(n, S, k + 1) = j
    BY <1>2 DEF Turn
  <2> HIDE DEF x
  <2>3. Imports(n, j, x, far, free)
    BY <1>0, <2>1, AppliedImports
  <2> HIDE DEF j
  <2>0. j.row \in [Entities -> Nat] /\ j.next \in Nat
    BY <2>3 DEF Imports, Sane, Bases
  <2>4. Sane(j) /\ j.cursor = db.cursor /\ j.next >= db.next
    BY <1>0, <2>0, <2>3 DEF Along, Imports
  <2>5. \A e \in free \cup {Workflow} : j.row[e] >= db.row[e]
    BY <1>0, <2>0, <2>3 DEF Along, Imports
  <2>a. /\ \A e \in Entities : db.row[e] # 0 => j.row[e] # 0
        /\ \A y \in S : y.seq <= k + 1 => j.row[y.of] # 0
    <3>1. \A e \in Entities : n.row[e] # 0 => j.row[e] # 0
      BY <2>3 DEF Imports
    <3>2. \A y \in S : y.seq = k + 1 => j.row[y.of] # 0
      BY <2>1, <2>3 DEF Imports
    <3>3. \A y \in S : y.seq <= k => n.row[y.of] # 0
      BY DEF Along
    <3>4. \A e \in Entities : db.row[e] # 0 => n.row[e] # 0
      BY DEF Along
    <3>5. \A y \in S : y.seq <= k + 1 => y.seq <= k \/ y.seq = k + 1
      BY <1>0
    <3> QED
      BY <1>0, <3>1, <3>2, <3>3, <3>4, <3>5
  <2>6. \A y \in S : y.seq <= k + 1 /\ y.of \in free =>
           j.row[y.of] >= y.row \/ (y.of = Workflow /\ j.row[Workflow] > Alive)
    <3> SUFFICES ASSUME NEW y \in S, y.seq <= k + 1, y.of \in free
                 PROVE  j.row[y.of] >= y.row \/ (y.of = Workflow /\ j.row[Workflow] > Alive)
      OBVIOUS
    <3>1. CASE y.seq = k + 1
      BY <2>1, <2>3, <3>1 DEF Imports
    <3>2. CASE y.seq # k + 1
      <4>1. n.row[y.of] >= y.row \/ (y.of = Workflow /\ n.row[Workflow] > Alive)
        BY <1>0, <3>2 DEF Along
      <4>2. j.row[y.of] >= n.row[y.of] /\ j.row[Workflow] >= n.row[Workflow]
        BY <1>0, <2>3 DEF Imports
      <4> QED
        BY <1>0, <2>0, <4>1, <4>2 DEF Alive
    <3> QED
      BY <3>1, <3>2
  <2>7. \A y \in j.log : y \in db.log \/ (~y.home /\ y.seq >= db.next)
    <3> SUFFICES ASSUME NEW y \in j.log PROVE y \in db.log \/ (~y.home /\ y.seq >= db.next)
      OBVIOUS
    <3>1. y \in n.log \/ (~y.home /\ y.seq >= n.next)
      BY <2>3 DEF Imports
    <3>2. y.seq \in Nat
      BY <2>4 DEF Sane, Bases, Entries
    <3> QED
      BY <1>0, <3>1, <3>2 DEF Along
  <2>8. \A y \in db.log : y \in j.log \/ (y.home /\ \E z \in S : z.of = y.of)
    BY <2>1, <2>3 DEF Along, Imports
  <2>9. \A e \in free : \/ j.row[e] = db.row[e] /\ Home(j, e) = Home(db, e)
                        \/ Covers(far[e], j.row[e], e)
    <3> SUFFICES ASSUME NEW e \in free
                 PROVE  \/ j.row[e] = db.row[e] /\ Home(j, e) = Home(db, e)
                        \/ Covers(far[e], j.row[e], e)
      OBVIOUS
    <3>1. \/ n.row[e] = db.row[e] /\ Home(n, e) = Home(db, e)
          \/ Covers(far[e], n.row[e], e)
      BY DEF Along
    <3>2. /\ \/ j.row[e] = n.row[e] /\ Home(j, e) = Home(n, e)
             \/ Covers(far[e], j.row[e], e)
          /\ Covers(far[e], n.row[e], e) => Covers(far[e], j.row[e], e)
      BY <2>3 DEF Imports
    <3> QED
      BY <3>1, <3>2
  <2>10. \A e \in Entities : j.row[e] = db.row[e] \/ e = Workflow \/ \E z \in S : z.of = e
    BY <2>1, <2>3 DEF Along, Imports
  <2> QED
    BY <2>2, <2>4, <2>5, <2>6, <2>7, <2>8, <2>9, <2>10, <2>a DEF Along
<1> QED
  BY <1>1, <1>2

LEMMA AlongCourse ==
    ASSUME NEW db, Sane(db), NEW S \in SUBSET Entries, NEW N \in Nat,
           NEW far \in [Entities -> Nat], NEW free \in SUBSET Entities,
           \A x \in S : Fair(x, far, free),
           \A x, y \in S : x.seq = y.seq => x = y,
           \A x \in S : x.of \in free => ~Alters(Course(db, S, N)[x.seq - 1].row[x.of], x)
    PROVE  \A k \in 0 .. N : Along(db, Course(db, S, N)[k], S, k, far, free)
<1> DEFINE f == Course(db, S, N)
           T == {k \in 0 .. N : Along(db, f[k], S, k, far, free)}
<1>1. f[0] = db /\ \A k \in 1 .. N : f[k] = Turn(f[k - 1], S, k)
  BY CourseStages
<1> HIDE DEF f
<1>2. 0 \in T
  <2>1. db.row \in [Entities -> Nat] /\ db.next \in Nat
    BY DEF Sane, Bases
  <2>2. \A x \in S : ~(x.seq <= 0)
    BY DEF Entries
  <2>3. \A e \in Entities : db.row[e] >= db.row[e]
    BY <2>1
  <2>4. Workflow \in Entities
    BY Kinds
  <2> QED
    BY <1>1, <2>1, <2>2, <2>3, <2>4 DEF Along
<1>3. ASSUME NEW k \in 0 .. N - 1, k \in T PROVE k + 1 \in T
  <2>1. f[k + 1] = Turn(f[k], S, k + 1)
    BY <1>1
  <2>2. Along(db, f[k], S, k, far, free)
    BY <1>3
  <2>3. \A x \in S : x.seq = k + 1 /\ x.of \in free => ~Alters(f[k].row[x.of], x)
    <3> SUFFICES ASSUME NEW x \in S, x.seq = k + 1, x.of \in free PROVE ~Alters(f[k].row[x.of], x)
      OBVIOUS
    <3>1. x.seq - 1 = k
      OBVIOUS
    <3> QED
      BY <3>1 DEF f
  <2>4. Along(db, f[k + 1], S, k + 1, far, free)
    BY <2>1, <2>2, <2>3, AlongTurn
  <2> QED
    BY <2>4
<1>4. 0 .. N \subseteq T
  <2> HIDE DEF T
  <2> QED
    BY <1>2, <1>3, Induction
<1> QED
  BY <1>4 DEF f

-----------------------------------------------------------------------------
(* The invariant.                                                          *)

\* What a store says: its own entries in the journal and under way.
Says(s, x) ==
    \/ x \in store[s].log /\ x.home
    \/ \E m \in wire : m.to = Peer(s) /\ x \in m.delta.entries

\* The rows that never went astray and whose workflow is not deleted.
Free == {e \in Entities \ strayed : e = Workflow \/ ~Deleted}

Shape ==
    /\ store \in [Stores -> Bases] /\ \A s \in Stores : Sane(store[s])
    /\ wire \subseteq [to : Stores, delta : Deltas]
    /\ strayed \subseteq Tasks \cup Attempts
    /\ claimed \in [Stores -> SUBSET Attempts]
    /\ erased \in BOOLEAN /\ pruned \in BOOLEAN /\ writes \in Nat

\* What a store says was a row of it, under a number of its own.
Honest ==
    \A s \in Stores :
        /\ \A x : Says(s, x) =>
              /\ x.home /\ x.seq < store[s].next /\ Fair(x, store[s].row, Free)
              /\ Deleted \/ erased \/ store[s].row[x.of] # 0
        /\ \A x, y : Says(s, x) /\ Says(s, y) /\ x.seq = y.seq => x = y

\* A batch holds all there is between the cursor and its high-water mark.
Complete ==
    /\ \A s \in Stores : Received(Peer(s)) < store[s].next
    /\ \A m \in wire :
          /\ m.delta.high < store[Peer(m.to)].next
          /\ \A x \in m.delta.entries : x.seq <= m.delta.high
          /\ \A x \in store[Peer(m.to)].log :
                x.home /\ x.seq > Received(m.to) /\ x.seq <= m.delta.high => x \in m.delta.entries

\* An entry by which the peer of s will learn of the task t.
Tells(s, t, y) ==
    y \in store[s].log /\ y.home /\ y.of = t /\ y.seq > Received(Peer(s))

\* A task that the peer does not have is told to it before its attempts.
InOrder(s, t) ==
    /\ store[s].row[t] # 0 => \E y : Tells(s, t, y)
    /\ \A x \in store[s].log : x.home /\ x.of \in Attempts /\ TaskOf[x.of] = t =>
          \E y : Tells(s, t, y) /\ y.seq < x.seq
    /\ \A m \in wire : m.to = Peer(s) =>
          \A x \in m.delta.entries : x.of \in Attempts /\ TaskOf[x.of] = t =>
              \E y \in m.delta.entries : Tells(s, t, y) /\ y.seq < x.seq

TasksFirst ==
    Deleted \/ erased \/ pruned \/ \A s \in Stores, t \in Tasks : store[Peer(s)].row[t] = 0 => InOrder(s, t)

SInv == Shape /\ Honest /\ Complete /\ NothingIsForgotten /\ TasksFirst

-----------------------------------------------------------------------------
(* Facts about states of that shape.                                       *)

LEMMA ShapeFacts ==
    ASSUME Shape, NEW s \in Stores
    PROVE  /\ store[s] \in Bases /\ Sane(store[s])
           /\ store[s].row \in [Entities -> Nat] /\ store[s].next \in Nat \ {0}
           /\ store[s].cursor \in Int /\ Received(s) \in Nat
           /\ store[s].log \subseteq Entries
           /\ \A x \in store[s].log : x.seq < store[s].next
           /\ \A m \in wire : /\ m.to \in Stores /\ m.delta.high \in Nat
                              /\ m.delta.entries \subseteq Entries
           /\ \A x : Says(s, x) => x \in Entries
           /\ Workflow \notin strayed /\ strayed \subseteq Entities
<1>1. /\ store[s] \in Bases /\ Sane(store[s])
      /\ store[s].row \in [Entities -> Nat] /\ store[s].next \in Nat \ {0}
      /\ store[s].cursor \in Int /\ store[s].log \subseteq Entries
      /\ \A x \in store[s].log : x.seq < store[s].next
  BY DEF Shape, Sane, Numbered, Bases
<1>2. Received(s) \in Nat
  BY <1>1 DEF Received, MaxOf
<1>3. \A m \in wire : /\ m.to \in Stores /\ m.delta.high \in Nat
                      /\ m.delta.entries \subseteq Entries
  BY DEF Shape, Deltas
<1>4. Workflow \notin strayed /\ strayed \subseteq Entities
  BY Kinds DEF Shape
<1> QED
  BY <1>1, <1>2, <1>3, <1>4 DEF Says

LEMMA EntryFacts ==
    ASSUME NEW x \in Entries
    PROVE  x.seq \in Nat \ {0} /\ x.of \in Entities /\ x.op \in Ops /\ x.row \in Nat /\ x.home \in BOOLEAN
  BY DEF Entries

\* No row of a workflow goes down: a deletion stands.
LEMMA DeletedStays ==
    ASSUME Shape, Shape', \A s \in Stores : store'[s].row[Workflow] >= store[s].row[Workflow]
    PROVE  Deleted => Deleted'
<1>1. \A s \in Stores : store[s].row[Workflow] \in Nat /\ store'[s].row[Workflow] \in Nat
  BY Kinds DEF Shape, Bases
<1> QED
  BY <1>1 DEF Deleted, Alive

-----------------------------------------------------------------------------
(* Local writes.                                                           *)

\* Store s writes the row v of e and journals it, unless it claims it; other
\* entries repeat the row of the workflow.
Wrote(s, e, v) ==
    LET db == store[s]
        n == store'[s]
    IN  /\ store' \in [Stores -> Bases] /\ \A r \in Stores : r # s => store'[r] = store[r]
        /\ Sane(n) /\ n.cursor = db.cursor /\ n.next >= db.next
        /\ db.log \subseteq n.log
        /\ \A x \in n.log \ db.log :
              /\ x.home /\ x.seq >= db.next
              /\ (x.of = e /\ x.row = v) \/ (x.of = Workflow /\ x.row = n.row[Workflow])
        /\ e \in claimed'[s] \/ \E x \in n.log \ db.log : x.of = e /\ x.row = v
        /\ n.row[e] = v /\ v >= 1 /\ n.row[Workflow] >= db.row[Workflow]
        /\ n.log = db.log \/ (n.row[Workflow] >= 1 /\ (e \in Attempts => db.row[TaskOf[e]] # 0))
        /\ \/ \A u \in Entities : u # e => n.row[u] = db.row[u]
           \/ e = Workflow /\ v > Alive
        /\ e = Workflow => v > db.row[e]
        /\ strayed' = IF v < db.row[e] THEN strayed \cup {e} ELSE strayed
        /\ claimed' \in [Stores -> SUBSET Attempts]
        /\ \A r \in Stores : \A a \in claimed[r] : a \in claimed'[r] \/ (r = s /\ a = e)
        /\ wire' = wire /\ erased' = erased /\ pruned' = pruned /\ writes' \in Nat

\* A row and its journal entry.
LEMMA PutSane ==
    ASSUME NEW db, Sane(db), NEW e \in Entities, NEW v \in Nat, v >= 1,
           e \in Tasks => v \in TaskRows /\ db.row[Workflow] # 0
    PROVE  LET x == [seq |-> db.next, of |-> e, op |-> "upsert", row |-> v, home |-> TRUE]
           IN  /\ Sane(Put(db, e, v)) /\ Put(db, e, v).row = [db.row EXCEPT ![e] = v]
               /\ Put(db, e, v).cursor = db.cursor /\ Put(db, e, v).next = db.next + 1
               /\ Put(db, e, v).log = db.log \cup {x}
<1> DEFINE d == [db EXCEPT !.row[e] = v]
           yes == TRUE
           up == "upsert"
<1>1. /\ d \in Bases /\ d.row = [db.row EXCEPT ![e] = v]
      /\ d.cursor = db.cursor /\ d.next = db.next /\ d.log = db.log
  BY DEF Sane, Bases
<1>2. Sane(d)
  <2>1. Numbered(d)
    BY <1>1 DEF Sane, Numbered
  <2>2. Rooted(d)
    <3>1. db.row \in [Entities -> Nat]
      BY DEF Sane, Bases
    <3> HIDE DEF d
    <3> QED
      BY <1>1, <3>1, Kinds DEF Sane, Rooted
  <2> QED
    BY <1>1, <2>1, <2>2 DEF Sane
<1>3. Put(db, e, v) = Journaled(d, e, up, v, yes) /\ up \in Ops /\ yes \in BOOLEAN
  BY DEF Put, Ops
<1>4. Entry(d, e, up, v, yes) = [seq |-> db.next, of |-> e, op |-> "upsert", row |-> v, home |-> TRUE]
  BY <1>1 DEF Entry
<1> HIDE DEF d, yes, up
<1>5. /\ Sane(Journaled(d, e, up, v, yes)) /\ Journaled(d, e, up, v, yes).row = d.row
      /\ Journaled(d, e, up, v, yes).cursor = d.cursor /\ Journaled(d, e, up, v, yes).next = d.next + 1
      /\ Journaled(d, e, up, v, yes).log = d.log \cup {Entry(d, e, up, v, yes)}
  BY <1>2, <1>3, JournaledSane
<1> QED
  BY <1>1, <1>3, <1>4, <1>5

\* A write of e through Put.
LEMMA PutWrote ==
    ASSUME Shape, NEW s \in Stores, NEW e \in Entities, NEW v \in Nat, v >= 1,
           store' = [store EXCEPT ![s] = Put(@, e, v)], Written(s, e, v),
           e # Workflow => store[s].row[Workflow] # 0,
           e \in Tasks => v \in TaskRows,
           e = Workflow => store[s].row[Workflow] = 0,
           e \in Attempts => store[s].row[TaskOf[e]] # 0
    PROVE  Wrote(s, e, v)
<1> DEFINE db == store[s]
           n == store'[s]
           x == [seq |-> db.next, of |-> e, op |-> "upsert", row |-> v, home |-> TRUE]
<1>1. /\ Sane(db) /\ db.row \in [Entities -> Nat] /\ db.next \in Nat /\ db.log \subseteq Entries
      /\ \A y \in db.log : y.seq < db.next
      /\ store \in [Stores -> Bases] /\ Workflow \in Entities
  BY ShapeFacts, Kinds DEF Shape
<1>2. n = Put(db, e, v) /\ \A r \in Stores : r # s => store'[r] = store[r]
  BY <1>1
<1>3. /\ Sane(n) /\ n.row = [db.row EXCEPT ![e] = v]
      /\ n.cursor = db.cursor /\ n.next = db.next + 1 /\ n.log = db.log \cup {x}
  <2>1. e \in Tasks => v \in TaskRows /\ db.row[Workflow] # 0
    BY Kinds
  <2> HIDE DEF db, n, x
  <2>2. LET y == [seq |-> db.next, of |-> e, op |-> "upsert", row |-> v, home |-> TRUE]
        IN  /\ Sane(Put(db, e, v)) /\ Put(db, e, v).row = [db.row EXCEPT ![e] = v]
            /\ Put(db, e, v).cursor = db.cursor /\ Put(db, e, v).next = db.next + 1
            /\ Put(db, e, v).log = db.log \cup {y}
    BY <1>1, <2>1, PutSane
  <2> QED
    BY <1>2, <2>2 DEF x
<1>4. store' \in [Stores -> Bases]
  BY <1>1, <1>2, <1>3 DEF Sane
<1>5. x.seq = db.next /\ x.of = e /\ x.row = v /\ x.home
  OBVIOUS
<1>6. x \notin db.log
  BY <1>1, <1>5 DEF Entries
<1>7. n.row[e] = v /\ \A u \in Entities : u # e => n.row[u] = db.row[u]
  BY <1>1, <1>3
<1>8. n.row[Workflow] >= 1 /\ n.row[Workflow] >= db.row[Workflow]
  BY <1>1, <1>7
<1>9. /\ strayed' = IF v < db.row[e] THEN strayed \cup {e} ELSE strayed
      /\ wire' = wire /\ erased' = erased /\ pruned' = pruned /\ writes' \in Nat
      /\ claimed' \in [Stores -> SUBSET Attempts]
      /\ \A r \in Stores : \A a \in claimed[r] : a \in claimed'[r] \/ (r = s /\ a = e)
  BY DEF Written, Writes, Shape
<1> HIDE DEF db, n, x
<1>10. n.next >= db.next /\ db.log \subseteq n.log
       /\ \A y \in n.log \ db.log : y = x
  BY <1>1, <1>3
<1>11. \A y \in n.log \ db.log : y.home /\ y.seq >= db.next /\ y.of = e /\ y.row = v
  BY <1>1, <1>5, <1>10
<1>12. \E y \in n.log \ db.log : y.of = e /\ y.row = v
  BY <1>3, <1>5, <1>6
<1>13. e = Workflow => v > db.row[e]
  BY <1>1 DEF db
<1> QED
  BY <1>2, <1>3, <1>4, <1>7, <1>8, <1>9, <1>10, <1>11, <1>12, <1>13 DEF Wrote, db, n

\* The workflow row that a task's update journals on top.
LEMMA RollupWrote ==
    ASSUME Shape, NEW s \in Stores, NEW e \in Tasks, NEW v \in TaskRows, NEW op \in Rollups,
           store' = [store EXCEPT ![s] = Journaled(Put(@, e, v), Workflow, op, @.row[Workflow], TRUE)],
           Written(s, e, v), store[s].row[Workflow] # 0
    PROVE  Wrote(s, e, v)
<1> DEFINE db == store[s]
           p == Put(db, e, v)
           n == store'[s]
           w == db.row[Workflow]
           x == [seq |-> db.next, of |-> e, op |-> "upsert", row |-> v, home |-> TRUE]
           y == [seq |-> p.next, of |-> Workflow, op |-> op, row |-> w, home |-> TRUE]
           yes == TRUE
<1>1. /\ Sane(db) /\ db.row \in [Entities -> Nat] /\ db.next \in Nat /\ db.log \subseteq Entries
      /\ \A z \in db.log : z.seq < db.next
      /\ store \in [Stores -> Bases] /\ Workflow \in Entities /\ e \in Entities /\ e # Workflow
      /\ e \notin Attempts /\ v \in Nat /\ v >= 1
  BY ShapeFacts, Kinds, PeerSyncAssumption DEF Shape
<1>2. n = Journaled(p, Workflow, op, w, yes) /\ \A r \in Stores : r # s => store'[r] = store[r]
  BY <1>1
<1>3. /\ Sane(p) /\ p.row = [db.row EXCEPT ![e] = v]
      /\ p.cursor = db.cursor /\ p.next = db.next + 1 /\ p.log = db.log \cup {x}
  BY <1>1, PutSane
<1>4. w \in Nat /\ op \in Ops /\ yes \in BOOLEAN /\ w >= 1
  BY <1>1 DEF Ops
<1>5. Entry(p, Workflow, op, w, yes) = y
  BY DEF Entry
<1>6. x.seq = db.next /\ x.of = e /\ x.row = v /\ x.home /\ y.seq = p.next /\ y.of = Workflow /\ y.row = w /\ y.home
  OBVIOUS
<1>7. /\ strayed' = IF v < db.row[e] THEN strayed \cup {e} ELSE strayed
      /\ wire' = wire /\ erased' = erased /\ pruned' = pruned /\ writes' \in Nat
      /\ claimed' \in [Stores -> SUBSET Attempts]
      /\ \A r \in Stores : \A a \in claimed[r] : a \in claimed'[r] \/ (r = s /\ a = e)
  BY DEF Written, Writes, Shape
<1> HIDE DEF p, x, y, yes, n, w, db
<1>8. /\ Sane(n) /\ n.row = p.row /\ n.cursor = p.cursor /\ n.next = p.next + 1
      /\ n.log = p.log \cup {y}
  <2>1. Workflow \in Entities /\ Sane(p) /\ n = Journaled(p, Workflow, op, w, yes)
    BY <1>1, <1>2, <1>3
  <2> QED
    BY <1>4, <1>5, <2>1, JournaledSane
<1>9. store' \in [Stores -> Bases]
  BY <1>1, <1>2, <1>8 DEF Sane, n
<1>10. x \notin db.log
  BY <1>1, <1>6 DEF Entries
<1>11. n.row[e] = v /\ \A u \in Entities : u # e => n.row[u] = db.row[u]
  BY <1>1, <1>3, <1>8
<1>12. n.row[Workflow] >= 1 /\ n.row[Workflow] >= db.row[Workflow] /\ n.row[Workflow] = w
  BY <1>1, <1>4, <1>11 DEF w
<1>13. n.next >= db.next /\ db.log \subseteq n.log
       /\ \A z \in n.log \ db.log : z = x \/ z = y
  BY <1>1, <1>3, <1>8
<1>14. \A z \in n.log \ db.log : z.home /\ z.seq >= db.next
                             /\ ((z.of = e /\ z.row = v) \/ (z.of = Workflow /\ z.row = n.row[Workflow]))
  BY <1>1, <1>3, <1>6, <1>12, <1>13
<1>15. \E z \in n.log \ db.log : z.of = e /\ z.row = v
  BY <1>3, <1>6, <1>8, <1>10
<1> QED
  BY <1>1, <1>2, <1>3, <1>7, <1>8, <1>9, <1>11, <1>12, <1>13, <1>14, <1>15 DEF Wrote, db, n

LEMMA DeleteWrote ==
    ASSUME Shape, NEW s \in Stores, DeleteWorkflow(s)
    PROVE  Wrote(s, Workflow, Alive + 1 + writes)
<1> DEFINE db == store[s]
           v == Alive + 1 + writes
           d == [db EXCEPT !.row = [e \in Entities |-> IF e = Workflow THEN v ELSE 0]]
           n == store'[s]
           x == [seq |-> db.next, of |-> Workflow, op |-> "tombstone", row |-> v, home |-> TRUE]
           yes == TRUE
           op == "tombstone"
<1>1. /\ Sane(db) /\ db.row \in [Entities -> Nat] /\ db.next \in Nat /\ db.log \subseteq Entries
      /\ \A z \in db.log : z.seq < db.next
      /\ store \in [Stores -> Bases] /\ Workflow \in Entities /\ Workflow \notin Attempts
      /\ v \in Nat /\ v > Alive /\ v >= 1 /\ db.row[Workflow] = Alive /\ v > db.row[Workflow]
  BY ShapeFacts, Kinds DEF Shape, DeleteWorkflow, Alive
<1>2. /\ d \in Bases /\ d.row = [e \in Entities |-> IF e = Workflow THEN v ELSE 0] /\ d.row[Workflow] = v
      /\ d.cursor = db.cursor /\ d.next = db.next /\ d.log = db.log
  BY <1>1 DEF Sane, Bases
<1>3. Sane(d)
  BY <1>1, <1>2, Kinds DEF Sane, Numbered, Rooted
<1>4. n = Journaled(d, Workflow, op, v, yes) /\ \A r \in Stores : r # s => store'[r] = store[r]
  BY <1>1, <1>2 DEF DeleteWorkflow
<1>a. store' = [store EXCEPT ![s] = n]
  BY <1>1 DEF DeleteWorkflow
<1>5. op \in Ops /\ yes \in BOOLEAN /\ Entry(d, Workflow, op, v, yes) = x
  BY <1>2 DEF Ops, Entry
<1>6. x.seq = db.next /\ x.of = Workflow /\ x.row = v /\ x.home
  OBVIOUS
<1>7. /\ strayed' = IF v < db.row[Workflow] THEN strayed \cup {Workflow} ELSE strayed
      /\ wire' = wire /\ erased' = erased /\ pruned' = pruned /\ writes' \in Nat
      /\ claimed' \in [Stores -> SUBSET Attempts]
      /\ \A r \in Stores : \A a \in claimed[r] : a \in claimed'[r] \/ (r = s /\ a = Workflow)
  BY DEF Written, Writes, Shape, DeleteWorkflow
<1> HIDE DEF d, x, yes, n, op
<1>8. /\ Sane(n) /\ n.row = d.row /\ n.cursor = d.cursor /\ n.next = d.next + 1
      /\ n.log = d.log \cup {x}
  BY <1>1, <1>3, <1>4, <1>5, JournaledSane
<1> HIDE DEF db, v
<1>9. store' \in [Stores -> Bases]
  BY <1>1, <1>a, <1>8 DEF Sane
<1>10. x \notin db.log
  BY <1>1, <1>6 DEF Entries
<1>11. n.next >= db.next /\ db.log \subseteq n.log /\ \A z \in n.log \ db.log : z = x
  BY <1>1, <1>2, <1>8
<1>12. \A z \in n.log \ db.log : z.home /\ z.seq >= db.next /\ z.of = Workflow /\ z.row = v
  BY <1>1, <1>6, <1>11
<1>13. \E z \in n.log \ db.log : z.of = Workflow /\ z.row = v
  BY <1>2, <1>6, <1>8, <1>10
<1>14. n.row[Workflow] = v /\ n.cursor = db.cursor /\ n.row[Workflow] >= 1 /\ n.row[Workflow] >= db.row[Workflow]
  BY <1>1, <1>2, <1>8
<1> QED
  BY <1>1, <1>4, <1>7, <1>8, <1>9, <1>11, <1>12, <1>13, <1>14 DEF Wrote, db, n, v

\* The claim of an attempt changes its row and journals nothing.
LEMMA ClaimWrote ==
    ASSUME Shape, NEW s \in Stores, NEW a \in Attempts, NEW v \in AttemptRows, ClaimAttempt(s, a, v)
    PROVE  Wrote(s, a, v)
<1> DEFINE db == store[s]
           n == store'[s]
<1>1. /\ Sane(db) /\ db \in Bases /\ db.row \in [Entities -> Nat] /\ store \in [Stores -> Bases]
      /\ db.next \in Nat
      /\ Workflow \in Entities /\ a \in Entities /\ a # Workflow /\ a \notin Tasks
      /\ v \in Nat /\ v >= 1 /\ Tasks \subseteq Entities
  BY ShapeFacts, Kinds, PeerSyncAssumption DEF Shape
<1>2. n = [db EXCEPT !.row[a] = v] /\ \A r \in Stores : r # s => store'[r] = store[r]
  BY <1>1 DEF ClaimAttempt
<1>3. /\ n \in Bases /\ n.row = [db.row EXCEPT ![a] = v] /\ n.log = db.log
      /\ n.cursor = db.cursor /\ n.next = db.next
  <2> HIDE DEF db, n
  <2> QED
    BY <1>1, <1>2 DEF Bases
<1>4. /\ strayed' = IF v < db.row[a] THEN strayed \cup {a} ELSE strayed
      /\ wire' = wire /\ erased' = erased /\ pruned' = pruned /\ writes' \in Nat
      /\ claimed' \in [Stores -> SUBSET Attempts] /\ a \in claimed'[s]
      /\ \A r \in Stores : \A c \in claimed[r] : c \in claimed'[r] \/ (r = s /\ c = a)
  BY DEF ClaimAttempt, Writes, Shape
<1>5. store' \in [Stores -> Bases]
  BY <1>1, <1>3 DEF ClaimAttempt
<1> HIDE DEF db, n
<1>6. Sane(n)
  BY <1>1, <1>3 DEF Sane, Numbered, Rooted
<1>7. n.row[a] = v /\ \A u \in Entities : u # a => n.row[u] = db.row[u]
  BY <1>1, <1>3
<1>8. n.row[Workflow] >= db.row[Workflow]
  BY <1>1, <1>7
<1> QED
  BY <1>1, <1>2, <1>3, <1>4, <1>5, <1>6, <1>7, <1>8 DEF Wrote, db, n

LEMMA LocalWrote ==
    ASSUME Shape, NEW s \in Stores,
           \/ SaveWorkflow(s) \/ DeleteWorkflow(s)
           \/ \E t \in Tasks, v \in TaskRows : SaveTask(s, t, v) \/ UpdateTask(s, t, v)
           \/ \E a \in Attempts, v \in AttemptRows : WriteAttempt(s, a, v) \/ ClaimAttempt(s, a, v)
    PROVE  \E e \in Entities, v \in Nat : Wrote(s, e, v)
<1>0. /\ \A v \in TaskRows \cup AttemptRows : v \in Nat /\ v >= 1
      /\ Rooted(store[s])
  BY ShapeFacts, PeerSyncAssumption DEF Sane
<1>a. Alive \in Nat /\ Alive >= 1 /\ Alive # 0
  BY DEF Alive
<1>1. CASE SaveWorkflow(s)
  <2>1. Wrote(s, Workflow, Alive)
    BY <1>1, <1>a, Kinds, PutWrote DEF SaveWorkflow
  <2> QED
    BY <1>a, <2>1, Kinds
<1>2. CASE DeleteWorkflow(s)
  BY <1>2, Kinds, DeleteWrote DEF Shape, Alive
<1>3. ASSUME NEW v \in TaskRows, NEW t \in Tasks, SaveTask(s, t, v)
      PROVE  \E e \in Entities, w \in Nat : Wrote(s, e, w)
  <2>1. Wrote(s, t, v)
    BY <1>0, <1>3, <1>a, Kinds, PutWrote DEF SaveTask
  <2> QED
    BY <1>0, <2>1, Kinds
<1>4. ASSUME NEW v \in TaskRows, NEW t \in Tasks, UpdateTask(s, t, v)
      PROVE  \E e \in Entities, w \in Nat : Wrote(s, e, w)
  <2>1. store[s].row[t] # 0 /\ store[s].row[Workflow] # 0 /\ Written(s, t, v)
    BY <1>0, <1>4 DEF UpdateTask, Rooted
  <2>2. CASE store' = [store EXCEPT ![s] = Put(@, t, v)]
    BY <1>0, <2>1, <2>2, Kinds, PutWrote
  <2>3. ASSUME NEW op \in Rollups,
               store' = [store EXCEPT ![s] = Journaled(Put(@, t, v), Workflow, op, @.row[Workflow], TRUE)]
        PROVE  \E e \in Entities, w \in Nat : Wrote(s, e, w)
    <3>1. Wrote(s, t, v)
      BY <2>1, <2>3, RollupWrote
    <3> QED
      BY <1>0, <3>1, Kinds
  <2> QED
    BY <1>4, <2>2, <2>3 DEF UpdateTask
<1>5. ASSUME NEW v \in AttemptRows, NEW a \in Attempts, WriteAttempt(s, a, v)
      PROVE  \E e \in Entities, w \in Nat : Wrote(s, e, w)
  <2>1. store[s].row[Workflow] # 0
    BY <1>0, <1>5, Kinds DEF WriteAttempt, Rooted
  <2> QED
    BY <1>0, <1>5, <2>1, Kinds, PutWrote DEF WriteAttempt
<1>6. ASSUME NEW v \in AttemptRows, NEW a \in Attempts, ClaimAttempt(s, a, v)
      PROVE  \E e \in Entities, w \in Nat : Wrote(s, e, w)
  BY <1>0, <1>6, ClaimWrote, Kinds
<1> QED
  BY <1>1, <1>2, <1>3, <1>4, <1>5, <1>6

-----------------------------------------------------------------------------
(* A local write keeps the invariant.                                      *)

\* What a write changes, and what it does not.
LEMMA WroteFacts ==
    ASSUME Shape, NEW s \in Stores, NEW e \in Entities, NEW v \in Nat, Wrote(s, e, v)
    PROVE  /\ Shape' /\ (Deleted => Deleted') /\ Free' \subseteq Free
           /\ \A r \in Stores : /\ store'[r].row[Workflow] >= store[r].row[Workflow]
                                /\ store'[r].next >= store[r].next
                                /\ Received(r)' = Received(r)
                                /\ store[r].log \subseteq store'[r].log
                                /\ \A u \in Free' : store'[r].row[u] >= store[r].row[u]
                                /\ \A u \in Free' : u # e => store'[r].row[u] = store[r].row[u]
                                /\ ~Deleted' => \A u \in Entities : store[r].row[u] # 0 => store'[r].row[u] # 0
           /\ \A r \in Stores : \A x : Says(r, x)' =>
                 \/ Says(r, x)
                 \/ r = s /\ x \in store'[s].log \ store[s].log
           /\ \A r \in Stores : \A x : Says(r, x) => Says(r, x)'
<1>1. Shape'
  <2>1. \A r \in Stores : Sane(store'[r])
    BY DEF Wrote, Shape
  <2>2. strayed' \subseteq Tasks \cup Attempts
    BY Kinds, ShapeFacts DEF Wrote, Shape, Entities
  <2> QED
    BY <2>1, <2>2 DEF Wrote, Shape
<1>2. \A r \in Stores : /\ store[r].row \in [Entities -> Nat] /\ store'[r].row \in [Entities -> Nat]
                        /\ store[r].next \in Nat /\ store'[r].next \in Nat
  BY <1>1 DEF Shape, Bases
<1>3. \A r \in Stores : store'[r].row[Workflow] >= store[r].row[Workflow]
  BY <1>2, Kinds DEF Wrote
<1>4. Deleted => Deleted'
  BY <1>1, <1>3, DeletedStays
<1>5. Free' \subseteq Free
  BY <1>4 DEF Free, Wrote
<1>6. \A r \in Stores : store'[r].next >= store[r].next /\ Received(r)' = Received(r)
  BY <1>2 DEF Wrote, Received
<1>7. \A r \in Stores : store[r].log \subseteq store'[r].log
  BY DEF Wrote
<1>8. \A u \in Free' : u # e => store'[s].row[u] = store[s].row[u]
  <2>1. CASE e = Workflow /\ v > Alive
    <3>1. Deleted'
      BY <2>1 DEF Wrote, Deleted
    <3> QED
      BY <2>1, <3>1 DEF Free
  <2> QED
    BY <2>1 DEF Wrote, Free
<1>9. e \in Free' => store'[s].row[e] >= store[s].row[e]
  BY <1>2 DEF Wrote, Free
<1>10. \A r \in Stores, u \in Free' :
          store'[r].row[u] >= store[r].row[u] /\ (u # e => store'[r].row[u] = store[r].row[u])
  <2> SUFFICES ASSUME NEW r \in Stores, NEW u \in Free'
               PROVE  store'[r].row[u] >= store[r].row[u] /\ (u # e => store'[r].row[u] = store[r].row[u])
    OBVIOUS
  <2>1. u \in Entities
    BY DEF Free
  <2>2. CASE r # s
    BY <1>2, <2>1, <2>2 DEF Wrote
  <2>3. CASE r = s
    BY <1>2, <1>8, <1>9, <2>1, <2>3
  <2> QED
    BY <2>2, <2>3
<1>11. \A r \in Stores : ~Deleted' => \A u \in Entities : store[r].row[u] # 0 => store'[r].row[u] # 0
  <2>1. ~Deleted' => ~(e = Workflow /\ v > Alive)
    BY DEF Wrote, Deleted
  <2> QED
    BY <1>2, <2>1 DEF Wrote
<1>12. \A r \in Stores : \A x : Says(r, x)' =>
          \/ Says(r, x)
          \/ r = s /\ x \in store'[s].log \ store[s].log
  BY DEF Wrote, Says
<1>13. \A r \in Stores : \A x : Says(r, x) => Says(r, x)'
  BY <1>7 DEF Wrote, Says
<1> QED
  BY <1>1, <1>3, <1>4, <1>5, <1>6, <1>7, <1>10, <1>11, <1>12, <1>13

LEMMA WroteHonest ==
    ASSUME Shape, Honest, NEW s \in Stores, NEW e \in Entities, NEW v \in Nat, Wrote(s, e, v)
    PROVE  Honest'
<1>0. /\ Shape' /\ Free' \subseteq Free /\ Workflow \in Entities
      /\ \A r \in Stores : /\ store[r].row \in [Entities -> Nat] /\ store'[r].row \in [Entities -> Nat]
                           /\ store[r].next \in Nat /\ store'[r].next \in Nat
      /\ \A x \in store'[s].log : x \in Entries /\ x.seq < store'[s].next
  BY WroteFacts, Kinds DEF Shape, Sane, Numbered, Bases
<1>1. ASSUME NEW r \in Stores, NEW x, Says(r, x)'
      PROVE  /\ x.home /\ x.seq < store'[r].next /\ Fair(x, store'[r].row, Free')
             /\ Deleted' \/ erased' \/ store'[r].row[x.of] # 0
  <2>1. CASE Says(r, x)
    <3>1. x \in Entries /\ x.of \in Entities /\ x.seq \in Nat /\ x.row \in Nat
      BY <2>1, ShapeFacts, EntryFacts
    <3>2. /\ x.home /\ x.seq < store[r].next /\ Fair(x, store[r].row, Free)
          /\ Deleted \/ erased \/ store[r].row[x.of] # 0
      BY <2>1 DEF Honest
    <3>3. /\ store'[r].next >= store[r].next /\ store'[r].row[Workflow] >= store[r].row[Workflow]
          /\ x.of \in Free' => store'[r].row[x.of] >= store[r].row[x.of]
          /\ ~Deleted' => ~Deleted /\ (store[r].row[x.of] # 0 => store'[r].row[x.of] # 0)
      BY <3>1, WroteFacts
    <3>4. Fair(x, store'[r].row, Free')
      BY <1>0, <3>1, <3>2, <3>3 DEF Fair
    <3>5. x.seq < store'[r].next
      BY <1>0, <3>1, <3>2, <3>3
    <3>6. erased' = erased
      BY DEF Wrote
    <3> QED
      BY <3>2, <3>3, <3>4, <3>5, <3>6
  <2>2. CASE r = s /\ x \in store'[s].log \ store[s].log
    <3>1. /\ x.home
          /\ (x.of = e /\ x.row = v) \/ (x.of = Workflow /\ x.row = store'[s].row[Workflow])
          /\ store'[s].row[e] = v /\ v >= 1 /\ store'[s].row[Workflow] >= 1
      BY <2>2 DEF Wrote
    <3>2. x.row = store'[s].row[x.of] /\ x.row >= 1
      BY <3>1
    <3>3. x.of \in Tasks => x.row \in TaskRows
      BY <1>0, <2>2, <3>2 DEF Shape, Sane, Rooted
    <3>4. Fair(x, store'[r].row, Free')
      BY <1>0, <2>2, <3>1, <3>2, <3>3 DEF Fair
    <3> QED
      BY <1>0, <2>2, <3>1, <3>2, <3>4, EntryFacts
  <2> QED
    BY <1>1, <2>1, <2>2, WroteFacts
<1>2. ASSUME NEW r \in Stores, NEW x, NEW y, Says(r, x)', Says(r, y)', x.seq = y.seq
      PROVE  x = y
  <2>1. \A z : Says(r, z) => z.seq < store[r].next /\ z.seq \in Nat
    BY ShapeFacts, EntryFacts DEF Honest
  <2>2. \A z \in store'[s].log \ store[s].log : z.seq >= store[s].next /\ z.seq \in Nat
    BY <1>0, EntryFacts DEF Wrote
  <2>3. CASE Says(r, x) /\ Says(r, y)
    BY <1>2, <2>3 DEF Honest
  <2>4. CASE r = s /\ x \in store'[s].log /\ y \in store'[s].log
    BY <1>0, <1>2, <2>4 DEF Shape, Sane, Numbered
  <2> QED
    BY <1>0, <1>2, <2>1, <2>2, <2>3, <2>4, WroteFacts
<1> QED
  BY <1>1, <1>2 DEF Honest

LEMMA WroteComplete ==
    ASSUME Shape, Complete, NEW s \in Stores, NEW e \in Entities, NEW v \in Nat, Wrote(s, e, v)
    PROVE  Complete'
<1>0. /\ Shape' /\ wire' = wire
      /\ \A r \in Stores : /\ store[r].next \in Nat /\ store'[r].next \in Nat
                           /\ store'[r].next >= store[r].next /\ Received(r)' = Received(r)
                           /\ Received(r) \in Nat
  <2>0. wire' = wire
    BY DEF Wrote
  <2>1. /\ Shape'
        /\ \A r \in Stores : store'[r].next >= store[r].next /\ Received(r)' = Received(r)
    BY WroteFacts
  <2>2. \A r \in Stores : store[r].next \in Nat /\ store'[r].next \in Nat
    BY <2>1 DEF Shape, Bases
  <2>3. \A r \in Stores : Received(r) \in Nat
    BY ShapeFacts
  <2> QED
    BY <2>0, <2>1, <2>2, <2>3
<1>1. \A r \in Stores : Received(Peer(r))' < store'[r].next
  BY <1>0, PeerFacts DEF Complete
<1>2. ASSUME NEW m \in wire
      PROVE  /\ m.delta.high < store'[Peer(m.to)].next
             /\ \A x \in m.delta.entries : x.seq <= m.delta.high
             /\ \A x \in store'[Peer(m.to)].log :
                   x.home /\ x.seq > Received(m.to)' /\ x.seq <= m.delta.high => x \in m.delta.entries
  <2>1. m.to \in Stores /\ Peer(m.to) \in Stores /\ m.delta.high \in Nat
    BY ShapeFacts, PeerFacts
  <2>2. /\ m.delta.high < store[Peer(m.to)].next
        /\ \A x \in m.delta.entries : x.seq <= m.delta.high
        /\ \A x \in store[Peer(m.to)].log :
              x.home /\ x.seq > Received(m.to) /\ x.seq <= m.delta.high => x \in m.delta.entries
    BY DEF Complete
  <2>3. \A x \in store'[Peer(m.to)].log :
           x \in store[Peer(m.to)].log \/ (x.seq >= store[Peer(m.to)].next /\ x.seq \in Nat)
    BY <1>0, <2>1, EntryFacts DEF Wrote, Shape, Bases
  <2> QED
    BY <1>0, <2>1, <2>2, <2>3
<1> QED
  BY <1>0, <1>1, <1>2 DEF Complete

LEMMA WroteForgets ==
    ASSUME Shape, Complete, NothingIsForgotten,
           NEW s \in Stores, NEW e \in Entities, NEW v \in Nat, Wrote(s, e, v)
    PROVE  NothingIsForgotten'
<1> SUFFICES ASSUME NEW r \in Stores, NEW u \in Entities, u \notin strayed', u \notin claimed'[r], ~pruned',
                    u = Workflow \/ ~Deleted', Ahead(r, u)'
             PROVE  \E x \in Home(store'[r], u) : x.row = store'[r].row[u] /\ x.seq > Received(Peer(r))'
  BY DEF NothingIsForgotten
<1>0. /\ Shape' /\ Peer(r) \in Stores /\ r = Peer(Peer(r)) /\ Peer(r) # r
      /\ \A q \in Stores : /\ store[q].row \in [Entities -> Nat] /\ store'[q].row \in [Entities -> Nat]
                           /\ store[q].next \in Nat /\ Received(q) \in Nat
                           /\ store[q].log \subseteq store'[q].log /\ Received(q)' = Received(q)
      /\ u \in Free' /\ u \in Free /\ s \in {r, Peer(r)}
  <2>1. u \in Free'
    BY DEF Free
  <2>2. \A q \in Stores : /\ store'[q].row \in [Entities -> Nat] /\ store[q].next \in Nat
                          /\ store[q].row \in [Entities -> Nat] /\ Received(q) \in Nat
    BY ShapeFacts, WroteFacts DEF Shape, Bases
  <2> QED
    BY <2>1, <2>2, WroteFacts, PeerFacts
<1>1. CASE r = s /\ u = e
  <2>1. PICK x \in store'[s].log \ store[s].log : x.of = e /\ x.row = v
    BY <1>1 DEF Wrote
  <2>2. x.home /\ x.seq >= store[s].next /\ store'[s].row[e] = v /\ x.seq \in Nat
    BY <1>0, EntryFacts DEF Wrote, Shape, Bases
  <2>3. Received(Peer(s)) < store[s].next
    BY DEF Complete
  <2>4. x.seq > Received(Peer(s))'
    BY <1>0, <1>1, <2>2, <2>3
  <2> QED
    BY <1>1, <2>1, <2>2, <2>4 DEF Home
<1>2. CASE ~(r = s /\ u = e)
  <2>1. store'[r].row[u] = store[r].row[u]
    <3>1. CASE u # e
      BY <1>0, <3>1, WroteFacts
    <3>2. CASE r # s
      BY <3>2 DEF Wrote
    <3> QED
      BY <1>2, <3>1, <3>2
  <2>2. store'[Peer(r)].row[u] >= store[Peer(r)].row[u]
    BY <1>0, WroteFacts
  <2>3. Ahead(r, u)
    BY <1>0, <2>1, <2>2 DEF Ahead, Alive
  <2>4. ~pruned /\ u \notin strayed /\ u \notin claimed[r] /\ (u = Workflow \/ ~Deleted)
    BY <1>0, <1>2 DEF Wrote, Free
  <2>5. PICK x \in Home(store[r], u) : x.row = store[r].row[u] /\ x.seq > Received(Peer(r))
    BY <1>0, <2>3, <2>4 DEF NothingIsForgotten
  <2>6. x \in Home(store'[r], u)
    BY <1>0 DEF Home
  <2> QED
    BY <1>0, <2>1, <2>5, <2>6
<1> QED
  BY <1>1, <1>2

LEMMA WroteInOrder ==
    ASSUME Shape, Honest, Complete, TasksFirst,
           NEW s \in Stores, NEW e \in Entities, NEW v \in Nat, Wrote(s, e, v)
    PROVE  TasksFirst'
<1> SUFFICES ASSUME ~Deleted', ~erased', ~pruned', NEW r \in Stores, NEW t \in Tasks,
                    store'[Peer(r)].row[t] = 0
             PROVE  InOrder(r, t)'
  BY DEF TasksFirst
<1>0. /\ Shape' /\ Peer(r) \in Stores /\ Peer(r) # r /\ t \in Entities /\ wire' = wire
      /\ \A q \in Stores : /\ store[q].next \in Nat /\ Received(q) \in Nat
                           /\ store[q].log \subseteq store'[q].log /\ Received(q)' = Received(q)
                           /\ \A u \in Entities : store[q].row[u] # 0 => store'[q].row[u] # 0
                           /\ \A x \in store'[q].log : x.seq \in Nat
  <2>1. Shape' /\ \A q \in Stores : \A x \in store'[q].log : x.seq \in Nat
    BY WroteFacts, EntryFacts DEF Shape, Bases
  <2>2. \A q \in Stores : store[q].next \in Nat /\ Received(q) \in Nat
    BY ShapeFacts
  <2>3. \A q \in Stores : /\ store[q].log \subseteq store'[q].log /\ Received(q)' = Received(q)
                          /\ \A u \in Entities : store[q].row[u] # 0 => store'[q].row[u] # 0
    BY WroteFacts
  <2>4. Peer(r) \in Stores /\ Peer(r) # r /\ t \in Entities /\ wire' = wire
    BY PeerFacts, Kinds DEF Wrote
  <2> QED
    BY <2>1, <2>2, <2>3, <2>4
<1>1. InOrder(r, t)
  <2>1. ~Deleted /\ ~erased /\ ~pruned
    BY WroteFacts DEF Wrote
  <2>2. store[Peer(r)].row[t] = 0
    BY <1>0
  <2> QED
    BY <2>1, <2>2 DEF TasksFirst
<1>2. \A y : Tells(r, t, y) => Tells(r, t, y)'
  BY <1>0 DEF Tells
<1>3. Received(Peer(r)) < store[r].next
  BY DEF Complete
<1>4. store'[r].row[t] # 0 => \E y : Tells(r, t, y)'
  <2>1. CASE store[r].row[t] # 0
    BY <1>1, <1>2, <2>1 DEF InOrder
  <2>2. CASE store[r].row[t] = 0 /\ store'[r].row[t] # 0
    <3>1. r = s /\ e = t
      <4>1. ~(e = Workflow /\ v > Alive)
        BY DEF Wrote, Deleted
      <4> QED
        BY <1>0, <2>2, <4>1 DEF Wrote
    <3>a. e \notin claimed'[s]
      BY <3>1, Kinds DEF Wrote
    <3>2. PICK x \in store'[s].log \ store[s].log : x.of = e /\ x.row = v
      BY <3>a DEF Wrote
    <3>3. x.home /\ x.seq >= store[s].next
      BY DEF Wrote
    <3>4. x.seq > Received(Peer(r))'
      BY <1>0, <1>3, <3>1, <3>2, <3>3
    <3>5. Tells(r, t, x)'
      BY <3>1, <3>2, <3>3, <3>4 DEF Tells
    <3> QED
      BY <3>5
  <2> QED
    BY <2>1, <2>2
<1>5. ASSUME NEW x \in store'[r].log, x.home, x.of \in Attempts, TaskOf[x.of] = t
      PROVE  \E y : Tells(r, t, y)' /\ y.seq < x.seq
  <2>1. CASE x \in store[r].log
    BY <1>1, <1>2, <1>5, <2>1 DEF InOrder
  <2>2. CASE x \notin store[r].log
    <3>1. r = s /\ x.of = e /\ x.seq >= store[s].next
      BY <1>5, <2>2, Kinds DEF Wrote
    <3>2. store[r].row[t] # 0
      BY <1>5, <2>2, <3>1 DEF Wrote
    <3>3. PICK y : Tells(r, t, y)
      BY <1>1, <3>2 DEF InOrder
    <3>4. y.seq < store[r].next /\ y.seq \in Nat
      BY <1>0, <3>3, ShapeFacts DEF Tells
    <3>5. y.seq < x.seq
      BY <1>0, <1>5, <3>1, <3>4
    <3> QED
      BY <1>2, <3>3, <3>5
  <2> QED
    BY <2>1, <2>2
<1>6. ASSUME NEW m \in wire', m.to = Peer(r), NEW x \in m.delta.entries,
             x.of \in Attempts, TaskOf[x.of] = t
      PROVE  \E y \in m.delta.entries : Tells(r, t, y)' /\ y.seq < x.seq
  BY <1>0, <1>1, <1>2, <1>6 DEF InOrder
<1> QED
  BY <1>4, <1>5, <1>6 DEF InOrder

LEMMA WroteKeeps ==
    ASSUME SInv, NEW s \in Stores, NEW e \in Entities, NEW v \in Nat, Wrote(s, e, v)
    PROVE  SInv'
  BY WroteFacts, WroteHonest, WroteComplete, WroteForgets, WroteInOrder DEF SInv

-----------------------------------------------------------------------------
(* Batches that are exported and lost; journals that are pruned.           *)

LEMMA DeltaFacts ==
    ASSUME Shape, NEW s \in Stores, NEW since \in Nat
    PROVE  LET d == Delta(store[s], since)
           IN  /\ d \in Deltas
               /\ d.high \in {x.seq : x \in store[s].log} \cup {since}
               /\ \A x \in store[s].log : x.seq <= d.high
               /\ d.entries = {x \in store[s].log : x.home /\ x.seq > since}
<1> DEFINE db == store[s]
           N == Seqs(db) \cup {since}
           b == IF db.next > since THEN db.next ELSE since + 1
<1>1. /\ db.log \subseteq Entries /\ db.next \in Nat /\ \A x \in db.log : x.seq < db.next /\ x.seq \in Nat
  BY ShapeFacts, EntryFacts
<1>2. N \in SUBSET Nat /\ N # {} /\ b \in Nat /\ \A n \in N : n < b
  BY <1>1 DEF Seqs
<1>3. \E n \in N : \A m \in N : n >= m
  <2> HIDE DEF N, b
  <2> QED
    BY <1>2, Greatest
<1>4. /\ HighWater(db, since) \in N /\ \A m \in N : HighWater(db, since) >= m
  BY <1>3 DEF HighWater
<1>5. HighWater(db, since) \in Nat /\ \A x \in db.log : x.seq <= HighWater(db, since)
  BY <1>1, <1>2, <1>4 DEF Seqs
<1> QED
  BY <1>1, <1>4, <1>5 DEF Delta, Deltas, Seqs

LEMMA ExportKeeps ==
    ASSUME SInv, NEW s \in Stores, Export(s)
    PROVE  SInv'
<1>1. /\ \A q \in Stores : Received(q) \in Nat /\ store[q].next \in Nat \ {0}
                           /\ store[q].log \subseteq Entries
      /\ \A q \in Stores : Peer(q) \in Stores /\ Peer(q) # q /\ Peer(Peer(q)) = q
  BY ShapeFacts, PeerFacts DEF SInv
<1> DEFINE since == 0
           d == Delta(store[s], since)
           w == [to |-> Peer(s), delta |-> d]
<1>2. wire' = wire \cup {[to |-> Peer(s), delta |-> Delta(store[s], since)]}
  BY DEF Export
<1>3. since \in Nat /\ since <= Received(Peer(s)) /\ since < store[s].next
  BY <1>1
<1>4. /\ d \in Deltas
      /\ d.high \in {x.seq : x \in store[s].log} \cup {since}
      /\ \A x \in store[s].log : x.seq <= d.high
      /\ d.entries = {x \in store[s].log : x.home /\ x.seq > since}
  BY <1>3, DeltaFacts DEF SInv
<1>5. UNCHANGED <<store, strayed, claimed, erased, pruned, writes>>
  BY DEF Export, history
<1>6. w.to = Peer(s) /\ w.delta = d /\ wire' = wire \cup {w}
  BY <1>2
<1> HIDE DEF d, w, since
<1>7. \A q \in Stores : \A x : Says(q, x)' <=> Says(q, x)
  <2> SUFFICES ASSUME NEW q \in Stores, NEW x PROVE Says(q, x)' <=> Says(q, x)
    OBVIOUS
  <2>1. Says(q, x) => Says(q, x)'
    BY <1>5, <1>6 DEF Says
  <2>2. ASSUME Says(q, x)', ~Says(q, x) PROVE FALSE
    <3>1. w.to = Peer(q) /\ x \in w.delta.entries
      BY <1>5, <1>6, <2>2 DEF Says
    <3>2. q = s
      BY <1>1, <1>6, <3>1
    <3> QED
      BY <1>4, <1>6, <2>2, <3>1, <3>2 DEF Says
  <2> QED
    BY <2>1, <2>2
<1>8. Shape'
  <2>1. w \in [to : Stores, delta : Deltas]
    BY <1>1, <1>4 DEF w
  <2> QED
    BY <1>5, <1>6, <2>1 DEF SInv, Shape
<1>9. Free' = Free /\ Deleted' = Deleted /\ \A q \in Stores : Received(q)' = Received(q)
  BY <1>5 DEF Free, Deleted, Received
<1>10. Honest'
  <2>1. Honest
    BY DEF SInv
  <2> QED
    BY <1>5, <1>7, <1>9, <2>1 DEF Honest
<1>11. Complete'
  <2>1. /\ w.delta.high < store[Peer(w.to)].next
        /\ \A x \in w.delta.entries : x.seq <= w.delta.high
        /\ \A x \in store[Peer(w.to)].log :
              x.home /\ x.seq > Received(w.to) /\ x.seq <= w.delta.high => x \in w.delta.entries
    <3>1. Peer(w.to) = s /\ w.delta = d /\ w.to = Peer(s)
      BY <1>1, <1>6
    <3>2. \A x \in store[s].log : x.seq \in Nat /\ x.seq < store[s].next
      BY EntryFacts, ShapeFacts DEF SInv
    <3>3. d.high < store[s].next
      BY <1>3, <1>4, <3>2
    <3>4. \A x \in store[s].log : x.seq > Received(Peer(s)) => x.seq > since
      BY <1>1, <1>3, <3>2
    <3> QED
      BY <1>4, <3>1, <3>3, <3>4
  <2>2. wire' = wire \cup {w} /\ store' = store
    BY <1>5, <1>6
  <2>3. Complete
    BY DEF SInv
  <2>4. \A m \in wire' : m = w \/ m \in wire
    BY <2>2
  <2>5. \A m \in wire' : m.to \in Stores
    BY <1>1, <1>6, ShapeFacts DEF SInv
  <2> QED
    BY <1>1, <1>9, <2>1, <2>2, <2>3, <2>4, <2>5 DEF Complete
<1>12. NothingIsForgotten'
  BY <1>1, <1>5, <1>9 DEF SInv, NothingIsForgotten, Ahead
<1>13. TasksFirst'
  <2> SUFFICES ASSUME ~Deleted', ~erased', ~pruned', NEW r \in Stores, NEW t \in Tasks,
                      store'[Peer(r)].row[t] = 0
               PROVE  InOrder(r, t)'
    BY DEF TasksFirst
  <2>1. InOrder(r, t)
    BY <1>1, <1>5, <1>9 DEF SInv, TasksFirst
  <2>2. \A y : Tells(r, t, y)' <=> Tells(r, t, y)
    BY <1>1, <1>5, <1>9 DEF Tells
  <2>3. ASSUME NEW m \in wire', m.to = Peer(r), NEW x \in m.delta.entries,
               x.of \in Attempts, TaskOf[x.of] = t
        PROVE  \E y \in m.delta.entries : Tells(r, t, y) /\ y.seq < x.seq
    <3>1. CASE m \in wire
      BY <2>1, <2>3, <3>1 DEF InOrder
    <3>2. CASE m = w
      <4>1. r = s /\ m.delta = d
        BY <1>1, <1>6, <2>3, <3>2
      <4>2. x \in store[s].log /\ x.home
        BY <1>4, <2>3, <4>1
      <4>3. PICK y : Tells(s, t, y) /\ y.seq < x.seq
        BY <2>1, <2>3, <4>1, <4>2 DEF InOrder
      <4>4. y \in Entries /\ y.seq \in Nat
        BY <1>1, <4>3, EntryFacts DEF Tells
      <4>5. y \in d.entries
        BY <1>1, <1>3, <1>4, <4>3, <4>4 DEF Tells
      <4> QED
        BY <4>1, <4>3, <4>5
    <3> QED
      BY <1>6, <2>3, <3>1, <3>2
  <2> QED
    BY <1>5, <2>1, <2>2, <2>3 DEF InOrder
<1> QED
  BY <1>8, <1>10, <1>11, <1>12, <1>13 DEF SInv

LEMMA LoseKeeps ==
    ASSUME SInv, NEW m \in wire, Lose(m)
    PROVE  SInv'
<1>1. wire' \subseteq wire /\ UNCHANGED <<store, strayed, claimed, erased, pruned, writes>>
  BY DEF Lose, history
<1>2. Free' = Free /\ Deleted' = Deleted /\ \A q : Received(q)' = Received(q)
  BY <1>1 DEF Free, Deleted, Received
<1>3. \A q, x : Says(q, x)' => Says(q, x)
  BY <1>1 DEF Says
<1>4. Shape'
  BY <1>1 DEF SInv, Shape
<1>5. Honest'
  <2>1. Honest
    BY DEF SInv
  <2> QED
    BY <1>1, <1>2, <1>3, <2>1 DEF Honest
<1>6. Complete'
  BY <1>1, <1>2 DEF SInv, Complete
<1>7. NothingIsForgotten'
  BY <1>1, <1>2 DEF SInv, NothingIsForgotten, Ahead
<1>8. TasksFirst'
  BY <1>1, <1>2 DEF SInv, TasksFirst, InOrder, Tells
<1> QED
  BY <1>4, <1>5, <1>6, <1>7, <1>8 DEF SInv

LEMMA PruneKeeps ==
    ASSUME SInv, NEW s \in Stores, Prune(s)
    PROVE  SInv'
<1>1. PICK n \in Seqs(store[s]) : store' = [store EXCEPT ![s].log = {x \in @ : x.seq > n}]
  BY DEF Prune
<1>2. pruned' = TRUE /\ UNCHANGED <<wire, strayed, claimed, erased, writes>>
  BY DEF Prune
<1>3. \A q \in Stores : /\ store'[q].row = store[q].row /\ store'[q].next = store[q].next
                        /\ store'[q].cursor = store[q].cursor /\ store'[q].log \subseteq store[q].log
                        /\ store'[q] \in Bases
      /\ store' \in [Stores -> Bases]
  BY <1>1 DEF SInv, Shape, Bases
<1>4. Shape'
  <2>1. \A q \in Stores : Sane(store'[q])
    BY <1>3 DEF SInv, Shape, Sane, Numbered, Rooted
  <2> QED
    BY <1>2, <1>3, <2>1 DEF SInv, Shape
<1>5. Free' = Free /\ Deleted' = Deleted /\ \A q \in Stores : Received(q)' = Received(q)
  BY <1>2, <1>3 DEF Free, Deleted, Received
<1>6. \A q \in Stores : \A x : Says(q, x)' => Says(q, x)
  BY <1>2, <1>3 DEF Says
<1>7. Honest'
  <2>1. Honest
    BY DEF SInv
  <2> QED
    BY <1>2, <1>3, <1>5, <1>6, <2>1 DEF Honest
<1>8. Complete'
  <2>1. \A m \in wire : m.to \in Stores
    BY ShapeFacts DEF SInv
  <2> QED
    BY <1>2, <1>3, <1>5, <2>1, PeerFacts DEF SInv, Complete
<1> QED
  BY <1>2, <1>4, <1>7, <1>8 DEF SInv, NothingIsForgotten, TasksFirst

-----------------------------------------------------------------------------
(* A task that is deleted.                                                 *)

\* Its rows are gone, and no one counts on them any more.
LEMMA EraseKeeps ==
    ASSUME SInv, NEW s \in Stores, NEW t \in Tasks, DeleteTask(s, t)
    PROVE  SInv' /\ \A q \in Stores : store'[q].row[Workflow] = store[q].row[Workflow]
<1> DEFINE gone == {t} \cup {a \in Attempts : TaskOf[a] = t}
           row == [e \in Entities |-> IF e \in gone THEN 0 ELSE store[s].row[e]]
<1>1. /\ gone \subseteq Tasks \cup Attempts /\ gone \subseteq Entities /\ Workflow \notin gone
      /\ Workflow \in Entities /\ Tasks \subseteq Entities
      /\ store \in [Stores -> Bases] /\ \A q \in Stores : Sane(store[q]) /\ store[q] \in Bases
  BY Kinds DEF SInv, Shape
<1>2. /\ store' = [store EXCEPT ![s].row = row]
      /\ strayed' = strayed \cup gone /\ erased' = TRUE /\ writes' = writes + 1
      /\ UNCHANGED <<wire, claimed, pruned>>
  BY <1>1 DEF DeleteTask, Bases
<1> HIDE DEF gone
<1>3. store[s].row \in [Entities -> Nat] /\ row \in [Entities -> Nat]
  BY <1>1 DEF Bases
<1>4. \A e \in Entities : row[e] = IF e \in gone THEN 0 ELSE store[s].row[e]
  OBVIOUS
<1> HIDE DEF row
<1>5. /\ store' \in [Stores -> Bases]
      /\ \A q \in Stores : /\ store'[q].log = store[q].log /\ store'[q].next = store[q].next
                           /\ store'[q].cursor = store[q].cursor
                           /\ store'[q].row = IF q = s THEN row ELSE store[q].row
  BY <1>1, <1>2, <1>3 DEF Bases
<1>6. \A q \in Stores : \A e \in Entities \ gone : store'[q].row[e] = store[q].row[e]
  BY <1>4, <1>5
<1>7. Shape'
  <2>1. \A q \in Stores : Sane(store'[q])
    <3> SUFFICES ASSUME NEW q \in Stores PROVE Sane(store'[q])
      OBVIOUS
    <3>1. Numbered(store'[q])
      BY <1>1, <1>5 DEF Sane, Numbered
    <3>2. Rooted(store'[q])
      BY <1>1, <1>4, <1>5 DEF Sane, Rooted
    <3> QED
      BY <1>5, <3>1, <3>2 DEF Sane
  <2> QED
    BY <1>1, <1>2, <1>5, <2>1 DEF SInv, Shape
<1>8. Deleted' = Deleted /\ \A q \in Stores : Received(q)' = Received(q)
  BY <1>1, <1>5, <1>6 DEF Deleted, Received
<1>9. Free' \subseteq Free /\ Free' \cap gone = {}
  BY <1>2, <1>8 DEF Free
<1>10. \A q, x : Says(q, x)' => Says(q, x) \/ q \notin Stores
  BY <1>2, <1>5 DEF Says
<1>11. Honest'
  <2>1. ASSUME NEW q \in Stores, NEW x, Says(q, x)'
        PROVE  /\ x.home /\ x.seq < store'[q].next /\ Fair(x, store'[q].row, Free')
               /\ Deleted' \/ erased' \/ store'[q].row[x.of] # 0
    <3>1. Says(q, x) /\ x.of \in Entities
      BY <1>10, <2>1, ShapeFacts, EntryFacts DEF SInv
    <3>2. x.home /\ x.seq < store[q].next /\ Fair(x, store[q].row, Free)
      BY <3>1 DEF SInv, Honest
    <3>3. Fair(x, store'[q].row, Free')
      BY <1>1, <1>6, <1>9, <3>1, <3>2 DEF Fair
    <3> QED
      BY <1>2, <1>5, <3>2, <3>3
  <2>2. \A q \in Stores : \A x, y : Says(q, x)' /\ Says(q, y)' /\ x.seq = y.seq => x = y
    BY <1>10 DEF SInv, Honest
  <2> QED
    BY <2>1, <2>2 DEF Honest
<1>12. Complete'
  <2>1. \A m \in wire : m.to \in Stores
    BY ShapeFacts DEF SInv
  <2> QED
    BY <1>2, <1>5, <1>8, <2>1, PeerFacts DEF SInv, Complete
<1>13. NothingIsForgotten'
  <2> SUFFICES ASSUME NEW q \in Stores, NEW u \in Entities, u \notin strayed', u \notin claimed'[q],
                      ~pruned', u = Workflow \/ ~Deleted', Ahead(q, u)'
               PROVE  \E x \in Home(store'[q], u) : x.row = store'[q].row[u] /\ x.seq > Received(Peer(q))'
    BY DEF NothingIsForgotten
  <2>1. /\ u \notin gone /\ u \notin strayed /\ u \notin claimed[q] /\ ~pruned
        /\ u = Workflow \/ ~Deleted
    BY <1>2, <1>8
  <2>2. Peer(q) \in Stores
    BY PeerFacts
  <2>3. Ahead(q, u)
    BY <1>6, <2>1, <2>2 DEF Ahead
  <2>4. \E x \in Home(store[q], u) : x.row = store[q].row[u] /\ x.seq > Received(Peer(q))
    BY <2>1, <2>3 DEF SInv, NothingIsForgotten
  <2> QED
    BY <1>5, <1>6, <1>8, <2>1, <2>2, <2>4 DEF Home
<1>14. TasksFirst'
  BY <1>2 DEF TasksFirst
<1> QED
  BY <1>1, <1>6, <1>7, <1>11, <1>12, <1>13, <1>14 DEF SInv

-----------------------------------------------------------------------------
(* A batch that is delivered.                                              *)

LEMMA FreshFacts ==
    ASSUME SInv, NEW m \in wire
    PROVE  /\ m.to \in Stores /\ Peer(m.to) \in Stores
           /\ Fresh(m.to, m) \subseteq Entries /\ m.delta.high \in Nat
           /\ \A x \in Fresh(m.to, m) : /\ Says(Peer(m.to), x) /\ x.seq <= m.delta.high
                                        /\ Fair(x, store[Peer(m.to)].row, Free)
           /\ \A k \in 0 .. m.delta.high :
                 Along(store[m.to], After(m.to, m)[k], Fresh(m.to, m), k, store[Peer(m.to)].row,
                       Free \ Altered(m.to, m))
<1> DEFINE s == m.to
           r == Peer(s)
           S == Fresh(s, m)
           F == Free \ Altered(s, m)
<1>1. s \in Stores /\ r \in Stores /\ Peer(r) = s /\ m.delta.entries \subseteq Entries /\ m.delta.high \in Nat
  <2>1. s \in Stores
    BY DEF SInv, Shape
  <2> QED
    BY <2>1, ShapeFacts, PeerFacts DEF SInv
<1>2. S \subseteq Entries /\ \A x \in S : x \in m.delta.entries
  BY <1>1 DEF Fresh
<1>3. \A x \in S : Says(r, x) /\ x.seq <= m.delta.high
  BY <1>1, <1>2 DEF Says, SInv, Complete
<1>4. /\ \A x \in S : Fair(x, store[r].row, Free)
      /\ \A x, y \in S : x.seq = y.seq => x = y
  BY <1>1, <1>3 DEF SInv, Honest
<1>5. /\ Sane(store[s]) /\ store[r].row \in [Entities -> Nat] /\ F \in SUBSET Entities
  BY <1>1, ShapeFacts DEF SInv, Free
<1>7. \A x \in S : Fair(x, store[r].row, F)
  BY <1>4 DEF Fair
<1>8. \A x \in S : x.of \in F => ~Alters(Course(store[s], S, m.delta.high)[x.seq - 1].row[x.of], x)
  BY DEF Altered, After
<1> HIDE DEF S, r, F
<1>6. \A k \in 0 .. m.delta.high :
         Along(store[s], Course(store[s], S, m.delta.high)[k], S, k, store[r].row, F)
  BY <1>1, <1>2, <1>4, <1>5, <1>7, <1>8, AlongCourse
<1> QED
  BY <1>1, <1>2, <1>3, <1>4, <1>6 DEF After, S, r, F

\* What a delivery changes: the store of the receiver s, whose peer is r.
Delivered(s, r, m) ==
    LET db == store[s]
        n == store'[s]
    IN  /\ store' \in [Stores -> Bases] /\ \A q \in Stores : q # s => store'[q] = store[q]
        /\ Sane(n) /\ n.next >= db.next
        /\ Received(s)' >= Received(s) /\ Received(s)' \in {Received(s), m.delta.high}
        /\ \A e \in Entities : db.row[e] # 0 => n.row[e] # 0
        /\ n.row[Workflow] >= db.row[Workflow]
        /\ \A e \in Free \ Altered(s, m) : n.row[e] >= db.row[e]
        /\ \A x \in m.delta.entries : x.seq > Received(s) =>
              /\ n.row[x.of] # 0
              /\ x.of \in Free \ Altered(s, m) =>
                    n.row[x.of] >= x.row \/ (x.of = Workflow /\ n.row[Workflow] > Alive)
        /\ \A y \in n.log : y.home => y \in db.log
        /\ \A y \in db.log : y \in n.log \/ (y.home /\ \E x : Says(r, x) /\ x.of = y.of)
        /\ \A e \in Free \ Altered(s, m) :
             \/ n.row[e] = db.row[e] /\ Home(n, e) = Home(db, e)
             \/ Covers(store[r].row[e], n.row[e], e)
        /\ \A e \in Entities : n.row[e] = db.row[e] \/ e = Workflow \/ \E x : Says(r, x) /\ x.of = e
        /\ strayed' = strayed \cup Altered(s, m) /\ Altered(s, m) \subseteq Tasks
        /\ claimed' \in [Stores -> SUBSET Attempts]
        /\ \A q \in Stores : \A a \in claimed[q] :
              a \in claimed'[q] \/ (q = s /\ n.row[a] # db.row[a])
        /\ wire' \subseteq wire /\ UNCHANGED <<erased, pruned, writes>>

LEMMA DeliverDelivered ==
    ASSUME SInv, NEW m \in wire, Deliver(m)
    PROVE  Delivered(m.to, Peer(m.to), m)
<1> DEFINE s == m.to
           r == Peer(s)
           S == Fresh(s, m)
           N == m.delta.high
           F == Free \ Altered(s, m)
           j == After(s, m)[N]
           c == MaxOf(Received(s), N)
           n == store'[s]
<1>1. /\ s \in Stores /\ r \in Stores /\ S \subseteq Entries /\ N \in Nat
      /\ \A x \in S : Says(r, x) /\ x.seq <= N
  BY FreshFacts
<1>2. Along(store[s], j, S, N, store[r].row, F)
  BY <1>1, FreshFacts
<1>3. /\ store \in [Stores -> Bases] /\ Received(s) \in Nat
  BY <1>1, ShapeFacts DEF SInv, Shape
<1>4. /\ store' = [store EXCEPT ![s] = [j EXCEPT !.cursor = c]]
      /\ wire' \subseteq wire /\ UNCHANGED <<erased, pruned, writes>>
      /\ strayed' = strayed \cup Altered(s, m)
      /\ claimed' = [claimed EXCEPT ![s] = {a \in @ : store'[s].row[a] = store[s].row[a]}]
  BY DEF Deliver
<1>a. Altered(s, m) \subseteq Tasks
  BY DEF Altered, Alters
<1>b. /\ claimed' \in [Stores -> SUBSET Attempts]
      /\ \A q \in Stores : \A a \in claimed[q] :
            a \in claimed'[q] \/ (q = s /\ n.row[a] # store[s].row[a])
  <2>1. claimed \in [Stores -> SUBSET Attempts]
    BY DEF SInv, Shape
  <2> QED
    BY <1>4, <2>1
<1>5. c \in Nat /\ c >= Received(s) /\ c \in {Received(s), N}
  BY <1>1, <1>3 DEF MaxOf
<1> HIDE DEF j, c, F
<1>6. /\ j \in Bases /\ Sane(j)
  BY <1>2 DEF Along, Sane
<1>7. /\ n = [j EXCEPT !.cursor = c] /\ \A q \in Stores : q # s => store'[q] = store[q]
  BY <1>1, <1>3, <1>4
<1>8. /\ n \in Bases /\ n.row = j.row /\ n.log = j.log /\ n.next = j.next /\ n.cursor = c
  BY <1>5, <1>6, <1>7 DEF Bases
<1>9. store' \in [Stores -> Bases]
  BY <1>1, <1>3, <1>4, <1>7, <1>8
<1> HIDE DEF n
<1>10. Sane(n)
  BY <1>6, <1>8 DEF Sane, Numbered, Rooted
<1>11. Received(s)' = c
  BY <1>5, <1>8 DEF Received, MaxOf, n
<1>12. \A x \in m.delta.entries : x.seq > Received(s) =>
           /\ n.row[x.of] # 0
           /\ x.of \in F => n.row[x.of] >= x.row \/ (x.of = Workflow /\ n.row[Workflow] > Alive)
  BY <1>1, <1>2, <1>8 DEF Along, Fresh
<1>13. \A y \in n.log : y.home => y \in store[s].log
  BY <1>2, <1>8 DEF Along
<1>14. \A y \in store[s].log : y \in n.log \/ (y.home /\ \E x : Says(r, x) /\ x.of = y.of)
  BY <1>1, <1>2, <1>8 DEF Along
<1>15. \A e \in F : \/ n.row[e] = store[s].row[e] /\ Home(n, e) = Home(store[s], e)
                    \/ Covers(store[r].row[e], n.row[e], e)
  BY <1>2, <1>8 DEF Along, Home
<1>16. \A e \in Entities : n.row[e] = store[s].row[e] \/ e = Workflow \/ \E x : Says(r, x) /\ x.of = e
  BY <1>1, <1>2, <1>8 DEF Along
<1>17. /\ n.next >= store[s].next /\ n.row[Workflow] >= store[s].row[Workflow]
       /\ \A e \in Entities : store[s].row[e] # 0 => n.row[e] # 0
       /\ \A e \in F : n.row[e] >= store[s].row[e]
  BY <1>2, <1>8 DEF Along
<1> QED
  BY <1>4, <1>5, <1>7, <1>9, <1>10, <1>11, <1>12, <1>13, <1>14, <1>15, <1>16, <1>17, <1>a, <1>b
  DEF Delivered, n, F

LEMMA DeliveredFacts ==
    ASSUME SInv, NEW m \in wire, Delivered(m.to, Peer(m.to), m)
    PROVE  /\ Shape' /\ (Deleted => Deleted') /\ Free' \subseteq Free \ Altered(m.to, m)
           /\ \A q \in Stores : \A x : Says(q, x)' => Says(q, x)
           /\ \A q \in Stores : /\ store[q].row \in [Entities -> Nat] /\ store'[q].row \in [Entities -> Nat]
                                /\ store[q].next \in Nat /\ store'[q].next \in Nat
                                /\ store'[q].next >= store[q].next
                                /\ store'[q].row[Workflow] >= store[q].row[Workflow]
                                /\ \A e \in Free' : store'[q].row[e] >= store[q].row[e]
                                /\ \A e \in Entities : store[q].row[e] # 0 => store'[q].row[e] # 0
                                /\ Received(q) \in Nat /\ Received(q)' >= Received(q)
                                /\ q # m.to => store'[q] = store[q] /\ Received(q)' = Received(q)
                                /\ \A x \in store'[q].log : x.home => x \in store[q].log
<1> DEFINE s == m.to
<1>1. s \in Stores
  BY FreshFacts
<1>2. Shape'
  <2>1. Shape
    BY DEF SInv
  <2>2. \A q \in Stores : Sane(store'[q])
    BY <2>1 DEF Delivered, Shape
  <2>3. strayed' \subseteq Tasks \cup Attempts
    BY <2>1 DEF Delivered, Shape
  <2> QED
    BY <2>1, <2>2, <2>3 DEF Delivered, Shape
<1>3. \A q \in Stores : /\ store[q].row \in [Entities -> Nat] /\ store'[q].row \in [Entities -> Nat]
                        /\ store[q].next \in Nat /\ store'[q].next \in Nat /\ Received(q) \in Nat
  <2>1. \A q \in Stores : store'[q].row \in [Entities -> Nat] /\ store'[q].next \in Nat
    BY <1>2 DEF Shape, Bases
  <2> QED
    BY <2>1, ShapeFacts DEF SInv
<1>4. \A q \in Stores : q # s => store'[q] = store[q] /\ Received(q)' = Received(q)
  BY DEF Delivered, Received
<1>5. \A q \in Stores : /\ store'[q].next >= store[q].next
                        /\ store'[q].row[Workflow] >= store[q].row[Workflow]
                        /\ \A e \in Free \ Altered(s, m) : store'[q].row[e] >= store[q].row[e]
                        /\ \A e \in Entities : store[q].row[e] # 0 => store'[q].row[e] # 0
                        /\ Received(q)' >= Received(q)
                        /\ \A x \in store'[q].log : x.home => x \in store[q].log
  <2> SUFFICES ASSUME NEW q \in Stores
               PROVE  /\ store'[q].next >= store[q].next
                      /\ store'[q].row[Workflow] >= store[q].row[Workflow]
                      /\ \A e \in Free \ Altered(s, m) : store'[q].row[e] >= store[q].row[e]
                      /\ \A e \in Entities : store[q].row[e] # 0 => store'[q].row[e] # 0
                      /\ Received(q)' >= Received(q)
                      /\ \A x \in store'[q].log : x.home => x \in store[q].log
    OBVIOUS
  <2>1. CASE q = s
    BY <2>1 DEF Delivered
  <2>2. CASE q # s
    <3>1. \A e \in Free : store[q].row[e] \in Nat
      BY <1>3 DEF Free
    <3> QED
      BY <1>3, <1>4, <2>2, <3>1, Kinds
  <2> QED
    BY <2>1, <2>2
<1>6. Deleted => Deleted'
  BY <1>2, <1>5, DeletedStays DEF SInv
<1>7. Free' \subseteq Free \ Altered(s, m)
  BY <1>6 DEF Free, Delivered
<1>8. \A q \in Stores : \A x : Says(q, x)' => Says(q, x)
  BY <1>5 DEF Says, Delivered
<1> QED
  BY <1>2, <1>3, <1>4, <1>5, <1>6, <1>7, <1>8

LEMMA DeliverKeeps ==
    ASSUME SInv, NEW m \in wire, Delivered(m.to, Peer(m.to), m)
    PROVE  SInv'
<1> DEFINE s == m.to
           r == Peer(s)
           n == store'[s]
           high == m.delta.high
<1>1. /\ s \in Stores /\ r \in Stores /\ Peer(r) = s /\ r # s /\ high \in Nat
      /\ \A q \in Stores : q = s \/ q = r
  BY FreshFacts, PeerFacts
<1>2. /\ Shape' /\ (Deleted => Deleted') /\ Free' \subseteq Free \ Altered(m.to, m)
      /\ wire' \subseteq wire /\ erased' = erased
      /\ \A q \in Stores : \A x : Says(q, x)' => Says(q, x)
  BY DeliveredFacts DEF Delivered
<1>3. \A q \in Stores : /\ store[q].row \in [Entities -> Nat] /\ store'[q].row \in [Entities -> Nat]
                        /\ store[q].next \in Nat /\ store'[q].next \in Nat
                        /\ store'[q].next >= store[q].next
                        /\ store'[q].row[Workflow] >= store[q].row[Workflow]
                        /\ \A e \in Free' : store'[q].row[e] >= store[q].row[e]
                        /\ \A e \in Entities : store[q].row[e] # 0 => store'[q].row[e] # 0
                        /\ Received(q) \in Nat /\ Received(q)' >= Received(q)
                        /\ q # s => store'[q] = store[q] /\ Received(q)' = Received(q)
                        /\ \A x \in store'[q].log : x.home => x \in store[q].log
  BY DeliveredFacts
<1>4. Received(s)' \in Nat /\ Received(s)' \in {Received(s), high}
  BY <1>1, <1>3 DEF Delivered
<1>5. \A x \in store[r].log : x.home /\ x.seq > Received(s) /\ x.seq <= high =>
         /\ n.row[x.of] # 0
         /\ x.of \in Free' => n.row[x.of] >= x.row \/ (x.of = Workflow /\ n.row[Workflow] > Alive)
  <2>1. \A x \in store[r].log : x.home /\ x.seq > Received(s) /\ x.seq <= high => x \in m.delta.entries
    BY <1>1 DEF SInv, Complete
  <2> QED
    BY <1>2, <2>1 DEF Delivered
<1>6. \A q \in Stores : \A x \in store[q].log : x.seq \in Nat /\ x.of \in Entities /\ x.row \in Nat
  BY ShapeFacts, EntryFacts DEF SInv
<1> HIDE DEF s, r, n, high
<1>7. Honest'
  <2>1. Honest
    BY DEF SInv
  <2>2. ASSUME NEW q \in Stores, NEW x, Says(q, x)
        PROVE  /\ x.home /\ x.seq < store'[q].next /\ Fair(x, store'[q].row, Free')
               /\ Deleted' \/ erased' \/ store'[q].row[x.of] # 0
    <3>1. x.seq \in Nat /\ x.of \in Entities /\ x.row \in Nat /\ Workflow \in Entities
      BY <2>2, ShapeFacts, EntryFacts, Kinds DEF SInv
    <3>2. /\ x.home /\ x.seq < store[q].next /\ Fair(x, store[q].row, Free)
          /\ Deleted \/ erased \/ store[q].row[x.of] # 0
      BY <2>1, <2>2 DEF Honest
    <3>3. /\ store[q].next \in Nat /\ store'[q].next \in Nat /\ store'[q].next >= store[q].next
          /\ store[q].row[x.of] \in Nat /\ store'[q].row[x.of] \in Nat
          /\ x.of \in Free' => store'[q].row[x.of] >= store[q].row[x.of]
          /\ store[q].row[x.of] # 0 => store'[q].row[x.of] # 0
          /\ store[q].row[Workflow] \in Nat /\ store'[q].row[Workflow] \in Nat
          /\ store'[q].row[Workflow] >= store[q].row[Workflow]
      BY <1>3, <3>1
    <3>4. Fair(x, store'[q].row, Free')
      BY <1>2, <3>1, <3>2, <3>3 DEF Fair
    <3>5. x.seq < store'[q].next
      BY <3>1, <3>2, <3>3
    <3>6. Deleted' \/ erased' \/ store'[q].row[x.of] # 0
      BY <1>2, <3>2, <3>3
    <3> QED
      BY <3>2, <3>4, <3>5, <3>6
  <2> QED
    BY <1>2, <2>1, <2>2 DEF Honest
<1>8. Complete'
  <2>1. ASSUME NEW q \in Stores PROVE Received(Peer(q))' < store'[q].next
    <3>1. Peer(q) \in Stores /\ Received(Peer(q)) < store[q].next
      BY PeerFacts DEF SInv, Complete
    <3>2. CASE Peer(q) = s
      <4>1. q = r /\ high < store[r].next
        BY <1>1, <3>2, PeerFacts DEF SInv, Complete, s, r, high
      <4> QED
        BY <1>1, <1>3, <1>4, <3>1, <3>2, <4>1
    <3>3. CASE Peer(q) # s
      BY <1>3, <3>1, <3>3
    <3> QED
      BY <3>2, <3>3
  <2>2. ASSUME NEW w \in wire'
        PROVE  /\ w.delta.high < store'[Peer(w.to)].next
               /\ \A x \in w.delta.entries : x.seq <= w.delta.high
               /\ \A x \in store'[Peer(w.to)].log :
                     x.home /\ x.seq > Received(w.to)' /\ x.seq <= w.delta.high => x \in w.delta.entries
    <3>1. w \in wire /\ w.to \in Stores /\ Peer(w.to) \in Stores /\ w.delta.high \in Nat
      BY <1>1, <1>2, ShapeFacts, PeerFacts DEF SInv
    <3>2. /\ w.delta.high < store[Peer(w.to)].next
          /\ \A x \in w.delta.entries : x.seq <= w.delta.high
          /\ \A x \in store[Peer(w.to)].log :
                x.home /\ x.seq > Received(w.to) /\ x.seq <= w.delta.high => x \in w.delta.entries
      BY <3>1 DEF SInv, Complete
    <3>3. w.delta.high < store'[Peer(w.to)].next
      BY <1>3, <3>1, <3>2
    <3>4. Received(w.to)' \in Nat /\ Received(w.to) \in Nat /\ Received(w.to)' >= Received(w.to)
      BY <1>1, <1>3, <1>4, <3>1
    <3> QED
      BY <1>3, <1>6, <3>1, <3>2, <3>3, <3>4
  <2> QED
    BY <2>1, <2>2 DEF Complete
<1>9. NothingIsForgotten'
  <2> SUFFICES ASSUME NEW q \in Stores, NEW u \in Entities, u \notin strayed', u \notin claimed'[q],
                      ~pruned', u = Workflow \/ ~Deleted', Ahead(q, u)'
               PROVE  \E x \in Home(store'[q], u) : x.row = store'[q].row[u] /\ x.seq > Received(Peer(q))'
    BY DEF NothingIsForgotten
  <2>1. /\ u \in Free' /\ u \in Free \ Altered(m.to, m) /\ u \notin strayed /\ ~pruned
        /\ u = Workflow \/ ~Deleted
    BY <1>2 DEF Free, Delivered
  <2>2. CASE q = s
    <3>1. ~Covers(store[r].row[u], n.row[u], u)
      BY <1>1, <1>3, <2>2 DEF Ahead, Covers, n, r, s, Alive
    <3>2. n.row[u] = store[s].row[u] /\ Home(n, u) = Home(store[s], u)
      BY <2>1, <3>1 DEF Delivered, n, r, s
    <3>3. Ahead(s, u)
      BY <1>1, <1>3, <2>2, <3>2 DEF Ahead, n, r
    <3>5. u \notin claimed[s]
      BY <1>1, <2>2, <3>2 DEF Delivered, n, r, s
    <3>4. \E x \in Home(store[s], u) : x.row = store[s].row[u] /\ x.seq > Received(Peer(s))
      BY <1>1, <2>1, <3>3, <3>5 DEF SInv, NothingIsForgotten
    <3> QED
      BY <1>1, <1>3, <2>2, <3>2, <3>4 DEF n, r
  <2>3. CASE q = r
    <3>1. store[s].row[u] \in Nat /\ n.row[u] \in Nat /\ n.row[u] >= store[s].row[u] /\ store[r].row[u] \in Nat
      BY <1>1, <1>3, <2>1 DEF n
    <3>8. u \notin claimed[r]
      BY <1>1, <2>3 DEF Delivered, s
    <3>2. store[r].row[u] > n.row[u] /\ (n.row[u] > Alive => u # Workflow)
      BY <1>1, <1>3, <2>3 DEF Ahead, n
    <3>3. Ahead(r, u)
      BY <1>1, <3>1, <3>2 DEF Ahead, Alive
    <3>4. PICK x \in Home(store[r], u) : x.row = store[r].row[u] /\ x.seq > Received(s)
      BY <1>1, <2>1, <3>3, <3>8 DEF SInv, NothingIsForgotten
    <3>5. x \in store[r].log /\ x.home /\ x.of = u /\ x.seq \in Nat
      BY <1>1, <1>6, <3>4 DEF Home
    <3>6. x.seq > high
      BY <1>1, <1>5, <2>1, <3>1, <3>2, <3>4, <3>5
    <3>7. x.seq > Received(s)'
      BY <1>4, <3>4, <3>5, <3>6
    <3> QED
      BY <1>1, <1>3, <2>3, <3>4, <3>5, <3>7 DEF Home
  <2> QED
    BY <1>1, <2>2, <2>3
<1>10. TasksFirst'
  <2> SUFFICES ASSUME ~Deleted', ~erased', ~pruned', NEW q \in Stores, NEW t \in Tasks,
                      store'[Peer(q)].row[t] = 0
               PROVE  InOrder(q, t)'
    BY DEF TasksFirst
  <2>0. t \in Entities /\ t # Workflow /\ ~Deleted /\ ~erased /\ ~pruned /\ Peer(q) \in Stores
    BY <1>2, Kinds, PeerFacts DEF Delivered
  <2>1. store[Peer(q)].row[t] = 0
    BY <1>3, <2>0
  <2>2. InOrder(q, t)
    BY <2>0, <2>1 DEF SInv, TasksFirst
  <2>3. \A y : Tells(q, t, y) => Tells(q, t, y)'
    <3> SUFFICES ASSUME NEW y, Tells(q, t, y) PROVE Tells(q, t, y)'
      OBVIOUS
    <3>1. y \in store[q].log /\ y.home /\ y.of = t /\ y.seq > Received(Peer(q)) /\ y.seq \in Nat
      BY <1>6 DEF Tells
    <3>2. CASE q = r
      <4>2. n.row[t] = 0
        BY <1>1, <3>2 DEF n
      <4>3. y.seq > high
        BY <1>1, <1>5, <2>0, <3>1, <3>2, <4>2
      <4> QED
        BY <1>1, <1>3, <1>4, <3>1, <3>2, <4>3 DEF Tells
    <3>3. CASE q = s
      <4>1. \A x : Says(r, x) => store[r].row[x.of] # 0
        BY <1>1, <2>0 DEF SInv, Honest
      <4>2. y \in n.log
        BY <1>1, <2>1, <3>1, <3>3, <4>1 DEF Delivered, n, r, s
      <4>3. Received(Peer(q))' = Received(Peer(q))
        <5>1. Received(r)' = Received(r)
          BY <1>1, <1>3
        <5>2. Peer(q) = r
          BY <3>3 DEF r
        <5> QED
          BY <5>1, <5>2 DEF Received, Peer
      <4>4. y \in store'[q].log
        BY <3>3, <4>2 DEF n
      <4> QED
        BY <3>1, <4>3, <4>4 DEF Tells
    <3> QED
      BY <1>1, <3>2, <3>3
  <2>4. store'[q].row[t] # 0 => store[q].row[t] # 0
    <3>1. CASE q = r
      BY <1>1, <1>3, <3>1
    <3>2. CASE q = s
      <4>1. \A x : Says(r, x) => store[r].row[x.of] # 0
        BY <1>1, <2>0 DEF SInv, Honest
      <4> QED
        BY <1>1, <2>0, <2>1, <3>2, <4>1 DEF Delivered, r, s
    <3> QED
      BY <1>1, <3>1, <3>2
  <2> QED
    BY <1>2, <1>3, <2>2, <2>3, <2>4 DEF InOrder
<1> QED
  BY <1>2, <1>7, <1>8, <1>9, <1>10 DEF SInv

-----------------------------------------------------------------------------
(* The specification.                                                      *)

LEMMA InitInvariant == Init => SInv
<1> SUFFICES ASSUME Init PROVE SInv
  OBVIOUS
<1>1. \A s \in Stores : /\ store[s].row = [e \in Entities |-> 0] /\ store[s].log = {} /\ store[s].next = 1
                        /\ store[s].cursor = NoCursor /\ store[s] \in Bases
  BY DEF Init, Bases, NoCursor
<1>2. /\ store \in [Stores -> Bases] /\ wire = {} /\ strayed = {} /\ erased = FALSE /\ pruned = FALSE
      /\ writes = 0 /\ claimed = [s \in Stores |-> {}]
  BY <1>1 DEF Init
<1>3. Shape
  <2>1. \A s \in Stores : Sane(store[s])
    BY <1>1, Kinds DEF Sane, Numbered, Rooted
  <2> QED
    BY <1>2, <2>1 DEF Shape
<1>4. \A s \in Stores : \A x : ~Says(s, x)
  BY <1>1, <1>2 DEF Says
<1>5. Complete
  <2>1. \A s \in Stores : Received(s) = 0
    BY <1>1 DEF Received, MaxOf, NoCursor
  <2> QED
    BY <1>1, <1>2, <2>1, PeerFacts DEF Complete
<1>6. NothingIsForgotten
  BY <1>1, PeerFacts DEF NothingIsForgotten, Ahead
<1>7. TasksFirst
  BY <1>1, <1>2, Kinds DEF TasksFirst, InOrder
<1> QED
  BY <1>3, <1>4, <1>5, <1>6, <1>7 DEF SInv, Honest

LEMMA NextKeeps ==
    ASSUME SInv, [Next]_vars
    PROVE  /\ SInv'
           /\ \A s \in Stores : store'[s].row[Workflow] >= store[s].row[Workflow]
<1>0. Workflow \in Entities /\ \A s \in Stores : store[s].row \in [Entities -> Nat]
  BY Kinds, ShapeFacts DEF SInv
<1>1. ASSUME NEW s \in Stores, NEW e \in Entities, NEW v \in Nat, Wrote(s, e, v)
      PROVE  /\ SInv'
             /\ \A r \in Stores : store'[r].row[Workflow] >= store[r].row[Workflow]
  BY <1>1, WroteKeeps, WroteFacts DEF SInv
<1>2. ASSUME NEW m \in wire, Deliver(m)
      PROVE  /\ SInv'
             /\ \A r \in Stores : store'[r].row[Workflow] >= store[r].row[Workflow]
  <2>1. Delivered(m.to, Peer(m.to), m)
    BY <1>2, DeliverDelivered
  <2> QED
    BY <1>0, <2>1, DeliverKeeps, DeliveredFacts
<1>3. ASSUME SInv', \A r \in Stores : store'[r].row = store[r].row
      PROVE  /\ SInv'
             /\ \A r \in Stores : store'[r].row[Workflow] >= store[r].row[Workflow]
  BY <1>0, <1>3
<1>8. ASSUME NEW s \in Stores, NEW t \in Tasks, DeleteTask(s, t)
      PROVE  /\ SInv'
             /\ \A r \in Stores : store'[r].row[Workflow] >= store[r].row[Workflow]
  BY <1>0, <1>8, EraseKeeps
<1>4. ASSUME NEW s \in Stores, Export(s) \/ Prune(s)
      PROVE  /\ SInv'
             /\ \A r \in Stores : store'[r].row[Workflow] >= store[r].row[Workflow]
  <2>1. SInv'
    BY <1>4, ExportKeeps, PruneKeeps
  <2>2. \A r \in Stores : store'[r].row = store[r].row
    BY <1>4 DEF Export, Prune, SInv, Shape, Bases
  <2> QED
    BY <1>3, <2>1, <2>2
<1>5. ASSUME NEW m \in wire, Lose(m)
      PROVE  /\ SInv'
             /\ \A r \in Stores : store'[r].row[Workflow] >= store[r].row[Workflow]
  <2>1. SInv' /\ \A r \in Stores : store'[r].row = store[r].row
    BY <1>5, LoseKeeps DEF Lose
  <2> QED
    BY <1>3, <2>1
<1>6. CASE UNCHANGED vars
  <2>1. SInv'
    <3>1. \A s, x : Says(s, x)' <=> Says(s, x)
      BY <1>6 DEF vars, Says
    <3>2. Free' = Free /\ Deleted' = Deleted /\ \A s : Received(s)' = Received(s)
      BY <1>6 DEF vars, history, Free, Deleted, Received
    <3>3. Honest'
      <4>1. Honest
        BY DEF SInv
      <4> QED
        BY <1>6, <3>1, <3>2, <4>1 DEF vars, history, Honest
    <3>4. Shape' /\ Complete'
      BY <1>6, <3>2 DEF vars, history, SInv, Shape, Complete
    <3>5. NothingIsForgotten'
      BY <1>6, <3>2 DEF vars, history, SInv, NothingIsForgotten, Ahead
    <3>6. TasksFirst'
      BY <1>6, <3>2 DEF vars, history, SInv, TasksFirst, InOrder, Tells
    <3> QED
      BY <3>3, <3>4, <3>5, <3>6 DEF SInv
  <2> QED
    BY <1>3, <1>6, <2>1 DEF vars
<1>7. ASSUME NEW s \in Stores,
             \/ SaveWorkflow(s) \/ DeleteWorkflow(s)
             \/ \E t \in Tasks, v \in TaskRows : SaveTask(s, t, v) \/ UpdateTask(s, t, v)
             \/ \E a \in Attempts, v \in AttemptRows : WriteAttempt(s, a, v) \/ ClaimAttempt(s, a, v)
      PROVE  /\ SInv'
             /\ \A r \in Stores : store'[r].row[Workflow] >= store[r].row[Workflow]
  <2>1. \E e \in Entities, v \in Nat : Wrote(s, e, v)
    BY <1>7, LocalWrote DEF SInv
  <2> QED
    BY <1>1, <2>1
<1> QED
  BY <1>2, <1>4, <1>5, <1>6, <1>7, <1>8 DEF Next

\* In every behaviour the journals, the cursors and the batches under way
\* fit together.
THEOREM PeerInvariant == Spec => []SInv
<1> QED
  BY InitInvariant, NextKeeps, PTL DEF Spec

\* In every reachable state the databases, the batches and the history keep
\* their shape, and a journal numbers its entries.
THEOREM PeerTypeCorrect == Spec => []Shape
<1>1. SInv => Shape
  BY DEF SInv
<1> QED
  BY PeerInvariant, <1>1, PTL

\* In every reachable state a row that is ahead of the peer's is still
\* exported to it, whatever was lost, repeated or reordered, unless it went
\* astray, is an attempt claimed and not written since, belongs to a deleted
\* workflow, or a journal was pruned.
THEOREM PeerNothingIsForgotten == Spec => []NothingIsForgotten
<1>1. SInv => NothingIsForgotten
  BY DEF SInv
<1> QED
  BY PeerInvariant, <1>1, PTL

\* In every reachable state, as long as no workflow or task was deleted and no
\* journal pruned, a batch under way applies: the receiver has, or learns
\* first, the task of every attempt it names.
THEOREM PeerBatchesApply == Spec => []BatchesApply
<1>1. SInv => BatchesApply
  <2> SUFFICES ASSUME SInv, ~Deleted, ~erased, ~pruned, NEW m \in wire, Throws(m.to, m) PROVE FALSE
    BY DEF BatchesApply
  <2> DEFINE s == m.to
             r == Peer(s)
  <2>1. PICK x \in Fresh(s, m) : Misses(After(s, m)[x.seq - 1], x)
    BY DEF Throws
  <2> DEFINE j == After(s, m)[x.seq - 1]
             t == TaskOf[x.of]
  <2>2. /\ s \in Stores /\ r \in Stores /\ Peer(r) = s
        /\ x \in Entries /\ x \in m.delta.entries /\ x.seq <= m.delta.high
        /\ x.seq \in Nat \ {0} /\ m.delta.high \in Nat /\ m.delta.entries \subseteq Entries
    BY <2>1, FreshFacts, PeerFacts, EntryFacts, ShapeFacts DEF Fresh, SInv
  <2>3. Along(store[s], j, Fresh(s, m), x.seq - 1, store[r].row, Free \ Altered(s, m))
    <3>1. x.seq - 1 \in 0 .. m.delta.high
      BY <2>2
    <3>2. \A k \in 0 .. m.delta.high :
             Along(store[s], After(s, m)[k], Fresh(s, m), k, store[r].row, Free \ Altered(s, m))
      BY FreshFacts
    <3> QED
      BY <3>1, <3>2
  <2>4. x.of \in Attempts /\ j.row[t] = 0
    BY <2>1 DEF Misses
  <2>5. t \in Tasks /\ t \in Entities /\ t # Workflow
    BY <2>4, Kinds
  <2> HIDE DEF j
  <2>6. store[s].row[t] = 0
    <3>1. store[s].row[t] # 0 => j.row[t] # 0
      BY <2>3, <2>5 DEF Along
    <3> QED
      BY <2>4, <3>1
  <2>7. InOrder(r, t)
    BY <2>2, <2>5, <2>6 DEF SInv, TasksFirst
  <2>8. PICK y \in m.delta.entries : Tells(r, t, y) /\ y.seq < x.seq
    BY <2>2, <2>4, <2>7 DEF InOrder
  <2>9. y \in Fresh(s, m) /\ y.of = t /\ y.seq \in Nat /\ y.row \in Nat /\ y.seq <= x.seq - 1
    BY <2>2, <2>8, EntryFacts DEF Tells, Fresh
  <2>10. j.row[t] # 0
    BY <2>3, <2>9 DEF Along
  <2> QED
    BY <2>4, <2>10
<1> QED
  BY PeerInvariant, <1>1, PTL

\* No step revives a deleted workflow or moves its deletion back.
THEOREM PeerDeletionStands == Spec => DeletionStands
<1>1. SInv /\ [Next]_vars =>
        [\A s \in Stores : store[s].row[Workflow] > Alive =>
           store'[s].row[Workflow] >= store[s].row[Workflow]]_vars
  BY NextKeeps
<1> QED
  BY PeerInvariant, <1>1, PTL DEF Spec, DeletionStands

=============================================================================
