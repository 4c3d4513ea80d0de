------------------------- MODULE MutationQueueProofs -------------------------
(***************************************************************************)
(* The tables and the memory keep their shape; what a hard reset found     *)
(* before it has ended for good; an outcome is never changed; and a        *)
(* failure is announced once.  Every write of the coordinator moves rows    *)
(* only forward or, for a running intent, back into the queue: `Moves`.     *)
(***************************************************************************)
EXTENDS MutationQueue, WellFoundedInduction, TLAPS

Statuses == {"none", "queued", "running", "completed", "failed", "erased"}
Table == [Ids -> Row]
Memory == [Ids -> Mem]

\* How a row may change once it is there.
Moves(a, b) ==
    /\ b.kind = a.kind /\ b.wf = a.wf /\ b.high = a.high
    /\ a.status = "none" <=> b.status = "none"
    /\ a.status = "erased" => b.status = "erased"
    /\ a.status \in {"completed", "failed"} => b.status \in {a.status, "erased"}

MovesAll(r, s) == \A i \in Ids : Moves(r[i], s[i])

\* Accepted in the order of their ids, each for a workflow; the others name none.
Contiguous(r) ==
    /\ \A i, j \in Ids : j < i /\ r[i].status # "none" => r[j].status # "none"
    /\ \A i \in Ids : r[i].status # "none" => r[i].wf \in Workflows
    /\ \A i \in Ids : r[i].status = "none" => r[i].wf = "none"

\* What is older than a hard reset has ended.
Cleared(r) ==
    \A f, j \in Ids :
        r[f].kind \in HardFences /\ r[f].status # "none" /\ j < f /\ r[j].wf = r[f].wf =>
            r[j].status \in Ended

\* A failure is announced once, and nothing else is.
Agree(r, m) ==
    \A i \in Ids : r[i].status # "erased" => m[i].told = IF r[i].status = "failed" THEN 1 ELSE 0

-----------------------------------------------------------------------------
(* Rows.                                                                   *)

LEMMA RowWith ==
    ASSUME NEW a \in Row, NEW s \in Statuses
    PROVE  /\ [a EXCEPT !.status = s] \in Row
           /\ [a EXCEPT !.status = s].status = s
           /\ [a EXCEPT !.status = s].kind = a.kind
           /\ [a EXCEPT !.status = s].wf = a.wf
           /\ [a EXCEPT !.status = s].high = a.high
  BY DEF Row, Statuses

LEMMA RowParts ==
    ASSUME NEW a \in Row
    PROVE  /\ a.status \in Statuses /\ a.kind \in AllKinds
           /\ a.wf \in Workflows \cup {"none"} /\ a.high \in BOOLEAN
  BY DEF Row, Statuses

LEMMA MovesTransitive ==
    ASSUME NEW r, NEW s, NEW u, MovesAll(r, s), MovesAll(s, u)
    PROVE  MovesAll(r, u)
  <1> SUFFICES ASSUME NEW i \in Ids PROVE Moves(r[i], u[i])
    BY DEF MovesAll
  <1>1. Moves(r[i], s[i]) /\ Moves(s[i], u[i])
    BY DEF MovesAll
  <1>2. r[i].status \in {"completed", "failed"} => u[i].status \in {r[i].status, "erased"}
    BY <1>1 DEF Moves
  <1> QED BY <1>1, <1>2 DEF Moves

LEMMA MovesReflexive == ASSUME NEW r PROVE MovesAll(r, r)
  BY DEF MovesAll, Moves

AreOpen(r, S) == \A i \in S : r[i].status \in {"queued", "running"}

\* The table q has the status for S and is r elsewhere.
Sets(r, q, S, status) ==
    /\ q \in Table /\ MovesAll(r, q)
    /\ \A i \in S : q[i].status = status
    /\ \A i \in Ids \ S : q[i] = r[i]

\* Open intents may get any status but none.
LEMMA SetStatusMoves ==
    ASSUME NEW r \in Table, NEW S \in SUBSET Ids, NEW status \in Statuses \ {"none"},
           AreOpen(r, S)
    PROVE  Sets(r, SetStatus(r, S, status), S, status)
  <1> DEFINE q == SetStatus(r, S, status)
  <1>1. \A i \in S : q[i] = [r[i] EXCEPT !.status = status]
    BY DEF SetStatus
  <1>2. \A i \in Ids \ S : q[i] = r[i]
    BY DEF SetStatus
  <1>3. \A i \in Ids : r[i] \in Row
    BY DEF Table
  <1>4. \A i \in S : q[i] \in Row /\ q[i].status = status /\ Moves(r[i], q[i])
    <2> SUFFICES ASSUME NEW i \in S
                 PROVE  q[i] \in Row /\ q[i].status = status /\ Moves(r[i], q[i])
      OBVIOUS
    <2>1. r[i] \in Row /\ r[i].status \in {"queued", "running"}
      BY <1>3 DEF AreOpen
    <2>a. q[i] = [r[i] EXCEPT !.status = status] /\ status \in Statuses
      BY <1>1
    <2> HIDE DEF q
    <2>2. q[i] \in Row /\ q[i].status = status /\ q[i].kind = r[i].kind
          /\ q[i].wf = r[i].wf /\ q[i].high = r[i].high
      BY <2>a, <2>1, RowWith
    <2> QED BY <2>1, <2>2 DEF Moves
  <1>5. q \in Table
    <2>1. \A i \in Ids : q[i] \in Row
      BY <1>2, <1>3, <1>4
    <2>2. q = [i \in Ids |-> q[i]]
      BY DEF SetStatus
    <2> QED BY <2>1, <2>2 DEF Table
  <1>6. MovesAll(r, q)
    BY <1>2, <1>4 DEF MovesAll, Moves
  <1> QED BY <1>2, <1>4, <1>5, <1>6 DEF Sets

LEMMA OfIsOpen ==
    ASSUME NEW r, NEW w, NEW status
    PROVE  Of(r, w, status) \subseteq Ids /\ \A i \in Of(r, w, status) : r[i].status = status /\ r[i].wf = w
  BY DEF Of

\* Of some intents one is first.
LEMMA FirstExists ==
    ASSUME NEW r \in Table, NEW S \in SUBSET Ids, S # {}
    PROVE  First(r, S) \in S /\ \A j \in S : Before(r, First(r, S), j)
  <1> DEFINE R == {ss \in Nat \X Nat : ss[1] < ss[2]}
  <1>0. IsWellFoundedOn(R, Nat)
    BY NatLessThanWellFounded DEF OpToRel
  <1>1. \A T \in SUBSET Ids : T # {} => \E x \in T : \A y \in T : x <= y
    <2> SUFFICES ASSUME NEW T \in SUBSET Ids, T # {} PROVE \E x \in T : \A y \in T : x <= y
      OBVIOUS
    <2>1. T \subseteq Nat
      BY QueueBoundsAssumption DEF Ids
    <2>2. PICK x \in T : \A y \in T : ~ (<<y, x>> \in R)
      BY <1>0, <2>1, WFMin
    <2>3. \A y \in T : ~ (y < x)
      BY <2>1, <2>2
    <2> QED BY <2>1, <2>2, <2>3
  <1>2. \A i \in S : r[i].high \in BOOLEAN
    BY RowParts DEF Table
  <1>3. PICK H \in SUBSET Ids : H = {i \in S : r[i].high}
    OBVIOUS
  <1>4. \E i \in S : \A j \in S : Before(r, i, j)
    <2>1. CASE H # {}
      <3>1. PICK x \in H : \A y \in H : x <= y
        BY <1>1, <2>1
      <3>2. \A j \in S : Before(r, x, j)
        BY <1>2, <1>3, <3>1 DEF Before
      <3> QED BY <1>3, <3>1, <3>2
    <2>2. CASE H = {}
      <3>1. PICK x \in S : \A y \in S : x <= y
        BY <1>1
      <3>2. \A j \in S : Before(r, x, j)
        BY <1>2, <1>3, <2>2, <3>1 DEF Before
      <3> QED BY <3>1, <3>2
    <2> QED BY <2>1, <2>2
  <1> QED BY <1>4 DEF First

-----------------------------------------------------------------------------
(* What every write keeps of the tables and of what was announced.         *)

Announced(r, m) == r \in Table /\ m \in Memory /\ Agree(r, m) /\ Contiguous(r) /\ Cleared(r)

LEMMA MovesKeepOrder ==
    ASSUME NEW r \in Table, NEW s \in Table, MovesAll(r, s), Contiguous(r), Cleared(r)
    PROVE  Contiguous(s) /\ Cleared(s)
  <1>1. \A i \in Ids : Moves(r[i], s[i])
    BY DEF MovesAll
  <1>2. \A i \in Ids : s[i].status = "none" <=> r[i].status = "none"
    BY <1>1 DEF Moves
  <1>3. \A i \in Ids : s[i].kind = r[i].kind /\ s[i].wf = r[i].wf
    BY <1>1 DEF Moves
  <1>4. \A i \in Ids : r[i].status \in Ended => s[i].status \in Ended
    BY <1>1 DEF Moves, Ended
  <1>5. Contiguous(s)
    BY <1>2, <1>3 DEF Contiguous
  <1>6. Cleared(s)
    BY <1>2, <1>3, <1>4 DEF Cleared
  <1> QED BY <1>5, <1>6

\* Putting running intents back in the queue announces nothing.
LEMMA RequeueAnnounced ==
    ASSUME NEW r, NEW m, Announced(r, m), NEW S \in SUBSET Ids,
           \A i \in S : r[i].status = "running",
           NEW status \in {"queued", "running", "completed"}
    PROVE  Announced(SetStatus(r, S, status), m) /\ MovesAll(r, SetStatus(r, S, status))
  <1>1. r \in Table /\ m \in Memory /\ Agree(r, m) /\ Contiguous(r) /\ Cleared(r)
    BY DEF Announced
  <1>2. status \in Statuses \ {"none"} /\ AreOpen(r, S)
    BY DEF Statuses, AreOpen
  <1>q. PICK q : q = SetStatus(r, S, status)
    OBVIOUS
  <1>m. Sets(r, q, S, status)
    BY <1>1, <1>2, <1>q, SetStatusMoves
  <1>3. Contiguous(q) /\ Cleared(q)
    BY <1>1, <1>m, MovesKeepOrder DEF Sets
  <1>4. Agree(q, m)
    <2> SUFFICES ASSUME NEW i \in Ids, q[i].status # "erased"
                 PROVE  m[i].told = IF q[i].status = "failed" THEN 1 ELSE 0
      BY DEF Agree
    <2>1. CASE i \in S
      <3>1. r[i].status = "running" /\ q[i].status \notin {"failed", "erased"}
        BY <1>m, <2>1 DEF Sets
      <3> QED BY <1>1, <3>1 DEF Agree
    <2>2. CASE i \notin S
      <3>1. q[i] = r[i]
        BY <1>m, <2>2 DEF Sets
      <3> QED BY <1>1, <3>1 DEF Agree
    <2> QED BY <2>1, <2>2
  <1>5. Announced(q, m)
    BY <1>1, <1>m, <1>3, <1>4 DEF Sets, Announced
  <1> QED BY <1>q, <1>m, <1>5 DEF Sets

\* The memory n has announced the failures of S more than m.
Tells(m, n, S) ==
    /\ n \in Memory
    /\ \A i \in S : m[i].told = 0 => n[i].told = 1
    /\ \A i \in Ids \ S : n[i].told = m[i].told

\* Failing open intents announces each of them.
LEMMA FailAgrees ==
    ASSUME NEW r \in Table, NEW m, Agree(r, m), NEW S \in SUBSET Ids, NEW n, Tells(m, n, S),
           AreOpen(r, S)
    PROVE  /\ Sets(r, SetStatus(r, S, "failed"), S, "failed")
           /\ Agree(SetStatus(r, S, "failed"), n)
  <1>2. PICK v \in Statuses \ {"none"} : v = "failed"
    BY DEF Statuses
  <1>q. PICK q : q = SetStatus(r, S, v)
    OBVIOUS
  <1>m. Sets(r, q, S, "failed")
    BY <1>2, <1>q, SetStatusMoves
  <1>4. Agree(q, n)
    <2> SUFFICES ASSUME NEW i \in Ids, q[i].status # "erased"
                 PROVE  n[i].told = IF q[i].status = "failed" THEN 1 ELSE 0
      BY DEF Agree
    <2>1. CASE i \in S
      <3>1. m[i].told = 0
        BY <2>1 DEF Agree, AreOpen
      <3> QED BY <1>2, <1>m, <2>1, <3>1 DEF Tells, Sets
    <2>2. CASE i \notin S
      <3>1. q[i] = r[i] /\ n[i].told = m[i].told
        BY <1>m, <2>2 DEF Tells, Sets
      <3> QED BY <3>1 DEF Agree
    <2> QED BY <2>1, <2>2
  <1> QED BY <1>2, <1>q, <1>m, <1>4

LEMMA FailAnnounced ==
    ASSUME NEW r, NEW m, Announced(r, m), NEW S \in SUBSET Ids, NEW n, Tells(m, n, S),
           AreOpen(r, S)
    PROVE  Announced(SetStatus(r, S, "failed"), n) /\ MovesAll(r, SetStatus(r, S, "failed"))
  <1>1. r \in Table /\ Agree(r, m) /\ Contiguous(r) /\ Cleared(r)
    BY DEF Announced
  <1>q. PICK q : q = SetStatus(r, S, "failed")
    OBVIOUS
  <1>2. Sets(r, q, S, "failed") /\ Agree(q, n)
    BY <1>1, <1>q, FailAgrees
  <1>3. Contiguous(q) /\ Cleared(q)
    BY <1>1, <1>2, MovesKeepOrder DEF Sets
  <1> QED BY <1>q, <1>2, <1>3 DEF Announced, Sets, Tells

\* The memory of an intent after each write on it.
LEMMA MemWith ==
    ASSUME NEW a \in Mem
    PROVE  /\ RejectCaller(Tell(a)) \in Mem /\ Invalidate(Tell(a)) \in Mem
           /\ Tell(a) \in Mem /\ (a.told = 0 => Tell(a).told = 1)
           /\ RejectCaller(Tell(a)).told = Tell(a).told
           /\ Invalidate(Tell(a)).told = Tell(a).told
           /\ [a EXCEPT !.dispatch = "running", !.race = "open"] \in Mem
           /\ [a EXCEPT !.dispatch = "running", !.race = "open"].told = a.told
           /\ Forgotten(a) \in Mem /\ Forgotten(a).told = a.told
  <1>1. PICK b : b = Tell(a)
    OBVIOUS
  <1>2. b \in Mem /\ (a.told = 0 => b.told = 1)
    BY <1>1 DEF Tell, Mem
  <1>3. RejectCaller(b) \in Mem /\ RejectCaller(b).told = b.told
    BY <1>2 DEF RejectCaller, Mem
  <1>4. Invalidate(b) \in Mem /\ Invalidate(b).told = b.told
    BY <1>2 DEF Invalidate, Mem
  <1>5. /\ [a EXCEPT !.dispatch = "running", !.race = "open"] \in Mem
        /\ [a EXCEPT !.dispatch = "running", !.race = "open"].told = a.told
    BY DEF Mem
  <1>6. Forgotten(a) \in Mem /\ Forgotten(a).told = a.told
    BY DEF Forgotten, Mem
  <1> QED BY <1>1, <1>2, <1>3, <1>4, <1>5, <1>6

LEMMA EvictedMemory ==
    ASSUME NEW m \in Memory, NEW S \in SUBSET Ids
    PROVE  Tells(m, Evicted(m, S), S)
  <1>1. \A i \in Ids : m[i] \in Mem
    BY DEF Memory
  <1>2. PICK n : n = Evicted(m, S)
    OBVIOUS
  <1>3. /\ n = [i \in Ids |-> n[i]]
        /\ \A i \in S : n[i] = RejectCaller(Tell(m[i]))
        /\ \A i \in Ids \ S : n[i] = m[i]
    BY <1>2 DEF Evicted
  <1>4. ASSUME NEW i \in S
        PROVE  n[i] \in Mem /\ (m[i].told = 0 => n[i].told = 1)
    <2>1. m[i] \in Mem /\ n[i] = RejectCaller(Tell(m[i]))
      BY <1>1, <1>3
    <2> QED BY <2>1, MemWith
  <1>5. \A i \in Ids : n[i] \in Mem
    BY <1>1, <1>3, <1>4
  <1>6. n \in Memory
    BY <1>3, <1>5 DEF Memory
  <1> QED BY <1>2, <1>3, <1>4, <1>6 DEF Tells

LEMMA SupersededMemory ==
    ASSUME NEW m \in Memory, NEW S \in SUBSET Ids
    PROVE  Tells(m, Supersede(m, S), S)
  <1>1. \A i \in Ids : m[i] \in Mem
    BY DEF Memory
  <1>2. PICK n : n = Supersede(m, S)
    OBVIOUS
  <1>3. /\ n = [i \in Ids |-> n[i]]
        /\ \A i \in S : n[i] = Invalidate(Tell(m[i]))
        /\ \A i \in Ids \ S : n[i] = m[i]
    BY <1>2 DEF Supersede
  <1>4. ASSUME NEW i \in S
        PROVE  n[i] \in Mem /\ (m[i].told = 0 => n[i].told = 1)
    <2>1. m[i] \in Mem /\ n[i] = Invalidate(Tell(m[i]))
      BY <1>1, <1>3
    <2> QED BY <2>1, MemWith
  <1>5. \A i \in Ids : n[i] \in Mem
    BY <1>1, <1>3, <1>4
  <1>6. n \in Memory
    BY <1>3, <1>5 DEF Memory
  <1> QED BY <1>2, <1>3, <1>4, <1>6 DEF Tells

LEMMA StartedMemory ==
    ASSUME NEW m \in Memory, NEW S \in SUBSET Ids
    PROVE  /\ Start(m, S) \in Memory
           /\ \A i \in Ids : Start(m, S)[i].told = m[i].told
  <1>1. \A i \in Ids : m[i] \in Mem
    BY DEF Memory
  <1>2. PICK n : n = Start(m, S)
    OBVIOUS
  <1>3. /\ n = [i \in Ids |-> n[i]]
        /\ \A i \in S : n[i] = [m[i] EXCEPT !.dispatch = "running", !.race = "open"]
        /\ \A i \in Ids \ S : n[i] = m[i]
    BY <1>2 DEF Start
  <1>4. \A i \in Ids : n[i] \in Mem /\ n[i].told = m[i].told
    BY <1>1, <1>3, MemWith
  <1>5. n \in Memory
    BY <1>3, <1>4 DEF Memory
  <1> QED BY <1>2, <1>4, <1>5

LEMMA AnnouncedParts ==
    ASSUME NEW r, NEW m, Announced(r, m)
    PROVE  r \in Table /\ m \in Memory
  BY DEF Announced

-----------------------------------------------------------------------------
(* Draining.                                                               *)

LEMMA BeginAnnounced ==
    ASSUME NEW r, NEW m, Announced(r, m), NEW S \in SUBSET Ids,
           \A i \in S : r[i].status = "queued", Begin(r, m, S)
    PROVE  Announced(row', mem') /\ MovesAll(r, row')
  <1>1. PICK out : out = UNION {QueuedBefore(r, f) : f \in S}
    OBVIOUS
  <1>2. out \subseteq Ids /\ \A i \in out : r[i].status = "queued"
    BY <1>1 DEF QueuedBefore, Of
  <1>3. PICK r1 : r1 = SetStatus(r, S, "running")
    OBVIOUS
  <1>4. PICK m1 : m1 = Evicted(m, out)
    OBVIOUS
  <1>5. row' = SetStatus(r1, out, "failed") /\ mem' = Start(m1, S)
    BY <1>1, <1>3, <1>4 DEF Begin
  <1>6. r \in Table /\ m \in Memory /\ Agree(r, m) /\ Contiguous(r) /\ Cleared(r)
    BY DEF Announced
  <1>7. Sets(r, r1, S, "running")
    <2>1. PICK v \in Statuses \ {"none"} : v = "running"
      BY DEF Statuses
    <2>2. AreOpen(r, S)
      BY DEF AreOpen
    <2> QED BY <1>3, <1>6, <2>1, <2>2, SetStatusMoves
  <1>8. Announced(r1, m)
    <2>1. Agree(r1, m)
      <3> SUFFICES ASSUME NEW i \in Ids, r1[i].status # "erased"
                   PROVE  m[i].told = IF r1[i].status = "failed" THEN 1 ELSE 0
        BY DEF Agree
      <3>1. CASE i \in S
        <4>1. r[i].status = "queued" /\ r1[i].status = "running"
          BY <1>7, <3>1 DEF Sets
        <4> QED BY <1>6, <4>1 DEF Agree
      <3>2. CASE i \notin S
        <4>1. r1[i] = r[i]
          BY <1>7, <3>2 DEF Sets
        <4> QED BY <1>6, <4>1 DEF Agree
      <3> QED BY <3>1, <3>2
    <2> QED BY <1>6, <1>7, <2>1, MovesKeepOrder DEF Announced, Sets
  <1>9. AreOpen(r1, out)
    <2> SUFFICES ASSUME NEW i \in out PROVE r1[i].status \in {"queued", "running"}
      BY DEF AreOpen
    <2>1. CASE i \in S
      BY <1>7, <2>1 DEF Sets
    <2>2. CASE i \notin S
      BY <1>2, <1>7, <2>2 DEF Sets
    <2> QED BY <2>1, <2>2
  <1>10. Tells(m, mem', out)
    <2>1. Tells(m, m1, out)
      BY <1>2, <1>4, <1>6, EvictedMemory
    <2>2. mem' \in Memory /\ \A i \in Ids : mem'[i].told = m1[i].told
      BY <1>5, <2>1, StartedMemory DEF Tells
    <2> QED BY <1>2, <2>1, <2>2 DEF Tells
  <1>11. Announced(row', mem') /\ MovesAll(r1, row')
    BY <1>2, <1>5, <1>8, <1>9, <1>10, FailAnnounced
  <1>12. MovesAll(r, row')
    BY <1>7, <1>11, MovesTransitive DEF Sets
  <1> QED BY <1>11, <1>12

LEMMA ReclaimedAnnounced ==
    ASSUME NEW r, NEW m, Announced(r, m), NEW ls, NEW ws
    PROVE  Announced(Reclaimed(r, ls, ws), m) /\ MovesAll(r, Reclaimed(r, ls, ws))
  <1>1. PICK S \in SUBSET Ids :
          S = {i \in Ids : r[i].wf \in ws /\ r[i].status = "running" /\ ls[r[i].wf].expired}
    OBVIOUS
  <1>2. Reclaimed(r, ls, ws) = SetStatus(r, S, "queued")
    BY <1>1 DEF Reclaimed, SetStatus
  <1>3. \A i \in S : r[i].status = "running"
    BY <1>1
  <1>4. PICK v \in {"queued", "running", "completed"} : v = "queued"
    OBVIOUS
  <1> QED BY <1>2, <1>3, <1>4, RequeueAnnounced

Bookkeeping ==
    /\ lease \in [Workflows -> Lease]
    /\ deleted \subseteq Workflows
    /\ loop \in [Workflows -> Loop]
    /\ pending \subseteq Workflows
    /\ timer \in BOOLEAN /\ kick \in BOOLEAN /\ recovered \in BOOLEAN
    /\ restarts \in 0 .. MaxRestarts

\* A drain is started on queued intents only.
LEMMA ProcessDrainsKeeps ==
    ASSUME NEW r, NEW m, Announced(r, m), NEW ls \in [Workflows -> Lease],
           NEW ps \in SUBSET Workflows, NEW again \in BOOLEAN, Bookkeeping,
           ProcessDrains(r, m, ls, ps, again)
    PROVE  /\ Announced(row', mem') /\ MovesAll(r, row')
           /\ lease' \in [Workflows -> Lease] /\ loop' \in [Workflows -> Loop]
           /\ pending' \subseteq Workflows /\ kick' \in BOOLEAN
  <1>1. PICK ready : ready = {w \in ps : ~Draining(w)}
    OBVIOUS
  <1>2. PICK claimed : claimed = {w \in ready : CanClaim(ls, w)}
    OBVIOUS
  <1>3. PICK r1 : r1 = Reclaimed(r, ls, claimed)
    OBVIOUS
  <1>4. PICK busy : busy = {w \in claimed : Of(r1, w, "queued") # {}}
    OBVIOUS
  <1>5. PICK head : head = [w \in busy |-> First(r1, Of(r1, w, "queued"))]
    OBVIOUS
  <1>6. /\ Begin(r1, m, {head[w] : w \in busy})
        /\ loop' = [w \in Workflows |->
                      IF w \in busy THEN [at |-> "executing", intent |-> head[w]] ELSE loop[w]]
        /\ lease' = [w \in Workflows |->
                      IF w \in busy THEN [holder |-> "me", active |-> head[w], expired |-> FALSE]
                      ELSE IF w \in claimed THEN Free ELSE ls[w]]
        /\ pending' = ps \ ready
        /\ kick' = (again \/ ready \ busy # {})
    BY <1>1, <1>2, <1>3, <1>4, <1>5 DEF ProcessDrains
  <1>7. Announced(r1, m) /\ MovesAll(r, r1)
    BY <1>3, ReclaimedAnnounced
  <1>8. \A w \in busy : head[w] \in Ids /\ r1[head[w]].status = "queued"
    <2> SUFFICES ASSUME NEW w \in busy PROVE head[w] \in Ids /\ r1[head[w]].status = "queued"
      OBVIOUS
    <2>1. Of(r1, w, "queued") # {} /\ Of(r1, w, "queued") \subseteq Ids
      BY <1>4, OfIsOpen
    <2>2. head[w] \in Of(r1, w, "queued")
      BY <1>5, <1>7, <2>1, FirstExists, AnnouncedParts
    <2> QED BY <2>1, <2>2, OfIsOpen
  <1>9. PICK S \in SUBSET Ids : S = {head[w] : w \in busy}
    BY <1>8
  <1>10. \A i \in S : r1[i].status = "queued"
    BY <1>8, <1>9
  <1>11. Announced(row', mem') /\ MovesAll(r1, row')
    BY <1>6, <1>7, <1>9, <1>10, BeginAnnounced
  <1>12. MovesAll(r, row')
    BY <1>7, <1>11, MovesTransitive
  <1>13. lease' \in [Workflows -> Lease]
    BY <1>6, <1>8, QueueBoundsAssumption DEF Lease, Free, Ids
  <1>14. loop' \in [Workflows -> Loop]
    BY <1>6, <1>8 DEF Loop, Ids, Bookkeeping
  <1>15. pending' \subseteq Workflows /\ kick' \in BOOLEAN
    BY <1>6
  <1> QED BY <1>11, <1>12, <1>13, <1>14, <1>15

Final(r, s) ==
    \A i \in Ids : r[i].status \in {"completed", "failed"} => s[i].status \in {r[i].status, "erased"}

LEMMA MovesAreFinal == ASSUME NEW r, NEW s, MovesAll(r, s) PROVE Final(r, s)
  BY DEF Final, MovesAll, Moves

IInv == Bookkeeping /\ Announced(row, mem)

\* What the drain that follows a write leaves.
Drained(r) ==
    /\ Announced(row', mem') /\ MovesAll(r, row')
    /\ lease' \in [Workflows -> Lease] /\ loop' \in [Workflows -> Loop]
    /\ pending' \subseteq Workflows /\ kick' \in BOOLEAN

LEMMA ScheduleKeeps ==
    ASSUME NEW r, NEW m, Announced(r, m), NEW w \in Workflows, Bookkeeping, Schedule(r, m, w)
    PROVE  Drained(r)
  <1>1. CASE Draining(w)
    <2>1. row' = r /\ mem' = m /\ UNCHANGED <<loop, lease, pending, kick>>
      BY <1>1 DEF Schedule
    <2> QED BY <2>1, MovesReflexive DEF Drained, Bookkeeping
  <1>2. CASE ~Draining(w)
    <2>1. ProcessDrains(r, m, lease, pending \cup {w}, kick)
      BY <1>2 DEF Schedule
    <2>2. lease \in [Workflows -> Lease] /\ pending \cup {w} \in SUBSET Workflows /\ kick \in BOOLEAN
      BY DEF Bookkeeping
    <2> QED BY <2>1, <2>2, ProcessDrainsKeeps DEF Drained
  <1> QED BY <1>1, <1>2

LEMMA SchedulesKeeps ==
    ASSUME NEW r, NEW m, Announced(r, m), NEW w \in Workflows, NEW deferred \in BOOLEAN,
           Bookkeeping, Schedules(r, m, w, deferred)
    PROVE  Drained(r) /\ timer' \in BOOLEAN
  <1>1. CASE deferred
    <2>1. ScheduleDeferred(r, m, w)
      BY <1>1 DEF Schedules
    <2> QED BY <2>1, MovesReflexive DEF ScheduleDeferred, Drained, Bookkeeping
  <1>2. CASE ~deferred
    <2>1. Schedule(r, m, w) /\ timer' = timer
      BY <1>2 DEF Schedules
    <2> QED BY <2>1, ScheduleKeeps DEF Bookkeeping
  <1> QED BY <1>1, <1>2

-----------------------------------------------------------------------------
(* Accepting a mutation: a hard reset clears what is before it at once.    *)

LEMMA AcceptedKeeps ==
    ASSUME IInv, NEW i \in Ids, Fresh(i), NEW w \in Workflows, NEW k \in AllKinds,
           NEW h \in BOOLEAN, NEW caller \in {"waiting", "none"},
           NEW r, r = Inserted(i, w, k, h)
    PROVE  /\ Announced(AcceptedRows(r, i), AcceptedMem(r, i, caller))
           /\ Final(row, AcceptedRows(r, i))
  <1>1. /\ row \in Table /\ mem \in Memory /\ Agree(row, mem)
        /\ Contiguous(row) /\ Cleared(row)
    BY DEF IInv, Announced
  <1>2. /\ r[i] = [status |-> "queued", kind |-> k, wf |-> w, high |-> h]
        /\ \A j \in Ids \ {i} : r[j] = row[j]
        /\ r = [j \in Ids |-> r[j]]
    BY <1>1 DEF Inserted, Table
  <1>3. r \in Table
    <2>1. r[i] \in Row
      BY <1>2 DEF Row
    <2>2. \A j \in Ids : r[j] \in Row
      BY <1>1, <1>2, <2>1 DEF Table
    <2> QED BY <1>2, <2>2 DEF Table
  <1>4. Agree(r, mem)
    <2>1. mem[i].told = 0
      BY <1>1 DEF Agree, Fresh
    <2>2. r[i].status = "queued"
      BY <1>2
    <2> QED BY <1>1, <1>2, <2>1, <2>2 DEF Agree
  <1>5. \A j \in Ids : j < i => r[j].status # "none"
    BY <1>2, QueueBoundsAssumption DEF Fresh, Ids
  <1>6. Contiguous(r)
    BY <1>1, <1>2, <1>5, QueueBoundsAssumption DEF Contiguous, Fresh, Ids
  <1>7. PICK Q \in SUBSET Ids : Q = QueuedBefore(r, i)
    BY DEF QueuedBefore, Of
  <1>8. PICK P \in SUBSET Ids : P = RunningBefore(r, i)
    BY DEF RunningBefore, Of
  <1>9. \A j \in Q : r[j].status = "queued" /\ j # i
    BY <1>7, QueueBoundsAssumption DEF QueuedBefore, Of, Ids
  <1>10. \A j \in P : r[j].status = "running" /\ j # i
    BY <1>8, QueueBoundsAssumption DEF RunningBefore, Of, Ids
  <1>11. PICK S \in SUBSET Ids : S = Q \cup P
    OBVIOUS
  <1>12. AreOpen(r, S)
    BY <1>9, <1>10, <1>11 DEF AreOpen
  <1>13. PICK q : q = AcceptedRows(r, i)
    OBVIOUS
  <1>14. q = SetStatus(r, S, "failed")
    BY <1>7, <1>8, <1>11, <1>13 DEF AcceptedRows, Overtaken
  <1>15. PICK n : n = AcceptedMem(r, i, caller)
    OBVIOUS
  <1>16. Tells(mem, n, S)
    <2>1. PICK m1 : m1 = Evicted(mem, Q)
      OBVIOUS
    <2>2. PICK m2 : m2 = Supersede(m1, P)
      OBVIOUS
    <2>3. Tells(mem, m1, Q)
      BY <1>1, <2>1, EvictedMemory
    <2>4. Tells(m1, m2, P)
      BY <2>2, <2>3, SupersededMemory DEF Tells
    <2>5. n = [m2 EXCEPT ![i].caller = caller]
      BY <1>7, <1>8, <1>15, <2>1, <2>2 DEF AcceptedMem
    <2>6. m2 \in Memory
      BY <2>4 DEF Tells
    <2>7. n \in Memory /\ \A j \in Ids : n[j].told = m2[j].told
      BY <2>5, <2>6 DEF Memory, Mem
    <2>8. \A j \in Q : j \notin P
      BY <1>9, <1>10
    <2>9. \A j \in S : mem[j].told = 0 => n[j].told = 1
      <3>1. \A j \in Q : mem[j].told = 0 => n[j].told = 1
        BY <2>3, <2>4, <2>7, <2>8 DEF Tells
      <3>2. \A j \in P : mem[j].told = 0 => n[j].told = 1
        BY <2>3, <2>4, <2>7, <2>8 DEF Tells
      <3> QED BY <1>11, <3>1, <3>2
    <2>10. \A j \in Ids \ S : n[j].told = mem[j].told
      BY <1>11, <2>3, <2>4, <2>7 DEF Tells
    <2> QED BY <2>7, <2>9, <2>10 DEF Tells
  <1>17. Sets(r, q, S, "failed") /\ Agree(q, n)
    BY <1>3, <1>4, <1>12, <1>14, <1>16, FailAgrees
  <1>18. \A j \in Ids : Moves(r[j], q[j])
    BY <1>17 DEF Sets, MovesAll
  <1>19. Contiguous(q)
    BY <1>6, <1>18 DEF Contiguous, Moves
  <1>20. Cleared(q)
    <2> SUFFICES ASSUME NEW f \in Ids, NEW j \in Ids,
                        q[f].kind \in HardFences, q[f].status # "none", j < f,
                        q[j].wf = q[f].wf
                 PROVE  q[j].status \in Ended
      BY DEF Cleared
    <2>1. r[f].kind \in HardFences /\ r[f].status # "none" /\ r[j].wf = r[f].wf
      BY <1>18 DEF Moves
    <2>2. CASE f = i
      <3>1. r[j].status # "none" /\ r[j].status \in Statuses
        BY <1>3, <1>5, <2>2, RowParts DEF Table
      <3>2. CASE r[j].status = "queued"
        <4>1. j \in Q
          BY <1>7, <2>1, <2>2, <3>2 DEF QueuedBefore, Of, HardFences, Fences
        <4> QED BY <1>11, <1>17, <4>1 DEF Sets, Ended
      <3>3. CASE r[j].status = "running"
        <4>1. j \in P
          BY <1>8, <2>1, <2>2, <3>3 DEF RunningBefore, Of
        <4> QED BY <1>11, <1>17, <4>1 DEF Sets, Ended
      <3>4. CASE r[j].status \in Ended
        BY <1>18, <3>4 DEF Moves, Ended
      <3> QED BY <3>1, <3>2, <3>3, <3>4 DEF Statuses, Ended
    <2>3. CASE f # i
      <3>1. r[f] = row[f]
        BY <1>2, <2>3
      <3>2. j # i
        BY <1>1, <2>1, <3>1 DEF Contiguous, Fresh
      <3>3. row[j].status \in Ended
        BY <1>1, <1>2, <2>1, <3>1, <3>2 DEF Cleared
      <3>4. r[j].status \in Ended
        BY <1>2, <3>2, <3>3
      <3> QED BY <1>18, <3>4 DEF Moves, Ended
    <2> QED BY <2>2, <2>3
  <1>21. Final(row, q)
    <2>1. \A j \in Ids : row[j].status \in {"completed", "failed"} => r[j] = row[j]
      BY <1>2 DEF Fresh
    <2> QED BY <1>18, <2>1 DEF Final, Moves
  <1>22. Announced(q, n)
    BY <1>16, <1>17, <1>19, <1>20 DEF Announced, Sets, Tells
  <1> QED BY <1>13, <1>15, <1>21, <1>22

-----------------------------------------------------------------------------
(* One step.                                                               *)

\* What every step keeps, and what it leaves of an outcome.
Kept == IInv' /\ Final(row, row')

\* A step that writes the tables through a drain.
LEMMA DrainedIsKept ==
    ASSUME IInv, NEW r, Drained(r), Final(row, r),
           deleted' \subseteq Workflows, timer' \in BOOLEAN, recovered' \in BOOLEAN,
           restarts' \in 0 .. MaxRestarts
    PROVE  Kept
  <1>1. Announced(row', mem') /\ MovesAll(r, row')
    BY DEF Drained
  <1>2. Bookkeeping'
    BY DEF Drained, Bookkeeping
  <1>3. IInv'
    <2>1. (Announced(row, mem))'
      BY <1>1 DEF Announced, Agree, Contiguous, Cleared, Table, Memory
    <2> QED BY <1>2, <2>1 DEF IInv
  <1>4. Final(row, row')
    BY <1>1 DEF Final, MovesAll, Moves
  <1> QED BY <1>3, <1>4 DEF Kept

LEMMA EnqueueKeeps ==
    ASSUME IInv, NEW w \in Workflows, NEW k \in AllKinds, NEW h \in BOOLEAN, Enqueue(w, k, h)
    PROVE  Kept
  <1>1. PICK i \in Ids :
          /\ Fresh(i)
          /\ Schedule(AcceptedRows(Inserted(i, w, k, h), i),
                      AcceptedMem(Inserted(i, w, k, h), i, "waiting"), w)
    BY DEF Enqueue
  <1>2. UNCHANGED <<deleted, timer, recovered, restarts>>
    BY DEF Enqueue
  <1>3. PICK r : r = Inserted(i, w, k, h)
    OBVIOUS
  <1>4. PICK c \in {"waiting", "none"} : c = "waiting"
    OBVIOUS
  <1>5. PICK r1, m1 : r1 = AcceptedRows(r, i) /\ m1 = AcceptedMem(r, i, c)
    OBVIOUS
  <1>6. Announced(r1, m1) /\ Final(row, r1)
    BY <1>1, <1>3, <1>5, AcceptedKeeps
  <1>7. Schedule(r1, m1, w)
    BY <1>1, <1>3, <1>4, <1>5
  <1>8. Drained(r1)
    BY <1>6, <1>7, ScheduleKeeps DEF IInv
  <1>9. deleted' \subseteq Workflows /\ timer' \in BOOLEAN /\ recovered' \in BOOLEAN
        /\ restarts' \in 0 .. MaxRestarts
    BY <1>2 DEF IInv, Bookkeeping
  <1> QED BY <1>6, <1>8, <1>9, DrainedIsKept

LEMMA SubmitKeeps ==
    ASSUME IInv, NEW w \in Workflows, NEW k \in AllKinds, NEW h \in BOOLEAN,
           NEW globally \in BOOLEAN, NEW deferred \in BOOLEAN, Submit(w, k, h, globally, deferred)
    PROVE  Kept
  <1>1. PICK open : open = Joinable(w, k, globally)
    OBVIOUS
  <1>2. /\ \/ open # {} /\ Schedules(row, mem, row[First(row, open)].wf, deferred)
           \/ \E i \in Ids :
                 /\ Fresh(i)
                 /\ Schedules(AcceptedRows(Inserted(i, w, k, h), i),
                              AcceptedMem(Inserted(i, w, k, h), i, "none"), w, deferred)
        /\ UNCHANGED <<deleted, recovered, restarts>>
    BY <1>1 DEF Submit
  <1>3. /\ deleted' \subseteq Workflows /\ recovered' \in BOOLEAN
        /\ restarts' \in 0 .. MaxRestarts
    BY <1>2 DEF IInv, Bookkeeping
  <1>4. CASE open # {} /\ Schedules(row, mem, row[First(row, open)].wf, deferred)
    <2>1. open \subseteq Ids /\ \A i \in open : row[i].status \in {"queued", "running"}
      BY <1>1 DEF Joinable
    <2>2. row \in Table /\ Contiguous(row) /\ Announced(row, mem)
      BY DEF IInv, Announced
    <2>3. First(row, open) \in open
      BY <1>4, <2>1, <2>2, FirstExists
    <2>4. PICK v \in Workflows : v = row[First(row, open)].wf
      BY <2>1, <2>2, <2>3 DEF Contiguous
    <2>5. Drained(row) /\ timer' \in BOOLEAN
      <3>1. Schedules(row, mem, v, deferred)
        BY <1>4, <2>4
      <3> QED BY <2>2, <3>1, SchedulesKeeps DEF IInv
    <2>6. Final(row, row)
      BY DEF Final
    <2> QED BY <1>3, <2>5, <2>6, DrainedIsKept
  <1>5. ASSUME NEW i \in Ids, Fresh(i),
               Schedules(AcceptedRows(Inserted(i, w, k, h), i),
                         AcceptedMem(Inserted(i, w, k, h), i, "none"), w, deferred)
        PROVE  Kept
    <2>3. PICK r : r = Inserted(i, w, k, h)
      OBVIOUS
    <2>4. PICK c \in {"waiting", "none"} : c = "none"
      OBVIOUS
    <2>5. PICK r1, m1 : r1 = AcceptedRows(r, i) /\ m1 = AcceptedMem(r, i, c)
      OBVIOUS
    <2>6. Announced(r1, m1) /\ Final(row, r1)
      BY <1>5, <2>3, <2>5, AcceptedKeeps
    <2>7. Schedules(r1, m1, w, deferred)
      BY <1>5, <2>3, <2>4, <2>5
    <2>8. Drained(r1) /\ timer' \in BOOLEAN
      BY <2>6, <2>7, SchedulesKeeps DEF IInv
    <2> QED BY <1>3, <2>6, <2>8, DrainedIsKept
  <1> QED BY <1>2, <1>4, <1>5

LEMMA DrainsKeep ==
    ASSUME IInv, TimerFires \/ DrainEnded
    PROVE  Kept
  <1>1. PICK again \in BOOLEAN : ProcessDrains(row, mem, lease, pending, again)
    BY DEF TimerFires, DrainEnded, IInv, Bookkeeping
  <1>2. Announced(row, mem) /\ Bookkeeping /\ lease \in [Workflows -> Lease]
        /\ pending \in SUBSET Workflows
    BY DEF IInv, Bookkeeping
  <1>3. Drained(row)
    BY <1>1, <1>2, ProcessDrainsKeeps DEF Drained
  <1>4. deleted' \subseteq Workflows /\ timer' \in BOOLEAN /\ recovered' \in BOOLEAN
        /\ restarts' \in 0 .. MaxRestarts
    BY DEF TimerFires, DrainEnded, IInv, Bookkeeping
  <1>5. Final(row, row)
    BY DEF Final
  <1> QED BY <1>3, <1>4, <1>5, DrainedIsKept

\* A step whose writes are known and which leaves the books in order.
LEMMA WritesAreKept ==
    ASSUME IInv, NEW r, NEW m, row' = r, mem' = m, Announced(r, m), MovesAll(row, r), Bookkeeping'
    PROVE  Kept
  <1>1. (Announced(row, mem))'
    BY DEF Announced, Agree, Contiguous, Cleared, Table, Memory
  <1>2. IInv'
    BY <1>1 DEF IInv
  <1>3. Final(row, row')
    BY MovesAreFinal
  <1> QED BY <1>2, <1>3 DEF Kept

LEMMA SilentMemory ==
    ASSUME NEW r, NEW m, Announced(r, m), NEW n \in Memory,
           \A i \in Ids : n[i].told = m[i].told
    PROVE  Announced(r, n)
  BY DEF Announced, Agree

LEMMA ResolvesKeeps ==
    ASSUME IInv, NEW i \in Ids, DispatchResolves(i)
    PROVE  Kept
  <1>1. PICK n : n = [mem EXCEPT ![i].dispatch = "resolved",
                                 ![i].race = IF @ = "open" THEN "resolved" ELSE @]
    OBVIOUS
  <1>2. mem' = n /\ row' = row /\ Announced(row, mem) /\ mem \in Memory
    BY <1>1 DEF DispatchResolves, IInv, Announced
  <1>3. mem[i] \in Mem
    BY <1>2 DEF Memory
  <1>4. PICK x : x = [[mem[i] EXCEPT !.dispatch = "resolved"]
                       EXCEPT !.race = IF @ = "open" THEN "resolved" ELSE @]
    OBVIOUS
  <1>5. x \in Mem /\ x.told = mem[i].told
    BY <1>3, <1>4 DEF Mem
  <1>6. n = [mem EXCEPT ![i] = x]
    BY <1>1, <1>2, <1>4 DEF Memory
  <1>7. n \in Memory /\ \A j \in Ids : n[j].told = mem[j].told
    BY <1>2, <1>5, <1>6 DEF Memory
  <1>8. Announced(row, n)
    BY <1>2, <1>7, SilentMemory
  <1>9. Bookkeeping'
    BY DEF DispatchResolves, IInv, Bookkeeping
  <1> QED BY <1>2, <1>8, <1>9, MovesReflexive, WritesAreKept

LEMMA RejectsKeeps ==
    ASSUME IInv, NEW i \in Ids, DispatchRejects(i)
    PROVE  Kept
  <1>1. PICK m : m = IF row[i].status = "running" THEN Tell(mem[i]) ELSE mem[i]
    OBVIOUS
  <1>2. PICK x : x = [[m EXCEPT !.dispatch = "rejected"]
                       EXCEPT !.race = IF @ = "open" THEN "rejected" ELSE @]
    OBVIOUS
  <1>3. /\ row' = IF row[i].status = "running" THEN SetStatus(row, {i}, "failed") ELSE row
        /\ mem' = [mem EXCEPT ![i] = [m EXCEPT !.dispatch = "rejected",
                                               !.race = IF @ = "open" THEN "rejected" ELSE @]]
    BY <1>1 DEF DispatchRejects
  <1>4. Announced(row, mem) /\ mem \in Memory /\ mem[i] \in Mem
    BY DEF IInv, Announced, Memory
  <1>5. m \in Mem
    BY <1>1, <1>4, MemWith
  <1>6. x \in Mem /\ x.told = m.told
    BY <1>2, <1>5 DEF Mem
  <1>7. mem' = [mem EXCEPT ![i] = x]
    BY <1>2, <1>3, <1>5 DEF Mem
  <1>8. /\ mem' \in Memory
        /\ \A j \in Ids \ {i} : mem'[j].told = mem[j].told
        /\ mem'[i].told = m.told
    BY <1>4, <1>6, <1>7 DEF Memory
  <1>9. Bookkeeping'
    BY DEF DispatchRejects, IInv, Bookkeeping
  <1>10. CASE row[i].status = "running"
    <2>1. PICK S \in SUBSET Ids : S = {i}
      OBVIOUS
    <2>2. row' = SetStatus(row, S, "failed")
      BY <1>3, <1>10, <2>1
    <2>3. AreOpen(row, S)
      BY <1>10, <2>1 DEF AreOpen
    <2>4. mem[i].told = 0 => m.told = 1
      BY <1>1, <1>4, <1>10, MemWith
    <2>5. Tells(mem, mem', S)
      BY <1>8, <2>1, <2>4 DEF Tells
    <2>6. Announced(row', mem') /\ MovesAll(row, row')
      BY <1>4, <2>2, <2>3, <2>5, FailAnnounced
    <2> QED BY <1>9, <2>6, WritesAreKept
  <1>11. CASE row[i].status # "running"
    <2>1. row' = row /\ m = mem[i]
      BY <1>1, <1>3, <1>11
    <2>2. \A j \in Ids : mem'[j].told = mem[j].told
      BY <1>8, <2>1
    <2>3. Announced(row, mem')
      BY <1>4, <1>8, <2>2, SilentMemory
    <2> QED BY <1>9, <2>1, <2>3, MovesReflexive, WritesAreKept
  <1> QED BY <1>10, <1>11

LEMMA DeletesKeeps ==
    ASSUME IInv, NEW i \in Ids, DeletesWorkflow(i)
    PROVE  Kept
  <1>1. PICK w : w = row[i].wf
    OBVIOUS
  <1>2. /\ row' = [j \in Ids |-> IF row[j].wf = w /\ row[j].status # "none"
                                 THEN [row[j] EXCEPT !.status = "erased"] ELSE row[j]]
        /\ mem' = mem /\ deleted' = deleted \cup {w} /\ lease' = [lease EXCEPT ![w] = Free]
        /\ UNCHANGED <<loop, pending, timer, kick, recovered, restarts>>
    BY <1>1 DEF DeletesWorkflow
  <1>3. /\ row \in Table /\ mem \in Memory /\ Agree(row, mem)
        /\ Contiguous(row) /\ Cleared(row)
    BY DEF IInv, Announced
  <1>5. \A j \in Ids : row[j] \in Row
    BY <1>3 DEF Table
  <1>6. PICK r : r = row'
    OBVIOUS
  <1>7. ASSUME NEW j \in Ids
        PROVE  r[j] \in Row /\ Moves(row[j], r[j]) /\ (r[j] = row[j] \/ r[j].status = "erased")
    <2>1. CASE row[j].wf = w /\ row[j].status # "none"
      <3>1. PICK e \in Statuses : e = "erased"
        BY DEF Statuses
      <3>2. r[j] = [row[j] EXCEPT !.status = e]
        BY <1>2, <1>6, <2>1, <3>1
      <3>3. r[j] \in Row /\ r[j].status = "erased" /\ r[j].kind = row[j].kind
            /\ r[j].wf = row[j].wf /\ r[j].high = row[j].high
        BY <1>5, <3>1, <3>2, RowWith
      <3> QED BY <2>1, <3>3 DEF Moves
    <2>2. CASE ~(row[j].wf = w /\ row[j].status # "none")
      <3>1. r[j] = row[j]
        BY <1>2, <1>6, <2>2
      <3> QED BY <1>5, <3>1 DEF Moves
    <2> QED BY <2>1, <2>2
  <1>8. r \in Table
    <2>1. r = [j \in Ids |-> r[j]]
      BY <1>2, <1>6
    <2> QED BY <1>7, <2>1 DEF Table
  <1>9. MovesAll(row, r)
    BY <1>7 DEF MovesAll
  <1>10. Agree(r, mem)
    BY <1>3, <1>7 DEF Agree
  <1>11. Announced(r, mem)
    BY <1>3, <1>8, <1>9, <1>10, MovesKeepOrder DEF Announced
  <1>12. deleted' \subseteq Workflows
    BY <1>1, <1>2 DEF DeletesWorkflow, IInv, Bookkeeping
  <1>13. Bookkeeping'
    <2>1. lease' \in [Workflows -> Lease]
      <3>1. Free \in Lease
        BY QueueBoundsAssumption DEF Lease, Free
      <3>2. lease \in [Workflows -> Lease] /\ lease' = [lease EXCEPT ![w] = Free]
        BY <1>2 DEF IInv, Bookkeeping
      <3> QED BY <3>1, <3>2
    <2> QED BY <1>2, <1>12, <2>1 DEF IInv, Bookkeeping
  <1> QED BY <1>2, <1>6, <1>9, <1>11, <1>13, WritesAreKept

LEMMA SettleKeeps ==
    ASSUME IInv, NEW w \in Workflows, Settle(w)
    PROVE  Kept
  <1>1. PICK i : i = loop[w].intent
    OBVIOUS
  <1>2. PICK ok \in BOOLEAN : ok = (mem[i].race = "resolved")
    OBVIOUS
  <1>3. PICK m : m = IF row[i].status = "running" /\ ~ok THEN Tell(mem[i]) ELSE mem[i]
    OBVIOUS
  <1>4. PICK x : x = [[m EXCEPT !.race = "none"]
                       EXCEPT !.caller = IF @ = "waiting" THEN Answer(i) ELSE @]
    OBVIOUS
  <1>5. /\ row' = SettledRow(i, ok)
        /\ mem' = [mem EXCEPT ![i] =
                     [m EXCEPT !.race = "none", !.caller = IF @ = "waiting" THEN Answer(i) ELSE @]]
    BY <1>1, <1>2, <1>3 DEF Settle
  <1>6. Announced(row, mem) /\ mem \in Memory
    BY DEF IInv, Announced
  <1>7. Bookkeeping'
    <2>1. /\ lease' = IF lease[w].holder = "me" THEN [lease EXCEPT ![w].active = 0] ELSE lease
          /\ loop' = [loop EXCEPT ![w] = [at |-> "between", intent |-> 0]]
          /\ UNCHANGED <<deleted, pending, timer, kick, recovered, restarts>>
      BY DEF Settle
    <2>2. lease' \in [Workflows -> Lease]
      BY <2>1, QueueBoundsAssumption DEF IInv, Bookkeeping, Lease
    <2>3. loop' \in [Workflows -> Loop]
      BY <2>1, QueueBoundsAssumption DEF IInv, Bookkeeping, Loop
    <2> QED BY <2>1, <2>2, <2>3 DEF IInv, Bookkeeping
  <1>8. CASE i \notin Ids
    <2>1. row' = row
      <3>1. row = [j \in Ids |-> row[j]]
        BY DEF IInv, Announced, Table
      <3>2. row' = row \/ \E v : row' = SetStatus(row, {i}, v)
        BY <1>5 DEF SettledRow
      <3> QED BY <1>8, <3>1, <3>2 DEF SetStatus
    <2>2. mem' = mem
      BY <1>5, <1>6, <1>8 DEF Memory
    <2> QED BY <1>6, <1>7, <2>1, <2>2, MovesReflexive, WritesAreKept
  <1>9. CASE i \in Ids
    <2>1. mem[i] \in Mem
      BY <1>6, <1>9 DEF Memory
    <2>2. m \in Mem
      BY <1>3, <2>1, MemWith
    <2>3. x \in Mem /\ x.told = m.told
      BY <1>4, <2>2 DEF Mem, Answer
    <2>4. mem' = [mem EXCEPT ![i] = x]
      BY <1>4, <1>5, <2>2 DEF Mem
    <2>5. /\ mem' \in Memory
          /\ \A j \in Ids \ {i} : mem'[j].told = mem[j].told
          /\ mem'[i].told = m.told
      BY <1>6, <1>9, <2>3, <2>4 DEF Memory
    <2>6. PICK S \in SUBSET Ids : S = {i}
      BY <1>9
    <2>7. CASE row[i].status = "running" /\ ~ok
      <3>1. row' = SetStatus(row, S, "failed")
        BY <1>5, <2>6, <2>7 DEF SettledRow
      <3>2. AreOpen(row, S)
        BY <2>6, <2>7 DEF AreOpen
      <3>3. mem[i].told = 0 => m.told = 1
        BY <1>3, <2>1, <2>7, MemWith
      <3>4. Tells(mem, mem', S)
        BY <2>5, <2>6, <3>3 DEF Tells
      <3>5. Announced(row', mem') /\ MovesAll(row, row')
        BY <1>6, <3>1, <3>2, <3>4, FailAnnounced
      <3> QED BY <1>7, <3>5, WritesAreKept
    <2>8. CASE row[i].status = "running" /\ ok
      <3>1. PICK v \in {"queued", "running", "completed"} : v = "completed"
        OBVIOUS
      <3>2. row' = SetStatus(row, S, v)
        BY <1>5, <2>6, <2>8, <3>1 DEF SettledRow
      <3>3. \A j \in S : row[j].status = "running"
        BY <2>6, <2>8
      <3>4. Announced(row', mem) /\ MovesAll(row, row')
        BY <1>6, <3>2, <3>3, RequeueAnnounced
      <3>5. \A j \in Ids : mem'[j].told = mem[j].told
        BY <1>3, <2>5, <2>8
      <3>6. Announced(row', mem')
        BY <2>5, <3>4, <3>5, SilentMemory
      <3> QED BY <1>7, <3>4, <3>6, WritesAreKept
    <2>9. CASE row[i].status # "running"
      <3>1. row' = row
        BY <1>5, <2>9 DEF SettledRow
      <3>2. \A j \in Ids : mem'[j].told = mem[j].told
        BY <1>3, <2>5, <2>9
      <3>3. Announced(row, mem')
        BY <1>6, <2>5, <3>2, SilentMemory
      <3> QED BY <1>7, <3>1, <3>3, MovesReflexive, WritesAreKept
    <2> QED BY <2>7, <2>8, <2>9
  <1> QED BY <1>8, <1>9

LEMMA DrainNextKeeps ==
    ASSUME IInv, NEW w \in Workflows, DrainNext(w)
    PROVE  Kept
  <1>1. UNCHANGED <<deleted, pending, timer, recovered, restarts>>
    BY DEF DrainNext
  <1>2. Announced(row, mem)
    BY DEF IInv
  <1>3. CASE Of(row, w, "queued") # {}
    <2>1. PICK i : i = First(row, Of(row, w, "queued"))
      OBVIOUS
    <2>2. /\ Begin(row, mem, {i})
          /\ loop' = [loop EXCEPT ![w] = [at |-> "executing", intent |-> i]]
          /\ lease' = IF lease[w].holder = "me" THEN [lease EXCEPT ![w].active = i] ELSE lease
          /\ UNCHANGED kick
      BY <1>3, <2>1 DEF DrainNext
    <2>3. i \in Of(row, w, "queued")
      BY <1>2, <1>3, <2>1, FirstExists, OfIsOpen, AnnouncedParts
    <2>4. i \in Ids /\ row[i].status = "queued"
      BY <2>3 DEF Of
    <2>5. PICK S \in SUBSET Ids : S = {i}
      BY <2>4
    <2>6. Announced(row', mem') /\ MovesAll(row, row')
      <3>1. \A j \in S : row[j].status = "queued"
        BY <2>4, <2>5
      <3>2. Begin(row, mem, S)
        BY <2>2, <2>5
      <3> QED BY <1>2, <3>1, <3>2, BeginAnnounced
    <2>7. Bookkeeping'
      <3>1. lease' \in [Workflows -> Lease]
        BY <2>2, <2>4, QueueBoundsAssumption DEF IInv, Bookkeeping, Lease, Ids
      <3>2. loop' \in [Workflows -> Loop]
        BY <2>2, <2>4, QueueBoundsAssumption DEF IInv, Bookkeeping, Loop, Ids
      <3> QED BY <1>1, <2>2, <3>1, <3>2 DEF IInv, Bookkeeping
    <2> QED BY <2>6, <2>7, WritesAreKept
  <1>4. CASE Of(row, w, "queued") = {}
    <2>1. /\ lease' = IF lease[w].holder = "me" THEN [lease EXCEPT ![w] = Free] ELSE lease
          /\ loop' = [loop EXCEPT ![w] = Idle]
          /\ kick' = TRUE /\ row' = row /\ mem' = mem
      BY <1>4 DEF DrainNext
    <2>2. Bookkeeping'
      BY <1>1, <2>1, QueueBoundsAssumption DEF IInv, Bookkeeping, Lease, Free, Loop, Idle
    <2> QED BY <1>2, <2>1, <2>2, MovesReflexive, WritesAreKept
  <1> QED BY <1>3, <1>4

LEMMA ExpiresKeeps ==
    ASSUME IInv, NEW w \in Workflows, LeaseExpires(w)
    PROVE  Kept
  <1>1. Announced(row, mem) /\ row' = row /\ mem' = mem
    BY DEF IInv, LeaseExpires
  <1>2. Bookkeeping'
    BY DEF LeaseExpires, IInv, Bookkeeping, Lease
  <1> QED BY <1>1, <1>2, MovesReflexive, WritesAreKept

\* The lease of a process that has ended.
LEMMA GoneLease ==
    ASSUME NEW a \in Lease, NEW slow \in BOOLEAN
    PROVE  [a EXCEPT !.holder = "gone", !.expired = @ \/ slow] \in Lease
  <1>1. a.expired \in BOOLEAN /\ (a.expired \/ slow) \in BOOLEAN
    BY DEF Lease
  <1> QED BY <1>1 DEF Lease

LEMMA RestartKeeps ==
    ASSUME IInv, NEW orderly \in BOOLEAN, NEW quick \in BOOLEAN, Restart(orderly, quick)
    PROVE  Kept
  <1>1. PICK S \in SUBSET Ids : S = {i \in Ids : row[i].status = "running"}
    OBVIOUS
  <1>2. PICK v \in {"queued", "running", "completed"} : v = "queued"
    OBVIOUS
  <1>3. Announced(row, mem) /\ mem \in Memory
    BY DEF IInv, Announced
  <1>4. row' = IF orderly THEN SetStatus(row, S, v) ELSE row
    BY <1>1, <1>2 DEF Restart
  <1>5. Announced(row', mem) /\ MovesAll(row, row')
    <2>1. \A i \in S : row[i].status = "running"
      BY <1>1
    <2>2. Announced(SetStatus(row, S, v), mem) /\ MovesAll(row, SetStatus(row, S, v))
      BY <1>3, <2>1, RequeueAnnounced
    <2> QED BY <1>3, <1>4, <2>2, MovesReflexive
  <1>6. mem' \in Memory /\ \A i \in Ids : mem'[i].told = mem[i].told
    <2>1. mem' = [i \in Ids |-> Forgotten(mem[i])]
      BY DEF Restart
    <2>2. \A i \in Ids : mem[i] \in Mem
      BY <1>3 DEF Memory
    <2>3. \A i \in Ids : mem'[i] \in Mem /\ mem'[i].told = mem[i].told
      BY <2>1, <2>2, MemWith
    <2> QED BY <2>1, <2>3 DEF Memory
  <1>7. Announced(row', mem')
    BY <1>5, <1>6, SilentMemory
  <1>8. Bookkeeping'
    <2>1. lease' = [w \in Workflows |->
                      IF lease[w].holder = "free" THEN Free
                      ELSE [lease[w] EXCEPT !.holder = "gone", !.expired = @ \/ ~quick]]
      BY DEF Restart
    <2>2. \A w \in Workflows : lease'[w] \in Lease
      <3> SUFFICES ASSUME NEW w \in Workflows PROVE lease'[w] \in Lease
        OBVIOUS
      <3>1. lease[w] \in Lease
        BY DEF IInv, Bookkeeping
      <3>3. CASE lease[w].holder = "free"
        <4>1. lease'[w] = Free
          BY <2>1, <3>3, Zenon
        <4>2. Free \in Lease
          BY QueueBoundsAssumption DEF Lease, Free
        <4> QED BY <4>1, <4>2
      <3>4. CASE lease[w].holder # "free"
        <4>1. lease'[w] = [lease[w] EXCEPT !.holder = "gone", !.expired = @ \/ ~quick]
          BY <2>1, <3>4, Zenon
        <4>2. (~quick) \in BOOLEAN
          OBVIOUS
        <4> QED BY <3>1, <4>1, <4>2, GoneLease, Zenon
      <3> QED BY <3>3, <3>4
    <2>3. lease' \in [Workflows -> Lease]
      BY <2>1, <2>2
    <2>4. loop' = [w \in Workflows |-> Idle] /\ restarts' = restarts + 1 /\ restarts < MaxRestarts
          /\ pending' = {} /\ timer' = FALSE /\ kick' = FALSE /\ recovered' = FALSE
          /\ UNCHANGED deleted
      BY DEF Restart
    <2>5. loop' \in [Workflows -> Loop] /\ restarts' \in 0 .. MaxRestarts
      BY <2>4, QueueBoundsAssumption DEF IInv, Bookkeeping, Loop, Idle
    <2> QED BY <2>3, <2>4, <2>5 DEF IInv, Bookkeeping
  <1> QED BY <1>5, <1>7, <1>8, WritesAreKept

LEMMA RecoverKeeps ==
    ASSUME IInv, Recover
    PROVE  Kept
  <1>1. PICK ls : ls = [w \in Workflows |-> IF lease[w].expired THEN Free ELSE lease[w]]
    OBVIOUS
  <1>2. PICK S \in SUBSET Ids : S = Orphaned(row, ls)
    BY DEF Orphaned
  <1>3. PICK v \in {"queued", "running", "completed"} : v = "queued"
    OBVIOUS
  <1>4. PICK r : r = SetStatus(row, S, v)
    OBVIOUS
  <1>5. PICK ps \in SUBSET Workflows :
          ps = pending \cup {w \in Workflows : Of(r, w, "queued") # {}}
    BY DEF IInv, Bookkeeping
  <1>6. ProcessDrains(r, mem, ls, ps, kick) /\ recovered' = TRUE
        /\ UNCHANGED <<deleted, timer, restarts>>
    BY <1>1, <1>2, <1>3, <1>4, <1>5 DEF Recover
  <1>7. \A i \in S : row[i].status = "running"
    BY <1>2 DEF Orphaned
  <1>8. Announced(r, mem) /\ MovesAll(row, r)
    BY <1>4, <1>7, RequeueAnnounced DEF IInv
  <1>9. ls \in [Workflows -> Lease] /\ kick \in BOOLEAN
    BY <1>1, QueueBoundsAssumption DEF IInv, Bookkeeping, Lease, Free
  <1>10. Drained(r)
    BY <1>5, <1>6, <1>8, <1>9, ProcessDrainsKeeps DEF IInv, Drained
  <1>11. deleted' \subseteq Workflows /\ timer' \in BOOLEAN /\ recovered' \in BOOLEAN
         /\ restarts' \in 0 .. MaxRestarts
    BY <1>6 DEF IInv, Bookkeeping
  <1>12. Final(row, r)
    BY <1>8, MovesAreFinal
  <1> QED BY <1>10, <1>11, <1>12, DrainedIsKept

-----------------------------------------------------------------------------
(* Every behaviour.                                                        *)

LEMMA NextKeeps == ASSUME IInv, Next PROVE Kept
  <1>1. CASE \E w \in Workflows, k \in Kinds, p \in Priorities : Enqueue(w, k, p = "high")
    <2>1. PICK w \in Workflows, k \in Kinds, p \in Priorities : Enqueue(w, k, p = "high")
      BY <1>1
    <2>2. PICK h \in BOOLEAN : h = (p = "high")
      OBVIOUS
    <2>3. k \in AllKinds /\ Enqueue(w, k, h)
      BY <2>1, <2>2, QueueSetsAssumption
    <2> QED BY <2>3, EnqueueKeeps
  <1>2. CASE \E w \in Workflows, k \in Kinds, p \in Priorities, globally, deferred \in BOOLEAN :
               Submit(w, k, p = "high", globally, deferred)
    <2>1. PICK w \in Workflows, k \in Kinds, p \in Priorities,
               globally \in BOOLEAN, deferred \in BOOLEAN :
                 Submit(w, k, p = "high", globally, deferred)
      BY <1>2
    <2>2. PICK h \in BOOLEAN : h = (p = "high")
      OBVIOUS
    <2>3. k \in AllKinds /\ Submit(w, k, h, globally, deferred)
      BY <2>1, <2>2, QueueSetsAssumption
    <2> QED BY <2>3, SubmitKeeps
  <1>3. CASE TimerFires \/ DrainEnded
    BY <1>3, DrainsKeep
  <1>4. CASE \E i \in Ids : DispatchResolves(i) \/ DispatchRejects(i) \/ DeletesWorkflow(i)
    BY <1>4, ResolvesKeeps, RejectsKeeps, DeletesKeeps
  <1>5. CASE \E w \in Workflows : Settle(w) \/ DrainNext(w) \/ LeaseExpires(w)
    BY <1>5, SettleKeeps, DrainNextKeeps, ExpiresKeeps
  <1>6. CASE \E orderly, quick \in BOOLEAN : Restart(orderly, quick)
    BY <1>6, RestartKeeps
  <1>7. CASE Recover
    BY <1>7, RecoverKeeps
  <1> QED BY <1>1, <1>2, <1>3, <1>4, <1>5, <1>6, <1>7 DEF Next

LEMMA InitKeeps == ASSUME Init PROVE IInv
  <1>1. Bookkeeping
    <2>1. Free \in Lease /\ Idle \in Loop
      BY QueueBoundsAssumption DEF Lease, Free, Loop, Idle
    <2>2. 0 \in 0 .. MaxRestarts
      BY QueueBoundsAssumption
    <2> QED BY <2>1, <2>2 DEF Init, Bookkeeping
  <1>2. row \in Table
    BY DEF Init, Table, Row, NoIntent, AllKinds
  <1>3. mem \in Memory
    BY DEF Init, Memory, Mem, Unknown
  <1>4. \A i \in Ids : row[i].status = "none" /\ mem[i].told = 0 /\ row[i].kind = "work" /\ row[i].wf = "none"
    BY DEF Init, NoIntent, Unknown
  <1>5. Agree(row, mem) /\ Contiguous(row) /\ Cleared(row)
    BY <1>4 DEF Agree, Contiguous, Cleared
  <1> QED BY <1>1, <1>2, <1>3, <1>5 DEF IInv, Announced

LEMMA StutterKeeps == ASSUME IInv, UNCHANGED vars PROVE Kept
  <1>1. Announced(row, mem) /\ row' = row /\ mem' = mem
    BY DEF IInv, vars
  <1>2. Bookkeeping'
    BY DEF IInv, Bookkeeping, vars
  <1> QED BY <1>1, <1>2, MovesReflexive, WritesAreKept

\* The tables keep their shape, what precedes a hard reset has ended, and
\* the failures announced are those recorded: together inductive.
THEOREM QueueInvariant == Spec => []IInv
  <1>1. IInv /\ [Next]_vars => IInv'
    BY NextKeeps, StutterKeeps DEF Kept
  <1>2. Init => IInv
    BY InitKeeps
  <1> QED BY <1>1, <1>2, PTL DEF Spec

\* The rows, leases and memory keep their shape for any number of
\* workflows, intents and restarts.
THEOREM QueueTypeCorrect == Spec => []TypeOK
  <1>1. IInv => TypeOK
    BY DEF IInv, Bookkeeping, Announced, Table, Memory, TypeOK
  <1> QED BY <1>1, QueueInvariant, PTL

\* Nothing accepted before a recreate or a delete of its workflow starts
\* again, whatever drains, restarts and takes over in between.
THEOREM QueueHardFenceClears == Spec => []HardFenceClears
  <1>1. IInv => HardFenceClears
    BY DEF IInv, Announced, Cleared, HardFenceClears, Older
  <1> QED BY <1>1, QueueInvariant, PTL

\* Fences, recorded rejections and executeIntent never announce the failure
\* of an intent twice, and never that of one that has not failed.
THEOREM QueueFailureToldOnce == Spec => []FailureToldOnce
  <1>1. IInv => FailureToldOnce
    BY DEF IInv, Announced, Agree, FailureToldOnce
  <1> QED BY <1>1, QueueInvariant, PTL

\* No step changes an outcome, short of erasing the intent with its
\* workflow: not the late settlement of a dispatch, nor a restart.
THEOREM QueueOutcomesStick == Spec => OutcomesStick
  <1>1. IInv /\ [Next]_vars =>
          [\A i \in Ids : row[i].status \in {"completed", "failed"} =>
             row'[i].status \in {row[i].status, "erased"}]_vars
    BY NextKeeps DEF Kept, Final
  <1> QED BY <1>1, QueueInvariant, PTL DEF Spec, OutcomesStick

-----------------------------------------------------------------------------
(***************************************************************************)
(* The mutation queue implements SerialQueue.  What has to be shown is     *)
(* that a drain never starts an intent beside another one of its workflow: *)
(* a drain that runs holds the lease, what runs under the lease of an      *)
(* owner that is gone keeps the drains of the new one away, and taking the *)
(* lease over puts it back in the queue (`OneAtATime`).                    *)
(*                                                                         *)
(* Since intents run alone, the dispatch, the race and the caller of each  *)
(* intent agree with its row (`Heard`): the second half of the module.     *)
(***************************************************************************)

\* What runs of a workflow that is not deleted is the intent of its drain,
\* or was left behind under the lease of the owner before.
OneAtATime(r, D, ls, lp) ==
    \A w \in Workflows \ D :
        /\ ls[w].holder = "me" <=> lp[w].at # "idle"
        /\ ls[w].expired => ls[w].holder # "me"
        /\ \A i \in Ids : r[i].wf = w /\ r[i].status = "running" =>
              \/ lp[w].at = "executing" /\ lp[w].intent = i
              \/ lp[w].at = "idle" /\ ls[w].holder = "gone"

RInv == IInv /\ OneAtATime(row, deleted, lease, loop)

-----------------------------------------------------------------------------
(* The steps of the abstract queue, on tables.                             *)

SameIntent(a, b) == b.kind = a.kind /\ b.wf = a.wf /\ b.high = a.high

\* Nothing of its workflow runs beside i or waits ahead of it.
RowStarts(s, i) ==
    /\ s[i].status = "running"
    /\ \A j \in Ids \ {i} : s[j].wf = s[i].wf =>
          /\ s[j].status # "running"
          /\ s[j].status = "queued" => Before(s, i, j)
    /\ s[i].kind \in Fences =>
          \A j \in Ids : j < i /\ s[j].wf = s[i].wf => s[j].status \notin {"queued", "running"}

RowDropped(s, i) ==
    /\ s[i].status = "failed"
    /\ \E f \in Ids : /\ i < f /\ s[f].wf = s[i].wf /\ s[f].kind \in Fences
                      /\ s[f].status \in {"queued", "running"}

\* What a drain does to an intent.
DrainStep(r, s, i) ==
    /\ SameIntent(r[i], s[i])
    /\ \/ s[i].status = r[i].status
       \/ r[i].status \in {"queued", "running"} /\ (RowStarts(s, i) \/ RowDropped(s, i))
       \/ r[i].status = "running" /\ s[i].status = "queued"

\* What a step does to an intent.
Allowed(r, s, i) ==
    \/ r[i].status = "none" /\ (s[i].status = "queued" \/ RowStarts(s, i))
    \/ /\ SameIntent(r[i], s[i])
       /\ \/ s[i].status = r[i].status
          \/ r[i].status = "queued" /\ (RowStarts(s, i) \/ RowDropped(s, i))
          \/ r[i].status = "running" /\ s[i].status \in {"completed", "failed", "queued"}

\* The places of the abstract queue.
LEMMA EntryOf ==
    ASSUME NEW i \in Ids
    PROVE  /\ Entries[i].kind = row[i].kind /\ Entries[i].wf = row[i].wf /\ Entries[i].high = row[i].high
           /\ row[i].wf \in deleted => Entries[i].state = "erased"
           /\ row[i].wf \notin deleted => Entries[i].state = StateOf(row[i].status)
  BY DEF Entries

LEMMA StartsIsSerial ==
    ASSUME row' \in Table, NEW i \in Ids, row'[i].wf \notin deleted', RowStarts(row', i)
    PROVE  Serial!Starts(i)
  <1>1. \A j \in Ids : /\ Entries'[j].kind = row'[j].kind /\ Entries'[j].wf = row'[j].wf
                       /\ Entries'[j].high = row'[j].high
                       /\ row'[j].wf \notin deleted' => Entries'[j].state = StateOf(row'[j].status)
    BY DEF Entries
  <1>2. \A j \in Ids : row'[j].status \in Statuses /\ row'[j].high \in BOOLEAN
    BY RowParts DEF Table
  <1>3. Entries'[i].state = "running"
    BY <1>1 DEF RowStarts, StateOf
  <1>4. ASSUME NEW j \in Ids \ {i}, Entries'[j].wf = Entries'[i].wf
        PROVE  /\ Entries'[j].state # "running"
               /\ Entries'[j].state = "waiting" => ~Serial!Ahead(j, i)
    <2>1. row'[j].wf = row'[i].wf /\ Entries'[j].state = StateOf(row'[j].status)
      BY <1>1, <1>4
    <2>2. row'[j].status # "running" /\ (row'[j].status = "queued" => Before(row', i, j))
      BY <2>1 DEF RowStarts
    <2>3. Entries'[j].state # "running"
      BY <1>2, <2>1, <2>2 DEF StateOf, Statuses
    <2>4. ASSUME Entries'[j].state = "waiting" PROVE ~Serial!Ahead(j, i)
      <3>1. row'[j].status = "queued"
        BY <1>2, <2>1, <2>4 DEF StateOf, Statuses
      <3>2. Before(row', i, j)
        BY <2>2, <3>1
      <3> QED BY <1>1, <1>2, <3>2, QueueBoundsAssumption DEF Before, Serial!Ahead, Ids
    <2> QED BY <2>3, <2>4
  <1>5. ASSUME Entries'[i].kind \in Fences, NEW j \in Ids, Serial!Older(j, i)
        PROVE  Entries'[j].state \notin Serial!Open
    <2>1. j < i /\ row'[j].wf = row'[i].wf /\ Entries'[j].state = StateOf(row'[j].status)
      BY <1>1, <1>5 DEF Serial!Older
    <2>2. row'[j].status \notin {"queued", "running"}
      BY <1>1, <1>5, <2>1 DEF RowStarts
    <2> QED BY <1>2, <2>1, <2>2 DEF StateOf, Serial!Open, Statuses
  <1> QED BY <1>3, <1>4, <1>5 DEF Serial!Starts

LEMMA DroppedIsSerial ==
    ASSUME NEW i \in Ids, row'[i].wf \notin deleted', RowDropped(row', i)
    PROVE  Serial!Dropped(i)
  <1>1. \A j \in Ids : /\ Entries'[j].kind = row'[j].kind /\ Entries'[j].wf = row'[j].wf
                       /\ row'[j].wf \notin deleted' => Entries'[j].state = StateOf(row'[j].status)
    BY DEF Entries
  <1>2. Entries'[i].state = "failed"
    BY <1>1 DEF RowDropped, StateOf
  <1>3. PICK f \in Ids : /\ i < f /\ row'[f].wf = row'[i].wf /\ row'[f].kind \in Fences
                         /\ row'[f].status \in {"queued", "running"}
    BY DEF RowDropped
  <1>4. Serial!Older(i, f) /\ Entries'[f].kind \in Fences
    BY <1>1, <1>3 DEF Serial!Older
  <1>5. Entries'[f].state \in Serial!Open
    BY <1>1, <1>3 DEF StateOf, Serial!Open
  <1> QED BY <1>2, <1>4, <1>5 DEF Serial!Dropped

LEMMA AllowedIsSerial ==
    ASSUME RInv, row' \in Table, deleted \subseteq deleted',
           \A i \in Ids : row'[i].wf \notin deleted' => Allowed(row, row', i)
    PROVE  Serial!Next
  <1>1. row \in Table /\ Contiguous(row) /\ deleted \subseteq Workflows
    BY DEF RInv, IInv, Announced, Bookkeeping
  <1> SUFFICES ASSUME NEW i \in Ids
               PROVE  \/ Serial!Stays(i) \/ Serial!Accepted(i) \/ Serial!Erased(i)
                      \/ (Serial!Same(i) /\ (Serial!Waits(i) \/ Serial!Runs(i)))
    BY DEF Serial!Next
  <1>2. CASE row'[i].wf \in deleted'
    <2>1. Entries'[i].state = "erased"
      BY <1>2 DEF Entries
    <2> QED BY <2>1 DEF Serial!Erased
  <1>3. CASE row'[i].wf \notin deleted'
    <2>1. Allowed(row, row', i)
      BY <1>3
    <2>2. Entries'[i] = [state |-> StateOf(row'[i].status), kind |-> row'[i].kind,
                         wf |-> row'[i].wf, high |-> row'[i].high]
      BY <1>3 DEF Entries
    <2>3. CASE row[i].status = "none" /\ (row'[i].status = "queued" \/ RowStarts(row', i))
      <3>1. row[i].wf \notin deleted
        BY <1>1, <2>3, QueueNamesAssumption DEF Contiguous
      <3>2. Entries[i].state = "absent"
        BY <2>3, <3>1, EntryOf DEF StateOf
      <3>3. Entries'[i].state = "waiting" \/ Serial!Starts(i)
        BY <1>3, <2>2, <2>3, StartsIsSerial DEF StateOf
      <3> QED BY <3>2, <3>3 DEF Serial!Accepted
    <2>4. CASE SameIntent(row[i], row'[i])
      <3>1. row[i].wf \notin deleted
        BY <1>3, <2>4 DEF SameIntent
      <3>2. Entries[i] = [state |-> StateOf(row[i].status), kind |-> row[i].kind,
                          wf |-> row[i].wf, high |-> row[i].high]
        BY <3>1 DEF Entries
      <3>3. CASE row'[i].status = row[i].status
        <4>1. Entries'[i] = Entries[i]
          BY <2>2, <2>4, <3>2, <3>3 DEF SameIntent
        <4> QED BY <4>1 DEF Serial!Stays
      <3>4. Serial!Same(i)
        BY <2>2, <2>4, <3>2 DEF SameIntent, Serial!Same
      <3>5. CASE row[i].status = "queued" /\ (RowStarts(row', i) \/ RowDropped(row', i))
        <4>1. Entries[i].state = "waiting"
          BY <3>2, <3>5 DEF StateOf
        <4>2. Serial!Starts(i) \/ Serial!Dropped(i)
          BY <1>3, <3>5, StartsIsSerial, DroppedIsSerial
        <4> QED BY <3>4, <4>1, <4>2 DEF Serial!Waits
      <3>6. CASE row[i].status = "running" /\ row'[i].status \in {"completed", "failed", "queued"}
        <4>1. Entries[i].state = "running"
          BY <3>2, <3>6 DEF StateOf
        <4>2. Entries'[i].state \in {"done", "failed", "waiting"}
          BY <2>2, <3>6 DEF StateOf
        <4> QED BY <3>4, <4>1, <4>2 DEF Serial!Runs, Serial!Settled
      <3>7. CASE row[i].status = "none" /\ (row'[i].status = "queued" \/ RowStarts(row', i))
        BY <2>3, <3>7
      <3> QED BY <2>1, <3>3, <3>5, <3>6, <3>7 DEF Allowed
    <2> QED BY <2>1, <2>3, <2>4 DEF Allowed
  <1> QED BY <1>2, <1>3

-----------------------------------------------------------------------------
(* Drains.                                                                 *)

\* What starts is the first that waits of its workflow, and nothing of it runs.
Heads(r, S) ==
    \A i \in S : /\ r[i].status = "queued"
                 /\ i = First(r, Of(r, r[i].wf, "queued"))

Quiet(r, i) == \A j \in Ids : r[j].wf = r[i].wf => r[j].status # "running"

LEMMA BeginSteps ==
    ASSUME NEW r \in Table, NEW m, NEW S \in SUBSET Ids, Heads(r, S), Begin(r, m, S),
           NEW s, s = row'
    PROVE  /\ \A i \in Ids : SameIntent(r[i], s[i])
           /\ \A i \in S : s[i].status = "running" /\ (Quiet(r, i) => RowStarts(s, i))
           /\ \A i \in Ids \ S : s[i].status = r[i].status \/ (r[i].status = "queued" /\ RowDropped(s, i))
  <1>1. PICK out : out = UNION {QueuedBefore(r, f) : f \in S}
    OBVIOUS
  <1>2. PICK r1 : r1 = SetStatus(r, S, "running")
    OBVIOUS
  <1>3. s = SetStatus(r1, out, "failed")
    BY <1>1, <1>2 DEF Begin
  <1>4. \A i \in out : /\ i \in Ids /\ r[i].status = "queued"
                       /\ \E f \in S : i < f /\ r[f].wf = r[i].wf /\ r[f].kind \in Fences
    BY <1>1 DEF QueuedBefore, Of
  <1>5. \A i \in S, j \in S : r[i].wf = r[j].wf => i = j
    BY DEF Heads
  <1>6. \A i \in S : i \notin out
    BY <1>4, <1>5, QueueBoundsAssumption DEF Ids
  <1>7. \A i \in Ids : r[i] \in Row
    BY DEF Table
  <1>8. ASSUME NEW i \in Ids
        PROVE  /\ SameIntent(r[i], s[i])
               /\ i \in S => s[i].status = "running"
               /\ i \in out => s[i].status = "failed"
               /\ i \notin S /\ i \notin out => s[i].status = r[i].status
    <2>1. CASE i \in S
      <3>1. PICK v \in Statuses : v = "running"
        BY DEF Statuses
      <3>2. s[i] = [r[i] EXCEPT !.status = v]
        BY <1>2, <1>3, <1>6, <2>1, <3>1 DEF SetStatus
      <3> QED BY <1>6, <1>7, <2>1, <3>1, <3>2, RowWith DEF SameIntent
    <2>2. CASE i \in out
      <3>1. PICK v \in Statuses : v = "failed"
        BY DEF Statuses
      <3>2. s[i] = [r[i] EXCEPT !.status = v]
        BY <1>2, <1>3, <1>6, <2>2, <3>1 DEF SetStatus
      <3> QED BY <1>6, <1>7, <2>2, <3>1, <3>2, RowWith DEF SameIntent
    <2>3. CASE i \notin S /\ i \notin out
      <3>1. s[i] = r[i]
        BY <1>2, <1>3, <2>3 DEF SetStatus
      <3> QED BY <2>3, <3>1 DEF SameIntent
    <2> QED BY <2>1, <2>2, <2>3
  <1>9. ASSUME NEW i \in S, Quiet(r, i) PROVE RowStarts(s, i)
    <2>1. s[i].status = "running" /\ i \in Ids
      BY <1>8
    <2>2. i = First(r, Of(r, r[i].wf, "queued")) /\ i \in Of(r, r[i].wf, "queued")
      BY DEF Heads, Of
    <2>3. \A j \in Of(r, r[i].wf, "queued") : Before(r, i, j)
      BY <2>2, FirstExists, OfIsOpen
    <2>4. ASSUME NEW j \in Ids \ {i}, s[j].wf = s[i].wf
          PROVE  s[j].status # "running" /\ (s[j].status = "queued" => Before(s, i, j))
      <3>1. r[j].wf = r[i].wf /\ r[j].high = s[j].high /\ r[i].high = s[i].high
        BY <1>8, <2>4 DEF SameIntent
      <3>2. j \notin S
        BY <1>5, <3>1
      <3>3. s[j].status \in {"failed", r[j].status}
        BY <1>8, <3>2
      <3>4. s[j].status # "running"
        BY <1>9, <3>1, <3>3 DEF Quiet
      <3>5. s[j].status = "queued" => j \in Of(r, r[i].wf, "queued")
        BY <3>1, <3>3 DEF Of
      <3> QED BY <2>3, <3>1, <3>4, <3>5 DEF Before
    <2>5. ASSUME s[i].kind \in Fences, NEW j \in Ids, j < i, s[j].wf = s[i].wf
          PROVE  s[j].status \notin {"queued", "running"}
      <3>1. r[j].wf = r[i].wf /\ r[i].kind \in Fences /\ j # i
        BY <1>8, <2>5, QueueBoundsAssumption DEF SameIntent, Ids
      <3>2. CASE r[j].status = "queued"
        <4>1. j \in QueuedBefore(r, i)
          BY <2>5, <3>1, <3>2 DEF QueuedBefore, Of
        <4>2. j \in out
          BY <1>1, <4>1
        <4> QED BY <1>8, <4>2
      <3>3. CASE r[j].status # "queued"
        <4>1. s[j].status # "running"
          BY <2>4, <2>5, <3>1
        <4>2. j \notin S
          BY <3>3 DEF Heads
        <4>3. s[j].status \in {"failed", r[j].status}
          BY <1>8, <4>2
        <4> QED BY <3>3, <4>1, <4>3
      <3> QED BY <3>2, <3>3
    <2> QED BY <2>1, <2>4, <2>5 DEF RowStarts
  <1>10. ASSUME NEW i \in Ids \ S
         PROVE  s[i].status = r[i].status \/ (r[i].status = "queued" /\ RowDropped(s, i))
    <2>1. CASE i \in out
      <3>1. PICK f \in S : i < f /\ r[f].wf = r[i].wf /\ r[f].kind \in Fences
        BY <1>4, <2>1
      <3>2. s[f].wf = s[i].wf /\ s[f].kind \in Fences /\ s[f].status = "running"
        BY <1>8, <3>1 DEF SameIntent
      <3> QED BY <1>4, <1>8, <2>1, <3>1, <3>2 DEF RowDropped
    <2>2. CASE i \notin out
      BY <1>8, <2>2
    <2> QED BY <2>1, <2>2
  <1> QED BY <1>8, <1>9, <1>10

\* What a write and the drain that follows it leave.
Serially(r, D) ==
    /\ \A i \in Ids : SameIntent(r[i], row'[i]) /\ (r[i].wf \notin D => DrainStep(r, row', i))
    /\ OneAtATime(row', D, lease', loop')

LEMMA DrainsSerially ==
    ASSUME NEW r \in Table, NEW m, NEW D \in SUBSET Workflows, NEW ls, NEW ps \in SUBSET Workflows,
           NEW again, Contiguous(r), OneAtATime(r, D, ls, loop), ProcessDrains(r, m, ls, ps, again)
    PROVE  Serially(r, D)
  <1>1. PICK ready : ready = {w \in ps : ~Draining(w)}
    OBVIOUS
  <1>2. PICK claimed : claimed = {w \in ready : CanClaim(ls, w)}
    OBVIOUS
  <1>3. PICK r1 : r1 = Reclaimed(r, ls, claimed)
    OBVIOUS
  <1>4. PICK busy : busy = {w \in claimed : Of(r1, w, "queued") # {}}
    OBVIOUS
  <1>5. PICK head : head = [w \in busy |-> First(r1, Of(r1, w, "queued"))]
    OBVIOUS
  <1>6. /\ Begin(r1, m, {head[w] : w \in busy})
        /\ loop' = [w \in Workflows |->
                      IF w \in busy THEN [at |-> "executing", intent |-> head[w]] ELSE loop[w]]
        /\ lease' = [w \in Workflows |->
                      IF w \in busy THEN [holder |-> "me", active |-> head[w], expired |-> FALSE]
                      ELSE IF w \in claimed THEN Free ELSE ls[w]]
    BY <1>1, <1>2, <1>3, <1>4, <1>5 DEF ProcessDrains
  <1>7. ASSUME NEW i \in Ids
        PROVE  /\ r1[i] \in Row /\ SameIntent(r[i], r1[i])
               /\ \/ r1[i].status = r[i].status
                  \/ r[i].status = "running" /\ r1[i].status = "queued"
               /\ r1[i].status = "running" =>
                     r[i].status = "running" /\ ~(r[i].wf \in claimed /\ ls[r[i].wf].expired)
    <2>1. r[i] \in Row
      BY DEF Table
    <2>2. CASE r[i].wf \in claimed /\ r[i].status = "running" /\ ls[r[i].wf].expired
      <3>1. PICK v \in Statuses : v = "queued"
        BY DEF Statuses
      <3>2. r1[i] = [r[i] EXCEPT !.status = v]
        BY <1>3, <2>2, <3>1 DEF Reclaimed
      <3> QED BY <2>1, <2>2, <3>1, <3>2, RowWith DEF SameIntent
    <2>3. CASE ~(r[i].wf \in claimed /\ r[i].status = "running" /\ ls[r[i].wf].expired)
      <3>1. r1[i] = r[i]
        BY <1>3, <2>3 DEF Reclaimed
      <3> QED BY <2>1, <2>3, <3>1 DEF SameIntent
    <2> QED BY <2>2, <2>3
  <1>8. r1 \in Table
    <2>1. r1 = [i \in Ids |-> r1[i]]
      BY <1>3 DEF Reclaimed
    <2> QED BY <1>7, <2>1 DEF Table
  <1>9. claimed \subseteq Workflows /\ busy \subseteq claimed
    BY <1>1, <1>2, <1>4
  <1>10. \A w \in busy : head[w] \in Ids /\ r1[head[w]].status = "queued" /\ r1[head[w]].wf = w
                         /\ head[w] = First(r1, Of(r1, w, "queued"))
    <2> SUFFICES ASSUME NEW w \in busy
                 PROVE  head[w] \in Ids /\ r1[head[w]].status = "queued" /\ r1[head[w]].wf = w
                        /\ head[w] = First(r1, Of(r1, w, "queued"))
      OBVIOUS
    <2>1. Of(r1, w, "queued") # {} /\ Of(r1, w, "queued") \in SUBSET Ids
      BY <1>4, OfIsOpen
    <2>2. head[w] = First(r1, Of(r1, w, "queued"))
      BY <1>5
    <2>3. head[w] \in Of(r1, w, "queued")
      BY <1>8, <2>1, <2>2, FirstExists
    <2> QED BY <2>2, <2>3 DEF Of
  <1>11. PICK S \in SUBSET Ids : S = {head[w] : w \in busy}
    BY <1>10
  <1>12. Heads(r1, S)
    BY <1>10, <1>11 DEF Heads
  <1>13. PICK s : s = row'
    OBVIOUS
  <1>14. /\ \A i \in Ids : SameIntent(r1[i], s[i])
         /\ \A i \in S : s[i].status = "running" /\ (Quiet(r1, i) => RowStarts(s, i))
         /\ \A i \in Ids \ S : s[i].status = r1[i].status \/ (r1[i].status = "queued" /\ RowDropped(s, i))
    BY <1>6, <1>8, <1>11, <1>12, <1>13, BeginSteps
  \* Nothing runs of a workflow whose lease is claimed.
  <1>15. ASSUME NEW w \in claimed, w \notin D, NEW i \in Ids, r1[i].wf = w
         PROVE  r1[i].status # "running"
    <2>1. w \in Workflows /\ loop[w].at = "idle" /\ (ls[w].holder # "gone" \/ ls[w].expired)
      BY <1>1, <1>2 DEF Draining, CanClaim
    <2>2. r[i].wf = w
      BY <1>7, <1>15 DEF SameIntent
    <2> SUFFICES ASSUME r1[i].status = "running" PROVE FALSE
      OBVIOUS
    <2>3. r[i].status = "running" /\ ~ls[w].expired
      BY <1>7, <2>2
    <2> QED BY <1>15, <2>1, <2>2, <2>3 DEF OneAtATime
  <1>16. ASSUME NEW i \in S, r1[i].wf \notin D PROVE RowStarts(s, i)
    <2>1. PICK w \in busy : i = head[w]
      BY <1>11
    <2>2. r1[i].wf = w /\ w \in claimed
      BY <1>9, <1>10, <2>1
    <2>3. Quiet(r1, i)
      BY <1>15, <1>16, <2>2 DEF Quiet
    <2> QED BY <1>14, <2>3
  <1>17. ASSUME NEW i \in Ids, r[i].wf \notin D PROVE DrainStep(r, s, i)
    <2>1. SameIntent(r[i], s[i]) /\ r1[i].wf \notin D
      BY <1>7, <1>14, <1>17 DEF SameIntent
    <2>2. CASE i \in S
      <3>1. r1[i].status = "queued"
        BY <1>12, <2>2 DEF Heads
      <3>2. r[i].status \in {"queued", "running"}
        BY <1>7, <3>1
      <3> QED BY <1>16, <2>1, <2>2, <3>2 DEF DrainStep
    <2>3. CASE i \notin S
      <3>1. CASE s[i].status = r1[i].status
        BY <1>7, <2>1, <3>1 DEF DrainStep
      <3>2. CASE r1[i].status = "queued" /\ RowDropped(s, i)
        <4>1. r[i].status \in {"queued", "running"}
          BY <1>7, <3>2
        <4> QED BY <2>1, <3>2, <4>1 DEF DrainStep
      <3> QED BY <1>14, <2>3, <3>1, <3>2
    <2> QED BY <2>2, <2>3
  <1>18. ASSUME NEW w \in Workflows \ D
         PROVE  /\ lease'[w].holder = "me" <=> loop'[w].at # "idle"
                /\ lease'[w].expired => lease'[w].holder # "me"
                /\ \A i \in Ids : s[i].wf = w /\ s[i].status = "running" =>
                      \/ loop'[w].at = "executing" /\ loop'[w].intent = i
                      \/ loop'[w].at = "idle" /\ lease'[w].holder = "gone"
    <2>1. \A i \in Ids : s[i].wf = w => r1[i].wf = w /\ r[i].wf = w
      BY <1>7, <1>14 DEF SameIntent
    <2>2. ASSUME NEW i \in Ids, s[i].wf = w, s[i].status = "running"
          PROVE  (w \in busy /\ i = head[w]) \/ r1[i].status = "running"
      <3>1. CASE i \in S
        <4>1. PICK v \in busy : i = head[v]
          BY <1>11, <3>1
        <4> QED BY <1>10, <2>1, <2>2, <4>1
      <3>2. CASE i \notin S
        BY <1>14, <2>2, <3>2 DEF RowDropped
      <3> QED BY <3>1, <3>2
    <2>3. CASE w \in busy
      <3>1. loop'[w] = [at |-> "executing", intent |-> head[w]]
            /\ lease'[w] = [holder |-> "me", active |-> head[w], expired |-> FALSE]
        BY <1>6, <2>3
      <3>2. \A i \in Ids : s[i].wf = w /\ s[i].status = "running" => i = head[w]
        BY <1>9, <1>15, <2>1, <2>2, <2>3
      <3> QED BY <3>1, <3>2
    <2>4. CASE w \in claimed \ busy
      <3>1. loop'[w] = loop[w] /\ lease'[w] = Free /\ loop[w].at = "idle"
        BY <1>1, <1>2, <1>6, <2>4 DEF Draining
      <3>2. \A i \in Ids : s[i].wf = w => s[i].status # "running"
        BY <1>15, <2>1, <2>2, <2>4
      <3> QED BY <3>1, <3>2 DEF Free
    <2>5. CASE w \notin claimed
      <3>1. loop'[w] = loop[w] /\ lease'[w] = ls[w]
        BY <1>6, <1>9, <2>5
      <3>2. \A i \in Ids : s[i].wf = w /\ s[i].status = "running" => r[i].wf = w /\ r[i].status = "running"
        BY <1>7, <1>9, <2>1, <2>2, <2>5
      <3> QED BY <3>1, <3>2 DEF OneAtATime
    <2> QED BY <1>9, <2>3, <2>4, <2>5
  <1>19. OneAtATime(s, D, lease', loop')
    BY <1>18 DEF OneAtATime
  <1>20. \A i \in Ids : SameIntent(r[i], s[i])
    BY <1>7, <1>14 DEF SameIntent
  <1> QED BY <1>13, <1>17, <1>19, <1>20 DEF Serially

-----------------------------------------------------------------------------
(* One step.                                                               *)

Serialised ==
    /\ \A i \in Ids : row'[i].wf \notin deleted' => Allowed(row, row', i)
    /\ OneAtATime(row', deleted', lease', loop')

LEMMA DrainStepReflexive == ASSUME NEW r, NEW i PROVE DrainStep(r, r, i)
  BY DEF DrainStep, SameIntent

\* A drain over the rows as they were.
LEMMA DrainsOnly ==
    ASSUME RInv, Serially(row, deleted), UNCHANGED deleted
    PROVE  Serialised
  <1> SUFFICES ASSUME NEW i \in Ids, row'[i].wf \notin deleted PROVE Allowed(row, row', i)
    BY DEF Serially, Serialised
  <1>1. SameIntent(row[i], row'[i]) /\ DrainStep(row, row', i)
    BY DEF Serially, SameIntent
  <1>2. RowStarts(row', i) => row'[i].status = "running"
    BY DEF RowStarts
  <1>3. RowDropped(row', i) => row'[i].status = "failed"
    BY DEF RowDropped
  <1> QED BY <1>1, <1>2, <1>3 DEF Allowed, DrainStep

\* Fewer running intents leave the drains as they are.
LEMMA FewerRun ==
    ASSUME NEW r, NEW s, NEW D, NEW ls, NEW lp, OneAtATime(r, D, ls, lp),
           \A i \in Ids : s[i].status = "running" => r[i].status = "running" /\ s[i].wf = r[i].wf
    PROVE  OneAtATime(s, D, ls, lp)
  <1> SUFFICES ASSUME NEW w \in Workflows \ D
               PROVE  /\ ls[w].holder = "me" <=> lp[w].at # "idle"
                      /\ ls[w].expired => ls[w].holder # "me"
                      /\ \A i \in Ids : s[i].wf = w /\ s[i].status = "running" =>
                            \/ lp[w].at = "executing" /\ lp[w].intent = i
                            \/ lp[w].at = "idle" /\ ls[w].holder = "gone"
    BY DEF OneAtATime
  <1> QED BY DEF OneAtATime

LEMMA ScheduleSerially ==
    ASSUME RInv, NEW r \in Table, NEW m, NEW w \in Workflows, NEW deferred \in BOOLEAN, Contiguous(r),
           OneAtATime(r, deleted, lease, loop),
           Schedule(r, m, w) \/ Schedules(r, m, w, deferred)
    PROVE  Serially(r, deleted)
  <1>1. CASE ProcessDrains(r, m, lease, pending \cup {w}, kick)
    BY <1>1, DrainsSerially DEF RInv, IInv, Bookkeeping
  <1>2. CASE row' = r /\ UNCHANGED <<loop, lease>>
    BY <1>2, DrainStepReflexive DEF Serially, SameIntent
  <1> QED BY <1>1, <1>2 DEF Schedule, Schedules, ScheduleDeferred

LEMMA AcceptSerially ==
    ASSUME RInv, NEW i \in Ids, Fresh(i), NEW w \in Workflows, NEW k \in AllKinds,
           NEW h \in BOOLEAN, NEW caller \in {"waiting", "none"}, NEW deferred \in BOOLEAN,
           NEW r, r = Inserted(i, w, k, h), NEW q, q = AcceptedRows(r, i),
           NEW m, m = AcceptedMem(r, i, caller),
           Schedule(q, m, w) \/ Schedules(q, m, w, deferred), UNCHANGED deleted
    PROVE  Serialised
  <1>1. row \in Table /\ Contiguous(row) /\ IInv
    BY DEF RInv, IInv, Announced
  <1>2. Announced(q, m)
    BY <1>1, AcceptedKeeps
  <1>3. q \in Table /\ Contiguous(q)
    BY <1>2 DEF Announced
  <1>4. /\ r[i] = [status |-> "queued", kind |-> k, wf |-> w, high |-> h]
        /\ \A j \in Ids \ {i} : r[j] = row[j]
    BY <1>1 DEF Inserted, Table
  <1>5. PICK O \in SUBSET Ids : O = Overtaken(r, i)
    BY DEF Overtaken, QueuedBefore, RunningBefore, Of
  <1>6. \A j \in O : /\ r[j].status \in {"queued", "running"} /\ j # i
                     /\ j < i /\ r[i].kind \in Fences /\ r[j].wf = r[i].wf
    BY <1>5, QueueBoundsAssumption DEF Overtaken, QueuedBefore, RunningBefore, Of, HardFences, Fences, Ids
  <1>7. \A j \in Ids \ O : q[j] = r[j]
    BY <1>5 DEF AcceptedRows, SetStatus
  <1>8. \A j \in O : SameIntent(r[j], q[j]) /\ q[j].status = "failed"
    <2> SUFFICES ASSUME NEW j \in O PROVE SameIntent(r[j], q[j]) /\ q[j].status = "failed"
      OBVIOUS
    <2>1. PICK v \in Statuses : v = "failed"
      BY DEF Statuses
    <2>2. q[j] = [r[j] EXCEPT !.status = v]
      BY <1>5, <2>1 DEF AcceptedRows, SetStatus
    <2>3. r[j] \in Row
      BY <1>1, <1>4, <1>6 DEF Table
    <2> QED BY <2>1, <2>2, <2>3, RowWith DEF SameIntent
  <1>9. \A j \in Ids : q[j].status = "running" => row[j].status = "running" /\ q[j].wf = row[j].wf
    BY <1>4, <1>7, <1>8
  <1>10. OneAtATime(q, deleted, lease, loop)
    BY <1>9, FewerRun DEF RInv
  <1>11. Serially(q, deleted)
    BY <1>3, <1>10, ScheduleSerially
  <1>12. \A j \in Ids : row'[j].wf \notin deleted => DrainStep(q, row', j)
    <2> SUFFICES ASSUME NEW j \in Ids, row'[j].wf \notin deleted PROVE DrainStep(q, row', j)
      OBVIOUS
    <2>1. q[j].wf = row'[j].wf
      <3>1. MovesAll(q, row')
        BY <1>1, <1>2, ScheduleKeeps, SchedulesKeeps DEF IInv, Drained
      <3> QED BY <3>1 DEF MovesAll, Moves
    <2> QED BY <1>11, <2>1 DEF Serially
  <1>13. ASSUME NEW j \in Ids, j > i PROVE row'[j].status = "none"
    <2>1. MovesAll(q, row')
      BY <1>1, <1>2, ScheduleKeeps, SchedulesKeeps DEF IInv, Drained
    <2>2. row[j].status = "none" /\ j # i
      BY <1>1, <1>13, QueueBoundsAssumption DEF Contiguous, Fresh, Ids
    <2>3. q[j] = row[j]
      BY <1>4, <1>6, <1>7, <2>2
    <2> QED BY <2>1, <2>2, <2>3 DEF MovesAll, Moves
  <1>14. q[i] = r[i] /\ row[i].status = "none"
    BY <1>6, <1>7 DEF Fresh
  \* The intent just accepted is not dropped by what follows.
  <1>15. ASSUME row'[i].wf \notin deleted
         PROVE  row'[i].status = "queued" \/ RowStarts(row', i)
    <2>1. DrainStep(q, row', i) /\ q[i].status = "queued"
      BY <1>4, <1>12, <1>14, <1>15
    <2>2. ~RowDropped(row', i)
      BY <1>13, QueueBoundsAssumption DEF RowDropped, Ids
    <2> QED BY <2>1, <2>2 DEF DrainStep
  <1>16. ASSUME NEW j \in Ids, row'[j].wf \notin deleted PROVE Allowed(row, row', j)
    <2>1. DrainStep(q, row', j) /\ SameIntent(q[j], row'[j])
      BY <1>12, <1>16 DEF DrainStep
    <2>2. CASE j = i
      BY <1>14, <1>15, <1>16, <2>2 DEF Allowed
    <2>3. CASE j \in O
      <3>1. SameIntent(row[j], row'[j]) /\ row'[j].status = "failed" /\ row[j].status \in {"queued", "running"}
        BY <1>4, <1>6, <1>8, <2>1, <2>3 DEF DrainStep, SameIntent
      <3>2. row'[i].wf = row'[j].wf /\ row'[i].kind \in Fences
        <4>1. MovesAll(q, row')
          BY <1>1, <1>2, ScheduleKeeps, SchedulesKeeps DEF IInv, Drained
        <4> QED BY <1>6, <1>8, <1>14, <2>1, <2>3, <4>1 DEF MovesAll, Moves, SameIntent
      <3>3. RowDropped(row', j)
        BY <1>6, <1>15, <1>16, <2>3, <3>1, <3>2 DEF RowDropped, RowStarts
      <3> QED BY <3>1, <3>3 DEF Allowed
    <2>4. CASE j # i /\ j \notin O
      <3>1. q[j] = row[j]
        BY <1>4, <1>7, <2>4
      <3> QED BY <2>1, <3>1 DEF DrainStep, Allowed, RowStarts, RowDropped
    <2> QED BY <2>2, <2>3, <2>4
  <1> QED BY <1>11, <1>16 DEF Serialised, Serially

LEMMA EnqueueSerially ==
    ASSUME RInv, NEW w \in Workflows, NEW k \in AllKinds, NEW h \in BOOLEAN, Enqueue(w, k, h)
    PROVE  Serialised
  <1>1. PICK i \in Ids :
          /\ Fresh(i)
          /\ Schedule(AcceptedRows(Inserted(i, w, k, h), i),
                      AcceptedMem(Inserted(i, w, k, h), i, "waiting"), w)
    BY DEF Enqueue
  <1>2. PICK r : r = Inserted(i, w, k, h)
    OBVIOUS
  <1>3. PICK c \in {"waiting", "none"} : c = "waiting"
    OBVIOUS
  <1>4. PICK q, m : q = AcceptedRows(r, i) /\ m = AcceptedMem(r, i, c)
    OBVIOUS
  <1>5. Schedule(q, m, w) /\ UNCHANGED deleted /\ TRUE \in BOOLEAN
    BY <1>1, <1>2, <1>3, <1>4 DEF Enqueue
  <1> QED BY <1>1, <1>2, <1>4, <1>5, AcceptSerially

LEMMA SubmitSerially ==
    ASSUME RInv, NEW w \in Workflows, NEW k \in AllKinds, NEW h \in BOOLEAN,
           NEW globally \in BOOLEAN, NEW deferred \in BOOLEAN, Submit(w, k, h, globally, deferred)
    PROVE  Serialised
  <1>1. PICK open : open = Joinable(w, k, globally)
    OBVIOUS
  <1>2. /\ \/ open # {} /\ Schedules(row, mem, row[First(row, open)].wf, deferred)
           \/ \E i \in Ids :
                 /\ Fresh(i)
                 /\ Schedules(AcceptedRows(Inserted(i, w, k, h), i),
                              AcceptedMem(Inserted(i, w, k, h), i, "none"), w, deferred)
        /\ UNCHANGED deleted
    BY <1>1 DEF Submit
  <1>3. CASE open # {} /\ Schedules(row, mem, row[First(row, open)].wf, deferred)
    <2>1. open \subseteq Ids /\ \A i \in open : row[i].status \in {"queued", "running"}
      BY <1>1 DEF Joinable
    <2>2. row \in Table /\ Contiguous(row)
      BY DEF RInv, IInv, Announced
    <2>3. First(row, open) \in open
      BY <1>3, <2>1, <2>2, FirstExists
    <2>4. PICK v \in Workflows : v = row[First(row, open)].wf
      BY <2>1, <2>2, <2>3 DEF Contiguous
    <2>5. Schedules(row, mem, v, deferred)
      BY <1>3, <2>4
    <2>6. Serially(row, deleted)
      BY <2>2, <2>5, ScheduleSerially DEF RInv
    <2> QED BY <1>2, <2>6, DrainsOnly
  <1>4. ASSUME NEW i \in Ids, Fresh(i),
               Schedules(AcceptedRows(Inserted(i, w, k, h), i),
                         AcceptedMem(Inserted(i, w, k, h), i, "none"), w, deferred)
        PROVE  Serialised
    <2>1. PICK r : r = Inserted(i, w, k, h)
      OBVIOUS
    <2>2. PICK c \in {"waiting", "none"} : c = "none"
      OBVIOUS
    <2>3. PICK q, m : q = AcceptedRows(r, i) /\ m = AcceptedMem(r, i, c)
      OBVIOUS
    <2>4. Schedules(q, m, w, deferred)
      BY <1>4, <2>1, <2>2, <2>3
    <2> QED BY <1>2, <1>4, <2>1, <2>3, <2>4, AcceptSerially
  <1> QED BY <1>2, <1>3, <1>4

LEMMA DrainsSerialised ==
    ASSUME RInv, TimerFires \/ DrainEnded
    PROVE  Serialised
  <1>1. PICK again \in BOOLEAN : ProcessDrains(row, mem, lease, pending, again)
    BY DEF TimerFires, DrainEnded, RInv, IInv, Bookkeeping
  <1>2. /\ row \in Table /\ Contiguous(row) /\ deleted \in SUBSET Workflows
        /\ pending \in SUBSET Workflows /\ OneAtATime(row, deleted, lease, loop)
    BY DEF RInv, IInv, Announced, Bookkeeping
  <1>3. Serially(row, deleted)
    BY <1>1, <1>2, DrainsSerially
  <1>4. UNCHANGED deleted
    BY DEF TimerFires, DrainEnded
  <1> QED BY <1>2, <1>3, <1>4, DrainsOnly

\* A step that writes no row and moves no drain or lease.
LEMMA QuietSerialised ==
    ASSUME RInv, UNCHANGED <<row, deleted, lease, loop>>
    PROVE  Serialised
  <1>1. \A i \in Ids : Allowed(row, row', i)
    BY DEF Allowed, SameIntent
  <1>2. OneAtATime(row', deleted', lease', loop')
    BY DEF RInv
  <1> QED BY <1>1, <1>2 DEF Serialised

\* The row of one intent is settled.
LEMMA SettledIsAllowed ==
    ASSUME row \in Table, NEW i, NEW v \in {"completed", "failed"},
           row' = IF row[i].status = "running" THEN SetStatus(row, {i}, v) ELSE row,
           NEW j \in Ids
    PROVE  /\ Allowed(row, row', j)
           /\ row'[j].status = "running" => j # i /\ row[j].status = "running" /\ row'[j].wf = row[j].wf
  <1>1. CASE row[i].status = "running" /\ j = i
    <2>1. row'[j] = [row[j] EXCEPT !.status = v]
      BY <1>1 DEF SetStatus
    <2>2. row[j] \in Row /\ v \in Statuses
      BY DEF Table, Statuses
    <2>3. row'[j].status = v /\ SameIntent(row[j], row'[j])
      <3>1. PICK a, b : a = row[j] /\ b = row'[j]
        OBVIOUS
      <3>2. a \in Row /\ b = [a EXCEPT !.status = v] /\ v \in Statuses
        BY <2>1, <2>2, <3>1
      <3>3. b.status = v /\ b.kind = a.kind /\ b.wf = a.wf /\ b.high = a.high
        BY <3>2, RowWith
      <3> QED BY <3>1, <3>3 DEF SameIntent
    <2>4. row'[j].status \in {"completed", "failed"} /\ row[j].status = "running"
      BY <1>1, <2>3
    <2>5. Allowed(row, row', j)
      BY <2>3, <2>4 DEF Allowed
    <2>6. row'[j].status # "running"
      BY <2>4
    <2> QED BY <2>5, <2>6
  <1>2. CASE ~(row[i].status = "running" /\ j = i)
    <2>1. row'[j] = row[j]
      BY <1>2 DEF SetStatus
    <2> QED BY <1>2, <2>1 DEF Allowed, SameIntent
  <1> QED BY <1>1, <1>2

LEMMA RejectsSerially ==
    ASSUME RInv, NEW i \in Ids, DispatchRejects(i)
    PROVE  Serialised
  <1>1. PICK v \in {"completed", "failed"} : v = "failed"
    OBVIOUS
  <1>2. /\ row' = IF row[i].status = "running" THEN SetStatus(row, {i}, v) ELSE row
        /\ UNCHANGED <<lease, deleted, loop>>
    BY <1>1 DEF DispatchRejects
  <1>3. row \in Table
    BY DEF RInv, IInv, Announced
  <1>4. \A j \in Ids : /\ Allowed(row, row', j)
                       /\ row'[j].status = "running" => row[j].status = "running" /\ row'[j].wf = row[j].wf
    BY <1>2, <1>3, SettledIsAllowed
  <1>5. OneAtATime(row', deleted, lease, loop)
    BY <1>4, FewerRun DEF RInv
  <1> QED BY <1>2, <1>4, <1>5 DEF Serialised

LEMMA SettleSerially ==
    ASSUME RInv, NEW w \in Workflows, Settle(w)
    PROVE  Serialised
  <1>1. PICK i : i = loop[w].intent
    OBVIOUS
  <1>2. PICK v \in {"completed", "failed"} : v = IF mem[i].race = "resolved" THEN "completed" ELSE "failed"
    OBVIOUS
  <1>3. /\ row' = IF row[i].status = "running" THEN SetStatus(row, {i}, v) ELSE row
        /\ lease' = IF lease[w].holder = "me" THEN [lease EXCEPT ![w].active = 0] ELSE lease
        /\ loop' = [loop EXCEPT ![w] = [at |-> "between", intent |-> 0]]
        /\ loop[w].at = "executing" /\ UNCHANGED deleted
    BY <1>1, <1>2 DEF Settle, SettledRow
  <1>4. row \in Table /\ lease \in [Workflows -> Lease] /\ loop \in [Workflows -> Loop]
        /\ OneAtATime(row, deleted, lease, loop)
    BY DEF RInv, IInv, Announced, Bookkeeping
  <1>5. \A j \in Ids : /\ Allowed(row, row', j)
                       /\ row'[j].status = "running" =>
                             j # i /\ row[j].status = "running" /\ row'[j].wf = row[j].wf
    BY <1>3, <1>4, SettledIsAllowed
  <1>6. ASSUME NEW u \in Workflows \ deleted
        PROVE  /\ lease'[u].holder = "me" <=> loop'[u].at # "idle"
               /\ lease'[u].expired => lease'[u].holder # "me"
               /\ \A j \in Ids : row'[j].wf = u /\ row'[j].status = "running" =>
                     \/ loop'[u].at = "executing" /\ loop'[u].intent = j
                     \/ loop'[u].at = "idle" /\ lease'[u].holder = "gone"
    <2>1. lease'[u].holder = lease[u].holder /\ lease'[u].expired = lease[u].expired
      <3>1. lease'[u] = lease[u] \/ lease'[u] = [lease[u] EXCEPT !.active = 0]
        BY <1>3, <1>4
      <3>2. lease[u] \in Lease
        BY <1>4
      <3> QED BY <3>1, <3>2 DEF Lease
    <2>2. CASE u = w
      <3>1. loop'[u].at = "between"
        BY <1>3, <1>4, <2>2
      <3>2. ASSUME NEW j \in Ids, row'[j].wf = u, row'[j].status = "running" PROVE FALSE
        <4>1. j # loop[w].intent /\ row[j].status = "running" /\ row[j].wf = w
          BY <1>1, <1>5, <2>2, <3>2
        <4>2. loop[w].at = "executing" /\ w \in Workflows \ deleted
          BY <1>3, <2>2
        <4> QED BY <1>4, <4>1, <4>2 DEF OneAtATime
      <3> QED BY <1>3, <1>4, <2>1, <2>2, <3>1, <3>2 DEF OneAtATime
    <2>3. CASE u # w
      <3>1. loop'[u] = loop[u]
        BY <1>3, <1>4, <2>3
      <3> QED BY <1>4, <1>5, <2>1, <3>1 DEF OneAtATime
    <2> QED BY <2>2, <2>3
  <1>7. OneAtATime(row', deleted', lease', loop')
    BY <1>3, <1>6 DEF OneAtATime
  <1> QED BY <1>5, <1>7 DEF Serialised

LEMMA DrainNextSerially ==
    ASSUME RInv, NEW w \in Workflows, DrainNext(w)
    PROVE  Serialised
  <1>1. /\ row \in Table /\ Contiguous(row) /\ lease \in [Workflows -> Lease] /\ loop \in [Workflows -> Loop]
        /\ OneAtATime(row, deleted, lease, loop)
    BY DEF RInv, IInv, Announced, Bookkeeping
  <1>2. loop[w].at = "between" /\ UNCHANGED deleted
    BY DEF DrainNext
  <1>3. ASSUME w \notin deleted, NEW j \in Ids, row[j].wf = w PROVE row[j].status # "running"
    BY <1>1, <1>2, <1>3 DEF OneAtATime
  <1>4. CASE Of(row, w, "queued") # {}
    <2>1. PICK i : i = First(row, Of(row, w, "queued"))
      OBVIOUS
    <2>2. /\ Begin(row, mem, {i})
          /\ loop' = [loop EXCEPT ![w] = [at |-> "executing", intent |-> i]]
          /\ lease' = IF lease[w].holder = "me" THEN [lease EXCEPT ![w].active = i] ELSE lease
      BY <1>4, <2>1 DEF DrainNext
    <2>3. i \in Of(row, w, "queued")
      BY <1>1, <1>4, <2>1, FirstExists, OfIsOpen
    <2>4. i \in Ids /\ row[i].status = "queued" /\ row[i].wf = w
      BY <2>3 DEF Of
    <2>5. PICK S \in SUBSET Ids : S = {i}
      BY <2>4
    <2>6. Heads(row, S)
      BY <2>1, <2>4, <2>5 DEF Heads
    <2>7. PICK s : s = row'
      OBVIOUS
    <2>8. /\ \A j \in Ids : SameIntent(row[j], s[j])
          /\ \A j \in S : s[j].status = "running" /\ (Quiet(row, j) => RowStarts(s, j))
          /\ \A j \in Ids \ S : s[j].status = row[j].status \/ (row[j].status = "queued" /\ RowDropped(s, j))
      <3>1. Begin(row, mem, S)
        BY <2>2, <2>5
      <3> QED BY <1>1, <2>6, <2>7, <3>1, BeginSteps
    <2>9. ASSUME NEW j \in Ids, s[j].wf \notin deleted PROVE Allowed(row, s, j)
      <3>1. SameIntent(row[j], s[j]) /\ s[j].wf = row[j].wf
        BY <2>8 DEF SameIntent
      <3>2. CASE j = i
        <4>1. Quiet(row, i)
          BY <1>3, <2>4, <2>9, <3>1, <3>2 DEF Quiet
        <4>2. RowStarts(s, j)
          BY <2>5, <2>8, <3>2, <4>1
        <4> QED BY <2>4, <3>1, <3>2, <4>2 DEF Allowed
      <3>3. CASE j # i
        BY <2>5, <2>8, <3>1, <3>3 DEF Allowed
      <3> QED BY <3>2, <3>3
    <2>10. ASSUME NEW u \in Workflows \ deleted
           PROVE  /\ lease'[u].holder = "me" <=> loop'[u].at # "idle"
                  /\ lease'[u].expired => lease'[u].holder # "me"
                  /\ \A j \in Ids : s[j].wf = u /\ s[j].status = "running" =>
                        \/ loop'[u].at = "executing" /\ loop'[u].intent = j
                        \/ loop'[u].at = "idle" /\ lease'[u].holder = "gone"
      <3>1. lease'[u].holder = lease[u].holder /\ lease'[u].expired = lease[u].expired
        <4>1. lease'[u] = lease[u] \/ lease'[u] = [lease[u] EXCEPT !.active = i]
          BY <1>1, <2>2
        <4>2. lease[u] \in Lease
          BY <1>1
        <4> QED BY <4>1, <4>2 DEF Lease
      <3>2. ASSUME NEW j \in Ids, s[j].wf = u, s[j].status = "running"
            PROVE  j = i \/ (row[j].wf = u /\ row[j].status = "running")
        BY <2>5, <2>8, <3>2 DEF SameIntent, RowDropped
      <3>3. CASE u = w
        <4>1. loop'[u] = [at |-> "executing", intent |-> i]
          BY <1>1, <2>2, <3>3
        <4>2. \A j \in Ids : s[j].wf = u /\ s[j].status = "running" => j = i
          BY <1>3, <3>2, <3>3
        <4>3. lease[u].holder = "me" /\ ~lease[u].expired
          BY <1>1, <1>2, <3>3 DEF OneAtATime
        <4> QED BY <3>1, <4>1, <4>2, <4>3
      <3>4. CASE u # w
        <4>1. loop'[u] = loop[u]
          BY <1>1, <2>2, <3>4
        <4>2. \A j \in Ids : s[j].wf = u /\ s[j].status = "running" =>
                row[j].wf = u /\ row[j].status = "running"
          BY <2>4, <2>8, <3>2, <3>4 DEF SameIntent
        <4> QED BY <1>1, <3>1, <4>1, <4>2 DEF OneAtATime
      <3> QED BY <3>3, <3>4
    <2>11. OneAtATime(s, deleted, lease', loop')
      BY <2>10 DEF OneAtATime
    <2> QED BY <1>2, <2>7, <2>9, <2>11 DEF Serialised
  <1>5. CASE Of(row, w, "queued") = {}
    <2>1. /\ lease' = IF lease[w].holder = "me" THEN [lease EXCEPT ![w] = Free] ELSE lease
          /\ loop' = [loop EXCEPT ![w] = Idle] /\ row' = row
      BY <1>5 DEF DrainNext
    <2>2. ASSUME NEW u \in Workflows \ deleted
          PROVE  /\ lease'[u].holder = "me" <=> loop'[u].at # "idle"
                 /\ lease'[u].expired => lease'[u].holder # "me"
                 /\ \A j \in Ids : row[j].wf = u /\ row[j].status = "running" =>
                       \/ loop'[u].at = "executing" /\ loop'[u].intent = j
                       \/ loop'[u].at = "idle" /\ lease'[u].holder = "gone"
      <3>1. CASE u = w
        <4>1. lease[w].holder = "me"
          BY <1>1, <1>2, <3>1 DEF OneAtATime
        <4>2. lease'[u] = Free /\ loop'[u] = Idle
          BY <1>1, <2>1, <3>1, <4>1
        <4> QED BY <1>3, <3>1, <4>2 DEF Free, Idle
      <3>2. CASE u # w
        <4>1. lease'[u] = lease[u] /\ loop'[u] = loop[u]
          BY <1>1, <2>1, <3>2
        <4> QED BY <1>1, <4>1 DEF OneAtATime
      <3> QED BY <3>1, <3>2
    <2>3. OneAtATime(row', deleted', lease', loop')
      BY <1>2, <2>1, <2>2 DEF OneAtATime
    <2> QED BY <2>1, <2>3 DEF Serialised, Allowed, SameIntent
  <1> QED BY <1>4, <1>5

LEMMA ExpiresSerially ==
    ASSUME RInv, NEW w \in Workflows, LeaseExpires(w)
    PROVE  Serialised
  <1>1. /\ lease \in [Workflows -> Lease] /\ OneAtATime(row, deleted, lease, loop)
        /\ lease[w].holder = "gone" /\ lease' = [lease EXCEPT ![w].expired = TRUE]
        /\ UNCHANGED <<row, deleted, loop>>
    BY DEF RInv, IInv, Bookkeeping, LeaseExpires
  <1>2. ASSUME NEW u \in Workflows
        PROVE  lease'[u].holder = lease[u].holder /\ (lease'[u].expired => lease[u].expired \/ lease[u].holder = "gone")
    <2>1. (u = w /\ lease'[u] = [lease[u] EXCEPT !.expired = TRUE]) \/ lease'[u] = lease[u]
      BY <1>1
    <2>2. lease[u] \in Lease
      BY <1>1
    <2> QED BY <1>1, <2>1, <2>2 DEF Lease
  <1>3. OneAtATime(row, deleted, lease', loop)
    BY <1>1, <1>2 DEF OneAtATime
  <1> QED BY <1>1, <1>3 DEF Serialised, Allowed, SameIntent

\* Every lease that is held becomes one of an owner that is gone.
LEMMA RestartSerially ==
    ASSUME RInv, NEW orderly \in BOOLEAN, NEW quick \in BOOLEAN, Restart(orderly, quick)
    PROVE  Serialised
  <1>1. PICK S \in SUBSET Ids : S = {i \in Ids : row[i].status = "running"}
    OBVIOUS
  <1>2. PICK v \in Statuses : v = "queued"
    BY DEF Statuses
  <1>3. /\ row' = IF orderly THEN SetStatus(row, S, v) ELSE row
        /\ lease' = [w \in Workflows |->
                       IF lease[w].holder = "free" THEN Free
                       ELSE [lease[w] EXCEPT !.holder = "gone", !.expired = @ \/ ~quick]]
        /\ loop' = [w \in Workflows |-> Idle] /\ UNCHANGED deleted
    BY <1>1, <1>2 DEF Restart
  <1>4. /\ row \in Table /\ lease \in [Workflows -> Lease]
        /\ OneAtATime(row, deleted, lease, loop)
    BY DEF RInv, IInv, Announced, Bookkeeping
  <1>5. PICK s : s = row'
    OBVIOUS
  <1>6. ASSUME NEW j \in Ids
        PROVE  /\ SameIntent(row[j], s[j])
               /\ s[j].status = row[j].status \/ (row[j].status = "running" /\ s[j].status = "queued")
    <2>1. CASE orderly /\ j \in S
      <3>1. s[j] = [row[j] EXCEPT !.status = v]
        BY <1>3, <1>5, <2>1 DEF SetStatus
      <3>2. row[j] \in Row
        BY <1>4 DEF Table
      <3> QED BY <1>1, <1>2, <2>1, <3>1, <3>2, RowWith DEF SameIntent
    <2>2. CASE ~(orderly /\ j \in S)
      <3>1. s[j] = row[j]
        BY <1>3, <1>5, <2>2 DEF SetStatus
      <3> QED BY <3>1 DEF SameIntent
    <2> QED BY <2>1, <2>2
  <1>7. ASSUME NEW u \in Workflows
        PROVE  /\ lease'[u].holder # "me"
               /\ lease[u].holder # "free" => lease'[u].holder = "gone"
               /\ loop'[u].at = "idle"
    <2>1. CASE lease[u].holder = "free"
      <3>1. lease'[u] = Free
        BY <1>3, <2>1, Zenon
      <3> QED BY <1>3, <2>1, <3>1 DEF Free, Idle
    <2>2. CASE lease[u].holder # "free"
      <3>1. lease'[u] = [lease[u] EXCEPT !.holder = "gone", !.expired = @ \/ ~quick]
        BY <1>3, <2>2, Zenon
      <3>2. PICK a \in Lease : a = lease[u]
        BY <1>4
      <3>3. lease'[u].holder = "gone"
        BY <3>1, <3>2 DEF Lease
      <3> QED BY <1>3, <3>3 DEF Idle
    <2> QED BY <2>1, <2>2
  <1>8. ASSUME NEW u \in Workflows \ deleted, NEW j \in Ids, s[j].wf = u, s[j].status = "running"
        PROVE  lease'[u].holder = "gone"
    <2>1. row[j].wf = u /\ row[j].status = "running"
      BY <1>6, <1>8 DEF SameIntent
    <2>2. lease[u].holder # "free"
      BY <1>4, <2>1 DEF OneAtATime
    <2> QED BY <1>7, <2>2
  <1>9. OneAtATime(s, deleted, lease', loop')
    BY <1>7, <1>8 DEF OneAtATime
  <1>10. \A j \in Ids : Allowed(row, s, j)
    BY <1>6 DEF Allowed
  <1> QED BY <1>3, <1>5, <1>9, <1>10 DEF Serialised

LEMMA DeletesSerially ==
    ASSUME RInv, NEW i \in Ids, DeletesWorkflow(i)
    PROVE  Serialised
  <1>1. PICK w : w = row[i].wf
    OBVIOUS
  <1>2. /\ row' = [j \in Ids |-> IF row[j].wf = w /\ row[j].status # "none"
                                 THEN [row[j] EXCEPT !.status = "erased"] ELSE row[j]]
        /\ deleted' = deleted \cup {w} /\ lease' = [lease EXCEPT ![w] = Free]
        /\ UNCHANGED loop
    BY <1>1 DEF DeletesWorkflow
  <1>3. /\ row \in Table /\ lease \in [Workflows -> Lease]
        /\ OneAtATime(row, deleted, lease, loop)
    BY DEF RInv, IInv, Announced, Bookkeeping
  <1>4. PICK s : s = row'
    OBVIOUS
  <1>5. ASSUME NEW j \in Ids, s[j].wf # w PROVE s[j] = row[j]
    <2>1. CASE row[j].wf = w /\ row[j].status # "none"
      <3>1. PICK e \in Statuses : e = "erased"
        BY DEF Statuses
      <3>2. s[j] = [row[j] EXCEPT !.status = e]
        BY <1>2, <1>4, <2>1, <3>1
      <3>3. row[j] \in Row
        BY <1>3 DEF Table
      <3> QED BY <1>5, <2>1, <3>2, <3>3, RowWith
    <2>2. CASE ~(row[j].wf = w /\ row[j].status # "none")
      BY <1>2, <1>4, <2>2
    <2> QED BY <2>1, <2>2
  <1>6. \A j \in Ids : s[j].wf \notin deleted' => Allowed(row, s, j)
    BY <1>2, <1>5 DEF Allowed, SameIntent
  <1>7. \A u \in Workflows \ deleted' : u \notin deleted /\ u # w /\ lease'[u] = lease[u]
    BY <1>2, <1>3
  <1>8. OneAtATime(s, deleted', lease', loop')
    <2> SUFFICES ASSUME NEW u \in Workflows \ deleted'
                 PROVE  /\ lease'[u].holder = "me" <=> loop'[u].at # "idle"
                        /\ lease'[u].expired => lease'[u].holder # "me"
                        /\ \A j \in Ids : s[j].wf = u /\ s[j].status = "running" =>
                              \/ loop'[u].at = "executing" /\ loop'[u].intent = j
                              \/ loop'[u].at = "idle" /\ lease'[u].holder = "gone"
      BY DEF OneAtATime
    <2>1. u \in Workflows \ deleted /\ lease'[u] = lease[u] /\ loop'[u] = loop[u] /\ u # w
      BY <1>2, <1>7
    <2>2. \A j \in Ids : s[j].wf = u => s[j] = row[j]
      BY <1>5, <2>1
    <2> QED BY <1>3, <2>1, <2>2 DEF OneAtATime
  <1> QED BY <1>4, <1>6, <1>8 DEF Serialised

\* What an owner that is gone left running goes back into the queue before
\* the drains start.
LEMMA RecoverSerially ==
    ASSUME RInv, Recover
    PROVE  Serialised
  <1>1. PICK ls : ls = [w \in Workflows |-> IF lease[w].expired THEN Free ELSE lease[w]]
    OBVIOUS
  <1>2. PICK S \in SUBSET Ids : S = Orphaned(row, ls)
    BY DEF Orphaned
  <1>3. PICK v \in {"queued", "running", "completed"} : v = "queued"
    OBVIOUS
  <1>4. PICK r : r = SetStatus(row, S, v)
    OBVIOUS
  <1>5. PICK ps \in SUBSET Workflows :
          ps = pending \cup {w \in Workflows : Of(r, w, "queued") # {}}
    BY DEF RInv, IInv, Bookkeeping
  <1>6. ProcessDrains(r, mem, ls, ps, kick) /\ UNCHANGED deleted
    BY <1>1, <1>2, <1>3, <1>4, <1>5 DEF Recover
  <1>7. /\ row \in Table /\ lease \in [Workflows -> Lease] /\ Announced(row, mem)
        /\ deleted \in SUBSET Workflows /\ OneAtATime(row, deleted, lease, loop)
    BY DEF RInv, IInv, Announced, Bookkeeping
  <1>8. \A j \in S : row[j].status = "running" /\ ls[row[j].wf].active # j
    BY <1>2 DEF Orphaned
  <1>9. r \in Table /\ Contiguous(r) /\ MovesAll(row, r)
    <2>1. Announced(r, mem) /\ MovesAll(row, r)
      BY <1>4, <1>7, <1>8, RequeueAnnounced
    <2> QED BY <2>1 DEF Announced
  <1>10. ASSUME NEW j \in Ids
         PROVE  /\ SameIntent(row[j], r[j])
                /\ r[j].status = row[j].status \/ (row[j].status = "running" /\ r[j].status = "queued")
                /\ r[j].status = "running" => j \notin S /\ row[j].status = "running"
    <2>1. SameIntent(row[j], r[j])
      BY <1>9 DEF MovesAll, Moves, SameIntent
    <2>2. CASE j \in S
      <3>1. r[j] = [row[j] EXCEPT !.status = v]
        BY <1>4, <2>2 DEF SetStatus
      <3>2. row[j] \in Row /\ v \in Statuses
        BY <1>3, <1>7 DEF Table, Statuses
      <3>3. r[j].status = "queued"
        BY <1>3, <3>1, <3>2, RowWith
      <3> QED BY <1>8, <2>1, <2>2, <3>3
    <2>3. CASE j \notin S
      <3>1. r[j] = row[j]
        BY <1>4, <2>3 DEF SetStatus
      <3> QED BY <2>1, <2>3, <3>1
    <2> QED BY <2>2, <2>3
  <1>11. OneAtATime(r, deleted, ls, loop)
    <2> SUFFICES ASSUME NEW w \in Workflows \ deleted
                 PROVE  /\ ls[w].holder = "me" <=> loop[w].at # "idle"
                        /\ ls[w].expired => ls[w].holder # "me"
                        /\ \A j \in Ids : r[j].wf = w /\ r[j].status = "running" =>
                              \/ loop[w].at = "executing" /\ loop[w].intent = j
                              \/ loop[w].at = "idle" /\ ls[w].holder = "gone"
      BY DEF OneAtATime
    <2>1. \A j \in Ids : r[j].wf = w /\ r[j].status = "running" =>
            j \notin S /\ row[j].wf = w /\ row[j].status = "running"
      BY <1>10 DEF SameIntent
    <2>2. CASE lease[w].expired
      <3>1. ls[w] = Free
        BY <1>1, <2>2
      <3>2. loop[w].at = "idle"
        BY <1>7, <2>2 DEF OneAtATime
      <3>3. ASSUME NEW j \in Ids, r[j].wf = w, r[j].status = "running" PROVE FALSE
        <4>1. j \notin S /\ row[j].wf = w /\ row[j].status = "running"
          BY <2>1, <3>3
        <4>2. ls[row[j].wf].active = j
          BY <1>2, <4>1 DEF Orphaned
        <4> QED BY <3>1, <4>1, <4>2, QueueBoundsAssumption DEF Free, Ids
      <3> QED BY <3>1, <3>2, <3>3 DEF Free
    <2>3. CASE ~lease[w].expired
      <3>1. ls[w] = lease[w]
        BY <1>1, <2>3
      <3> QED BY <1>7, <2>1, <3>1 DEF OneAtATime
    <2> QED BY <2>2, <2>3
  <1>12. Serially(r, deleted)
    BY <1>5, <1>6, <1>7, <1>9, <1>11, DrainsSerially
  <1>13. ASSUME NEW j \in Ids, row'[j].wf \notin deleted PROVE Allowed(row, row', j)
    <2>1. SameIntent(r[j], row'[j])
      BY <1>12 DEF Serially
    <2>2. DrainStep(r, row', j) /\ SameIntent(row[j], row'[j])
      BY <1>10, <1>12, <1>13, <2>1 DEF Serially, SameIntent
    <2>3. RowStarts(row', j) => row'[j].status = "running"
      BY DEF RowStarts
    <2>4. RowDropped(row', j) => row'[j].status = "failed"
      BY DEF RowDropped
    <2> QED BY <1>10, <2>2, <2>3, <2>4 DEF Allowed, DrainStep
  <1> QED BY <1>6, <1>12, <1>13 DEF Serialised, Serially

-----------------------------------------------------------------------------
(* Every behaviour.                                                        *)

LEMMA NextSerialised == ASSUME RInv, Next PROVE Serialised
  <1>1. CASE \E w \in Workflows, k \in Kinds, p \in Priorities : Enqueue(w, k, p = "high")
    <2>1. PICK w \in Workflows, k \in Kinds, p \in Priorities : Enqueue(w, k, p = "high")
      BY <1>1
    <2>2. PICK h \in BOOLEAN : h = (p = "high")
      OBVIOUS
    <2>3. k \in AllKinds /\ Enqueue(w, k, h)
      BY <2>1, <2>2, QueueSetsAssumption
    <2> QED BY <2>3, EnqueueSerially
  <1>2. CASE \E w \in Workflows, k \in Kinds, p \in Priorities, globally, deferred \in BOOLEAN :
               Submit(w, k, p = "high", globally, deferred)
    <2>1. PICK w \in Workflows, k \in Kinds, p \in Priorities,
               globally \in BOOLEAN, deferred \in BOOLEAN :
                 Submit(w, k, p = "high", globally, deferred)
      BY <1>2
    <2>2. PICK h \in BOOLEAN : h = (p = "high")
      OBVIOUS
    <2>3. k \in AllKinds /\ Submit(w, k, h, globally, deferred)
      BY <2>1, <2>2, QueueSetsAssumption
    <2> QED BY <2>3, SubmitSerially
  <1>3. CASE TimerFires \/ DrainEnded
    BY <1>3, DrainsSerialised
  <1>4. ASSUME NEW i \in Ids, DispatchResolves(i) PROVE Serialised
    <2>1. UNCHANGED <<row, deleted, lease, loop>>
      BY <1>4 DEF DispatchResolves
    <2> QED BY <2>1, QuietSerialised
  <1>5. CASE \E i \in Ids : DispatchRejects(i) \/ DeletesWorkflow(i)
    BY <1>5, RejectsSerially, DeletesSerially
  <1>6. CASE \E w \in Workflows : Settle(w) \/ DrainNext(w) \/ LeaseExpires(w)
    BY <1>6, SettleSerially, DrainNextSerially, ExpiresSerially
  <1>7. CASE \E orderly, quick \in BOOLEAN : Restart(orderly, quick)
    BY <1>7, RestartSerially
  <1>8. CASE Recover
    BY <1>8, RecoverSerially
  <1> QED BY <1>1, <1>2, <1>3, <1>4, <1>5, <1>6, <1>7, <1>8 DEF Next

LEMMA StepsAreSerial ==
    ASSUME RInv, [Next]_vars
    PROVE  RInv' /\ [Serial!Next]_Entries
  <1>1. CASE Next
    <2>1. Serialised
      BY <1>1, NextSerialised
    <2>2. IInv'
      BY <1>1, NextKeeps DEF RInv, Kept
    <2>3. row' \in Table
      BY <2>2 DEF IInv, Announced
    <2>4. deleted \subseteq deleted'
      BY <1>1 DEF Next, Enqueue, Submit, TimerFires, DrainEnded, DispatchResolves, DispatchRejects,
                  DeletesWorkflow, Settle, DrainNext, LeaseExpires, Restart, Recover
    <2>5. Serial!Next
      BY <2>1, <2>3, <2>4, AllowedIsSerial DEF Serialised
    <2> QED BY <2>1, <2>2, <2>5 DEF RInv, Serialised
  <1>2. CASE UNCHANGED vars
    <2>1. Serialised
      BY <1>2, QuietSerialised DEF vars
    <2>2. IInv'
      BY <1>2, StutterKeeps DEF RInv, Kept
    <2>3. Entries' = Entries
      BY <1>2 DEF vars, Entries
    <2> QED BY <2>1, <2>2, <2>3 DEF RInv, Serialised
  <1> QED BY <1>1, <1>2

LEMMA InitIsSerial == ASSUME Init PROVE RInv /\ Serial!Init
  <1>1. \A i \in Ids : row[i].status = "none" /\ row[i].wf = "none"
    BY DEF Init, NoIntent
  <1>2. OneAtATime(row, deleted, lease, loop)
    <2>1. \A w \in Workflows : lease[w] = Free /\ loop[w] = Idle
      BY DEF Init
    <2> QED BY <1>1, <2>1 DEF OneAtATime, Free, Idle
  <1>3. Serial!Init
    BY <1>1 DEF Init, Serial!Init, Entries, StateOf
  <1> QED BY <1>2, <1>3, InitKeeps DEF RInv

\* Of a workflow that is not deleted one intent runs at a time, the one its
\* drain holds or the one an owner that is gone left behind: inductive with
\* the invariant of the tables.
THEOREM QueueRunsOneAtATime == Spec => []OneAtATime(row, deleted, lease, loop)
  <1>1. RInv /\ [Next]_vars => RInv'
    BY StepsAreSerial
  <1>2. Init => RInv
    BY InitIsSerial
  <1>3. RInv => OneAtATime(row, deleted, lease, loop)
    BY DEF RInv
  <1> QED BY <1>1, <1>2, <1>3, PTL DEF Spec

\* The coordinator with its leases, drains, timers and restarts implements
\* the serial queue, for any number of workflows, intents and owners.
THEOREM QueueRunsSerially == Spec => RunsSerially
  <1>1. RInv /\ [Next]_vars => RInv' /\ [Serial!Next]_Entries
    BY StepsAreSerial
  <1>2. Init => RInv /\ Serial!Init
    BY InitIsSerial
  <1> QED BY <1>1, <1>2, PTL DEF Spec, RunsSerially, Serial!Spec

-----------------------------------------------------------------------------
(* What the dispatches and the callers know.  The intent of a drain is      *)
(* running or was overtaken; the race of any other intent is over.          *)

\* A hard reset came after it.
Fenced(r, i) == \E f \in Ids : i < f /\ r[f].wf = r[i].wf /\ r[f].kind \in HardFences

Answered(r, m, lp, i) ==
    /\ m[i].dispatch = "running" => r[i].status = "failed" \/ m[i].race = "open"
    /\ m[i].race = "open" => m[i].dispatch = "running" /\ r[i].status = "running"
    /\ m[i].race = "resolved" =>
          m[i].dispatch = "resolved" /\ (r[i].status = "failed" => Fenced(r, i))
    /\ m[i].race # "none" =>
          r[i].wf \in Workflows /\ lp[r[i].wf].at = "executing" /\ lp[r[i].wf].intent = i
    /\ m[i].caller = "rejected" => r[i].status = "failed"
    /\ m[i].caller = "resolved" =>
          \/ r[i].status = "completed"
          \/ r[i].status = "failed" /\ m[i].dispatch \in {"resolved", "none"} /\ Fenced(r, i)

\* The intent a drain executes.
Executes(r, lp, w) ==
    lp[w].at = "executing" => lp[w].intent \in Ids /\ r[lp[w].intent].wf = w

Holds(r, m, ls, lp, w) ==
    lp[w].at = "executing" =>
        /\ r[lp[w].intent].status \in {"running", "failed"}
        /\ m[lp[w].intent].race # "none"
        /\ ls[w].active = lp[w].intent

Heard(r, m, D, ls, lp) ==
    /\ \A i \in Ids : r[i].wf \notin D => Answered(r, m, lp, i)
    /\ \A w \in Workflows : Executes(r, lp, w)
    /\ \A w \in Workflows \ D : Holds(r, m, ls, lp, w)

HInv == RInv /\ Heard(row, mem, deleted, lease, loop)

LEMMA MemParts ==
    ASSUME NEW a \in Mem
    PROVE  /\ RejectCaller(Tell(a)).dispatch = a.dispatch /\ RejectCaller(Tell(a)).race = a.race
           /\ RejectCaller(Tell(a)).caller \in {a.caller, "rejected"}
           /\ Invalidate(Tell(a)).dispatch = a.dispatch /\ Invalidate(Tell(a)).caller = a.caller
           /\ Invalidate(Tell(a)).race = IF a.race = "open" THEN "superseded" ELSE a.race
           /\ [a EXCEPT !.dispatch = "running", !.race = "open"].dispatch = "running"
           /\ [a EXCEPT !.dispatch = "running", !.race = "open"].race = "open"
           /\ [a EXCEPT !.dispatch = "running", !.race = "open"].caller = a.caller
           /\ Forgotten(a).dispatch = "none" /\ Forgotten(a).race = "none"
           /\ Forgotten(a).caller \in {a.caller, "lost"}
  <1>1. PICK b : b = Tell(a)
    OBVIOUS
  <1>2. b \in Mem /\ b.dispatch = a.dispatch /\ b.race = a.race /\ b.caller = a.caller
    BY <1>1 DEF Tell, Mem
  <1>3. /\ RejectCaller(b).dispatch = a.dispatch /\ RejectCaller(b).race = a.race
        /\ RejectCaller(b).caller \in {a.caller, "rejected"}
    BY <1>2 DEF RejectCaller, Mem
  <1>4. /\ Invalidate(b).dispatch = a.dispatch /\ Invalidate(b).caller = a.caller
        /\ Invalidate(b).race = IF a.race = "open" THEN "superseded" ELSE a.race
    BY <1>2 DEF Invalidate, Mem
  <1>5. /\ [a EXCEPT !.dispatch = "running", !.race = "open"].dispatch = "running"
        /\ [a EXCEPT !.dispatch = "running", !.race = "open"].race = "open"
        /\ [a EXCEPT !.dispatch = "running", !.race = "open"].caller = a.caller
    BY DEF Mem
  <1>6. /\ Forgotten(a).dispatch = "none" /\ Forgotten(a).race = "none"
        /\ Forgotten(a).caller \in {a.caller, "lost"}
    BY DEF Forgotten, Mem
  <1> QED BY <1>1, <1>3, <1>4, <1>5, <1>6

\* No drain holds an intent that waits.
LEMMA WaitingIsUnheld ==
    ASSUME NEW r, NEW m, NEW D \in SUBSET Workflows, NEW ls, NEW lp, Heard(r, m, D, ls, lp),
           NEW i \in Ids, r[i].wf \notin D, r[i].status = "queued"
    PROVE  m[i].race = "none" /\ m[i].caller \notin {"rejected", "resolved"}
  <1>1. Answered(r, m, lp, i)
    BY DEF Heard
  <1>2. ASSUME m[i].race # "none" PROVE FALSE
    <2>1. r[i].wf \in Workflows \ D /\ lp[r[i].wf].at = "executing" /\ lp[r[i].wf].intent = i
      BY <1>1, <1>2 DEF Answered
    <2>2. Holds(r, m, ls, lp, r[i].wf)
      BY <2>1 DEF Heard
    <2> QED BY <2>1, <2>2 DEF Holds
  <1> QED BY <1>1, <1>2 DEF Answered

\* What claiming some intents does to them and to those their fences drop.
Begun(r, m, s, n, S) ==
    /\ \A i \in Ids : SameIntent(r[i], s[i])
    /\ \A i \in S : /\ s[i].status = "running" /\ n[i].dispatch = "running"
                    /\ n[i].race = "open" /\ n[i].caller = m[i].caller
    /\ \A i \in Ids \ S :
          \/ s[i].status = r[i].status /\ n[i] = m[i]
          \/ /\ r[i].status = "queued" /\ s[i].status = "failed"
             /\ n[i].dispatch = m[i].dispatch /\ n[i].race = m[i].race
             /\ n[i].caller \in {m[i].caller, "rejected"}

LEMMA BeginBegins ==
    ASSUME NEW r \in Table, NEW m \in Memory, NEW S \in SUBSET Ids, Heads(r, S), Begin(r, m, S),
           NEW s, s = row', NEW n, n = mem'
    PROVE  Begun(r, m, s, n, S)
  <1>1. PICK out : out = UNION {QueuedBefore(r, f) : f \in S}
    OBVIOUS
  <1>2. PICK r1 : r1 = SetStatus(r, S, "running")
    OBVIOUS
  <1>3. PICK m1 : m1 = Evicted(m, out)
    OBVIOUS
  <1>4. s = SetStatus(r1, out, "failed") /\ n = Start(m1, S)
    BY <1>1, <1>2, <1>3 DEF Begin
  <1>5. out \subseteq Ids /\ \A i \in out : r[i].status = "queued"
    BY <1>1 DEF QueuedBefore, Of
  <1>6. \A i \in Ids : /\ SameIntent(r[i], s[i])
                       /\ i \in S => s[i].status = "running"
    BY BeginSteps
  <1>7. \A i \in out : i \notin S
    <2> SUFFICES ASSUME NEW i \in out, i \in S PROVE FALSE
      OBVIOUS
    <2>1. PICK f \in S : i \in QueuedBefore(r, f)
      BY <1>1
    <2>2. i < f /\ r[i].wf = r[f].wf
      BY <2>1 DEF QueuedBefore, Of
    <2>3. i = f
      BY <2>2 DEF Heads
    <2> QED BY <2>2, <2>3, QueueBoundsAssumption DEF Ids
  <1>8. \A i \in Ids : m[i] \in Mem
    BY DEF Memory
  <1>9. ASSUME NEW i \in S
        PROVE  n[i].dispatch = "running" /\ n[i].race = "open" /\ n[i].caller = m[i].caller
    <2>1. m1[i] = m[i]
      BY <1>3, <1>7 DEF Evicted
    <2>2. n[i] = [m[i] EXCEPT !.dispatch = "running", !.race = "open"]
      BY <1>4, <2>1 DEF Start
    <2> QED BY <1>8, <2>2, MemParts
  <1>10. ASSUME NEW i \in out
         PROVE  /\ s[i].status = "failed" /\ n[i].dispatch = m[i].dispatch /\ n[i].race = m[i].race
                /\ n[i].caller \in {m[i].caller, "rejected"}
    <2>1. n[i] = RejectCaller(Tell(m[i])) /\ i \in Ids
      BY <1>3, <1>4, <1>5, <1>7 DEF Start, Evicted
    <2>2. PICK v \in Statuses : v = "failed"
      BY DEF Statuses
    <2>3. s[i] = [r[i] EXCEPT !.status = v] /\ r[i] \in Row
      BY <1>2, <1>4, <1>5, <1>7, <2>2 DEF SetStatus, Table
    <2>4. s[i].status = "failed"
      BY <2>2, <2>3, RowWith
    <2> QED BY <1>8, <2>1, <2>4, MemParts
  <1>11. ASSUME NEW i \in Ids, i \notin S, i \notin out
         PROVE  s[i] = r[i] /\ n[i] = m[i]
    BY <1>2, <1>3, <1>4, <1>11 DEF SetStatus, Start, Evicted
  <1> QED BY <1>5, <1>6, <1>9, <1>10, <1>11 DEF Begun

LEMMA FencedStays ==
    ASSUME NEW r, NEW s, NEW i \in Ids, Fenced(r, i), \A j \in Ids : SameIntent(r[j], s[j])
    PROVE  Fenced(s, i)
  BY DEF Fenced, SameIntent

\* Drains that begin: those of S, none of which was executing.
LEMMA BeginHeard ==
    ASSUME NEW r, NEW m, NEW D \in SUBSET Workflows, NEW ls, NEW lp, NEW ls2, NEW lp2,
           Heard(r, m, D, ls, lp), Contiguous(r),
           NEW S \in SUBSET Ids, NEW s, NEW n, Begun(r, m, s, n, S),
           \A i \in S : /\ r[i].status = "queued" /\ lp[r[i].wf].at # "executing"
                        /\ lp2[r[i].wf].at = "executing" /\ lp2[r[i].wf].intent = i
                        /\ ls2[r[i].wf].active = i,
           \A w \in Workflows :
              \/ \E i \in S : r[i].wf = w
              \/ lp2[w].at # "executing" /\ lp[w].at # "executing"
              \/ lp2[w] = lp[w] /\ ls2[w].active = ls[w].active
    PROVE  Heard(s, n, D, ls2, lp2)
  <1>1. \A i \in Ids : s[i].wf = r[i].wf /\ SameIntent(r[i], s[i])
    BY DEF Begun, SameIntent
  <1>0. ASSUME NEW i \in Ids, r[i].wf \notin D, r[i].status = "queued"
        PROVE  m[i].race = "none" /\ m[i].caller \notin {"rejected", "resolved"}
    BY <1>0, WaitingIsUnheld
  <1>2. ASSUME NEW i \in Ids, s[i].wf \notin D PROVE Answered(s, n, lp2, i)
    <2>1. Answered(r, m, lp, i) /\ r[i].wf \notin D
      BY <1>1, <1>2 DEF Heard
    <2>2. CASE i \in S
      <3>1. m[i].caller \notin {"rejected", "resolved"}
        BY <1>0, <2>1, <2>2
      <3>2. r[i].wf \in Workflows
        BY <2>2 DEF Contiguous
      <3>3. s[i].status = "running" /\ n[i].dispatch = "running" /\ n[i].race = "open" /\ n[i].caller = m[i].caller
        BY <2>2 DEF Begun
      <3> QED BY <1>1, <2>2, <3>1, <3>2, <3>3 DEF Answered
    <2>3. CASE i \notin S /\ s[i].status = r[i].status /\ n[i] = m[i]
      <3>1. Fenced(r, i) => Fenced(s, i)
        BY <1>1, FencedStays
      <3>2. m[i].race # "none" => s[i].wf \in Workflows /\ lp2[s[i].wf].at = "executing" /\ lp2[s[i].wf].intent = i
        <4> SUFFICES ASSUME m[i].race # "none"
                     PROVE  s[i].wf \in Workflows /\ lp2[s[i].wf].at = "executing" /\ lp2[s[i].wf].intent = i
          OBVIOUS
        <4>1. r[i].wf \in Workflows /\ lp[r[i].wf].at = "executing" /\ lp[r[i].wf].intent = i
          BY <2>1 DEF Answered
        <4>2. lp2[r[i].wf] = lp[r[i].wf]
          BY <4>1
        <4> QED BY <1>1, <4>1, <4>2
      <3> QED BY <2>1, <2>3, <3>1, <3>2 DEF Answered
    <2>4. CASE /\ i \notin S /\ r[i].status = "queued" /\ s[i].status = "failed"
               /\ n[i].dispatch = m[i].dispatch /\ n[i].race = m[i].race
               /\ n[i].caller \in {m[i].caller, "rejected"}
      <3>1. m[i].race = "none" /\ m[i].caller \notin {"rejected", "resolved"}
        BY <1>0, <2>1, <2>4
      <3> QED BY <2>4, <3>1 DEF Answered
    <2> QED BY <2>2, <2>3, <2>4 DEF Begun
  <1>3. ASSUME NEW w \in Workflows
        PROVE  Executes(s, lp2, w) /\ (w \notin D => Holds(s, n, ls2, lp2, w))
    <2>1. Executes(r, lp, w) /\ (w \notin D => Holds(r, m, ls, lp, w))
      BY DEF Heard
    <2>2. CASE \E i \in S : r[i].wf = w
      <3>1. PICK i \in S : r[i].wf = w
        BY <2>2
      <3>2. lp2[w].intent = i /\ ls2[w].active = i
        BY <3>1
      <3>3. s[i].wf = w /\ s[i].status = "running" /\ n[i].race = "open"
        BY <1>1, <3>1 DEF Begun
      <3> QED BY <3>2, <3>3 DEF Executes, Holds
    <2>3. CASE lp2[w].at # "executing"
      BY <2>3 DEF Executes, Holds
    <2>4. CASE lp2[w] = lp[w] /\ ls2[w].active = ls[w].active /\ lp[w].at = "executing" /\ ~\E i \in S : r[i].wf = w
      <3>1. PICK i \in Ids : i = lp[w].intent /\ r[i].wf = w
        BY <2>1, <2>4 DEF Executes
      <3>2. i \notin S /\ s[i].wf = w
        BY <1>1, <2>4, <3>1
      <3>3. w \notin D => /\ r[i].status \in {"running", "failed"} /\ m[i].race # "none"
                          /\ ls[w].active = i
        BY <2>1, <2>4, <3>1 DEF Holds
      <3>4. w \notin D => s[i].status = r[i].status /\ n[i] = m[i]
        BY <3>2, <3>3 DEF Begun
      <3> QED BY <2>4, <3>1, <3>2, <3>3, <3>4 DEF Executes, Holds
    <2> QED BY <2>2, <2>3, <2>4
  <1> QED BY <1>2, <1>3 DEF Heard

\* Taking leases over or recovering puts running intents that no drain of
\* this owner executes back in the queue.
LEMMA RequeueHeard ==
    ASSUME NEW r, NEW m, NEW D \in SUBSET Workflows, NEW ls, NEW lp, Heard(r, m, D, ls, lp),
           NEW s, NEW ls2,
           \A i \in Ids : /\ SameIntent(r[i], s[i])
                          /\ r[i].wf \notin D =>
                               \/ s[i].status = r[i].status
                               \/ /\ r[i].status = "running" /\ s[i].status = "queued"
                                  /\ lp[r[i].wf].at # "executing",
           \A w \in Workflows \ D : lp[w].at = "executing" => ls2[w].active = ls[w].active
    PROVE  Heard(s, m, D, ls2, lp)
  <1>1. \A i \in Ids : s[i].wf = r[i].wf
    BY DEF SameIntent
  <1>2. ASSUME NEW i \in Ids, s[i].wf \notin D PROVE Answered(s, m, lp, i)
    <2>1. Answered(r, m, lp, i) /\ r[i].wf \notin D
      BY <1>1, <1>2 DEF Heard
    <2>2. CASE s[i].status = r[i].status
      <3>1. Fenced(r, i) => Fenced(s, i)
        BY FencedStays
      <3> QED BY <1>1, <2>1, <2>2, <3>1 DEF Answered
    <2>3. CASE r[i].status = "running" /\ s[i].status = "queued" /\ lp[r[i].wf].at # "executing"
      <3>1. m[i].race = "none"
        BY <2>1, <2>3 DEF Answered
      <3> QED BY <2>1, <2>3, <3>1 DEF Answered
    <2> QED BY <2>1, <2>2, <2>3
  <1>3. \A w \in Workflows : Executes(s, lp, w)
    BY <1>1 DEF Heard, Executes
  <1>4. ASSUME NEW w \in Workflows \ D PROVE Holds(s, m, ls2, lp, w)
    <2> SUFFICES ASSUME lp[w].at = "executing" PROVE Holds(s, m, ls2, lp, w)
      BY DEF Holds
    <2>1. PICK i \in Ids : i = lp[w].intent /\ r[i].wf = w
      BY DEF Heard, Executes
    <2>2. r[i].status \in {"running", "failed"} /\ m[i].race # "none" /\ ls[w].active = i
      BY <2>1 DEF Heard, Holds
    <2>3. s[i].status = r[i].status
      BY <2>1
    <2> QED BY <2>1, <2>2, <2>3 DEF Holds
  <1> QED BY <1>2, <1>3, <1>4 DEF Heard

LEMMA DrainsHeard ==
    ASSUME NEW r \in Table, NEW m \in Memory, NEW D \in SUBSET Workflows, NEW ls,
           NEW ps \in SUBSET Workflows, NEW again, Contiguous(r), Heard(r, m, D, ls, loop),
           ProcessDrains(r, m, ls, ps, again)
    PROVE  Heard(row', mem', D, lease', loop')
  <1>1. PICK ready : ready = {w \in ps : ~Draining(w)}
    OBVIOUS
  <1>2. PICK claimed : claimed = {w \in ready : CanClaim(ls, w)}
    OBVIOUS
  <1>3. PICK r1 : r1 = Reclaimed(r, ls, claimed)
    OBVIOUS
  <1>4. PICK busy : busy = {w \in claimed : Of(r1, w, "queued") # {}}
    OBVIOUS
  <1>5. PICK head : head = [w \in busy |-> First(r1, Of(r1, w, "queued"))]
    OBVIOUS
  <1>6. /\ Begin(r1, m, {head[w] : w \in busy})
        /\ loop' = [w \in Workflows |->
                      IF w \in busy THEN [at |-> "executing", intent |-> head[w]] ELSE loop[w]]
        /\ lease' = [w \in Workflows |->
                      IF w \in busy THEN [holder |-> "me", active |-> head[w], expired |-> FALSE]
                      ELSE IF w \in claimed THEN Free ELSE ls[w]]
    BY <1>1, <1>2, <1>3, <1>4, <1>5 DEF ProcessDrains
  <1>7. claimed \subseteq Workflows /\ busy \subseteq claimed /\ \A w \in claimed : loop[w].at = "idle"
    BY <1>1, <1>2, <1>4 DEF Draining
  <1>8. ASSUME NEW i \in Ids
        PROVE  /\ r1[i] \in Row /\ SameIntent(r[i], r1[i])
               /\ \/ r1[i].status = r[i].status
                  \/ r[i].status = "running" /\ r1[i].status = "queued" /\ r[i].wf \in claimed
               /\ r1[i].status = "none" <=> r[i].status = "none"
    <2>1. r[i] \in Row
      BY DEF Table
    <2>2. CASE r[i].wf \in claimed /\ r[i].status = "running" /\ ls[r[i].wf].expired
      <3>1. PICK v \in Statuses : v = "queued"
        BY DEF Statuses
      <3>2. r1[i] = [r[i] EXCEPT !.status = v]
        BY <1>3, <2>2, <3>1 DEF Reclaimed
      <3> QED BY <2>1, <2>2, <3>1, <3>2, RowWith DEF SameIntent
    <2>3. CASE ~(r[i].wf \in claimed /\ r[i].status = "running" /\ ls[r[i].wf].expired)
      <3>1. r1[i] = r[i]
        BY <1>3, <2>3 DEF Reclaimed
      <3> QED BY <2>1, <2>3, <3>1 DEF SameIntent
    <2> QED BY <2>2, <2>3
  <1>9. r1 \in Table
    <2>1. r1 = [i \in Ids |-> r1[i]]
      BY <1>3 DEF Reclaimed
    <2> QED BY <1>8, <2>1 DEF Table
  <1>10. Contiguous(r1)
    BY <1>8 DEF Contiguous, SameIntent
  <1>11. Heard(r1, m, D, ls, loop)
    <2>1. \A i \in Ids : /\ SameIntent(r[i], r1[i])
                         /\ r[i].wf \notin D =>
                              \/ r1[i].status = r[i].status
                              \/ /\ r[i].status = "running" /\ r1[i].status = "queued"
                                 /\ loop[r[i].wf].at # "executing"
      BY <1>7, <1>8
    <2> QED BY <2>1, RequeueHeard
  <1>12. \A w \in busy : head[w] \in Ids /\ r1[head[w]].status = "queued" /\ r1[head[w]].wf = w
                         /\ head[w] = First(r1, Of(r1, w, "queued"))
    <2> SUFFICES ASSUME NEW w \in busy
                 PROVE  head[w] \in Ids /\ r1[head[w]].status = "queued" /\ r1[head[w]].wf = w
                        /\ head[w] = First(r1, Of(r1, w, "queued"))
      OBVIOUS
    <2>1. Of(r1, w, "queued") # {} /\ Of(r1, w, "queued") \in SUBSET Ids
      BY <1>4, OfIsOpen
    <2>2. head[w] = First(r1, Of(r1, w, "queued"))
      BY <1>5
    <2>3. head[w] \in Of(r1, w, "queued")
      BY <1>9, <2>1, <2>2, FirstExists
    <2> QED BY <2>2, <2>3 DEF Of
  <1>13. PICK S \in SUBSET Ids : S = {head[w] : w \in busy}
    BY <1>12
  <1>14. PICK s, n : s = row' /\ n = mem'
    OBVIOUS
  <1>15. Begun(r1, m, s, n, S)
    <2>1. Heads(r1, S)
      BY <1>12, <1>13 DEF Heads
    <2>2. Begin(r1, m, S)
      BY <1>6, <1>13
    <2> QED BY <1>9, <1>14, <2>1, <2>2, BeginBegins
  <1>16. \A i \in S : /\ r1[i].status = "queued" /\ loop[r1[i].wf].at # "executing"
                      /\ loop'[r1[i].wf].at = "executing" /\ loop'[r1[i].wf].intent = i
                      /\ lease'[r1[i].wf].active = i
    <2> SUFFICES ASSUME NEW w \in busy, NEW i, i = head[w]
                 PROVE  /\ r1[i].status = "queued" /\ loop[r1[i].wf].at # "executing"
                        /\ loop'[r1[i].wf].at = "executing" /\ loop'[r1[i].wf].intent = i
                        /\ lease'[r1[i].wf].active = i
      BY <1>13
    <2>1. r1[i].status = "queued" /\ r1[i].wf = w /\ w \in Workflows /\ loop[w].at = "idle"
      BY <1>7, <1>12
    <2>2. loop'[w] = [at |-> "executing", intent |-> i]
          /\ lease'[w] = [holder |-> "me", active |-> i, expired |-> FALSE]
      BY <1>6, <2>1
    <2> QED BY <2>1, <2>2
  <1>17. ASSUME NEW w \in Workflows
         PROVE  \/ \E i \in S : r1[i].wf = w
                \/ loop'[w].at # "executing" /\ loop[w].at # "executing"
                \/ loop'[w] = loop[w] /\ lease'[w].active = ls[w].active
    <2>1. CASE w \in busy
      BY <1>12, <1>13, <2>1
    <2>2. CASE w \in claimed \ busy
      <3>1. loop'[w] = loop[w] /\ loop[w].at = "idle"
        BY <1>6, <1>7, <2>2
      <3> QED BY <3>1
    <2>3. CASE w \notin claimed
      <3>1. loop'[w] = loop[w] /\ lease'[w] = ls[w]
        BY <1>6, <1>7, <2>3
      <3> QED BY <3>1
    <2> QED BY <2>1, <2>2, <2>3
  <1>18. PICK ls2, lp2 : ls2 = lease' /\ lp2 = loop'
    OBVIOUS
  <1>19. Heard(s, n, D, ls2, lp2)
    <2>1. \A i \in S : /\ r1[i].status = "queued" /\ loop[r1[i].wf].at # "executing"
                       /\ lp2[r1[i].wf].at = "executing" /\ lp2[r1[i].wf].intent = i
                       /\ ls2[r1[i].wf].active = i
      BY <1>16, <1>18
    <2>2. \A w \in Workflows :
                \/ \E i \in S : r1[i].wf = w
                \/ lp2[w].at # "executing" /\ loop[w].at # "executing"
                \/ lp2[w] = loop[w] /\ ls2[w].active = ls[w].active
      BY <1>17, <1>18
    <2> QED BY <1>10, <1>11, <1>15, <2>1, <2>2, BeginHeard
  <1> QED BY <1>14, <1>18, <1>19

HeardNext == Heard(row', mem', deleted', lease', loop')

LEMMA HeardParts ==
    ASSUME HInv
    PROVE  /\ row \in Table /\ mem \in Memory /\ Contiguous(row) /\ Announced(row, mem)
           /\ deleted \in SUBSET Workflows /\ pending \in SUBSET Workflows
           /\ lease \in [Workflows -> Lease] /\ loop \in [Workflows -> Loop]
           /\ OneAtATime(row, deleted, lease, loop) /\ Heard(row, mem, deleted, lease, loop)
  BY DEF HInv, RInv, IInv, Announced, Bookkeeping

LEMMA ScheduleHeard ==
    ASSUME HInv, NEW r \in Table, NEW m \in Memory, NEW w \in Workflows, NEW deferred \in BOOLEAN,
           Contiguous(r), Heard(r, m, deleted, lease, loop), UNCHANGED deleted,
           Schedule(r, m, w) \/ Schedules(r, m, w, deferred)
    PROVE  HeardNext
  <1>1. CASE ProcessDrains(r, m, lease, pending \cup {w}, kick)
    BY <1>1, DrainsHeard, HeardParts DEF HeardNext
  <1>2. CASE row' = r /\ mem' = m /\ UNCHANGED <<loop, lease>>
    BY <1>2 DEF HeardNext
  <1> QED BY <1>1, <1>2 DEF Schedule, Schedules, ScheduleDeferred

\* An accepted intent, and those its fences overtake.
LEMMA AcceptHeard ==
    ASSUME HInv, NEW i \in Ids, Fresh(i), NEW w \in Workflows, NEW k \in AllKinds,
           NEW h \in BOOLEAN, NEW caller \in {"waiting", "none"}, NEW deferred \in BOOLEAN,
           NEW r, r = Inserted(i, w, k, h), NEW q, q = AcceptedRows(r, i),
           NEW m, m = AcceptedMem(r, i, caller),
           Schedule(q, m, w) \/ Schedules(q, m, w, deferred), UNCHANGED deleted
    PROVE  HeardNext
  <1>1. /\ row \in Table /\ mem \in Memory /\ Contiguous(row)
        /\ deleted \in SUBSET Workflows /\ Heard(row, mem, deleted, lease, loop)
    BY HeardParts
  <1>2. q \in Table /\ Contiguous(q) /\ m \in Memory
    <2>1. Announced(q, m)
      BY AcceptedKeeps DEF HInv, RInv
    <2> QED BY <2>1 DEF Announced
  <1>3. /\ r[i] = [status |-> "queued", kind |-> k, wf |-> w, high |-> h]
        /\ \A j \in Ids \ {i} : r[j] = row[j]
    BY <1>1 DEF Inserted, Table
  <1>4. row[i].status = "none" /\ row[i].wf = "none" /\ row[i].wf \notin deleted
    BY <1>1, QueueNamesAssumption DEF Fresh, Contiguous
  <1>5. PICK Q \in SUBSET Ids, R \in SUBSET Ids : Q = QueuedBefore(r, i) /\ R = RunningBefore(r, i)
    BY DEF QueuedBefore, RunningBefore, Of
  <1>6. /\ \A j \in Q : r[j].status = "queued" /\ j < i /\ j # i
        /\ \A j \in R : /\ r[j].status = "running" /\ j < i /\ r[i].kind \in HardFences
                        /\ r[j].wf = r[i].wf /\ j # i
    BY <1>5, QueueBoundsAssumption DEF QueuedBefore, RunningBefore, Of, Ids
  <1>7. \A j \in Q : j \notin R
    BY <1>6
  <1>8. ASSUME NEW j \in Ids
        PROVE  /\ SameIntent(r[j], q[j])
               /\ j \in Q \cup R => q[j].status = "failed"
               /\ j \notin Q \cup R => q[j] = r[j]
    <2>1. CASE j \in Q \cup R
      <3>1. PICK v \in Statuses : v = "failed"
        BY DEF Statuses
      <3>2. q[j] = [r[j] EXCEPT !.status = v]
        BY <1>5, <2>1, <3>1 DEF AcceptedRows, Overtaken, SetStatus
      <3>3. r[j] \in Row
        BY <1>1, <1>3, <1>6, <2>1 DEF Table
      <3> QED BY <2>1, <3>1, <3>2, <3>3, RowWith DEF SameIntent
    <2>2. CASE j \notin Q \cup R
      <3>1. q[j] = r[j]
        BY <1>5, <2>2 DEF AcceptedRows, Overtaken, SetStatus
      <3> QED BY <2>2, <3>1 DEF SameIntent
    <2> QED BY <2>1, <2>2
  <1>9. \A j \in Ids : mem[j] \in Mem
    BY <1>1 DEF Memory
  <1>10. PICK m1 : m1 = Supersede(Evicted(mem, Q), R)
    OBVIOUS
  <1>11. m = [m1 EXCEPT ![i].caller = caller] /\ m1 = [j \in Ids |-> m1[j]]
    BY <1>5, <1>10 DEF AcceptedMem, Supersede
  <1>12. /\ \A j \in Q : m1[j] = RejectCaller(Tell(mem[j]))
         /\ \A j \in R : m1[j] = Invalidate(Tell(mem[j]))
         /\ \A j \in Ids : j \notin Q \cup R => m1[j] = mem[j]
    BY <1>7, <1>10 DEF Supersede, Evicted
  <1>13. \A j \in Ids \ {i} : m[j] = m1[j]
    BY <1>11
  <1>14. m[i].dispatch = mem[i].dispatch /\ m[i].race = mem[i].race /\ m[i].caller = caller
    <2>1. m1[i] = mem[i]
      BY <1>6, <1>12
    <2>2. m[i] = [m1[i] EXCEPT !.caller = caller]
      BY <1>11
    <2> QED BY <1>9, <2>1, <2>2 DEF Mem
  <1>15. ASSUME NEW j \in Ids, row[j].wf \in Workflows, Fenced(row, j) PROVE Fenced(q, j)
    <2>1. PICK f \in Ids : j < f /\ row[f].wf = row[j].wf /\ row[f].kind \in HardFences
      BY <1>15 DEF Fenced
    <2>2. f # i /\ j # i
      BY <1>4, <1>15, <2>1, QueueNamesAssumption
    <2>3. r[f] = row[f] /\ r[j] = row[j]
      BY <1>3, <2>2
    <2> QED BY <1>8, <2>1, <2>3 DEF Fenced, SameIntent
  <1>16. ASSUME NEW j \in Ids \ {i}, row[j].wf \notin deleted
         PROVE  Answered(q, m, loop, j) /\ (mem[j].race # "none" => m[j].race # "none")
    <2>1. Answered(row, mem, loop, j)
      BY <1>1, <1>16 DEF Heard
    <2>2. r[j] = row[j] /\ q[j].wf = row[j].wf
      BY <1>3, <1>8 DEF SameIntent
    <2>3. CASE j \in Q
      <3>1. mem[j].race = "none" /\ mem[j].caller \notin {"rejected", "resolved"}
        <4>1. row[j].status = "queued"
          BY <1>6, <2>2, <2>3
        <4>2. PICK D \in SUBSET Workflows : D = deleted
          BY <1>1
        <4> QED BY <1>1, <1>16, <4>1, <4>2, WaitingIsUnheld
      <3>2. m[j].dispatch = mem[j].dispatch /\ m[j].race = mem[j].race
            /\ m[j].caller \in {mem[j].caller, "rejected"}
        <4>1. m[j] = RejectCaller(Tell(mem[j]))
          BY <1>12, <1>13, <2>3
        <4> QED BY <1>9, <4>1, MemParts
      <3>3. q[j].status = "failed"
        BY <1>8, <2>3
      <3> QED BY <3>1, <3>2, <3>3 DEF Answered
    <2>4. CASE j \in R
      <3>1. m[j].dispatch = mem[j].dispatch /\ m[j].caller = mem[j].caller
            /\ m[j].race = IF mem[j].race = "open" THEN "superseded" ELSE mem[j].race
        <4>1. m[j] = Invalidate(Tell(mem[j]))
          BY <1>12, <1>13, <2>4
        <4> QED BY <1>9, <4>1, MemParts
      <3>2. q[j].status = "failed" /\ row[j].status = "running"
        BY <1>6, <1>8, <2>2, <2>4
      <3>3. Fenced(q, j)
        <4>1. q[i] = r[i] /\ j < i /\ r[i].kind \in HardFences /\ q[j].wf = q[i].wf
          BY <1>6, <1>8, <2>2, <2>4
        <4> QED BY <4>1 DEF Fenced
      <3>4. mem[j].caller \notin {"rejected", "resolved"}
        BY <2>1, <3>2 DEF Answered
      <3> QED BY <2>1, <2>2, <3>1, <3>2, <3>3, <3>4 DEF Answered
    <2>5. CASE j \notin Q \cup R
      <3>1. q[j] = row[j] /\ m[j] = mem[j]
        BY <1>8, <1>12, <1>13, <2>2, <2>5
      <3>2. row[j].status = "failed" => row[j].wf \in Workflows
        BY <1>1 DEF Contiguous
      <3>3. row[j].status = "failed" /\ Fenced(row, j) => Fenced(q, j)
        BY <1>15, <3>2
      <3> QED BY <2>1, <3>1, <3>3 DEF Answered
    <2> QED BY <2>3, <2>4, <2>5
  <1>17. mem[i].race = "none" /\ mem[i].dispatch # "running"
    <2>1. Answered(row, mem, loop, i)
      BY <1>1, <1>4 DEF Heard
    <2> QED BY <1>4, <2>1, QueueNamesAssumption DEF Answered
  <1>18. Answered(q, m, loop, i)
    BY <1>14, <1>17 DEF Answered
  <1>19. ASSUME NEW u \in Workflows
         PROVE  Executes(q, loop, u) /\ (u \notin deleted => Holds(q, m, lease, loop, u))
    <2> SUFFICES ASSUME loop[u].at = "executing"
                 PROVE  Executes(q, loop, u) /\ (u \notin deleted => Holds(q, m, lease, loop, u))
      BY DEF Executes, Holds
    <2>1. PICK j \in Ids : j = loop[u].intent /\ row[j].wf = u
      BY <1>1 DEF Heard, Executes
    <2>2. j # i /\ r[j] = row[j] /\ q[j].wf = u
      BY <1>3, <1>4, <1>8, <2>1, QueueNamesAssumption DEF SameIntent
    <2>3. ASSUME u \notin deleted
          PROVE  q[j].status \in {"running", "failed"} /\ m[j].race # "none" /\ lease[u].active = j
      <3>1. row[j].status \in {"running", "failed"} /\ mem[j].race # "none" /\ lease[u].active = j
        BY <1>1, <2>1, <2>3 DEF Heard, Holds
      <3>2. m[j].race # "none"
        BY <1>16, <2>1, <2>2, <2>3, <3>1
      <3>3. q[j].status \in {row[j].status, "failed"}
        BY <1>8, <2>2
      <3> QED BY <3>1, <3>2, <3>3
    <2> QED BY <2>1, <2>2, <2>3 DEF Executes, Holds
  <1>20. ASSUME NEW j \in Ids, q[j].wf \notin deleted PROVE Answered(q, m, loop, j)
    <2>1. CASE j = i
      BY <1>18, <2>1
    <2>2. CASE j # i
      <3>1. row[j].wf \notin deleted
        BY <1>3, <1>8, <1>20, <2>2 DEF SameIntent
      <3> QED BY <1>16, <2>2, <3>1
    <2> QED BY <2>1, <2>2
  <1>21. Heard(q, m, deleted, lease, loop)
    BY <1>19, <1>20 DEF Heard
  <1> QED BY <1>2, <1>21, ScheduleHeard

LEMMA EnqueueHeard ==
    ASSUME HInv, NEW w \in Workflows, NEW k \in AllKinds, NEW h \in BOOLEAN, Enqueue(w, k, h)
    PROVE  HeardNext
  <1>1. PICK i \in Ids :
          /\ Fresh(i)
          /\ Schedule(AcceptedRows(Inserted(i, w, k, h), i),
                      AcceptedMem(Inserted(i, w, k, h), i, "waiting"), w)
    BY DEF Enqueue
  <1>2. PICK r : r = Inserted(i, w, k, h)
    OBVIOUS
  <1>3. PICK c \in {"waiting", "none"} : c = "waiting"
    OBVIOUS
  <1>4. PICK q, m : q = AcceptedRows(r, i) /\ m = AcceptedMem(r, i, c)
    OBVIOUS
  <1>5. Schedule(q, m, w) /\ UNCHANGED deleted /\ TRUE \in BOOLEAN
    BY <1>1, <1>2, <1>3, <1>4 DEF Enqueue
  <1> QED BY <1>1, <1>2, <1>4, <1>5, AcceptHeard

LEMMA SubmitHeard ==
    ASSUME HInv, NEW w \in Workflows, NEW k \in AllKinds, NEW h \in BOOLEAN,
           NEW globally \in BOOLEAN, NEW deferred \in BOOLEAN, Submit(w, k, h, globally, deferred)
    PROVE  HeardNext
  <1>1. PICK open : open = Joinable(w, k, globally)
    OBVIOUS
  <1>2. /\ \/ open # {} /\ Schedules(row, mem, row[First(row, open)].wf, deferred)
           \/ \E i \in Ids :
                 /\ Fresh(i)
                 /\ Schedules(AcceptedRows(Inserted(i, w, k, h), i),
                              AcceptedMem(Inserted(i, w, k, h), i, "none"), w, deferred)
        /\ UNCHANGED deleted
    BY <1>1 DEF Submit
  <1>3. CASE open # {} /\ Schedules(row, mem, row[First(row, open)].wf, deferred)
    <2>1. open \subseteq Ids /\ \A i \in open : row[i].status \in {"queued", "running"}
      BY <1>1 DEF Joinable
    <2>2. First(row, open) \in open
      BY <1>3, <2>1, HeardParts, FirstExists
    <2>3. PICK v \in Workflows : v = row[First(row, open)].wf
      BY <2>1, <2>2, HeardParts DEF Contiguous
    <2>4. Schedules(row, mem, v, deferred)
      BY <1>3, <2>3
    <2> QED BY <1>2, <2>4, ScheduleHeard, HeardParts
  <1>4. ASSUME NEW i \in Ids, Fresh(i),
               Schedules(AcceptedRows(Inserted(i, w, k, h), i),
                         AcceptedMem(Inserted(i, w, k, h), i, "none"), w, deferred)
        PROVE  HeardNext
    <2>1. PICK r : r = Inserted(i, w, k, h)
      OBVIOUS
    <2>2. PICK c \in {"waiting", "none"} : c = "none"
      OBVIOUS
    <2>3. PICK q, m : q = AcceptedRows(r, i) /\ m = AcceptedMem(r, i, c)
      OBVIOUS
    <2>4. Schedules(q, m, w, deferred)
      BY <1>4, <2>1, <2>2, <2>3
    <2> QED BY <1>2, <1>4, <2>1, <2>3, <2>4, AcceptHeard
  <1> QED BY <1>2, <1>3, <1>4

LEMMA TimersHeard ==
    ASSUME HInv, TimerFires \/ DrainEnded
    PROVE  HeardNext
  <1>1. PICK again : ProcessDrains(row, mem, lease, pending, again)
    BY DEF TimerFires, DrainEnded
  <1>2. UNCHANGED deleted
    BY DEF TimerFires, DrainEnded
  <1> QED BY <1>1, <1>2, DrainsHeard, HeardParts DEF HeardNext

\* A step that writes the row and the memory of one intent and nothing else
\* the drains look at.
LEMMA OneHeard ==
    ASSUME HInv, NEW i \in Ids, UNCHANGED <<lease, deleted, loop>>,
           \A j \in Ids : /\ SameIntent(row[j], row'[j])
                          /\ j # i => row'[j] = row[j] /\ mem'[j] = mem[j],
           row[i].wf \notin deleted =>
              /\ Answered(row', mem', loop, i)
              /\ row'[i].status \in {row[i].status, "failed"}
              /\ mem[i].race # "none" => mem'[i].race # "none"
    PROVE  HeardNext
  <1>1. Heard(row, mem, deleted, lease, loop)
    BY HeardParts
  <1>2. PICK s, n : s = row' /\ n = mem'
    OBVIOUS
  <1>3. \A j \in Ids : /\ SameIntent(row[j], s[j]) /\ s[j].wf = row[j].wf
                       /\ j # i => s[j] = row[j] /\ n[j] = mem[j]
    BY <1>2 DEF SameIntent
  <1>4. ASSUME NEW j \in Ids, s[j].wf \notin deleted PROVE Answered(s, n, loop, j)
    <2>1. CASE j = i
      BY <1>2, <1>3, <1>4, <2>1
    <2>2. CASE j # i
      <3>1. Answered(row, mem, loop, j)
        BY <1>1, <1>3, <1>4 DEF Heard
      <3>2. Fenced(row, j) => Fenced(s, j)
        BY <1>3, FencedStays
      <3> QED BY <1>3, <2>2, <3>1, <3>2 DEF Answered
    <2> QED BY <2>1, <2>2
  <1>5. ASSUME NEW w \in Workflows
        PROVE  Executes(s, loop, w) /\ (w \notin deleted => Holds(s, n, lease, loop, w))
    <2> SUFFICES ASSUME loop[w].at = "executing"
                 PROVE  Executes(s, loop, w) /\ (w \notin deleted => Holds(s, n, lease, loop, w))
      BY DEF Executes, Holds
    <2>1. PICK j \in Ids : j = loop[w].intent /\ row[j].wf = w
      BY <1>1 DEF Heard, Executes
    <2>2. ASSUME w \notin deleted
          PROVE  s[j].status \in {"running", "failed"} /\ n[j].race # "none" /\ lease[w].active = j
      <3>1. row[j].status \in {"running", "failed"} /\ mem[j].race # "none" /\ lease[w].active = j
        BY <1>1, <2>1, <2>2 DEF Heard, Holds
      <3> QED BY <1>2, <1>3, <2>1, <2>2, <3>1
    <2> QED BY <1>3, <2>1, <2>2 DEF Executes, Holds
  <1> QED BY <1>2, <1>4, <1>5 DEF Heard, HeardNext

LEMMA ResolvesHeard ==
    ASSUME HInv, NEW i \in Ids, DispatchResolves(i)
    PROVE  HeardNext
  <1>1. mem[i].dispatch = "running" /\ UNCHANGED <<row, lease, deleted, loop>>
        /\ mem' = [mem EXCEPT ![i].dispatch = "resolved",
                              ![i].race = IF @ = "open" THEN "resolved" ELSE @]
    BY DEF DispatchResolves
  <1>2. mem \in Memory /\ mem[i] \in Mem
    BY HeardParts DEF Memory
  <1>3. /\ mem'[i].dispatch = "resolved" /\ mem'[i].caller = mem[i].caller
        /\ mem'[i].race = IF mem[i].race = "open" THEN "resolved" ELSE mem[i].race
        /\ \A j \in Ids \ {i} : mem'[j] = mem[j]
    BY <1>1, <1>2 DEF Memory, Mem
  <1>4. ASSUME row[i].wf \notin deleted
        PROVE  Answered(row', mem', loop, i) /\ (mem[i].race # "none" => mem'[i].race # "none")
    <2>1. Answered(row, mem, loop, i)
      BY <1>4, HeardParts DEF Heard
    <2>2. mem[i].caller = "resolved" => row[i].status = "completed"
      BY <1>1, <2>1 DEF Answered
    <2>3. mem[i].race = "open" => row[i].status = "running"
      BY <2>1 DEF Answered
    <2>4. mem[i].race # "resolved"
      BY <1>1, <2>1 DEF Answered
    <2> QED BY <1>1, <1>3, <2>1, <2>2, <2>3, <2>4 DEF Answered
  <1> QED BY <1>1, <1>3, <1>4, OneHeard DEF SameIntent

LEMMA RejectsHeard ==
    ASSUME HInv, NEW i \in Ids, DispatchRejects(i)
    PROVE  HeardNext
  <1>1. PICK m : m = IF row[i].status = "running" THEN Tell(mem[i]) ELSE mem[i]
    OBVIOUS
  <1>2. PICK v \in {"completed", "failed"} : v = "failed"
    OBVIOUS
  <1>3. /\ mem[i].dispatch = "running" /\ UNCHANGED <<lease, deleted, loop>>
        /\ row' = IF row[i].status = "running" THEN SetStatus(row, {i}, v) ELSE row
        /\ mem' = [mem EXCEPT ![i] = [m EXCEPT !.dispatch = "rejected",
                                               !.race = IF @ = "open" THEN "rejected" ELSE @]]
    BY <1>1, <1>2 DEF DispatchRejects
  <1>4. mem \in Memory /\ mem[i] \in Mem /\ row \in Table
    BY HeardParts DEF Memory
  <1>5. m \in Mem /\ m.race = mem[i].race /\ m.caller = mem[i].caller
    BY <1>1, <1>4 DEF Tell, Mem
  <1>6. /\ mem'[i].dispatch = "rejected" /\ mem'[i].caller = mem[i].caller
        /\ mem'[i].race = IF mem[i].race = "open" THEN "rejected" ELSE mem[i].race
        /\ \A j \in Ids \ {i} : mem'[j] = mem[j]
    <2>1. mem'[i] = [m EXCEPT !.dispatch = "rejected", !.race = IF @ = "open" THEN "rejected" ELSE @]
      BY <1>3, <1>4 DEF Memory
    <2>2. \A j \in Ids \ {i} : mem'[j] = mem[j]
      BY <1>3, <1>4 DEF Memory
    <2> QED BY <1>5, <2>1, <2>2 DEF Mem
  <1>7. PICK s : s = row'
    OBVIOUS
  <1>8. ASSUME NEW j \in Ids
        PROVE  /\ SameIntent(row[j], s[j])
               /\ j # i => s[j] = row[j]
               /\ j = i => s[j].status = IF row[i].status = "running" THEN "failed" ELSE row[i].status
    <2>1. CASE row[i].status = "running" /\ j = i
      <3>1. s[j] = [row[j] EXCEPT !.status = v] /\ v \in Statuses /\ row[j] \in Row
        BY <1>3, <1>4, <1>7, <2>1 DEF SetStatus, Statuses, Table
      <3> QED BY <1>2, <2>1, <3>1, RowWith DEF SameIntent
    <2>2. CASE ~(row[i].status = "running" /\ j = i)
      <3>1. s[j] = row[j]
        BY <1>3, <1>7, <2>2 DEF SetStatus
      <3> QED BY <2>2, <3>1 DEF SameIntent
    <2> QED BY <2>1, <2>2
  <1>9. PICK n : n = mem'
    OBVIOUS
  <1>10. ASSUME row[i].wf \notin deleted
         PROVE  /\ Answered(s, n, loop, i) /\ (mem[i].race # "none" => n[i].race # "none")
                /\ s[i].status \in {row[i].status, "failed"}
    <2>1. Answered(row, mem, loop, i)
      BY <1>10, HeardParts DEF Heard
    <2>2. mem[i].race # "resolved" /\ (mem[i].caller = "resolved" => row[i].status = "completed")
      BY <1>3, <2>1 DEF Answered
    <2>3. n[i].race \notin {"open", "resolved"}
      BY <1>6, <1>9, <2>2
    <2>4. s[i].wf = row[i].wf /\ s[i].status = IF row[i].status = "running" THEN "failed" ELSE row[i].status
      BY <1>8 DEF SameIntent
    <2> QED BY <1>6, <1>9, <2>1, <2>2, <2>3, <2>4 DEF Answered
  <1> QED BY <1>3, <1>6, <1>7, <1>8, <1>9, <1>10, OneHeard

LEMMA DeletesHeard ==
    ASSUME HInv, NEW i \in Ids, DeletesWorkflow(i)
    PROVE  HeardNext
  <1>1. PICK w : w = row[i].wf
    OBVIOUS
  <1>2. /\ row' = [j \in Ids |-> IF row[j].wf = w /\ row[j].status # "none"
                                 THEN [row[j] EXCEPT !.status = "erased"] ELSE row[j]]
        /\ deleted' = deleted \cup {w} /\ lease' = [lease EXCEPT ![w] = Free]
        /\ UNCHANGED <<mem, loop>>
    BY <1>1 DEF DeletesWorkflow
  <1>3. /\ row \in Table /\ lease \in [Workflows -> Lease] /\ Heard(row, mem, deleted, lease, loop)
    BY HeardParts
  <1>4. PICK s : s = row'
    OBVIOUS
  <1>5. ASSUME NEW j \in Ids PROVE SameIntent(row[j], s[j]) /\ (row[j].wf # w => s[j] = row[j])
    <2>1. CASE row[j].wf = w /\ row[j].status # "none"
      <3>1. PICK e \in Statuses : e = "erased"
        BY DEF Statuses
      <3>2. s[j] = [row[j] EXCEPT !.status = e] /\ row[j] \in Row
        BY <1>2, <1>3, <1>4, <2>1, <3>1 DEF Table
      <3> QED BY <2>1, <3>2, RowWith DEF SameIntent
    <2>2. CASE ~(row[j].wf = w /\ row[j].status # "none")
      <3>1. s[j] = row[j]
        BY <1>2, <1>4, <2>2
      <3> QED BY <3>1 DEF SameIntent
    <2> QED BY <2>1, <2>2
  <1>6. ASSUME NEW j \in Ids, s[j].wf \notin deleted' PROVE Answered(s, mem, loop, j)
    <2>1. row[j].wf \notin deleted /\ s[j] = row[j]
      BY <1>2, <1>5, <1>6 DEF SameIntent
    <2>2. Answered(row, mem, loop, j)
      BY <1>3, <2>1 DEF Heard
    <2>3. Fenced(row, j) => Fenced(s, j)
      BY <1>5, FencedStays
    <2> QED BY <2>1, <2>2, <2>3 DEF Answered
  <1>7. \A u \in Workflows : Executes(s, loop, u)
    BY <1>3, <1>5 DEF Heard, Executes, SameIntent
  <1>8. ASSUME NEW u \in Workflows \ deleted' PROVE Holds(s, mem, lease', loop, u)
    <2> SUFFICES ASSUME loop[u].at = "executing" PROVE Holds(s, mem, lease', loop, u)
      BY DEF Holds
    <2>1. u # w /\ u \notin deleted /\ lease'[u] = lease[u]
      BY <1>2, <1>3
    <2>2. PICK j \in Ids : j = loop[u].intent /\ row[j].wf = u
      BY <1>3 DEF Heard, Executes
    <2>3. s[j] = row[j]
      BY <1>5, <2>1, <2>2
    <2>4. Holds(row, mem, lease, loop, u)
      BY <1>3, <2>1 DEF Heard
    <2> QED BY <2>1, <2>2, <2>3, <2>4 DEF Holds
  <1> QED BY <1>2, <1>4, <1>6, <1>7, <1>8 DEF Heard, HeardNext

LEMMA SettleHeard ==
    ASSUME HInv, NEW w \in Workflows, Settle(w)
    PROVE  HeardNext
  <1>0. /\ row \in Table /\ mem \in Memory /\ lease \in [Workflows -> Lease]
        /\ loop \in [Workflows -> Loop] /\ Heard(row, mem, deleted, lease, loop)
    BY HeardParts
  <1>1. PICK i \in Ids : i = loop[w].intent /\ row[i].wf = w
    BY <1>0 DEF Settle, Heard, Executes
  <1>2. PICK v \in {"completed", "failed"} : v = IF mem[i].race = "resolved" THEN "completed" ELSE "failed"
    OBVIOUS
  <1>3. PICK m : m = IF row[i].status = "running" /\ mem[i].race # "resolved" THEN Tell(mem[i]) ELSE mem[i]
    OBVIOUS
  <1>4. /\ loop[w].at = "executing" /\ mem[i].race # "open" /\ UNCHANGED deleted
        /\ row' = IF row[i].status = "running" THEN SetStatus(row, {i}, v) ELSE row
        /\ mem' = [mem EXCEPT ![i] =
                     [m EXCEPT !.race = "none", !.caller = IF @ = "waiting" THEN Answer(i) ELSE @]]
        /\ lease' = IF lease[w].holder = "me" THEN [lease EXCEPT ![w].active = 0] ELSE lease
        /\ loop' = [loop EXCEPT ![w] = [at |-> "between", intent |-> 0]]
    BY <1>1, <1>2, <1>3 DEF Settle, SettledRow
  <1>5. mem[i] \in Mem
    BY <1>0 DEF Memory
  <1>6. m \in Mem /\ m.dispatch = mem[i].dispatch /\ m.caller = mem[i].caller
    BY <1>3, <1>5 DEF Tell, Mem
  <1>7. PICK s, n, lp2 : s = row' /\ n = mem' /\ lp2 = loop'
    OBVIOUS
  <1>8. /\ n[i].race = "none" /\ n[i].dispatch = mem[i].dispatch
        /\ n[i].caller = IF mem[i].caller = "waiting" THEN Answer(i) ELSE mem[i].caller
        /\ \A j \in Ids \ {i} : n[j] = mem[j]
    <2>1. n[i] = [m EXCEPT !.race = "none", !.caller = IF @ = "waiting" THEN Answer(i) ELSE @]
      BY <1>0, <1>4, <1>7 DEF Memory
    <2>2. \A j \in Ids \ {i} : n[j] = mem[j]
      BY <1>0, <1>4, <1>7 DEF Memory
    <2> QED BY <1>6, <2>1, <2>2 DEF Mem
  <1>9. ASSUME NEW j \in Ids
        PROVE  /\ SameIntent(row[j], s[j])
               /\ j # i => s[j] = row[j]
               /\ j = i => s[j].status = IF row[i].status = "running" THEN v ELSE row[i].status
    <2>1. CASE row[i].status = "running" /\ j = i
      <3>1. s[j] = [row[j] EXCEPT !.status = v] /\ v \in Statuses /\ row[j] \in Row
        BY <1>0, <1>4, <1>7, <2>1 DEF SetStatus, Statuses, Table
      <3> QED BY <2>1, <3>1, RowWith DEF SameIntent
    <2>2. CASE ~(row[i].status = "running" /\ j = i)
      <3>1. s[j] = row[j]
        BY <1>4, <1>7, <2>2 DEF SetStatus
      <3> QED BY <2>2, <3>1 DEF SameIntent
    <2> QED BY <2>1, <2>2
  <1>10. \A u \in Workflows \ {w} : lp2[u] = loop[u]
    BY <1>0, <1>4, <1>7
  <1>11. lp2[w].at = "between"
    BY <1>0, <1>4, <1>7
  <1>12. \A u \in Workflows \ {w} : lease'[u] = lease[u]
    BY <1>0, <1>4
  \* What the caller of the intent hears.
  <1>13. ASSUME w \notin deleted PROVE Answered(s, n, lp2, i)
    <2>1. Answered(row, mem, loop, i) /\ Holds(row, mem, lease, loop, w)
      BY <1>0, <1>1, <1>13 DEF Heard
    <2>2. row[i].status \in {"running", "failed"}
      BY <1>1, <1>4, <2>1 DEF Holds
    <2>3. s[i].status = IF row[i].status = "running" THEN v ELSE row[i].status
      BY <1>9
    <2>4. Fenced(row, i) => Fenced(s, i)
      BY <1>9, FencedStays
    <2>5. n[i].dispatch = "running" => s[i].status = "failed"
      BY <1>4, <1>8, <2>1, <2>2, <2>3 DEF Answered
    <2>6. CASE mem[i].race = "resolved"
      <3>1. v = "completed" /\ Answer(i) = "resolved" /\ mem[i].dispatch = "resolved"
            /\ (row[i].status = "failed" => Fenced(s, i))
        BY <1>2, <2>1, <2>4, <2>6 DEF Answer, Answered
      <3>2. s[i].status = "completed" \/ (s[i].status = "failed" /\ Fenced(s, i))
        BY <2>2, <2>3, <3>1
      <3>3. n[i].caller = "rejected" => s[i].status = "failed"
        BY <1>8, <2>1, <2>2, <2>3, <3>1 DEF Answered
      <3> QED BY <1>8, <2>5, <3>1, <3>2, <3>3 DEF Answered
    <2>7. CASE mem[i].race # "resolved"
      <3>1. v = "failed" /\ Answer(i) = "rejected" /\ s[i].status = "failed"
        BY <1>2, <2>2, <2>3, <2>7 DEF Answer
      <3>2. n[i].caller = "resolved" => n[i].dispatch \in {"resolved", "none"} /\ Fenced(s, i)
        BY <1>8, <2>1, <2>2, <2>4, <3>1 DEF Answered
      <3> QED BY <1>8, <3>1, <3>2 DEF Answered
    <2> QED BY <2>6, <2>7
  <1>14. ASSUME NEW j \in Ids, s[j].wf \notin deleted PROVE Answered(s, n, lp2, j)
    <2>1. CASE j = i
      BY <1>1, <1>9, <1>13, <1>14, <2>1 DEF SameIntent
    <2>2. CASE j # i
      <3>1. s[j] = row[j] /\ n[j] = mem[j] /\ Answered(row, mem, loop, j)
        BY <1>0, <1>8, <1>9, <1>14, <2>2 DEF Heard
      <3>2. Fenced(row, j) => Fenced(s, j)
        BY <1>9, FencedStays
      <3>3. mem[j].race # "none" => row[j].wf \in Workflows \ {w}
        BY <1>1, <2>2, <3>1 DEF Answered
      <3>4. mem[j].race # "none" => lp2[row[j].wf] = loop[row[j].wf]
        BY <1>10, <3>3
      <3> QED BY <3>1, <3>2, <3>4 DEF Answered
    <2> QED BY <2>1, <2>2
  <1>15. ASSUME NEW u \in Workflows
         PROVE  Executes(s, lp2, u) /\ (u \notin deleted => Holds(s, n, lease', lp2, u))
    <2>1. CASE u = w
      BY <1>11, <2>1 DEF Executes, Holds
    <2>2. CASE u # w
      <3> SUFFICES ASSUME loop[u].at = "executing"
                   PROVE  Executes(s, lp2, u) /\ (u \notin deleted => Holds(s, n, lease', lp2, u))
        BY <1>10, <2>2 DEF Executes, Holds
      <3>1. PICK j \in Ids : j = loop[u].intent /\ row[j].wf = u
        BY <1>0 DEF Heard, Executes
      <3>2. j # i /\ s[j] = row[j] /\ n[j] = mem[j] /\ lp2[u] = loop[u] /\ lease'[u] = lease[u]
        BY <1>1, <1>8, <1>9, <1>10, <1>12, <2>2, <3>1
      <3>3. u \notin deleted => Holds(row, mem, lease, loop, u)
        BY <1>0 DEF Heard
      <3> QED BY <3>1, <3>2, <3>3 DEF Executes, Holds
    <2> QED BY <2>1, <2>2
  <1> QED BY <1>4, <1>7, <1>14, <1>15 DEF Heard, HeardNext

LEMMA DrainNextHeard ==
    ASSUME HInv, NEW w \in Workflows, DrainNext(w)
    PROVE  HeardNext
  <1>1. /\ row \in Table /\ mem \in Memory /\ Contiguous(row) /\ deleted \in SUBSET Workflows
        /\ lease \in [Workflows -> Lease] /\ loop \in [Workflows -> Loop]
        /\ OneAtATime(row, deleted, lease, loop) /\ Heard(row, mem, deleted, lease, loop)
    BY HeardParts
  <1>2. loop[w].at = "between" /\ UNCHANGED deleted
    BY DEF DrainNext
  <1>3. PICK ls2, lp2 : ls2 = lease' /\ lp2 = loop'
    OBVIOUS
  <1>4. CASE Of(row, w, "queued") # {}
    <2>1. PICK i : i = First(row, Of(row, w, "queued"))
      OBVIOUS
    <2>2. /\ Begin(row, mem, {i})
          /\ loop' = [loop EXCEPT ![w] = [at |-> "executing", intent |-> i]]
          /\ lease' = IF lease[w].holder = "me" THEN [lease EXCEPT ![w].active = i] ELSE lease
      BY <1>4, <2>1 DEF DrainNext
    <2>3. i \in Of(row, w, "queued")
      BY <1>1, <1>4, <2>1, FirstExists, OfIsOpen
    <2>4. i \in Ids /\ row[i].status = "queued" /\ row[i].wf = w
      BY <2>3 DEF Of
    <2>5. PICK S \in SUBSET Ids : S = {i}
      BY <2>4
    <2>6. PICK s, n : s = row' /\ n = mem'
      OBVIOUS
    <2>7. Begun(row, mem, s, n, S)
      <3>1. Heads(row, S) /\ Begin(row, mem, S)
        BY <2>1, <2>2, <2>4, <2>5 DEF Heads
      <3> QED BY <1>1, <2>6, <3>1, BeginBegins
    \* The lease names the intent, unless it went with a deleted workflow.
    <2>8. PICK ls3 : ls3 = [u \in Workflows |-> IF u = w THEN [active |-> i] ELSE ls2[u]]
      OBVIOUS
    <2>9. lp2[w] = [at |-> "executing", intent |-> i] /\ ls3[w].active = i
      BY <1>1, <1>3, <2>2, <2>8
    <2>10. \A u \in Workflows \ {w} : lp2[u] = loop[u] /\ ls2[u] = lease[u] /\ ls3[u] = ls2[u]
      BY <1>1, <1>3, <2>2, <2>8
    <2>11. \A j \in S : /\ row[j].status = "queued" /\ loop[row[j].wf].at # "executing"
                        /\ lp2[row[j].wf].at = "executing" /\ lp2[row[j].wf].intent = j
                        /\ ls3[row[j].wf].active = j
      BY <1>2, <2>4, <2>5, <2>9
    <2>12. \A u \in Workflows :
                \/ \E j \in S : row[j].wf = u
                \/ lp2[u].at # "executing" /\ loop[u].at # "executing"
                \/ lp2[u] = loop[u] /\ ls3[u].active = lease[u].active
      BY <2>4, <2>5, <2>10
    <2>13. Heard(s, n, deleted, ls3, lp2)
      BY <1>1, <2>7, <2>11, <2>12, BeginHeard
    <2>14. w \notin deleted => ls2[w].active = i
      <3> SUFFICES ASSUME w \notin deleted PROVE ls2[w].active = i
        OBVIOUS
      <3>1. lease[w].holder = "me" /\ lease[w] \in Lease
        BY <1>1, <1>2 DEF OneAtATime
      <3>2. ls2[w] = [lease[w] EXCEPT !.active = i]
        BY <1>1, <1>3, <2>2, <3>1
      <3> QED BY <3>1, <3>2 DEF Lease
    <2>15. Heard(s, n, deleted, ls2, lp2)
      BY <2>9, <2>10, <2>13, <2>14 DEF Heard, Holds
    <2> QED BY <1>2, <1>3, <2>6, <2>15 DEF HeardNext
  <1>5. CASE Of(row, w, "queued") = {}
    <2>1. /\ lease' = IF lease[w].holder = "me" THEN [lease EXCEPT ![w] = Free] ELSE lease
          /\ loop' = [loop EXCEPT ![w] = Idle] /\ row' = row /\ mem' = mem
      BY <1>5 DEF DrainNext
    <2>2. \A u \in Workflows \ {w} : lp2[u] = loop[u] /\ ls2[u] = lease[u]
      BY <1>1, <1>3, <2>1
    <2>3. lp2[w].at = "idle"
      BY <1>1, <1>3, <2>1 DEF Idle
    <2>4. ASSUME NEW j \in Ids, row[j].wf \notin deleted PROVE Answered(row, mem, lp2, j)
      <3>1. Answered(row, mem, loop, j)
        BY <1>1, <2>4 DEF Heard
      <3>2. mem[j].race # "none" => row[j].wf \in Workflows \ {w}
        BY <1>2, <3>1 DEF Answered
      <3>3. mem[j].race # "none" => lp2[row[j].wf] = loop[row[j].wf]
        BY <2>2, <3>2
      <3> QED BY <3>1, <3>3 DEF Answered
    <2>5. \A u \in Workflows : Executes(row, lp2, u)
      BY <1>1, <2>2, <2>3 DEF Heard, Executes
    <2>6. \A u \in Workflows \ deleted : Holds(row, mem, ls2, lp2, u)
      BY <1>1, <2>2, <2>3 DEF Heard, Holds
    <2> QED BY <1>2, <1>3, <2>1, <2>4, <2>5, <2>6 DEF Heard, HeardNext
  <1> QED BY <1>4, <1>5

LEMMA ExpiresHeard ==
    ASSUME HInv, NEW w \in Workflows, LeaseExpires(w)
    PROVE  HeardNext
  <1>1. /\ lease \in [Workflows -> Lease] /\ Heard(row, mem, deleted, lease, loop)
        /\ lease' = [lease EXCEPT ![w].expired = TRUE]
        /\ UNCHANGED <<row, mem, deleted, loop>>
    BY HeardParts DEF LeaseExpires
  <1>2. ASSUME NEW u \in Workflows PROVE lease'[u].active = lease[u].active
    <2>1. lease'[u] = [lease[u] EXCEPT !.expired = TRUE] \/ lease'[u] = lease[u]
      BY <1>1
    <2>2. lease[u] \in Lease
      BY <1>1
    <2> QED BY <2>1, <2>2 DEF Lease
  <1> QED BY <1>1, <1>2 DEF Heard, HeardNext, Holds

\* Nobody waits for an owner that is gone, and nothing of it is dispatched.
LEMMA RestartHeard ==
    ASSUME HInv, NEW orderly \in BOOLEAN, NEW quick \in BOOLEAN, Restart(orderly, quick)
    PROVE  HeardNext
  <1>1. PICK S \in SUBSET Ids : S = {i \in Ids : row[i].status = "running"}
    OBVIOUS
  <1>2. PICK v \in Statuses : v = "queued"
    BY DEF Statuses
  <1>3. /\ row' = IF orderly THEN SetStatus(row, S, v) ELSE row
        /\ mem' = [i \in Ids |-> Forgotten(mem[i])]
        /\ loop' = [w \in Workflows |-> Idle] /\ UNCHANGED deleted
    BY <1>1, <1>2 DEF Restart
  <1>4. row \in Table /\ mem \in Memory /\ Heard(row, mem, deleted, lease, loop)
    BY HeardParts
  <1>5. PICK s, n : s = row' /\ n = mem'
    OBVIOUS
  <1>6. ASSUME NEW j \in Ids
        PROVE  /\ SameIntent(row[j], s[j])
               /\ s[j].status = row[j].status \/ (row[j].status = "running" /\ s[j].status = "queued")
    <2>1. CASE orderly /\ j \in S
      <3>1. s[j] = [row[j] EXCEPT !.status = v] /\ row[j] \in Row
        BY <1>3, <1>4, <1>5, <2>1 DEF SetStatus, Table
      <3> QED BY <1>1, <1>2, <2>1, <3>1, RowWith DEF SameIntent
    <2>2. CASE ~(orderly /\ j \in S)
      <3>1. s[j] = row[j]
        BY <1>3, <1>5, <2>2 DEF SetStatus
      <3> QED BY <3>1 DEF SameIntent
    <2> QED BY <2>1, <2>2
  <1>7. ASSUME NEW j \in Ids, s[j].wf \notin deleted PROVE Answered(s, n, loop', j)
    <2>1. Answered(row, mem, loop, j)
      BY <1>4, <1>6, <1>7 DEF Heard, SameIntent
    <2>2. n[j].dispatch = "none" /\ n[j].race = "none" /\ n[j].caller \in {mem[j].caller, "lost"}
      <3>1. n[j] = Forgotten(mem[j]) /\ mem[j] \in Mem
        BY <1>3, <1>4, <1>5 DEF Memory
      <3> QED BY <3>1, MemParts
    <2>3. Fenced(row, j) => Fenced(s, j)
      BY <1>6, FencedStays
    <2>4. n[j].caller = "rejected" => s[j].status = "failed"
      BY <1>6, <2>1, <2>2 DEF Answered
    <2>5. n[j].caller = "resolved" => s[j].status = "completed" \/ (s[j].status = "failed" /\ Fenced(s, j))
      BY <1>6, <2>1, <2>2, <2>3 DEF Answered
    <2> QED BY <2>2, <2>4, <2>5 DEF Answered
  <1>8. \A u \in Workflows : loop'[u].at = "idle"
    BY <1>3 DEF Idle
  <1> QED BY <1>3, <1>5, <1>7, <1>8 DEF Heard, HeardNext, Executes, Holds

LEMMA RecoverHeard ==
    ASSUME HInv, Recover
    PROVE  HeardNext
  <1>1. PICK ls : ls = [w \in Workflows |-> IF lease[w].expired THEN Free ELSE lease[w]]
    OBVIOUS
  <1>2. PICK S \in SUBSET Ids : S = Orphaned(row, ls)
    BY DEF Orphaned
  <1>3. PICK v \in {"queued", "running", "completed"} : v = "queued"
    OBVIOUS
  <1>4. PICK r : r = SetStatus(row, S, v)
    OBVIOUS
  <1>5. PICK ps \in SUBSET Workflows :
          ps = pending \cup {w \in Workflows : Of(r, w, "queued") # {}}
    BY HeardParts
  <1>6. ProcessDrains(r, mem, ls, ps, kick) /\ UNCHANGED deleted
    BY <1>1, <1>2, <1>3, <1>4, <1>5 DEF Recover
  <1>7. /\ row \in Table /\ mem \in Memory /\ Contiguous(row) /\ Announced(row, mem)
        /\ deleted \in SUBSET Workflows /\ lease \in [Workflows -> Lease]
        /\ OneAtATime(row, deleted, lease, loop) /\ Heard(row, mem, deleted, lease, loop)
    BY HeardParts
  <1>8. r \in Table /\ Contiguous(r)
    <2>1. \A i \in S : row[i].status = "running"
      BY <1>2 DEF Orphaned
    <2>2. Announced(r, mem)
      BY <1>4, <1>7, <2>1, RequeueAnnounced
    <2> QED BY <2>2 DEF Announced
  <1>9. ASSUME NEW u \in Workflows \ deleted, loop[u].at = "executing" PROVE ls[u] = lease[u]
    <2>1. lease[u].holder = "me" /\ ~lease[u].expired
      BY <1>7, <1>9 DEF OneAtATime
    <2> QED BY <1>1, <2>1
  <1>10. ASSUME NEW j \in Ids
         PROVE  /\ SameIntent(row[j], r[j])
                /\ row[j].wf \notin deleted =>
                      \/ r[j].status = row[j].status
                      \/ /\ row[j].status = "running" /\ r[j].status = "queued"
                         /\ loop[row[j].wf].at # "executing"
    <2>1. CASE j \in S
      <3>1. r[j] = [row[j] EXCEPT !.status = v] /\ row[j] \in Row /\ v \in Statuses
        BY <1>3, <1>4, <1>7, <2>1 DEF SetStatus, Table, Statuses
      <3>2. SameIntent(row[j], r[j]) /\ r[j].status = "queued"
        BY <1>3, <3>1, RowWith DEF SameIntent
      <3>3. row[j].status = "running" /\ ls[row[j].wf].active # j
        BY <1>2, <2>1 DEF Orphaned
      <3>4. ASSUME row[j].wf \notin deleted, loop[row[j].wf].at = "executing" PROVE FALSE
        <4>1. PICK u \in Workflows \ deleted : u = row[j].wf
          BY <1>7, <3>3, <3>4 DEF Contiguous
        <4>2. loop[u].intent = j
          BY <1>7, <3>3, <3>4, <4>1 DEF OneAtATime
        <4>3. Holds(row, mem, lease, loop, u)
          BY <1>7 DEF Heard
        <4>4. ls[u].active = j
          BY <1>9, <3>4, <4>1, <4>2, <4>3 DEF Holds
        <4> QED BY <3>3, <4>1, <4>4
      <3> QED BY <3>2, <3>3, <3>4
    <2>2. CASE j \notin S
      <3>1. r[j] = row[j]
        BY <1>4, <2>2 DEF SetStatus
      <3> QED BY <3>1 DEF SameIntent
    <2> QED BY <2>1, <2>2
  <1>11. Heard(r, mem, deleted, ls, loop)
    <2>1. \A u \in Workflows \ deleted : loop[u].at = "executing" => ls[u].active = lease[u].active
      BY <1>9
    <2> QED BY <1>7, <1>10, <2>1, RequeueHeard
  <1>12. Heard(row', mem', deleted, lease', loop')
    BY <1>6, <1>7, <1>8, <1>11, DrainsHeard
  <1> QED BY <1>6, <1>12 DEF HeardNext

LEMMA NextHeard == ASSUME HInv, Next PROVE HeardNext
  <1>1. CASE \E w \in Workflows, k \in Kinds, p \in Priorities : Enqueue(w, k, p = "high")
    <2>1. PICK w \in Workflows, k \in Kinds, p \in Priorities : Enqueue(w, k, p = "high")
      BY <1>1
    <2>2. PICK h \in BOOLEAN : h = (p = "high")
      OBVIOUS
    <2>3. k \in AllKinds /\ Enqueue(w, k, h)
      BY <2>1, <2>2, QueueSetsAssumption
    <2> QED BY <2>3, EnqueueHeard
  <1>2. CASE \E w \in Workflows, k \in Kinds, p \in Priorities, globally, deferred \in BOOLEAN :
               Submit(w, k, p = "high", globally, deferred)
    <2>1. PICK w \in Workflows, k \in Kinds, p \in Priorities,
               globally \in BOOLEAN, deferred \in BOOLEAN :
                 Submit(w, k, p = "high", globally, deferred)
      BY <1>2
    <2>2. PICK h \in BOOLEAN : h = (p = "high")
      OBVIOUS
    <2>3. k \in AllKinds /\ Submit(w, k, h, globally, deferred)
      BY <2>1, <2>2, QueueSetsAssumption
    <2> QED BY <2>3, SubmitHeard
  <1>3. CASE TimerFires \/ DrainEnded
    BY <1>3, TimersHeard
  <1>4. CASE \E i \in Ids : DispatchResolves(i) \/ DispatchRejects(i) \/ DeletesWorkflow(i)
    BY <1>4, ResolvesHeard, RejectsHeard, DeletesHeard
  <1>5. CASE \E w \in Workflows : Settle(w) \/ DrainNext(w) \/ LeaseExpires(w)
    BY <1>5, SettleHeard, DrainNextHeard, ExpiresHeard
  <1>6. CASE \E orderly, quick \in BOOLEAN : Restart(orderly, quick)
    BY <1>6, RestartHeard
  <1>7. CASE Recover
    BY <1>7, RecoverHeard
  <1> QED BY <1>1, <1>2, <1>3, <1>4, <1>5, <1>6, <1>7 DEF Next

LEMMA InitHeard == ASSUME Init PROVE HInv
  <1>1. \A i \in Ids : mem[i] = Unknown
    BY DEF Init
  <1>2. \A w \in Workflows : loop[w] = Idle
    BY DEF Init
  <1>3. Heard(row, mem, deleted, lease, loop)
    BY <1>1, <1>2 DEF Heard, Answered, Executes, Holds, Unknown, Idle
  <1> QED BY <1>3, InitIsSerial DEF HInv

\* Who dispatches, who waits and what is recorded agree: inductive with the
\* invariant under the refinement.
THEOREM QueueHeard == Spec => []HInv
  <1>1. HInv /\ [Next]_vars => HInv'
    <2> SUFFICES ASSUME HInv, [Next]_vars PROVE HInv'
      OBVIOUS
    <2>1. RInv'
      BY StepsAreSerial DEF HInv
    <2>2. CASE Next
      BY <2>1, <2>2, NextHeard DEF HInv, HeardNext
    <2>3. CASE UNCHANGED vars
      BY <2>1, <2>3 DEF HInv, vars
    <2> QED BY <2>2, <2>3
  <1>2. Init => HInv
    BY InitHeard
  <1> QED BY <1>1, <1>2, PTL DEF Spec

\* Two dispatches of a workflow overlap only when a hard fence took the
\* intent of one of them.
THEOREM QueueOverlapIsSuperseded == Spec => []OverlapIsSuperseded
  <1>1. HInv => OverlapIsSuperseded
    <2> SUFFICES ASSUME HInv, NEW i \in Ids, NEW j \in Older(i),
                        mem[i].dispatch = "running", mem[j].dispatch = "running",
                        row[i].wf \notin deleted,
                        row[i].status # "failed", row[j].status # "failed"
                 PROVE  FALSE
      BY DEF OverlapIsSuperseded
    <2>1. j \in Ids /\ j < i /\ row[j].wf = row[i].wf
      BY DEF Older
    <2>2. Answered(row, mem, loop, i) /\ Answered(row, mem, loop, j)
      BY <2>1, HeardParts DEF Heard
    <2>3. loop[row[i].wf].intent = i /\ loop[row[i].wf].intent = j
      BY <2>1, <2>2 DEF Answered
    <2> QED BY <2>1, <2>3, QueueBoundsAssumption DEF Ids
  <1> QED BY <1>1, QueueHeard, PTL

\* A caller told of a failure has a failed intent, and one told of success a
\* complete one, or one that a hard fence took after its dispatch succeeded.
THEOREM QueueCallerHearsTheRecord == Spec => []CallerHearsTheRecord
  <1>1. HInv => CallerHearsTheRecord
    <2> SUFFICES ASSUME HInv, NEW i \in Ids, row[i].wf \notin deleted
                 PROVE  /\ mem[i].caller = "rejected" => row[i].status = "failed"
                        /\ mem[i].caller = "resolved" =>
                              \/ row[i].status = "completed"
                              \/ row[i].status = "failed" /\ mem[i].dispatch \in {"resolved", "none"}
                                 /\ \E f \in Ids : i \in Older(f) /\ row[f].kind \in HardFences
      BY DEF CallerHearsTheRecord
    <2>1. Answered(row, mem, loop, i)
      BY HeardParts DEF Heard
    <2>2. Fenced(row, i) => \E f \in Ids : i \in Older(f) /\ row[f].kind \in HardFences
      BY DEF Fenced, Older
    <2> QED BY <2>1, <2>2 DEF Answered
  <1> QED BY <1>1, QueueHeard, PTL

=============================================================================
