--------------------------- MODULE TaskFeedProofs ---------------------------
(***************************************************************************)
(* Neither cache nor screen ever shows a mixture of two versions of a      *)
(* task, the owner's window never gives up, and what its watermark counts  *)
(* is on its screen.                                                       *)
(*                                                                         *)
(* The renderer is right because of what is still on its way to it: the    *)
(* stream is a history of the rows (`Telling`), every event that waits     *)
(* somewhere says what the stream says or is a snapshot of a moment of it  *)
(* (`Sound`), they wait in order (`Queued`), and the map can be followed   *)
(* by what comes next (`Screen`, from `Good` and `Follows`).  `World` is   *)
(* what the main process knows as one value, so that the lemmas speak of   *)
(* two worlds, the one before a step and the one after it.                 *)
(***************************************************************************)
EXTENDS TaskFeed, WellFoundedInduction, SequenceTheorems, FiniteSetTheorems, TLAPS

-----------------------------------------------------------------------------
(* Types.                                                                  *)

Copies == [v : Nat, val : [Fields -> Nat]]
Deltas == [type : {"created"}, task : Tasks, v : Nat, row : Copies]
          \cup [type : {"updated"}, task : Tasks, v : Nat, field : Fields]
          \cup [type : {"removed"}, task : Tasks, v : Nat]
Snapshots == [type : {"snapshot"}, rows : [Tasks -> Copies], seq : Nat]
Events == [type : {"delta"}, delta : Deltas, seq : Nat \ {0}] \cup Snapshots
Replied == [type : {"reply"}, rows : [Tasks -> Copies]]
Screens == [phase : {"loading", "live"}, map : [Tasks -> Copies], mark : Nat, busy : BOOLEAN,
            resync : BOOLEAN, failures : Nat, target : Nat, pipe : Seq(Events), gaveUp : BOOLEAN]

FeedTypes ==
    /\ mode \in [viewer : BOOLEAN, overtaking : BOOLEAN, losses : Nat, reloads : Nat, refreshes : Nat]
    /\ log \in [Tasks -> Seq(Fields)] /\ gone \subseteq Tasks
    /\ wire \in Seq(Deltas \cup Replied) /\ linked \in BOOLEAN
    /\ cache \in [Tasks -> Copies] /\ stream \in Seq(Deltas)
    /\ pending \in Seq(Events) /\ ipc \in Seq(Seq(Events)) /\ drain \in Seq(Events)
    /\ ui \in Screens /\ asked \in Nat /\ shown \in BOOLEAN
    /\ used \in [losses : Nat, reloads : Nat, refreshes : Nat, cut : Nat]

-----------------------------------------------------------------------------
(* The invariant of the main process.                                      *)

\* A delta says what was written to its row.
Says(d, writes) ==
    /\ d.v \in Nat
    /\ \/ d.v \in 1 .. Len(writes) /\ d = Created(d.task, Version(writes, d.v))
       \/ d.v \in 2 .. Len(writes) /\ d = Updated(d.task, d.v, writes[d.v])
       \/ d = Removed(d.task, d.v)
Honest(d) == d.task \in Tasks /\ Says(d, log[d.task])

\* Copies of the tasks as they were at the versions they are labelled with.
WholesOf(m, lg) == \A t \in Tasks : m[t].v \in 0 .. Len(lg[t]) /\ m[t] = Version(lg[t], m[t].v)
Wholes(m) == WholesOf(m, log)

Heard ==
    /\ Wholes(cache)
    /\ \A i \in DOMAIN wire : wire[i].type # "reply" => Honest(wire[i])

-----------------------------------------------------------------------------
(* The invariant of the owner's window.                                    *)

\* What the main process knows, as one value.
World == [log |-> log, gone |-> gone, stream |-> stream, cache |-> cache]
Worlds == [log : [Tasks -> Seq(Fields)], gone : SUBSET Tasks, stream : Seq(Deltas), cache : [Tasks -> Copies]]

\* A copy of t with version v, taken when the stream of the world w stood at n,
\* can be merged with what the stream says of t next, and with what it will say.
Follows(w, t, n, v) ==
    /\ v \in 0 .. Len(w.log[t])
    /\ \A j \in n + 1 .. Len(w.stream) :
          w.stream[j].task = t /\ w.stream[j].type = "updated" /\ (\A i \in n + 1 .. j - 1 : w.stream[i].task # t) =>
              w.stream[j].v = v + 1
    /\ (\A i \in n + 1 .. Len(w.stream) : w.stream[i].task # t) => w.cache[t].v <= v

Void(w, m, t) == m[t].v = 0 /\ t \in w.gone

\* A map that is right when the stream stands at n: its copies are whole, can
\* be followed by the rest of the stream, and have what the stream told.
Good(w, m, n) ==
    /\ WholesOf(m, w.log)
    /\ \A t \in Tasks : Void(w, m, t) \/ Follows(w, t, n, m[t].v)
    /\ \A i \in 1 .. n :
          \/ Void(w, m, w.stream[i].task)
          \/ w.stream[i].type # "removed" /\ w.stream[i].v <= m[w.stream[i].task].v

\* The stream is a history of the rows.
Told(w, j) ==
    LET d == w.stream[j]
    IN  /\ d.task \in Tasks /\ Says(d, w.log[d.task])
        /\ d.type = "removed" => d.task \in w.gone
        /\ d.type # "removed" =>
              /\ Follows(w, d.task, j, d.v)
              /\ \A i \in 1 .. j - 1 : w.stream[i].task = d.task =>
                    w.stream[i].type # "removed" /\ w.stream[i].v <= d.v
Telling(w) == \A j \in 1 .. Len(w.stream) : Told(w, j)

\* An event on its way: a delta under its number, or a right snapshot.
Sound(w, e) ==
    \/ e.type = "delta" /\ e.seq \in 1 .. Len(w.stream) /\ e.delta = w.stream[e.seq]
    \/ e.type = "snapshot" /\ e.seq \in 0 .. Len(w.stream) /\ Good(w, e.rows, e.seq)

\* A snapshot is not older than what went before it, a delta is newer.
Under(m, s) == \A t \in Tasks : s.rows[t].v > 0 => m[t].v <= s.rows[t].v
Precedes(x, y) ==
    IF y.type = "delta" THEN x.seq < y.seq
    ELSE /\ x.seq <= y.seq
         /\ IF x.type = "snapshot" THEN Under(x.rows, y)
            ELSE y.rows[x.delta.task].v > 0 => x.delta.v <= y.rows[x.delta.task].v

EventsOf(q) == {q[i] : i \in DOMAIN q}
BatchesOf(b) == UNION {EventsOf(b[i]) : i \in DOMAIN b}
WaitingIn(d, b, p) == EventsOf(d) \cup BatchesOf(b) \cup EventsOf(p)
Sorted(q) == \A i, j \in DOMAIN q : i < j => Precedes(q[i], q[j])
Before(S, T) == \A x \in S, y \in T : Precedes(x, y)

\* The events set aside, sent and pending are in order.
Queued(d, b, p) ==
    /\ Sorted(d) /\ Sorted(p) /\ \A i \in DOMAIN b : Sorted(b[i])
    /\ Before(EventsOf(d), BatchesOf(b)) /\ Before(EventsOf(d), EventsOf(p))
    /\ Before(BatchesOf(b), EventsOf(p))
    /\ \A i, j \in DOMAIN b : i < j => Before(EventsOf(b[i]), EventsOf(b[j]))

\* The events of the pipe are consecutive but for snapshots; the map stands
\* where the first of them begins, the watermark where the last one ends.
Piped(w, u) ==
    LET p == u.pipe
    IN  /\ \A i \in DOMAIN p : Sound(w, p[i])
        /\ \A i \in DOMAIN p : p[i].type = "delta" =>
              /\ ~u.resync
              /\ i > 1 => p[i].seq = p[i - 1].seq + 1
              /\ i = 1 => Good(w, u.map, p[i].seq - 1)
              /\ i = Len(p) => u.mark = p[i].seq
        /\ p # <<>> /\ p[Len(p)].type = "snapshot" => u.mark <= p[Len(p)].seq
        /\ p = <<>> /\ ~u.resync => Good(w, u.map, u.mark)

\* A snapshot that the renderer can take.
Fits(u, y) == y.type = "snapshot" => Under(u.map, y) /\ (u.resync => u.target <= y.seq)

\* The renderer, with the events S still on their way to it.
Screen(w, u, S) ==
    /\ WholesOf(u.map, w.log) /\ Piped(w, u)
    /\ u.mark <= Len(w.stream) /\ u.target <= Len(w.stream)
    /\ ~u.gaveUp /\ (u.failures # 0 => u.failures = 1 /\ u.resync)
    /\ Before(EventsOf(u.pipe), S)
    /\ \A y \in S : Fits(u, y) /\ (y.type = "snapshot" => u.mark <= y.seq)
    /\ \A y \in EventsOf(u.pipe) : Fits(u, y)

Waiting == WaitingIn(drain, ipc, pending)
Shows ==
    /\ wire = <<>>
    /\ Telling(World) /\ Queued(drain, ipc, pending)
    /\ \A e \in Waiting : Sound(World, e)
    /\ Screen(World, ui, Waiting)

FInv == FeedTypes /\ Heard /\ (Owner => Shows)

-----------------------------------------------------------------------------
(* Numbers: a set of natural numbers has a least element, which takes the  *)
(* place of induction; a bounded one has a greatest.                       *)

LEMMA LeastNumber ==
    ASSUME NEW S \in SUBSET Nat, S # {}
    PROVE  \E n \in S : \A m \in S : n <= m
<1>1. PICK n \in S : \A m \in S : ~ (<<m, n>> \in OpToRel(<, Nat))
  <2> HIDE DEF OpToRel
  <2> QED
    BY NatLessThanWellFounded, WFMin
<1>2. \A m \in S : ~(m < n)
  BY <1>1 DEF OpToRel
<1> QED
  BY <1>2

\* What holds of 0 and is handed on from one number to the next holds of all.
LEMMA Numbers ==
    ASSUME NEW S, 0 \in S, NEW N \in Nat, \A n \in 1 .. N : n - 1 \in S => n \in S
    PROVE  0 .. N \subseteq S
<1> DEFINE Bad == {n \in 0 .. N : n \notin S}
<1>1. ASSUME Bad # {} PROVE FALSE
  <2>1. Bad \in SUBSET Nat
    OBVIOUS
  <2>2. PICK n \in Bad : \A m \in Bad : n <= m
    <3> HIDE DEF Bad
    <3> QED
      BY <1>1, <2>1, LeastNumber
  <2>3. n \in 1 .. N /\ n - 1 \in 0 .. N /\ n - 1 \notin Bad
    BY <2>2
  <2> QED
    BY <2>2, <2>3
<1> QED
  BY <1>1

\* The greatest of a set of numbers up to b.
LEMMA MaxIs ==
    ASSUME NEW b \in Nat, NEW S \in SUBSET (0 .. b), S # {}
    PROVE  Max(S) \in S /\ \A n \in S : n <= Max(S)
<1> DEFINE T == {k \in Nat : b - k \in S}
<1>1. PICK n \in S : TRUE
  OBVIOUS
<1>2. b - n \in T
  <2>1. n \in 0 .. b /\ b - (b - n) = n
    OBVIOUS
  <2> QED
    BY <2>1
<1>3. PICK k \in T : \A l \in T : k <= l
  <2> HIDE DEF T
  <2>1. T \in SUBSET Nat
    BY DEF T
  <2> QED
    BY <1>2, <2>1, LeastNumber
<1>4. \A m \in S : m <= b - k
  <2> TAKE m \in S
  <2>1. m \in 0 .. b /\ b - (b - m) = m
    OBVIOUS
  <2>2. b - m \in T
    BY <2>1
  <2>3. k <= b - m /\ k \in Nat
    BY <1>3, <2>2
  <2> QED
    BY <2>1, <2>3
<1>5. \E x \in S : \A y \in S : x >= y
  <2>1. b - k \in S
    BY <1>3
  <2>2. \A y \in S : y \in Nat /\ b - k \in Nat
    BY <2>1
  <2> QED
    BY <1>4, <2>1, <2>2
<1>6. Max(S) \in S /\ \A y \in S : Max(S) >= y
  BY <1>5 DEF Max
<1> QED
  BY <1>6

-----------------------------------------------------------------------------
(* Rows: what a copy at a version is, and what an update makes of it.      *)

LEMMA LastWriteIs ==
    ASSUME NEW w, NEW v \in Nat \ {0}, NEW f
    PROVE  /\ LastWrite(w, v, f) \in 1 .. v
           /\ LastWrite(w, v, f) = 1 \/ w[LastWrite(w, v, f)] = f
           /\ \A i \in 2 .. v : w[i] = f => i <= LastWrite(w, v, f)
<1> DEFINE S == {1} \cup {i \in 2 .. v : w[i] = f}
<1>1. S \in SUBSET (0 .. v) /\ 1 \in S
  OBVIOUS
<1>2. Max(S) \in S /\ \A n \in S : n <= Max(S)
  <2> HIDE DEF S
  <2> QED
    BY <1>1, MaxIs
<1>3. LastWrite(w, v, f) = Max(S)
  BY DEF LastWrite
<1> HIDE DEF S
<1>4. \A i \in 2 .. v : w[i] = f => i \in S
  BY DEF S
<1>5. Max(S) \in 1 .. v /\ (Max(S) = 1 \/ w[Max(S)] = f)
  BY <1>2 DEF S
<1> QED
  BY <1>2, <1>3, <1>4, <1>5

LEMMA LastWriteNext ==
    ASSUME NEW w, NEW v \in Nat \ {0, 1}, NEW f
    PROVE  LastWrite(w, v, f) = IF w[v] = f THEN v ELSE LastWrite(w, v - 1, f)
<1> DEFINE k == LastWrite(w, v, f)
           l == LastWrite(w, v - 1, f)
<1>1. /\ k \in 1 .. v
      /\ k = 1 \/ w[k] = f
      /\ \A i \in 2 .. v : w[i] = f => i <= k
  BY LastWriteIs
<1>2. /\ l \in 1 .. v - 1
      /\ l = 1 \/ w[l] = f
      /\ \A i \in 2 .. v - 1 : w[i] = f => i <= l
  BY LastWriteIs
<1> HIDE DEF k, l
<1>3. CASE w[v] = f
  <2>1. v \in 2 .. v
    OBVIOUS
  <2> QED
    BY <1>1, <1>3, <2>1 DEF k
<1>4. CASE w[v] # f
  <2>1. k \in 1 .. v - 1
    BY <1>1, <1>4
  <2>2. k <= l
    BY <1>1, <1>2, <2>1
  <2>3. l <= k
    BY <1>1, <1>2
  <2> QED
    BY <1>1, <1>2, <1>4, <2>2, <2>3 DEF k, l
<1> QED
  BY <1>3, <1>4

LEMMA VersionType ==
    ASSUME NEW w, NEW v \in Nat
    PROVE  Version(w, v) \in Copies /\ Version(w, v).v = v
<1>1. CASE v = 0
  BY <1>1 DEF Version, Absent, Copies
<1>2. CASE v # 0
  <2>1. \A f : LastWrite(w, v, f) \in Nat
    BY <1>2, LastWriteIs
  <2> QED
    BY <1>2, <2>1 DEF Version, Copies
<1> QED
  BY <1>1, <1>2

\* An update merged into the version before it makes its version.
LEMMA VersionNext ==
    ASSUME NEW w, NEW t, NEW v \in Nat \ {0, 1}, w[v] \in Fields
    PROVE  Merge(Version(w, v - 1), Updated(t, v, w[v])) = Version(w, v)
<1> DEFINE g == w[v]
           old == [f \in Fields |-> LastWrite(w, v - 1, f)]
           new == [f \in Fields |-> LastWrite(w, v, f)]
<1>1. Version(w, v - 1) = [v |-> v - 1, val |-> old] /\ Version(w, v) = [v |-> v, val |-> new]
  BY DEF Version
<1>2. \A f \in Fields : new[f] = IF g = f THEN v ELSE old[f]
  BY LastWriteNext
<1>3. [old EXCEPT ![g] = v] = [f \in Fields |-> IF g = f THEN v ELSE old[f]]
  OBVIOUS
<1>4. new = [f \in Fields |-> IF g = f THEN v ELSE old[f]]
  <2>1. new = [f \in Fields |-> new[f]]
    OBVIOUS
  <2> HIDE DEF new, old
  <2> QED
    BY <1>2, <2>1
<1>5. Merge(Version(w, v - 1), Updated(t, v, g)) = [v |-> v, val |-> [Version(w, v - 1).val EXCEPT ![g] = v]]
  BY DEF Merge, Updated
<1>6. Version(w, v - 1).val = old
  BY <1>1
<1> QED
  BY <1>1, <1>3, <1>4, <1>5, <1>6

\* A version stands, whatever is written afterwards.
LEMMA VersionStays ==
    ASSUME NEW w, NEW x, NEW v \in Nat, \A i \in 1 .. v : x[i] = w[i]
    PROVE  Version(x, v) = Version(w, v)
<1>1. \A f : {i \in 2 .. v : x[i] = f} = {i \in 2 .. v : w[i] = f}
  OBVIOUS
<1>2. \A f : LastWrite(x, v, f) = LastWrite(w, v, f)
  BY <1>1 DEF LastWrite
<1> QED
  BY <1>2 DEF Version, Absent

LEMMA AtType ==
    ASSUME NEW t \in Tasks, NEW v \in Nat
    PROVE  At(t, v) \in Copies /\ At(t, v).v = v
BY VersionType DEF At

-----------------------------------------------------------------------------
(* What the operators of the renderer and of the main process return.      *)

LEMMA DeltaIs ==
    ASSUME NEW d \in Deltas
    PROVE  /\ d.task \in Tasks /\ d.v \in Nat /\ d.type \in {"created", "updated", "removed"}
           /\ d.type = "created" => d.row \in Copies
           /\ d.type = "updated" => d.field \in Fields
BY DEF Deltas

LEMMA EventIs ==
    ASSUME NEW e \in Events
    PROVE  /\ e.type \in {"delta", "snapshot"} /\ e.seq \in Nat
           /\ e.type = "delta" => e.delta \in Deltas /\ e.seq \in Nat \ {0}
           /\ e.type = "snapshot" => e.rows \in [Tasks -> Copies]
BY DEF Events, Snapshots

LEMMA RowType ==
    ASSUME log \in [Tasks -> Seq(Fields)]
    PROVE  AllRows \in [Tasks -> Copies] /\ \A t \in Tasks : RowOf(t) \in Copies
<1>1. \A t \in Tasks : RowOf(t) \in Copies
  BY AtType DEF RowOf, At, Absent, Copies
<1> QED
  BY <1>1 DEF AllRows

LEMMA MergeType ==
    ASSUME NEW copy \in Copies, NEW d \in Deltas
    PROVE  Merge(copy, d) \in Copies
<1>1. CASE d.type = "created"
  BY <1>1, DeltaIs DEF Merge
<1>2. CASE d.type = "removed"
  BY <1>2 DEF Merge, Absent, Copies
<1>3. CASE d.type = "updated"
  BY <1>3, DeltaIs DEF Merge, Copies
<1> QED
  BY <1>1, <1>2, <1>3, DeltaIs

LEMMA ApplyToType ==
    ASSUME NEW map \in [Tasks -> Copies], NEW d \in Deltas
    PROVE  ApplyTo(map, d) \in [Tasks -> Copies]
BY MergeType, DeltaIs DEF ApplyTo

\* The maps along a sequence of events.
StageOf(map, events, maps, i) == IF i = 0 THEN map ELSE ApplyTo(maps[i - 1], events[i].delta)

LEMMA AppliedStages ==
    ASSUME NEW map, NEW events, Len(events) \in Nat
    PROVE  /\ Applied(map, events)[0] = map
           /\ \A i \in 1 .. Len(events) :
                 Applied(map, events)[i] = ApplyTo(Applied(map, events)[i - 1], events[i].delta)
<1> DEFINE N == Len(events)
           Is(f, n) == f = [i \in 0 .. n |-> StageOf(map, events, f, i)]
           T == {n \in Nat : \E f : Is(f, n)}
<1>1. 0 \in T
  <2>1. Is([i \in 0 .. 0 |-> map], 0)
    BY DEF StageOf
  <2> QED
    BY <2>1
<1>2. ASSUME NEW n \in Nat \ {0}, n - 1 \in T PROVE n \in T
  <2>1. PICK f : Is(f, n - 1)
    BY <1>2
  <2> DEFINE g == [i \in 0 .. n |-> IF i = n THEN ApplyTo(f[n - 1], events[n].delta) ELSE f[i]]
  <2>2. ASSUME NEW i \in 0 .. n PROVE g[i] = StageOf(map, events, g, i)
    <3>1. CASE i = n
      BY <3>1 DEF StageOf
    <3>2. CASE i # n
      <4>1. i \in 0 .. n - 1 /\ g[i] = f[i]
        BY <3>2
      <4>2. f[i] = StageOf(map, events, f, i)
        BY <2>1, <4>1
      <4>3. i # 0 => g[i - 1] = f[i - 1]
        BY <4>1
      <4> QED
        BY <4>1, <4>2, <4>3 DEF StageOf
    <3> QED
      BY <3>1, <3>2
  <2>3. g = [i \in 0 .. n |-> g[i]]
    OBVIOUS
  <2>4. Is(g, n)
    <3> HIDE DEF g
    <3> QED
      BY <2>2, <2>3
  <2> HIDE DEF g, Is
  <2>5. \E h : Is(h, n)
    BY <2>4
  <2> QED
    BY <2>5
<1>3. N \in T
  <2>1. 0 .. N \subseteq T
    <3> HIDE DEF T
    <3> QED
      BY <1>1, <1>2, Numbers
  <2> QED
    BY <2>1
<1>4. Applied(map, events) = CHOOSE f : Is(f, N)
  BY DEF Applied, StageOf
<1>5. Is(Applied(map, events), N)
  BY <1>3, <1>4
<1>6. \A i \in 0 .. N : Applied(map, events)[i] = StageOf(map, events, Applied(map, events), i)
  <2> DEFINE c == Applied(map, events)
  <2>1. c = [i \in 0 .. N |-> StageOf(map, events, c, i)]
    BY <1>5
  <2> HIDE DEF c
  <2>2. \A i \in 0 .. N : c[i] = StageOf(map, events, c, i)
    BY <2>1
  <2> QED
    BY <2>2 DEF c
<1> QED
  BY <1>6 DEF StageOf

LEMMA AppliedType ==
    ASSUME NEW map \in [Tasks -> Copies], NEW events \in Seq(Events),
           \A i \in 1 .. Len(events) : events[i].type = "delta"
    PROVE  \A i \in 0 .. Len(events) : Applied(map, events)[i] \in [Tasks -> Copies]
<1> DEFINE c == Applied(map, events)
           T == {i \in 0 .. Len(events) : c[i] \in [Tasks -> Copies]}
<1>1. Len(events) \in Nat
  OBVIOUS
<1>2. c[0] = map /\ \A i \in 1 .. Len(events) : c[i] = ApplyTo(c[i - 1], events[i].delta)
  BY <1>1, AppliedStages
<1> HIDE DEF c
<1>3. 0 \in T
  BY <1>1, <1>2
<1>4. ASSUME NEW i \in 1 .. Len(events), i - 1 \in T PROVE i \in T
  <2>1. events[i] \in Events
    OBVIOUS
  <2>2. events[i].delta \in Deltas
    BY <2>1, EventIs
  <2>3. c[i] \in [Tasks -> Copies]
    BY <1>2, <1>4, <2>2, ApplyToType
  <2> QED
    BY <2>3
<1>5. 0 .. Len(events) \subseteq T
  <2> HIDE DEF T
  <2> QED
    BY <1>1, <1>3, <1>4, Numbers
<1> QED
  BY <1>5 DEF c

\* The place of the last snapshot of a batch.
Cut(p) == IF SnapshotsIn(p) = {} THEN 0 ELSE Max(SnapshotsIn(p))

LEMMA CutIs ==
    ASSUME NEW p \in Seq(Events)
    PROVE  /\ Cut(p) \in 0 .. Len(p)
           /\ Cut(p) # 0 => p[Cut(p)].type = "snapshot"
           /\ \A i \in Cut(p) + 1 .. Len(p) : p[i].type = "delta"
<1>1. Len(p) \in Nat /\ DOMAIN p = 1 .. Len(p) /\ \A i \in 1 .. Len(p) : p[i] \in Events
  OBVIOUS
<1>2. SnapshotsIn(p) \in SUBSET (0 .. Len(p))
  BY <1>1 DEF SnapshotsIn
<1>3. \A i \in 1 .. Len(p) : i \in SnapshotsIn(p) \/ p[i].type = "delta"
  BY <1>1, EventIs DEF SnapshotsIn
<1>4. CASE SnapshotsIn(p) = {}
  BY <1>1, <1>3, <1>4 DEF Cut
<1>5. CASE SnapshotsIn(p) # {}
  <2>1. Cut(p) \in SnapshotsIn(p) /\ \A n \in SnapshotsIn(p) : n <= Cut(p)
    BY <1>1, <1>2, <1>5, MaxIs DEF Cut
  <2>2. Cut(p) \in 1 .. Len(p) /\ p[Cut(p)].type = "snapshot"
    BY <1>1, <2>1 DEF SnapshotsIn
  <2>3. \A i \in Cut(p) + 1 .. Len(p) : i \notin SnapshotsIn(p) /\ i \in 1 .. Len(p)
    BY <2>1, <2>2
  <2> QED
    BY <1>3, <2>2, <2>3
<1> QED
  BY <1>4, <1>5

LEMMA MaxOfTwo ==
    ASSUME NEW a \in Nat, NEW b \in Nat
    PROVE  Max({a, b}) = IF a >= b THEN a ELSE b
<1>1. Max({a, b}) \in {a, b} /\ \A n \in {a, b} : n <= Max({a, b})
  <2>1. {a, b} \in SUBSET (0 .. a + b) /\ {a, b} # {} /\ a + b \in Nat
    OBVIOUS
  <2> QED
    BY <2>1, MaxIs
<1> QED
  BY <1>1

\* What a batch leaves: the map of the last snapshot or of before, and on it
\* the deltas behind.
Behind(p) == SubSeq(p, Cut(p) + 1, Len(p))
Ground(u) == IF Cut(u.pipe) = 0 THEN u.map ELSE Install(u.map, u.pipe[Cut(u.pipe)])

LEMMA BehindIs ==
    ASSUME NEW p \in Seq(Events)
    PROVE  /\ Behind(p) \in Seq(Events) /\ Len(Behind(p)) = Len(p) - Cut(p)
           /\ \A i \in 1 .. Len(p) - Cut(p) : Behind(p)[i] = p[Cut(p) + i] /\ Behind(p)[i].type = "delta"
<1>1. Cut(p) \in 0 .. Len(p) /\ \A i \in Cut(p) + 1 .. Len(p) : p[i].type = "delta" /\ p[i] \in Events
  <2>1. Cut(p) \in 0 .. Len(p)
    BY CutIs
  <2>2. \A i \in Cut(p) + 1 .. Len(p) : i \in 1 .. Len(p)
    BY <2>1
  <2>3. \A i \in 1 .. Len(p) : p[i] \in Events
    OBVIOUS
  <2> QED
    BY <2>1, <2>2, <2>3, CutIs
<1>2. Len(p) \in Nat
  OBVIOUS
<1> DEFINE m == Cut(p) + 1
           n == Len(p)
<1>3. m \in Int /\ n \in Int /\ \A i \in m .. n : p[i] \in Events
  BY <1>1, <1>2
<1>4. /\ Behind(p) = SubSeq(p, m, n) /\ SubSeq(p, m, n) \in Seq(Events)
      /\ Len(SubSeq(p, m, n)) = IF m <= n THEN n - m + 1 ELSE 0
      /\ \A i \in 1 .. n - m + 1 : SubSeq(p, m, n)[i] = p[m + i - 1]
  <2> HIDE DEF m, n
  <2>1. /\ SubSeq(p, m, n) \in Seq(Events)
        /\ Len(SubSeq(p, m, n)) = IF m <= n THEN n - m + 1 ELSE 0
        /\ \A i \in 1 .. n - m + 1 : SubSeq(p, m, n)[i] = p[m + i - 1]
    BY <1>3, SubSeqProperties
  <2> QED
    BY <2>1 DEF Behind, m, n
<1>5. \A i \in 1 .. Len(p) - Cut(p) : i \in 1 .. n - m + 1 /\ m + i - 1 = Cut(p) + i /\ Cut(p) + i \in Cut(p) + 1 .. Len(p)
  BY <1>1, <1>2
<1>6. Len(Behind(p)) = Len(p) - Cut(p)
  BY <1>1, <1>2, <1>4
<1> QED
  BY <1>1, <1>4, <1>5, <1>6

LEMMA BatchIs ==
    ASSUME NEW u \in Screens
    PROVE  LET b == Batch(u).ui
               s == u.pipe[Cut(u.pipe)]
           IN  /\ b \in Screens /\ b.pipe = <<>> /\ Batch(u).asks \in Nat
               /\ b.phase = u.phase /\ b.gaveUp = u.gaveUp /\ b.target = u.target /\ b.busy = u.busy
               /\ b.map = Applied(Ground(u), Behind(u.pipe))[Len(Behind(u.pipe))]
               /\ Cut(u.pipe) = 0 => b.mark = u.mark /\ b.resync = u.resync /\ b.failures = u.failures
               /\ Cut(u.pipe) # 0 => /\ b.mark = IF u.mark >= s.seq THEN u.mark ELSE s.seq
                                     /\ b.resync = FALSE
                                     /\ b.failures = IF s.seq >= u.target THEN 0 ELSE u.failures
<1> DEFINE cut == Cut(u.pipe)
           s == u.pipe[cut]
           base == IF cut = 0 THEN [u EXCEPT !.pipe = <<>>]
                   ELSE [u EXCEPT !.pipe = <<>>,
                                  !.map = Install(@, s),
                                  !.mark = Max({@, s.seq}),
                                  !.resync = FALSE,
                                  !.failures = IF s.seq >= u.target THEN 0 ELSE @]
           deltas == Behind(u.pipe)
           maps == Applied(base.map, deltas)
           asks == IF \E i \in DOMAIN deltas : Unknown(maps[i - 1], deltas[i].delta) THEN 1 ELSE 0
<1>1. Batch(u) = [ui |-> [base EXCEPT !.map = maps[Len(deltas)]], asks |-> asks]
  BY DEF Batch, Cut, Behind
<1>2. /\ u.pipe \in Seq(Events) /\ u.map \in [Tasks -> Copies] /\ u.mark \in Nat
      /\ u.target \in Nat /\ u.failures \in Nat
  BY DEF Screens
<1>3. cut \in 0 .. Len(u.pipe) /\ \A i \in cut + 1 .. Len(u.pipe) : u.pipe[i].type = "delta"
  BY <1>2, CutIs
<1>4. cut # 0 => s \in Events /\ s.type = "snapshot" /\ s.seq \in Nat /\ s.rows \in [Tasks -> Copies]
  <2>1. cut # 0 => s \in Events
    BY <1>2, <1>3
  <2> QED
    BY <1>2, <2>1, CutIs, EventIs
<1>5. deltas \in Seq(Events) /\ \A i \in 1 .. Len(deltas) : deltas[i].type = "delta"
  BY <1>2, BehindIs
<1> HIDE DEF cut, s, deltas
<1>6. Ground(u) = base.map /\ base.map \in [Tasks -> Copies]
  BY <1>2, <1>4 DEF Ground, Install, cut, s, Screens
<1>7. base \in Screens
  <2>0. <<>> \in Seq(Events)
    OBVIOUS
  <2>1. CASE cut = 0
    <3>1. [u EXCEPT !.pipe = <<>>] \in Screens
      BY <2>0 DEF Screens
    <3> QED
      BY <2>1, <3>1
  <2>2. CASE cut # 0
    <3> DEFINE mark == Max({u.mark, s.seq})
               map == Install(u.map, s)
               failures == IF s.seq >= u.target THEN 0 ELSE u.failures
    <3>1. mark \in Nat /\ map \in [Tasks -> Copies] /\ failures \in Nat
      BY <1>2, <1>4, <2>2, MaxOfTwo DEF Install
    <3>2. base = [u EXCEPT !.pipe = <<>>, !.map = map, !.mark = mark, !.resync = FALSE, !.failures = failures]
      BY <2>2 DEF Screens
    <3> HIDE DEF mark, map, failures, base
    <3> QED
      BY <2>0, <3>1, <3>2 DEF Screens
  <2> QED
    BY <2>1, <2>2
<1>8. maps[Len(deltas)] \in [Tasks -> Copies]
  <2>1. Len(deltas) \in 0 .. Len(deltas)
    BY <1>5
  <2> QED
    BY <1>5, <1>6, <2>1, AppliedType
<1>9. /\ base.pipe = <<>> /\ base.phase = u.phase /\ base.gaveUp = u.gaveUp /\ base.target = u.target /\ base.busy = u.busy
      /\ cut = 0 => base.mark = u.mark /\ base.resync = u.resync /\ base.failures = u.failures
      /\ cut # 0 => /\ base.mark = IF u.mark >= s.seq THEN u.mark ELSE s.seq
                    /\ base.resync = FALSE
                    /\ base.failures = IF s.seq >= u.target THEN 0 ELSE u.failures
  BY <1>2, <1>4, MaxOfTwo DEF Screens
<1> HIDE DEF maps, base, asks
<1>10. asks \in Nat
  BY DEF asks
<1>11. [base EXCEPT !.map = maps[Len(deltas)]] \in Screens
  BY <1>7, <1>8 DEF Screens
<1>12. maps = Applied(Ground(u), Behind(u.pipe))
  BY <1>6 DEF maps, deltas
<1>13. Batch(u).ui = [base EXCEPT !.map = maps[Len(deltas)]] /\ Batch(u).asks = asks
  BY <1>1
<1> DEFINE b == Batch(u).ui
<1>14. /\ b.pipe = base.pipe /\ b.phase = base.phase /\ b.gaveUp = base.gaveUp /\ b.target = base.target
       /\ b.busy = base.busy /\ b.mark = base.mark /\ b.resync = base.resync /\ b.failures = base.failures
       /\ b.map = maps[Len(deltas)] /\ b \in Screens
  BY <1>7, <1>11, <1>13 DEF Screens
<1> HIDE DEF b
<1>15. /\ b.phase = u.phase /\ b.gaveUp = u.gaveUp /\ b.target = u.target /\ b.busy = u.busy
       /\ b.map = Applied(Ground(u), Behind(u.pipe))[Len(Behind(u.pipe))] /\ b.pipe = <<>>
  BY <1>9, <1>12, <1>14 DEF deltas
<1> QED
  BY <1>9, <1>10, <1>13, <1>14, <1>15 DEF b, cut, s

\* The renderer after an event it accepts, gives in to, or asks a snapshot for.
Accepted(u, e) == Push([u EXCEPT !.mark = e.seq, !.failures = 0], e)
GivenIn(u, e) == Push([u EXCEPT !.mark = e.seq, !.failures = 0, !.gaveUp = TRUE], e)
Awaiting(u, e) == [u EXCEPT !.failures = @ + 1, !.resync = TRUE, !.target = e.seq, !.pipe = <<>>]

LEMMA PushType ==
    ASSUME NEW u \in Screens, NEW e \in Events
    PROVE  /\ Push(u, e) \in Screens
           /\ e.type = "delta" => /\ Accepted(u, e) \in Screens /\ GivenIn(u, e) \in Screens
                                  /\ Awaiting(u, e) \in Screens
<1> DEFINE q == Append(u.pipe, e)
<1>1. q \in Seq(Events) /\ <<>> \in Seq(Events)
  BY DEF Screens
<1>2. e.seq \in Nat /\ u.failures + 1 \in Nat /\ 0 \in Nat
  BY EventIs DEF Screens
<1>3. Push(u, e) = [u EXCEPT !.pipe = q]
  BY DEF Push, Screens
<1>4. Accepted(u, e) = [u EXCEPT !.mark = e.seq, !.failures = 0, !.pipe = q]
  BY DEF Accepted, Push, Screens
<1>5. GivenIn(u, e) = [u EXCEPT !.mark = e.seq, !.failures = 0, !.gaveUp = TRUE, !.pipe = q]
  BY DEF GivenIn, Push, Screens
<1>6. Awaiting(u, e) = [u EXCEPT !.failures = u.failures + 1, !.resync = TRUE, !.target = e.seq, !.pipe = <<>>]
  BY DEF Awaiting, Screens
<1> HIDE DEF q
<1>7. Push(u, e) \in Screens
  BY <1>1, <1>3 DEF Screens
<1>8. Accepted(u, e) \in Screens
  BY <1>1, <1>2, <1>4 DEF Screens
<1>9. GivenIn(u, e) \in Screens
  BY <1>1, <1>2, <1>5 DEF Screens
<1>10. Awaiting(u, e) \in Screens
  BY <1>1, <1>2, <1>6 DEF Screens
<1> QED
  BY <1>7, <1>8, <1>9, <1>10

LEMMA HandleIs ==
    ASSUME NEW u \in Screens, NEW e \in Events
    PROVE  \/ e.type = "snapshot" /\ Handle(u, e) = [ui |-> Push(u, e), asks |-> 0]
           \/ e.type = "delta" /\ Handle(u, e) = [ui |-> u, asks |-> 0]
           \/ /\ e.type = "delta" /\ ~u.resync /\ e.seq = u.mark + 1
              /\ Handle(u, e) \in {[ui |-> Accepted(u, e), asks |-> 0], Batch(Accepted(u, e))}
           \/ /\ e.type = "delta" /\ ~u.resync /\ u.failures >= MaxFailures
              /\ Handle(u, e) = [ui |-> GivenIn(u, e), asks |-> 0]
           \/ /\ e.type = "delta" /\ ~u.resync /\ u.failures < MaxFailures
              /\ Handle(u, e) = [ui |-> Awaiting(u, e), asks |-> 1]
<1>1. e.seq \in Nat /\ u.mark \in Nat /\ u.failures \in Nat /\ MaxFailures \in Nat /\ u.resync \in BOOLEAN
  BY EventIs, FeedBoundsAssumption DEF Screens
<1>2. CASE e.type = "snapshot"
  BY <1>2 DEF Handle
<1>3. CASE e.type = "delta" /\ (e.seq <= u.mark \/ u.resync)
  <2>1. Handle(u, e) = [ui |-> u, asks |-> 0]
    BY <1>1, <1>3 DEF Handle
  <2> QED
    BY <1>3, <2>1
<1>4. CASE e.type = "delta" /\ ~u.resync /\ e.seq = u.mark + 1
  <2>1. Handle(u, e) = IF e.delta.type = "removed" \/ SetsStatus(e.delta)
                       THEN Batch(Accepted(u, e)) ELSE [ui |-> Accepted(u, e), asks |-> 0]
    BY <1>1, <1>4 DEF Handle, Accepted
  <2>2. Handle(u, e) \in {[ui |-> Accepted(u, e), asks |-> 0], Batch(Accepted(u, e))}
    BY <2>1
  <2> QED
    BY <1>4, <2>2
<1>5. CASE e.type = "delta" /\ ~u.resync /\ e.seq > u.mark + 1 /\ u.failures >= MaxFailures
  <2>1. Handle(u, e) = [ui |-> GivenIn(u, e), asks |-> 0]
    BY <1>1, <1>5 DEF Handle, GivenIn
  <2> QED
    BY <1>5, <2>1
<1>6. CASE e.type = "delta" /\ ~u.resync /\ e.seq > u.mark + 1 /\ ~(u.failures >= MaxFailures)
  <2>1. Handle(u, e) = [ui |-> Awaiting(u, e), asks |-> 1]
    BY <1>1, <1>6 DEF Handle, Awaiting
  <2> QED
    BY <1>1, <1>6, <2>1
<1>7. e.seq <= u.mark \/ e.seq = u.mark + 1 \/ e.seq > u.mark + 1
  BY <1>1
<1> QED
  BY <1>2, <1>3, <1>4, <1>5, <1>6, <1>7, EventIs

LEMMA HandleType ==
    ASSUME NEW u \in Screens, NEW e \in Events
    PROVE  Handle(u, e).ui \in Screens /\ Handle(u, e).asks \in Nat
<1>1. e.type = "delta" => Batch(Accepted(u, e)).ui \in Screens /\ Batch(Accepted(u, e)).asks \in Nat
  BY PushType, BatchIs
<1> QED
  BY <1>1, PushType, HandleIs

-----------------------------------------------------------------------------
(* The types are an invariant.                                             *)

\* What leaves the main process for the renderer.
LEMMA SendType ==
    ASSUME FeedTypes, NEW e \in Events, NEW flush, Send(<<e>>, flush)
    PROVE  pending' \in Seq(Events) /\ ipc' \in Seq(Seq(Events))
<1>1. pending \in Seq(Events) /\ ipc \in Seq(Seq(Events)) /\ <<e>> \in Seq(Events) /\ <<>> \in Seq(Events)
  BY DEF FeedTypes
<1>2. pending \o <<e>> \in Seq(Events)
  BY <1>1, ConcatProperties
<1>3. Append(ipc, pending \o <<e>>) \in Seq(Seq(Events))
  BY <1>1, <1>2, AppendProperties
<1> QED
  BY <1>1, <1>2, <1>3 DEF Send

LEMMA PublishType ==
    ASSUME FeedTypes, NEW d \in Deltas, Publish(d)
    PROVE  stream' \in Seq(Deltas) /\ pending' \in Seq(Events) /\ ipc' \in Seq(Seq(Events))
<1> DEFINE e == [type |-> "delta", delta |-> d, seq |-> Len(stream) + 1]
<1>1. stream \in Seq(Deltas) /\ Len(stream) \in Nat
  BY DEF FeedTypes
<1>2. e \in Events
  BY <1>1 DEF Events
<1>3. stream' = Append(stream, d) /\ Send(<<e>>, SetsStatus(d))
  BY DEF Publish
<1> HIDE DEF e
<1> QED
  BY <1>1, <1>2, <1>3, SendType, AppendProperties

LEMMA RecoverType ==
    ASSUME FeedTypes, NEW t \in Tasks, NEW now \in Copies, Recover(t, now)
    PROVE  /\ cache' \in [Tasks -> Copies] /\ stream' \in Seq(Deltas)
           /\ pending' \in Seq(Events) /\ ipc' \in Seq(Seq(Events))
<1>1. cache \in [Tasks -> Copies]
  BY DEF FeedTypes
<1>2. cache[t].v \in Nat /\ now.v \in Nat
  BY <1>1 DEF Copies
<1>3. Removed(t, cache[t].v) \in Deltas /\ Created(t, now) \in Deltas
  BY <1>2 DEF Removed, Created, Deltas
<1> QED
  BY <1>1, <1>3, PublishType DEF Recover

LEMMA ProcessType ==
    ASSUME FeedTypes, NEW d \in Deltas, NEW now \in Copies, Process(d, now)
    PROVE  /\ cache' \in [Tasks -> Copies] /\ stream' \in Seq(Deltas)
           /\ pending' \in Seq(Events) /\ ipc' \in Seq(Seq(Events))
<1>1. cache \in [Tasks -> Copies] /\ d.task \in Tasks
  BY DeltaIs DEF FeedTypes
<1>2. CASE PublishNothing /\ UNCHANGED cache
  BY <1>2 DEF FeedTypes, PublishNothing
<1>3. CASE Recover(d.task, now)
  BY <1>1, <1>3, RecoverType
<1>4. CASE cache' = [cache EXCEPT ![d.task] = Merge(cache[d.task], d)] /\ Publish(d)
  BY <1>1, <1>4, MergeType, PublishType
<1> QED
  BY <1>2, <1>3, <1>4 DEF Process

LEMMA AnnounceType ==
    ASSUME FeedTypes, NEW d \in Deltas, NEW now \in Copies, Announce(d, now)
    PROVE  /\ cache' \in [Tasks -> Copies] /\ stream' \in Seq(Deltas)
           /\ pending' \in Seq(Events) /\ ipc' \in Seq(Seq(Events)) /\ wire' \in Seq(Deltas \cup Replied)
<1>1. wire \in Seq(Deltas \cup Replied) /\ Append(wire, d) \in Seq(Deltas \cup Replied)
  BY AppendProperties DEF FeedTypes
<1>2. CASE Viewer
  BY <1>1, <1>2 DEF Announce, main, FeedTypes
<1>3. CASE ~Viewer
  BY <1>1, <1>3, ProcessType DEF Announce
<1> QED
  BY <1>2, <1>3

LEMMA LogType ==
    ASSUME log \in [Tasks -> Seq(Fields)], NEW t \in Tasks, NEW f \in Fields
    PROVE  [log EXCEPT ![t] = Append(@, f)] \in [Tasks -> Seq(Fields)]
BY AppendProperties

LEMMA InitTypes == Init => FeedTypes
<1> SUFFICES ASSUME Init PROVE FeedTypes
  OBVIOUS
<1>1. mode \in [viewer : BOOLEAN, overtaking : BOOLEAN, losses : Nat, reloads : Nat, refreshes : Nat]
  BY FeedModeAssumption DEF Init
<1>2. log \in [Tasks -> Seq(Fields)]
  <2>1. <<>> \in Seq(Fields) /\ <<"status">> \in Seq(Fields)
    BY DEF Fields
  <2> QED
    BY <2>1 DEF Init
<1>3. cache \in [Tasks -> Copies]
  BY <1>2, RowType DEF Init, AllRows
<1>4. stream = <<>> /\ wire = <<>> /\ pending = <<>> /\ ipc = <<>> /\ drain = <<>> /\ ui = Blank
  BY DEF Init
<1>5. Blank \in Screens
  BY <1>2, <1>4, RowType DEF Blank, Screens, AllRows
<1>6. used \in [losses : Nat, reloads : Nat, refreshes : Nat, cut : Nat]
  BY DEF Init
<1>7. /\ wire \in Seq(Deltas \cup Replied) /\ stream \in Seq(Deltas)
      /\ pending \in Seq(Events) /\ ipc \in Seq(Seq(Events)) /\ drain \in Seq(Events)
  BY <1>4
<1>8. gone \subseteq Tasks /\ linked \in BOOLEAN /\ asked \in Nat /\ shown \in BOOLEAN
  BY DEF Init
<1> QED
  BY <1>1, <1>2, <1>3, <1>4, <1>5, <1>6, <1>7, <1>8 DEF FeedTypes

\* The bounded counters stay numbers.
LEMMA SpendType ==
    ASSUME FeedTypes, NEW what \in {"losses", "reloads", "refreshes"}, Spend(what)
    PROVE  used' \in [losses : Nat, reloads : Nat, refreshes : Nat, cut : Nat]
<1>1. used[what] + 1 \in Nat /\ used \in [losses : Nat, reloads : Nat, refreshes : Nat, cut : Nat]
  BY DEF FeedTypes
<1>2. used' = [used EXCEPT ![what] = used[what] + 1]
  BY DEF Spend
<1> QED
  BY <1>1, <1>2

LEMMA WritersTypes == ASSUME FeedTypes, Writers PROVE FeedTypes'
<1>0. /\ log \in [Tasks -> Seq(Fields)] /\ cache \in [Tasks -> Copies] /\ gone \subseteq Tasks
      /\ \A t \in Tasks : RowOf(t) \in Copies /\ log[t] \in Seq(Fields) /\ Len(log[t]) \in Nat
  <2>1. log \in [Tasks -> Seq(Fields)] /\ cache \in [Tasks -> Copies] /\ gone \subseteq Tasks
    BY DEF FeedTypes
  <2> QED
    BY <2>1, RowType
<1>1. ASSUME NEW t \in Tasks, NEW f \in Fields, Write(t, f) PROVE FeedTypes'
  <2> DEFINE v == Len(log[t]) + 1
             now == [v |-> v, val |-> [RowOf(t).val EXCEPT ![f] = v]]
  <2>1. v \in Nat
    BY <1>0
  <2>2. now \in Copies /\ Updated(t, v, f) \in Deltas
    BY <1>0, <2>1 DEF Copies, Updated, Deltas
  <2>3. log' = [log EXCEPT ![t] = Append(@, f)] /\ Announce(Updated(t, v, f), now)
    BY <1>1 DEF Write
  <2>4. log' \in [Tasks -> Seq(Fields)]
    BY <1>0, <2>3, LogType
  <2> HIDE DEF v, now
  <2>5. /\ cache' \in [Tasks -> Copies] /\ stream' \in Seq(Deltas)
        /\ pending' \in Seq(Events) /\ ipc' \in Seq(Seq(Events)) /\ wire' \in Seq(Deltas \cup Replied)
    BY <2>2, <2>3, AnnounceType
  <2> QED
    BY <1>1, <2>4, <2>5 DEF Write, FeedTypes
<1>2. ASSUME NEW t \in Tasks, WriteSilently(t) PROVE FeedTypes'
  <2>1. log' \in [Tasks -> Seq(Fields)]
    BY <1>0, <1>2, LogType DEF WriteSilently, Fields
  <2> QED
    BY <1>2, <2>1 DEF WriteSilently, FeedTypes, main, renderer
<1>3. ASSUME NEW t \in Tasks, Create(t) PROVE FeedTypes'
  <2> DEFINE row == [v |-> 1, val |-> [f \in Fields |-> 1]]
  <2>1. row \in Copies /\ Created(t, row) \in Deltas
    BY DEF Copies, Created, Deltas
  <2>2. log' = [log EXCEPT ![t] = <<"status">>] /\ Announce(Created(t, row), row)
    BY <1>3 DEF Create
  <2>3. log' \in [Tasks -> Seq(Fields)]
    <3>1. <<"status">> \in Seq(Fields)
      BY DEF Fields
    <3> QED
      BY <1>0, <2>2, <3>1
  <2> HIDE DEF row
  <2>4. /\ cache' \in [Tasks -> Copies] /\ stream' \in Seq(Deltas)
        /\ pending' \in Seq(Events) /\ ipc' \in Seq(Seq(Events)) /\ wire' \in Seq(Deltas \cup Replied)
    BY <2>1, <2>2, AnnounceType
  <2> QED
    BY <1>3, <2>3, <2>4 DEF Create, FeedTypes
<1>4. ASSUME NEW t \in Tasks, Delete(t) PROVE FeedTypes'
  <2>1. Removed(t, Len(log[t])) \in Deltas /\ Absent \in Copies
    BY <1>0 DEF Removed, Deltas, Absent, Copies
  <2>2. Announce(Removed(t, Len(log[t])), Absent) /\ gone' \subseteq Tasks
    BY <1>0, <1>4 DEF Delete
  <2>3. /\ cache' \in [Tasks -> Copies] /\ stream' \in Seq(Deltas)
        /\ pending' \in Seq(Events) /\ ipc' \in Seq(Seq(Events)) /\ wire' \in Seq(Deltas \cup Replied)
    BY <2>1, <2>2, AnnounceType
  <2> QED
    BY <1>4, <2>2, <2>3 DEF Delete, FeedTypes
<1> QED
  BY <1>1, <1>2, <1>3, <1>4 DEF Writers

LEMMA FeedStepTypes == ASSUME FeedTypes, Feed PROVE FeedTypes'
<1>0. /\ log \in [Tasks -> Seq(Fields)] /\ cache \in [Tasks -> Copies]
      /\ \A t \in Tasks : RowOf(t) \in Copies
      /\ AllRows \in [Tasks -> Copies]
      /\ stream \in Seq(Deltas) /\ Len(stream) \in Nat
  <2>1. log \in [Tasks -> Seq(Fields)] /\ cache \in [Tasks -> Copies] /\ stream \in Seq(Deltas)
    BY DEF FeedTypes
  <2> QED
    BY <2>1, RowType
<1>00. \A m \in [Tasks -> Copies] : Snapshot(m) \in Events
  BY <1>0 DEF Snapshot, Events, Snapshots
<1>1. ASSUME NEW t \in Tasks, PollRow(t) PROVE FeedTypes'
  <2>1. /\ cache' \in [Tasks -> Copies] /\ stream' \in Seq(Deltas)
        /\ pending' \in Seq(Events) /\ ipc' \in Seq(Seq(Events))
    BY <1>0, <1>1, RecoverType DEF PollRow
  <2> QED
    BY <1>1, <2>1 DEF PollRow, FeedTypes, rows, renderer
<1>2. ASSUME Receive PROVE FeedTypes'
  <2> DEFINE m == Head(wire)
  <2>1. m \in Deltas \cup Replied /\ wire' \in Seq(Deltas \cup Replied)
    BY <1>2, HeadTailProperties DEF Receive, FeedTypes
  <2>2. \/ m.type = "reply" /\ Send(<<Snapshot(m.rows)>>, FALSE) /\ UNCHANGED <<cache, stream>>
        \/ m.type # "reply" /\ Process(m, RowOf(m.task))
    BY <1>2 DEF Receive
  <2> HIDE DEF m
  <2>3. CASE m.type = "reply" /\ Send(<<Snapshot(m.rows)>>, FALSE) /\ UNCHANGED <<cache, stream>>
    <3>1. m \in Replied
      BY <2>1, <2>3, DeltaIs
    <3>2. m.rows \in [Tasks -> Copies]
      BY <3>1 DEF Replied
    <3>3. pending' \in Seq(Events) /\ ipc' \in Seq(Seq(Events))
      BY <1>00, <2>3, <3>2, SendType
    <3> QED
      BY <1>2, <2>1, <2>3, <3>3 DEF Receive, FeedTypes, rows, renderer
  <2>4. CASE m.type # "reply" /\ Process(m, RowOf(m.task))
    <3>1. m \in Deltas
      BY <2>1, <2>4 DEF Replied
    <3>2. RowOf(m.task) \in Copies
      BY <1>0, <3>1, DeltaIs
    <3>3. /\ cache' \in [Tasks -> Copies] /\ stream' \in Seq(Deltas)
          /\ pending' \in Seq(Events) /\ ipc' \in Seq(Seq(Events))
      BY <2>4, <3>1, <3>2, ProcessType
    <3> QED
      BY <1>2, <2>1, <3>3 DEF Receive, FeedTypes, rows, renderer
  <2> QED
    BY <2>2, <2>3, <2>4
<1>3. ASSUME Reconnect PROVE FeedTypes'
  BY <1>3 DEF Reconnect, FeedTypes, rows, main, renderer
<1>4. ASSUME AskOwner PROVE FeedTypes'
  <2>1. [type |-> "reply", rows |-> AllRows] \in Deltas \cup Replied
    BY <1>0 DEF Replied
  <2>2. wire' \in Seq(Deltas \cup Replied)
    BY <1>4, <2>1, AppendProperties DEF AskOwner, FeedTypes
  <2>3. asked' \in Nat
    BY <1>4 DEF AskOwner, FeedTypes
  <2> QED
    BY <1>4, <2>2, <2>3 DEF AskOwner, FeedTypes, rows, main, renderer
<1>5. ASSUME AnswerLocally PROVE FeedTypes'
  <2>1. pending' \in Seq(Events) /\ ipc' \in Seq(Seq(Events))
    BY <1>0, <1>00, <1>5, SendType DEF AnswerLocally
  <2>2. asked' \in Nat
    BY <1>5 DEF AnswerLocally, FeedTypes
  <2>3. used' \in [losses : Nat, reloads : Nat, refreshes : Nat, cut : Nat]
    <3>1. used \in [losses : Nat, reloads : Nat, refreshes : Nat, cut : Nat] /\ used.cut \in Nat
      BY DEF FeedTypes
    <3>2. Max({0, used.cut - 1}) \in Nat
      <4>1. CASE used.cut = 0
        <5>1. {0, used.cut - 1} \cap Nat = {0} /\ used.cut - 1 = -1
          BY <4>1
        <5>2. \A y \in {0, -1} : 0 >= y
          OBVIOUS
        <5>3. Max({0, -1}) \in {0, -1} /\ \A y \in {0, -1} : Max({0, -1}) >= y
          BY <5>2 DEF Max
        <5> QED
          BY <5>1, <5>3
      <4>2. CASE used.cut # 0
        BY <3>1, <4>2, MaxOfTwo
      <4> QED
        BY <4>1, <4>2
    <3>3. used' = [used EXCEPT !.cut = Max({0, used.cut - 1})]
      BY <1>5 DEF AnswerLocally
    <3> QED
      BY <3>1, <3>2, <3>3
  <2> QED
    BY <1>5, <2>1, <2>2, <2>3 DEF AnswerLocally, FeedTypes, rows, renderer
<1>6. ASSUME FlushPending PROVE FeedTypes'
  <2>1. ipc' \in Seq(Seq(Events)) /\ pending' \in Seq(Events)
    BY <1>6, AppendProperties DEF FlushPending, FeedTypes
  <2> QED
    BY <1>6, <2>1 DEF FlushPending, FeedTypes, rows, renderer
<1>7. ASSUME Show PROVE FeedTypes'
  BY <1>7 DEF Show, FeedTypes, rows, main, renderer
<1>8. ASSUME Subscribe PROVE FeedTypes'
  <2>1. ui' \in Screens
    BY <1>8 DEF Subscribe, FeedTypes, Screens
  <2> QED
    BY <1>8, <2>1 DEF Subscribe, FeedTypes, rows, main
<1>9. ASSUME Arrive PROVE FeedTypes'
  <2>1. Head(ipc) \in Seq(Events) /\ ipc' \in Seq(Seq(Events))
    BY <1>9, HeadTailProperties DEF Arrive, FeedTypes
  <2>2. ui' \in Screens /\ drain' \in Seq(Events) /\ asked' \in Nat
    <3>1. ui \in Screens /\ drain \in Seq(Events) /\ asked \in Nat
      BY DEF FeedTypes
    <3>2. CASE ui.phase = "loading" /\ UNCHANGED <<renderer, asked>>
      BY <3>1, <3>2 DEF renderer
    <3>3. CASE Len(Head(ipc)) = 1 /\ Take(Handle(ui, Head(ipc)[1])) /\ UNCHANGED drain
      <4>1. Head(ipc)[1] \in Events
        BY <2>1, <3>3
      <4> QED
        BY <3>1, <3>3, <4>1, HandleType DEF Take
    <3>4. CASE drain' = drain \o Head(ipc) /\ UNCHANGED <<ui, asked>>
      BY <2>1, <3>1, <3>4, ConcatProperties
    <3> QED
      BY <1>9, <3>2, <3>3, <3>4 DEF Arrive
  <2> QED
    BY <1>9, <2>1, <2>2 DEF Arrive, FeedTypes, rows
<1>10. ASSUME Drain PROVE FeedTypes'
  <2>1. Head(drain) \in Events /\ drain' \in Seq(Events)
    BY <1>10, HeadTailProperties DEF Drain, FeedTypes
  <2>2. ui \in Screens /\ asked \in Nat
    BY DEF FeedTypes
  <2>3. Handle(ui, Head(drain)).ui \in Screens /\ Handle(ui, Head(drain)).asks \in Nat
    BY <2>1, <2>2, HandleType
  <2>4. ui' = [Handle(ui, Head(drain)).ui EXCEPT !.busy = Len(drain) > 1]
    BY <1>10 DEF Drain
  <2>5. ui' \in Screens
    <3> DEFINE r == Handle(ui, Head(drain)).ui
    <3>1. r \in Screens
      BY <2>3
    <3> HIDE DEF r
    <3>2. [r EXCEPT !.busy = TRUE] \in Screens /\ [r EXCEPT !.busy = FALSE] \in Screens
      BY <3>1 DEF Screens
    <3>3. ui' = [r EXCEPT !.busy = Len(drain) > 1]
      BY <2>4 DEF r
    <3> DEFINE more == Len(drain) > 1
    <3>4. more = TRUE \/ more = FALSE
      OBVIOUS
    <3> HIDE DEF more
    <3>5. ui' = [r EXCEPT !.busy = more]
      BY <3>3 DEF more
    <3> QED
      BY <3>2, <3>4, <3>5
  <2>6. asked' \in Nat
    BY <1>10, <2>2, <2>3 DEF Drain
  <2> QED
    BY <1>10, <2>1, <2>5, <2>6 DEF Drain, FeedTypes, rows, main
<1>11. ASSUME FlushBatch PROVE FeedTypes'
  <2>1. ui \in Screens /\ asked \in Nat
    BY DEF FeedTypes
  <2>2. Batch(ui).ui \in Screens /\ Batch(ui).asks \in Nat
    BY <2>1, BatchIs
  <2>3. ui' \in Screens /\ asked' \in Nat
    BY <1>11, <2>1, <2>2 DEF FlushBatch, Take
  <2> QED
    BY <1>11, <2>3 DEF FlushBatch, FeedTypes, rows, main
<1> QED
  BY <1>1, <1>2, <1>3, <1>4, <1>5, <1>6, <1>7, <1>8, <1>9, <1>10, <1>11 DEF Feed

LEMMA NextTypes == ASSUME FeedTypes, [Next]_vars PROVE FeedTypes'
<1>1. ASSUME LoseLink PROVE FeedTypes'
  <2>1. Replies \in Nat
    <3>1. IsFiniteSet({i \in DOMAIN wire : wire[i].type = "reply"})
      <4>1. DOMAIN wire = 1 .. Len(wire) /\ Len(wire) \in Nat
        BY DEF FeedTypes
      <4>2. IsFiniteSet(1 .. Len(wire))
        BY <4>1, FS_Interval
      <4> QED
        BY <4>1, <4>2, FS_Subset
    <3> QED
      BY <3>1, FS_CardinalityType DEF Replies
  <2>2. asked' \in Nat
    <3>1. asked' = asked + Replies /\ asked \in Nat
      BY <1>1 DEF LoseLink, FeedTypes
    <3> QED
      BY <2>1, <3>1
  <2>4. linked' \in BOOLEAN /\ wire' \in Seq(Deltas \cup Replied)
    <3>1. linked' = FALSE /\ wire' = <<>>
      BY <1>1 DEF LoseLink
    <3>2. wire' \in Seq(Deltas \cup Replied)
      BY <3>1
    <3> QED
      BY <3>1, <3>2, Zenon
  <2>3. used' \in [losses : Nat, reloads : Nat, refreshes : Nat, cut : Nat]
    BY <1>1, SpendType DEF LoseLink
  <2> QED
    BY <1>1, <2>2, <2>3, <2>4 DEF LoseLink, FeedTypes, rows, main, renderer
<1>2. ASSUME Refresh PROVE FeedTypes'
  <2>1. used' \in [losses : Nat, reloads : Nat, refreshes : Nat, cut : Nat]
    BY <1>2, SpendType DEF Refresh
  <2> QED
    BY <1>2, <2>1 DEF Refresh, FeedTypes, rows, main, renderer
<1>3. ASSUME Reload PROVE FeedTypes'
  <2>1. used' \in [losses : Nat, reloads : Nat, refreshes : Nat, cut : Nat]
    BY <1>3, SpendType DEF Reload
  <2>2. cache \in [Tasks -> Copies] /\ AllRows \in [Tasks -> Copies] /\ Len(stream) \in Nat
    BY RowType DEF FeedTypes
  <2>3. Blank \in Screens
    BY <2>2 DEF Blank, Screens, AllRows
  <2>4. ui' \in Screens
    <3>1. PICK m \in [Tasks -> Copies] : ui' = [Blank EXCEPT !.map = m]
      BY <1>3, <2>2 DEF Reload
    <3> QED
      BY <2>3, <3>1 DEF Screens
  <2>5. pending' \in Seq(Events) /\ ipc' \in Seq(Seq(Events)) /\ drain' \in Seq(Events)
    BY <1>3 DEF Reload
  <2> QED
    BY <1>3, <2>1, <2>4, <2>5 DEF Reload, FeedTypes, rows
<1>4. CASE UNCHANGED vars
  BY <1>4 DEF vars, FeedTypes
<1> QED
  BY <1>1, <1>2, <1>3, <1>4, WritersTypes, FeedStepTypes DEF Next

-----------------------------------------------------------------------------
(* What the cache holds and what the wire says was written.                *)

\* The rows only get longer.
Longer(lg, lh) ==
    \A t \in Tasks : /\ Len(lg[t]) \in Nat /\ Len(lh[t]) \in Nat /\ Len(lg[t]) <= Len(lh[t])
                     /\ \A i \in 1 .. Len(lg[t]) : lh[t][i] = lg[t][i]
Grows == Longer(log, log') /\ gone \subseteq gone'

LEMMA SaysStays ==
    ASSUME NEW lg, NEW lh, Longer(lg, lh), NEW d, d.task \in Tasks, Says(d, lg[d.task])
    PROVE  Says(d, lh[d.task])
<1> DEFINE w == lg[d.task]
           x == lh[d.task]
<1>1. /\ d.task \in Tasks /\ Says(d, w) /\ Len(w) \in Nat /\ Len(x) \in Nat /\ Len(w) <= Len(x)
      /\ \A i \in 1 .. Len(w) : x[i] = w[i]
  BY DEF Longer
<1> HIDE DEF w, x
<1>2. CASE d.v \in 1 .. Len(w) /\ d = Created(d.task, Version(w, d.v))
  <2>1. d.v \in Nat /\ d.v \in 1 .. Len(x) /\ \A i \in 1 .. d.v : x[i] = w[i]
    BY <1>1, <1>2
  <2>2. Version(x, d.v) = Version(w, d.v)
    BY <2>1, VersionStays
  <2> QED
    BY <1>1, <1>2, <2>1, <2>2 DEF Says, x
<1>3. CASE d.v \in 2 .. Len(w) /\ d = Updated(d.task, d.v, w[d.v])
  <2>1. d.v \in 2 .. Len(x) /\ x[d.v] = w[d.v]
    BY <1>1, <1>3
  <2> QED
    BY <1>1, <1>3, <2>1 DEF Says, x
<1>4. CASE d = Removed(d.task, d.v)
  BY <1>1, <1>4 DEF Says, x
<1> QED
  BY <1>1, <1>2, <1>3, <1>4 DEF Says

LEMMA HonestStays ==
    ASSUME Grows, NEW d, Honest(d)
    PROVE  d.task \in Tasks /\ Says(d, log'[d.task])
BY SaysStays DEF Grows, Honest

LEMMA WholesStay ==
    ASSUME NEW lg, NEW lh, Longer(lg, lh), NEW m, WholesOf(m, lg)
    PROVE  WholesOf(m, lh)
<1> SUFFICES ASSUME NEW t \in Tasks PROVE m[t].v \in 0 .. Len(lh[t]) /\ m[t] = Version(lh[t], m[t].v)
  BY DEF WholesOf
<1> DEFINE v == m[t].v
<1>1. v \in 0 .. Len(lg[t]) /\ m[t] = Version(lg[t], v)
  BY DEF WholesOf
<1>2. /\ Len(lg[t]) \in Nat /\ Len(lh[t]) \in Nat /\ Len(lg[t]) <= Len(lh[t])
      /\ \A i \in 1 .. Len(lg[t]) : lh[t][i] = lg[t][i]
  BY DEF Longer
<1> HIDE DEF v
<1>3. v \in Nat /\ v \in 0 .. Len(lh[t]) /\ \A i \in 1 .. v : lh[t][i] = lg[t][i]
  BY <1>1, <1>2
<1>4. Version(lh[t], v) = Version(lg[t], v)
  BY <1>3, VersionStays
<1> QED
  BY <1>1, <1>3, <1>4 DEF v

\* A row as it is, and the snapshot of all rows, are whole.
LEMMA RowsAreWhole ==
    ASSUME log \in [Tasks -> Seq(Fields)]
    PROVE  /\ Wholes(AllRows)
           /\ \A t \in Tasks : /\ RowOf(t) = At(t, RowOf(t).v)
                               /\ RowOf(t).v = IF t \in gone THEN 0 ELSE Len(log[t])
<1>1. ASSUME NEW t \in Tasks
      PROVE  RowOf(t) = At(t, RowOf(t).v) /\ RowOf(t).v = IF t \in gone THEN 0 ELSE Len(log[t])
  <2>1. Len(log[t]) \in Nat
    OBVIOUS
  <2>2. At(t, 0) = Absent /\ At(t, 0).v = 0 /\ At(t, Len(log[t])).v = Len(log[t])
    BY <2>1, AtType DEF At, Version
  <2> QED
    BY <2>2 DEF RowOf
<1>2. \A t \in Tasks : Len(log[t]) \in Nat /\ AllRows[t] = RowOf(t)
  BY DEF AllRows
<1>3. Wholes(AllRows)
  BY <1>1, <1>2 DEF Wholes, WholesOf, At
<1> QED
  BY <1>1, <1>3

\* What a delta makes of a whole copy of the version before it.
LEMMA MergeWhole ==
    ASSUME NEW w \in Seq(Fields), NEW d, Says(d, w), NEW copy,
           d.type = "updated" => copy = Version(w, d.v - 1)
    PROVE  /\ d.v \in Nat /\ d.type # "removed" => d.v \in 1 .. Len(w)
           /\ d.type = "updated" => d.v \in 2 .. Len(w)
           /\ Merge(copy, d) = Version(w, IF d.type = "removed" THEN 0 ELSE d.v)
           /\ Merge(copy, d).v = IF d.type = "removed" THEN 0 ELSE d.v
<1>1. d.v \in Nat /\ Len(w) \in Nat
  BY DEF Says
<1>2. Version(w, 0) = Absent /\ Version(w, 0).v = 0 /\ Version(w, d.v).v = d.v
  BY <1>1, VersionType DEF Version
<1>3. CASE d.v \in 1 .. Len(w) /\ d = Created(d.task, Version(w, d.v))
  <2>1. d.type = "created" /\ d.row = Version(w, d.v)
    BY <1>3 DEF Created
  <2>2. Merge(copy, d) = Version(w, d.v)
    BY <2>1 DEF Merge
  <2> QED
    BY <1>1, <1>2, <1>3, <2>1, <2>2
<1>4. CASE d.v \in 2 .. Len(w) /\ d = Updated(d.task, d.v, w[d.v])
  <2>1. d.type = "updated" /\ d.v \in Nat \ {0, 1} /\ w[d.v] \in Fields
    BY <1>1, <1>4 DEF Updated
  <2>2. Merge(Version(w, d.v - 1), Updated(d.task, d.v, w[d.v])) = Version(w, d.v)
    BY <2>1, VersionNext
  <2>3. Merge(copy, d) = Version(w, d.v)
    BY <1>4, <2>1, <2>2
  <2> QED
    BY <1>1, <1>2, <1>4, <2>1, <2>3
<1>5. CASE d = Removed(d.task, d.v)
  <2>1. d.type = "removed"
    BY <1>5 DEF Removed
  <2> QED
    BY <1>1, <1>2, <2>1 DEF Merge
<1> QED
  BY <1>3, <1>4, <1>5 DEF Says

\* The main process merges into a whole cache what was written, or takes the
\* row as it is.
LEMMA ProcessWhole ==
    ASSUME FeedTypes, Wholes(cache), Grows, log' \in [Tasks -> Seq(Fields)],
           NEW d, d.task \in Tasks, Says(d, log'[d.task]),
           NEW now, now.v \in 0 .. Len(log'[d.task]), now = Version(log'[d.task], now.v),
           Process(d, now)
    PROVE  Wholes(cache)'
<1> DEFINE t == d.task
           w == log'[t]
           entry == cache[t]
<1>1. t \in Tasks /\ w \in Seq(Fields) /\ Says(d, w) /\ cache \in [Tasks -> Copies] /\ d.v \in Nat /\ entry.v \in Nat
  BY DEF Honest, Says, FeedTypes, Copies
<1>2. \A u \in Tasks : cache[u].v \in 0 .. Len(log'[u]) /\ cache[u] = Version(log'[u], cache[u].v)
  BY WholesStay DEF Grows, Wholes, WholesOf
<1>3. CASE UNCHANGED cache
  BY <1>2, <1>3 DEF Wholes, WholesOf
<1>4. CASE Recover(t, now)
  <2>1. cache' = [cache EXCEPT ![t] = now]
    BY <1>4 DEF Recover
  <2>2. \A u \in Tasks : cache'[u] = IF u = t THEN now ELSE cache[u]
    BY <1>1, <2>1
  <2> QED
    BY <1>2, <2>2 DEF Wholes, WholesOf
<1>5. CASE ~(d.type = "updated" /\ d.v - 1 # entry.v) /\ cache' = [cache EXCEPT ![t] = Merge(entry, d)]
  <2>1. d.type = "updated" => entry = Version(w, d.v - 1)
    BY <1>1, <1>2, <1>5
  <2> HIDE DEF t, w, entry
  <2>2. /\ d.type # "removed" => d.v \in 1 .. Len(w)
        /\ Merge(entry, d) = Version(w, IF d.type = "removed" THEN 0 ELSE d.v)
        /\ Merge(entry, d).v = IF d.type = "removed" THEN 0 ELSE d.v
    BY <1>1, <2>1, MergeWhole
  <2>3. Merge(entry, d).v \in 0 .. Len(w) /\ Merge(entry, d) = Version(w, Merge(entry, d).v)
    <3>1. Len(w) \in Nat
      BY <1>1
    <3> QED
      BY <2>2, <3>1
  <2>4. \A u \in Tasks : cache'[u] = IF u = t THEN Merge(entry, d) ELSE cache[u]
    BY <1>1, <1>5
  <2> QED
    BY <1>2, <2>3, <2>4 DEF Wholes, WholesOf, w, t
<1> QED
  BY <1>3, <1>4, <1>5 DEF Process

LEMMA AnnounceHeard ==
    ASSUME FeedTypes, Heard, Grows, log' \in [Tasks -> Seq(Fields)],
           NEW d, d.task \in Tasks, Says(d, log'[d.task]),
           NEW now, now.v \in 0 .. Len(log'[d.task]), now = Version(log'[d.task], now.v),
           Announce(d, now)
    PROVE  Heard'
<1>1. Wholes(cache) /\ \A i \in DOMAIN wire : wire[i].type # "reply" => Honest(wire[i])
  BY DEF Heard
<1>2. \A i \in DOMAIN wire : wire[i].type # "reply" => wire[i].task \in Tasks /\ Says(wire[i], log'[wire[i].task])
  BY <1>1, HonestStays
<1>3. CASE Viewer
  <2>1. wire' \in {wire, Append(wire, d)} /\ cache' = cache
    BY <1>3 DEF Announce, main
  <2>2. Wholes(cache)'
    BY <1>1, <2>1, WholesStay DEF Grows, Wholes
  <2>3. wire \in Seq(Deltas \cup Replied)
    BY DEF FeedTypes
  <2>4. \A i \in DOMAIN wire' : wire'[i].type # "reply" => wire'[i].task \in Tasks /\ Says(wire'[i], log'[wire'[i].task])
    <3>1. CASE wire' = wire
      BY <1>2, <3>1
    <3>2. CASE wire' = Append(wire, d)
      <4>1. \A i \in DOMAIN wire' : IF i \in DOMAIN wire THEN wire'[i] = wire[i] ELSE wire'[i] = d
        BY <2>3, <3>2
      <4> QED
        BY <1>2, <4>1 DEF Honest
    <3> QED
      BY <2>1, <3>1, <3>2
  <2> QED
    BY <2>2, <2>4 DEF Heard, Honest
<1>4. CASE ~Viewer
  <2>1. Process(d, now) /\ wire' = wire
    BY <1>4 DEF Announce
  <2>2. Wholes(cache)'
    BY <1>1, <2>1, ProcessWhole
  <2> QED
    BY <1>2, <2>1, <2>2 DEF Heard, Honest
<1> QED
  BY <1>3, <1>4

\* What writers do to the rows.
LEMMA WritersGrow ==
    ASSUME FeedTypes, Writers
    PROVE  Grows
<1>0. /\ log \in [Tasks -> Seq(Fields)]
      /\ \A t \in Tasks : log[t] \in Seq(Fields) /\ Len(log[t]) \in Nat
  <2>1. log \in [Tasks -> Seq(Fields)]
    BY DEF FeedTypes
  <2> QED
    BY <2>1
<1>1. ASSUME NEW t \in Tasks, NEW f, log' = [log EXCEPT ![t] = Append(@, f)], gone' = gone, f \in Fields
      PROVE  Grows
  <2>1. /\ Len(Append(log[t], f)) = Len(log[t]) + 1
        /\ \A i \in 1 .. Len(log[t]) : Append(log[t], f)[i] = log[t][i]
    BY <1>0, <1>1, AppendProperties
  <2>2. \A u \in Tasks : log'[u] = IF u = t THEN Append(log[t], f) ELSE log[u]
    BY <1>0, <1>1
  <2>3. \A u \in Tasks : /\ Len(log[u]) \in Nat /\ Len(log'[u]) \in Nat /\ Len(log[u]) <= Len(log'[u])
                         /\ \A i \in 1 .. Len(log[u]) : log'[u][i] = log[u][i]
    <3> TAKE u \in Tasks
    <3>1. CASE u = t
      <4>1. Len(log[t]) \in Nat /\ log'[t] = Append(log[t], f)
        BY <1>0, <2>2
      <4> QED
        BY <2>1, <3>1, <4>1
    <3>2. CASE u # t
      BY <1>0, <2>2, <3>2
    <3> QED
      BY <3>1, <3>2
  <2> QED
    BY <1>1, <2>3 DEF Grows, Longer
<1>2. ASSUME NEW t \in Tasks, Create(t) PROVE Grows
  <2>1. log[t] = <<>> /\ gone' = gone /\ log' = [log EXCEPT ![t] = <<"status">>]
    BY <1>2 DEF Create
  <2>2. \A u \in Tasks : log'[u] = IF u = t THEN <<"status">> ELSE log[u]
    BY <1>0, <2>1
  <2>3. Len(<<"status">>) = 1 /\ Len(log[t]) = 0
    BY <2>1
  <2>4. \A u \in Tasks : /\ Len(log[u]) \in Nat /\ Len(log'[u]) \in Nat /\ Len(log[u]) <= Len(log'[u])
                         /\ \A i \in 1 .. Len(log[u]) : log'[u][i] = log[u][i]
    <3> TAKE u \in Tasks
    <3>1. CASE u = t
      <4>1. Len(log'[u]) = 1 /\ Len(log[u]) = 0
        BY <2>2, <2>3, <3>1
      <4>2. 1 .. Len(log[u]) = {}
        <5>1. 1 .. 0 = {}
          OBVIOUS
        <5> QED
          BY <4>1, <5>1
      <4> QED
        BY <4>1, <4>2
    <3>2. CASE u # t
      BY <1>0, <2>2, <3>2
    <3> QED
      BY <3>1, <3>2
  <2> QED
    BY <2>1, <2>4 DEF Grows, Longer
<1>3. ASSUME NEW t \in Tasks, Delete(t) PROVE Grows
  BY <1>0, <1>3 DEF Delete, Grows, Longer
<1> QED
  BY <1>1, <1>2, <1>3 DEF Writers, Write, WriteSilently, Fields

\* Steps that write nothing.
LEMMA QuietGrows ==
    ASSUME FeedTypes, UNCHANGED <<log, gone>>
    PROVE  Grows
<1>1. \A t \in Tasks : Len(log[t]) \in Nat
  BY DEF FeedTypes
<1> QED
  BY <1>1 DEF Grows, Longer

\* Nothing is lost of what was heard when the cache is left alone and the wire
\* is not told anything else.
LEMMA HeardStays ==
    ASSUME Heard, Grows, cache' = cache, wire' = wire
    PROVE  Heard'
<1>1. \A i \in DOMAIN wire : wire[i].type # "reply" => wire[i].task \in Tasks /\ Says(wire[i], log'[wire[i].task])
  BY HonestStays DEF Heard
<1>2. WholesOf(cache, log')
  BY WholesStay DEF Heard, Grows, Wholes
<1> QED
  BY <1>1, <1>2 DEF Heard, Wholes, Honest

\* What a writer announces is what it wrote.
LEMMA WriteSays ==
    ASSUME FeedTypes, NEW t \in Tasks, NEW f \in Fields, Write(t, f)
    PROVE  LET v == Len(log[t]) + 1
               now == [v |-> v, val |-> [RowOf(t).val EXCEPT ![f] = v]]
           IN  /\ v \in Nat \ {0, 1} /\ Len(log'[t]) = v /\ log'[t][v] = f
               /\ now = Version(log'[t], v) /\ now.v = v
               /\ Says(Updated(t, v, f), log'[t]) /\ Updated(t, v, f).task = t
               /\ log' \in [Tasks -> Seq(Fields)]
<1> DEFINE v == Len(log[t]) + 1
           w == log'[t]
<1>1. /\ log \in [Tasks -> Seq(Fields)] /\ log' = [log EXCEPT ![t] = Append(@, f)]
      /\ t \notin gone /\ Len(log[t]) \in Nat \ {0}
  <2>1. log \in [Tasks -> Seq(Fields)]
    BY DEF FeedTypes
  <2>2. log' = [log EXCEPT ![t] = Append(@, f)] /\ t \notin gone /\ Len(log[t]) \in 1 .. MaxWrites - 1
    BY DEF Write
  <2> QED
    BY <2>1, <2>2
<1>2. /\ w = Append(log[t], f) /\ log' \in [Tasks -> Seq(Fields)] /\ w \in Seq(Fields)
  BY <1>1, LogType
<1>3. /\ Len(w) = v /\ w[v] = f /\ \A i \in 1 .. v - 1 : w[i] = log[t][i]
  BY <1>1, <1>2, AppendProperties
<1>4. v \in Nat \ {0, 1} /\ v - 1 = Len(log[t]) /\ v - 1 # 0
  BY <1>1
<1>5. RowOf(t) = Version(w, v - 1)
  <2>1. Version(w, v - 1) = Version(log[t], v - 1)
    BY <1>3, <1>4, VersionStays
  <2> QED
    BY <1>1, <1>4, <2>1 DEF RowOf, At
<1> HIDE DEF v, w
<1>6. Merge(Version(w, v - 1), Updated(t, v, w[v])) = Version(w, v)
  BY <1>3, <1>4, VersionNext
<1>7. Version(w, v) = [v |-> v, val |-> [Version(w, v - 1).val EXCEPT ![f] = v]]
  BY <1>3, <1>6 DEF Merge, Updated
<1>8. Says(Updated(t, v, f), w) /\ Updated(t, v, f).task = t
  <2>1. Updated(t, v, f).v = v /\ Updated(t, v, f).task = t
    BY DEF Updated
  <2>2. v \in 2 .. Len(w)
    BY <1>3, <1>4
  <2> QED
    BY <1>3, <1>4, <2>1, <2>2 DEF Says
<1> QED
  BY <1>2, <1>3, <1>4, <1>5, <1>7, <1>8 DEF v, w


\* The other announcements: the first row, and its deletion.
LEMMA CreateSays ==
    ASSUME FeedTypes, NEW t \in Tasks, Create(t)
    PROVE  LET row == [v |-> 1, val |-> [f \in Fields |-> 1]]
           IN  /\ Len(log[t]) = 0 /\ Len(log'[t]) = 1 /\ t \notin gone
               /\ row = Version(log'[t], 1) /\ row.v = 1
               /\ Says(Created(t, row), log'[t]) /\ Created(t, row).task = t /\ Created(t, row).v = 1
               /\ log' \in [Tasks -> Seq(Fields)]
<1> DEFINE row == [v |-> 1, val |-> [f \in Fields |-> 1]]
           w == log'[t]
<1>1. /\ log \in [Tasks -> Seq(Fields)] /\ log' = [log EXCEPT ![t] = <<"status">>]
      /\ t \notin gone /\ log[t] = <<>>
  BY DEF Create, FeedTypes
<1>2. w = <<"status">> /\ Len(w) = 1 /\ Len(log[t]) = 0 /\ <<"status">> \in Seq(Fields)
  BY <1>1 DEF Fields
<1>3. log' \in [Tasks -> Seq(Fields)]
  BY <1>1, <1>2
<1>4. \A f : LastWrite(w, 1, f) = 1
  <2>1. 1 \in Nat \ {0}
    OBVIOUS
  <2> HIDE DEF w
  <2>2. \A f : LastWrite(w, 1, f) \in 1 .. 1
    BY <2>1, LastWriteIs
  <2> QED
    BY <2>2
<1>5. row = Version(w, 1)
  BY <1>4 DEF Version
<1>6. Created(t, row).task = t /\ Created(t, row).v = 1
  BY DEF Created
<1> HIDE DEF row, w
<1>7. Says(Created(t, row), w)
  BY <1>2, <1>5, <1>6 DEF Says
<1> QED
  BY <1>1, <1>2, <1>3, <1>5, <1>6, <1>7 DEF row, w

LEMMA DeleteSays ==
    ASSUME FeedTypes, NEW t \in Tasks, Delete(t)
    PROVE  /\ Len(log[t]) \in Nat \ {0} /\ log' = log /\ t \notin gone
           /\ Absent = Version(log'[t], 0) /\ Absent.v = 0
           /\ Says(Removed(t, Len(log[t])), log'[t]) /\ Removed(t, Len(log[t])).task = t
           /\ Removed(t, Len(log[t])).v = Len(log[t])
<1>1. log \in [Tasks -> Seq(Fields)] /\ log' = log /\ t \notin gone /\ log[t] # <<>>
  BY DEF Delete, FeedTypes
<1>2. Len(log[t]) \in Nat \ {0}
  BY <1>1
<1>3. Absent = Version(log'[t], 0) /\ Absent.v = 0
  BY DEF Version, Absent
<1> QED
  BY <1>1, <1>2, <1>3 DEF Says, Removed

-----------------------------------------------------------------------------
(* What is heard, through every step.                                      *)

LEMMA InitHeard == Init => Heard
<1> SUFFICES ASSUME Init PROVE Heard
  OBVIOUS
<1>1. FeedTypes
  BY InitTypes
<1>2. cache = AllRows /\ wire = <<>> /\ log \in [Tasks -> Seq(Fields)]
  BY <1>1 DEF Init, AllRows, FeedTypes
<1> QED
  BY <1>2, RowsAreWhole DEF Heard

LEMMA NextHeard == ASSUME FeedTypes, Heard, [Next]_vars PROVE Heard'
<1>0. log \in [Tasks -> Seq(Fields)] /\ wire \in Seq(Deltas \cup Replied) /\ stream \in Seq(Deltas)
  BY DEF FeedTypes
<1>1. ASSUME Writers PROVE Heard'
  <2>0. Grows
    BY <1>1, WritersGrow
  <2>1. ASSUME NEW t \in Tasks, NEW f \in Fields, Write(t, f) PROVE Heard'
    <3> DEFINE v == Len(log[t]) + 1
               now == [v |-> v, val |-> [RowOf(t).val EXCEPT ![f] = v]]
               d == Updated(t, v, f)
    <3>1. /\ v \in Nat /\ Len(log'[t]) = v /\ now = Version(log'[t], v) /\ now.v = v
          /\ Says(d, log'[t]) /\ d.task = t /\ log' \in [Tasks -> Seq(Fields)]
      BY <2>1, WriteSays
    <3>2. Announce(d, now)
      BY <2>1 DEF Write
    <3> HIDE DEF v, now, d
    <3>3. now.v \in 0 .. Len(log'[d.task]) /\ now = Version(log'[d.task], now.v)
      <4>1. now.v \in 0 .. Len(log'[t])
        BY <3>1
      <4> QED
        BY <3>1, <4>1
    <3> QED
      BY <2>0, <3>1, <3>2, <3>3, AnnounceHeard
  <2>2. ASSUME NEW t \in Tasks, WriteSilently(t) PROVE Heard'
    BY <2>0, <2>2, HeardStays DEF WriteSilently, main
  <2>3. ASSUME NEW t \in Tasks, Create(t) PROVE Heard'
    <3> DEFINE row == [v |-> 1, val |-> [f \in Fields |-> 1]]
               d == Created(t, row)
    <3>1. /\ Len(log'[t]) = 1 /\ row = Version(log'[t], 1) /\ row.v = 1
          /\ Says(d, log'[t]) /\ d.task = t /\ log' \in [Tasks -> Seq(Fields)]
      BY <2>3, CreateSays
    <3>2. Announce(d, row)
      BY <2>3 DEF Create
    <3> HIDE DEF row, d
    <3>3. row.v \in 0 .. Len(log'[d.task]) /\ row = Version(log'[d.task], row.v)
      <4>1. row.v \in 0 .. Len(log'[t])
        <5>1. 1 \in 0 .. 1
          OBVIOUS
        <5> QED
          BY <3>1, <5>1
      <4> QED
        BY <3>1, <4>1
    <3> QED
      BY <2>0, <3>1, <3>2, <3>3, AnnounceHeard
  <2>4. ASSUME NEW t \in Tasks, Delete(t) PROVE Heard'
    <3> DEFINE d == Removed(t, Len(log[t]))
    <3>1. /\ log' = log /\ Absent = Version(log'[t], 0) /\ Absent.v = 0
          /\ Says(d, log'[t]) /\ d.task = t /\ Len(log[t]) \in Nat
      BY <2>4, DeleteSays
    <3>2. Announce(d, Absent)
      BY <2>4 DEF Delete
    <3> HIDE DEF d
    <3>3. Absent.v \in 0 .. Len(log'[d.task]) /\ Absent = Version(log'[d.task], Absent.v)
      BY <3>1
    <3> QED
      BY <1>0, <2>0, <3>1, <3>2, <3>3, AnnounceHeard
  <2> QED
    BY <1>1, <2>1, <2>2, <2>3, <2>4 DEF Writers
<1>2. ASSUME NEW t \in Tasks, PollRow(t) PROVE Heard'
  <2>1. cache' = [cache EXCEPT ![t] = RowOf(t)] /\ UNCHANGED <<log, gone, wire>>
    BY <1>2 DEF PollRow, Recover, rows
  <2>2. Grows /\ cache \in [Tasks -> Copies] /\ Len(log[t]) \in Nat
    BY <1>0, <2>1, QuietGrows DEF FeedTypes
  <2>3. RowOf(t).v \in 0 .. Len(log[t]) /\ RowOf(t) = Version(log[t], RowOf(t).v)
    <3>1. WholesOf(AllRows, log)
      BY <1>0, RowsAreWhole DEF Wholes
    <3>2. AllRows[t] = RowOf(t)
      BY DEF AllRows
    <3> HIDE DEF RowOf
    <3> QED
      BY <3>1, <3>2 DEF WholesOf
  <2>4. \A u \in Tasks : cache'[u] = IF u = t THEN RowOf(t) ELSE cache[u]
    BY <2>1, <2>2
  <2> HIDE DEF RowOf
  <2>5. WholesOf(cache', log)
    BY <2>3, <2>4 DEF Heard, Wholes, WholesOf
  <2> QED
    BY <2>1, <2>5 DEF Heard, Wholes, Honest
<1>3. ASSUME Receive PROVE Heard'
  <2> DEFINE m == Head(wire)
  <2>1. /\ UNCHANGED <<log, gone>> /\ wire # <<>> /\ wire' = Tail(wire)
        /\ \/ UNCHANGED cache
           \/ m.type # "reply" /\ Process(m, RowOf(m.task))
    BY <1>3 DEF Receive, rows
  <2>2. Grows
    BY <2>1, QuietGrows
  <2>3. /\ m = wire[1] /\ 1 \in DOMAIN wire
        /\ \A i \in DOMAIN wire' : wire'[i] = wire[i + 1] /\ i + 1 \in DOMAIN wire
    <3>1. Len(wire') = Len(wire) - 1 /\ \A i \in 1 .. Len(wire') : wire'[i] = wire[i + 1]
      BY <1>0, <2>1, HeadTailProperties
    <3>2. wire' \in Seq(Deltas \cup Replied) /\ Len(wire) \in Nat \ {0}
      BY <1>0, <2>1
    <3> QED
      BY <1>0, <3>1, <3>2
  <2> HIDE DEF m
  <2>4. Wholes(cache)'
    <3>1. CASE UNCHANGED cache
      BY <2>1, <3>1 DEF Heard, Wholes
    <3>2. CASE m.type # "reply" /\ Process(m, RowOf(m.task))
      <4>1. m.task \in Tasks /\ Says(m, log'[m.task])
        BY <2>1, <2>3, <3>2 DEF Heard, Honest
      <4> DEFINE now == RowOf(m.task)
      <4>2. Len(log[m.task]) \in Nat
        BY <1>0, <4>1
      <4>3. now.v \in 0 .. Len(log'[m.task]) /\ now = Version(log'[m.task], now.v)
        BY <1>0, <2>1, <4>1, <4>2, RowsAreWhole DEF At
      <4> HIDE DEF now
      <4>4. Process(m, now) /\ log' \in [Tasks -> Seq(Fields)] /\ Wholes(cache)
        BY <1>0, <2>1, <3>2 DEF now, Heard
      <4> QED
        BY <2>2, <4>1, <4>3, <4>4, ProcessWhole
    <3> QED
      BY <2>1, <3>1, <3>2
  <2>5. \A i \in DOMAIN wire' : wire'[i].type # "reply" => Honest(wire[i + 1])
    BY <2>3 DEF Heard
  <2> QED
    BY <2>1, <2>3, <2>4, <2>5 DEF Heard, Honest
<1>4. ASSUME AskOwner PROVE Heard'
  <2> DEFINE r == [type |-> "reply", rows |-> AllRows]
  <2>1. UNCHANGED <<log, gone, cache>> /\ wire' = Append(wire, r)
    BY <1>4 DEF AskOwner, rows, main
  <2>2. \A i \in DOMAIN wire' : wire'[i] = r \/ (i \in DOMAIN wire /\ wire'[i] = wire[i])
    <3>1. AllRows \in [Tasks -> Copies]
      BY <1>0, RowType
    <3>2. r \in Deltas \cup Replied
      BY <3>1 DEF Replied
    <3> HIDE DEF r
    <3>3. /\ wire' \in Seq(Deltas \cup Replied) /\ Len(wire') = Len(wire) + 1
          /\ \A i \in 1 .. Len(wire) : wire'[i] = wire[i]
          /\ wire'[Len(wire) + 1] = r
      BY <1>0, <2>1, <3>2, AppendProperties
    <3>4. Len(wire) \in Nat /\ DOMAIN wire' = 1 .. Len(wire) + 1 /\ DOMAIN wire = 1 .. Len(wire)
      BY <1>0, <3>3
    <3> QED
      BY <3>3, <3>4
  <2>3. r.type = "reply"
    OBVIOUS
  <2> HIDE DEF r
  <2> QED
    BY <2>1, <2>2, <2>3 DEF Heard, Wholes, Honest
<1>5. ASSUME LoseLink PROVE Heard'
  <2>1. UNCHANGED <<log, gone, cache>> /\ wire' = <<>>
    BY <1>5 DEF LoseLink, rows, main
  <2> QED
    BY <2>1 DEF Heard, Wholes
<1>6. CASE UNCHANGED <<log, gone, cache, wire>>
  <2>1. Grows
    BY <1>6, QuietGrows
  <2> QED
    BY <1>6, <2>1, HeardStays
<1>7. ASSUME Reconnect \/ AnswerLocally \/ FlushPending \/ Show \/ Subscribe \/ Arrive \/ Drain \/ FlushBatch
             \/ Refresh \/ Reload \/ UNCHANGED vars
      PROVE  UNCHANGED <<log, gone, cache, wire>>
  BY <1>7 DEF Reconnect, AnswerLocally, FlushPending, Show, Subscribe, Arrive, Drain, FlushBatch,
              Refresh, Reload, vars, rows, main
<1> QED
  BY <1>1, <1>2, <1>3, <1>4, <1>5, <1>6, <1>7 DEF Next, Feed

-----------------------------------------------------------------------------
(* What the stream makes of a right map.                                   *)

LEMMA WorldIs ==
    ASSUME NEW w \in Worlds
    PROVE  /\ w.log \in [Tasks -> Seq(Fields)] /\ w.gone \subseteq Tasks /\ w.stream \in Seq(Deltas)
           /\ w.cache \in [Tasks -> Copies] /\ Len(w.stream) \in Nat
           /\ \A t \in Tasks : w.log[t] \in Seq(Fields) /\ Len(w.log[t]) \in Nat /\ w.cache[t].v \in Nat
           /\ \A j \in 1 .. Len(w.stream) : w.stream[j] \in Deltas
<1>1. /\ w.log \in [Tasks -> Seq(Fields)] /\ w.gone \subseteq Tasks /\ w.stream \in Seq(Deltas)
      /\ w.cache \in [Tasks -> Copies]
  BY DEF Worlds
<1>2. \A t \in Tasks : w.log[t] \in Seq(Fields) /\ w.cache[t] \in Copies
  BY <1>1
<1> QED
  BY <1>1, <1>2 DEF Copies

\* A delta of the stream, in all it may be.
LEMMA ToldIs ==
    ASSUME NEW w \in Worlds, NEW j \in 1 .. Len(w.stream), Told(w, j)
    PROVE  LET d == w.stream[j] IN
           /\ d \in Deltas /\ d.task \in Tasks /\ d.v \in Nat /\ Says(d, w.log[d.task])
           /\ d.type = "removed" => d.task \in w.gone
           /\ d.type # "removed" => d.v \in 1 .. Len(w.log[d.task])
           /\ d.type = "updated" => d.v \in 2 .. Len(w.log[d.task])
<1> DEFINE d == w.stream[j]
<1>1. d \in Deltas /\ d.task \in Tasks /\ Says(d, w.log[d.task]) /\ (d.type = "removed" => d.task \in w.gone)
  BY WorldIs DEF Told
<1>2. d.v \in Nat /\ w.log[d.task] \in Seq(Fields)
  BY <1>1, WorldIs DEF Says
<1> HIDE DEF d
<1>3. /\ d.type # "removed" => d.v \in 1 .. Len(w.log[d.task])
      /\ d.type = "updated" => d.v \in 2 .. Len(w.log[d.task])
  <2> DEFINE k == Version(w.log[d.task], d.v - 1)
  <2>1. Says(d, w.log[d.task]) /\ (d.type = "updated" => k = Version(w.log[d.task], d.v - 1))
    BY <1>1
  <2> HIDE DEF k
  <2> QED
    BY <1>2, <2>1, MergeWhole
<1> QED
  BY <1>1, <1>2, <1>3 DEF d

\* A map that follows a delta which is not about a task still follows it.
LEMMA FollowsOther ==
    ASSUME NEW w \in Worlds, NEW t, NEW n \in Nat, n < Len(w.stream), NEW v, Follows(w, t, n, v),
           w.stream[n + 1].task # t
    PROVE  Follows(w, t, n + 1, v)
<1>1. Len(w.stream) \in Nat
  BY WorldIs
<1>2. v \in 0 .. Len(w.log[t])
  BY DEF Follows
<1>3. \A j : (\A i \in n + 2 .. j : w.stream[i].task # t) => \A i \in n + 1 .. j : w.stream[i].task # t
  <2> SUFFICES ASSUME NEW j, \A i \in n + 2 .. j : w.stream[i].task # t, NEW i \in n + 1 .. j
               PROVE  w.stream[i].task # t
    OBVIOUS
  <2>1. i = n + 1 \/ i \in n + 2 .. j
    OBVIOUS
  <2> QED
    BY <2>1
<1>4. \A j \in n + 2 .. Len(w.stream) : j \in n + 1 .. Len(w.stream)
  BY <1>1
<1>5. n + 1 + 1 = n + 2
  OBVIOUS
<1> QED
  BY <1>2, <1>3, <1>4, <1>5 DEF Follows

\* A right map is right after the next delta.
LEMMA GoodNext ==
    ASSUME NEW w \in Worlds, Telling(w), NEW n \in Nat, n < Len(w.stream),
           NEW m \in [Tasks -> Copies], Good(w, m, n)
    PROVE  Good(w, ApplyTo(m, w.stream[n + 1]), n + 1)
<1> DEFINE d == w.stream[n + 1]
           t == d.task
           k == ApplyTo(m, d)
<1>1. n + 1 \in 1 .. Len(w.stream) /\ Len(w.stream) \in Nat
  BY WorldIs
<1>2. Told(w, n + 1)
  BY <1>1 DEF Telling
<1>3. /\ d \in Deltas /\ t \in Tasks /\ d.v \in Nat /\ Says(d, w.log[t])
      /\ d.type = "removed" => t \in w.gone
      /\ d.type # "removed" => d.v \in 1 .. Len(w.log[t])
      /\ d.type = "updated" => d.v \in 2 .. Len(w.log[t])
  BY <1>1, <1>2, ToldIs
<1>4. d.type # "removed" =>
          /\ Follows(w, t, n + 1, d.v)
          /\ \A i \in 1 .. n : w.stream[i].task = t => w.stream[i].type # "removed" /\ w.stream[i].v <= d.v
  <2>1. n + 1 - 1 = n
    OBVIOUS
  <2> QED
    BY <1>2, <2>1 DEF Told
<1>5. /\ \A u \in Tasks : m[u].v \in 0 .. Len(w.log[u]) /\ m[u] = Version(w.log[u], m[u].v)
      /\ \A u \in Tasks : Void(w, m, u) \/ Follows(w, u, n, m[u].v)
      /\ \A i \in 1 .. n : \/ Void(w, m, w.stream[i].task)
                           \/ w.stream[i].type # "removed" /\ w.stream[i].v <= m[w.stream[i].task].v
  BY DEF Good, WholesOf
<1>6. w.log[t] \in Seq(Fields) /\ m[t].v \in Nat
  BY <1>3, <1>5, WorldIs
<1>7. \A u \in Tasks : u # t => Void(w, m, u) \/ Follows(w, u, n + 1, m[u].v)
  <2> SUFFICES ASSUME NEW u \in Tasks, u # t, Follows(w, u, n, m[u].v) PROVE Follows(w, u, n + 1, m[u].v)
    BY <1>5
  <2> QED
    BY <1>1, FollowsOther
<1>8. \A i \in 1 .. n + 1 : i \in 1 .. n \/ i = n + 1
  OBVIOUS
<1> HIDE DEF d, t
<1>9. CASE d.type = "updated" /\ m[t].v = 0
  <2>1. k = m
    BY <1>9 DEF ApplyTo, t
  <2>2. Void(w, m, t)
    <3>1. ASSUME Follows(w, t, n, m[t].v) PROVE FALSE
      <4>1. n + 1 \in n + 1 .. Len(w.stream) /\ n + 1 .. n + 1 - 1 = {}
        BY <1>1
      <4>2. d.v = m[t].v + 1
        BY <1>9, <3>1, <4>1 DEF Follows, d, t
      <4> QED
        BY <1>3, <1>9, <4>2
    <3> QED
      BY <1>3, <1>5, <3>1
  <2>3. \A u \in Tasks : Void(w, m, u) \/ Follows(w, u, n + 1, m[u].v)
    BY <1>7, <2>2
  <2>4. \A i \in 1 .. n + 1 : \/ Void(w, m, w.stream[i].task)
                              \/ w.stream[i].type # "removed" /\ w.stream[i].v <= m[w.stream[i].task].v
    BY <1>5, <1>8, <2>2 DEF t, d
  <2> QED
    BY <1>5, <2>1, <2>3, <2>4 DEF Good, WholesOf, d
<1>10. CASE ~(d.type = "updated" /\ m[t].v = 0)
  <2> DEFINE c == Merge(m[t], d)
             nv == IF d.type = "removed" THEN 0 ELSE d.v
  <2>1. k = [m EXCEPT ![t] = c]
    BY <1>10 DEF ApplyTo, t
  <2>2. \A u \in Tasks : k[u] = IF u = t THEN c ELSE m[u]
    BY <1>3, <2>1
  <2>3. d.type = "updated" => m[t] = Version(w.log[t], d.v - 1)
    <3> SUFFICES ASSUME d.type = "updated" PROVE m[t] = Version(w.log[t], d.v - 1)
      OBVIOUS
    <3>1. Follows(w, t, n, m[t].v)
      BY <1>3, <1>5, <1>10 DEF Void
    <3>2. n + 1 \in n + 1 .. Len(w.stream) /\ n + 1 .. n + 1 - 1 = {}
      BY <1>1
    <3>3. d.v = m[t].v + 1
      BY <3>1, <3>2 DEF Follows, d, t
    <3>4. m[t].v = d.v - 1
      BY <1>3, <1>6, <3>3
    <3> QED
      BY <1>3, <1>5, <3>4
  <2>4. c = Version(w.log[t], nv) /\ c.v = nv
    BY <1>3, <1>6, <2>3, MergeWhole
  <2>5. nv \in 0 .. Len(w.log[t])
    BY <1>3, <1>6
  <2> HIDE DEF c, k
  <2>6. WholesOf(k, w.log)
    BY <1>5, <2>2, <2>4, <2>5 DEF WholesOf
  <2>7. k[t].v = nv /\ \A u \in Tasks : u # t => k[u].v = m[u].v
    BY <1>3, <2>2, <2>4
  <2>8. \A u \in Tasks : u # t /\ Void(w, m, u) => Void(w, k, u)
    BY <2>7 DEF Void
  <2>9. CASE d.type = "removed"
    <3>1. Void(w, k, t)
      BY <1>3, <2>7, <2>9 DEF Void
    <3>2. \A u \in Tasks : Void(w, k, u) \/ Follows(w, u, n + 1, k[u].v)
      BY <1>7, <2>7, <2>8, <3>1
    <3>3. \A i \in 1 .. n : w.stream[i].task \in Tasks
      <4>1. \A i \in 1 .. n : i \in 1 .. Len(w.stream)
        BY <1>1
      <4> QED
        BY <4>1 DEF Telling, Told
    <3>4. \A i \in 1 .. n + 1 : \/ Void(w, k, w.stream[i].task)
                                \/ w.stream[i].type # "removed" /\ w.stream[i].v <= k[w.stream[i].task].v
      <4> SUFFICES ASSUME NEW i \in 1 .. n + 1, w.stream[i].task # t
                   PROVE  \/ Void(w, k, w.stream[i].task)
                          \/ w.stream[i].type # "removed" /\ w.stream[i].v <= k[w.stream[i].task].v
        BY <3>1
      <4>1. i \in 1 .. n
        BY <1>8 DEF t, d
      <4> QED
        BY <1>5, <2>7, <2>8, <3>3, <4>1
    <3> QED
      BY <2>6, <3>2, <3>4 DEF Good, k, d
  <2>10. CASE d.type # "removed"
    <3>1. Follows(w, t, n + 1, k[t].v)
      BY <1>4, <2>7, <2>10
    <3>2. \A u \in Tasks : Void(w, k, u) \/ Follows(w, u, n + 1, k[u].v)
      BY <1>7, <2>7, <2>8, <3>1
    <3>3. \A i \in 1 .. n : w.stream[i].task \in Tasks
      <4>1. \A i \in 1 .. n : i \in 1 .. Len(w.stream)
        BY <1>1
      <4> QED
        BY <4>1 DEF Telling, Told
    <3>4. \A i \in 1 .. n + 1 : \/ Void(w, k, w.stream[i].task)
                                \/ w.stream[i].type # "removed" /\ w.stream[i].v <= k[w.stream[i].task].v
      <4> SUFFICES ASSUME NEW i \in 1 .. n + 1
                   PROVE  \/ Void(w, k, w.stream[i].task)
                          \/ w.stream[i].type # "removed" /\ w.stream[i].v <= k[w.stream[i].task].v
        OBVIOUS
      <4>1. CASE i = n + 1
        <5>1. w.stream[i] = d /\ d.v <= k[t].v
          BY <1>3, <2>7, <2>10, <4>1 DEF d
        <5> QED
          BY <2>10, <5>1 DEF t
      <4>2. CASE i \in 1 .. n /\ w.stream[i].task = t
        BY <1>4, <2>7, <2>10, <4>2
      <4>3. CASE i \in 1 .. n /\ w.stream[i].task # t
        BY <1>5, <2>7, <2>8, <3>3, <4>3
      <4> QED
        BY <1>8, <4>1, <4>2, <4>3
    <3> QED
      BY <2>6, <3>2, <3>4 DEF Good, k, d
  <2> QED
    BY <2>9, <2>10
<1> QED
  BY <1>9, <1>10

-----------------------------------------------------------------------------
(* The world moves on: its rows grow, and it may tell a delta.             *)

Tells(w, x, t, d) ==
    /\ t \in Tasks /\ d \in Deltas /\ d.task = t /\ Says(d, x.log[t])
    /\ t \notin w.gone /\ (d.type = "removed" => t \in x.gone)
    /\ d.type # "removed" => d.v = Len(x.log[t]) /\ x.cache[t].v <= d.v
    /\ d.type = "updated" => d.v = w.cache[t].v + 1 /\ d.v = Len(w.log[t]) + 1
    /\ \A u \in Tasks : u # t => x.cache[u] = w.cache[u]
    /\ x.stream = Append(w.stream, d)

Goes(w, x) ==
    /\ w \in Worlds /\ x \in Worlds
    /\ Longer(w.log, x.log) /\ w.gone \subseteq x.gone
    /\ \/ x.stream = w.stream /\ x.cache = w.cache
       \/ \E t, d : Tells(w, x, t, d)

LEMMA StreamGoes ==
    ASSUME NEW w, NEW x, Goes(w, x)
    PROVE  /\ Len(w.stream) \in Nat /\ Len(x.stream) \in Nat /\ Len(w.stream) <= Len(x.stream)
           /\ \A j \in 1 .. Len(w.stream) : x.stream[j] = w.stream[j]
<1>1. w.stream \in Seq(Deltas) /\ Len(w.stream) \in Nat
  BY WorldIs DEF Goes
<1>2. CASE x.stream = w.stream
  BY <1>1, <1>2
<1>3. ASSUME NEW t, NEW d, Tells(w, x, t, d)
      PROVE  /\ Len(w.stream) \in Nat /\ Len(x.stream) \in Nat /\ Len(w.stream) <= Len(x.stream)
             /\ \A j \in 1 .. Len(w.stream) : x.stream[j] = w.stream[j]
  <2>1. d \in Deltas /\ x.stream = Append(w.stream, d)
    BY <1>3 DEF Tells
  <2>2. Len(x.stream) = Len(w.stream) + 1 /\ \A j \in 1 .. Len(w.stream) : x.stream[j] = w.stream[j]
    BY <1>1, <2>1, AppendProperties
  <2> QED
    BY <1>1, <2>2
<1> QED
  BY <1>2, <1>3 DEF Goes

LEMMA FollowsStays ==
    ASSUME NEW w, NEW x, Goes(w, x), NEW t \in Tasks, NEW n \in 0 .. Len(w.stream), NEW v,
           Follows(w, t, n, v)
    PROVE  Follows(x, t, n, v)
<1>1. w \in Worlds /\ x \in Worlds /\ Longer(w.log, x.log)
  BY DEF Goes
<1>2. /\ v \in 0 .. Len(w.log[t]) /\ Len(w.log[t]) \in Nat /\ Len(x.log[t]) \in Nat /\ Len(w.log[t]) <= Len(x.log[t])
      /\ w.cache[t].v \in Nat /\ x.cache[t].v \in Nat /\ v \in Nat
  BY <1>1, WorldIs DEF Follows, Longer
<1>3. v \in 0 .. Len(x.log[t])
  BY <1>2
<1>4. /\ Len(w.stream) \in Nat /\ Len(x.stream) \in Nat /\ Len(w.stream) <= Len(x.stream)
      /\ \A j \in n + 1 .. Len(w.stream) : x.stream[j] = w.stream[j]
  <2>1. \A j \in n + 1 .. Len(w.stream) : j \in 1 .. Len(w.stream)
    OBVIOUS
  <2> QED
    BY <2>1, StreamGoes
<1>5. CASE x.stream = w.stream /\ x.cache = w.cache
  BY <1>3, <1>5 DEF Follows
<1>6. ASSUME NEW u, NEW d, Tells(w, x, u, d) PROVE Follows(x, t, n, v)
  <2> DEFINE L == Len(w.stream)
             Silent(k) == \A i \in n + 1 .. k : w.stream[i].task # t
  <2>1. Len(x.stream) = L + 1 /\ x.stream[L + 1] = d
    <3>1. w.stream \in Seq(Deltas) /\ d \in Deltas /\ x.stream = Append(w.stream, d)
      BY <1>1, <1>6, WorldIs DEF Tells
    <3> QED
      BY <3>1, AppendProperties
  <2>2. /\ d.task = u
        /\ d.type = "updated" => d.v = w.cache[u].v + 1 /\ d.v = Len(w.log[u]) + 1
        /\ t # u => x.cache[t] = w.cache[t]
    BY <1>6 DEF Tells
  <2>3. /\ \A j \in n + 1 .. L : w.stream[j].task = t /\ w.stream[j].type = "updated" /\ Silent(j - 1) =>
              w.stream[j].v = v + 1
        /\ Silent(L) => w.cache[t].v <= v
    BY DEF Follows
  <2>4. \A k \in n .. L : (\A i \in n + 1 .. k : x.stream[i].task # t) => Silent(k)
    BY <1>4
  <2>5. ASSUME NEW j \in n + 1 .. Len(x.stream), x.stream[j].task = t, x.stream[j].type = "updated",
               \A i \in n + 1 .. j - 1 : x.stream[i].task # t
        PROVE  x.stream[j].v = v + 1
    <3>1. j - 1 \in n .. L
      BY <1>4, <2>1
    <3>2. Silent(j - 1)
      BY <2>4, <2>5, <3>1
    <3>3. CASE j \in n + 1 .. L
      <4>1. x.stream[j] = w.stream[j]
        BY <1>4, <3>3
      <4>2. w.stream[j].task = t /\ w.stream[j].type = "updated"
        BY <2>5, <4>1
      <4>3. w.stream[j].v = v + 1
        BY <2>3, <3>2, <3>3, <4>2, Zenon
      <4> QED
        BY <4>1, <4>3
    <3>4. CASE j = L + 1
      <4>1. x.stream[j] = d /\ t = u /\ d.type = "updated" /\ Silent(L)
        BY <1>4, <2>1, <2>2, <2>5, <3>2, <3>4
      <4>2. w.cache[t].v <= v /\ d.v = w.cache[t].v + 1 /\ d.v = Len(w.log[t]) + 1 /\ v <= Len(w.log[t])
        BY <1>2, <2>2, <2>3, <4>1
      <4> DEFINE a == w.cache[t].v
                 b == Len(w.log[t])
      <4>3. a \in Nat /\ b \in Nat /\ v \in Nat /\ a <= v /\ d.v = a + 1 /\ d.v = b + 1 /\ v <= b
        BY <1>2, <4>2
      <4> HIDE DEF a, b
      <4>4. d.v = v + 1
        BY <4>3
      <4> QED
        BY <4>1, <4>4
    <3> QED
      BY <1>4, <2>1, <3>3, <3>4
  <2>6. ASSUME \A i \in n + 1 .. Len(x.stream) : x.stream[i].task # t PROVE x.cache[t].v <= v
    <3>1. L + 1 \in n + 1 .. Len(x.stream) /\ L \in n .. L /\ \A i \in n + 1 .. L : i \in n + 1 .. Len(x.stream)
      BY <1>4, <2>1
    <3>2. t # u
      BY <2>1, <2>2, <2>6, <3>1
    <3>3. Silent(L)
      BY <2>4, <2>6, <3>1
    <3> QED
      BY <2>2, <2>3, <3>2, <3>3
  <2> QED
    BY <1>3, <2>5, <2>6 DEF Follows
<1> QED
  BY <1>5, <1>6 DEF Goes

LEMMA GoodStays ==
    ASSUME NEW w, NEW x, Goes(w, x), NEW n \in 0 .. Len(w.stream), NEW m, Good(w, m, n)
    PROVE  Good(x, m, n)
<1>1. WholesOf(m, x.log)
  BY WholesStay DEF Goes, Good
<1>2. \A t \in Tasks : Void(x, m, t) \/ Follows(x, t, n, m[t].v)
  BY FollowsStays DEF Good, Goes, Void
<1>3. \A i \in 1 .. n : x.stream[i] = w.stream[i]
  <2>1. Len(w.stream) \in Nat /\ \A i \in 1 .. n : i \in 1 .. Len(w.stream)
    BY StreamGoes
  <2> QED
    BY <2>1, StreamGoes
<1>4. \A i \in 1 .. n : \/ Void(x, m, x.stream[i].task)
                        \/ x.stream[i].type # "removed" /\ x.stream[i].v <= m[x.stream[i].task].v
  BY <1>3 DEF Good, Goes, Void
<1> QED
  BY <1>1, <1>2, <1>4 DEF Good

LEMMA SoundStays ==
    ASSUME NEW w, NEW x, Goes(w, x), NEW e, Sound(w, e)
    PROVE  Sound(x, e)
<1>1. /\ Len(w.stream) \in Nat /\ Len(x.stream) \in Nat /\ Len(w.stream) <= Len(x.stream)
      /\ \A j \in 1 .. Len(w.stream) : x.stream[j] = w.stream[j]
  BY StreamGoes
<1>2. CASE e.type = "delta" /\ e.seq \in 1 .. Len(w.stream) /\ e.delta = w.stream[e.seq]
  BY <1>1, <1>2 DEF Sound
<1>3. CASE e.type = "snapshot" /\ e.seq \in 0 .. Len(w.stream) /\ Good(w, e.rows, e.seq)
  <2>1. Good(x, e.rows, e.seq)
    BY <1>3, GoodStays
  <2> QED
    BY <1>1, <1>3, <2>1 DEF Sound
<1> QED
  BY <1>2, <1>3 DEF Sound

LEMMA TellingStays ==
    ASSUME NEW w, NEW x, Goes(w, x), Telling(w)
    PROVE  Telling(x)
<1>1. /\ Len(w.stream) \in Nat /\ Len(x.stream) \in Nat /\ Len(w.stream) <= Len(x.stream)
      /\ \A j \in 1 .. Len(w.stream) : x.stream[j] = w.stream[j]
  BY StreamGoes
<1>2. w \in Worlds /\ x \in Worlds /\ Longer(w.log, x.log) /\ w.gone \subseteq x.gone
  BY DEF Goes
<1>3. ASSUME NEW j \in 1 .. Len(w.stream) PROVE Told(x, j)
  <2> DEFINE d == w.stream[j]
  <2>1. x.stream[j] = d /\ \A i \in 1 .. j - 1 : x.stream[i] = w.stream[i]
    <3>1. \A i \in 1 .. j - 1 : i \in 1 .. Len(w.stream)
      BY <1>1
    <3> QED
      BY <1>1, <3>1
  <2>2. /\ d.task \in Tasks /\ Says(d, w.log[d.task]) /\ (d.type = "removed" => d.task \in w.gone)
        /\ d.type # "removed" =>
              /\ Follows(w, d.task, j, d.v)
              /\ \A i \in 1 .. j - 1 : w.stream[i].task = d.task =>
                    w.stream[i].type # "removed" /\ w.stream[i].v <= d.v
    BY DEF Telling, Told
  <2> HIDE DEF d
  <2>3. Says(d, x.log[d.task])
    BY <1>2, <2>2, SaysStays
  <2>4. j \in 0 .. Len(w.stream)
    BY <1>1
  <2>5. d.type # "removed" => Follows(x, d.task, j, d.v)
    BY <2>2, <2>4, FollowsStays
  <2> QED
    BY <1>2, <2>1, <2>2, <2>3, <2>5 DEF Told
<1>4. ASSUME NEW t, NEW d, Tells(w, x, t, d) PROVE Told(x, Len(w.stream) + 1)
  <2> DEFINE L == Len(w.stream)
  <2>1. /\ t \in Tasks /\ d \in Deltas /\ d.task = t /\ Says(d, x.log[t])
        /\ t \notin w.gone /\ (d.type = "removed" => t \in x.gone)
        /\ d.type # "removed" => d.v = Len(x.log[t]) /\ x.cache[t].v <= d.v
        /\ x.stream = Append(w.stream, d) /\ w.stream \in Seq(Deltas)
    BY <1>2, <1>4, WorldIs DEF Tells
  <2>2. Len(x.stream) = L + 1 /\ x.stream[L + 1] = d
    BY <2>1, AppendProperties
  <2>3. ASSUME d.type # "removed" PROVE Follows(x, t, L + 1, d.v)
    <3>1. L + 1 + 1 .. Len(x.stream) = {}
      BY <1>1, <2>2
    <3>2. d.v \in 0 .. Len(x.log[t])
      <4>1. Len(x.log[t]) \in Nat
        BY <1>2, <2>1, WorldIs
      <4> QED
        BY <2>1, <2>3, <4>1
    <3> QED
      BY <2>1, <2>3, <3>1, <3>2 DEF Follows
  <2>4. ASSUME d.type # "removed", NEW i \in 1 .. L, w.stream[i].task = t
        PROVE  w.stream[i].type # "removed" /\ w.stream[i].v <= d.v
    <3>1. Told(w, i)
      BY DEF Telling
    <3>2. w.stream[i].type # "removed" /\ w.stream[i].v \in 1 .. Len(w.log[t])
      BY <1>2, <2>1, <2>4, <3>1, ToldIs
    <3>3. d.v = Len(x.log[t]) /\ Len(w.log[t]) \in Nat /\ Len(x.log[t]) \in Nat /\ Len(w.log[t]) <= Len(x.log[t])
      BY <1>2, <2>1, <2>4 DEF Longer
    <3> QED
      BY <3>2, <3>3
  <2>5. L + 1 - 1 = L
    BY <1>1
  <2> HIDE DEF L
  <2>6. d.type # "removed" => \A i \in 1 .. (L + 1) - 1 : x.stream[i].task = d.task =>
                                  x.stream[i].type # "removed" /\ x.stream[i].v <= d.v
    BY <1>1, <2>1, <2>4, <2>5 DEF L
  <2>7. Told(x, L + 1)
    <3> DEFINE k == L + 1
    <3>1. x.stream[k] = d /\ d.task \in Tasks /\ Says(d, x.log[d.task]) /\ (d.type = "removed" => d.task \in x.gone)
      BY <2>1, <2>2
    <3>2. d.type # "removed" => Follows(x, d.task, k, d.v)
      BY <2>1, <2>3
    <3>3. d.type # "removed" => \A i \in 1 .. k - 1 : x.stream[i].task = d.task =>
                                    x.stream[i].type # "removed" /\ x.stream[i].v <= d.v
      BY <2>6, Zenon
    <3> HIDE DEF k
    <3>4. Told(x, k)
      BY <3>1, <3>2, <3>3 DEF Told
    <3> QED
      BY <3>4 DEF k
  <2> QED
    BY <2>7 DEF L
<1>5. ASSUME NEW j \in 1 .. Len(x.stream) PROVE Told(x, j)
  <2>1. CASE j \in 1 .. Len(w.stream)
    BY <1>3, <2>1
  <2>2. CASE j \notin 1 .. Len(w.stream)
    <3>1. x.stream # w.stream
      BY <2>2
    <3>2. PICK t, d : Tells(w, x, t, d)
      BY <3>1 DEF Goes
    <3>3. Len(x.stream) = Len(w.stream) + 1
      <4>1. w.stream \in Seq(Deltas) /\ d \in Deltas /\ x.stream = Append(w.stream, d)
        BY <1>2, <3>2, WorldIs DEF Tells
      <4> QED
        BY <4>1, AppendProperties
    <3>4. j = Len(w.stream) + 1
      BY <1>1, <2>2, <3>3
    <3> QED
      BY <1>4, <3>2, <3>4
  <2> QED
    BY <2>1, <2>2
<1> QED
  BY <1>5 DEF Telling

LEMMA ScreenStays ==
    ASSUME NEW w, NEW x, Goes(w, x), NEW u \in Screens, NEW S, Screen(w, u, S)
    PROVE  Screen(x, u, S)
<1>1. /\ Len(w.stream) \in Nat /\ Len(x.stream) \in Nat /\ Len(w.stream) <= Len(x.stream)
  BY StreamGoes
<1>2. u.mark \in Nat /\ u.target \in Nat /\ u.mark <= Len(w.stream) /\ u.target <= Len(w.stream)
  BY DEF Screen, Screens
<1>3. u.mark <= Len(x.stream) /\ u.target <= Len(x.stream)
  BY <1>1, <1>2
<1>4. WholesOf(u.map, x.log)
  BY WholesStay DEF Screen, Goes
<1>5. \A n \in 0 .. Len(w.stream) : Good(w, u.map, n) => Good(x, u.map, n)
  BY GoodStays
<1> DEFINE p == u.pipe
<1>6. /\ \A i \in DOMAIN p : Sound(w, p[i])
      /\ \A i \in DOMAIN p : p[i].type = "delta" =>
            /\ ~u.resync
            /\ i > 1 => p[i].seq = p[i - 1].seq + 1
            /\ i = 1 => Good(w, u.map, p[i].seq - 1)
            /\ i = Len(p) => u.mark = p[i].seq
      /\ p # <<>> /\ p[Len(p)].type = "snapshot" => u.mark <= p[Len(p)].seq
      /\ p = <<>> /\ ~u.resync => Good(w, u.map, u.mark)
  BY DEF Screen, Piped
<1>7. \A i \in DOMAIN p : Sound(x, p[i])
  BY <1>6, SoundStays
<1>8. \A i \in DOMAIN p : p[i].type = "delta" => p[i].seq - 1 \in 0 .. Len(w.stream)
  <2> SUFFICES ASSUME NEW i \in DOMAIN p, p[i].type = "delta" PROVE p[i].seq - 1 \in 0 .. Len(w.stream)
    OBVIOUS
  <2>1. p[i].seq \in 1 .. Len(w.stream)
    BY <1>6 DEF Sound
  <2> QED
    BY <1>1, <2>1
<1>9. u.mark \in 0 .. Len(w.stream)
  BY <1>1, <1>2
<1> HIDE DEF p
<1>10. \A i \in DOMAIN p : p[i].type = "delta" /\ i = 1 => Good(x, u.map, p[i].seq - 1)
  BY <1>5, <1>6, <1>8
<1>11. p = <<>> /\ ~u.resync => Good(x, u.map, u.mark)
  BY <1>5, <1>6, <1>9
<1>12. Piped(x, u)
  BY <1>6, <1>7, <1>10, <1>11 DEF Piped, p
<1> QED
  BY <1>3, <1>4, <1>12 DEF Screen

-----------------------------------------------------------------------------
(* A batch keeps the renderer right.                                       *)

\* The maps along the deltas that follow place n of the stream.
LEMMA AlongGood ==
    ASSUME NEW w \in Worlds, Telling(w), NEW n \in Nat, NEW events \in Seq(Events),
           n + Len(events) <= Len(w.stream),
           \A i \in 1 .. Len(events) : events[i].delta = w.stream[n + i],
           NEW m \in [Tasks -> Copies], Good(w, m, n)
    PROVE  Good(w, Applied(m, events)[Len(events)], n + Len(events))
<1> DEFINE c == Applied(m, events)
           N == Len(events)
           T == {i \in 0 .. N : c[i] \in [Tasks -> Copies] /\ Good(w, c[i], n + i)}
<1>1. N \in Nat /\ Len(w.stream) \in Nat
  BY WorldIs
<1>2. c[0] = m /\ \A i \in 1 .. N : c[i] = ApplyTo(c[i - 1], events[i].delta)
  BY <1>1, AppliedStages
<1> HIDE DEF c
<1>3. 0 \in T
  <2>1. n + 0 = n /\ 0 \in 0 .. N
    BY <1>1
  <2> QED
    BY <1>2, <2>1
<1>4. ASSUME NEW i \in 1 .. N, i - 1 \in T PROVE i \in T
  <2> DEFINE k == n + (i - 1)
  <2>1. k \in Nat /\ k < Len(w.stream) /\ k + 1 = n + i /\ i \in 0 .. N
    BY <1>1
  <2>2. c[i - 1] \in [Tasks -> Copies] /\ Good(w, c[i - 1], k)
    BY <1>4
  <2>3. events[i].delta = w.stream[k + 1]
    BY <2>1
  <2>4. w.stream[k + 1] \in Deltas
    <3>1. k + 1 \in 1 .. Len(w.stream)
      BY <1>1, <2>1
    <3> QED
      BY <3>1, WorldIs
  <2> HIDE DEF k
  <2>5. Good(w, ApplyTo(c[i - 1], w.stream[k + 1]), k + 1)
    BY <2>1, <2>2, GoodNext
  <2>6. c[i] = ApplyTo(c[i - 1], w.stream[k + 1])
    BY <1>2, <2>3
  <2>7. c[i] \in [Tasks -> Copies]
    BY <2>2, <2>4, <2>6, ApplyToType
  <2>8. Good(w, c[i], n + i)
    BY <2>1, <2>5, <2>6
  <2> QED
    BY <2>1, <2>7, <2>8
<1>5. 0 .. N \subseteq T
  <2> HIDE DEF T
  <2> QED
    BY <1>1, <1>3, <1>4, Numbers
<1>6. N \in 0 .. N
  BY <1>1
<1> QED
  BY <1>5, <1>6 DEF c

\* A delta that is not newer than a snapshot leaves the map not newer.
LEMMA ApplyUnder ==
    ASSUME NEW m \in [Tasks -> Copies], NEW d \in Deltas, d.type = "created" => d.row.v = d.v,
           NEW y, Under(m, y), y.rows \in [Tasks -> Copies],
           y.rows[d.task].v > 0 => d.v <= y.rows[d.task].v
    PROVE  Under(ApplyTo(m, d), y)
<1> DEFINE k == ApplyTo(m, d)
           t == d.task
           c == Merge(m[t], d)
<1>1. t \in Tasks /\ d.v \in Nat /\ d.type \in {"created", "updated", "removed"}
  BY DeltaIs
<1>2. c.v = d.v \/ c.v = 0
  BY <1>1 DEF Merge, Absent
<1> HIDE DEF c
<1>3. \A u \in Tasks : k[u] = m[u] \/ (u = t /\ k[u] = c)
  BY <1>1 DEF ApplyTo, c
<1> HIDE DEF k, t
<1>4. ASSUME NEW u \in Tasks, y.rows[u].v > 0 PROVE k[u].v <= y.rows[u].v
  <2>1. y.rows[u].v \in Nat /\ m[u].v <= y.rows[u].v
    BY <1>4 DEF Under, Copies
  <2>2. CASE k[u] = m[u]
    BY <2>1, <2>2
  <2>3. CASE u = t /\ k[u] = c
    BY <1>1, <1>2, <1>4, <2>1, <2>3 DEF t
  <2> QED
    BY <1>3, <2>2, <2>3
<1> QED
  BY <1>4 DEF Under, k

LEMMA AlongUnder ==
    ASSUME NEW events \in Seq(Events), NEW m \in [Tasks -> Copies],
           NEW y, Under(m, y), y.rows \in [Tasks -> Copies],
           \A i \in 1 .. Len(events) :
              LET d == events[i].delta
              IN  /\ d \in Deltas /\ (d.type = "created" => d.row.v = d.v)
                  /\ y.rows[d.task].v > 0 => d.v <= y.rows[d.task].v
    PROVE  Under(Applied(m, events)[Len(events)], y)
<1> DEFINE c == Applied(m, events)
           N == Len(events)
           T == {i \in 0 .. N : c[i] \in [Tasks -> Copies] /\ Under(c[i], y)}
<1>1. N \in Nat
  OBVIOUS
<1>2. c[0] = m /\ \A i \in 1 .. N : c[i] = ApplyTo(c[i - 1], events[i].delta)
  BY <1>1, AppliedStages
<1> HIDE DEF c
<1>3. 0 \in T
  BY <1>1, <1>2
<1>4. ASSUME NEW i \in 1 .. N, i - 1 \in T PROVE i \in T
  <2> DEFINE d == events[i].delta
  <2>1. c[i - 1] \in [Tasks -> Copies] /\ Under(c[i - 1], y)
    BY <1>4
  <2>2. /\ d \in Deltas /\ (d.type = "created" => d.row.v = d.v)
        /\ y.rows[d.task].v > 0 => d.v <= y.rows[d.task].v
    OBVIOUS
  <2>3. c[i] = ApplyTo(c[i - 1], d)
    BY <1>2
  <2> HIDE DEF d
  <2>4. c[i] \in [Tasks -> Copies]
    BY <2>1, <2>2, <2>3, ApplyToType
  <2>5. Under(c[i], y)
    BY <2>1, <2>2, <2>3, ApplyUnder
  <2> QED
    BY <2>4, <2>5
<1>5. 0 .. N \subseteq T
  <2> HIDE DEF T
  <2> QED
    BY <1>1, <1>3, <1>4, Numbers
<1>6. N \in 0 .. N
  BY <1>1
<1> QED
  BY <1>5, <1>6 DEF c

\* The N events of p behind place c follow one another, the first follows n.
Chained(p, c, N, n) ==
    /\ N > 0 => p[c + 1].seq = n + 1
    /\ \A i \in 2 .. N : p[c + i].seq = p[c + (i - 1)].seq + 1

LEMMA Runs ==
    ASSUME NEW p, NEW c \in Nat, NEW N \in Nat, NEW n \in Nat, Chained(p, c, N, n)
    PROVE  \A i \in 1 .. N : p[c + i].seq = n + i
<1>0. /\ N > 0 => p[c + 1].seq = n + 1
      /\ \A i \in 2 .. N : p[c + i].seq = p[c + (i - 1)].seq + 1
  BY DEF Chained
<1> DEFINE T == {i \in 0 .. N : i = 0 \/ p[c + i].seq = n + i}
<1>1. 0 \in T
  OBVIOUS
<1>2. ASSUME NEW i \in 1 .. N, i - 1 \in T PROVE i \in T
  <2>1. CASE i = 1
    BY <1>0, <2>1
  <2>2. CASE i # 1
    <3>1. i \in 2 .. N /\ i - 1 # 0
      BY <2>2
    <3>2. p[c + (i - 1)].seq = n + (i - 1)
      BY <1>2, <3>1
    <3>3. p[c + i].seq = n + (i - 1) + 1
      BY <1>0, <3>1, <3>2
    <3>4. n + (i - 1) + 1 = n + i
      OBVIOUS
    <3> QED
      BY <3>3, <3>4
  <2> QED
    BY <2>1, <2>2
<1>3. 0 .. N \subseteq T
  <2> HIDE DEF T
  <2> QED
    BY <1>1, <1>2, Numbers
<1>4. \A i \in 1 .. N : i \in 0 .. N /\ i # 0
  OBVIOUS
<1> QED
  BY <1>3, <1>4

\* A snapshot that is not older than the map replaces it.
LEMMA InstallIs ==
    ASSUME NEW m \in [Tasks -> Copies], NEW s, s.rows \in [Tasks -> Copies], Under(m, s)
    PROVE  Install(m, s) = s.rows
<1>1. \A t \in Tasks : m[t].v \in Nat /\ s.rows[t].v \in Nat
  BY DEF Copies
<1>2. \A t \in Tasks : ~(s.rows[t].v > 0 /\ m[t].v > s.rows[t].v)
  BY <1>1 DEF Under
<1>3. Install(m, s) = [t \in Tasks |-> s.rows[t]]
  BY <1>2 DEF Install
<1> QED
  BY <1>3

\* The deltas a batch applies follow one another in the stream, from where its
\* ground stands to where its watermark will.
LEMMA PipeRuns ==
    ASSUME NEW w \in Worlds, NEW u \in Screens, Piped(w, u), u.pipe # <<>>,
           u.mark <= Len(w.stream), \A y \in EventsOf(u.pipe) : Fits(u, y)
    PROVE  LET b == Batch(u).ui
               q == Behind(u.pipe)
           IN  /\ ~b.resync /\ b.mark \in 0 .. Len(w.stream)
               /\ \E n \in Nat : /\ Good(w, Ground(u), n) /\ n + Len(q) = b.mark
                                 /\ \A i \in 1 .. Len(q) : q[i].seq = n + i /\ q[i].delta = w.stream[n + i]
<1> DEFINE p == u.pipe
           c == Cut(p)
           q == Behind(p)
           N == Len(p) - c
           b == Batch(u).ui
           s == p[c]
<1>1. /\ p \in Seq(Events) /\ Len(p) \in Nat \ {0} /\ DOMAIN p = 1 .. Len(p)
      /\ \A i \in 1 .. Len(p) : p[i] \in Events
      /\ u.map \in [Tasks -> Copies] /\ u.mark \in Nat
  <2>1. p \in Seq(Events) /\ u.map \in [Tasks -> Copies] /\ u.mark \in Nat
    BY DEF Screens
  <2> HIDE DEF p
  <2> QED
    BY <2>1 DEF p
<1>2. /\ c \in 0 .. Len(p) /\ (c # 0 => s.type = "snapshot")
      /\ \A i \in c + 1 .. Len(p) : p[i].type = "delta"
  BY <1>1, CutIs
<1>3. N \in Nat /\ Len(w.stream) \in Nat /\ N = Len(p) - c
  BY <1>1, <1>2, WorldIs
<1>4. Len(q) = N /\ \A i \in 1 .. N : q[i] = p[c + i]
  BY <1>1, BehindIs
<1>5. /\ \A i \in 1 .. Len(p) : Sound(w, p[i])
      /\ \A i \in 1 .. Len(p) : p[i].type = "delta" =>
            /\ ~u.resync
            /\ i > 1 => p[i].seq = p[i - 1].seq + 1
            /\ i = 1 => Good(w, u.map, p[i].seq - 1)
            /\ i = Len(p) => u.mark = p[i].seq
      /\ p[Len(p)].type = "snapshot" => u.mark <= p[Len(p)].seq
  BY <1>1 DEF Piped
<1>6. \A i \in 1 .. N : /\ c + i \in c + 1 .. Len(p) /\ c + i \in 1 .. Len(p)
                        /\ p[c + i].type = "delta"
                        /\ p[c + i].seq \in 1 .. Len(w.stream) /\ p[c + i].delta = w.stream[p[c + i].seq]
  <2> SUFFICES ASSUME NEW i \in 1 .. N
               PROVE  /\ c + i \in c + 1 .. Len(p) /\ c + i \in 1 .. Len(p)
                      /\ p[c + i].type = "delta"
                      /\ p[c + i].seq \in 1 .. Len(w.stream) /\ p[c + i].delta = w.stream[p[c + i].seq]
    OBVIOUS
  <2>1. c + i \in c + 1 .. Len(p) /\ c + i \in 1 .. Len(p)
    BY <1>1, <1>2
  <2>2. p[c + i].type = "delta" /\ Sound(w, p[c + i])
    BY <1>2, <1>5, <2>1
  <2> QED
    BY <2>1, <2>2 DEF Sound
<1>7. \A i \in 2 .. N : p[c + i].seq = p[c + (i - 1)].seq + 1
  <2> SUFFICES ASSUME NEW i \in 2 .. N PROVE p[c + i].seq = p[c + (i - 1)].seq + 1
    OBVIOUS
  <2>1. i \in 1 .. N /\ c + i > 1 /\ (c + i) - 1 = c + (i - 1)
    BY <1>2, <1>3
  <2>2. p[c + i].seq = p[(c + i) - 1].seq + 1
    BY <1>5, <1>6, <2>1
  <2> QED
    BY <2>1, <2>2
<1>8. N > 0 => ~u.resync /\ u.mark = p[c + N].seq
  <2> SUFFICES ASSUME N > 0 PROVE ~u.resync /\ u.mark = p[c + N].seq
    OBVIOUS
  <2>1. N \in 1 .. N /\ c + N = Len(p)
    BY <1>1, <1>2, <1>3
  <2> QED
    BY <1>5, <1>6, <2>1
<1>9. /\ c = 0 => b.mark = u.mark /\ b.resync = u.resync
      /\ c # 0 => b.mark = (IF u.mark >= s.seq THEN u.mark ELSE s.seq) /\ b.resync = FALSE
  BY BatchIs
<1> HIDE DEF p, c, q, N, b, s
<1>10. CASE c = 0
  <2> DEFINE n == p[1].seq - 1
  <2>1. N = Len(p) /\ N > 0 /\ 1 \in 1 .. N /\ c + 1 = 1 /\ c + N = N
    BY <1>1, <1>3, <1>10
  <2>2. p[1].type = "delta" /\ p[1].seq \in 1 .. Len(w.stream) /\ 1 \in 1 .. Len(p)
    BY <1>6, <2>1
  <2>3. n \in Nat /\ p[1].seq = n + 1
    BY <2>2
  <2>4. Good(w, u.map, n)
    BY <1>5, <2>2
  <2>5. \A i \in 1 .. N : p[c + i].seq = n + i
    <3> HIDE DEF n
    <3>1. N > 0 => p[c + 1].seq = n + 1
      BY <2>1, <2>3
    <3>2. c \in Nat
      BY <1>10
    <3> QED
      <4>1. Chained(p, c, N, n)
        BY <1>7, <3>1 DEF Chained
      <4> QED
        BY <1>3, <2>3, <3>2, <4>1, Runs
  <2> HIDE DEF n
  <2>6. u.mark = n + N
    <3>1. N \in 1 .. N
      BY <1>3, <2>1
    <3> QED
      BY <1>8, <2>1, <2>5, <3>1
  <2>7. \A i \in 1 .. N : q[i].seq = n + i /\ q[i].delta = w.stream[n + i]
    BY <1>4, <1>6, <2>5
  <2>8. Ground(u) = u.map
    BY <1>10 DEF Ground, c, p
  <2>9. ~b.resync /\ b.mark \in 0 .. Len(w.stream) /\ n + Len(q) = b.mark
    BY <1>1, <1>3, <1>4, <1>8, <1>9, <1>10, <2>1, <2>6
  <2> QED
    BY <1>4, <2>3, <2>4, <2>7, <2>8, <2>9 DEF b, q, p
<1>11. CASE c # 0
  <2> DEFINE n == s.seq
  <2>1. c \in 1 .. Len(p) /\ c \in Nat
    BY <1>1, <1>2, <1>11
  <2>2. Sound(w, s) /\ s \in Events /\ s.type = "snapshot" /\ Fits(u, s)
    BY <1>1, <1>2, <1>5, <1>11, <2>1 DEF s, EventsOf, p
  <2>3. n \in 0 .. Len(w.stream) /\ n \in Nat /\ Good(w, s.rows, n) /\ Under(u.map, s) /\ s.rows \in [Tasks -> Copies]
    BY <1>3, <2>2, EventIs DEF Sound, Fits
  <2>4. Ground(u) = s.rows
    BY <1>1, <1>11, <2>3, InstallIs DEF Ground, c, s, p
  <2>5. \A i \in 1 .. N : p[c + i].seq = n + i
    <3>1. N > 0 => p[c + 1].seq = n + 1
      <4> SUFFICES ASSUME N > 0 PROVE p[c + 1].seq = n + 1
        OBVIOUS
      <4>1. 1 \in 1 .. N /\ c + 1 > 1 /\ (c + 1) - 1 = c
        BY <1>3, <2>1
      <4> QED
        BY <1>5, <1>6, <4>1 DEF s
    <3> HIDE DEF n
    <3> QED
      <4>1. Chained(p, c, N, n)
        BY <1>7, <3>1 DEF Chained
      <4> QED
        BY <1>3, <2>1, <2>3, <4>1, Runs
  <2>6. \A i \in 1 .. N : q[i].seq = n + i /\ q[i].delta = w.stream[n + i]
    BY <1>4, <1>6, <2>5
  <2>7. b.mark = n + N
    <3>1. CASE N > 0
      <4>1. N \in 1 .. N
        BY <1>3, <3>1
      <4>2. u.mark = n + N
        BY <1>8, <2>5, <3>1, <4>1
      <4> QED
        BY <1>3, <1>9, <1>11, <2>3, <4>2
    <3>2. CASE ~(N > 0)
      <4>1. N = 0 /\ c = Len(p)
        <5> DEFINE l == Len(p)
        <5>1. N = 0
          BY <1>3, <3>2
        <5>2. N = l - c /\ l \in Nat /\ c \in Nat
          BY <1>1, <1>3, <2>1
        <5> HIDE DEF l
        <5>3. c = l
          BY <5>1, <5>2
        <5> QED
          BY <5>1, <5>3 DEF l
      <4>2. u.mark <= n
        BY <1>5, <2>2, <4>1 DEF s
      <4> QED
        BY <1>1, <1>9, <1>11, <2>3, <4>1, <4>2
    <3> QED
      BY <3>1, <3>2
  <2>8. b.mark \in 0 .. Len(w.stream) /\ ~b.resync
    BY <1>1, <1>3, <1>9, <1>11, <2>3
  <2> HIDE DEF n
  <2> QED
    BY <1>4, <2>3, <2>4, <2>6, <2>7, <2>8 DEF b, q, p
<1> QED
  BY <1>10, <1>11

LEMMA BatchScreen ==
    ASSUME NEW w \in Worlds, Telling(w), NEW u \in Screens, NEW S \in SUBSET Events, Screen(w, u, S)
    PROVE  Screen(w, Batch(u).ui, S)
<1> DEFINE p == u.pipe
           q == Behind(p)
           g == Ground(u)
           b == Batch(u).ui
           c == Cut(p)
           s == p[c]
<1>1. /\ b \in Screens /\ b.pipe = <<>> /\ b.gaveUp = u.gaveUp /\ b.target = u.target
      /\ b.map = Applied(g, q)[Len(q)]
      /\ c = 0 => b.mark = u.mark /\ b.resync = u.resync /\ b.failures = u.failures
      /\ c # 0 => /\ b.mark = IF u.mark >= s.seq THEN u.mark ELSE s.seq
                  /\ b.resync = FALSE
                  /\ b.failures = IF s.seq >= u.target THEN 0 ELSE u.failures
  BY BatchIs
<1>2. /\ WholesOf(u.map, w.log) /\ Piped(w, u)
      /\ u.mark <= Len(w.stream) /\ u.target <= Len(w.stream)
      /\ ~u.gaveUp /\ (u.failures # 0 => u.failures = 1 /\ u.resync)
      /\ \A x \in EventsOf(p), y \in S : Precedes(x, y)
      /\ \A y \in S : Fits(u, y) /\ (y.type = "snapshot" => u.mark <= y.seq)
      /\ \A y \in EventsOf(p) : Fits(u, y)
  BY DEF Screen, Before
<1>3. /\ p \in Seq(Events) /\ Len(p) \in Nat /\ DOMAIN p = 1 .. Len(p) /\ \A i \in 1 .. Len(p) : p[i] \in Events
      /\ u.map \in [Tasks -> Copies] /\ u.mark \in Nat /\ u.target \in Nat
  <2>1. p \in Seq(Events) /\ u.map \in [Tasks -> Copies] /\ u.mark \in Nat /\ u.target \in Nat
    BY DEF Screens
  <2> HIDE DEF p
  <2> QED
    BY <2>1
<1>4. /\ c \in 0 .. Len(p) /\ (c # 0 => s.type = "snapshot" /\ s \in Events /\ s \in EventsOf(p))
      /\ \A i \in c + 1 .. Len(p) : p[i].type = "delta"
  <2>1. c \in 0 .. Len(p) /\ (c # 0 => s.type = "snapshot")
    BY <1>3, CutIs
  <2>2. c # 0 => c \in 1 .. Len(p)
    BY <1>3, <2>1
  <2> QED
    BY <1>3, <2>1, <2>2, CutIs DEF EventsOf
<1>5. /\ q \in Seq(Events) /\ Len(q) \in Nat /\ Len(q) = Len(p) - c
      /\ \A i \in 1 .. Len(q) : q[i] = p[c + i] /\ q[i] \in EventsOf(p) /\ q[i].type = "delta" /\ q[i] \in Events
  <2>1. q \in Seq(Events) /\ Len(q) = Len(p) - c
        /\ \A i \in 1 .. Len(p) - c : q[i] = p[c + i] /\ q[i].type = "delta"
    BY <1>3, BehindIs
  <2>2. Len(q) \in Nat /\ \A i \in 1 .. Len(q) : q[i] \in Events
    <3> HIDE DEF q
    <3> QED
      BY <2>1
  <2>3. \A i \in 1 .. Len(p) - c : c + i \in 1 .. Len(p)
    BY <1>3, <1>4
  <2>4. \A i \in 1 .. Len(p) - c : p[c + i] \in EventsOf(p)
    BY <1>3, <2>3 DEF EventsOf
  <2> QED
    BY <2>1, <2>2, <2>4
<1>6. ASSUME NEW y \in S, y.type = "snapshot"
      PROVE  y.seq \in Nat /\ y.rows \in [Tasks -> Copies] /\ Under(u.map, y) /\ u.mark <= y.seq
  BY <1>2, <1>6, EventIs DEF Fits
<1> HIDE DEF p, q, b, c, s, g
<1>7. g \in [Tasks -> Copies] /\ \A y \in S : y.type = "snapshot" => Under(g, y)
  <2>1. CASE c = 0
    <3>1. g = u.map
      BY <2>1 DEF g, Ground, c, p
    <3> QED
      BY <1>3, <1>6, <3>1
  <2>2. CASE c # 0
    <3>1. s.rows \in [Tasks -> Copies] /\ Under(u.map, s) /\ s.type = "snapshot"
      BY <1>2, <1>4, <2>2, EventIs DEF Fits
    <3>2. g = s.rows
      BY <1>3, <2>2, <3>1, InstallIs DEF g, Ground, c, s, p
    <3>3. \A y \in S : y.type = "snapshot" => Under(s.rows, y)
      <4> SUFFICES ASSUME NEW y \in S, y.type = "snapshot" PROVE Under(s.rows, y)
        OBVIOUS
      <4>1. Precedes(s, y)
        BY <1>2, <1>4, <2>2
      <4> QED
        BY <3>1, <4>1 DEF Precedes
    <3> QED
      BY <3>1, <3>2, <3>3
  <2> QED
    BY <2>1, <2>2
<1>8. \A i \in DOMAIN b.pipe : FALSE
  BY <1>1
<1>9. EventsOf(b.pipe) = {}
  BY <1>8 DEF EventsOf
<1>10. CASE p = <<>>
  <2>1. c = 0 /\ Len(q) = 0 /\ g = u.map
    <3>1. Len(p) = 0
      BY <1>10
    <3>2. c = 0
      BY <1>4, <3>1
    <3> QED
      BY <1>3, <1>4, <1>5, <3>1, <3>2 DEF g, Ground, c, p
  <2>2. b.map = u.map
    BY <1>1, <1>5, <2>1, AppliedStages
  <2>3. b.mark = u.mark /\ b.resync = u.resync /\ b.failures = u.failures
    BY <1>1, <2>1
  <2>4. b.resync \/ Good(w, b.map, b.mark)
    BY <1>2, <1>10, <2>2, <2>3 DEF Piped, p
  <2>5. Piped(w, b)
    BY <1>1, <1>8, <2>4 DEF Piped
  <2> QED
    BY <1>1, <1>2, <1>9, <2>2, <2>3, <2>5 DEF Screen, Before, Fits, b
<1>11. CASE p # <<>>
  <2>1. PICK n \in Nat : /\ ~b.resync /\ b.mark \in 0 .. Len(w.stream)
                         /\ Good(w, g, n) /\ n + Len(q) = b.mark
                         /\ \A i \in 1 .. Len(q) : q[i].seq = n + i /\ q[i].delta = w.stream[n + i]
    BY <1>2, <1>11, PipeRuns DEF b, g, q, p
  <2>2. Len(w.stream) \in Nat
    BY WorldIs
  <2>3. Good(w, b.map, b.mark)
    <3>1. n + Len(q) <= Len(w.stream)
      BY <2>1, <2>2
    <3>2. Good(w, Applied(g, q)[Len(q)], n + Len(q))
      BY <1>5, <1>7, <2>1, <3>1, AlongGood
    <3> QED
      BY <1>1, <2>1, <3>2
  <2>4. ASSUME NEW y \in S, y.type = "snapshot" PROVE Under(b.map, y)
    <3>1. ASSUME NEW i \in 1 .. Len(q)
          PROVE  LET d == q[i].delta
                 IN  /\ d \in Deltas /\ (d.type = "created" => d.row.v = d.v)
                     /\ y.rows[d.task].v > 0 => d.v <= y.rows[d.task].v
      <4> DEFINE d == q[i].delta
                 k == n + i
      <4>1. k \in 1 .. Len(w.stream) /\ d = w.stream[k]
        BY <1>5, <2>1, <2>2
      <4> HIDE DEF k
      <4>2. Told(w, k) /\ d \in Deltas
        BY <4>1, WorldIs DEF Telling
      <4>3. Says(d, w.log[d.task]) /\ d.v \in Nat
        BY <4>1, <4>2, DeltaIs DEF Told
      <4>4. d.type = "created" => d.row.v = d.v
        <5> SUFFICES ASSUME d.type = "created" PROVE d.row.v = d.v
          OBVIOUS
        <5> HIDE DEF d
        <5>1. d = Created(d.task, Version(w.log[d.task], d.v))
          BY <4>3 DEF Says, Created, Updated, Removed
        <5>2. d.row = Version(w.log[d.task], d.v)
          BY <5>1 DEF Created
        <5> QED
          BY <4>3, <5>2, VersionType
      <4>5. Precedes(q[i], y) /\ q[i].type = "delta"
        BY <1>2, <1>5
      <4>6. y.rows[d.task].v > 0 => d.v <= y.rows[d.task].v
        BY <2>4, <4>5 DEF Precedes
      <4> QED
        BY <4>2, <4>4, <4>6
    <3>2. Under(g, y) /\ y.rows \in [Tasks -> Copies]
      BY <1>6, <1>7, <2>4
    <3>3. Under(Applied(g, q)[Len(q)], y)
      BY <1>5, <1>7, <3>1, <3>2, AlongUnder
    <3> QED
      BY <1>1, <3>3
  <2>5. b.failures = 0
    <3>1. CASE c = 0
      BY <1>1, <1>2, <2>1, <3>1
    <3>2. CASE c # 0
      <4>1. s.seq \in Nat /\ (u.resync => u.target <= s.seq)
        BY <1>2, <1>4, <3>2, EventIs DEF Fits
      <4> QED
        BY <1>1, <1>2, <1>3, <3>2, <4>1
    <3> QED
      BY <3>1, <3>2
  <2>6. ASSUME NEW y \in S, y.type = "snapshot" PROVE b.mark <= y.seq
    <3>1. CASE c = 0
      BY <1>1, <1>6, <2>6, <3>1
    <3>2. CASE c # 0
      <4>1. Precedes(s, y)
        BY <1>2, <1>4, <3>2
      <4>2. s.seq <= y.seq
        BY <2>6, <4>1 DEF Precedes
      <4> QED
        BY <1>1, <1>6, <2>6, <3>2, <4>2
    <3> QED
      BY <3>1, <3>2
  <2>7. Piped(w, b)
    BY <1>1, <1>8, <2>3 DEF Piped
  <2>8. WholesOf(b.map, w.log) /\ b.mark <= Len(w.stream)
    BY <2>1, <2>2, <2>3 DEF Good
  <2>9. \A y \in S : Fits(b, y) /\ (y.type = "snapshot" => b.mark <= y.seq)
    BY <2>1, <2>4, <2>6 DEF Fits
  <2> QED
    BY <1>1, <1>2, <1>9, <2>5, <2>7, <2>8, <2>9 DEF Screen, Before, b
<1> QED
  BY <1>10, <1>11

-----------------------------------------------------------------------------
(* An event that arrives keeps the renderer right.                         *)

LEMMA EventsAppend ==
    ASSUME NEW q \in Seq(Events), NEW e \in Events
    PROVE  /\ EventsOf(Append(q, e)) = EventsOf(q) \cup {e}
           /\ EventsOf(q) \subseteq Events
<1> DEFINE r == Append(q, e)
<1>1. /\ r \in Seq(Events) /\ Len(r) = Len(q) + 1 /\ r[Len(q) + 1] = e
      /\ \A i \in 1 .. Len(q) : r[i] = q[i]
  BY AppendProperties
<1>2. Len(q) \in Nat /\ DOMAIN q = 1 .. Len(q) /\ \A i \in 1 .. Len(q) : q[i] \in Events
  OBVIOUS
<1> HIDE DEF r
<1>3. DOMAIN r = 1 .. Len(q) + 1
  BY <1>1
<1>4. 1 .. Len(q) + 1 = (1 .. Len(q)) \cup {Len(q) + 1}
  BY <1>2
<1>5. EventsOf(r) = EventsOf(q) \cup {e}
  BY <1>1, <1>2, <1>3, <1>4 DEF EventsOf
<1> QED
  BY <1>2, <1>5 DEF EventsOf, r

LEMMA ScreenFewer ==
    ASSUME NEW w, NEW u, NEW S, Screen(w, u, S), NEW T \in SUBSET S
    PROVE  Screen(w, u, T)
BY DEF Screen, Before

LEMMA PushScreen ==
    ASSUME NEW w \in Worlds, NEW u \in Screens, NEW S \in SUBSET Events, Screen(w, u, S),
           NEW e \in S, Sound(w, e), e.type = "snapshot", NEW T \in SUBSET S, Before({e}, T)
    PROVE  Screen(w, Push(u, e), T)
<1> DEFINE p == u.pipe
           q == Append(p, e)
           n == Push(u, e)
<1>1. p \in Seq(Events) /\ e \in Events
  BY DEF Screens
<1>2. /\ n.pipe = q /\ n.map = u.map /\ n.mark = u.mark /\ n.resync = u.resync /\ n.failures = u.failures
      /\ n.target = u.target /\ n.gaveUp = u.gaveUp
  BY DEF Push, Screens
<1>3. /\ Len(q) = Len(p) + 1 /\ q[Len(p) + 1] = e /\ \A i \in 1 .. Len(p) : q[i] = p[i]
      /\ q \in Seq(Events)
  BY <1>1, AppendProperties
<1>4. EventsOf(q) = EventsOf(p) \cup {e}
  BY <1>1, EventsAppend
<1>5. Len(p) \in Nat /\ DOMAIN p = 1 .. Len(p)
  BY <1>1
<1> HIDE DEF p, q, n
<1>6. DOMAIN q = 1 .. Len(p) + 1 /\ q # <<>>
  BY <1>3, <1>5
<1>7. \A i \in 1 .. Len(p) + 1 : i \in 1 .. Len(p) \/ i = Len(p) + 1
  BY <1>5
<1>8. /\ \A i \in 1 .. Len(p) : Sound(w, p[i])
      /\ \A i \in 1 .. Len(p) : p[i].type = "delta" =>
            /\ ~u.resync
            /\ i > 1 => p[i].seq = p[i - 1].seq + 1
            /\ i = 1 => Good(w, u.map, p[i].seq - 1)
  BY <1>5 DEF Screen, Piped, p
<1>9. u.mark <= e.seq /\ Fits(u, e)
  BY DEF Screen
<1>10. \A i \in 1 .. Len(p) + 1 : Sound(w, q[i])
  BY <1>3, <1>7, <1>8
<1>11. \A i \in 1 .. Len(p) + 1 : q[i].type = "delta" =>
            /\ i \in 1 .. Len(p) /\ ~u.resync
            /\ i > 1 => q[i].seq = q[i - 1].seq + 1
            /\ i = 1 => Good(w, u.map, q[i].seq - 1)
  <2> SUFFICES ASSUME NEW i \in 1 .. Len(p) + 1, q[i].type = "delta"
               PROVE  /\ i \in 1 .. Len(p) /\ ~u.resync
                      /\ i > 1 => q[i].seq = q[i - 1].seq + 1
                      /\ i = 1 => Good(w, u.map, q[i].seq - 1)
    OBVIOUS
  <2>1. i \in 1 .. Len(p) /\ q[i] = p[i]
    BY <1>3, <1>7
  <2>2. i > 1 => i - 1 \in 1 .. Len(p)
    BY <2>1
  <2> QED
    BY <1>3, <1>8, <2>1, <2>2
<1>12. \A i \in 1 .. Len(p) : i # Len(p) + 1
  BY <1>5
<1>13. Piped(w, n)
  BY <1>2, <1>3, <1>6, <1>9, <1>10, <1>11, <1>12 DEF Piped
<1>14. Before(EventsOf(q), T)
  BY <1>4 DEF Before, Screen, p
<1>15. \A y : Fits(u, y) => Fits(n, y)
  BY <1>2 DEF Fits
<1> QED
  BY <1>2, <1>4, <1>9, <1>13, <1>14, <1>15 DEF Screen, n, p

LEMMA AcceptScreen ==
    ASSUME NEW w \in Worlds, NEW u \in Screens, NEW S \in SUBSET Events, Screen(w, u, S),
           NEW e \in S, Sound(w, e), e.type = "delta", ~u.resync, e.seq = u.mark + 1,
           NEW T \in SUBSET S, Before({e}, T)
    PROVE  Screen(w, Accepted(u, e), T)
<1> DEFINE p == u.pipe
           q == Append(p, e)
           n == Accepted(u, e)
<1>1. p \in Seq(Events) /\ e \in Events /\ u.mark \in Nat /\ Len(w.stream) \in Nat
  BY WorldIs DEF Screens
<1>2. /\ n.pipe = q /\ n.map = u.map /\ n.mark = e.seq /\ n.resync = u.resync /\ n.failures = 0
      /\ n.target = u.target /\ n.gaveUp = u.gaveUp
  BY DEF Accepted, Push, Screens
<1>3. /\ Len(q) = Len(p) + 1 /\ q[Len(p) + 1] = e /\ \A i \in 1 .. Len(p) : q[i] = p[i]
      /\ q \in Seq(Events)
  BY <1>1, AppendProperties
<1>4. EventsOf(q) = EventsOf(p) \cup {e}
  BY <1>1, EventsAppend
<1>5. Len(p) \in Nat /\ DOMAIN p = 1 .. Len(p) /\ \A i \in 1 .. Len(p) : p[i] \in Events
  BY <1>1
<1> HIDE DEF p, q, n
<1>6. DOMAIN q = 1 .. Len(p) + 1 /\ q # <<>>
  BY <1>3, <1>5
<1>7. \A i \in 1 .. Len(p) + 1 : i \in 1 .. Len(p) \/ i = Len(p) + 1
  BY <1>5
<1>8. /\ \A i \in 1 .. Len(p) : Sound(w, p[i])
      /\ \A i \in 1 .. Len(p) : p[i].type = "delta" =>
            /\ i > 1 => p[i].seq = p[i - 1].seq + 1
            /\ i = 1 => Good(w, u.map, p[i].seq - 1)
            /\ i = Len(p) => u.mark = p[i].seq
      /\ p # <<>> /\ p[Len(p)].type = "snapshot" => u.mark <= p[Len(p)].seq
      /\ p = <<>> => Good(w, u.map, u.mark)
  BY <1>5 DEF Screen, Piped, p
<1>9. \A x \in EventsOf(p) : Precedes(x, e)
  BY DEF Screen, Before, p
<1>10. \A i \in 1 .. Len(p) + 1 : Sound(w, q[i])
  BY <1>3, <1>7, <1>8
<1>11. Len(p) # 0 => p[Len(p)].seq = u.mark
  <2> SUFFICES ASSUME Len(p) # 0 PROVE p[Len(p)].seq = u.mark
    OBVIOUS
  <2> DEFINE x == p[Len(p)]
  <2>1. Len(p) \in 1 .. Len(p)
    BY <1>5
  <2>2. x \in Events /\ x \in EventsOf(p) /\ p # <<>>
    BY <1>1, <1>5, <2>1 DEF EventsOf
  <2>3. x.type \in {"delta", "snapshot"} /\ x.seq \in Nat
    BY <2>2, EventIs
  <2>4. x.seq < e.seq
    BY <1>9, <2>2 DEF Precedes
  <2>5. x.type = "snapshot" => u.mark <= x.seq
    BY <1>8, <2>2
  <2>6. x.type = "delta" => u.mark = x.seq
    BY <1>8, <2>1
  <2> HIDE DEF x
  <2>7. x.seq = u.mark
    BY <1>1, <2>3, <2>4, <2>5, <2>6
  <2> QED
    BY <2>7 DEF x
<1>12. \A i \in 1 .. Len(p) + 1 : q[i].type = "delta" =>
            /\ i > 1 => q[i].seq = q[i - 1].seq + 1
            /\ i = 1 => Good(w, u.map, q[i].seq - 1)
            /\ i = Len(p) + 1 => n.mark = q[i].seq
  <2> SUFFICES ASSUME NEW i \in 1 .. Len(p) + 1, q[i].type = "delta"
               PROVE  /\ i > 1 => q[i].seq = q[i - 1].seq + 1
                      /\ i = 1 => Good(w, u.map, q[i].seq - 1)
                      /\ i = Len(p) + 1 => n.mark = q[i].seq
    OBVIOUS
  <2>1. CASE i \in 1 .. Len(p)
    <3>1. q[i] = p[i] /\ i # Len(p) + 1
      BY <1>3, <1>5, <2>1
    <3>2. i > 1 => i - 1 \in 1 .. Len(p)
      BY <2>1
    <3> QED
      BY <1>3, <1>8, <2>1, <3>1, <3>2
  <2>2. CASE i = Len(p) + 1
    <3>1. q[i] = e /\ n.mark = q[i].seq
      BY <1>2, <1>3, <2>2
    <3>2. ASSUME i > 1 PROVE q[i].seq = q[i - 1].seq + 1
      <4>1. Len(p) # 0 /\ i - 1 = Len(p) /\ Len(p) \in 1 .. Len(p)
        BY <1>5, <2>2, <3>2
      <4>2. q[i - 1].seq = u.mark
        BY <1>3, <1>11, <4>1
      <4> QED
        BY <3>1, <4>2
    <3>3. ASSUME i = 1 PROVE Good(w, u.map, q[i].seq - 1)
      <4>1. p = <<>>
        BY <1>1, <1>5, <2>2, <3>3
      <4>2. e.seq - 1 = u.mark
        BY <1>1
      <4> QED
        BY <1>8, <3>1, <4>1, <4>2
    <3> QED
      BY <3>1, <3>2, <3>3
  <2> QED
    BY <1>7, <2>1, <2>2
<1>13. q[Len(q)].type # "snapshot"
  BY <1>3
<1>14. Piped(w, n)
  BY <1>2, <1>3, <1>6, <1>10, <1>12, <1>13 DEF Piped
<1>15. Before(EventsOf(q), T)
  BY <1>4 DEF Before, Screen, p
<1>16. \A y : Fits(u, y) => Fits(n, y)
  BY <1>2 DEF Fits
<1>17. Fits(n, e)
  BY DEF Fits
<1>18. \A y \in T : y.type = "snapshot" => n.mark <= y.seq
  <2>1. \A y \in T : Precedes(e, y)
    BY DEF Before
  <2> QED
    BY <1>2, <2>1 DEF Precedes
<1>19. n.mark <= Len(w.stream)
  BY <1>1, <1>2 DEF Sound
<1> QED
  BY <1>2, <1>4, <1>14, <1>15, <1>16, <1>17, <1>18, <1>19 DEF Screen, n, p

LEMMA AwaitScreen ==
    ASSUME NEW w \in Worlds, NEW u \in Screens, NEW S \in SUBSET Events, Screen(w, u, S),
           NEW e \in S, Sound(w, e), e.type = "delta", ~u.resync,
           NEW T \in SUBSET S, Before({e}, T)
    PROVE  Screen(w, Awaiting(u, e), T)
<1> DEFINE n == Awaiting(u, e)
<1>1. u.failures \in Nat /\ Len(w.stream) \in Nat /\ e \in Events
  BY WorldIs DEF Screens
<1>2. /\ n.pipe = <<>> /\ n.map = u.map /\ n.mark = u.mark /\ n.failures = u.failures + 1
      /\ n.target = e.seq /\ n.gaveUp = u.gaveUp
  BY DEF Awaiting, Screens
<1>3. n.resync
  BY DEF Awaiting, Screens
<1> HIDE DEF n
<1>4. u.failures = 0
  BY DEF Screen
<1>5. n.failures = 1
  BY <1>2, <1>4
<1>6. \A i \in DOMAIN n.pipe : FALSE
  BY <1>2
<1>7. Piped(w, n)
  BY <1>2, <1>3, <1>6 DEF Piped
<1>8. EventsOf(n.pipe) = {}
  BY <1>6 DEF EventsOf
<1>9. e.seq <= Len(w.stream)
  BY <1>1 DEF Sound
<1>10. \A y \in T : Fits(n, y)
  <2>1. \A y \in T : Precedes(e, y) /\ Fits(u, y)
    BY DEF Before, Screen
  <2> QED
    BY <1>2, <2>1 DEF Fits, Precedes
<1> QED
  BY <1>2, <1>3, <1>5, <1>7, <1>8, <1>9, <1>10 DEF Screen, Before, n

LEMMA HandleScreen ==
    ASSUME NEW w \in Worlds, Telling(w), NEW u \in Screens, NEW S \in SUBSET Events, Screen(w, u, S),
           NEW e \in S, Sound(w, e), NEW T \in SUBSET S, Before({e}, T)
    PROVE  Screen(w, Handle(u, e).ui, T)
<1>0. e \in Events /\ T \in SUBSET Events
  OBVIOUS
<1>1. CASE e.type = "snapshot" /\ Handle(u, e) = [ui |-> Push(u, e), asks |-> 0]
  BY <1>1, PushScreen
<1>2. CASE Handle(u, e) = [ui |-> u, asks |-> 0]
  BY <1>2, ScreenFewer
<1>3. CASE /\ e.type = "delta" /\ ~u.resync /\ e.seq = u.mark + 1
           /\ Handle(u, e) \in {[ui |-> Accepted(u, e), asks |-> 0], Batch(Accepted(u, e))}
  <2>1. Screen(w, Accepted(u, e), T)
    BY <1>3, AcceptScreen
  <2>2. Accepted(u, e) \in Screens
    BY <1>0, <1>3, PushType
  <2>3. Screen(w, Batch(Accepted(u, e)).ui, T)
    BY <1>0, <2>1, <2>2, BatchScreen
  <2> QED
    BY <1>3, <2>1, <2>3
<1>4. ~(~u.resync /\ u.failures >= MaxFailures)
  <2>1. u.failures # 0 => u.resync
    BY DEF Screen
  <2> QED
    BY <2>1, FeedBoundsAssumption DEF Screens
<1>5. CASE e.type = "delta" /\ ~u.resync /\ Handle(u, e) = [ui |-> Awaiting(u, e), asks |-> 1]
  BY <1>5, AwaitScreen
<1> QED
  BY <1>0, <1>1, <1>2, <1>3, <1>4, <1>5, HandleIs

-----------------------------------------------------------------------------
(* The queues between the main process and the renderer.                   *)

\* An event that nothing on its way comes after.
Newest(e, S) == \A x \in S : Precedes(x, e)

LEMMA SortedAppend ==
    ASSUME NEW q \in Seq(Events), NEW e \in Events, Sorted(q), Newest(e, EventsOf(q))
    PROVE  Sorted(Append(q, e))
<1> DEFINE r == Append(q, e)
<1>1. /\ r \in Seq(Events) /\ Len(r) = Len(q) + 1 /\ r[Len(q) + 1] = e
      /\ \A i \in 1 .. Len(q) : r[i] = q[i]
  BY AppendProperties
<1>2. Len(q) \in Nat /\ DOMAIN q = 1 .. Len(q)
  OBVIOUS
<1> HIDE DEF r
<1>3. DOMAIN r = 1 .. Len(q) + 1
  BY <1>1
<1>4. ASSUME NEW i \in 1 .. Len(q) + 1, NEW j \in 1 .. Len(q) + 1, i < j
      PROVE  Precedes(r[i], r[j])
  <2>1. i \in 1 .. Len(q) /\ r[i] = q[i]
    BY <1>1, <1>2, <1>4
  <2>2. CASE j \in 1 .. Len(q)
    BY <1>1, <1>2, <1>4, <2>1, <2>2 DEF Sorted
  <2>3. CASE j = Len(q) + 1
    <3>1. q[i] \in EventsOf(q)
      BY <1>2, <2>1 DEF EventsOf
    <3> QED
      BY <1>1, <2>1, <2>3, <3>1 DEF Newest
  <2> QED
    BY <1>2, <2>2, <2>3
<1> QED
  BY <1>3, <1>4 DEF Sorted, r

LEMMA QueueSend ==
    ASSUME NEW d \in Seq(Events), NEW b, NEW p \in Seq(Events), Queued(d, b, p),
           NEW e \in Events, Newest(e, WaitingIn(d, b, p))
    PROVE  /\ Queued(d, b, Append(p, e))
           /\ WaitingIn(d, b, Append(p, e)) = WaitingIn(d, b, p) \cup {e}
<1>1. EventsOf(Append(p, e)) = EventsOf(p) \cup {e}
  BY EventsAppend
<1>2. Sorted(Append(p, e))
  BY SortedAppend DEF Queued, Newest, WaitingIn
<1>3. /\ Before(EventsOf(d), EventsOf(Append(p, e)))
      /\ Before(BatchesOf(b), EventsOf(Append(p, e)))
  BY <1>1 DEF Queued, Before, Newest, WaitingIn
<1> QED
  BY <1>1, <1>2, <1>3 DEF Queued, WaitingIn

\* A batch at the end of the batches.
LEMMA BatchesAppend ==
    ASSUME NEW b \in Seq(Seq(Events)), NEW p \in Seq(Events)
    PROVE  LET c == Append(b, p) IN
           /\ DOMAIN c = (DOMAIN b) \cup {Len(b) + 1} /\ DOMAIN b = 1 .. Len(b) /\ Len(b) \in Nat
           /\ c[Len(b) + 1] = p /\ \A i \in DOMAIN b : c[i] = b[i]
           /\ BatchesOf(c) = BatchesOf(b) \cup EventsOf(p)
<1> DEFINE c == Append(b, p)
<1>1. /\ c \in Seq(Seq(Events)) /\ Len(c) = Len(b) + 1 /\ c[Len(b) + 1] = p
      /\ \A i \in 1 .. Len(b) : c[i] = b[i]
  BY AppendProperties
<1>2. Len(b) \in Nat /\ DOMAIN b = 1 .. Len(b)
  OBVIOUS
<1> HIDE DEF c
<1>3. DOMAIN c = 1 .. Len(b) + 1
  BY <1>1
<1>4. 1 .. Len(b) + 1 = (1 .. Len(b)) \cup {Len(b) + 1}
  BY <1>2
<1>5. DOMAIN c = (DOMAIN b) \cup {Len(b) + 1} /\ \A i \in DOMAIN b : c[i] = b[i]
  BY <1>1, <1>2, <1>3, <1>4
<1>6. BatchesOf(c) = BatchesOf(b) \cup EventsOf(p)
  <2>1. ASSUME NEW x PROVE x \in BatchesOf(c) <=> x \in BatchesOf(b) \cup EventsOf(p)
    <3>1. x \in BatchesOf(c) <=> \E i \in DOMAIN c : x \in EventsOf(c[i])
      BY DEF BatchesOf
    <3>2. x \in BatchesOf(b) <=> \E i \in DOMAIN b : x \in EventsOf(b[i])
      BY DEF BatchesOf
    <3> QED
      BY <1>1, <1>5, <3>1, <3>2
  <2> QED
    BY <2>1
<1> QED
  BY <1>1, <1>2, <1>5, <1>6 DEF c

LEMMA NoEvents == EventsOf(<<>>) = {} /\ Sorted(<<>>)
BY DEF EventsOf, Sorted

LEMMA QueueFlush ==
    ASSUME NEW d \in Seq(Events), NEW b \in Seq(Seq(Events)), NEW p \in Seq(Events), Queued(d, b, p)
    PROVE  /\ Queued(d, Append(b, p), <<>>)
           /\ WaitingIn(d, Append(b, p), <<>>) = WaitingIn(d, b, p)
<1> DEFINE c == Append(b, p)
<1>1. /\ DOMAIN c = (DOMAIN b) \cup {Len(b) + 1} /\ DOMAIN b = 1 .. Len(b) /\ Len(b) \in Nat
      /\ c[Len(b) + 1] = p /\ \A i \in DOMAIN b : c[i] = b[i]
      /\ BatchesOf(c) = BatchesOf(b) \cup EventsOf(p)
  BY BatchesAppend
<1> HIDE DEF c
<1>2. \A i \in DOMAIN c : Sorted(c[i])
  BY <1>1 DEF Queued
<1>3. Before(EventsOf(d), BatchesOf(c)) /\ Before(EventsOf(d), {}) /\ Before(BatchesOf(c), {})
  BY <1>1 DEF Queued, Before
<1>4. ASSUME NEW i \in DOMAIN c, NEW j \in DOMAIN c, i < j PROVE Before(EventsOf(c[i]), EventsOf(c[j]))
  <2>1. i \in DOMAIN b
    BY <1>1, <1>4
  <2>2. CASE j \in DOMAIN b
    BY <1>1, <1>4, <2>1, <2>2 DEF Queued
  <2>3. CASE j = Len(b) + 1
    <3>1. EventsOf(b[i]) \subseteq BatchesOf(b)
      BY <2>1 DEF BatchesOf
    <3>2. Before(BatchesOf(b), EventsOf(p))
      BY DEF Queued
    <3> QED
      BY <1>1, <2>1, <2>3, <3>1, <3>2 DEF Before
  <2> QED
    BY <1>1, <2>2, <2>3
<1>5. Sorted(d)
  BY DEF Queued
<1> QED
  BY <1>1, <1>2, <1>3, <1>4, <1>5, NoEvents DEF Queued, WaitingIn, c

\* The first of a queue of events precedes the rest.
LEMMA EventsFirst ==
    ASSUME NEW q \in Seq(Events), q # <<>>, Sorted(q)
    PROVE  /\ Head(q) \in Events /\ EventsOf(q) = {Head(q)} \cup EventsOf(Tail(q))
           /\ Sorted(Tail(q)) /\ Before({Head(q)}, EventsOf(Tail(q)))
<1> DEFINE r == Tail(q)
           h == Head(q)
<1>1. /\ h \in Events /\ r \in Seq(Events) /\ Len(r) = Len(q) - 1
      /\ \A i \in 1 .. Len(r) : r[i] = q[i + 1]
  BY HeadTailProperties
<1>2. h = q[1] /\ Len(q) \in Nat \ {0} /\ DOMAIN q = 1 .. Len(q)
  OBVIOUS
<1> HIDE DEF r, h
<1>3. DOMAIN r = 1 .. Len(q) - 1 /\ \A i \in DOMAIN r : r[i] = q[i + 1] /\ i + 1 \in DOMAIN q
  BY <1>1, <1>2
<1>4. \A i \in DOMAIN q : i = 1 \/ (i - 1 \in DOMAIN r /\ r[i - 1] = q[i])
  <2> SUFFICES ASSUME NEW i \in DOMAIN q, i # 1 PROVE i - 1 \in DOMAIN r /\ r[i - 1] = q[i]
    OBVIOUS
  <2>1. i - 1 \in DOMAIN r /\ (i - 1) + 1 = i
    BY <1>2, <1>3
  <2> QED
    BY <1>3, <2>1
<1>5. EventsOf(q) = {h} \cup EventsOf(r)
  <2>1. 1 \in DOMAIN q
    BY <1>2
  <2> QED
    BY <1>2, <1>3, <1>4, <2>1 DEF EventsOf
<1>6. Sorted(r)
  <2> SUFFICES ASSUME NEW i \in DOMAIN r, NEW j \in DOMAIN r, i < j PROVE Precedes(r[i], r[j])
    BY DEF Sorted
  <2>1. i + 1 < j + 1
    BY <1>3
  <2> QED
    BY <1>3, <2>1 DEF Sorted
<1>7. Before({h}, EventsOf(r))
  <2> SUFFICES ASSUME NEW j \in DOMAIN r PROVE Precedes(h, r[j])
    BY DEF Before, EventsOf
  <2>1. 1 < j + 1 /\ 1 \in DOMAIN q
    BY <1>2, <1>3
  <2> QED
    BY <1>2, <1>3, <2>1 DEF Sorted
<1> QED
  BY <1>1, <1>5, <1>6, <1>7 DEF h, r

LEMMA QueueDrain ==
    ASSUME NEW d \in Seq(Events), d # <<>>, NEW b, NEW p, Queued(d, b, p)
    PROVE  LET S == WaitingIn(d, b, p)
               T == WaitingIn(Tail(d), b, p)
           IN  /\ Queued(Tail(d), b, p) /\ T \subseteq S
               /\ Head(d) \in S /\ Before({Head(d)}, T)
<1>1. /\ EventsOf(d) = {Head(d)} \cup EventsOf(Tail(d))
      /\ Sorted(Tail(d)) /\ Before({Head(d)}, EventsOf(Tail(d)))
  BY EventsFirst DEF Queued
<1> QED
  BY <1>1 DEF Queued, WaitingIn, Before

\* The batch that arrives first precedes all that is behind it.
LEMMA QueueArrive ==
    ASSUME NEW b \in Seq(Seq(Events)), b # <<>>, NEW p, Queued(<<>>, b, p)
    PROVE  LET S == WaitingIn(<<>>, b, p)
               T == WaitingIn(<<>>, Tail(b), p)
           IN  /\ Queued(<<>>, Tail(b), p) /\ T \subseteq S
               /\ EventsOf(Head(b)) \subseteq S /\ Before(EventsOf(Head(b)), T)
               /\ Queued(Head(b), Tail(b), p) /\ WaitingIn(Head(b), Tail(b), p) = S
<1> DEFINE r == Tail(b)
           h == Head(b)
<1>1. /\ h \in Seq(Events) /\ r \in Seq(Seq(Events)) /\ Len(r) = Len(b) - 1
      /\ \A i \in 1 .. Len(r) : r[i] = b[i + 1]
  BY HeadTailProperties
<1>2. h = b[1] /\ Len(b) \in Nat \ {0} /\ DOMAIN b = 1 .. Len(b)
  OBVIOUS
<1> HIDE DEF r, h
<1>3. /\ DOMAIN r = 1 .. Len(b) - 1 /\ \A i \in DOMAIN r : r[i] = b[i + 1] /\ i + 1 \in DOMAIN b
      /\ 1 \in DOMAIN b
  BY <1>1, <1>2
<1>4. \A i \in DOMAIN b : i = 1 \/ (i - 1 \in DOMAIN r /\ r[i - 1] = b[i])
  <2> SUFFICES ASSUME NEW i \in DOMAIN b, i # 1 PROVE i - 1 \in DOMAIN r /\ r[i - 1] = b[i]
    OBVIOUS
  <2>1. i - 1 \in DOMAIN r /\ (i - 1) + 1 = i
    BY <1>2, <1>3
  <2> QED
    BY <1>3, <2>1
<1>5. BatchesOf(b) = EventsOf(h) \cup BatchesOf(r)
  <2>1. ASSUME NEW x PROVE x \in BatchesOf(b) <=> x \in EventsOf(h) \cup BatchesOf(r)
    <3>1. x \in BatchesOf(b) <=> \E i \in DOMAIN b : x \in EventsOf(b[i])
      BY DEF BatchesOf
    <3>2. x \in BatchesOf(r) <=> \E i \in DOMAIN r : x \in EventsOf(r[i])
      BY DEF BatchesOf
    <3> QED
      BY <1>2, <1>3, <1>4, <3>1, <3>2
  <2> QED
    BY <2>1
<1>6. /\ \A i \in DOMAIN b : Sorted(b[i])
      /\ \A i, j \in DOMAIN b : i < j => Before(EventsOf(b[i]), EventsOf(b[j]))
      /\ Before(BatchesOf(b), EventsOf(p)) /\ Sorted(p)
  BY DEF Queued
<1>7. Sorted(h) /\ \A i \in DOMAIN r : Sorted(r[i])
  BY <1>2, <1>3, <1>6
<1>8. \A i, j \in DOMAIN r : i < j => Before(EventsOf(r[i]), EventsOf(r[j]))
  <2> SUFFICES ASSUME NEW i \in DOMAIN r, NEW j \in DOMAIN r, i < j PROVE Before(EventsOf(r[i]), EventsOf(r[j]))
    OBVIOUS
  <2>1. i + 1 < j + 1
    BY <1>3
  <2> QED
    BY <1>3, <1>6, <2>1
<1>9. Before(EventsOf(h), BatchesOf(r))
  <2>1. ASSUME NEW j \in DOMAIN r PROVE Before(EventsOf(h), EventsOf(r[j]))
    <3>1. 1 < j + 1
      BY <1>3
    <3> QED
      BY <1>2, <1>3, <1>6, <3>1
  <2> QED
    BY <2>1 DEF Before, BatchesOf
<1>10. Before(EventsOf(h), EventsOf(p)) /\ Before(BatchesOf(r), EventsOf(p))
  BY <1>5, <1>6 DEF Before
<1>11. \A T : Before({}, T)
  BY DEF Before
<1>12. Queued(<<>>, r, p)
  BY <1>6, <1>7, <1>8, <1>10, <1>11, NoEvents DEF Queued
<1>13. Queued(h, r, p)
  BY <1>6, <1>7, <1>8, <1>9, <1>10 DEF Queued
<1>14. Before(EventsOf(h), WaitingIn(<<>>, r, p))
  BY <1>9, <1>10, NoEvents DEF Before, WaitingIn
<1>15. WaitingIn(<<>>, b, p) = EventsOf(h) \cup BatchesOf(r) \cup EventsOf(p)
  BY <1>5, NoEvents DEF WaitingIn
<1> QED
  BY <1>12, <1>13, <1>14, <1>15, NoEvents DEF WaitingIn, h, r

-----------------------------------------------------------------------------
(* The owner's window, through every step.                                 *)

LEMMA WorldType ==
    ASSUME FeedTypes
    PROVE  /\ World \in Worlds
           /\ World.log = log /\ World.gone = gone /\ World.stream = stream /\ World.cache = cache
<1>1. /\ log \in [Tasks -> Seq(Fields)] /\ gone \in SUBSET Tasks
      /\ stream \in Seq(Deltas) /\ cache \in [Tasks -> Copies]
  BY DEF FeedTypes
<1> QED
  BY <1>1 DEF World, Worlds

\* All that is on its way.
LEMMA WaitingType ==
    ASSUME FeedTypes
    PROVE  Waiting \in SUBSET Events /\ EventsOf(ui.pipe) \in SUBSET Events
<1>1. drain \in Seq(Events) /\ pending \in Seq(Events) /\ ui.pipe \in Seq(Events)
  BY DEF FeedTypes, Screens
<1>2. \A q \in Seq(Events) : EventsOf(q) \in SUBSET Events
  BY DEF EventsOf
<1>3. \A i \in DOMAIN ipc : ipc[i] \in Seq(Events)
  BY DEF FeedTypes
<1> QED
  BY <1>1, <1>2, <1>3 DEF Waiting, WaitingIn, BatchesOf

\* The snapshot of all rows is right where the stream stands.
LEMMA RowsGood ==
    ASSUME FeedTypes, Wholes(cache), Telling(World)
    PROVE  Good(World, AllRows, Len(stream))
<1>1. World \in Worlds /\ World.log = log /\ World.gone = gone /\ World.stream = stream /\ World.cache = cache
  BY WorldType
<1>2. /\ Wholes(AllRows)
      /\ \A t \in Tasks : RowOf(t).v = IF t \in gone THEN 0 ELSE Len(log[t])
  BY RowsAreWhole DEF FeedTypes
<1>3. \A t \in Tasks : AllRows[t].v = IF t \in gone THEN 0 ELSE Len(log[t])
  <2>1. \A t \in Tasks : AllRows[t] = RowOf(t)
    BY DEF AllRows
  <2> QED
    BY <1>2, <2>1
<1>4. Len(stream) \in Nat /\ \A t \in Tasks : Len(log[t]) \in Nat
  BY DEF FeedTypes
<1>5. \A t \in Tasks : Void(World, AllRows, t) \/ Follows(World, t, Len(stream), AllRows[t].v)
  <2> SUFFICES ASSUME NEW t \in Tasks, t \notin gone PROVE Follows(World, t, Len(stream), AllRows[t].v)
    BY <1>1, <1>3 DEF Void
  <2>1. AllRows[t].v = Len(log[t]) /\ Len(log[t]) \in 0 .. Len(log[t])
    BY <1>3, <1>4
  <2>2. cache[t].v \in 0 .. Len(log[t])
    BY DEF Wholes, WholesOf
  <2>3. Len(stream) + 1 .. Len(stream) = {}
    BY <1>4
  <2> QED
    BY <1>1, <1>4, <2>1, <2>2, <2>3 DEF Follows
<1>6. ASSUME NEW i \in 1 .. Len(stream)
      PROVE  \/ Void(World, AllRows, stream[i].task)
             \/ stream[i].type # "removed" /\ stream[i].v <= AllRows[stream[i].task].v
  <2> DEFINE d == stream[i]
  <2>1. Told(World, i)
    BY <1>1 DEF Telling
  <2>2. /\ d.task \in Tasks
        /\ d.type = "removed" => d.task \in gone
        /\ d.type # "removed" => d.v \in 1 .. Len(log[d.task])
    BY <1>1, <2>1, ToldIs
  <2> HIDE DEF d
  <2>3. CASE d.task \in gone
    BY <1>1, <1>3, <2>2, <2>3 DEF Void, d
  <2>4. CASE d.task \notin gone
    <3>1. d.type # "removed" /\ d.v <= AllRows[d.task].v
      BY <1>3, <1>4, <2>2, <2>4
    <3> QED
      BY <3>1 DEF d
  <2> QED
    BY <2>3, <2>4
<1> QED
  BY <1>1, <1>2, <1>5, <1>6 DEF Good, Wholes

\* The events that may be sent come last: the next delta of the stream, and the
\* snapshot of all rows.
LEMMA DeltaLast ==
    ASSUME NEW w \in Worlds, NEW e, e.type = "delta", e.seq = Len(w.stream) + 1, NEW x \in Events, Sound(w, x)
    PROVE  Precedes(x, e)
<1>1. Len(w.stream) \in Nat /\ x.seq \in Nat
  BY WorldIs, EventIs
<1>2. x.seq <= Len(w.stream)
  BY <1>1 DEF Sound
<1> QED
  BY <1>1, <1>2 DEF Precedes

LEMMA RowsLast ==
    ASSUME NEW w \in Worlds, Telling(w), NEW e, e.type = "snapshot", e.seq = Len(w.stream),
           \A t \in Tasks : e.rows[t].v = IF t \in w.gone THEN 0 ELSE Len(w.log[t]),
           NEW x \in Events, Sound(w, x)
    PROVE  Precedes(x, e)
<1>1. Len(w.stream) \in Nat /\ x.seq \in Nat /\ \A t \in Tasks : Len(w.log[t]) \in Nat
  BY WorldIs, EventIs
<1>2. x.seq <= Len(w.stream)
  BY <1>1 DEF Sound
<1>3. x.type = "snapshot" => Under(x.rows, e)
  <2> SUFFICES ASSUME x.type = "snapshot", NEW t \in Tasks, e.rows[t].v > 0 PROVE x.rows[t].v <= e.rows[t].v
    BY DEF Under
  <2>1. x.rows[t].v \in 0 .. Len(w.log[t])
    BY DEF Sound, Good, WholesOf
  <2>2. e.rows[t].v = Len(w.log[t])
    BY <1>1
  <2> QED
    BY <1>1, <2>1, <2>2
<1>4. x.type = "delta" => (e.rows[x.delta.task].v > 0 => x.delta.v <= e.rows[x.delta.task].v)
  <2> SUFFICES ASSUME x.type = "delta", e.rows[x.delta.task].v > 0 PROVE x.delta.v <= e.rows[x.delta.task].v
    OBVIOUS
  <2> DEFINE d == x.delta
  <2>1. x.seq \in 1 .. Len(w.stream) /\ d = w.stream[x.seq]
    BY DEF Sound
  <2>2. Told(w, x.seq)
    BY <2>1 DEF Telling
  <2>3. /\ d.task \in Tasks
        /\ d.type = "removed" => d.task \in w.gone
        /\ d.type # "removed" => d.v \in 1 .. Len(w.log[d.task])
    BY <2>1, <2>2, ToldIs
  <2> HIDE DEF d
  <2>4. d.task \notin w.gone
    BY <2>3 DEF d
  <2>5. e.rows[d.task].v = Len(w.log[d.task])
    BY <2>3, <2>4
  <2> QED
    BY <1>1, <2>3, <2>4, <2>5 DEF d
<1> QED
  BY <1>1, <1>2, <1>3, <1>4, EventIs DEF Precedes

\* A last event that fits the renderer may be sent while the world moves on.
LEMMA SendShows ==
    ASSUME FeedTypes, Shows, NEW x, Goes(World, x), NEW e \in Events, Sound(x, e),
           Newest(e, Waiting), Newest(e, EventsOf(ui.pipe)),
           e.type = "snapshot" => Fits(ui, e) /\ ui.mark <= e.seq,
           NEW flush, Send(<<e>>, flush), drain' = drain
    PROVE  LET S == WaitingIn(drain', ipc', pending')
           IN  Queued(drain', ipc', pending') /\ (\A y \in S : Sound(x, y)) /\ Screen(x, ui, S)
<1>1. /\ Queued(drain, ipc, pending) /\ \A y \in Waiting : Sound(World, y)
      /\ Screen(World, ui, Waiting)
  BY DEF Shows
<1>2. /\ drain \in Seq(Events) /\ pending \in Seq(Events) /\ ipc \in Seq(Seq(Events)) /\ ui \in Screens
  BY DEF FeedTypes
<1>3. pending \o <<e>> = Append(pending, e) /\ Append(pending, e) \in Seq(Events)
  BY <1>2, AppendIsConcat, AppendProperties
<1>4. /\ Queued(drain, ipc, Append(pending, e))
      /\ WaitingIn(drain, ipc, Append(pending, e)) = Waiting \cup {e}
  BY <1>1, <1>2, QueueSend DEF Waiting
<1>5. /\ Queued(drain', ipc', pending')
      /\ WaitingIn(drain', ipc', pending') \in {Waiting, Waiting \cup {e}}
  <2>1. CASE ~shown
    BY <1>1, <2>1 DEF Send, Waiting
  <2>2. CASE shown /\ flush
    <3>1. pending' = <<>> /\ ipc' = Append(ipc, Append(pending, e))
      BY <1>3, <2>2 DEF Send
    <3> QED
      BY <1>2, <1>3, <1>4, <3>1, QueueFlush
  <2>3. CASE shown /\ ~flush
    <3>1. pending' = Append(pending, e) /\ ipc' = ipc
      BY <1>3, <2>3 DEF Send
    <3> QED
      BY <1>4, <3>1
  <2> QED
    BY <2>1, <2>2, <2>3
<1>6. Screen(x, ui, Waiting)
  BY <1>1, <1>2, ScreenStays
<1>7. Screen(x, ui, Waiting \cup {e})
  <2>1. Fits(ui, e)
    BY DEF Fits
  <2>2. Before(EventsOf(ui.pipe), Waiting \cup {e})
    BY <1>6 DEF Screen, Before, Newest
  <2> QED
    BY <1>6, <2>1, <2>2 DEF Screen
<1>8. \A y \in Waiting \cup {e} : Sound(x, y)
  BY <1>1, SoundStays
<1> QED
  BY <1>5, <1>6, <1>7, <1>8

LEMMA WorldNext ==
    ASSUME FeedTypes'
    PROVE  /\ World' \in Worlds
           /\ World'.log = log' /\ World'.gone = gone' /\ World'.stream = stream' /\ World'.cache = cache'
<1>1. /\ log' \in [Tasks -> Seq(Fields)] /\ gone' \in SUBSET Tasks
      /\ stream' \in Seq(Deltas) /\ cache' \in [Tasks -> Copies]
  BY DEF FeedTypes
<1> QED
  BY <1>1 DEF World, Worlds

\* What the main process publishes of a task moves the world on.
LEMMA PublishGoes ==
    ASSUME FeedTypes, FeedTypes', Grows, NEW t \in Tasks, t \notin gone,
           NEW d \in Deltas, d.task = t, Says(d, log'[t]), d.type = "removed" => t \in gone',
           NEW c, cache' = [cache EXCEPT ![t] = c],
           d.type # "removed" => d.v = Len(log'[t]) /\ c.v = d.v,
           d.type = "updated" => d.v = cache[t].v + 1 /\ d.v = Len(log[t]) + 1,
           stream' = Append(stream, d)
    PROVE  Goes(World, World')
<1> DEFINE w == World
           x == World'
<1>1. /\ w \in Worlds /\ x \in Worlds
      /\ w.log = log /\ w.gone = gone /\ w.stream = stream /\ w.cache = cache
  BY WorldType, WorldNext
<1>2. x.log = log' /\ x.gone = gone' /\ x.stream = stream' /\ x.cache = cache'
  BY WorldNext
<1>3. Longer(w.log, x.log) /\ w.gone \subseteq x.gone
  BY <1>1, <1>2 DEF Grows
<1>4. cache'[t] = c /\ \A u \in Tasks : u # t => cache'[u] = cache[u]
  BY DEF FeedTypes
<1>5. d.type # "removed" => cache'[t].v <= d.v
  <2>1. d.v \in Nat
    BY DeltaIs
  <2> QED
    BY <1>4, <2>1
<1>6. x.stream = Append(w.stream, d)
  BY <1>1, <1>2
<1> HIDE DEF w, x
<1>7. Tells(w, x, t, d)
  BY <1>1, <1>2, <1>4, <1>5, <1>6 DEF Tells
<1> QED
  BY <1>1, <1>3, <1>7 DEF Goes, w, x

\* The row itself, published again.
LEMMA RecoverGoes ==
    ASSUME FeedTypes, FeedTypes', Grows, NEW t \in Tasks, t \notin gone, NEW now \in Copies,
           now.v \in Nat \ {0}, now.v = Len(log'[t]), now = Version(log'[t], now.v), Recover(t, now)
    PROVE  Goes(World, World') /\ \E e \in Deltas : Publish(e)
<1> DEFINE d == Created(t, now)
<1>1. cache' = [cache EXCEPT ![t] = now] /\ Publish(d)
  BY DEF Recover
<1>2. d.type = "created" /\ d.task = t /\ d.v = now.v /\ d \in Deltas /\ Says(d, log'[t])
  <2>1. d.type = "created" /\ d.task = t /\ d.v = now.v /\ d \in Deltas
    BY DEF Created, Deltas, Copies
  <2>2. d.v \in 1 .. Len(log'[t]) /\ d.v \in Nat
    BY <2>1
  <2>3. d = Created(d.task, Version(log'[t], d.v))
    BY <2>1
  <2> HIDE DEF d
  <2> QED
    BY <2>1, <2>2, <2>3 DEF Says
<1>3. stream' = Append(stream, d)
  BY <1>1 DEF Publish
<1> HIDE DEF d
<1>4. Goes(World, World')
  BY <1>1, <1>2, <1>3, PublishGoes
<1> QED
  BY <1>1, <1>2, <1>4

LEMMA QuietGoes ==
    ASSUME FeedTypes, FeedTypes', Grows, UNCHANGED <<stream, cache>>
    PROVE  Goes(World, World')
<1> DEFINE w == World
           x == World'
<1>1. /\ w \in Worlds /\ x \in Worlds
      /\ w.log = log /\ w.gone = gone /\ w.stream = stream /\ w.cache = cache
  BY WorldType, WorldNext
<1>2. x.log = log' /\ x.gone = gone' /\ x.stream = stream' /\ x.cache = cache'
  BY WorldNext
<1> HIDE DEF w, x
<1>3. Goes(w, x)
  BY <1>1, <1>2 DEF Goes, Grows
<1> QED
  BY <1>3 DEF w, x

\* A write and its delta.
LEMMA ProcessGoes ==
    ASSUME FeedTypes, FeedTypes', Grows, NEW t \in Tasks, t \notin gone,
           NEW d \in Deltas, d.task = t, Says(d, log'[t]), d.type = "removed" => t \in gone',
           NEW now \in Copies, d.type # "removed" => /\ d.v = Len(log'[t]) /\ now.v = d.v
                                                     /\ now = Version(log'[t], now.v),
           d.type = "updated" => d.v = Len(log[t]) + 1,
           Process(d, now)
    PROVE  Goes(World, World') /\ (PublishNothing \/ \E e \in Deltas : Publish(e))
<1> DEFINE entry == cache[t]
           c == Merge(entry, d)
<1>1. cache \in [Tasks -> Copies] /\ entry.v \in Nat /\ d.v \in Nat /\ log' \in [Tasks -> Seq(Fields)]
  <2>1. cache \in [Tasks -> Copies] /\ log' \in [Tasks -> Seq(Fields)]
    BY DEF FeedTypes
  <2>2. entry \in Copies
    BY <2>1
  <2> QED
    BY <2>1, <2>2, DeltaIs DEF Copies
<1>2. \/ PublishNothing /\ UNCHANGED cache
      \/ d.type = "updated" /\ Recover(t, now)
      \/ /\ ~(d.type = "updated" /\ d.v - 1 # entry.v)
         /\ cache' = [cache EXCEPT ![t] = c] /\ Publish(d)
  BY DEF Process
<1>3. CASE PublishNothing /\ UNCHANGED cache
  <2>1. UNCHANGED <<stream, cache>>
    BY <1>3 DEF PublishNothing
  <2> QED
    BY <1>3, <2>1, QuietGoes
<1>4. CASE d.type = "updated" /\ Recover(t, now)
  <2>1. d.v \in 2 .. Len(log'[t])
    BY <1>4 DEF Says, Created, Updated, Removed
  <2>2. now.v \in Nat \ {0} /\ now.v = Len(log'[t]) /\ now = Version(log'[t], now.v)
    BY <1>1, <1>4, <2>1
  <2> QED
    BY <1>4, <2>2, RecoverGoes
<1>5. CASE /\ ~(d.type = "updated" /\ d.v - 1 # entry.v)
           /\ cache' = [cache EXCEPT ![t] = c] /\ Publish(d)
  <2>1. stream' = Append(stream, d)
    BY <1>5 DEF Publish
  <2>2. d.type # "removed" => c.v = d.v
    <3> DEFINE s == log'[t]
    <3>1. CASE d.type = "created"
      <4>1. d.row = Version(s, d.v)
        BY <3>1 DEF Says, Created, Updated, Removed
      <4> QED
        BY <1>1, <3>1, <4>1, VersionType DEF Merge
    <3>2. CASE d.type = "updated"
      BY <3>2 DEF Merge
    <3> QED
      BY <3>1, <3>2, DeltaIs
  <2>3. d.type = "updated" => d.v = entry.v + 1
    BY <1>1, <1>5
  <2> HIDE DEF c
  <2>4. Goes(World, World')
    BY <1>5, <2>1, <2>2, <2>3, PublishGoes
  <2> QED
    BY <1>5, <2>4
<1> QED
  BY <1>2, <1>3, <1>4, <1>5

\* The world moves on and may publish; the renderer does nothing.
LEMMA PublishShows ==
    ASSUME FeedTypes, FeedTypes', Shows, Goes(World, World'), UNCHANGED <<wire, drain, ui>>,
           PublishNothing \/ \E e \in Deltas : Publish(e)
    PROVE  Shows'
<1>1. /\ Telling(World) /\ Queued(drain, ipc, pending) /\ wire = <<>>
      /\ \A y \in Waiting : Sound(World, y)
      /\ Screen(World, ui, Waiting)
  BY DEF Shows
<1>2. Telling(World')
  BY <1>1, TellingStays
<1>3. Waiting' = WaitingIn(drain', ipc', pending')
  BY DEF Waiting
<1>4. CASE PublishNothing
  <2>1. UNCHANGED <<pending, ipc>> /\ ui \in Screens
    BY <1>4 DEF PublishNothing, FeedTypes
  <2>2. Waiting' = Waiting
    BY <1>3, <2>1 DEF Waiting
  <2>3. Screen(World', ui, Waiting)
    BY <1>1, <2>1, ScreenStays
  <2>4. \A y \in Waiting : Sound(World', y)
    BY <1>1, SoundStays
  <2> QED
    BY <1>1, <1>2, <2>1, <2>2, <2>3, <2>4 DEF Shows
<1>5. ASSUME NEW d \in Deltas, Publish(d) PROVE Shows'
  <2> DEFINE e == [type |-> "delta", delta |-> d, seq |-> Len(stream) + 1]
             flush == SetsStatus(d)
  <2>1. stream \in Seq(Deltas) /\ stream' = Append(stream, d) /\ Send(<<e>>, flush) /\ Len(stream) \in Nat
    BY <1>5 DEF Publish, FeedTypes
  <2>2. e.type = "delta" /\ e.delta = d /\ e.seq = Len(stream) + 1 /\ e \in Events
    BY <2>1 DEF Events
  <2>3. Len(stream') = Len(stream) + 1 /\ stream'[Len(stream) + 1] = d
    BY <2>1, AppendProperties
  <2>4. World'.stream = stream' /\ World.stream = stream /\ World \in Worlds
    BY WorldType DEF World
  <2> HIDE DEF e, flush
  <2>5. Sound(World', e)
    <3>1. e.seq \in 1 .. Len(stream')
      BY <2>1, <2>2, <2>3
    <3>2. e.delta = stream'[e.seq]
      BY <2>2, <2>3
    <3> QED
      BY <2>2, <2>4, <3>1, <3>2 DEF Sound
  <2>6. \A y \in Events : Sound(World, y) => Precedes(y, e)
    BY <2>2, <2>4, DeltaLast
  <2>7. Newest(e, Waiting)
    BY <1>1, <2>6, WaitingType DEF Newest
  <2>8. Newest(e, EventsOf(ui.pipe))
    <3>1. \A y \in EventsOf(ui.pipe) : y \in Events /\ Sound(World, y)
      BY <1>1, WaitingType DEF Screen, Piped, EventsOf
    <3> QED
      BY <2>6, <3>1 DEF Newest
  <2>9. e.type # "snapshot"
    BY <2>2
  <2>10. LET S == WaitingIn(drain', ipc', pending')
         IN  Queued(drain', ipc', pending') /\ (\A y \in S : Sound(World', y)) /\ Screen(World', ui, S)
    <3>1. \E x : x = World'
      OBVIOUS
    <3>2. PICK x : x = World'
      BY <3>1
    <3>3. Goes(World, x) /\ Sound(x, e)
      BY <2>5, <3>2
    <3>4. LET S == WaitingIn(drain', ipc', pending')
          IN  Queued(drain', ipc', pending') /\ (\A y \in S : Sound(x, y)) /\ Screen(x, ui, S)
      BY <2>1, <2>2, <2>7, <2>8, <2>9, <3>3, SendShows
    <3> QED
      BY <3>2, <3>4
  <2> QED
    BY <1>1, <1>2, <1>3, <2>10 DEF Shows
<1> QED
  BY <1>4, <1>5

\* The world stands still; the renderer, or what is on its way to it, does not.
LEMMA RenderShows ==
    ASSUME Shows, UNCHANGED <<log, gone, stream, cache, wire>>,
           Queued(drain', ipc', pending'),
           \A y \in WaitingIn(drain', ipc', pending') : Sound(World, y),
           Screen(World, ui', WaitingIn(drain', ipc', pending'))
    PROVE  Shows'
<1>1. World' = World
  BY DEF World
<1>2. Waiting' = WaitingIn(drain', ipc', pending')
  BY DEF Waiting
<1> QED
  BY <1>1, <1>2 DEF Shows

\* The renderer as it is after a start: all rows, at the end of the stream.
LEMMA FreshScreen ==
    ASSUME FeedTypes, Wholes(cache), Telling(World), NEW u,
           u.pipe = <<>>, u.map = AllRows, u.mark = Len(stream), u.failures = 0, u.target = 0, ~u.gaveUp
    PROVE  Screen(World, u, {})
<1>1. World.log = log /\ World.stream = stream /\ Len(stream) \in Nat
  BY WorldType DEF FeedTypes
<1>2. Good(World, AllRows, Len(stream))
  BY RowsGood
<1>3. \A i \in DOMAIN u.pipe : FALSE
  OBVIOUS
<1>4. EventsOf(u.pipe) = {}
  BY <1>3 DEF EventsOf
<1>5. Piped(World, u)
  BY <1>2, <1>3 DEF Piped
<1> QED
  BY <1>1, <1>2, <1>4, <1>5 DEF Screen, Good, Before

\* A renderer that differs in nothing the screen depends on.
LEMMA SameScreen ==
    ASSUME NEW w, NEW u, NEW n, NEW S, Screen(w, u, S),
           n.map = u.map, n.mark = u.mark, n.resync = u.resync, n.failures = u.failures, n.target = u.target,
           n.pipe = u.pipe, n.gaveUp = u.gaveUp
    PROVE  Screen(w, n, S)
<1>1. Piped(w, n)
  BY DEF Screen, Piped
<1>2. \A y : Fits(u, y) => Fits(n, y)
  BY DEF Fits
<1> QED
  BY <1>1, <1>2 DEF Screen

LEMMA InitShows == Init => Shows
<1> SUFFICES ASSUME Init PROVE Shows
  OBVIOUS
<1>1. FeedTypes /\ Heard
  BY InitTypes, InitHeard
<1>2. wire = <<>> /\ stream = <<>> /\ pending = <<>> /\ ipc = <<>> /\ drain = <<>> /\ ui = Blank
  BY DEF Init
<1>3. Len(stream) = 0 /\ World.stream = stream
  BY <1>1, <1>2, WorldType
<1>4. Telling(World)
  BY <1>3 DEF Telling
<1>5. /\ ui.pipe = <<>> /\ ui.map = AllRows /\ ui.mark = Len(stream) /\ ui.failures = 0
      /\ ui.target = 0
  BY <1>2 DEF Blank, AllRows
<1>6. ~ui.gaveUp
  BY <1>2 DEF Blank
<1>7. Screen(World, ui, {})
  BY <1>1, <1>4, <1>5, <1>6, FreshScreen DEF Heard
<1>8. BatchesOf(<<>>) = {}
  BY DEF BatchesOf
<1>9. Waiting = {} /\ Queued(drain, ipc, pending)
  BY <1>2, <1>8, NoEvents DEF Waiting, WaitingIn, Queued, Before
<1> QED
  BY <1>2, <1>4, <1>7, <1>9 DEF Shows

LEMMA WritersShow ==
    ASSUME FeedTypes, FeedTypes', Owner, Shows, Writers
    PROVE  Shows'
<1>0. Grows /\ ~Viewer /\ log \in [Tasks -> Seq(Fields)]
  BY WritersGrow DEF Owner, Viewer, FeedTypes
<1>1. ASSUME NEW t \in Tasks, NEW f \in Fields, Write(t, f) PROVE Shows'
  <2> DEFINE v == Len(log[t]) + 1
             now == [v |-> v, val |-> [RowOf(t).val EXCEPT ![f] = v]]
             d == Updated(t, v, f)
  <2>1. /\ v \in Nat \ {0, 1} /\ Len(log'[t]) = v
        /\ now = Version(log'[t], v) /\ now.v = v
        /\ Says(d, log'[t]) /\ d.task = t
    BY <1>1, WriteSays
  <2>2. t \notin gone /\ Announce(d, now) /\ UNCHANGED <<drain, ui>>
    BY <1>1 DEF Write
  <2>3. d.type = "updated" /\ d.v = v /\ d \in Deltas /\ v = Len(log[t]) + 1
    <3>1. v \in Nat
      BY <2>1
    <3> HIDE DEF v
    <3>2. d \in Deltas /\ d.type = "updated" /\ d.v = v
      BY <3>1 DEF Updated, Deltas
    <3> QED
      BY <3>2 DEF v
  <2>4. now \in Copies
    <3> HIDE DEF now
    <3> QED
      BY <2>1, VersionType
  <2> HIDE DEF v, now, d
  <2>5. Process(d, now) /\ wire' = wire
    BY <1>0, <2>2 DEF Announce
  <2>6. Goes(World, World') /\ (PublishNothing \/ \E e \in Deltas : Publish(e))
    BY <1>0, <2>1, <2>2, <2>3, <2>4, <2>5, ProcessGoes
  <2> QED
    BY <2>2, <2>5, <2>6, PublishShows
<1>2. ASSUME NEW t \in Tasks, WriteSilently(t) PROVE Shows'
  <2>1. UNCHANGED <<wire, cache, stream, pending, ipc, drain, ui>>
    BY <1>2 DEF WriteSilently, main, renderer
  <2>2. Goes(World, World')
    BY <1>0, <2>1, QuietGoes
  <2> QED
    BY <2>1, <2>2, PublishShows DEF PublishNothing
<1>3. ASSUME NEW t \in Tasks, Create(t) PROVE Shows'
  <2> DEFINE row == [v |-> 1, val |-> [f \in Fields |-> 1]]
             d == Created(t, row)
  <2>1. /\ Len(log'[t]) = 1 /\ t \notin gone
        /\ row = Version(log'[t], 1) /\ row.v = 1
        /\ Says(d, log'[t]) /\ d.task = t /\ d.v = 1
    BY <1>3, CreateSays
  <2>2. Announce(d, row) /\ UNCHANGED <<drain, ui>>
    BY <1>3 DEF Create
  <2> HIDE DEF row
  <2>3. row \in Copies
    BY <2>1, VersionType
  <2>4. d.type = "created" /\ d \in Deltas
    BY <2>1, <2>3 DEF Created, Deltas
  <2> HIDE DEF d
  <2>5. Process(d, row) /\ wire' = wire
    BY <1>0, <2>2 DEF Announce
  <2>6. Goes(World, World') /\ (PublishNothing \/ \E e \in Deltas : Publish(e))
    BY <1>0, <2>1, <2>3, <2>4, <2>5, ProcessGoes
  <2> QED
    BY <2>2, <2>5, <2>6, PublishShows
<1>4. ASSUME NEW t \in Tasks, Delete(t) PROVE Shows'
  <2> DEFINE n == Len(log[t])
             d == Removed(t, n)
  <2>1. /\ n \in Nat \ {0} /\ t \notin gone
        /\ Says(d, log'[t]) /\ d.task = t /\ d.v = n
    BY <1>4, DeleteSays
  <2>2. Announce(d, Absent) /\ gone' = gone \cup {t} /\ UNCHANGED <<drain, ui>>
    BY <1>4 DEF Delete
  <2> HIDE DEF n
  <2>3. d.type = "removed" /\ d \in Deltas
    BY <2>1 DEF Removed, Deltas
  <2>4. Absent \in Copies
    BY DEF Absent, Copies
  <2> HIDE DEF d
  <2>5. Process(d, Absent) /\ wire' = wire
    BY <1>0, <2>2 DEF Announce
  <2>6. Goes(World, World') /\ (PublishNothing \/ \E e \in Deltas : Publish(e))
    BY <1>0, <2>1, <2>2, <2>3, <2>4, <2>5, ProcessGoes
  <2> QED
    BY <2>2, <2>5, <2>6, PublishShows
<1> QED
  BY <1>1, <1>2, <1>3, <1>4 DEF Writers

\* A row that differs from the cache is a row, and is told.
LEMMA PollShows ==
    ASSUME FeedTypes, FeedTypes', Heard, Shows, NEW t \in Tasks, PollRow(t)
    PROVE  Shows'
<1> DEFINE now == RowOf(t)
<1>1. /\ t \notin gone /\ cache[t] # now /\ Recover(t, now)
      /\ UNCHANGED <<log, gone, wire, drain, ui>>
  BY DEF PollRow, rows, renderer
<1>2. log \in [Tasks -> Seq(Fields)] /\ Len(log[t]) \in Nat
  <2>1. log \in [Tasks -> Seq(Fields)]
    BY DEF FeedTypes
  <2> QED
    BY <2>1
<1>3. now \in Copies /\ now = Version(log[t], now.v) /\ now.v = Len(log[t])
  BY <1>1, <1>2, RowType, RowsAreWhole DEF At
<1>4. cache[t].v \in 0 .. Len(log[t]) /\ cache[t] = Version(log[t], cache[t].v)
  BY DEF Heard, Wholes, WholesOf
<1> HIDE DEF now
<1>5. now.v # 0
  <2> SUFFICES ASSUME now.v = 0 PROVE FALSE
    OBVIOUS
  <2>1. cache[t].v = now.v
    BY <1>2, <1>3, <1>4
  <2> QED
    BY <1>1, <1>3, <1>4, <2>1
<1>6. Grows
  BY <1>1, QuietGrows
<1>7. now.v \in Nat \ {0} /\ now.v = Len(log'[t]) /\ now = Version(log'[t], now.v)
  BY <1>1, <1>2, <1>3, <1>5
<1>8. Goes(World, World') /\ \E e \in Deltas : Publish(e)
  BY <1>1, <1>3, <1>6, <1>7, RecoverGoes
<1> QED
  BY <1>1, <1>8, PublishShows

\* The owner answers with its rows.
LEMMA AnswerShows ==
    ASSUME FeedTypes, FeedTypes', Heard, Shows, AnswerLocally
    PROVE  Shows'
<1> DEFINE e == Snapshot(AllRows)
<1>1. Send(<<e>>, FALSE) /\ UNCHANGED <<log, gone, wire, cache, stream, drain, ui>>
  BY DEF AnswerLocally, rows, renderer
<1>2. /\ Telling(World) /\ \A y \in Waiting : Sound(World, y)
      /\ Screen(World, ui, Waiting)
  BY DEF Shows
<1>3. /\ World \in Worlds /\ World.log = log /\ World.gone = gone /\ World.stream = stream
      /\ Len(stream) \in Nat
  <2>1. Len(stream) \in Nat
    BY DEF FeedTypes
  <2> QED
    BY <2>1, WorldType
<1>4. /\ AllRows \in [Tasks -> Copies] /\ Wholes(AllRows)
      /\ \A t \in Tasks : AllRows[t].v = IF t \in gone THEN 0 ELSE Len(log[t])
  <2>1. \A t \in Tasks : AllRows[t] = RowOf(t)
    BY DEF AllRows
  <2> QED
    BY <2>1, RowType, RowsAreWhole DEF FeedTypes
<1>5. e.type = "snapshot" /\ e.rows = AllRows /\ e.seq = Len(stream) /\ e \in Events
  BY <1>3, <1>4 DEF Snapshot, Events, Snapshots
<1> HIDE DEF e
<1>6. Sound(World, e)
  <2>1. Good(World, AllRows, Len(stream))
    BY <1>2, RowsGood DEF Heard
  <2>2. Len(stream) \in 0 .. Len(stream)
    BY <1>3
  <2> QED
    BY <1>3, <1>5, <2>1, <2>2 DEF Sound
<1>7. \A y \in Events : Sound(World, y) => Precedes(y, e)
  BY <1>2, <1>3, <1>4, <1>5, RowsLast
<1>8. Newest(e, Waiting)
  BY <1>2, <1>7, WaitingType DEF Newest
<1>9. Newest(e, EventsOf(ui.pipe))
  <2>1. \A y \in EventsOf(ui.pipe) : y \in Events /\ Sound(World, y)
    BY <1>2, WaitingType DEF Screen, Piped, EventsOf
  <2> QED
    BY <1>7, <2>1 DEF Newest
<1>10. Fits(ui, e) /\ ui.mark <= e.seq
  <2>1. Under(ui.map, e)
    <3> SUFFICES ASSUME NEW t \in Tasks, e.rows[t].v > 0 PROVE ui.map[t].v <= e.rows[t].v
      BY DEF Under
    <3>1. ui.map[t].v \in 0 .. Len(log[t])
      BY <1>2, <1>3 DEF Screen, WholesOf
    <3>2. e.rows[t].v = Len(log[t])
      BY <1>4, <1>5
    <3> QED
      BY <3>1, <3>2
  <2> QED
    BY <1>2, <1>3, <1>5, <2>1 DEF Screen, Fits
<1>11. Goes(World, World)
  <2>1. Longer(log, log)
    <3>1. \A t \in Tasks : Len(log[t]) \in Nat
      BY DEF FeedTypes
    <3> QED
      BY <3>1 DEF Longer
  <2> QED
    BY <1>3, <2>1 DEF Goes
<1>12. LET S == WaitingIn(drain', ipc', pending')
       IN  Queued(drain', ipc', pending') /\ (\A y \in S : Sound(World, y)) /\ Screen(World, ui, S)
  BY <1>1, <1>5, <1>6, <1>8, <1>9, <1>10, <1>11, SendShows
<1> QED
  BY <1>1, <1>12, RenderShows

\* The messages, the timers and the reload of the renderer.
LEMMA ArriveShows ==
    ASSUME FeedTypes, Owner, Shows, Arrive
    PROVE  Shows'
<1>1. /\ ipc # <<>> /\ ipc' = Tail(ipc) /\ drain = <<>>
      /\ \/ UNCHANGED <<drain, ui>>
         \/ Len(Head(ipc)) = 1 /\ ui' = Handle(ui, Head(ipc)[1]).ui /\ drain' = drain
         \/ drain' = drain \o Head(ipc) /\ ui' = ui
      /\ UNCHANGED <<log, gone, wire, cache, stream, pending>>
  BY DEF Arrive, Take, Owner, rows, renderer
<1>2. /\ Telling(World) /\ Queued(drain, ipc, pending)
      /\ \A y \in Waiting : Sound(World, y)
      /\ Screen(World, ui, Waiting)
  BY DEF Shows
<1>3. /\ ipc \in Seq(Seq(Events)) /\ pending \in Seq(Events) /\ ui \in Screens
  BY DEF FeedTypes
<1> DEFINE h == Head(ipc)
           r == Tail(ipc)
           T == WaitingIn(<<>>, r, pending)
<1>4. h \in Seq(Events)
  BY <1>1, <1>3, HeadTailProperties
<1>5. /\ Queued(<<>>, r, pending) /\ T \subseteq Waiting
      /\ EventsOf(h) \subseteq Waiting /\ Before(EventsOf(h), T)
      /\ Queued(h, r, pending) /\ WaitingIn(h, r, pending) = Waiting
  BY <1>1, <1>2, <1>3, QueueArrive DEF Waiting
<1> HIDE DEF h, r
<1>6. CASE UNCHANGED <<drain, ui>>
  <2>1. Screen(World, ui, T)
    BY <1>2, <1>5, ScreenFewer
  <2> QED
    BY <1>1, <1>2, <1>5, <1>6, <2>1, RenderShows DEF r
<1>7. CASE Len(h) = 1 /\ ui' = Handle(ui, h[1]).ui /\ drain' = drain
  <2>1. h[1] \in EventsOf(h)
    <3>1. 1 \in DOMAIN h
      BY <1>4, <1>7
    <3> QED
      BY <3>1 DEF EventsOf
  <2>2. h[1] \in Waiting /\ Before({h[1]}, T) /\ Sound(World, h[1])
    BY <1>2, <1>5, <2>1 DEF Before
  <2>3. World \in Worlds /\ Waiting \in SUBSET Events /\ T \in SUBSET Waiting
    BY <1>5, WorldType, WaitingType
  <2> HIDE DEF T
  <2>4. Screen(World, Handle(ui, h[1]).ui, T)
    BY <1>2, <1>3, <2>2, <2>3, HandleScreen
  <2>5. WaitingIn(drain', ipc', pending') = T /\ Queued(drain', ipc', pending')
    BY <1>1, <1>5, <1>7 DEF T, r
  <2>6. \A y \in T : Sound(World, y)
    BY <1>2, <2>3
  <2> QED
    BY <1>1, <1>7, <2>4, <2>5, <2>6, RenderShows
<1>8. CASE drain' = drain \o h /\ ui' = ui
  <2>1. drain' = h
    BY <1>1, <1>4, <1>8, ConcatEmptySeq
  <2> QED
    BY <1>1, <1>2, <1>5, <1>8, <2>1, RenderShows DEF r
<1> QED
  BY <1>1, <1>6, <1>7, <1>8 DEF h

LEMMA DrainShows ==
    ASSUME FeedTypes, Shows, Drain
    PROVE  Shows'
<1> DEFINE h == Head(drain)
           r == Tail(drain)
           T == WaitingIn(r, ipc, pending)
           n == Handle(ui, h).ui
           busy == Len(drain) > 1
<1>1. /\ drain # <<>> /\ drain' = r /\ ui' = [n EXCEPT !.busy = busy]
      /\ UNCHANGED <<log, gone, wire, cache, stream, pending, ipc>>
  BY DEF Drain, rows, main
<1>2. /\ Telling(World) /\ Queued(drain, ipc, pending)
      /\ \A y \in Waiting : Sound(World, y)
      /\ Screen(World, ui, Waiting)
  BY DEF Shows
<1>3. drain \in Seq(Events) /\ ui \in Screens
  BY DEF FeedTypes
<1>4. Queued(r, ipc, pending) /\ T \subseteq Waiting /\ h \in Waiting /\ Before({h}, T)
  BY <1>1, <1>2, <1>3, QueueDrain DEF Waiting
<1>5. World \in Worlds /\ Waiting \in SUBSET Events /\ T \in SUBSET Waiting
  BY <1>4, WorldType, WaitingType
<1> HIDE DEF h, r, T, busy
<1>6. Screen(World, n, T)
  BY <1>2, <1>3, <1>4, <1>5, HandleScreen
<1>7. n \in Screens
  BY <1>3, <1>4, <1>5, HandleType
<1> HIDE DEF n
<1>8. /\ ui'.map = n.map /\ ui'.mark = n.mark /\ ui'.resync = n.resync /\ ui'.failures = n.failures
      /\ ui'.target = n.target /\ ui'.pipe = n.pipe /\ ui'.gaveUp = n.gaveUp
  BY <1>1, <1>7 DEF Screens
<1>9. Screen(World, ui', T)
  BY <1>6, <1>8, SameScreen
<1>10. WaitingIn(drain', ipc', pending') = T /\ Queued(drain', ipc', pending')
  BY <1>1, <1>4 DEF T
<1>11. \A y \in T : Sound(World, y)
  BY <1>2, <1>5
<1> QED
  BY <1>1, <1>9, <1>10, <1>11, RenderShows

LEMMA BatchShows ==
    ASSUME FeedTypes, Shows, FlushBatch
    PROVE  Shows'
<1>1. ui' = Batch(ui).ui /\ UNCHANGED <<log, gone, wire, cache, stream, pending, ipc, drain>>
  BY DEF FlushBatch, Take, rows, main
<1>2. /\ Telling(World) /\ Queued(drain, ipc, pending)
      /\ \A y \in Waiting : Sound(World, y)
      /\ Screen(World, ui, Waiting)
  BY DEF Shows
<1>3. ui \in Screens /\ World \in Worlds /\ Waiting \in SUBSET Events
  BY WorldType, WaitingType DEF FeedTypes
<1>4. Screen(World, Batch(ui).ui, Waiting)
  BY <1>2, <1>3, BatchScreen
<1>5. WaitingIn(drain', ipc', pending') = Waiting /\ Queued(drain', ipc', pending')
  BY <1>1, <1>2 DEF Waiting
<1> QED
  BY <1>1, <1>2, <1>4, <1>5, RenderShows

LEMMA FlushShows ==
    ASSUME FeedTypes, Shows, FlushPending
    PROVE  Shows'
<1>1. /\ ipc' = Append(ipc, pending) /\ pending' = <<>>
      /\ UNCHANGED <<log, gone, wire, cache, stream, drain, ui>>
  BY DEF FlushPending, rows, renderer
<1>2. /\ Telling(World) /\ Queued(drain, ipc, pending)
      /\ \A y \in Waiting : Sound(World, y)
      /\ Screen(World, ui, Waiting)
  BY DEF Shows
<1>3. drain \in Seq(Events) /\ pending \in Seq(Events) /\ ipc \in Seq(Seq(Events))
  BY DEF FeedTypes
<1>4. /\ Queued(drain, Append(ipc, pending), <<>>)
      /\ WaitingIn(drain, Append(ipc, pending), <<>>) = Waiting
  BY <1>2, <1>3, QueueFlush DEF Waiting
<1>5. WaitingIn(drain', ipc', pending') = Waiting /\ Queued(drain', ipc', pending')
  BY <1>1, <1>4
<1> QED
  BY <1>1, <1>2, <1>5, RenderShows

LEMMA ReloadShows ==
    ASSUME FeedTypes, Heard, Owner, Shows, Reload
    PROVE  Shows'
<1> DEFINE n == [Blank EXCEPT !.map = AllRows]
<1>1. /\ ui' = n /\ drain' = <<>> /\ ipc' = <<>> /\ pending' = <<>>
      /\ UNCHANGED <<log, gone, wire, cache, stream>>
  BY DEF Reload, Owner, Viewer, rows
<1>2. Telling(World)
  BY DEF Shows
<1>3. n.pipe = <<>> /\ n.map = AllRows /\ n.mark = Len(stream) /\ n.failures = 0 /\ n.target = 0
  BY DEF Blank
<1>4. ~n.gaveUp
  BY DEF Blank
<1> HIDE DEF n
<1>5. Screen(World, n, {})
  BY <1>2, <1>3, <1>4, FreshScreen DEF Heard
<1>6. BatchesOf(<<>>) = {}
  BY DEF BatchesOf
<1>7. WaitingIn(drain', ipc', pending') = {} /\ Queued(drain', ipc', pending')
  BY <1>1, <1>6, NoEvents DEF WaitingIn, Queued, Before
<1> QED
  BY <1>1, <1>5, <1>7, RenderShows

\* The steps that touch none of it.
LEMMA StillShows ==
    ASSUME Shows, UNCHANGED <<log, gone, stream, cache, wire, drain, ipc, pending>>, NEW x, ui' = x, Screen(World, x, Waiting)
    PROVE  Shows'
<1>1. WaitingIn(drain', ipc', pending') = Waiting
  BY DEF Waiting
<1> QED
  BY <1>1, RenderShows DEF Shows

LEMMA NextShows ==
    ASSUME FeedTypes, FeedTypes', Heard, Owner, Shows, [Next]_vars
    PROVE  Shows'
<1>0. ~Viewer /\ wire = <<>> /\ Screen(World, ui, Waiting)
  BY DEF Owner, Viewer, Shows
<1>1. CASE Writers
  BY <1>1, WritersShow
<1>2. ASSUME NEW t \in Tasks, PollRow(t) PROVE Shows'
  BY <1>2, PollShows
<1>3. CASE Receive \/ AskOwner \/ LoseLink
  BY <1>0, <1>3 DEF Receive, AskOwner, LoseLink
<1>4. CASE AnswerLocally
  BY <1>4, AnswerShows
<1>5. CASE FlushPending
  BY <1>5, FlushShows
<1>6. CASE Arrive
  BY <1>6, ArriveShows
<1>7. CASE Drain
  BY <1>7, DrainShows
<1>8. CASE FlushBatch
  BY <1>8, BatchShows
<1>9. CASE Reload
  BY <1>9, ReloadShows
<1>10. CASE Reconnect \/ Show \/ Refresh \/ UNCHANGED vars
  <2>1. UNCHANGED <<log, gone, stream, cache, wire, drain, ipc, pending, ui>>
    BY <1>10 DEF Reconnect, Show, Refresh, vars, rows, main, renderer
  <2> QED
    BY <1>0, <2>1, StillShows
<1>11. CASE Subscribe
  <2>1. /\ ui' = [ui EXCEPT !.phase = "live"]
        /\ UNCHANGED <<log, gone, stream, cache, wire, drain, ipc, pending>>
    BY <1>11 DEF Subscribe, rows, main
  <2>2. /\ ui'.map = ui.map /\ ui'.mark = ui.mark /\ ui'.resync = ui.resync /\ ui'.failures = ui.failures
        /\ ui'.target = ui.target /\ ui'.pipe = ui.pipe /\ ui'.gaveUp = ui.gaveUp
    BY <2>1 DEF FeedTypes, Screens
  <2>3. Screen(World, ui', Waiting)
    BY <1>0, <2>2, SameScreen
  <2>4. WaitingIn(drain', ipc', pending') = Waiting
    BY <2>1 DEF Waiting
  <2> QED
    BY <2>1, <2>3, <2>4, RenderShows DEF Shows
<1> QED
  BY <1>1, <1>2, <1>3, <1>4, <1>5, <1>6, <1>7, <1>8, <1>9, <1>10, <1>11 DEF Next, Feed

\* The kind of a window does not change.
LEMMA ModeStays == ASSUME [Next]_vars PROVE mode' = mode
BY DEF Next, vars, Writers, Write, WriteSilently, Create, Delete, Feed, PollRow, Receive, Reconnect, AskOwner,
       AnswerLocally, FlushPending, Show, Subscribe, Arrive, Drain, FlushBatch, LoseLink, Refresh, Reload, rows

-----------------------------------------------------------------------------
(* The theorems.                                                           *)

\* The inductive invariant of the feed.
THEOREM FeedInvariant == Spec => []FInv
<1>1. Init => FInv
  BY InitTypes, InitHeard, InitShows DEF FInv
<1>2. FInv /\ [Next]_vars => FInv'
  <2> SUFFICES ASSUME FInv, [Next]_vars PROVE FInv'
    OBVIOUS
  <2>1. FeedTypes'
    BY NextTypes DEF FInv
  <2>2. Heard'
    BY NextHeard DEF FInv
  <2>3. Owner' => Shows'
    <3>1. Owner' => Owner
      BY ModeStays DEF Owner
    <3> QED
      BY <2>1, <3>1, NextShows DEF FInv
  <2> QED
    BY <2>1, <2>2, <2>3 DEF FInv
<1> QED
  BY <1>1, <1>2, PTL DEF Spec

\* Every part of the feed keeps to its type: the rows, the events on their way,
\* and the renderer.
THEOREM FeedTypeCorrect == Spec => []FeedTypes
<1>1. FInv => FeedTypes
  BY DEF FInv
<1> QED
  BY <1>1, FeedInvariant, PTL

\* The main process never keeps a mixture of two versions of a task, whatever
\* deltas were lost or overtaken by a row it recovered.
THEOREM FeedCacheIsWhole == Spec => []CacheIsWhole
<1>1. FInv => CacheIsWhole
  BY DEF FInv, Heard, Wholes, WholesOf, CacheIsWhole, Whole, At
<1> QED
  BY <1>1, FeedInvariant, PTL

\* Nor does the renderer of the owner's window, and it never gives up on the
\* snapshots it asks for.
THEOREM FeedShownIsWhole == Spec => []ShownIsWhole
<1>1. FInv => ShownIsWhole
  <2> SUFFICES ASSUME FInv, Owner PROVE ~ui.gaveUp /\ \A t \in Tasks : Whole(t, ui.map[t])
    BY DEF ShownIsWhole
  <2>1. World.log = log
    BY WorldType DEF FInv
  <2>2. Screen(World, ui, Waiting)
    BY DEF FInv, Shows
  <2> QED
    BY <2>1, <2>2 DEF Screen, WholesOf, Whole, At
<1> QED
  BY <1>1, FeedInvariant, PTL

\* What the watermark of the owner's window counts is on its screen.
THEOREM FeedWatermarkIsShown == Spec => []WatermarkIsShown
<1>1. FInv => WatermarkIsShown
  <2> SUFFICES ASSUME FInv, Owner, ui.pipe = <<>>, ~ui.resync, NEW i \in 1 .. ui.mark
               PROVE  LET d == stream[i] IN
                      IF d.type = "removed" THEN ui.map[d.task].v = 0 \/ \E j \in i + 1 .. Len(stream) : stream[j].task = d.task
                      ELSE ui.map[d.task].v >= d.v \/ (ui.map[d.task].v = 0 /\ d.task \in gone)
    BY DEF WatermarkIsShown
  <2>1. World \in Worlds /\ World.stream = stream /\ World.gone = gone /\ Len(stream) \in Nat
    BY WorldType, WorldIs DEF FInv
  <2>2. Telling(World) /\ Screen(World, ui, Waiting)
    BY DEF FInv, Shows
  <2>3. Good(World, ui.map, ui.mark) /\ ui.mark <= Len(stream)
    BY <2>1, <2>2 DEF Screen, Piped
  <2>4. ui.mark \in Nat /\ ui.map \in [Tasks -> Copies]
    BY DEF FInv, FeedTypes, Screens
  <2> DEFINE d == stream[i]
             k == ui.map[d.task].v
  <2>5. i \in 1 .. Len(stream)
    BY <2>1, <2>3, <2>4
  <2>6. d.task \in Tasks /\ d.v \in Nat
    BY <2>1, <2>2, <2>5, ToldIs DEF Telling
  <2>7. k \in Nat
    BY <2>4, <2>6 DEF Copies
  <2>8. (k = 0 /\ d.task \in gone) \/ (d.type # "removed" /\ d.v <= k)
    BY <2>1, <2>3 DEF Good, Void
  <2> QED
    BY <2>6, <2>7, <2>8
<1> QED
  BY <1>1, FeedInvariant, PTL

=============================================================================
