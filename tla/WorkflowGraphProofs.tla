------------------------ MODULE WorkflowGraphProofs ------------------------
(***************************************************************************)
(* Proofs about WorkflowGraph, for every graph and every bound.            *)
(*                                                                         *)
(* RowOK(r) is what holds of one row by itself, Stands(g) what ties a row  *)
(* to the rows it depends on, and Respects(g, h) what no handler may do to *)
(* finished work on the way from g to h.  Every operator that rewrites     *)
(* rows is shown once to keep them; the steps of Next apply those lemmas.  *)
(***************************************************************************)
EXTENDS WorkflowGraph, TLAPS

\* A row: a waiting attempt was not launched, an attempt at work carries no
\* parked fix, a session is recorded, and an agent works on a row only while
\* the session is open or the task has ended under it.
RowOK(r) ==
    /\ r \in Row
    /\ r.st = "pending" => ~r.launched
    /\ r.st \in {"queued", "running"} => ~r.parked
    /\ r.st = "fixing_with_ai" => r.entry # "none"
    /\ r.st = "awaiting_approval" /\ r.parked => r.entry # "none"
    /\ r.agent => r.st \in {"fixing_with_ai", "failed", "completed", "closed"}
    /\ r.agent => ~r.parked
    /\ r.agent \/ r.parked => (r.st = "completed" => r.entry = "none")

Rows(g) == g \in [Tasks -> Row] /\ \A t \in Tasks : RowOK(g[t])

Stands(g) ==
    \A t \in Tasks : g[t].launched => \A d \in Deps[t] : g[d].st \notin NotStarted

Sound(g) == Rows(g) /\ Stands(g)

Respects(g, h) ==
    \A t \in Tasks : g[t].st = "completed" =>
        h[t].st \in {"completed", "closed", "pending", "queued"}

\* The row r may become s without a look at other rows.
Follows(r, s) ==
    /\ RowOK(s)
    /\ s.launched => r.launched
    /\ s.st \in NotStarted => r.st \in NotStarted

\* The row with another status.
Moved(r, s) == [r EXCEPT !.st = s]

IInv == Sound(task) /\ TypeOK

-----------------------------------------------------------------------------
(* One row.                                                                *)

LEMMA FollowsSelf == ASSUME NEW r, RowOK(r) PROVE Follows(r, r)
BY DEF Follows

LEMMA FollowsCompose ==
    ASSUME NEW q, NEW r, NEW s, Follows(q, r), Follows(r, s)
    PROVE  Follows(q, s)
BY DEF Follows

LEMMA RowFields ==
    ASSUME NEW r \in Row
    PROVE  /\ r.st \in Statuses /\ r.workspace \in BOOLEAN
           /\ r.entry \in EntryStatuses \cup {"none"}
           /\ r.parked \in BOOLEAN /\ r.agent \in BOOLEAN /\ r.launched \in BOOLEAN
BY DEF Row

LEMMA StatusFields ==
    ASSUME NEW r \in Row, NEW s \in Statuses
    PROVE  LET q == Moved(r, s)
           IN  /\ q \in Row /\ q.st = s
               /\ q.entry = r.entry /\ q.parked = r.parked /\ q.agent = r.agent
               /\ q.launched = r.launched
BY DEF Row, Moved

\* A row may end at any time.
LEMMA EndFollows ==
    ASSUME NEW r, RowOK(r), NEW s \in {"failed", "closed"}
    PROVE  Follows(r, Moved(r, s))
<1>1. r \in Row /\ s \in Statuses
  BY DEF RowOK, Statuses
<1> QED
  BY <1>1, StatusFields DEF RowOK, Follows, NotStarted

\* A row that waits may be put off.
LEMMA PutOffFollows ==
    ASSUME NEW r, RowOK(r), r.st \in NotStarted, NEW s \in {"skipped", "blocked"}
    PROVE  Follows(r, Moved(r, s))
<1>1. r \in Row /\ s \in Statuses
  BY DEF RowOK, Statuses
<1> QED
  BY <1>1, StatusFields, RowFields DEF RowOK, Follows, NotStarted

\* A running row may end, or wait for a person.
LEMMA AnswerFollows ==
    ASSUME NEW r, RowOK(r), r.st = "running",
           NEW s \in {"completed", "awaiting_approval", "review_ready"}
    PROVE  Follows(r, Moved(r, s))
<1>1. r \in Row /\ s \in Statuses
  BY DEF RowOK, Statuses
<1> QED
  BY <1>1, StatusFields, RowFields DEF RowOK, Follows, NotStarted

-----------------------------------------------------------------------------
(* All rows.                                                               *)

\* Rows that each follow keep the graph sound.
LEMMA FollowsSound ==
    ASSUME NEW g, Sound(g), NEW h \in [Tasks -> Row],
           \A t \in Tasks : Follows(g[t], h[t])
    PROVE  Sound(h)
<1>1. Rows(h)
  BY DEF Rows, Follows
<1>2. Stands(h)
  BY GraphSetsAssumption DEF Sound, Stands, Follows
<1> QED
  BY <1>1, <1>2 DEF Sound

\* To writes one status to the rows of a set.
LEMMA ToFollows ==
    ASSUME NEW g, Rows(g), NEW S, NEW s \in Statuses,
           \A t \in S \cap Tasks : Follows(g[t], Moved(g[t], s))
    PROVE  /\ Rows(To(g, S, s))
           /\ \A t \in Tasks : Follows(g[t], To(g, S, s)[t])
           /\ \A t \in Tasks : To(g, S, s)[t].st = IF t \in S THEN s ELSE g[t].st
           /\ \A t \in Tasks \ S : To(g, S, s)[t] = g[t]
<1> DEFINE h == To(g, S, s)
<1>1. \A t \in Tasks : h[t] = IF t \in S THEN Moved(g[t], s) ELSE g[t]
  BY DEF To, Moved
<1>2. \A t \in Tasks : g[t] \in Row /\ RowOK(g[t])
  BY DEF Rows
<1>3. \A t \in Tasks : Follows(g[t], h[t])
  BY <1>1, <1>2, FollowsSelf
<1>4. \A t \in Tasks : h[t] \in Row /\ h[t].st = IF t \in S THEN s ELSE g[t].st
  <2> TAKE t \in Tasks
  <2>1. CASE t \in S
    <3>1. h[t] = Moved(g[t], s) /\ g[t] \in Row
      BY <1>1, <1>2, <2>1
    <3> QED
      BY <2>1, <3>1, StatusFields
  <2>2. CASE t \notin S
    BY <1>1, <1>2, <2>2
  <2> QED
    BY <2>1, <2>2
<1>5. h = [t \in Tasks |-> IF t \in S THEN Moved(g[t], s) ELSE g[t]]
  BY DEF To, Moved
<1> HIDE DEF h
<1>6. h \in [Tasks -> Row]
  BY <1>1, <1>4, <1>5
<1>7. Rows(h)
  BY <1>3, <1>6 DEF Rows, Follows
<1> QED
  BY <1>1, <1>3, <1>4, <1>7 DEF h

\* A rewrite of one row by a row that follows.
LEMMA OneFollows ==
    ASSUME NEW g, Sound(g), NEW t \in Tasks, NEW h, h = [u \in Tasks |-> h[u]],
           Follows(g[t], h[t]), \A u \in Tasks : u # t => h[u] = g[u]
    PROVE  Sound(h)
<1>1. \A u \in Tasks : RowOK(g[u])
  BY DEF Sound, Rows
<1>2. \A u \in Tasks : Follows(g[u], h[u])
  BY <1>1, FollowsSelf
<1>3. h \in [Tasks -> Row]
  <2>1. \A u \in Tasks : h[u] \in Row
    BY <1>2 DEF Follows, RowOK
  <2> QED
    BY <2>1
<1> QED
  BY <1>2, <1>3, FollowsSound

\* Below stays within the open tasks, and a dependent of a task it reaches
\* over them is reached.
LEMMA BelowOpen == ASSUME NEW roots, NEW open PROVE Below(roots, open) \subseteq open
BY DEF Below

LEMMA BelowClosed ==
    ASSUME NEW roots, NEW t \in Tasks, NEW d \in Deps[t],
           d \in roots \cup Below(roots, Tasks)
    PROVE  t \in Below(roots, Tasks)
<1> DEFINE Closed(S) == \A u \in Tasks : Deps[u] \cap (roots \cup S) # {} => u \in S
<1>1. Below(roots, Tasks) = {u \in Tasks : \A S \in SUBSET Tasks : Closed(S) => u \in S}
  BY DEF Below
<1>2. SUFFICES ASSUME NEW S \in SUBSET Tasks, Closed(S) PROVE t \in S
  BY <1>1
<1>3. d \in roots \cup S
  BY <1>1, <1>2
<1> QED
  BY <1>2, <1>3

-----------------------------------------------------------------------------
(* Returning and claiming.                                                 *)

LEMMA ReturnFollows ==
    ASSUME NEW g, Sound(g), NEW S, \A t \in S \cap Tasks : g[t].st \in {"skipped", "blocked"}
    PROVE  /\ Sound(Return(g, S))
           /\ \A t \in Tasks : Return(g, S)[t].st = IF t \in S THEN "pending" ELSE g[t].st
<1> DEFINE h == Return(g, S)
           back(r) == [r EXCEPT !.st = "pending", !.launched = FALSE]
<1>1. \A t \in Tasks : h[t] = IF t \in S THEN back(g[t]) ELSE g[t]
  BY DEF Return
<1>2. \A t \in Tasks : g[t] \in Row /\ RowOK(g[t])
  BY DEF Sound, Rows
<1>3. ASSUME NEW t \in Tasks, t \in S
      PROVE  Follows(g[t], back(g[t])) /\ back(g[t]).st = "pending"
  <2>1. PICK r : r = g[t]
    OBVIOUS
  <2>2. r \in Row /\ RowOK(r) /\ r.st \in {"skipped", "blocked"}
    BY <1>2, <1>3, <2>1
  <2>3. /\ back(r) \in Row /\ back(r).st = "pending" /\ ~back(r).launched
        /\ back(r).agent = r.agent
    BY <2>2 DEF Row, Statuses
  <2> QED
    BY <2>1, <2>2, <2>3, RowFields DEF Follows, RowOK, NotStarted
<1>4. \A t \in Tasks : Follows(g[t], h[t])
  BY <1>1, <1>2, <1>3, FollowsSelf
<1>5. h = [t \in Tasks |-> IF t \in S THEN back(g[t]) ELSE g[t]]
  BY DEF Return
<1>6. \A t \in Tasks : h[t].st = IF t \in S THEN "pending" ELSE g[t].st
  BY <1>1, <1>3
<1> HIDE DEF h, back
<1>7. h \in [Tasks -> Row]
  <2>1. \A t \in Tasks : h[t] \in Row
    BY <1>4 DEF Follows, RowOK
  <2> QED
    BY <1>5, <2>1
<1> QED
  BY <1>4, <1>6, <1>7, FollowsSound DEF h

LEMMA ClaimFields ==
    ASSUME NEW r, RowOK(r), r.st \in {"pending", "blocked"}
    PROVE  RowOK(Claim(r)) /\ Claim(r).st = "queued"
<1>1. r \in Row /\ ~r.agent
  BY RowFields DEF RowOK
<1>2. /\ Claim(r).st = "queued" /\ ~Claim(r).parked /\ Claim(r).agent = r.agent
      /\ Claim(r) \in Row
  BY <1>1 DEF Claim, Row, Statuses
<1> QED
  BY <1>1, <1>2 DEF RowOK

\* A drain keeps a sound graph, and leaves alone what does not wait.
LEMMA DrainSound ==
    ASSUME NEW g, Sound(g), NEW wanted, Drain(g, wanted)
    PROVE  /\ Sound(task')
           /\ \A t \in Tasks : task'[t].st \in {g[t].st, "pending", "queued"}
<1> DEFINE X == wanted \cap Ready(g) \cap In(g, {"blocked"})
           h == Return(g, X)
<1>1. PICK L \in SUBSET Ready(h) :
        task' = [t \in Tasks |-> IF t \in L THEN Claim(h[t]) ELSE h[t]]
  BY DEF Drain
<1>2. /\ Sound(h)
      /\ \A t \in Tasks : h[t].st = IF t \in X THEN "pending" ELSE g[t].st
  BY ReturnFollows DEF In
<1> HIDE DEF h
<1>3. \A t \in L : t \in Tasks /\ h[t].st \in {"pending", "blocked"}
                   /\ \A d \in Deps[t] : h[d].st = "completed"
  BY DEF Ready, In
<1>4. \A t \in Tasks : h[t] \in Row /\ RowOK(h[t])
  BY <1>2 DEF Sound, Rows
<1>5. \A t \in Tasks : task'[t] = IF t \in L THEN Claim(h[t]) ELSE h[t]
  BY <1>1
<1>6. \A t \in Tasks : RowOK(task'[t])
  BY <1>3, <1>4, <1>5, ClaimFields
<1>7. Rows(task')
  <2>1. \A t \in Tasks : task'[t] \in Row
    BY <1>6 DEF RowOK
  <2>2. task' \in [Tasks -> Row]
    BY <1>1, <2>1
  <2> QED
    BY <1>6, <2>2 DEF Rows
<1>8. Stands(task')
  <2> SUFFICES ASSUME NEW t \in Tasks, task'[t].launched, NEW d \in Deps[t]
               PROVE  task'[d].st \notin NotStarted
    BY DEF Stands
  <2>1. d \in Tasks
    BY GraphSetsAssumption
  <2>2. h[d].st \notin NotStarted
    BY <1>2, <1>3, <1>5 DEF Sound, Stands, NotStarted
  <2>3. d \notin L
    BY <1>3, <2>2 DEF NotStarted
  <2> QED
    BY <1>5, <2>1, <2>2, <2>3
<1>9. \A t \in Tasks : task'[t].st \in {g[t].st, "pending", "queued"}
  BY <1>2, <1>3, <1>4, <1>5, ClaimFields
<1> QED
  BY <1>7, <1>8, <1>9 DEF Sound

LEMMA DrainRespects ==
    ASSUME NEW f, NEW g, Sound(g), Respects(f, g), NEW wanted, Drain(g, wanted)
    PROVE  Sound(task') /\ Respects(f, task')
BY DrainSound DEF Respects

-----------------------------------------------------------------------------
(* Resets.                                                                 *)

LEMMA ResetRow ==
    ASSUME NEW r, RowOK(r)
    PROVE  /\ RowOK(RetryReset(r)) /\ ~RetryReset(r).launched
           /\ RetryReset(r).st = "pending"
           /\ RowOK(RecreateReset(r)) /\ ~RecreateReset(r).launched
           /\ RecreateReset(r).st = "pending"
<1>1. r \in Row /\ r.workspace \in BOOLEAN /\ r.parked \in BOOLEAN
      /\ r.entry \in EntryStatuses \cup {"none"}
  BY RowFields DEF RowOK
<1>2. NewRow \in Row /\ NewRow.st = "pending" /\ ~NewRow.launched /\ ~NewRow.agent /\ ~NewRow.parked
  BY DEF NewRow, Row, Statuses
<1>3. /\ RetryReset(r) \in Row /\ RetryReset(r).st = "pending" /\ ~RetryReset(r).launched
      /\ ~RetryReset(r).agent
  BY <1>1, <1>2 DEF RetryReset, Row
<1>4. /\ RecreateReset(r) \in Row /\ RecreateReset(r).st = "pending"
      /\ ~RecreateReset(r).launched /\ ~RecreateReset(r).agent
  BY <1>1, <1>2 DEF RecreateReset, Row
<1> QED
  BY <1>3, <1>4 DEF RowOK

\* A reset of a set of tasks keeps a sound graph when the set holds whatever
\* was launched over one of its members.
LEMMA ResetSound ==
    ASSUME NEW g, Sound(g), NEW S, NEW h, h = [t \in Tasks |-> h[t]],
           \A t \in Tasks : t \in S => RowOK(h[t]) /\ ~h[t].launched /\ h[t].st = "pending",
           \A t \in Tasks : t \notin S => h[t] = g[t],
           \A t \in Tasks : \A d \in Deps[t] : d \in S => t \in S \/ ~g[t].launched
    PROVE  Sound(h) /\ Respects(g, h)
<1>1. \A t \in Tasks : RowOK(h[t])
  BY DEF Sound, Rows
<1>2. Rows(h)
  <2>1. \A t \in Tasks : h[t] \in Row
    BY <1>1 DEF RowOK
  <2> QED
    BY <1>1, <2>1 DEF Rows
<1>3. Stands(h)
  <2> SUFFICES ASSUME NEW t \in Tasks, h[t].launched, NEW d \in Deps[t]
               PROVE  h[d].st \notin NotStarted
    BY DEF Stands
  <2>1. t \notin S /\ g[t].launched
    OBVIOUS
  <2>2. d \in Tasks /\ d \notin S
    BY <2>1, GraphSetsAssumption
  <2> QED
    BY <2>1, <2>2 DEF Sound, Stands
<1>4. Respects(g, h)
  BY DEF Respects
<1> QED
  BY <1>2, <1>3, <1>4 DEF Sound

LEMMA RetrySound ==
    ASSUME NEW g, Sound(g), NEW roots, NEW forced
    PROVE  Sound(Retry(g, roots, forced)) /\ Respects(g, Retry(g, roots, forced))
<1> DEFINE S == (roots \cup Below(roots, Tasks)) \ (In(g, {"pending"}) \ forced)
           h == Retry(g, roots, forced)
<1>1. h = [t \in Tasks |-> IF t \in S THEN RetryReset(g[t]) ELSE g[t]]
  BY DEF Retry
<1>2. \A t \in Tasks : RowOK(g[t])
  BY DEF Sound, Rows
<1>3. \A t \in Tasks : t \in S => RowOK(h[t]) /\ ~h[t].launched /\ h[t].st = "pending"
  BY <1>1, <1>2, ResetRow
<1>4. \A t \in Tasks : t \notin S => h[t] = g[t]
  BY <1>1
<1>5. ASSUME NEW t \in Tasks, NEW d \in Deps[t], d \in S
      PROVE  t \in S \/ ~g[t].launched
  <2>1. t \in Below(roots, Tasks)
    BY <1>5, BelowClosed
  <2>2. t \in In(g, {"pending"}) => ~g[t].launched
    BY <1>2 DEF In, RowOK
  <2> QED
    BY <2>1, <2>2
<1>6. h = [t \in Tasks |-> h[t]]
  BY <1>1
<1> HIDE DEF h, S
<1>7. Sound(h) /\ Respects(g, h)
  BY <1>3, <1>4, <1>5, <1>6, ResetSound
<1> QED
  BY <1>7 DEF h

LEMMA RecreateSound ==
    ASSUME NEW g, Sound(g), NEW S,
           \A t \in Tasks : \A d \in Deps[t] : d \in S => t \in S
    PROVE  Sound(Recreate(g, S)) /\ Respects(g, Recreate(g, S))
<1> DEFINE h == Recreate(g, S)
<1>1. h = [t \in Tasks |-> IF t \in S THEN RecreateReset(g[t]) ELSE g[t]]
  BY DEF Recreate
<1>2. \A t \in Tasks : RowOK(g[t])
  BY DEF Sound, Rows
<1>3. \A t \in Tasks : t \in S => RowOK(h[t]) /\ ~h[t].launched /\ h[t].st = "pending"
  BY <1>1, <1>2, ResetRow
<1>4. \A t \in Tasks : t \notin S => h[t] = g[t]
  BY <1>1
<1>5. h = [t \in Tasks |-> h[t]]
  BY <1>1
<1> HIDE DEF h
<1>6. Sound(h) /\ Respects(g, h)
  BY <1>3, <1>4, <1>5, ResetSound
<1> QED
  BY <1>6 DEF h

-----------------------------------------------------------------------------
(* Failing, approving and cancelling.                                      *)

LEMMA ToSound ==
    ASSUME NEW g, Sound(g), NEW S, NEW s \in Statuses,
           \A t \in S \cap Tasks : Follows(g[t], Moved(g[t], s))
    PROVE  /\ Sound(To(g, S, s))
           /\ \A t \in Tasks : To(g, S, s)[t].st = IF t \in S THEN s ELSE g[t].st
           /\ \A t \in Tasks : Follows(g[t], To(g, S, s)[t])
<1>1. Rows(g)
  BY DEF Sound
<1>2. /\ Rows(To(g, S, s))
      /\ \A t \in Tasks : Follows(g[t], To(g, S, s)[t])
      /\ \A t \in Tasks : To(g, S, s)[t].st = IF t \in S THEN s ELSE g[t].st
  BY <1>1, ToFollows
<1>3. To(g, S, s) \in [Tasks -> Row]
  BY <1>2 DEF Rows
<1> QED
  BY <1>2, <1>3, FollowsSound

LEMMA LastStatusCounts ==
    ASSUME NEW r \in Row, NEW s \in Statuses, NEW q \in Statuses
    PROVE  Moved(Moved(r, s), q) = Moved(r, q)
BY DEF Row, Moved

\* Two writes of a status, one after the other.
LEMMA TwoToSound ==
    ASSUME NEW g, Sound(g), NEW S, NEW s \in Statuses, NEW T, NEW q \in Statuses,
           \A t \in S \cap Tasks : Follows(g[t], Moved(g[t], s)),
           \A t \in T \cap Tasks : Follows(g[t], Moved(g[t], q))
    PROVE  LET h == To(To(g, S, s), T, q)
           IN  /\ Sound(h)
               /\ \A t \in Tasks : h[t].st = IF t \in T THEN q ELSE IF t \in S THEN s ELSE g[t].st
<1> DEFINE f == To(g, S, s)
           h == To(f, T, q)
<1>1. /\ Sound(f)
      /\ \A t \in Tasks : f[t].st = IF t \in S THEN s ELSE g[t].st
      /\ \A t \in Tasks : Follows(g[t], f[t])
  BY ToSound
<1>2. \A t \in Tasks : f[t] = IF t \in S THEN Moved(g[t], s) ELSE g[t]
  BY DEF To, Moved
<1>3. h = [t \in Tasks |-> IF t \in T THEN Moved(f[t], q) ELSE f[t]]
  BY DEF To, Moved
<1>4. \A t \in Tasks : g[t] \in Row /\ f[t] \in Row
  BY <1>1 DEF Sound, Rows
<1> HIDE DEF f, h
<1>5. ASSUME NEW t \in Tasks, t \in T
      PROVE  Follows(g[t], Moved(f[t], q)) /\ Moved(f[t], q).st = q
  <2>1. Moved(f[t], q) = Moved(g[t], q)
    <3>1. CASE t \in S
      <4>1. f[t] = Moved(g[t], s) /\ g[t] \in Row
        BY <1>2, <1>4, <3>1
      <4> QED
        BY <4>1, LastStatusCounts
    <3>2. CASE t \notin S
      <4>1. f[t] = g[t]
        BY <1>2, <3>2
      <4> QED
        BY <4>1
    <3> QED
      BY <3>1, <3>2
  <2>2. Follows(g[t], Moved(g[t], q)) /\ g[t] \in Row
    BY <1>4, <1>5
  <2>3. Moved(g[t], q).st = q
    BY <2>2, StatusFields
  <2> QED
    BY <2>1, <2>2, <2>3
<1>6. \A t \in Tasks : Follows(g[t], h[t])
  BY <1>1, <1>3, <1>5
<1>7. \A t \in Tasks : h[t].st = IF t \in T THEN q ELSE IF t \in S THEN s ELSE g[t].st
  BY <1>1, <1>3, <1>5
<1>8. h \in [Tasks -> Row]
  <2>1. \A t \in Tasks : h[t] \in Row
    BY <1>6 DEF Follows, RowOK
  <2> QED
    BY <1>3, <2>1
<1>9. Sound(h)
  BY <1>6, <1>8, FollowsSound
<1> QED
  BY <1>7, <1>9 DEF f, h

LEMMA FailedSound ==
    ASSUME NEW g, Sound(g), NEW t \in Tasks, g[t].st # "completed"
    PROVE  Sound(Failed(g, t)) /\ Respects(g, Failed(g, t))
<1> DEFINE S == Below({t}, Unfinished(g)) \cap In(g, {"pending", "queued", "blocked"})
           h == To(To(g, {t}, "failed"), S, "skipped")
<1>1. "failed" \in Statuses /\ "skipped" \in Statuses
  BY DEF Statuses
<1>2. \A u \in Tasks : RowOK(g[u])
  BY DEF Sound, Rows
<1>3. \A u \in S : u \in Tasks /\ g[u].st \in {"pending", "queued", "blocked"}
  BY DEF In
<1> HIDE DEF S
<1>4. \A u \in {t} \cap Tasks : Follows(g[u], Moved(g[u], "failed"))
  BY <1>2, EndFollows
<1>5. \A u \in S \cap Tasks : Follows(g[u], Moved(g[u], "skipped"))
  <2> TAKE u \in S \cap Tasks
  <2>1. RowOK(g[u]) /\ g[u].st \in NotStarted
    BY <1>2, <1>3 DEF NotStarted
  <2> QED
    BY <2>1, PutOffFollows
<1>6. /\ Sound(h)
      /\ \A u \in Tasks : h[u].st = IF u \in S THEN "skipped"
                                    ELSE IF u \in {t} THEN "failed" ELSE g[u].st
  BY <1>1, <1>4, <1>5, TwoToSound
<1> HIDE DEF h
<1>7. Sound(h) /\ Respects(g, h)
  BY <1>3, <1>6 DEF Respects
<1> QED
  BY <1>7 DEF Failed, h, S

LEMMA CancelledSound ==
    ASSUME NEW g, Sound(g), NEW t \in Tasks, g[t].st # "completed"
    PROVE  Sound(Cancelled(g, t)) /\ Respects(g, Cancelled(g, t))
<1> DEFINE reach == {t} \cup Below({t}, Unfinished(g))
           waits == (reach \ {t}) \cap In(g, {"pending", "queued", "blocked", "skipped"})
           h == To(To(g, reach \ waits, "failed"), waits, "blocked")
<1>1. "failed" \in Statuses /\ "blocked" \in Statuses
  BY DEF Statuses
<1>2. \A u \in Tasks : RowOK(g[u])
  BY DEF Sound, Rows
<1>3. \A u \in waits : u \in Tasks /\ g[u].st \in {"pending", "queued", "blocked", "skipped"}
  BY DEF In
<1>4. \A u \in reach : g[u].st # "completed"
  BY BelowOpen DEF Unfinished, In
<1> HIDE DEF reach, waits
<1>5. \A u \in (reach \ waits) \cap Tasks : Follows(g[u], Moved(g[u], "failed"))
  BY <1>2, EndFollows
<1>6. \A u \in waits \cap Tasks : Follows(g[u], Moved(g[u], "blocked"))
  <2> TAKE u \in waits \cap Tasks
  <2>1. RowOK(g[u]) /\ g[u].st \in NotStarted
    BY <1>2, <1>3 DEF NotStarted
  <2> QED
    BY <2>1, PutOffFollows
<1>7. /\ Sound(h)
      /\ \A u \in Tasks : h[u].st = IF u \in waits THEN "blocked"
                                    ELSE IF u \in reach \ waits THEN "failed" ELSE g[u].st
  BY <1>1, <1>5, <1>6, TwoToSound
<1> HIDE DEF h
<1>8. Sound(h) /\ Respects(g, h)
  BY <1>3, <1>4, <1>7 DEF Respects
<1> QED
  BY <1>8 DEF Cancelled, h, reach, waits

LEMMA WorkflowCancelledSound ==
    ASSUME NEW g, Sound(g)
    PROVE  Sound(WorkflowCancelled(g)) /\ Respects(g, WorkflowCancelled(g))
<1> DEFINE S == In(g, {"pending", "queued", "running", "fixing_with_ai", "blocked",
                       "review_ready", "awaiting_approval"})
<1>1. "failed" \in Statuses
  BY DEF Statuses
<1>2. \A u \in S \cap Tasks : Follows(g[u], Moved(g[u], "failed"))
  BY EndFollows DEF Sound, Rows
<1>3. \A u \in S : g[u].st # "completed"
  BY DEF In
<1> HIDE DEF S
<1>4. /\ Sound(To(g, S, "failed"))
      /\ \A u \in Tasks : To(g, S, "failed")[u].st = IF u \in S THEN "failed" ELSE g[u].st
  BY <1>1, <1>2, ToSound
<1>5. Respects(g, To(g, S, "failed"))
  BY <1>3, <1>4 DEF Respects
<1> QED
  BY <1>4, <1>5 DEF WorkflowCancelled, S

LEMMA ApprovedSound ==
    ASSUME NEW g, Sound(g), NEW t \in Tasks
    PROVE  Sound(Approved(g, t)) /\ Respects(g, Approved(g, t))
<1> DEFINE r == [Moved(g[t], "completed") EXCEPT !.entry = "none"]
           f == [g EXCEPT ![t] = r]
           S == Below({t}, Unfinished(f)) \cap In(g, {"skipped"})
<1>1. "completed" \in Statuses /\ g \in [Tasks -> Row] /\ RowOK(g[t])
  BY DEF Statuses, Sound, Rows
<1>2. /\ r \in Row /\ r.st = "completed" /\ r.entry = "none"
      /\ r.parked = g[t].parked /\ r.agent = g[t].agent /\ r.launched = g[t].launched
  <2>1. PICK q : q = Moved(g[t], "completed")
    OBVIOUS
  <2>2. /\ q \in Row /\ q.st = "completed"
        /\ q.parked = g[t].parked /\ q.agent = g[t].agent /\ q.launched = g[t].launched
    BY <1>1, <2>1, StatusFields
  <2>3. r = [q EXCEPT !.entry = "none"]
    BY <2>1
  <2> QED
    BY <2>2, <2>3 DEF Row
<1>3. Follows(g[t], r)
  BY <1>1, <1>2 DEF Follows, RowOK, NotStarted
<1>4. [To(g, {t}, "completed") EXCEPT ![t].entry = "none"] = f
  BY <1>1 DEF To, Moved
<1>5. /\ f = [u \in Tasks |-> f[u]]
      /\ f[t] = r
      /\ \A u \in Tasks : u # t => f[u] = g[u]
  BY <1>1
<1> HIDE DEF r, f
<1>6. Sound(f)
  BY <1>3, <1>5, OneFollows
<1>7. Approved(g, t) = Return(f, S)
  BY <1>4 DEF Approved
<1>8. \A u \in S : u \in Tasks /\ u # t /\ f[u].st = "skipped"
  <2>1. S \subseteq Unfinished(f) /\ S \subseteq Tasks
    BY BelowOpen DEF Unfinished
  <2>2. t \notin S
    BY <1>2, <1>5, <2>1 DEF Unfinished, In
  <2> QED
    BY <1>5, <2>1, <2>2 DEF In
<1> HIDE DEF S
<1>9. /\ Sound(Return(f, S))
      /\ \A u \in Tasks : Return(f, S)[u].st = IF u \in S THEN "pending" ELSE f[u].st
  BY <1>6, <1>8, ReturnFollows
<1>10. Respects(g, Return(f, S))
  BY <1>2, <1>5, <1>9 DEF Respects
<1> QED
  BY <1>7, <1>9, <1>10

-----------------------------------------------------------------------------
(* Fix sessions and rejects.                                               *)

\* A session that is reverted, with its agent gone, returns to a status it can
\* be entered from, or leaves a row that knows of none as it is.
LEMMA RevertedFollows ==
    ASSUME NEW r, RowOK(r)
    PROVE  LET s == [Reverted(r) EXCEPT !.agent = FALSE]
           IN  /\ Follows(r, s)
               /\ ~r.agent => s = Reverted(r)
               /\ r.agent /\ r.st = "completed" => s.st = "completed"
<1> DEFINE back == IF r.entry # "none" THEN r.entry
                   ELSE IF r.st \in {"fixing_with_ai", "failed"} \/ r.parked THEN "failed"
                   ELSE "none"
           s == [Reverted(r) EXCEPT !.agent = FALSE]
<1>1. Reverted(r) = IF back = "none" THEN r
                    ELSE [r EXCEPT !.st = back, !.entry = "none", !.parked = FALSE]
  BY DEF Reverted
<1>2. r \in Row /\ r.entry \in EntryStatuses \cup {"none"}
  BY RowFields DEF RowOK
<1>3. back \in EntryStatuses \cup {"none"}
  BY <1>2 DEF EntryStatuses
<1>4. CASE back = "none"
  <2>1. Reverted(r) = r
    BY <1>1, <1>4
  <2>2. /\ s \in Row /\ s.st = r.st /\ s.entry = r.entry /\ s.parked = r.parked
        /\ s.launched = r.launched /\ ~s.agent
        /\ ~r.agent => s = r
    BY <1>2, <2>1, RowFields DEF Row
  <2> QED
    BY <2>1, <2>2 DEF Follows, RowOK
<1>5. CASE back # "none"
  <2> HIDE DEF back
  <2>1. /\ Reverted(r) = [r EXCEPT !.st = back, !.entry = "none", !.parked = FALSE]
        /\ back \in EntryStatuses /\ back \in Statuses
    BY <1>1, <1>3, <1>5 DEF EntryStatuses, Statuses
  <2>2. /\ Reverted(r) \in Row /\ Reverted(r).st = back /\ Reverted(r).entry = "none"
        /\ ~Reverted(r).parked /\ Reverted(r).agent = r.agent
        /\ Reverted(r).launched = r.launched
    BY <1>2, <2>1 DEF Row
  <2>3. /\ s \in Row /\ s.st = back /\ s.entry = "none" /\ ~s.parked /\ ~s.agent
        /\ s.launched = r.launched
        /\ ~r.agent => s = Reverted(r)
    <3>1. PICK q : q = Reverted(r)
      OBVIOUS
    <3>2. q \in Row /\ q.st = back /\ q.entry = "none" /\ ~q.parked
          /\ q.agent = r.agent /\ q.launched = r.launched
      BY <2>2, <3>1
    <3>3. s = [q EXCEPT !.agent = FALSE]
      BY <3>1
    <3> QED
      BY <3>1, <3>2, <3>3 DEF Row
  <2>4. ~(r.agent /\ r.st = "completed")
    BY <1>5 DEF back, RowOK
  <2> QED
    BY <2>1, <2>3, <2>4 DEF Follows, RowOK, EntryStatuses, NotStarted
<1> QED
  BY <1>4, <1>5

LEMMA ParkedFollows ==
    ASSUME NEW r, RowOK(r), r.st = "fixing_with_ai"
    PROVE  Follows(r, Parked(r))
<1>1. r \in Row
  BY DEF RowOK
<1>2. /\ Parked(r) \in Row /\ Parked(r).st = "awaiting_approval" /\ Parked(r).parked
      /\ Parked(r).entry = r.entry /\ ~Parked(r).agent /\ Parked(r).launched = r.launched
  BY <1>1 DEF Parked, Row, Statuses
<1> QED
  BY <1>2 DEF Follows, RowOK, NotStarted

-----------------------------------------------------------------------------
(* The steps.                                                              *)

\* A handler that rewrites one row keeps the graph sound, and finished work
\* unless that row is finished.
LEMMA OneStep ==
    ASSUME Sound(task), NEW t \in Tasks, NEW r, task' = [task EXCEPT ![t] = r],
           Follows(task[t], r)
    PROVE  /\ Sound(task')
           /\ (task[t].st = "completed" => r.st \in {"completed", "closed"})
              => Respects(task, task')
<1>1. task \in [Tasks -> Row]
  BY DEF Sound, Rows
<1>2. /\ task' = [u \in Tasks |-> task'[u]]
      /\ task'[t] = r
      /\ \A u \in Tasks : u # t => task'[u] = task[u]
  BY <1>1
<1>3. Sound(task')
  BY <1>2, OneFollows
<1> QED
  BY <1>2, <1>3 DEF Respects

LEMMA LaunchedStep ==
    ASSUME Sound(task), NEW t \in Tasks, Launched(t)
    PROVE  Sound(task') /\ Respects(task, task')
<1> DEFINE r == [task[t] EXCEPT !.st = "running", !.workspace = TRUE]
<1>1. task \in [Tasks -> Row] /\ RowOK(task[t]) /\ task[t] \in Row
  BY DEF Sound, Rows
<1>2. task[t].st = "queued"
  BY DEF Launched
<1>3. task' = [task EXCEPT ![t] = r]
  BY <1>1 DEF Launched
<1>4. /\ r \in Row /\ r.st = "running" /\ r.parked = task[t].parked
      /\ r.agent = task[t].agent /\ r.launched = task[t].launched
  <2>1. PICK q : q = task[t]
    OBVIOUS
  <2>2. r = [q EXCEPT !.st = "running", !.workspace = TRUE] /\ q \in Row
    BY <1>1, <2>1
  <2> QED
    BY <2>1, <2>2 DEF Row, Statuses
<1> HIDE DEF r
<1>5. Follows(task[t], r)
  BY <1>1, <1>2, <1>4 DEF Follows, RowOK, NotStarted
<1> QED
  BY <1>2, <1>3, <1>5, OneStep

LEMMA CompletesStep ==
    ASSUME Sound(task), NEW t \in Tasks, Completes(t)
    PROVE  Sound(task') /\ Respects(task, task')
<1>1. task[t].st = "running" /\ RowOK(task[t])
  BY DEF Completes, Sound, Rows
<1>2. ASSUME NEW s \in {"completed", "awaiting_approval"}
      PROVE  Sound(To(task, {t}, s)) /\ Respects(task, To(task, {t}, s))
  <2>1. s \in Statuses
    BY DEF Statuses
  <2>2. \A u \in {t} \cap Tasks : Follows(task[u], Moved(task[u], s))
    BY <1>1, AnswerFollows
  <2>3. /\ Sound(To(task, {t}, s))
        /\ \A u \in Tasks : To(task, {t}, s)[u].st = IF u \in {t} THEN s ELSE task[u].st
    BY <2>1, <2>2, ToSound
  <2> QED
    BY <1>1, <2>3 DEF Respects
<1>3. CASE t \in Gated
  BY <1>2, <1>3 DEF Completes
<1>4. CASE t \notin Gated
  BY <1>2, <1>4, DrainRespects DEF Completes, DrainAll
<1> QED
  BY <1>3, <1>4

LEMMA ReviewReadyStep ==
    ASSUME Sound(task), NEW t \in Tasks, ReviewReady(t)
    PROVE  Sound(task') /\ Respects(task, task')
<1> DEFINE h == To(task, {t}, "review_ready")
<1>1. task[t].st = "running" /\ RowOK(task[t]) /\ "review_ready" \in Statuses
  BY DEF ReviewReady, Sound, Rows, Statuses
<1>2. \A u \in {t} \cap Tasks : Follows(task[u], Moved(task[u], "review_ready"))
  BY <1>1, AnswerFollows
<1>3. /\ Sound(h)
      /\ \A u \in Tasks : h[u].st = IF u \in {t} THEN "review_ready" ELSE task[u].st
  BY <1>1, <1>2, ToSound
<1>4. Respects(task, h)
  BY <1>1, <1>3 DEF Respects
<1> QED
  BY <1>3, <1>4, DrainRespects DEF ReviewReady, DrainAll

LEMMA FailsStep ==
    ASSUME Sound(task), NEW t \in Tasks, Fails(t)
    PROVE  Sound(task') /\ Respects(task, task')
<1>1. Sound(Failed(task, t)) /\ Respects(task, Failed(task, t))
  BY FailedSound DEF Fails
<1> QED
  BY <1>1, DrainRespects DEF Fails, DrainAll

LEMMA FailTaskStep ==
    ASSUME Sound(task), NEW t \in Tasks, FailTask(t)
    PROVE  Sound(task') /\ Respects(task, task')
<1> DEFINE r == [task[t] EXCEPT !.st = "failed", !.entry = "none"]
<1>1. task \in [Tasks -> Row] /\ RowOK(task[t]) /\ task[t] \in Row
  BY DEF Sound, Rows
<1>2. task[t].st = "queued"
  BY DEF FailTask
<1>3. task' = [task EXCEPT ![t] = r]
  BY <1>1 DEF FailTask
<1>4. /\ r \in Row /\ r.st = "failed" /\ r.parked = task[t].parked
      /\ r.agent = task[t].agent /\ r.launched = task[t].launched
  <2>1. PICK q : q = task[t]
    OBVIOUS
  <2>2. r = [q EXCEPT !.st = "failed", !.entry = "none"] /\ q \in Row
    BY <1>1, <2>1
  <2> QED
    BY <2>1, <2>2 DEF Row, Statuses
<1> HIDE DEF r
<1>5. Follows(task[t], r)
  BY <1>1, <1>4 DEF Follows, RowOK, NotStarted
<1> QED
  BY <1>2, <1>3, <1>5, OneStep

LEMMA PollStep ==
    ASSUME Sound(task), Poll
    PROVE  Sound(task') /\ Respects(task, task')
<1>1. Respects(task, task)
  BY DEF Respects
<1> QED
  BY <1>1, DrainRespects DEF Poll, DrainAll

LEMMA BeginFixStep ==
    ASSUME Sound(task), NEW t \in Tasks, BeginFix(t)
    PROVE  Sound(task') /\ Respects(task, task')
<1> DEFINE r == [task[t] EXCEPT !.st = "fixing_with_ai", !.entry = task[t].st, !.agent = TRUE]
<1>1. task \in [Tasks -> Row] /\ RowOK(task[t]) /\ task[t] \in Row
  BY DEF Sound, Rows
<1>2. task[t].st \in EntryStatuses /\ ~task[t].parked
  BY DEF BeginFix
<1>3. task' = [task EXCEPT ![t] = r]
  BY <1>1 DEF BeginFix
<1>4. /\ r \in Row /\ r.st = "fixing_with_ai" /\ r.parked = task[t].parked
      /\ r.entry = task[t].st /\ r.launched = task[t].launched
  <2>1. PICK q : q = task[t]
    OBVIOUS
  <2>2. r = [q EXCEPT !.st = "fixing_with_ai", !.entry = q.st, !.agent = TRUE] /\ q \in Row
    BY <1>1, <2>1
  <2> QED
    BY <1>2, <2>1, <2>2 DEF Row, Statuses
<1> HIDE DEF r
<1>5. Follows(task[t], r)
  BY <1>1, <1>2, <1>4 DEF Follows, RowOK, NotStarted, EntryStatuses
<1> QED
  BY <1>2, <1>3, <1>5, OneStep DEF EntryStatuses

LEMMA FixEndsStep ==
    ASSUME Sound(task), NEW t \in Tasks, FixEnds(t)
    PROVE  Sound(task') /\ Respects(task, task')
<1>1. RowOK(task[t]) /\ task[t].agent
  BY DEF Sound, Rows, FixEnds
<1>2. CASE task[t].st = "fixing_with_ai" /\ task' = [task EXCEPT ![t] = Parked(task[t])]
  <2>1. Follows(task[t], Parked(task[t]))
    BY <1>1, <1>2, ParkedFollows
  <2> QED
    BY <1>2, <2>1, OneStep
<1>3. CASE task' = [task EXCEPT ![t] = [Reverted(task[t]) EXCEPT !.agent = FALSE]]
  <2> DEFINE r == [Reverted(task[t]) EXCEPT !.agent = FALSE]
  <2>1. Follows(task[t], r) /\ (task[t].st = "completed" => r.st = "completed")
    BY <1>1, RevertedFollows
  <2>2. task' = [task EXCEPT ![t] = r]
    BY <1>3
  <2> HIDE DEF r
  <2> QED
    BY <2>1, <2>2, OneStep
<1> QED
  BY <1>2, <1>3 DEF FixEnds

LEMMA ApproveStep ==
    ASSUME Sound(task), NEW t \in Tasks, Approve(t)
    PROVE  Sound(task') /\ Respects(task, task')
<1>1. Sound(Approved(task, t)) /\ Respects(task, Approved(task, t))
  BY ApprovedSound
<1> QED
  BY <1>1, DrainRespects DEF Approve, DrainAll

LEMMA EndApproveStep ==
    ASSUME Sound(task), cmd.target \subseteq Tasks, EndApprove
    PROVE  Sound(task') /\ Respects(task, task')
<1>1. PICK t \in cmd.target : DrainAll(Approved(task, t))
  BY DEF EndApprove
<1>2. Sound(Approved(task, t)) /\ Respects(task, Approved(task, t))
  BY ApprovedSound
<1> QED
  BY <1>1, <1>2, DrainRespects DEF DrainAll

LEMMA ApproveFixStep ==
    ASSUME Sound(task), NEW t \in Tasks, ApproveFix(t)
    PROVE  Sound(task') /\ Respects(task, task')
<1> DEFINE r == [task[t] EXCEPT !.st = "running", !.parked = FALSE, !.entry = "none"]
<1>1. task \in [Tasks -> Row] /\ RowOK(task[t]) /\ task[t] \in Row
  BY DEF Sound, Rows
<1>2. Asks(t) /\ task[t].parked
  BY DEF ApproveFix
<1>3. task' = [task EXCEPT ![t] = r]
  BY <1>1 DEF ApproveFix
<1>4. /\ r \in Row /\ r.st = "running" /\ ~r.parked
      /\ r.agent = task[t].agent /\ r.launched = task[t].launched
  <2>1. PICK q : q = task[t]
    OBVIOUS
  <2>2. r = [q EXCEPT !.st = "running", !.parked = FALSE, !.entry = "none"] /\ q \in Row
    BY <1>1, <2>1
  <2> QED
    BY <2>1, <2>2 DEF Row, Statuses
<1> HIDE DEF r
<1>5. Follows(task[t], r)
  BY <1>1, <1>2, <1>4 DEF Follows, RowOK, NotStarted, Asks
<1> QED
  BY <1>2, <1>3, <1>5, OneStep DEF Asks

LEMMA RejectStep ==
    ASSUME Sound(task), NEW t \in Tasks, Reject(t)
    PROVE  /\ Sound(task')
           /\ \/ Respects(task, task')
              \/ TakenBack(t)
<1>1. task \in [Tasks -> Row] /\ RowOK(task[t]) /\ task[t] \in Row
  BY DEF Sound, Rows
<1>2. CASE task[t].parked
  <2>1. task' = [task EXCEPT ![t] = Reverted(task[t])]
    BY <1>1, <1>2 DEF Reject
  <2>2. ~task[t].agent
    BY <1>1, <1>2 DEF RowOK
  <2>3. Follows(task[t], Reverted(task[t]))
    BY <1>1, <2>2, RevertedFollows
  <2>4. ASSUME task[t].st = "completed" PROVE TakenBack(t)
    <3>1. PICK q : q = task[t]
      OBVIOUS
    <3>2. q.entry = "none" /\ q.parked /\ q \in Row
      BY <1>1, <1>2, <2>4, <3>1 DEF RowOK
    <3>3. Reverted(q) = [q EXCEPT !.st = "failed", !.entry = "none", !.parked = FALSE]
      BY <3>2 DEF Reverted
    <3>4. Reverted(q) = [q EXCEPT !.st = "failed", !.parked = FALSE]
      BY <3>2, <3>3 DEF Row
    <3>5. task' = [task EXCEPT ![t] = [q EXCEPT !.st = "failed", !.parked = FALSE]]
      BY <2>1, <3>1, <3>4
    <3>6. task' = [task EXCEPT ![t].st = "failed", ![t].parked = FALSE]
      BY <1>1, <3>1, <3>5
    <3> QED
      BY <1>2, <3>6 DEF TakenBack
  <2> QED
    BY <2>1, <2>3, <2>4, OneStep
<1>3. CASE ~task[t].parked
  <2> DEFINE r == [task[t] EXCEPT !.st = "failed", !.entry = "none"]
  <2>1. task' = [task EXCEPT ![t] = r]
    BY <1>1, <1>3 DEF Reject
  <2>2. /\ r \in Row /\ r.st = "failed" /\ r.parked = task[t].parked
        /\ r.agent = task[t].agent /\ r.launched = task[t].launched
    <3>1. PICK q : q = task[t]
      OBVIOUS
    <3>2. r = [q EXCEPT !.st = "failed", !.entry = "none"] /\ q \in Row
      BY <1>1, <3>1
    <3> QED
      BY <3>1, <3>2 DEF Row, Statuses
  <2> HIDE DEF r
  <2>3. Follows(task[t], r)
    BY <1>1, <2>2 DEF Follows, RowOK, NotStarted
  <2>4. task[t].st # "completed"
    BY <1>3 DEF Reject, Asks
  <2> QED
    BY <2>1, <2>3, <2>4, OneStep
<1> QED
  BY <1>2, <1>3

LEMMA CancelTaskStep ==
    ASSUME Sound(task), NEW t \in Tasks, CancelTask(t)
    PROVE  Sound(task') /\ Respects(task, task')
BY CancelledSound DEF CancelTask

LEMMA CancelWorkflowStep ==
    ASSUME Sound(task), CancelWorkflow
    PROVE  Sound(task') /\ Respects(task, task')
BY WorkflowCancelledSound DEF CancelWorkflow

LEMMA CloseIdleTaskStep ==
    ASSUME Sound(task), NEW t \in Tasks, CloseIdleTask(t)
    PROVE  Sound(task') /\ Respects(task, task')
<1>1. RowOK(task[t]) /\ "closed" \in Statuses
  BY DEF Sound, Rows, Statuses
<1>2. \A u \in {t} \cap Tasks : Follows(task[u], Moved(task[u], "closed"))
  BY <1>1, EndFollows
<1>3. /\ Sound(To(task, {t}, "closed"))
      /\ \A u \in Tasks : To(task, {t}, "closed")[u].st = IF u \in {t} THEN "closed" ELSE task[u].st
  BY <1>1, <1>2, ToSound
<1> QED
  BY <1>3 DEF CloseIdleTask, Respects

LEMMA BeginInvalidationStep ==
    ASSUME Sound(task), NEW kind \in Kinds, NEW target \in SUBSET Tasks,
           kind \in WorkflowCommands \/ target # {},
           BeginInvalidation(kind, target)
    PROVE  Sound(task') /\ Respects(task, task')
<1>1. CASE kind \in WorkflowCommands
  <2>1. task' = WorkflowCancelled(task)
    BY <1>1 DEF BeginInvalidation
  <2> QED
    BY <2>1, WorkflowCancelledSound
<1>2. CASE kind \notin WorkflowCommands /\ target \cap In(task, {"completed", "closed"}) = {}
  <2>1. PICK t \in target : task' = Cancelled(task, t)
    <3>1. (CHOOSE t \in target : TRUE) \in target
      BY <1>2
    <3>2. task' = Cancelled(task, CHOOSE t \in target : TRUE)
      BY <1>2 DEF BeginInvalidation
    <3> QED
      BY <3>1, <3>2
  <2>2. t \in Tasks /\ task[t].st # "completed"
    BY <1>2 DEF In
  <2> QED
    BY <2>1, <2>2, CancelledSound
<1>3. CASE kind \notin WorkflowCommands /\ target \cap In(task, {"completed", "closed"}) # {}
  BY <1>3 DEF BeginInvalidation, Respects
<1> QED
  BY <1>1, <1>2, <1>3

LEMMA ApplyInvalidationStep ==
    ASSUME Sound(task), ApplyInvalidation
    PROVE  Sound(task') /\ Respects(task, task')
<1> DEFINE below == Below(cmd.target, Tasks)
           all == cmd.target \cup below
<1>1. /\ \A t \in Tasks : \A d \in Deps[t] : d \in all => t \in all
      /\ \A t \in Tasks : \A d \in Deps[t] : d \in below => t \in below
      /\ \A t \in Tasks : \A d \in Deps[t] : d \in Tasks => t \in Tasks
  BY BelowClosed
<1>2. CASE Drain(Retry(task, cmd.target, cmd.target), cmd.target)
  BY <1>2, RetrySound, DrainRespects
<1>3. CASE Drain(Recreate(task, all), all)
  BY <1>1, <1>3, RecreateSound, DrainRespects
<1>4. CASE Drain(Recreate(task, below), below)
  BY <1>1, <1>4, RecreateSound, DrainRespects
<1>5. CASE DrainAll(Retry(task, RetryRoots(task), {}))
  BY <1>5, RetrySound, DrainRespects DEF DrainAll
<1>6. CASE DrainAll(Recreate(task, Tasks))
  BY <1>1, <1>6, RecreateSound, DrainRespects DEF DrainAll
<1> QED
  BY <1>2, <1>3, <1>4, <1>5, <1>6 DEF ApplyInvalidation

-----------------------------------------------------------------------------
(* The invariant and the theorems.                                         *)

LEMMA InitSound == Init => IInv
<1> SUFFICES ASSUME Init PROVE IInv
  OBVIOUS
<1>1. NewRow \in Row /\ RowOK(NewRow) /\ ~NewRow.launched
  BY DEF NewRow, Row, RowOK, Statuses
<1>2. task \in [Tasks -> Row] /\ \A t \in Tasks : task[t] = NewRow
  BY <1>1 DEF Init
<1>3. Sound(task)
  BY <1>1, <1>2 DEF Sound, Rows, Stands
<1>4. cmd \in [kind : Kinds \cup {"none"}, target : SUBSET Tasks]
  BY DEF Init, NoCmd
<1>5. undone \in BOOLEAN
  BY DEF Init
<1>6. moves \in 0 .. MaxMoves
  BY GraphBoundsAssumption DEF Init
<1> QED
  BY <1>2, <1>3, <1>4, <1>5, <1>6 DEF IInv, TypeOK

LEMMA RowsStep ==
    ASSUME IInv, Next
    PROVE  /\ Sound(task')
           /\ \/ Respects(task, task')
              \/ \E t \in Tasks : TakenBack(t)
<1> USE DEF IInv
<1>0. cmd.target \subseteq Tasks
  BY DEF TypeOK
<1>1. ASSUME NEW t \in Tasks, Launched(t) PROVE Sound(task') /\ Respects(task, task')
  BY <1>1, LaunchedStep
<1>2. ASSUME NEW t \in Tasks, Completes(t) PROVE Sound(task') /\ Respects(task, task')
  BY <1>2, CompletesStep
<1>3. ASSUME NEW t \in Tasks, ReviewReady(t) PROVE Sound(task') /\ Respects(task, task')
  BY <1>3, ReviewReadyStep
<1>4. ASSUME NEW t \in Tasks, Fails(t) PROVE Sound(task') /\ Respects(task, task')
  BY <1>4, FailsStep
<1>5. ASSUME NEW t \in Tasks, FailTask(t) PROVE Sound(task') /\ Respects(task, task')
  BY <1>5, FailTaskStep
<1>6. ASSUME NEW t \in Tasks, BeginFix(t) PROVE Sound(task') /\ Respects(task, task')
  BY <1>6, BeginFixStep
<1>7. ASSUME NEW t \in Tasks, FixEnds(t) PROVE Sound(task') /\ Respects(task, task')
  BY <1>7, FixEndsStep
<1>8. ASSUME NEW t \in Tasks, Approve(t) PROVE Sound(task') /\ Respects(task, task')
  BY <1>8, ApproveStep
<1>9. ASSUME NEW t \in Tasks, ApproveFix(t) PROVE Sound(task') /\ Respects(task, task')
  BY <1>9, ApproveFixStep
<1>10. ASSUME NEW t \in Tasks, BeginApprove(t) PROVE Sound(task') /\ Respects(task, task')
  BY <1>10 DEF BeginApprove, Respects
<1>11. ASSUME NEW t \in Tasks, Reject(t)
       PROVE  /\ Sound(task')
              /\ \/ Respects(task, task')
                 \/ TakenBack(t)
  BY <1>11, RejectStep
<1>12. ASSUME NEW t \in Tasks, CancelTask(t) PROVE Sound(task') /\ Respects(task, task')
  BY <1>12, CancelTaskStep
<1>13. ASSUME NEW t \in Tasks, CloseIdleTask(t) PROVE Sound(task') /\ Respects(task, task')
  BY <1>13, CloseIdleTaskStep
<1>14. ASSUME NEW t \in Tasks, NEW kind \in TaskCommands, BeginInvalidation(kind, {t})
       PROVE  Sound(task') /\ Respects(task, task')
  BY <1>14, BeginInvalidationStep DEF Kinds
<1>15. ASSUME NEW kind \in WorkflowCommands, BeginInvalidation(kind, {})
       PROVE  Sound(task') /\ Respects(task, task')
  BY <1>15, BeginInvalidationStep DEF Kinds
<1>16. CASE EndApprove
  BY <1>0, <1>16, EndApproveStep
<1>17. CASE ApplyInvalidation
  BY <1>17, ApplyInvalidationStep
<1>18. CASE CommandFails
  BY <1>18 DEF CommandFails, Respects
<1>19. CASE CancelWorkflow
  BY <1>19, CancelWorkflowStep
<1>20. CASE Poll
  BY <1>20, PollStep
<1> HIDE DEF IInv
<1> QED
  BY <1>1, <1>2, <1>3, <1>4, <1>5, <1>6, <1>7, <1>8, <1>9, <1>10, <1>11, <1>12, <1>13,
     <1>14, <1>15, <1>16, <1>17, <1>18, <1>19, <1>20 DEF Next

\* What the commands and the bounds do.
LEMMA CommandStep ==
    ASSUME IInv, Next
    PROVE  /\ cmd' \in [kind : Kinds \cup {"none"}, target : SUBSET Tasks]
           /\ undone' \in BOOLEAN
           /\ moves' \in 0 .. MaxMoves
<1> USE DEF IInv, TypeOK
<1>1. NoCmd \in [kind : Kinds \cup {"none"}, target : SUBSET Tasks]
  BY DEF NoCmd
<1>2. ASSUME NEW kind \in Kinds, NEW target \in SUBSET Tasks
      PROVE  [kind |-> kind, target |-> target] \in [kind : Kinds \cup {"none"}, target : SUBSET Tasks]
  OBVIOUS
<1>3. Move => moves' \in 0 .. MaxMoves
  BY GraphBoundsAssumption DEF Move
<1>4. cmd' = cmd \/ cmd' = NoCmd
      \/ \E kind \in Kinds, target \in SUBSET Tasks : cmd' = [kind |-> kind, target |-> target]
  <2>1. ASSUME NEW t \in Tasks, BeginApprove(t)
        PROVE  cmd' = [kind |-> "approve", target |-> {t}] /\ "approve" \in Kinds
    BY <2>1 DEF BeginApprove, Kinds
  <2>2. ASSUME NEW t \in Tasks, NEW kind \in TaskCommands, BeginInvalidation(kind, {t})
        PROVE  cmd' = [kind |-> kind, target |-> {t}] /\ kind \in Kinds
    BY <2>2 DEF BeginInvalidation, Kinds
  <2>3. ASSUME NEW kind \in WorkflowCommands, BeginInvalidation(kind, {})
        PROVE  cmd' = [kind |-> kind, target |-> {}] /\ kind \in Kinds
    BY <2>3 DEF BeginInvalidation, Kinds
  <2>4. ASSUME NEW t \in Tasks,
               \/ Launched(t) \/ Completes(t) \/ ReviewReady(t) \/ Fails(t) \/ FailTask(t)
               \/ BeginFix(t) \/ FixEnds(t) \/ Approve(t) \/ ApproveFix(t) \/ Reject(t)
               \/ CancelTask(t) \/ CloseIdleTask(t)
        PROVE  cmd' = cmd
    BY <2>4 DEF Launched, Completes, ReviewReady, Fails, FailTask, BeginFix, FixEnds, Approve,
       ApproveFix, Reject, CancelTask, CloseIdleTask
  <2>5. EndApprove \/ ApplyInvalidation \/ CommandFails => cmd' = NoCmd
    BY DEF EndApprove, ApplyInvalidation, CommandFails
  <2>6. CancelWorkflow \/ Poll => cmd' = cmd
    BY DEF CancelWorkflow, Poll
  <2>7. \A t \in Tasks : {t} \in SUBSET Tasks
    OBVIOUS
  <2> HIDE DEF IInv, TypeOK
  <2>8. ASSUME NEW t \in Tasks,
               BeginApprove(t) \/ \E kind \in TaskCommands : BeginInvalidation(kind, {t})
        PROVE  \E kind \in Kinds, target \in SUBSET Tasks : cmd' = [kind |-> kind, target |-> target]
    BY <2>1, <2>2, <2>7, <2>8
  <2>9. ASSUME NEW kind \in WorkflowCommands, BeginInvalidation(kind, {})
        PROVE  \E k \in Kinds, target \in SUBSET Tasks : cmd' = [kind |-> k, target |-> target]
    BY <2>3, <2>9
  <2> QED
    BY <2>4, <2>5, <2>6, <2>8, <2>9 DEF Next
<1>5. moves' = moves \/ Move
  BY DEF Next, Launched, Completes, ReviewReady, Fails, FailTask, BeginFix, FixEnds, Approve,
     ApproveFix, BeginApprove, Reject, CancelTask, CloseIdleTask, BeginInvalidation,
     EndApprove, ApplyInvalidation, CommandFails, CancelWorkflow, Poll
<1>6. undone' = undone \/ undone' = TRUE
  BY DEF Next, Launched, Completes, ReviewReady, Fails, FailTask, BeginFix, FixEnds, Approve,
     ApproveFix, BeginApprove, Reject, CancelTask, CloseIdleTask, BeginInvalidation,
     EndApprove, ApplyInvalidation, CommandFails, CancelWorkflow, Poll
<1> QED
  BY <1>1, <1>2, <1>3, <1>4, <1>5, <1>6

LEMMA NextSound == IInv /\ [Next]_vars => IInv'
<1> SUFFICES ASSUME IInv, [Next]_vars PROVE IInv'
  OBVIOUS
<1>1. CASE Next
  <2>1. Sound(task')
    BY <1>1, RowsStep
  <2>2. task' \in [Tasks -> Row]
    BY <2>1 DEF Sound, Rows
  <2> QED
    BY <1>1, <2>1, <2>2, CommandStep DEF IInv, TypeOK
<1>2. CASE UNCHANGED vars
  BY <1>2 DEF vars, IInv, TypeOK, Sound, Rows, Stands
<1> QED
  BY <1>1, <1>2

\* In every reachable state of every graph each row is consistent by itself
\* and no launched row stands over an input that is to be done.
THEOREM GraphInvariant == Spec => []IInv
BY InitSound, NextSound, PTL DEF Spec

\* The rows and the command keep their types under every handler.
THEOREM GraphTypeCorrect == Spec => []TypeOK
<1>1. IInv => TypeOK
  BY DEF IInv
<1> QED
  BY <1>1, GraphInvariant, PTL

\* No reset leaves work over an input it has undone: for every dependency
\* graph, whatever resets a task resets everything launched below it.
THEOREM GraphInputsStand == Spec => []InputsStand
<1>1. IInv => InputsStand
  BY DEF IInv, Sound, Stands, InputsStand
<1> QED
  BY <1>1, GraphInvariant, PTL

\* A fix session that runs or is parked knows where it began, whatever
\* cancels, resets and approvals happened before.
THEOREM GraphSessionsReturn == Spec => []SessionsReturn
<1>1. IInv => SessionsReturn
  BY DEF IInv, Sound, Rows, RowOK, SessionsReturn
<1> QED
  BY <1>1, GraphInvariant, PTL

\* Nothing takes back a completed task but a reset, a sweep, or one reject of
\* the parked fix that it was approved with, which touches no other task.
THEOREM GraphFinishedWorkStands == Spec => FinishedWorkStands
<1>1. ASSUME IInv, Next, NEW t \in Tasks, task[t].st = "completed"
      PROVE  \/ task'[t].st \in {"completed", "closed", "pending", "queued"}
             \/ TakenBack(t)
  <2>1. CASE Respects(task, task')
    BY <1>1, <2>1 DEF Respects
  <2>2. ASSUME NEW u \in Tasks, TakenBack(u), u # t
        PROVE  task'[t].st = "completed"
    BY <1>1, <2>2 DEF TakenBack, IInv, Sound, Rows
  <2> QED
    BY <1>1, <2>1, <2>2, RowsStep
<1>2. IInv /\ [Next]_vars =>
        [\A t \in Tasks : task[t].st = "completed" =>
            \/ task'[t].st \in {"completed", "closed", "pending", "queued"}
            \/ TakenBack(t)]_vars
  BY <1>1
<1> QED
  BY <1>2, GraphInvariant, PTL DEF Spec, FinishedWorkStands

-----------------------------------------------------------------------------
(* Skipped tasks.  While no idle task was closed and no completed one was  *)
(* rejected, a launched task stands over completed inputs (`Built`), so no *)
(* failure skips tasks below one that is at work: whatever is skipped has  *)
(* an input that only a reset, an approval or a fix can bring further, and *)
(* each of those brings the skipped task along (`Reasoned`).               *)

\* What d is in holds up the tasks below it: no worker alone completes it.
HoldsUp(g, d) ==
    \/ g[d].st \in {"skipped", "failed", "fixing_with_ai", "awaiting_approval", "review_ready"}
    \/ g[d].st = "running" /\ d \in Merge

Working(g, t) == g[t].st = "queued" \/ (g[t].st = "running" /\ t \notin Merge)

Started(g) == \A t \in Tasks : Working(g, t) => g[t].launched
Built(g) == \A t \in Tasks : g[t].launched => \A d \in Deps[t] : g[d].st = "completed"
Open(g) == \A t \in Tasks : g[t].st # "closed"
Reasoned(g) == \A t \in Tasks : g[t].st = "skipped" => \E d \in Deps[t] : HoldsUp(g, d)

Waits(g) == Started(g) /\ Built(g) /\ Open(g) /\ Reasoned(g)

WInv == IInv /\ (undone \/ Waits(task))

\* The row of t in h after g: what is launched was, or stands over completed
\* inputs; and an input of what stays launched stays completed.
Builds(g, h, t) ==
    /\ h[t].launched => g[t].launched \/ \A d \in Deps[t] : h[d].st = "completed"
    /\ h[t].launched => \A d \in Deps[t] : g[d].st = "completed" => h[d].st = "completed"
    /\ Working(h, t) => h[t].launched
    /\ h[t].st # "closed"

\* What is skipped in h was, and what held it up still does; or is held up now.
Reasons(g, h, t) ==
    h[t].st = "skipped" =>
        \/ g[t].st = "skipped" /\ \A d \in Deps[t] : HoldsUp(g, d) => HoldsUp(h, d)
        \/ \E d \in Deps[t] : HoldsUp(h, d)

LEMMA WaitsStep ==
    ASSUME NEW g, Waits(g), NEW h,
           \A t \in Tasks : Builds(g, h, t) /\ Reasons(g, h, t)
    PROVE  Waits(h)
<1>1. Started(h) /\ Open(h)
  BY DEF Started, Open, Builds
<1>2. Built(h)
  BY DEF Waits, Built, Builds
<1>3. Reasoned(h)
  BY DEF Waits, Reasoned, Reasons
<1> QED
  BY <1>1, <1>2, <1>3 DEF Waits

\* The walk over the open tasks goes on from what it reaches, and reaches
\* nothing but over a dependency.
LEMMA BelowGoesOn ==
    ASSUME NEW roots, NEW open \in SUBSET Tasks, NEW t \in open, NEW d \in Deps[t],
           d \in roots \cup Below(roots, open)
    PROVE  t \in Below(roots, open)
<1> DEFINE Closed(S) == \A u \in open : Deps[u] \cap (roots \cup S) # {} => u \in S
<1>1. Below(roots, open) = {u \in open : \A S \in SUBSET open : Closed(S) => u \in S}
  BY DEF Below
<1>2. SUFFICES ASSUME NEW S \in SUBSET open, Closed(S) PROVE t \in S
  BY <1>1
<1>3. d \in roots \cup S
  BY <1>1, <1>2
<1> QED
  BY <1>2, <1>3

LEMMA BelowReached ==
    ASSUME NEW roots, NEW open \in SUBSET Tasks, NEW t \in Below(roots, open)
    PROVE  \E d \in Deps[t] : d \in roots \cup Below(roots, open)
<1> DEFINE Closed(S) == \A u \in open : Deps[u] \cap (roots \cup S) # {} => u \in S
           B == Below(roots, open)
           T == B \ {t}
<1>1. B = {u \in open : \A S \in SUBSET open : Closed(S) => u \in S}
  BY DEF Below
<1>2. SUFFICES ASSUME Deps[t] \cap (roots \cup B) = {} PROVE FALSE
  OBVIOUS
<1>3. \A u \in open : \A d \in Deps[u] : d \in roots \cup B => u \in B
  BY BelowGoesOn
<1> HIDE DEF B
<1>4. Closed(T)
  <2> SUFFICES ASSUME NEW u \in open, NEW d \in Deps[u], d \in roots \cup T
               PROVE  u \in T
    OBVIOUS
  <2> QED
    BY <1>2, <1>3
<1>5. T \in SUBSET open /\ t \in B
  BY <1>1 DEF B
<1> HIDE DEF T
<1>6. t \in T
  BY <1>1, <1>4, <1>5
<1> QED
  BY <1>6 DEF T

-----------------------------------------------------------------------------
(* What the operators do to skipped tasks.                                 *)

LEMMA ToFields ==
    ASSUME NEW g, g \in [Tasks -> Row], NEW S, NEW s \in Statuses, NEW t \in Tasks
    PROVE  /\ To(g, S, s)[t] \in Row /\ To(g, S, s) \in [Tasks -> Row]
           /\ To(g, S, s)[t].st = IF t \in S THEN s ELSE g[t].st
           /\ To(g, S, s)[t].launched = g[t].launched
<1>1. To(g, S, s) = [u \in Tasks |-> IF u \in S THEN Moved(g[u], s) ELSE g[u]]
  BY DEF To, Moved
<1>2. \A u \in Tasks : LET r == IF u \in S THEN Moved(g[u], s) ELSE g[u]
                       IN  r \in Row /\ r.st = (IF u \in S THEN s ELSE g[u].st) /\ r.launched = g[u].launched
  BY StatusFields
<1> QED
  BY <1>1, <1>2

LEMMA ReturnFields ==
    ASSUME NEW g, g \in [Tasks -> Row], NEW S, NEW t \in Tasks
    PROVE  /\ Return(g, S)[t] \in Row /\ Return(g, S) \in [Tasks -> Row]
           /\ Return(g, S)[t].st = IF t \in S THEN "pending" ELSE g[t].st
           /\ Return(g, S)[t].launched <=> (t \notin S /\ g[t].launched)
<1> DEFINE back(r) == [r EXCEPT !.st = "pending", !.launched = FALSE]
<1>1. \A r \in Row : back(r) \in Row /\ back(r).st = "pending" /\ ~back(r).launched
  BY DEF Row, Statuses
<1>2. Return(g, S) = [u \in Tasks |-> IF u \in S THEN back(g[u]) ELSE g[u]]
  BY DEF Return
<1>3. \A u \in Tasks : g[u] \in Row /\ g[u].launched \in BOOLEAN
  BY RowFields
<1> HIDE DEF back
<1>4. Return(g, S) \in [Tasks -> Row]
  BY <1>1, <1>2, <1>3
<1>5. CASE t \in S
  BY <1>1, <1>2, <1>3, <1>4, <1>5
<1>6. CASE t \notin S
  BY <1>2, <1>3, <1>4, <1>6
<1> QED
  BY <1>5, <1>6

\* A drain brings blocked tasks back and claims what is ready.
LEMMA DrainWaits ==
    ASSUME NEW g, Sound(g), Waits(g), NEW wanted, Drain(g, wanted)
    PROVE  Waits(task')
<1> DEFINE X == wanted \cap Ready(g) \cap In(g, {"blocked"})
           h == Return(g, X)
<1>1. PICK L \in SUBSET Ready(h) :
        task' = [t \in Tasks |-> IF t \in L THEN Claim(h[t]) ELSE h[t]]
  BY DEF Drain
<1>2. g \in [Tasks -> Row]
  BY DEF Sound, Rows
<1>3. \A t \in Tasks : /\ h[t] \in Row
                       /\ h[t].st = IF t \in X THEN "pending" ELSE g[t].st
                       /\ h[t].launched <=> (t \notin X /\ g[t].launched)
  BY <1>2, ReturnFields
<1>4. \A t \in X : t \in Tasks /\ g[t].st = "blocked"
  BY DEF In
<1> HIDE DEF h, X
<1>5. \A t \in L : t \in Tasks /\ h[t].st \in {"pending", "blocked"}
                   /\ \A d \in Deps[t] : h[d].st = "completed"
  BY DEF Ready, In
<1>6. \A r \in Row : Claim(r).st = "queued" /\ Claim(r).launched
  BY DEF Claim, Row
<1>7. \A t \in Tasks : /\ task'[t].st = IF t \in L THEN "queued" ELSE h[t].st
                       /\ task'[t].launched <=> (t \in L \/ h[t].launched)
  <2> TAKE t \in Tasks
  <2>1. h[t].launched \in BOOLEAN
    BY <1>3, RowFields
  <2> QED
    BY <1>1, <1>3, <1>6, <2>1
<1>8. \A t \in Tasks : \A d \in Deps[t] : d \in Tasks
  BY GraphSetsAssumption
<1>9. \A t \in Tasks : /\ task'[t].st \in {"pending", "queued"} \/ task'[t].st = g[t].st
                       /\ g[t].st \in {"pending", "blocked"} \/ task'[t].st = g[t].st
  BY <1>3, <1>4, <1>5, <1>7
<1>10. ASSUME NEW t \in Tasks PROVE Builds(g, task', t)
  <2>1. \A d \in Deps[t] : g[d].st = "completed" => task'[d].st = "completed"
    BY <1>8, <1>9
  <2>2. task'[t].launched => g[t].launched \/ \A d \in Deps[t] : task'[d].st = "completed"
    <3> SUFFICES ASSUME t \in L, NEW d \in Deps[t] PROVE task'[d].st = "completed"
      BY <1>3, <1>7
    <3> QED
      BY <1>5, <1>7, <1>8
  <2>3. Working(task', t) => task'[t].launched
    BY <1>3, <1>4, <1>7 DEF Working, Waits, Started
  <2>4. task'[t].st # "closed"
    BY <1>9 DEF Waits, Open
  <2> QED
    BY <2>1, <2>2, <2>3, <2>4 DEF Builds
<1>11. ASSUME NEW t \in Tasks PROVE Reasons(g, task', t)
  BY <1>8, <1>9 DEF Reasons, HoldsUp
<1> QED
  BY <1>10, <1>11, WaitsStep

LEMMA FailedWaits ==
    ASSUME NEW g, Sound(g), Waits(g), NEW t \in Tasks, g[t].st \in {"queued", "running"}
    PROVE  Waits(Failed(g, t))
<1> DEFINE below == Below({t}, Unfinished(g))
           S == below \cap In(g, {"pending", "queued", "blocked"})
           f == To(g, {t}, "failed")
           h == To(f, S, "skipped")
<1>1. "failed" \in Statuses /\ "skipped" \in Statuses /\ g \in [Tasks -> Row]
  BY DEF Statuses, Sound, Rows
<1>2. \A u \in Tasks : /\ h[u].st = IF u \in S THEN "skipped" ELSE IF u = t THEN "failed" ELSE g[u].st
                       /\ h[u].launched = g[u].launched
  <2>1. f \in [Tasks -> Row] /\ \A u \in Tasks : /\ f[u].st = IF u = t THEN "failed" ELSE g[u].st
                                                 /\ f[u].launched = g[u].launched
    BY <1>1, ToFields
  <2> HIDE DEF f, S
  <2> QED
    BY <1>1, <2>1, ToFields
<1>3. \A u \in Tasks : \A d \in Deps[u] : d \in Tasks
  BY GraphSetsAssumption
<1>4. below \subseteq Tasks /\ \A u \in below : g[u].st # "completed"
  BY BelowOpen DEF Unfinished, In
<1>5. \A u \in below : \E d \in Deps[u] : d \in {t} \cup below
  <2>1. Unfinished(g) \in SUBSET Tasks
    BY DEF Unfinished
  <2> QED
    BY <2>1, BelowReached
<1>6. \A u \in S : u \in below /\ g[u].st \in {"pending", "queued", "blocked"}
  BY DEF In
<1>7. \A u \in below : g[u].st \in {"pending", "queued", "blocked"} => u \in S
  BY <1>4 DEF In
<1> HIDE DEF h, S, below
\* Nothing below a task that is at work was launched.
<1>8. \A u \in below : ~g[u].launched /\ ~Working(g, u)
  <2> TAKE u \in below
  <2>1. PICK d \in Deps[u] : d \in {t} \cup below
    BY <1>5
  <2>2. u \in Tasks /\ g[d].st # "completed"
    BY <1>4, <2>1
  <2> QED
    BY <2>2 DEF Waits, Built, Started
<1>9. ASSUME NEW u \in Tasks PROVE Builds(g, h, u)
  BY <1>2, <1>3, <1>4, <1>6 DEF Builds, Working, Waits, Started, Built, Open
<1>10. ASSUME NEW u \in Tasks PROVE Reasons(g, h, u)
  <2>1. CASE u \in S
    <3>1. PICK d \in Deps[u] : d \in {t} \cup below
      BY <1>5, <1>6, <2>1
    <3>2. CASE d = t
      BY <1>2, <1>3, <3>2 DEF Reasons, HoldsUp
    <3>3. CASE d \in below /\ d # t
      <4>1. d \in Tasks /\ g[d].st \in Statuses /\ g[d].st # "completed" /\ g[d].st # "closed"
        BY <1>1, <1>4, <3>3, RowFields DEF Waits, Open
      <4>2. ~Working(g, d)
        BY <1>8, <3>3
      <4>3. d \in S \/ HoldsUp(g, d)
        BY <1>7, <3>3, <4>1, <4>2 DEF Statuses, Working, HoldsUp
      <4>4. HoldsUp(h, d)
        BY <1>2, <3>3, <4>1, <4>3 DEF HoldsUp
      <4> QED
        BY <4>4 DEF Reasons
    <3> QED
      BY <3>1, <3>2, <3>3
  <2>2. CASE u \notin S
    <3>1. \A d \in Deps[u] : HoldsUp(g, d) => HoldsUp(h, d)
      BY <1>2, <1>3 DEF HoldsUp
    <3> QED
      BY <1>2, <2>2, <3>1 DEF Reasons
  <2> QED
    BY <2>1, <2>2
<1>11. Waits(h)
  BY <1>9, <1>10, WaitsStep
<1> QED
  BY <1>11 DEF Failed, h, S, below

LEMMA CancelledWaits ==
    ASSUME NEW g, Sound(g), Waits(g), NEW t \in Tasks, g[t].st # "completed"
    PROVE  Waits(Cancelled(g, t))
<1> DEFINE reach == {t} \cup Below({t}, Unfinished(g))
           waits == (reach \ {t}) \cap In(g, {"pending", "queued", "blocked", "skipped"})
           f == To(g, reach \ waits, "failed")
           h == To(f, waits, "blocked")
<1>1. "failed" \in Statuses /\ "blocked" \in Statuses /\ g \in [Tasks -> Row]
  BY DEF Statuses, Sound, Rows
<1>2. \A u \in Tasks : /\ h[u].st = IF u \in waits THEN "blocked"
                                    ELSE IF u \in reach THEN "failed" ELSE g[u].st
                       /\ h[u].launched = g[u].launched
  <2> HIDE DEF reach, waits
  <2>1. f \in [Tasks -> Row] /\ \A u \in Tasks : /\ f[u].st = IF u \in reach \ waits THEN "failed" ELSE g[u].st
                                                 /\ f[u].launched = g[u].launched
    BY <1>1, ToFields
  <2> HIDE DEF f
  <2> QED
    BY <1>1, <2>1, ToFields
<1>3. \A u \in Tasks : \A d \in Deps[u] : d \in Tasks
  BY GraphSetsAssumption
<1>4. \A u \in reach : g[u].st # "completed"
  BY BelowOpen DEF Unfinished, In
<1>5. waits \subseteq reach
  OBVIOUS
<1>6. \A u \in Tasks : g[u].st = "skipped" => \A d \in Deps[u] : d \in reach => u \in reach
  <2>1. Unfinished(g) \in SUBSET Tasks /\ \A u \in Tasks : g[u].st = "skipped" => u \in Unfinished(g)
    BY DEF Unfinished, In
  <2> QED
    BY <2>1, BelowGoesOn
<1> HIDE DEF h, waits, reach
<1>7. ASSUME NEW u \in Tasks PROVE Builds(g, h, u)
  BY <1>2, <1>3, <1>4, <1>5 DEF Builds, Working, Waits, Started, Built, Open
<1>8. ASSUME NEW u \in Tasks PROVE Reasons(g, h, u)
  <2> SUFFICES ASSUME h[u].st = "skipped", NEW d \in Deps[u], HoldsUp(g, d)
               PROVE  g[u].st = "skipped" /\ HoldsUp(h, d)
    BY <1>2 DEF Reasons
  <2>1. g[u].st = "skipped" /\ u \notin reach
    BY <1>2, <1>5
  <2>2. d \in Tasks /\ d \notin reach
    BY <1>3, <1>6, <2>1
  <2> QED
    BY <1>2, <1>5, <2>1, <2>2 DEF HoldsUp
<1>9. Waits(h)
  BY <1>7, <1>8, WaitsStep
<1> QED
  BY <1>9 DEF Cancelled, h, waits, reach

LEMMA WorkflowCancelledWaits ==
    ASSUME NEW g, Sound(g), Waits(g)
    PROVE  Waits(WorkflowCancelled(g))
<1> DEFINE S == In(g, {"pending", "queued", "running", "fixing_with_ai", "blocked",
                       "review_ready", "awaiting_approval"})
           h == To(g, S, "failed")
<1>1. "failed" \in Statuses /\ g \in [Tasks -> Row]
  BY DEF Statuses, Sound, Rows
<1>2. \A u \in S : g[u].st # "completed" /\ g[u].st # "skipped"
  BY DEF In
<1> HIDE DEF S
<1>3. \A u \in Tasks : /\ h[u].st = IF u \in S THEN "failed" ELSE g[u].st
                       /\ h[u].launched = g[u].launched
  BY <1>1, ToFields
<1> HIDE DEF h
<1>4. \A u \in Tasks : \A d \in Deps[u] : d \in Tasks
  BY GraphSetsAssumption
<1>5. ASSUME NEW u \in Tasks PROVE Builds(g, h, u)
  BY <1>2, <1>3, <1>4 DEF Builds, Working, Waits, Started, Built, Open
<1>6. ASSUME NEW u \in Tasks PROVE Reasons(g, h, u)
  BY <1>2, <1>3, <1>4 DEF Reasons, HoldsUp
<1>7. Waits(h)
  BY <1>5, <1>6, WaitsStep
<1> QED
  BY <1>7 DEF WorkflowCancelled, h, S

\* An approval brings back whatever it could be the last input of.
LEMMA ApprovedWaits ==
    ASSUME NEW g, Sound(g), Waits(g), NEW t \in Tasks
    PROVE  Waits(Approved(g, t))
<1> DEFINE p == To(g, {t}, "completed")
           f == [p EXCEPT ![t].entry = "none"]
           below == Below({t}, Unfinished(f))
           S == below \cap In(f, {"skipped"})
           h == Return(f, S)
<1>1. "completed" \in Statuses /\ g \in [Tasks -> Row]
  BY DEF Statuses, Sound, Rows
<1>2. p \in [Tasks -> Row] /\ \A u \in Tasks : /\ p[u].st = IF u = t THEN "completed" ELSE g[u].st
                                               /\ p[u].launched = g[u].launched
  BY <1>1, ToFields
<1>3. f \in [Tasks -> Row] /\ \A u \in Tasks : /\ f[u].st = IF u = t THEN "completed" ELSE g[u].st
                                               /\ f[u].launched = g[u].launched
  <2> DEFINE e(r) == [r EXCEPT !.entry = "none"]
  <2>1. \A r \in Row : e(r) \in Row /\ e(r).st = r.st /\ e(r).launched = r.launched
    BY DEF Row
  <2>2. f = [p EXCEPT ![t] = e(p[t])]
    OBVIOUS
  <2> HIDE DEF f, p, e
  <2> QED
    BY <1>2, <2>1, <2>2
<1>4. \A u \in Tasks : \A d \in Deps[u] : d \in Tasks
  BY GraphSetsAssumption
<1>5. Approved(g, t) = h
  <2>1. \A u \in Tasks : u \in below => (u \in In(g, {"skipped"}) <=> u \in In(f, {"skipped"}))
    <3>1. \A u \in Tasks : u \in below => u # t
      BY <1>3, BelowOpen DEF Unfinished, In
    <3> QED
      BY <1>3, <3>1 DEF In
  <2>2. below \cap In(g, {"skipped"}) = S
    <3>1. In(f, {"skipped"}) \subseteq Tasks /\ In(g, {"skipped"}) \subseteq Tasks
      BY DEF In
    <3> HIDE DEF below
    <3> QED
      BY <2>1, <3>1
  <2> QED
    BY <2>2 DEF Approved
<1>6. \A u \in Tasks : f[u].st = "skipped" => \A d \in Deps[u] : d \in {t} \cup below => u \in S
  <2>1. Unfinished(f) \in SUBSET Tasks
        /\ \A u \in Tasks : f[u].st = "skipped" => u \in Unfinished(f) /\ u \in In(f, {"skipped"})
    BY DEF Unfinished, In
  <2> QED
    BY <2>1, BelowGoesOn
<1>7. \A u \in S : f[u].st = "skipped" /\ u \in below
  BY DEF In
<1>8. \A u \in Tasks : /\ h[u].st = IF u \in S THEN "pending" ELSE f[u].st
                       /\ h[u].launched <=> (u \notin S /\ f[u].launched)
  <2> HIDE DEF f, S
  <2> QED
    BY <1>3, ReturnFields
<1> HIDE DEF h, S, below, f, p
<1>9. ASSUME NEW u \in Tasks PROVE Builds(g, h, u)
  BY <1>3, <1>4, <1>7, <1>8 DEF Builds, Working, Waits, Started, Built, Open
<1>10. ASSUME NEW u \in Tasks PROVE Reasons(g, h, u)
  <2> SUFFICES ASSUME h[u].st = "skipped", NEW d \in Deps[u], HoldsUp(g, d)
               PROVE  g[u].st = "skipped" /\ HoldsUp(h, d)
    BY <1>3, <1>8 DEF Reasons
  <2>1. f[u].st = "skipped" /\ u \notin S /\ g[u].st = "skipped"
    BY <1>3, <1>8
  <2>2. d \in Tasks /\ d # t /\ d \notin S
    BY <1>4, <1>6, <1>7, <2>1
  <2> QED
    BY <1>3, <1>8, <2>1, <2>2 DEF HoldsUp
<1>11. Waits(h)
  BY <1>9, <1>10, WaitsStep
<1> QED
  BY <1>5, <1>11

\* A reset brings along what is skipped below it.
LEMMA ResetWaits ==
    ASSUME NEW g, Sound(g), Waits(g), NEW S, NEW h,
           \A t \in Tasks : t \in S => ~h[t].launched /\ h[t].st = "pending",
           \A t \in Tasks : t \notin S => h[t] = g[t],
           \A t \in Tasks : \A d \in Deps[t] : d \in S => t \in S \/ g[t].st = "pending"
    PROVE  Waits(h)
<1>1. \A u \in Tasks : \A d \in Deps[u] : d \in Tasks
  BY GraphSetsAssumption
<1>2. \A u \in Tasks : g[u].st = "pending" => ~g[u].launched
  BY DEF Sound, Rows, RowOK
<1>3. ASSUME NEW u \in Tasks PROVE Builds(g, h, u)
  BY <1>1, <1>2 DEF Builds, Working, Waits, Started, Built, Open
<1>4. ASSUME NEW u \in Tasks PROVE Reasons(g, h, u)
  BY <1>1 DEF Reasons, HoldsUp
<1> QED
  BY <1>3, <1>4, WaitsStep

LEMMA RetryWaits ==
    ASSUME NEW g, Sound(g), Waits(g), NEW roots, NEW forced
    PROVE  Waits(Retry(g, roots, forced))
<1> DEFINE S == (roots \cup Below(roots, Tasks)) \ (In(g, {"pending"}) \ forced)
           h == Retry(g, roots, forced)
<1>1. h = [t \in Tasks |-> IF t \in S THEN RetryReset(g[t]) ELSE g[t]]
  BY DEF Retry
<1>2. \A t \in Tasks : RowOK(g[t])
  BY DEF Sound, Rows
<1>3. \A t \in Tasks : t \in S => ~h[t].launched /\ h[t].st = "pending"
  BY <1>1, <1>2, ResetRow
<1>4. \A t \in Tasks : t \notin S => h[t] = g[t]
  BY <1>1
<1>5. ASSUME NEW t \in Tasks, NEW d \in Deps[t], d \in S
      PROVE  t \in S \/ g[t].st = "pending"
  <2>1. t \in Below(roots, Tasks)
    BY <1>5, BelowClosed
  <2> QED
    BY <2>1 DEF In
<1> HIDE DEF h, S
<1>6. Waits(h)
  BY <1>3, <1>4, <1>5, ResetWaits
<1> QED
  BY <1>6 DEF h

LEMMA RecreateWaits ==
    ASSUME NEW g, Sound(g), Waits(g), NEW S,
           \A t \in Tasks : \A d \in Deps[t] : d \in S => t \in S
    PROVE  Waits(Recreate(g, S))
<1> DEFINE h == Recreate(g, S)
<1>1. h = [t \in Tasks |-> IF t \in S THEN RecreateReset(g[t]) ELSE g[t]]
  BY DEF Recreate
<1>2. \A t \in Tasks : RowOK(g[t])
  BY DEF Sound, Rows
<1>3. \A t \in Tasks : t \in S => ~h[t].launched /\ h[t].st = "pending"
  BY <1>1, <1>2, ResetRow
<1>4. \A t \in Tasks : t \notin S => h[t] = g[t]
  BY <1>1
<1> HIDE DEF h
<1>5. Waits(h)
  BY <1>3, <1>4, ResetWaits
<1> QED
  BY <1>5 DEF h

\* A rewrite of one row.
LEMMA OneWaits ==
    ASSUME NEW g, Waits(g), NEW t \in Tasks, NEW h,
           \A u \in Tasks : u # t => h[u] = g[u],
           h[t].launched => g[t].launched,
           g[t].st = "completed" => h[t].st = "completed",
           Working(h, t) => h[t].launched,
           h[t].st # "closed",
           h[t].st = "skipped" => g[t].st = "skipped",
           HoldsUp(g, t) => HoldsUp(h, t)
    PROVE  Waits(h)
<1>1. \A u \in Tasks : \A d \in Deps[u] : d \in Tasks
  BY GraphSetsAssumption
<1>2. \A d \in Tasks : HoldsUp(g, d) => HoldsUp(h, d)
  BY DEF HoldsUp
<1>3. ASSUME NEW u \in Tasks PROVE Builds(g, h, u)
  BY <1>1 DEF Builds, Working, Waits, Started, Built, Open
<1>4. ASSUME NEW u \in Tasks PROVE Reasons(g, h, u)
  BY <1>1, <1>2 DEF Reasons
<1> QED
  BY <1>3, <1>4, WaitsStep

-----------------------------------------------------------------------------
(* The steps of a graph in which nothing was closed or taken back.         *)

LEMMA RevertedParts ==
    ASSUME NEW r, RowOK(r)
    PROVE  LET s == [Reverted(r) EXCEPT !.agent = FALSE]
           IN  /\ s.st = Reverted(r).st
               /\ s.launched = r.launched /\ Reverted(r).launched = r.launched
               /\ Reverted(r).st = r.st \/ Reverted(r).st \in EntryStatuses
<1> DEFINE back == IF r.entry # "none" THEN r.entry
                   ELSE IF r.st \in {"fixing_with_ai", "failed"} \/ r.parked THEN "failed"
                   ELSE "none"
<1>1. r \in Row /\ r.entry \in EntryStatuses \cup {"none"}
  BY RowFields DEF RowOK
<1>2. back \in EntryStatuses \cup {"none"}
  BY <1>1 DEF EntryStatuses
<1>3. Reverted(r) = IF back = "none" THEN r
                    ELSE [r EXCEPT !.st = back, !.entry = "none", !.parked = FALSE]
  BY DEF Reverted
<1> HIDE DEF back
<1>4. /\ Reverted(r) \in Row /\ Reverted(r).launched = r.launched
      /\ Reverted(r).st = r.st \/ Reverted(r).st \in EntryStatuses
  BY <1>1, <1>2, <1>3 DEF Row, Statuses, EntryStatuses
<1>5. \A q \in Row : [q EXCEPT !.agent = FALSE].st = q.st /\ [q EXCEPT !.agent = FALSE].launched = q.launched
  BY DEF Row
<1> QED
  BY <1>4, <1>5

\* A row that is written at t; the others stay.
LEMMA OneRowWaits ==
    ASSUME Sound(task), Waits(task), NEW t \in Tasks, NEW r, task' = [task EXCEPT ![t] = r],
           r.launched = task[t].launched,
           task[t].st = "completed" => r.st = "completed",
           r.st = "queued" \/ (r.st = "running" /\ t \notin Merge) => r.launched,
           r.st # "closed",
           r.st = "skipped" => task[t].st = "skipped",
           HoldsUp(task, t) => \/ r.st \in {"skipped", "failed", "fixing_with_ai", "awaiting_approval", "review_ready"}
                               \/ r.st = "running" /\ t \in Merge
    PROVE  Waits(task')
<1> DEFINE h == task'
<1>1. h[t] = r /\ \A u \in Tasks : u # t => h[u] = task[u]
  BY DEF Sound, Rows
<1> HIDE DEF h
<1>2. (Working(h, t) => h[t].launched) /\ (HoldsUp(task, t) => HoldsUp(h, t))
  BY <1>1 DEF Working, HoldsUp
<1>3. /\ h[t].launched => task[t].launched
      /\ task[t].st = "completed" => h[t].st = "completed"
      /\ h[t].st # "closed"
      /\ h[t].st = "skipped" => task[t].st = "skipped"
  BY <1>1
<1>4. Waits(h)
  BY <1>1, <1>2, <1>3, OneWaits
<1> QED
  BY <1>4 DEF h

LEMMA LaunchedWaits ==
    ASSUME Sound(task), Waits(task), NEW t \in Tasks, Launched(t)
    PROVE  Waits(task')
<1> DEFINE r == [task[t] EXCEPT !.st = "running", !.workspace = TRUE]
<1>1. task[t] \in Row /\ task[t].st = "queued" /\ task[t].launched
  BY DEF Launched, Sound, Rows, Waits, Started, Working
<1>2. r.st = "running" /\ r.launched = task[t].launched /\ task' = [task EXCEPT ![t] = r]
  BY <1>1 DEF Launched, Row, Sound, Rows
<1> HIDE DEF r
<1> QED
  BY <1>1, <1>2, OneRowWaits DEF HoldsUp

LEMMA CompletesWaits ==
    ASSUME Sound(task), Waits(task), NEW t \in Tasks, Completes(t)
    PROVE  Waits(task')
<1>1. /\ task[t].st = "running" /\ t \notin Merge /\ RowOK(task[t])
      /\ task \in [Tasks -> Row]
  BY DEF Completes, Sound, Rows
<1>2. ASSUME NEW s \in {"completed", "awaiting_approval"}
      PROVE  Sound(To(task, {t}, s)) /\ Waits(To(task, {t}, s))
  <2> DEFINE h == To(task, {t}, s)
  <2>1. s \in Statuses
    BY DEF Statuses
  <2>2. \A u \in {t} \cap Tasks : Follows(task[u], Moved(task[u], s))
    BY <1>1, AnswerFollows
  <2>3. Sound(h)
    BY <2>1, <2>2, ToSound
  <2>4. h[t].st = s /\ h[t].launched = task[t].launched
    BY <1>1, <2>1, ToFields
  <2>5. \A u \in Tasks : u # t => h[u] = task[u]
    BY DEF To
  <2> HIDE DEF h
  <2>6. Waits(h)
    BY <1>1, <2>4, <2>5, OneWaits DEF Working, HoldsUp
  <2> QED
    BY <2>3, <2>6 DEF h
<1>3. CASE t \in Gated
  BY <1>2, <1>3 DEF Completes
<1>4. CASE t \notin Gated
  BY <1>2, <1>4, DrainWaits DEF Completes, DrainAll
<1> QED
  BY <1>3, <1>4

LEMMA ReviewReadyWaits ==
    ASSUME Sound(task), Waits(task), NEW t \in Tasks, ReviewReady(t)
    PROVE  Waits(task')
<1> DEFINE h == To(task, {t}, "review_ready")
<1>1. /\ task[t].st = "running" /\ t \in Merge /\ RowOK(task[t]) /\ "review_ready" \in Statuses
      /\ task \in [Tasks -> Row]
  BY DEF ReviewReady, Sound, Rows, Statuses
<1>2. \A u \in {t} \cap Tasks : Follows(task[u], Moved(task[u], "review_ready"))
  BY <1>1, AnswerFollows
<1>3. Sound(h)
  BY <1>1, <1>2, ToSound
<1>4. h[t].st = "review_ready" /\ h[t].launched = task[t].launched
  BY <1>1, ToFields
<1>5. \A u \in Tasks : u # t => h[u] = task[u]
  BY DEF To
<1> HIDE DEF h
<1>6. Waits(h)
  BY <1>1, <1>4, <1>5, OneWaits DEF Working, HoldsUp
<1> QED
  BY <1>3, <1>6, DrainWaits DEF ReviewReady, DrainAll, h

LEMMA FailTaskWaits ==
    ASSUME Sound(task), Waits(task), NEW t \in Tasks, FailTask(t)
    PROVE  Waits(task')
<1> DEFINE r == [task[t] EXCEPT !.st = "failed", !.entry = "none"]
<1>1. task[t] \in Row /\ task[t].st = "queued"
  BY DEF FailTask, Sound, Rows
<1>2. r.st = "failed" /\ r.launched = task[t].launched /\ task' = [task EXCEPT ![t] = r]
  BY <1>1 DEF FailTask, Row, Sound, Rows
<1> HIDE DEF r
<1> QED
  BY <1>1, <1>2, OneRowWaits

LEMMA BeginFixWaits ==
    ASSUME Sound(task), Waits(task), NEW t \in Tasks, BeginFix(t)
    PROVE  Waits(task')
<1> DEFINE r == [task[t] EXCEPT !.st = "fixing_with_ai", !.entry = task[t].st, !.agent = TRUE]
<1>1. task[t] \in Row /\ task[t].st \in EntryStatuses
  BY DEF BeginFix, Sound, Rows
<1>2. r.st = "fixing_with_ai" /\ r.launched = task[t].launched /\ task' = [task EXCEPT ![t] = r]
  BY <1>1 DEF BeginFix, Row, Sound, Rows
<1> HIDE DEF r
<1> QED
  BY <1>1, <1>2, OneRowWaits DEF EntryStatuses

LEMMA FixEndsWaits ==
    ASSUME Sound(task), Waits(task), NEW t \in Tasks, FixEnds(t)
    PROVE  Waits(task')
<1>1. /\ task[t] \in Row /\ RowOK(task[t]) /\ task[t].agent
      /\ task[t].st \in {"fixing_with_ai", "failed", "completed"}
  BY DEF FixEnds, Sound, Rows, RowOK, Waits, Open
<1>2. CASE task[t].st = "fixing_with_ai" /\ task' = [task EXCEPT ![t] = Parked(task[t])]
  <2>1. Parked(task[t]).st = "awaiting_approval" /\ Parked(task[t]).launched = task[t].launched
    BY <1>1 DEF Parked, Row
  <2> QED
    BY <1>2, <2>1, OneRowWaits
<1>3. CASE task' = [task EXCEPT ![t] = [Reverted(task[t]) EXCEPT !.agent = FALSE]]
  <2> DEFINE r == [Reverted(task[t]) EXCEPT !.agent = FALSE]
  <2>1. /\ r.launched = task[t].launched
        /\ r.st = task[t].st \/ r.st \in EntryStatuses
        /\ task[t].st = "completed" => r.st = "completed"
    BY <1>1, RevertedParts, RevertedFollows
  <2>2. task' = [task EXCEPT ![t] = r]
    BY <1>3
  <2> HIDE DEF r
  <2> QED
    BY <1>1, <2>1, <2>2, OneRowWaits DEF EntryStatuses, HoldsUp
<1> QED
  BY <1>2, <1>3 DEF FixEnds

LEMMA ApproveFixWaits ==
    ASSUME Sound(task), Waits(task), NEW t \in Tasks, ApproveFix(t)
    PROVE  Waits(task')
<1> DEFINE r == [task[t] EXCEPT !.st = "running", !.parked = FALSE, !.entry = "none"]
<1>1. task[t] \in Row /\ task[t].st # "completed" /\ t \in Merge
  BY DEF ApproveFix, Asks, Sound, Rows
<1>2. r.st = "running" /\ r.launched = task[t].launched /\ task' = [task EXCEPT ![t] = r]
  BY <1>1 DEF ApproveFix, Row, Sound, Rows
<1> HIDE DEF r
<1> QED
  BY <1>1, <1>2, OneRowWaits

LEMMA RejectWaits ==
    ASSUME Sound(task), Waits(task), NEW t \in Tasks, Reject(t), task[t].st # "completed"
    PROVE  Waits(task')
<1>1. task[t] \in Row /\ RowOK(task[t])
  BY DEF Sound, Rows
<1>2. CASE task[t].parked
  <2> DEFINE r == Reverted(task[t])
  <2>1. r.launched = task[t].launched /\ (r.st = task[t].st \/ r.st \in EntryStatuses)
    BY <1>1, RevertedParts
  <2>2. task' = [task EXCEPT ![t] = r]
    BY <1>2 DEF Reject, Sound, Rows
  <2> HIDE DEF r
  <2>3. task[t].st \notin {"queued", "running", "closed"}
    BY <1>1, <1>2 DEF RowOK, Waits, Open
  <2> QED
    BY <1>1, <2>1, <2>2, <2>3, OneRowWaits DEF EntryStatuses, HoldsUp
<1>3. CASE ~task[t].parked
  <2> DEFINE r == [task[t] EXCEPT !.st = "failed", !.entry = "none"]
  <2>1. r.st = "failed" /\ r.launched = task[t].launched /\ task' = [task EXCEPT ![t] = r]
    BY <1>1, <1>3 DEF Reject, Row, Sound, Rows
  <2> HIDE DEF r
  <2> QED
    BY <1>1, <2>1, OneRowWaits
<1> QED
  BY <1>2, <1>3

LEMMA BeginInvalidationWaits ==
    ASSUME Sound(task), Waits(task), NEW kind \in Kinds, NEW target \in SUBSET Tasks,
           kind \in WorkflowCommands \/ target # {},
           BeginInvalidation(kind, target)
    PROVE  Waits(task')
<1>1. CASE kind \in WorkflowCommands
  <2>1. task' = WorkflowCancelled(task)
    BY <1>1 DEF BeginInvalidation
  <2> QED
    BY <2>1, WorkflowCancelledWaits
<1>2. CASE kind \notin WorkflowCommands /\ target \cap In(task, {"completed", "closed"}) = {}
  <2>1. PICK t \in target : task' = Cancelled(task, t)
    <3>1. (CHOOSE t \in target : TRUE) \in target
      BY <1>2
    <3>2. task' = Cancelled(task, CHOOSE t \in target : TRUE)
      BY <1>2 DEF BeginInvalidation
    <3> QED
      BY <3>1, <3>2
  <2>2. t \in Tasks /\ task[t].st # "completed"
    BY <1>2 DEF In
  <2> QED
    BY <2>1, <2>2, CancelledWaits
<1>3. CASE kind \notin WorkflowCommands /\ target \cap In(task, {"completed", "closed"}) # {}
  BY <1>3 DEF BeginInvalidation
<1> QED
  BY <1>1, <1>2, <1>3

LEMMA ApplyInvalidationWaits ==
    ASSUME Sound(task), Waits(task), ApplyInvalidation
    PROVE  Waits(task')
<1> DEFINE below == Below(cmd.target, Tasks)
           all == cmd.target \cup below
<1>1. /\ \A t \in Tasks : \A d \in Deps[t] : d \in all => t \in all
      /\ \A t \in Tasks : \A d \in Deps[t] : d \in below => t \in below
      /\ \A t \in Tasks : \A d \in Deps[t] : d \in Tasks => t \in Tasks
  BY BelowClosed
<1>2. CASE Drain(Retry(task, cmd.target, cmd.target), cmd.target)
  BY <1>2, RetrySound, RetryWaits, DrainWaits
<1>3. CASE Drain(Recreate(task, all), all)
  BY <1>1, <1>3, RecreateSound, RecreateWaits, DrainWaits
<1>4. CASE Drain(Recreate(task, below), below)
  BY <1>1, <1>4, RecreateSound, RecreateWaits, DrainWaits
<1>5. CASE DrainAll(Retry(task, RetryRoots(task), {}))
  BY <1>5, RetrySound, RetryWaits, DrainWaits DEF DrainAll
<1>6. CASE DrainAll(Recreate(task, Tasks))
  BY <1>1, <1>6, RecreateSound, RecreateWaits, DrainWaits DEF DrainAll
<1> QED
  BY <1>2, <1>3, <1>4, <1>5, <1>6 DEF ApplyInvalidation

LEMMA NextWaits ==
    ASSUME IInv, Waits(task), Next, ~undone'
    PROVE  Waits(task')
<1>0. Sound(task) /\ cmd.target \subseteq Tasks
  BY DEF IInv, TypeOK
<1>1. ASSUME NEW t \in Tasks, Launched(t) PROVE Waits(task')
  BY <1>0, <1>1, LaunchedWaits
<1>2. ASSUME NEW t \in Tasks, Completes(t) PROVE Waits(task')
  BY <1>0, <1>2, CompletesWaits
<1>3. ASSUME NEW t \in Tasks, ReviewReady(t) PROVE Waits(task')
  BY <1>0, <1>3, ReviewReadyWaits
<1>4. ASSUME NEW t \in Tasks, Fails(t) PROVE Waits(task')
  <2>1. Sound(Failed(task, t)) /\ Waits(Failed(task, t))
    BY <1>0, <1>4, FailedSound, FailedWaits DEF Fails
  <2> QED
    BY <1>4, <2>1, DrainWaits DEF Fails, DrainAll
<1>5. ASSUME NEW t \in Tasks, FailTask(t) PROVE Waits(task')
  BY <1>0, <1>5, FailTaskWaits
<1>6. ASSUME NEW t \in Tasks, BeginFix(t) PROVE Waits(task')
  BY <1>0, <1>6, BeginFixWaits
<1>7. ASSUME NEW t \in Tasks, FixEnds(t) PROVE Waits(task')
  BY <1>0, <1>7, FixEndsWaits
<1>8. ASSUME NEW t \in Tasks, Approve(t) PROVE Waits(task')
  <2>1. Sound(Approved(task, t)) /\ Waits(Approved(task, t))
    BY <1>0, ApprovedSound, ApprovedWaits
  <2> QED
    BY <1>8, <2>1, DrainWaits DEF Approve, DrainAll
<1>9. ASSUME NEW t \in Tasks, ApproveFix(t) PROVE Waits(task')
  BY <1>0, <1>9, ApproveFixWaits
<1>10. ASSUME NEW t \in Tasks, BeginApprove(t) PROVE Waits(task')
  BY <1>10 DEF BeginApprove
<1>11. ASSUME NEW t \in Tasks, Reject(t) PROVE Waits(task')
  BY <1>0, <1>11, RejectWaits DEF Reject
<1>12. ASSUME NEW t \in Tasks, CancelTask(t) PROVE Waits(task')
  BY <1>0, <1>12, CancelledWaits DEF CancelTask
<1>13. ASSUME NEW t \in Tasks, CloseIdleTask(t) PROVE FALSE
  BY <1>13 DEF CloseIdleTask
<1>14. ASSUME NEW t \in Tasks, NEW kind \in TaskCommands, BeginInvalidation(kind, {t})
       PROVE  Waits(task')
  BY <1>0, <1>14, BeginInvalidationWaits DEF Kinds
<1>15. ASSUME NEW kind \in WorkflowCommands, BeginInvalidation(kind, {})
       PROVE  Waits(task')
  BY <1>0, <1>15, BeginInvalidationWaits DEF Kinds
<1>16. CASE EndApprove
  <2>1. PICK t \in cmd.target : DrainAll(Approved(task, t))
    BY <1>16 DEF EndApprove
  <2>2. Sound(Approved(task, t)) /\ Waits(Approved(task, t))
    BY <1>0, ApprovedSound, ApprovedWaits
  <2> QED
    BY <2>1, <2>2, DrainWaits DEF DrainAll
<1>17. CASE ApplyInvalidation
  BY <1>0, <1>17, ApplyInvalidationWaits
<1>18. CASE CommandFails
  BY <1>18 DEF CommandFails
<1>19. CASE CancelWorkflow
  BY <1>0, <1>19, WorkflowCancelledWaits DEF CancelWorkflow
<1>20. CASE Poll
  BY <1>0, <1>20, DrainWaits DEF Poll, DrainAll
<1> QED
  BY <1>1, <1>2, <1>3, <1>4, <1>5, <1>6, <1>7, <1>8, <1>9, <1>10, <1>11, <1>12, <1>13,
     <1>14, <1>15, <1>16, <1>17, <1>18, <1>19, <1>20 DEF Next

LEMMA UndoneStays ==
    ASSUME [Next]_vars, undone
    PROVE  undone'
BY DEF Next, vars, Launched, Completes, ReviewReady, Fails, FailTask, BeginFix, FixEnds, Approve,
   ApproveFix, BeginApprove, Reject, CancelTask, CloseIdleTask, BeginInvalidation,
   EndApprove, ApplyInvalidation, CommandFails, CancelWorkflow, Poll

\* While no idle task is closed and no finished work rejected, what is
\* launched stands over completed inputs, and what is skipped is held up.
THEOREM GraphWaits == Spec => []WInv
<1>1. Init => WInv
  <2> SUFFICES ASSUME Init PROVE WInv
    OBVIOUS
  <2>1. \A t \in Tasks : task[t].st = "pending" /\ ~task[t].launched
    BY DEF Init, NewRow
  <2>2. Waits(task)
    BY <2>1 DEF Waits, Started, Built, Open, Reasoned, Working
  <2> QED
    BY <2>2, InitSound DEF WInv
<1>2. WInv /\ [Next]_vars => WInv'
  <2> SUFFICES ASSUME WInv, [Next]_vars PROVE WInv'
    OBVIOUS
  <2>1. IInv'
    BY NextSound DEF WInv
  <2>2. undone' \/ Waits(task')
    <3>1. CASE undone
      BY <3>1, UndoneStays
    <3>2. CASE ~undone /\ Next
      BY <3>2, NextWaits DEF WInv
    <3>3. CASE ~undone /\ UNCHANGED vars
      BY <3>3 DEF vars, WInv
    <3> QED
      BY <3>1, <3>2, <3>3
  <2> QED
    BY <2>1, <2>2 DEF WInv
<1> QED
  BY <1>1, <1>2, PTL DEF Spec

\* For every graph, until an idle task is closed or finished work rejected, a
\* skipped task has an input that is still to be completed, by a step that
\* brings the skipped task back.
THEOREM GraphSkippedHasReason == Spec => []SkippedHasReason
<1>1. WInv => SkippedHasReason
  <2> SUFFICES ASSUME Waits(task), NEW t \in Tasks, task[t].st = "skipped"
               PROVE  \E d \in Deps[t] : task[d].st # "completed"
    BY DEF WInv, SkippedHasReason
  <2>1. PICK d \in Deps[t] : HoldsUp(task, d)
    BY DEF Waits, Reasoned
  <2> QED
    BY <2>1 DEF HoldsUp
<1> QED
  BY <1>1, GraphWaits, PTL
=============================================================================
