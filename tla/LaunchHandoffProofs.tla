------------------------ MODULE LaunchHandoffProofs ------------------------
(***************************************************************************)
(* Proofs about LaunchHandoff, for every set of tasks and every bound.     *)
(*                                                                         *)
(* Sound(k) is the inductive invariant of one task's durable record, and   *)
(* Evolves(k, j) what no handler may undo on the way from k to j.  Every   *)
(* write of the handlers is shown once to keep Sound and to respect        *)
(* Evolves; the steps of Next compose such writes.  The second part adds   *)
(* Held(k, m), which ties the record of a task to the processes that run   *)
(* for it: recovery, stuck leases and revivals follow from it.  The third  *)
(* adds Ready(k, m), what a waiting task and its lease look like, and      *)
(* counts the slots: Few holds because nothing but a drain takes one.      *)
(***************************************************************************)
EXTENDS LaunchHandoff, FiniteSetTheorems, TLAPS

Ended == {"completed", "failed", "superseded"}

\* The lineage of a task's attempts: the replaced ones have ended, the later
\* ones do not exist, and the selected one agrees with the task.
Lineage(k) ==
    /\ \A a \in Attempts : a < k.sel => k.att[a] \in Ended
    /\ \A a \in Attempts : a > k.sel => k.att[a] = "none" /\ k.row[a] = NoRow
    /\ k.att[k.sel] \notin {"none", "superseded"}
    /\ k.att[k.sel] \in {"completed", "failed"} => k.status = k.att[k.sel]
    /\ k.att[k.sel] = "pending" => k.row[k.sel] = NoRow
    /\ k.status = "needs_input" => k.prompted
    /\ \A a \in Attempts : k.row[a].ack => k.row[a].state # "enqueued"

Sound(k) == k \in Durable /\ Lineage(k)

Evolves(k, j) ==
    \A a \in Attempts :
        /\ k.att[a] \in Ended => j.att[a] = k.att[a]
        /\ k.row[a].ack => j.row[a].ack

Keeps(k, j) == Sound(j) /\ Evolves(k, j)

LEMMA KeepsCompose ==
    ASSUME NEW i, NEW j, NEW k, Keeps(i, j), Keeps(j, k)
    PROVE  Keeps(i, k)
BY DEF Keeps, Evolves

LEMMA KeepsSelf == ASSUME NEW k, Sound(k) PROVE Keeps(k, k)
BY DEF Keeps, Evolves

-----------------------------------------------------------------------------
(* The writes on one record.                                               *)

LEMMA SelectFreshFields ==
    ASSUME NEW k \in Durable, MoreAttempts(k)
    PROVE  /\ SelectFresh(k) \in Durable
           /\ SelectFresh(k).sel = k.sel + 1
           /\ SelectFresh(k).status = k.status
           /\ SelectFresh(k).row = k.row
           /\ \A a \in Attempts :
                SelectFresh(k).att[a] =
                    IF a = k.sel + 1 THEN "pending"
                    ELSE IF a = k.sel /\ k.att[a] \in Active THEN "superseded"
                    ELSE k.att[a]
<1> DEFINE f == [a \in Attempts |->
                    IF a = k.sel + 1 THEN "pending"
                    ELSE IF a = k.sel /\ k.att[a] \in Active THEN "superseded"
                    ELSE k.att[a]]
<1>1. k.sel + 1 \in Attempts
  BY BoundsAssumption DEF MoreAttempts, Durable, Attempts
<1>2. f \in [Attempts -> AttemptStatuses]
  BY DEF Durable, AttemptStatuses
<1>3. SelectFresh(k) = [k EXCEPT !.att = f, !.sel = k.sel + 1, !.lease = FALSE, !.prompted = FALSE]
  BY DEF SelectFresh
<1> HIDE DEF f
<1>4. /\ SelectFresh(k) \in Durable
      /\ SelectFresh(k).sel = k.sel + 1
      /\ SelectFresh(k).status = k.status
      /\ SelectFresh(k).row = k.row
      /\ SelectFresh(k).att = f
  BY <1>1, <1>2, <1>3 DEF Durable
<1> QED
  BY <1>4 DEF f

\* A record whose selected attempt is the fresh one keeps the lineage.
LEMMA FreshKeeps ==
    ASSUME NEW k, Sound(k), MoreAttempts(k),
           NEW j \in Durable, j.status \in {"pending", "queued"},
           j.sel = k.sel + 1, j.row = k.row, j.att = SelectFresh(k).att
    PROVE  Keeps(k, j)
<1>1. \A a \in Attempts :
        j.att[a] = IF a = k.sel + 1 THEN "pending"
                   ELSE IF a = k.sel /\ k.att[a] \in Active THEN "superseded"
                   ELSE k.att[a]
  BY SelectFreshFields DEF Sound
<1>2. k.sel \in Attempts /\ k.sel + 1 \in Attempts /\ k.sel \in Nat
  BY BoundsAssumption DEF Sound, Durable, MoreAttempts, Attempts
<1>3. k.att[k.sel] \in AttemptStatuses
  BY <1>2 DEF Sound, Durable
<1>4. \A a \in Attempts : a \in Nat
  BY BoundsAssumption DEF Attempts
<1>5. Lineage(j)
  <2>1. \A a \in Attempts : a < j.sel => j.att[a] \in Ended
    BY <1>1, <1>2, <1>3, <1>4 DEF Sound, Lineage, Ended, Active, AttemptStatuses
  <2>2. \A a \in Attempts : a > j.sel => j.att[a] = "none" /\ j.row[a] = NoRow
    BY <1>1, <1>2, <1>4 DEF Sound, Lineage
  <2>3. j.att[j.sel] = "pending" /\ j.row[j.sel] = NoRow
    BY <1>1, <1>2 DEF Sound, Lineage
  <2> QED
    BY <2>1, <2>2, <2>3 DEF Lineage, Sound
<1>6. Evolves(k, j)
  BY <1>1, <1>2, <1>4 DEF Evolves, Sound, Lineage, Ended, Active
<1> QED
  BY <1>5, <1>6 DEF Keeps, Sound

LEMMA NewAttemptKeeps ==
    ASSUME NEW k, Sound(k), MoreAttempts(k)
    PROVE  Keeps(k, NewAttempt(k)) /\ NewAttempt(k).status = "pending"
<1> DEFINE s == SelectFresh(k)
<1>1. s \in Durable /\ s.sel = k.sel + 1 /\ s.row = k.row /\ s.gen = k.gen
  BY SelectFreshFields DEF Sound, SelectFresh, Durable
<1>2. NewAttempt(k) = [s EXCEPT !.status = "pending", !.phase = "none", !.preserved = FALSE]
  BY DEF NewAttempt
<1>3. /\ NewAttempt(k) \in Durable
      /\ NewAttempt(k).status = "pending"
      /\ NewAttempt(k).sel = k.sel + 1
      /\ NewAttempt(k).row = k.row
      /\ NewAttempt(k).att = s.att
      /\ NewAttempt(k).gen = k.gen
  <2> HIDE DEF s
  <2> QED
    BY <1>1, <1>2 DEF Durable, Statuses
<1> QED
  BY <1>3, FreshKeeps

LEMMA PrepareKeeps ==
    ASSUME NEW k, Sound(k), MoreAttempts(k)
    PROVE  Keeps(k, Prepare(k)) /\ Prepare(k).status = "pending"
<1> DEFINE n == NewAttempt(k)
<1>1. Keeps(k, n) /\ n \in Durable /\ k.gen + 1 \in Nat /\ n.status = "pending"
  BY NewAttemptKeeps DEF Keeps, Sound, Durable
<1>2. Prepare(k) = [n EXCEPT !.gen = k.gen + 1]
  BY DEF Prepare
<1> HIDE DEF n
<1>3. /\ Prepare(k) \in Durable
      /\ Prepare(k).status = n.status /\ Prepare(k).sel = n.sel
      /\ Prepare(k).row = n.row /\ Prepare(k).att = n.att
      /\ Prepare(k).prompted = n.prompted
  BY <1>1, <1>2 DEF Durable
<1> QED
  BY <1>1, <1>3 DEF Keeps, Sound, Lineage, Evolves

\* What the operations on outbox rows have in common: only rows change, no
\* row appears, and no accepted row is queued.
LEMMA RowsKeep ==
    ASSUME NEW k, Sound(k), NEW j \in Durable,
           j.status = k.status, j.sel = k.sel, j.att = k.att, j.prompted = k.prompted,
           \A a \in Attempts :
               /\ k.row[a] = NoRow => j.row[a] = NoRow
               /\ j.row[a].ack = k.row[a].ack
               /\ j.row[a].ack => j.row[a].state # "enqueued"
    PROVE  Keeps(k, j)
BY DEF Keeps, Sound, Lineage, Evolves, Durable

LEMMA AbandonRowsKeeps ==
    ASSUME NEW k, Sound(k)
    PROVE  /\ Keeps(k, AbandonRows(k))
           /\ AbandonRows(k).sel = k.sel
           /\ AbandonRows(k).status = k.status
<1> DEFINE r == [a \in Attempts |->
                    IF k.row[a].state \in LiveRow
                    THEN [k.row[a] EXCEPT !.state = "abandoned", !.expired = FALSE]
                    ELSE k.row[a]]
<1>1. AbandonRows(k) = [k EXCEPT !.row = r]
  BY DEF AbandonRows
<1>2. \A a \in Attempts :
        /\ r[a] \in Row
        /\ k.row[a] = NoRow => r[a] = NoRow
        /\ r[a].ack = k.row[a].ack
        /\ r[a].ack => r[a].state # "enqueued"
  <2> SUFFICES ASSUME NEW a \in Attempts
               PROVE  /\ r[a] \in Row
                      /\ k.row[a] = NoRow => r[a] = NoRow
                      /\ r[a].ack = k.row[a].ack
                      /\ r[a].ack => r[a].state # "enqueued"
    OBVIOUS
  <2>1. k.row[a] \in Row
    BY DEF Sound, Durable
  <2>2. CASE k.row[a].state \in LiveRow
    <3> DEFINE w == [k.row[a] EXCEPT !.state = "abandoned", !.expired = FALSE]
    <3>1. r[a] = w
      BY <2>2
    <3>2. w \in Row /\ w.ack = k.row[a].ack /\ w.state = "abandoned"
      BY <2>1 DEF Row, RowStates
    <3>3. k.row[a] # NoRow
      BY <2>2 DEF LiveRow, NoRow
    <3> QED
      BY <3>1, <3>2, <3>3
  <2>3. CASE k.row[a].state \notin LiveRow
    <3>1. r[a] = k.row[a]
      BY <2>3
    <3> QED
      BY <2>1, <3>1 DEF Sound, Lineage
  <2> QED
    BY <2>2, <2>3
<1>3. r \in [Attempts -> Row]
  BY <1>2
<1> HIDE DEF r
<1>4. /\ AbandonRows(k) \in Durable
      /\ AbandonRows(k).status = k.status /\ AbandonRows(k).sel = k.sel
      /\ AbandonRows(k).att = k.att /\ AbandonRows(k).prompted = k.prompted
      /\ AbandonRows(k).row = r
  BY <1>1, <1>3 DEF Sound, Durable
<1> QED
  BY <1>2, <1>4, RowsKeep

LEMMA EndRowKeeps ==
    ASSUME NEW k, Sound(k), NEW a \in Attempts, NEW end \in RowStates,
           end = "enqueued" => ~k.row[a].ack
    PROVE  /\ Keeps(k, EndRow(k, a, end))
           /\ EndRow(k, a, end).sel = k.sel
           /\ EndRow(k, a, end).status = k.status
           /\ EndRow(k, a, end).gen = k.gen
           /\ EndRow(k, a, end).att = k.att
           /\ EndRow(k, a, end).preserved = k.preserved
           /\ EndRow(k, a, end).prompted = k.prompted
           /\ EndRow(k, a, end).phase = k.phase
<1>1. CASE k.row[a].state \notin LiveRow
  BY <1>1, KeepsSelf DEF EndRow
<1>2. CASE k.row[a].state \in LiveRow
  <2> DEFINE r == [k.row EXCEPT ![a].state = end, ![a].expired = FALSE]
  <2>1. EndRow(k, a, end) = [k EXCEPT !.row = r]
    BY <1>2 DEF EndRow, Sound, Durable
  <2>2. k.row \in [Attempts -> Row] /\ k.row[a] # NoRow
    BY <1>2 DEF Sound, Durable, LiveRow, NoRow
  <2>3. /\ r \in [Attempts -> Row]
        /\ r[a].ack = k.row[a].ack /\ r[a].state = end
        /\ \A b \in Attempts : b # a => r[b] = k.row[b]
    BY <2>2 DEF Row
  <2> HIDE DEF r
  <2>4. /\ EndRow(k, a, end) \in Durable
        /\ EndRow(k, a, end).status = k.status /\ EndRow(k, a, end).sel = k.sel
        /\ EndRow(k, a, end).gen = k.gen /\ EndRow(k, a, end).phase = k.phase
        /\ EndRow(k, a, end).preserved = k.preserved
        /\ EndRow(k, a, end).att = k.att /\ EndRow(k, a, end).prompted = k.prompted
        /\ EndRow(k, a, end).row = r
    BY <2>1, <2>3 DEF Sound, Durable
  <2>5. \A b \in Attempts :
          /\ k.row[b] = NoRow => r[b] = NoRow
          /\ r[b].ack = k.row[b].ack
          /\ r[b].ack => r[b].state # "enqueued"
    BY <2>2, <2>3 DEF Sound, Lineage
  <2> QED
    BY <2>4, <2>5, RowsKeep
<1> QED
  BY <1>1, <1>2

LEMMA FailDispatchKeeps ==
    ASSUME NEW k, Sound(k), NEW a \in Attempts
    PROVE  /\ Keeps(k, FailDispatch(k, a))
           /\ FailDispatch(k, a).sel = k.sel
           /\ FailDispatch(k, a).status = k.status
           /\ FailDispatch(k, a).gen = k.gen
           /\ FailDispatch(k, a).att = k.att
           /\ FailDispatch(k, a).preserved = k.preserved
           /\ FailDispatch(k, a).prompted = k.prompted
           /\ FailDispatch(k, a).phase = k.phase
<1>1. CASE k.row[a].tries >= MaxTries \/ k.row[a].ack
  BY <1>1, EndRowKeeps DEF FailDispatch, RowStates
<1>2. CASE ~(k.row[a].tries >= MaxTries \/ k.row[a].ack)
  BY <1>2, EndRowKeeps DEF FailDispatch, RowStates
<1> QED
  BY <1>1, <1>2

LEMMA ResetKeeps ==
    ASSUME NEW k, Sound(k), MoreAttempts(k)
    PROVE  Keeps(k, Reset(k)) /\ Reset(k).status = "pending"
<1>1. Sound(AbandonRows(k)) /\ MoreAttempts(AbandonRows(k))
  BY AbandonRowsKeeps DEF Keeps, MoreAttempts
<1> QED
  BY <1>1, AbandonRowsKeeps, PrepareKeeps, KeepsCompose DEF Reset

LEMMA DeferKeeps ==
    ASSUME NEW k, Sound(k), MoreAttempts(k)
    PROVE  Keeps(k, Defer(k)) /\ Defer(k).status = "queued"
<1> DEFINE r == AbandonRows(k)
           s == SelectFresh(r)
<1>1. Keeps(k, r) /\ Sound(r) /\ MoreAttempts(r)
  BY AbandonRowsKeeps DEF Keeps, MoreAttempts
<1>2. Defer(k) = [s EXCEPT !.status = "queued", !.phase = "none"]
  BY DEF Defer
<1> HIDE DEF r
<1>3. s \in Durable /\ s.sel = r.sel + 1 /\ s.row = r.row
  BY <1>1, SelectFreshFields DEF Sound
<1>4. /\ Defer(k) \in Durable /\ Defer(k).status = "queued"
      /\ Defer(k).sel = r.sel + 1 /\ Defer(k).row = r.row /\ Defer(k).att = s.att
  <2> HIDE DEF s
  <2> QED
    BY <1>2, <1>3 DEF Durable, Statuses
<1>5. Keeps(r, Defer(k))
  BY <1>1, <1>4, FreshKeeps
<1> QED
  BY <1>1, <1>4, <1>5, KeepsCompose

LEMMA FailTaskKeeps ==
    ASSUME NEW k, Sound(k)
    PROVE  /\ Keeps(k, FailTask(k))
           /\ FailTask(k).sel = k.sel
           /\ FailTask(k).status \in {"completed", "failed"}
<1>1. CASE k.status \in {"completed", "failed"}
  BY <1>1, KeepsSelf DEF FailTask
<1>2. CASE k.status \notin {"completed", "failed"}
  <2> DEFINE f == [k.att EXCEPT ![k.sel] = "failed"]
  <2>1. k.sel \in Attempts /\ k.att \in [Attempts -> AttemptStatuses]
    BY DEF Sound, Durable
  <2>2. FailTask(k) = [k EXCEPT !.status = "failed", !.att = f]
    BY <1>2 DEF FailTask, Sound, Durable
  <2>3. /\ f \in [Attempts -> AttemptStatuses] /\ f[k.sel] = "failed"
        /\ \A a \in Attempts : a # k.sel => f[a] = k.att[a]
    BY <2>1 DEF AttemptStatuses
  <2> HIDE DEF f
  <2>4. /\ FailTask(k) \in Durable
        /\ FailTask(k).status = "failed" /\ FailTask(k).sel = k.sel
        /\ FailTask(k).att = f /\ FailTask(k).row = k.row
    BY <2>2, <2>3 DEF Sound, Durable, Statuses
  <2>5. k.att[k.sel] \notin Ended
    BY <1>2, <2>1 DEF Sound, Lineage, Ended
  <2>6. \A a \in Attempts : a < k.sel \/ a > k.sel => a # k.sel
    BY BoundsAssumption DEF Attempts, Sound, Durable
  <2> QED
    BY <2>1, <2>3, <2>4, <2>5, <2>6 DEF Keeps, Sound, Lineage, Evolves, Ended
<1> QED
  BY <1>1, <1>2

LEMMA MarkCancelledKeeps ==
    ASSUME NEW k, Sound(k)
    PROVE  /\ Keeps(k, MarkCancelled(k))
           /\ MarkCancelled(k).sel = k.sel
           /\ MarkCancelled(k).status \in {"completed", "failed"}
<1>1. CASE k.status = "completed"
  BY <1>1, KeepsSelf DEF MarkCancelled
<1>2. CASE k.status # "completed"
  <2> DEFINE f == [k.att EXCEPT ![k.sel] = "failed"]
  <2>1. k.sel \in Attempts /\ k.att \in [Attempts -> AttemptStatuses]
    BY DEF Sound, Durable
  <2>2. MarkCancelled(k) = [k EXCEPT !.status = "failed", !.att = f]
    BY <1>2 DEF MarkCancelled, Sound, Durable
  <2>3. /\ f \in [Attempts -> AttemptStatuses] /\ f[k.sel] = "failed"
        /\ \A a \in Attempts : a # k.sel => f[a] = k.att[a]
    BY <2>1 DEF AttemptStatuses
  <2> HIDE DEF f
  <2>4. /\ MarkCancelled(k) \in Durable
        /\ MarkCancelled(k).status = "failed" /\ MarkCancelled(k).sel = k.sel
        /\ MarkCancelled(k).att = f /\ MarkCancelled(k).row = k.row
    BY <2>2, <2>3 DEF Sound, Durable, Statuses
  <2>5. k.att[k.sel] \in Ended => k.att[k.sel] = "failed"
    BY <1>2, <2>1 DEF Sound, Lineage, Ended
  <2>6. \A a \in Attempts : a < k.sel \/ a > k.sel => a # k.sel
    BY BoundsAssumption DEF Attempts, Sound, Durable
  <2> QED
    BY <2>1, <2>3, <2>4, <2>5, <2>6 DEF Keeps, Sound, Lineage, Evolves, Ended
<1> QED
  BY <1>1, <1>2

LEMMA LaunchKeeps ==
    ASSUME NEW k, Sound(k), Startable(k), NEW written \in BOOLEAN
    PROVE  Keeps(k, Launch(k, written)) /\ Launch(k, written).status = "queued"
<1> DEFINE j == IF Reusable(k) THEN k ELSE NewAttempt(k)
           f == [j.att EXCEPT ![j.sel] = "claimed"]
           w == IF written THEN [NoRow EXCEPT !.state = "enqueued", !.gen = j.gen]
                ELSE j.row[j.sel]
           r == [j.row EXCEPT ![j.sel] = w]
           n == Launch(k, written)
<1>1. Keeps(k, j) /\ j.att[j.sel] = "pending"
  <2>1. CASE Reusable(k)
    BY <2>1, KeepsSelf DEF Reusable
  <2>2. CASE ~Reusable(k)
    <3>1. MoreAttempts(k)
      BY <2>2 DEF Startable
    <3>2. NewAttempt(k).sel = k.sel + 1 /\ NewAttempt(k).att = SelectFresh(k).att
      BY <3>1, SelectFreshFields DEF NewAttempt, Sound, Durable
    <3>3. k.sel + 1 \in Attempts
      BY <3>1, BoundsAssumption DEF MoreAttempts, Sound, Durable, Attempts
    <3> QED
      BY <2>2, <3>1, <3>2, <3>3, NewAttemptKeeps, SelectFreshFields DEF Sound
  <2> QED
    BY <2>1, <2>2
<1>2. Launch(k, written) = [j EXCEPT !.status = "queued", !.phase = "launching",
                                    !.lease = TRUE, !.att = f, !.row = r]
  <2>1. j \in Durable
    BY <1>1 DEF Keeps, Sound
  <2> QED
    BY <2>1 DEF Launch, Durable
<1> HIDE DEF j
<1>3. /\ j \in Durable /\ j.sel \in Attempts /\ j.att \in [Attempts -> AttemptStatuses]
      /\ j.row \in [Attempts -> Row] /\ j.row[j.sel] = NoRow
  BY <1>1 DEF Keeps, Sound, Durable, Lineage
<1>4. w \in Row /\ w.ack = FALSE
  <2>1. NoRow \in Row /\ NoRow.ack = FALSE
    BY DEF NoRow, Row, RowStates
  <2>2. j.gen \in Nat
    BY <1>3 DEF Durable
  <2>3. /\ [NoRow EXCEPT !.state = "enqueued", !.gen = j.gen] \in Row
        /\ [NoRow EXCEPT !.state = "enqueued", !.gen = j.gen].ack = FALSE
    BY <2>2 DEF NoRow, Row, RowStates
  <2> QED
    BY <1>3, <2>1, <2>3
<1> HIDE DEF w
<1>5. /\ f \in [Attempts -> AttemptStatuses] /\ f[j.sel] = "claimed"
      /\ r \in [Attempts -> Row] /\ r[j.sel] = w
      /\ \A a \in Attempts : a # j.sel => f[a] = j.att[a] /\ r[a] = j.row[a]
  BY <1>3, <1>4 DEF AttemptStatuses
<1> HIDE DEF f, r
<1>6. /\ n \in Durable /\ n.status = "queued"
      /\ n.sel = j.sel /\ n.att = f /\ n.row = r
  BY <1>2, <1>3, <1>5 DEF Durable, Statuses
<1> HIDE DEF n
<1>7. \A a \in Attempts : a < j.sel \/ a > j.sel => a # j.sel
  BY <1>3, BoundsAssumption DEF Attempts
<1>8. Keeps(j, n)
  BY <1>1, <1>3, <1>4, <1>5, <1>6, <1>7 DEF Keeps, Sound, Lineage, Evolves, Ended, NoRow
<1> QED
  BY <1>1, <1>6, <1>8, KeepsCompose DEF n

LEMMA SettleKeeps ==
    ASSUME NEW k, Sound(k), k.status \in {"pending", "queued", "running"}, NEW o \in Outcomes
    PROVE  /\ Keeps(k, Settle(k, o))
           /\ Settle(k, o).status = o
           /\ Settle(k, o).sel = k.sel
<1> DEFINE old == k.att[k.sel]
           x == CASE o = "completed" -> IF old = "running" THEN o ELSE old
                  [] o = "failed" -> IF old \in Leasable THEN o ELSE old
                  [] OTHER -> o
           f == [k.att EXCEPT ![k.sel] = x]
           n == Settle(k, o)
<1>1. k.sel \in Attempts /\ k.att \in [Attempts -> AttemptStatuses] /\ old \in AttemptStatuses
  BY DEF Sound, Durable
<1>2. n = [k EXCEPT !.status = o, !.prompted = @ \/ o = "needs_input", !.att = f]
  BY DEF Settle, Sound, Durable
<1>3. old \notin Ended \cup {"none"}
  BY DEF Sound, Lineage, Ended
<1>4. /\ x \in AttemptStatuses \ {"none", "superseded"}
      /\ x = "pending" => old = "pending"
      /\ x \in {"completed", "failed"} => x = o
  BY <1>1, <1>3 DEF Outcomes, AttemptStatuses, Ended
<1> HIDE DEF x, old
<1>5. /\ f \in [Attempts -> AttemptStatuses] /\ f[k.sel] = x
      /\ \A a \in Attempts : a # k.sel => f[a] = k.att[a]
  BY <1>1, <1>4
<1> HIDE DEF f
<1>6. /\ n \in Durable /\ n.status = o /\ n.sel = k.sel
      /\ n.att = f /\ n.row = k.row
      /\ o = "needs_input" => n.prompted
  BY <1>2, <1>5 DEF Sound, Durable, Statuses, Outcomes
<1> HIDE DEF n
<1>7. \A a \in Attempts : a < k.sel \/ a > k.sel => a # k.sel
  BY <1>1, BoundsAssumption DEF Attempts
<1>8. Keeps(k, n)
  BY <1>1, <1>3, <1>4, <1>5, <1>6, <1>7 DEF Keeps, Sound, Lineage, Evolves, Ended, old
<1> QED
  BY <1>6, <1>8 DEF n

LEMMA MarkRunningKeeps ==
    ASSUME NEW k, Sound(k), NEW a \in Attempts, a = k.sel,
           k.status \in {"pending", "queued", "running"}
    PROVE  /\ Keeps(k, MarkRunning(k, a))
           /\ MarkRunning(k, a).sel = a
           /\ MarkRunning(k, a).gen = k.gen
           /\ MarkRunning(k, a).att[a] = "running"
           /\ MarkRunning(k, a).preserved = k.preserved
           /\ MarkRunning(k, a).prompted = k.prompted
<1> DEFINE f == [k.att EXCEPT ![a] = "running"]
           w == [k.row[a] EXCEPT !.ack = @ \/ k.row[a].state = "leased"]
           r == [k.row EXCEPT ![a] = w]
           n == MarkRunning(k, a)
<1>1. /\ k.att \in [Attempts -> AttemptStatuses] /\ k.row \in [Attempts -> Row]
      /\ k.row[a] \in Row /\ k.sel \in Attempts
  BY DEF Sound, Durable
<1>2. n = [k EXCEPT !.status = "running", !.phase = "executing", !.lease = TRUE,
                    !.att = f, !.row = r]
  BY <1>1 DEF MarkRunning, Sound, Durable
<1>3. /\ w \in Row
      /\ k.row[a].ack => w.ack
      /\ w.ack => w.state # "enqueued"
  <2>1. /\ w \in Row /\ w.state = k.row[a].state
        /\ w.ack = (k.row[a].ack \/ k.row[a].state = "leased")
    BY <1>1 DEF Row
  <2> QED
    BY <2>1 DEF Sound, Lineage
<1> HIDE DEF w
<1>4. /\ f \in [Attempts -> AttemptStatuses] /\ f[a] = "running"
      /\ r \in [Attempts -> Row] /\ r[a] = w
      /\ \A b \in Attempts : b # a => f[b] = k.att[b] /\ r[b] = k.row[b]
  <2>1. f \in [Attempts -> AttemptStatuses] /\ f[a] = "running"
    BY <1>1 DEF AttemptStatuses
  <2>2. r \in [Attempts -> Row] /\ r[a] = w
    BY <1>1, <1>3
  <2>3. \A b \in Attempts : b # a => f[b] = k.att[b] /\ r[b] = k.row[b]
    BY <1>1
  <2> QED
    BY <2>1, <2>2, <2>3
<1> HIDE DEF f, r
<1>5. /\ n \in Durable /\ n.status = "running" /\ n.sel = k.sel /\ n.gen = k.gen
      /\ n.att = f /\ n.row = r /\ n.preserved = k.preserved /\ n.prompted = k.prompted
  BY <1>2, <1>4 DEF Sound, Durable, Statuses
<1> HIDE DEF n
<1>6. \A b \in Attempts : b < k.sel \/ b > k.sel => b # k.sel
  BY <1>1, BoundsAssumption DEF Attempts
<1>7. k.att[a] \notin Ended
  BY DEF Sound, Lineage, Ended
<1>8. Keeps(k, n)
  BY <1>1, <1>3, <1>4, <1>5, <1>6, <1>7 DEF Keeps, Sound, Lineage, Evolves, Ended
<1> QED
  BY <1>4, <1>5, <1>8 DEF n

\* A write that leaves status, lineage and rows alone.
LEMMA FieldsKeep ==
    ASSUME NEW k, Sound(k), NEW j \in Durable,
           j.status = k.status, j.sel = k.sel, j.att = k.att, j.row = k.row,
           j.prompted = k.prompted
    PROVE  Keeps(k, j)
BY DEF Keeps, Sound, Lineage, Evolves

-----------------------------------------------------------------------------
(* The inductive invariant of the whole module.                            *)

Owned(k, m) ==
    k.status = "running" /\ ~k.preserved /\ ~k.prompted =>
        /\ m.proc[k.sel] \in {"live", "failing"}
        /\ m.pgen[k.sel] = k.gen
        /\ k.att[k.sel] = "running"

IInv ==
    /\ TypeOK
    /\ \A t \in Tasks : Sound(db[t]) /\ Owned(db[t], mem[t])

\* What a step must establish.
Done ==
    /\ IInv'
    /\ \A t \in Tasks : Evolves(db[t], db'[t])

LEMMA OwnedSame ==
    ASSUME NEW k, NEW j, NEW m, Owned(k, m),
           j.status = k.status, j.sel = k.sel, j.gen = k.gen, j.att = k.att,
           j.preserved = k.preserved, j.prompted = k.prompted
    PROVE  Owned(j, m)
BY DEF Owned

LEMMA OneTaskStep ==
    ASSUME IInv, NEW t \in Tasks, NEW j, NEW n,
           db' = [db EXCEPT ![t] = j], mem' = [mem EXCEPT ![t] = n],
           Keeps(db[t], j), n \in Volatile, Owned(j, n)
    PROVE  Done
<1>1. /\ db' \in [Tasks -> Durable] /\ mem' \in [Tasks -> Volatile]
      /\ db'[t] = j /\ mem'[t] = n
      /\ \A u \in Tasks : u # t => db'[u] = db[u] /\ mem'[u] = mem[u]
  BY DEF IInv, TypeOK, Keeps, Sound
<1>2. \A u \in Tasks : Evolves(db[u], db'[u]) /\ Sound(db'[u]) /\ Owned(db'[u], mem'[u])
  BY <1>1, KeepsSelf DEF Keeps, IInv
<1> QED
  BY <1>1, <1>2 DEF Done, IInv, TypeOK

LEMMA DrainStep ==
    ASSUME NEW d, \A t \in Tasks : Sound(d[t]),
           NEW queue \in SUBSET Tasks, NEW wanted, Drain(d, queue, wanted)
    PROVE  /\ db' \in [Tasks -> Durable]
           /\ \A t \in Tasks :
                /\ Keeps(d[t], db'[t])
                /\ db'[t] = d[t] \/ (db'[t].status = "queued" /\ Startable(d[t]))
<1>1. PICK L \in SUBSET {t \in queue : Startable(d[t])}, E \in SUBSET Tasks :
        db' = [t \in Tasks |-> IF t \in L THEN Launch(d[t], t \notin E) ELSE d[t]]
  BY DEF Drain
<1>2. \A t \in Tasks :
        /\ Keeps(d[t], db'[t])
        /\ db'[t] = d[t] \/ (db'[t].status = "queued" /\ Startable(d[t]))
  <2> TAKE t \in Tasks
  <2>1. CASE t \in L
    <3>1. Startable(d[t]) /\ db'[t] = Launch(d[t], t \notin E)
      BY <1>1, <2>1
    <3>2. (t \notin E) \in BOOLEAN
      OBVIOUS
    <3> QED
      BY <3>1, <3>2, LaunchKeeps
  <2>2. CASE t \notin L
    BY <1>1, <2>2, KeepsSelf
  <2> QED
    BY <2>1, <2>2
<1> QED
  BY <1>1, <1>2 DEF Keeps, Sound

LEMMA AbandonRowsSound ==
    ASSUME NEW k, Sound(k)
    PROVE  Sound(AbandonRows(k))
BY AbandonRowsKeeps DEF Keeps

\* An accepted response ends the run of its task; a refused one changes
\* nothing.
LEMMA RespondStep ==
    ASSUME NEW d \in [Tasks -> Durable], \A u \in Tasks : Sound(d[u]),
           NEW m \in [Tasks -> Volatile], NEW t \in Tasks, NEW a, NEW g,
           NEW o \in Outcomes, Respond(d, m, t, a, g, o)
    PROVE  /\ db' \in [Tasks -> Durable]
           /\ mem' \in [Tasks -> Volatile]
           /\ \A u \in Tasks :
                /\ Keeps(d[u], db'[u])
                /\ db'[u] = d[u] \/ db'[u].status # "running"
                /\ mem'[u].proc = m[u].proc /\ mem'[u].pgen = m[u].pgen
           /\ Accepts(d[t], a, g) => db'[t].status # "running"
<1> DEFINE d1 == [d EXCEPT ![t] = Settle(@, o)]
<1>1. CASE ~Accepts(d[t], a, g) /\ db' = d /\ mem' = m
  BY <1>1, KeepsSelf
<1>2. CASE Accepts(d[t], a, g)
  <2>1. d[t].status \in {"pending", "queued", "running"}
    BY <1>2 DEF Accepts, Executable
  <2>2. Keeps(d[t], Settle(d[t], o)) /\ Settle(d[t], o).status = o
    BY <2>1, SettleKeeps
  <2>3. /\ d1 \in [Tasks -> Durable] /\ d1[t].status = o
        /\ \A u \in Tasks : Keeps(d[u], d1[u]) /\ Sound(d1[u])
        /\ \A u \in Tasks : u # t => d1[u] = d[u]
    BY <2>2, KeepsSelf DEF Keeps, Sound
  <2>4. o # "running"
    BY DEF Outcomes
  <2>5. CASE o = "needs_input" /\ db' = d1 /\ mem' = m
    BY <2>3, <2>4, <2>5
  <2>6. CASE Drain(d1, Tasks, Tasks) /\ mem' = Unpark(m)
    <3> HIDE DEF d1
    <3>1. /\ db' \in [Tasks -> Durable]
          /\ \A u \in Tasks : /\ Keeps(d1[u], db'[u])
                              /\ db'[u] = d1[u] \/ db'[u].status = "queued"
      BY <2>3, <2>6, DrainStep
    <3>2. \A u \in Tasks : Keeps(d[u], db'[u])
      BY <2>3, <3>1, KeepsCompose
    <3>3. \A u \in Tasks : db'[u] = d[u] \/ db'[u].status # "running"
      BY <2>3, <2>4, <3>1
    <3>4. /\ mem' \in [Tasks -> Volatile]
          /\ \A u \in Tasks : mem'[u].proc = m[u].proc /\ mem'[u].pgen = m[u].pgen
      <4>1. \A u \in Tasks : /\ [m[u] EXCEPT !.parked = FALSE] \in Volatile
                             /\ [m[u] EXCEPT !.parked = FALSE].proc = m[u].proc
                             /\ [m[u] EXCEPT !.parked = FALSE].pgen = m[u].pgen
        BY DEF Volatile
      <4> QED
        BY <2>6, <4>1 DEF Unpark
    <3>5. db'[t].status # "running"
      BY <2>3, <2>4, <3>1
    <3> QED
      BY <3>1, <3>2, <3>3, <3>4, <3>5
  <2> QED
    BY <1>2, <2>5, <2>6 DEF Respond
<1> QED
  BY <1>1, <1>2 DEF Respond

\* The processes of one attempt.
LEMMA ProcStep ==
    ASSUME NEW m \in Volatile, NEW a \in Attempts, NEW p \in ProcStates
    PROVE  /\ [m EXCEPT !.proc[a] = p] \in Volatile
           /\ [m EXCEPT !.proc[a] = p].proc[a] = p
           /\ \A b \in Attempts : b # a => [m EXCEPT !.proc[a] = p].proc[b] = m.proc[b]
           /\ [m EXCEPT !.proc[a] = p].pgen = m.pgen
BY DEF Volatile

\* A process other than the one that runs the task may change freely.
LEMMA OwnedElsewhere ==
    ASSUME NEW k \in Durable, NEW m \in Volatile, NEW n \in Volatile, Owned(k, m),
           NEW a \in Attempts, m.proc[a] \notin {"live", "failing"},
           \A b \in Attempts : b # a => n.proc[b] = m.proc[b],
           \A b \in Attempts : b # a => n.pgen[b] = m.pgen[b]
    PROVE  Owned(k, n)
BY DEF Owned, Durable

LEMMA ManyTasksStep ==
    ASSUME IInv, db' \in [Tasks -> Durable], mem' \in [Tasks -> Volatile],
           \A u \in Tasks : Keeps(db[u], db'[u]) /\ Owned(db'[u], mem'[u])
    PROVE  Done
BY DEF Done, IInv, TypeOK, Keeps

\* A step that changes no record of the database.
LEMMA MemoryStep ==
    ASSUME IInv, NEW t \in Tasks, NEW n \in Volatile, UNCHANGED db,
           mem' = [mem EXCEPT ![t] = n], Owned(db[t], n)
    PROVE  Done
<1>1. db' = [db EXCEPT ![t] = db[t]] /\ Keeps(db[t], db[t])
  BY KeepsSelf DEF IInv, TypeOK
<1> QED
  BY <1>1, OneTaskStep

\* A step that changes one record and no memory.
LEMMA RecordStep ==
    ASSUME IInv, NEW t \in Tasks, NEW j, UNCHANGED mem,
           db' = [db EXCEPT ![t] = j], Keeps(db[t], j), Owned(j, mem[t])
    PROVE  Done
<1>1. mem' = [mem EXCEPT ![t] = mem[t]] /\ mem[t] \in Volatile
  BY DEF IInv, TypeOK
<1> QED
  BY <1>1, OneTaskStep

LEMMA TaskFacts ==
    ASSUME IInv, NEW t \in Tasks
    PROVE  /\ db \in [Tasks -> Durable] /\ mem \in [Tasks -> Volatile]
           /\ Sound(db[t]) /\ db[t] \in Durable /\ mem[t] \in Volatile
           /\ Owned(db[t], mem[t])
BY DEF IInv, TypeOK

-----------------------------------------------------------------------------
(* One lemma per action.                                                   *)

LEMMA TopUpStep == ASSUME IInv, TopUp PROVE Done
<1>1. \A t \in Tasks : Sound(db[t])
  BY DEF IInv
<1>2. Drain(db, Tasks \ Parked, Tasks \ Parked) /\ mem' = mem
  BY DEF TopUp
<1>3. /\ db' \in [Tasks -> Durable]
      /\ \A t \in Tasks : /\ Keeps(db[t], db'[t])
                          /\ db'[t] = db[t] \/ db'[t].status = "queued"
  BY <1>1, <1>2, DrainStep
<1>4. \A t \in Tasks : Owned(db'[t], mem'[t])
  BY <1>2, <1>3 DEF IInv, Owned
<1> QED
  BY <1>2, <1>3, <1>4, ManyTasksStep DEF IInv, TypeOK

LEMMA BackoffStep == ASSUME IInv, NEW t \in Tasks, BackoffElapses(t) PROVE Done
<1> DEFINE n == [mem[t] EXCEPT !.parked = FALSE]
<1>1. n \in Volatile /\ n.proc = mem[t].proc /\ n.pgen = mem[t].pgen
  BY TaskFacts DEF Volatile
<1>2. mem' = [mem EXCEPT ![t] = n] /\ UNCHANGED db
  BY TaskFacts DEF BackoffElapses, Volatile
<1> HIDE DEF n
<1>3. Owned(db[t], n)
  BY <1>1, TaskFacts DEF Owned
<1> QED
  BY <1>1, <1>2, <1>3, MemoryStep

\* Writes of one row that keep its acceptance.
LEMMA RowWriteKeeps ==
    ASSUME NEW k, Sound(k), NEW a \in Attempts, k.row[a] # NoRow,
           NEW w \in Row, w.ack = k.row[a].ack, w.ack => w.state # "enqueued"
    PROVE  /\ Keeps(k, [k EXCEPT !.row[a] = w])
           /\ \A m : Owned(k, m) => Owned([k EXCEPT !.row[a] = w], m)
<1> DEFINE j == [k EXCEPT !.row[a] = w]
<1>1. /\ j \in Durable /\ j.status = k.status /\ j.sel = k.sel /\ j.att = k.att
      /\ j.prompted = k.prompted /\ j.preserved = k.preserved /\ j.gen = k.gen
      /\ j.row[a] = w
      /\ \A b \in Attempts : b # a => j.row[b] = k.row[b]
  BY DEF Sound, Durable
<1> HIDE DEF j
<1>2. Keeps(k, j)
  <2>1. \A b \in Attempts :
          /\ k.row[b] = NoRow => j.row[b] = NoRow
          /\ j.row[b].ack = k.row[b].ack
          /\ j.row[b].ack => j.row[b].state # "enqueued"
    BY <1>1 DEF Sound, Lineage
  <2> QED
    BY <1>1, <2>1, RowsKeep
<1>3. \A m : Owned(k, m) => Owned(j, m)
  BY <1>1 DEF Owned
<1> QED
  BY <1>2, <1>3 DEF j

LEMMA LeasedRow ==
    ASSUME NEW r \in Row
    PROVE  LET w == [r EXCEPT !.state = "leased", !.expired = FALSE, !.tries = r.tries + 1]
           IN  w \in Row /\ w.ack = r.ack /\ w.state = "leased"
<1> DEFINE n == r.tries + 1
<1>1. n \in Nat
  BY DEF Row
<1> HIDE DEF n
<1>2. LET w == [r EXCEPT !.state = "leased", !.expired = FALSE, !.tries = n]
      IN  w \in Row /\ w.ack = r.ack /\ w.state = "leased"
  BY <1>1 DEF Row, RowStates
<1> QED
  BY <1>2 DEF n

LEMMA ClaimStep == ASSUME IInv, NEW t \in Tasks, NEW a \in Attempts, Claim(t, a) PROVE Done
<1> DEFINE k == db[t]
           w == [k.row[a] EXCEPT !.state = "leased", !.expired = FALSE,
                             !.tries = k.row[a].tries + 1]
           leased == [k EXCEPT !.row[a] = w]
<1>1. Sound(k) /\ Owned(k, mem[t]) /\ k.row[a] \in Row /\ k.row[a].state = "enqueued"
  BY TaskFacts DEF Claim, Durable
<1>2. /\ w \in Row /\ w.ack = k.row[a].ack /\ w.state = "leased"
      /\ k.row[a] # NoRow
  <2>1. w \in Row /\ w.ack = k.row[a].ack /\ w.state = "leased"
    BY <1>1, LeasedRow
  <2>2. k.row[a] # NoRow
    BY <1>1 DEF NoRow
  <2> QED
    BY <2>1, <2>2
<1>3. [k EXCEPT !.row[a].state = "leased", !.row[a].expired = FALSE,
                !.row[a].tries = k.row[a].tries + 1] = leased
  BY <1>1 DEF Sound, Durable
<1>4. Keeps(k, leased) /\ Owned(leased, mem[t]) /\ leased.gen = k.gen /\ leased.status = k.status
      /\ leased.sel = k.sel /\ leased.att = k.att /\ leased.preserved = k.preserved
      /\ leased.prompted = k.prompted
  <2> HIDE DEF w
  <2>1. Keeps(k, leased) /\ Owned(leased, mem[t])
    BY <1>1, <1>2, RowWriteKeeps
  <2> QED
    BY <1>1, <2>1 DEF Sound, Durable
<1>5. CASE /\ RowStale(k, a)
           /\ db' = [db EXCEPT ![t] = EndRow(k, a, "abandoned")]
           /\ UNCHANGED mem
  <2>1. Keeps(k, EndRow(k, a, "abandoned")) /\ Owned(EndRow(k, a, "abandoned"), mem[t])
    BY <1>1, EndRowKeeps, OwnedSame DEF RowStates
  <2> QED
    BY <1>5, <2>1, RecordStep
<1>6. CASE /\ db' = [db EXCEPT ![t] = FailDispatch(leased, a)]
           /\ UNCHANGED mem
  <2> HIDE DEF leased
  <2>1. Keeps(k, FailDispatch(leased, a)) /\ Owned(FailDispatch(leased, a), mem[t])
    BY <1>4, FailDispatchKeeps, OwnedSame, KeepsCompose DEF Keeps
  <2> QED
    BY <1>6, <2>1, RecordStep
<1>7. CASE /\ ~RowStale(k, a) /\ mem[t].proc[a] = "none"
           /\ db' = [db EXCEPT ![t] = leased]
           /\ mem' = [mem EXCEPT ![t].proc[a] = "starting", ![t].pgen[a] = k.gen]
  <2> DEFINE n == [mem[t] EXCEPT !.proc[a] = "starting", !.pgen[a] = k.gen]
  <2>1. mem' = [mem EXCEPT ![t] = n] /\ n \in Volatile
    <3>1. k.gen \in Nat
      BY <1>1 DEF Sound, Durable
    <3>2. mem[t] \in Volatile /\ mem \in [Tasks -> Volatile]
      BY TaskFacts
    <3>3. n \in Volatile
      BY <3>1, <3>2 DEF Volatile, ProcStates
    <3>4. mem' = [mem EXCEPT ![t] = n]
      BY <1>7, <3>2 DEF Volatile
    <3> QED
      BY <3>3, <3>4
  <2>2. leased.status # "running"
    BY <1>4, <1>7 DEF RowStale
  <2>3. Owned(leased, n)
    BY <2>2 DEF Owned
  <2> HIDE DEF n, leased
  <2> QED
    BY <1>4, <1>7, <2>1, <2>3, OneTaskStep
<1> QED
  BY <1>3, <1>5, <1>6, <1>7 DEF Claim

LEMMA FenceStep == ASSUME IInv, NEW t \in Tasks, NEW a \in Attempts, FenceExpires(t, a) PROVE Done
<1> DEFINE w == [db[t].row[a] EXCEPT !.expired = TRUE]
<1>1. /\ Sound(db[t]) /\ Owned(db[t], mem[t]) /\ db[t].row[a] \in Row
      /\ db[t].row[a].state = "leased" /\ db[t].row[a] # NoRow
  BY TaskFacts DEF FenceExpires, Durable, NoRow
<1>2. w \in Row /\ w.ack = db[t].row[a].ack /\ w.state = "leased"
  BY <1>1 DEF Row
<1>3. db' = [db EXCEPT ![t] = [db[t] EXCEPT !.row[a] = w]] /\ UNCHANGED mem
  BY TaskFacts DEF FenceExpires, Durable
<1> HIDE DEF w
<1>4. /\ Keeps(db[t], [db[t] EXCEPT !.row[a] = w])
      /\ Owned([db[t] EXCEPT !.row[a] = w], mem[t])
  BY <1>1, <1>2, RowWriteKeeps
<1> QED
  BY <1>3, <1>4, RecordStep

LEMMA AbandonStuckStep == ASSUME IInv, NEW t \in Tasks, NEW a \in Attempts, AbandonStuck(t, a) PROVE Done
<1> DEFINE k == EndRow(db[t], a, "stuck")
<1>1. Keeps(db[t], k) /\ Owned(k, mem[t]) /\ Sound(k)
  BY TaskFacts, EndRowKeeps, OwnedSame DEF RowStates, Keeps
<1>2. UNCHANGED mem
  BY DEF AbandonStuck
<1>3. CASE db' = [db EXCEPT ![t] = FailTask(k)]
  <2> HIDE DEF k
  <2>1. Keeps(db[t], FailTask(k)) /\ Owned(FailTask(k), mem[t])
    BY <1>1, FailTaskKeeps, KeepsCompose DEF Owned
  <2> QED
    BY <1>2, <1>3, <2>1, RecordStep
<1>4. CASE db' = [db EXCEPT ![t] = k]
  BY <1>1, <1>2, <1>4, RecordStep
<1>5. CASE db' = [db EXCEPT ![t] = Prepare(k)] /\ MoreAttempts(k)
  <2> HIDE DEF k
  <2>1. Keeps(db[t], Prepare(k)) /\ Owned(Prepare(k), mem[t])
    BY <1>1, <1>5, PrepareKeeps, KeepsCompose DEF Owned
  <2> QED
    BY <1>2, <1>5, <2>1, RecordStep
<1> QED
  BY <1>3, <1>4, <1>5 DEF AbandonStuck

LEMMA ReapStep == ASSUME IInv, NEW t \in Tasks, NEW a \in Attempts, Reap(t, a) PROVE Done
<1>1. /\ Keeps(db[t], EndRow(db[t], a, "enqueued"))
      /\ Owned(EndRow(db[t], a, "enqueued"), mem[t])
  BY TaskFacts, EndRowKeeps, OwnedSame DEF Reap, Overdue, RowStates
<1>2. db' = [db EXCEPT ![t] = EndRow(db[t], a, "enqueued")] /\ UNCHANGED mem
  BY DEF Reap
<1> QED
  BY <1>1, <1>2, RecordStep

LEMMA LaunchAcceptedStep ==
    ASSUME IInv, NEW t \in Tasks, NEW a \in Attempts, NEW usable \in BOOLEAN,
           LaunchAccepted(t, a, usable)
    PROVE  Done
<1> DEFINE k == MarkRunning(db[t], a)
           p == IF usable THEN "live" ELSE "failing"
           n == [mem[t] EXCEPT !.proc[a] = p]
           j == IF usable THEN k ELSE FailDispatch(k, a)
<1>1. /\ a = db[t].sel /\ mem[t].pgen[a] = db[t].gen
      /\ db[t].status \in {"pending", "queued", "running"}
  BY DEF LaunchAccepted, LaunchCurrent, LaunchStale
<1>2. /\ Keeps(db[t], k) /\ Sound(k) /\ k.sel = a /\ k.gen = db[t].gen
      /\ k.att[a] = "running"
  BY <1>1, TaskFacts, MarkRunningKeeps DEF Keeps
<1>3. /\ n \in Volatile /\ n.proc[a] = p /\ n.pgen = mem[t].pgen
      /\ mem' = [mem EXCEPT ![t] = n]
  <2>1. p \in ProcStates
    BY DEF ProcStates
  <2> HIDE DEF p
  <2>2. n \in Volatile /\ n.proc[a] = p /\ n.pgen = mem[t].pgen
    BY <2>1, TaskFacts, ProcStep
  <2>3. mem' = [mem EXCEPT ![t] = n]
    BY TaskFacts DEF LaunchAccepted, p
  <2> QED
    BY <2>2, <2>3
<1>4. db' = [db EXCEPT ![t] = j]
  BY DEF LaunchAccepted
<1> HIDE DEF k, n
<1>5. Keeps(db[t], j) /\ j.sel = a /\ j.gen = db[t].gen /\ j.att[a] = "running"
  BY <1>2, FailDispatchKeeps, KeepsCompose
<1> HIDE DEF j
<1>6. Owned(j, n)
  BY <1>1, <1>3, <1>5 DEF Owned
<1> QED
  BY <1>3, <1>4, <1>5, <1>6, OneTaskStep

LEMMA LaunchRejectedStep ==
    ASSUME IInv, NEW t \in Tasks, NEW a \in Attempts, LaunchRejected(t, a)
    PROVE  Done
<1> DEFINE n == [mem[t] EXCEPT !.proc[a] = "stopping"]
<1>1. /\ n \in Volatile /\ n.pgen = mem[t].pgen /\ mem[t].proc[a] = "starting"
      /\ \A b \in Attempts : b # a => n.proc[b] = mem[t].proc[b]
      /\ mem' = [mem EXCEPT ![t] = n] /\ UNCHANGED db
  BY TaskFacts, ProcStep DEF LaunchRejected, ProcStates, Volatile
<1> HIDE DEF n
<1>2. Owned(db[t], n)
  BY <1>1, TaskFacts, OwnedElsewhere
<1> QED
  BY <1>1, <1>2, MemoryStep

LEMMA RejectKilledStep ==
    ASSUME IInv, NEW t \in Tasks, NEW a \in Attempts, RejectKilled(t, a)
    PROVE  Done
<1> DEFINE n == [mem[t] EXCEPT !.proc[a] = "none"]
           j == FailDispatch(db[t], a)
<1>1. /\ n \in Volatile /\ n.pgen = mem[t].pgen /\ mem[t].proc[a] = "stopping"
      /\ \A b \in Attempts : b # a => n.proc[b] = mem[t].proc[b]
      /\ mem' = [mem EXCEPT ![t] = n] /\ db' = [db EXCEPT ![t] = j]
  BY TaskFacts, ProcStep DEF RejectKilled, ProcStates, Volatile
<1> HIDE DEF n
<1>2. Owned(db[t], n)
  BY <1>1, TaskFacts, OwnedElsewhere
<1>3. Keeps(db[t], j) /\ Owned(j, n)
  BY <1>2, TaskFacts, FailDispatchKeeps, OwnedSame
<1> HIDE DEF j
<1> QED
  BY <1>1, <1>3, OneTaskStep

LEMMA LaunchThrowsStep ==
    ASSUME IInv, NEW t \in Tasks, NEW a \in Attempts, LaunchThrows(t, a)
    PROVE  Done
<1>1. CASE mem' = [mem EXCEPT ![t].proc[a] = "none"] /\ UNCHANGED db
  <2> DEFINE n == [mem[t] EXCEPT !.proc[a] = "none"]
  <2>1. /\ n \in Volatile /\ n.pgen = mem[t].pgen /\ mem[t].proc[a] = "starting"
        /\ \A b \in Attempts : b # a => n.proc[b] = mem[t].proc[b]
        /\ mem' = [mem EXCEPT ![t] = n]
    BY <1>1, TaskFacts, ProcStep DEF LaunchThrows, ProcStates, Volatile
  <2> HIDE DEF n
  <2>2. Owned(db[t], n)
    BY <2>1, TaskFacts, OwnedElsewhere
  <2> QED
    BY <1>1, <2>1, <2>2, MemoryStep
<1>2. CASE /\ mem' = [mem EXCEPT ![t].proc[a] = "failing"]
           /\ db' = [db EXCEPT ![t] = FailDispatch(@, a)]
  <2> DEFINE n == [mem[t] EXCEPT !.proc[a] = "failing"]
             j == FailDispatch(db[t], a)
  <2>1. /\ n \in Volatile /\ n.pgen = mem[t].pgen /\ mem[t].proc[a] = "starting"
        /\ \A b \in Attempts : b # a => n.proc[b] = mem[t].proc[b]
        /\ mem' = [mem EXCEPT ![t] = n] /\ db' = [db EXCEPT ![t] = j]
    BY <1>2, TaskFacts, ProcStep DEF LaunchThrows, ProcStates, Volatile
  <2> HIDE DEF n
  <2>2. Owned(db[t], n)
    BY <2>1, TaskFacts, OwnedElsewhere
  <2>3. Keeps(db[t], j) /\ Owned(j, n)
    BY <2>2, TaskFacts, FailDispatchKeeps, OwnedSame
  <2> HIDE DEF j
  <2> QED
    BY <2>1, <2>3, OneTaskStep
<1> QED
  BY <1>1, <1>2 DEF LaunchThrows

\* The end of a process, reported for attempt a: accepted when the task was
\* its own, so that a running task is still owned afterwards.
LEMMA ReportStep ==
    ASSUME IInv, NEW t \in Tasks, NEW a \in Attempts, NEW o \in Outcomes,
           NEW d \in [Tasks -> Durable],
           \A u \in Tasks : u # t => d[u] = db[u],
           Keeps(db[t], d[t]), Owned(d[t], mem[t]),
           d[t].att = db[t].att,
           Respond(d, [mem EXCEPT ![t].proc[a] = "none"], t, a, mem[t].pgen[a], o)
    PROVE  Done
<1> DEFINE n == [mem[t] EXCEPT !.proc[a] = "none"]
           m == [mem EXCEPT ![t].proc[a] = "none"]
<1>1. /\ n \in Volatile /\ n.pgen = mem[t].pgen
      /\ \A b \in Attempts : b # a => n.proc[b] = mem[t].proc[b]
      /\ m = [mem EXCEPT ![t] = n] /\ m \in [Tasks -> Volatile]
      /\ m[t] = n
      /\ \A u \in Tasks : u # t => m[u] = mem[u]
  <2>1. /\ n \in Volatile /\ n.pgen = mem[t].pgen
        /\ \A b \in Attempts : b # a => n.proc[b] = mem[t].proc[b]
    <3>1. mem[t] \in Volatile /\ "none" \in ProcStates
      BY TaskFacts DEF ProcStates
    <3> QED
      BY <3>1, ProcStep
  <2>2. m = [mem EXCEPT ![t] = n]
    BY TaskFacts
  <2> HIDE DEF n, m
  <2> QED
    BY <2>1, <2>2, TaskFacts
<1> HIDE DEF n, m
<1>2. \A u \in Tasks : Keeps(db[u], d[u]) /\ Sound(d[u]) /\ Owned(d[u], mem[u])
  BY KeepsSelf DEF IInv, Keeps
<1>3. /\ db' \in [Tasks -> Durable] /\ mem' \in [Tasks -> Volatile]
      /\ \A u \in Tasks :
           /\ Keeps(d[u], db'[u])
           /\ db'[u] = d[u] \/ db'[u].status # "running"
           /\ mem'[u].proc = m[u].proc /\ mem'[u].pgen = m[u].pgen
      /\ Accepts(d[t], a, mem[t].pgen[a]) => db'[t].status # "running"
  <2>1. Respond(d, m, t, a, mem[t].pgen[a], o)
    BY DEF m
  <2>2. m \in [Tasks -> Volatile] /\ \A u \in Tasks : Sound(d[u])
    BY <1>1, <1>2
  <2> QED
    BY <2>1, <2>2, RespondStep
<1>4. ASSUME NEW u \in Tasks PROVE Owned(db'[u], mem'[u])
  <2>1. CASE db'[u].status # "running"
    BY <2>1 DEF Owned
  <2>2. CASE db'[u] = d[u] /\ u # t
    BY <1>1, <1>2, <1>3, <2>2 DEF Owned
  <2>3. CASE db'[u] = d[u] /\ u = t /\ d[t].status = "running"
    <3>1. ~Accepts(d[t], a, mem[t].pgen[a])
      BY <1>3, <2>3
    <3>2. CASE a # d[t].sel
      <4>1. d[t].sel \in Attempts
        BY DEF Durable
      <4>2. /\ mem'[t].proc[d[t].sel] = mem[t].proc[d[t].sel]
            /\ mem'[t].pgen = mem[t].pgen
        BY <1>1, <1>3, <3>2, <4>1
      <4> QED
        BY <1>2, <2>3, <4>2 DEF Owned
    <3>3. CASE a = d[t].sel
      BY <1>2, <2>3, <3>1, <3>3 DEF Owned, Accepts, Executable
    <3> QED
      BY <3>2, <3>3
  <2> QED
    BY <1>3, <2>1, <2>2, <2>3
<1>5. \A u \in Tasks : Keeps(db[u], db'[u])
  BY <1>2, <1>3, KeepsCompose
<1> QED
  BY <1>3, <1>4, <1>5, ManyTasksStep

LEMMA FailureReportedStep ==
    ASSUME IInv, NEW t \in Tasks, NEW a \in Attempts, FailureReported(t, a)
    PROVE  Done
<1>1. Respond(db, [mem EXCEPT ![t].proc[a] = "none"], t, a, mem[t].pgen[a], "failed")
  BY DEF FailureReported
<1>2. "failed" \in Outcomes
  BY DEF Outcomes
<1>3. Keeps(db[t], db[t])
  BY TaskFacts, KeepsSelf
<1> QED
  BY <1>1, <1>2, <1>3, TaskFacts, ReportStep

LEMMA ResourceLimitStep ==
    ASSUME IInv, NEW t \in Tasks, NEW a \in Attempts, ResourceLimit(t, a)
    PROVE  Done
<1> DEFINE d == [db EXCEPT ![t] = Defer(db[t])]
           n == [mem[t] EXCEPT !.proc[a] = "none", !.parked = TRUE]
<1>1. Keeps(db[t], Defer(db[t])) /\ Defer(db[t]).status = "queued"
  BY TaskFacts, DeferKeeps DEF ResourceLimit
<1>2. /\ \A u \in Tasks : Keeps(db[u], d[u]) /\ Sound(d[u])
      /\ d[t].status = "queued"
      /\ \A u \in Tasks : u # t => d[u] = db[u]
  BY <1>1, KeepsSelf DEF IInv, TypeOK, Keeps
<1>3. Drain(d, Tasks \ {t}, {})
  BY DEF ResourceLimit
<1>4. mem' \in [Tasks -> Volatile] /\ \A u \in Tasks : u # t => mem'[u] = mem[u]
  <2>1. n \in Volatile
    BY TaskFacts DEF Volatile, ProcStates
  <2>2. mem' = [mem EXCEPT ![t] = n]
    BY TaskFacts DEF ResourceLimit, Volatile
  <2> HIDE DEF n
  <2> QED
    BY <2>1, <2>2, TaskFacts
<1> HIDE DEF d, n
<1>5. /\ db' \in [Tasks -> Durable]
      /\ \A u \in Tasks : /\ Keeps(d[u], db'[u])
                          /\ db'[u] = d[u] \/ db'[u].status = "queued"
  BY <1>2, <1>3, DrainStep
<1>6. \A u \in Tasks : Keeps(db[u], db'[u])
  BY <1>2, <1>5, KeepsCompose
<1>7. \A u \in Tasks : Owned(db'[u], mem'[u])
  BY <1>2, <1>4, <1>5 DEF IInv, Owned
<1> QED
  BY <1>4, <1>5, <1>6, <1>7, ManyTasksStep

\* Writes of the attempt lease.
LEMMA LeaseStep ==
    ASSUME IInv, NEW t \in Tasks, NEW l \in BOOLEAN,
           db' = [db EXCEPT ![t].lease = l], UNCHANGED mem
    PROVE  Done
<1> DEFINE k == db[t]
           j == [k EXCEPT !.lease = l]
<1>1. /\ j \in Durable /\ j.status = k.status /\ j.sel = k.sel /\ j.gen = k.gen
      /\ j.att = k.att /\ j.row = k.row
      /\ j.prompted = k.prompted /\ j.preserved = k.preserved
  BY TaskFacts DEF Durable
<1>2. db' = [db EXCEPT ![t] = j]
  OBVIOUS
<1> HIDE DEF j
<1>3. Keeps(k, j) /\ Owned(j, mem[t])
  BY <1>1, TaskFacts, FieldsKeep, OwnedSame
<1> QED
  BY <1>2, <1>3, RecordStep

LEMMA CompletesStep ==
    ASSUME IInv, NEW t \in Tasks, NEW a \in Attempts, NEW o \in Outcomes, Completes(t, a, o)
    PROVE  Done
<1> DEFINE j == EndRow(db[t], a, "completed")
           d == [db EXCEPT ![t] = j]
           n == [mem[t] EXCEPT !.proc[a] = "none"]
<1>1. /\ Keeps(db[t], j) /\ Owned(j, mem[t])
      /\ j.att = db[t].att /\ j.sel = db[t].sel /\ j.gen = db[t].gen
  BY TaskFacts, EndRowKeeps, OwnedSame DEF RowStates
<1>2. /\ d \in [Tasks -> Durable] /\ d[t] = j
      /\ \A u \in Tasks : u # t => d[u] = db[u]
  BY <1>1, TaskFacts DEF Keeps, Sound
<1>3. CASE LaunchStale(t, a) /\ db' = d /\ mem' = [mem EXCEPT ![t].proc[a] = "none"]
  <2>1. mem' = [mem EXCEPT ![t] = n]
    BY <1>3, TaskFacts DEF Volatile
  <2>2. "none" \in ProcStates
    BY DEF ProcStates
  <2>3. /\ n \in Volatile /\ n.pgen = mem[t].pgen
        /\ \A b \in Attempts : b # a => n.proc[b] = mem[t].proc[b]
    BY <2>2, TaskFacts, ProcStep
  <2> HIDE DEF n, j
  <2>4. Owned(j, n)
    <3>1. CASE a = j.sel
      BY <1>1, <1>3, <3>1 DEF LaunchStale, Owned
    <3>2. CASE a # j.sel
      BY <1>1, <2>3, <3>2, TaskFacts DEF Owned, Durable
    <3> QED
      BY <3>1, <3>2
  <2> QED
    BY <1>1, <1>3, <2>1, <2>3, <2>4, OneTaskStep
<1>4. CASE Respond(d, [mem EXCEPT ![t].proc[a] = "none"], t, a, mem[t].pgen[a], o)
  <2> HIDE DEF d, j
  <2> QED
    BY <1>1, <1>2, <1>4, ReportStep
<1> QED
  BY <1>3, <1>4 DEF Completes

LEMMA ExecutingStallStep ==
    ASSUME IInv, NEW t \in Tasks, ExecutingStall(t)
    PROVE  Done
<1>1. Respond(db, mem, t, db[t].sel, db[t].gen, "failed") /\ "failed" \in Outcomes
  BY DEF ExecutingStall, Outcomes
<1>2. /\ db' \in [Tasks -> Durable] /\ mem' \in [Tasks -> Volatile]
      /\ \A u \in Tasks :
           /\ Keeps(db[u], db'[u])
           /\ db'[u] = db[u] \/ db'[u].status # "running"
           /\ mem'[u].proc = mem[u].proc /\ mem'[u].pgen = mem[u].pgen
  BY <1>1, RespondStep DEF IInv, TypeOK
<1>3. \A u \in Tasks : Owned(db'[u], mem'[u])
  BY <1>2 DEF IInv, Owned
<1> QED
  BY <1>2, <1>3, ManyTasksStep

LEMMA ReclaimOrphanStep ==
    ASSUME IInv, NEW t \in Tasks, NEW a \in Attempts, ReclaimOrphan(t, a)
    PROVE  Done
<1> DEFINE n == [mem[t] EXCEPT !.proc[a] = "killed"]
<1>1. /\ n \in Volatile /\ n.pgen = mem[t].pgen /\ a # db[t].sel
      /\ \A b \in Attempts : b # a => n.proc[b] = mem[t].proc[b]
      /\ mem' = [mem EXCEPT ![t] = n] /\ UNCHANGED db
  <2>1. "killed" \in ProcStates /\ mem[t] \in Volatile
    BY TaskFacts DEF ProcStates
  <2>2. /\ n \in Volatile /\ n.pgen = mem[t].pgen
        /\ \A b \in Attempts : b # a => n.proc[b] = mem[t].proc[b]
    BY <2>1, ProcStep
  <2>3. a # db[t].sel /\ mem' = [mem EXCEPT ![t] = n] /\ UNCHANGED db
    BY TaskFacts DEF ReclaimOrphan, Volatile
  <2> QED
    BY <2>2, <2>3
<1> HIDE DEF n
<1>2. Owned(db[t], n)
  BY <1>1, TaskFacts DEF Owned, Durable
<1> QED
  BY <1>1, <1>2, MemoryStep

LEMMA KillDoneStep ==
    ASSUME IInv, NEW t \in Tasks, NEW a \in Attempts, KillDone(t, a)
    PROVE  Done
<1> DEFINE n == [mem[t] EXCEPT !.proc[a] = "killed"]
<1>1. /\ n \in Volatile /\ n.pgen = mem[t].pgen /\ mem[t].proc[a] = "killing"
      /\ \A b \in Attempts : b # a => n.proc[b] = mem[t].proc[b]
      /\ mem' = [mem EXCEPT ![t] = n] /\ UNCHANGED db
  BY TaskFacts, ProcStep DEF KillDone, ProcStates, Volatile
<1> HIDE DEF n
<1>2. Owned(db[t], n)
  BY <1>1, TaskFacts, OwnedElsewhere
<1> QED
  BY <1>1, <1>2, MemoryStep

LEMMA KillTyped ==
    ASSUME NEW t \in Tasks, IInv, NEW v \in Victims(t)
    PROVE  v \in 0 .. MaxAttempt /\ Kill(mem[t].proc, v) \in [Attempts -> ProcStates]
<1>1. mem[t].proc \in [Attempts -> ProcStates] /\ db[t].sel \in Attempts
  BY TaskFacts DEF Volatile, Durable
<1>2. v \in 0 .. MaxAttempt
  BY <1>1, BoundsAssumption DEF Victims, Attempts
<1>3. Kill(mem[t].proc, v) \in [Attempts -> ProcStates]
  BY <1>1 DEF Kill, ProcStates
<1> QED
  BY <1>2, <1>3

LEMMA CancelStep == ASSUME IInv, NEW t \in Tasks, CancelTask(t) PROVE Done
<1> DEFINE r == AbandonRows(db[t])
           j == MarkCancelled(r)
<1>1. PICK v \in Victims(t) :
        mem' = [mem EXCEPT ![t].parked = FALSE, ![t].proc = Kill(@, v)]
  BY DEF CancelTask
<1> DEFINE n == [mem[t] EXCEPT !.parked = FALSE, !.proc = Kill(mem[t].proc, v)]
<1>2. mem' = [mem EXCEPT ![t] = n] /\ n \in Volatile
  BY <1>1, TaskFacts, KillTyped DEF Volatile
<1>3. Keeps(db[t], r) /\ Sound(r)
  BY TaskFacts, AbandonRowsKeeps DEF Keeps
<1> HIDE DEF n, r
<1>4. Keeps(db[t], j) /\ j.status # "running"
  BY <1>3, MarkCancelledKeeps, KeepsCompose
<1>5. db' = [db EXCEPT ![t] = j]
  BY DEF CancelTask, r
<1> HIDE DEF j
<1>6. Owned(j, n)
  BY <1>4 DEF Owned
<1> QED
  BY <1>2, <1>4, <1>5, <1>6, OneTaskStep

LEMMA ProvideInputStep == ASSUME IInv, NEW t \in Tasks, ProvideInput(t) PROVE Done
<1> DEFINE k == db[t]
           f == [k.att EXCEPT ![k.sel] = "running"]
           j == [k EXCEPT !.status = "running", !.att = f]
<1>1. /\ Sound(k) /\ Owned(k, mem[t]) /\ k.status = "needs_input"
      /\ k.sel \in Attempts /\ k.att \in [Attempts -> AttemptStatuses]
  BY TaskFacts DEF ProvideInput, Durable
<1>2. db' = [db EXCEPT ![t] = j] /\ UNCHANGED mem
  BY TaskFacts DEF ProvideInput, Durable
<1>3. /\ f \in [Attempts -> AttemptStatuses] /\ f[k.sel] = "running"
      /\ \A a \in Attempts : a # k.sel => f[a] = k.att[a]
  BY <1>1 DEF AttemptStatuses
<1> HIDE DEF f
<1>4. /\ j \in Durable /\ j.status = "running" /\ j.sel = k.sel
      /\ j.att = f /\ j.row = k.row /\ j.prompted = k.prompted
  BY <1>1, <1>3 DEF Sound, Durable, Statuses
<1> HIDE DEF j
<1>5. \A a \in Attempts : a < k.sel \/ a > k.sel => a # k.sel
  BY <1>1, BoundsAssumption DEF Attempts
<1>6. k.prompted /\ k.att[k.sel] \notin Ended
  BY <1>1 DEF Sound, Lineage, Ended
<1>7. Keeps(k, j) /\ Owned(j, mem[t])
  BY <1>1, <1>3, <1>4, <1>5, <1>6 DEF Keeps, Sound, Lineage, Evolves, Ended, Owned
<1> QED
  BY <1>2, <1>7, RecordStep

LEMMA BeginRetryStep == ASSUME IInv, NEW t \in Tasks, BeginRetry(t) PROVE Done
<1> DEFINE j == MarkCancelled(db[t])
           p == mem[t].parked /\ db[t].status = "completed"
<1>1. PICK v \in Victims(t) :
        mem' = [mem EXCEPT ![t].retry = TRUE, ![t].victim = v, ![t].proc = Kill(@, v),
                           ![t].parked = @ /\ db[t].status = "completed"]
  BY DEF BeginRetry
<1> DEFINE n == [mem[t] EXCEPT !.retry = TRUE, !.victim = v,
                               !.proc = Kill(mem[t].proc, v), !.parked = p]
<1>2. mem' = [mem EXCEPT ![t] = n]
  BY <1>1, TaskFacts DEF Volatile
<1>3. n \in Volatile
  <2>1. p \in BOOLEAN
    BY TaskFacts DEF Volatile
  <2> HIDE DEF p
  <2> QED
    BY <2>1, TaskFacts, KillTyped DEF Volatile
<1> HIDE DEF n
<1>4. Keeps(db[t], j) /\ j.status # "running"
  BY TaskFacts, MarkCancelledKeeps
<1>5. db' = [db EXCEPT ![t] = j]
  BY DEF BeginRetry
<1> HIDE DEF j
<1>6. Owned(j, n)
  BY <1>4 DEF Owned
<1> QED
  BY <1>2, <1>3, <1>4, <1>5, <1>6, OneTaskStep

LEMMA FinishRetryStep == ASSUME IInv, NEW t \in Tasks, FinishRetry(t) PROVE Done
<1> DEFINE d == [db EXCEPT ![t] = Reset(db[t])]
           n == [mem[t] EXCEPT !.retry = FALSE, !.victim = 0, !.parked = FALSE]
<1>1. Keeps(db[t], Reset(db[t])) /\ Reset(db[t]).status = "pending"
  BY TaskFacts, ResetKeeps DEF FinishRetry
<1>2. /\ \A u \in Tasks : Keeps(db[u], d[u]) /\ Sound(d[u])
      /\ d[t].status = "pending"
      /\ \A u \in Tasks : u # t => d[u] = db[u]
  BY <1>1, KeepsSelf DEF IInv, TypeOK, Keeps
<1>3. Drain(d, Tasks, {t})
  BY DEF FinishRetry
<1>4. mem' \in [Tasks -> Volatile] /\ \A u \in Tasks : u # t => mem'[u] = mem[u]
  <2>1. n \in Volatile
    <3>1. 0 \in 0 .. MaxAttempt
      BY BoundsAssumption
    <3> QED
      BY <3>1, TaskFacts DEF Volatile
  <2>2. mem' = [mem EXCEPT ![t] = n]
    BY TaskFacts DEF FinishRetry, Volatile
  <2> HIDE DEF n
  <2> QED
    BY <2>1, <2>2, TaskFacts
<1> HIDE DEF d, n
<1>5. /\ db' \in [Tasks -> Durable]
      /\ \A u \in Tasks : /\ Keeps(d[u], db'[u])
                          /\ db'[u] = d[u] \/ db'[u].status = "queued"
  BY <1>2, <1>3, DrainStep
<1>6. \A u \in Tasks : Keeps(db[u], db'[u])
  BY <1>2, <1>5, KeepsCompose
<1>7. \A u \in Tasks : Owned(db'[u], mem'[u])
  BY <1>2, <1>4, <1>5 DEF IInv, Owned
<1> QED
  BY <1>4, <1>5, <1>6, <1>7, ManyTasksStep

LEMMA NoRuntimeTyped == NoRuntime \in Volatile
<1>1. 0 \in 0 .. MaxAttempt /\ 0 \in Nat /\ "none" \in ProcStates
  BY BoundsAssumption DEF ProcStates
<1> QED
  BY <1>1 DEF NoRuntime, Volatile

\* A boot leaves no task running that it has not preserved.
LEMMA RestartStep == ASSUME IInv, NEW reclaimed \in BOOLEAN, Restart(reclaimed) PROVE Done
<1> DEFINE lost == {t \in Tasks : InFlight(db[t])}
           late == {t \in lost : Startable(db[t])}
           kept == [t \in Tasks |-> IF t \in lost THEN [db[t] EXCEPT !.preserved = TRUE]
                                    ELSE db[t]]
           left(s) == [t \in Tasks |-> IF t \in lost \ s THEN Settle(db[t], "failed") ELSE db[t]]
<1>1. mem' = [t \in Tasks |-> NoRuntime] /\ mem' \in [Tasks -> Volatile]
  BY NoRuntimeTyped DEF Restart
<1>2. ASSUME NEW d, Drain(d, Tasks, Tasks),
             \A t \in Tasks : /\ Keeps(db[t], d[t])
                              /\ d[t].status # "running" \/ d[t].preserved
      PROVE  Done
  <2>1. \A t \in Tasks : Sound(d[t])
    BY <1>2 DEF Keeps
  <2>2. /\ db' \in [Tasks -> Durable]
        /\ \A t \in Tasks : /\ Keeps(d[t], db'[t])
                            /\ db'[t] = d[t] \/ db'[t].status = "queued"
    BY <1>2, <2>1, DrainStep
  <2>3. \A t \in Tasks : Keeps(db[t], db'[t])
    BY <1>2, <2>2, KeepsCompose
  <2>4. \A t \in Tasks : Owned(db'[t], mem'[t])
    BY <1>2, <2>2 DEF Owned
  <2> QED
    BY <1>1, <2>2, <2>3, <2>4, ManyTasksStep
<1>3. CASE Drain(kept, Tasks, Tasks)
  <2>1. ASSUME NEW t \in Tasks
        PROVE  /\ Keeps(db[t], kept[t])
               /\ kept[t].status # "running" \/ kept[t].preserved
    <3> DEFINE j == [db[t] EXCEPT !.preserved = TRUE]
    <3>1. /\ j \in Durable /\ j.status = db[t].status /\ j.sel = db[t].sel
          /\ j.att = db[t].att /\ j.row = db[t].row /\ j.prompted = db[t].prompted
          /\ j.preserved
      BY TaskFacts DEF Durable
    <3> HIDE DEF j
    <3>2. Keeps(db[t], j)
      BY <3>1, TaskFacts, FieldsKeep
    <3>3. CASE t \in lost
      BY <3>1, <3>2, <3>3 DEF j
    <3>4. CASE t \notin lost
      BY <3>4, TaskFacts, KeepsSelf DEF InFlight
    <3> QED
      BY <3>3, <3>4
  <2> HIDE DEF kept
  <2> QED
    BY <1>2, <1>3, <2>1
<1>4. ASSUME NEW s \in SUBSET late, Drain(left(s), Tasks, Tasks)
      PROVE  Done
  <2>1. ASSUME NEW t \in Tasks
        PROVE  /\ Keeps(db[t], left(s)[t])
               /\ left(s)[t].status # "running" \/ left(s)[t].preserved
    <3>1. CASE t \in lost \ s
      <4>1. db[t].status \in {"pending", "queued", "running"} /\ "failed" \in Outcomes
        BY <3>1 DEF InFlight, Outcomes
      <4>2. Keeps(db[t], Settle(db[t], "failed")) /\ Settle(db[t], "failed").status = "failed"
        BY <4>1, TaskFacts, SettleKeeps
      <4> QED
        BY <3>1, <4>2
    <3>2. CASE t \in s
      BY <3>2, TaskFacts, KeepsSelf DEF Startable
    <3>3. CASE t \notin lost
      BY <3>3, TaskFacts, KeepsSelf DEF InFlight
    <3> QED
      BY <3>1, <3>2, <3>3
  <2> HIDE DEF left
  <2> QED
    BY <1>2, <1>4, <2>1
<1> QED
  BY <1>3, <1>4 DEF Restart

LEMMA StutterStep == ASSUME IInv, UNCHANGED vars PROVE Done
<1>1. db' = db /\ mem' = mem
  BY DEF vars
<1>2. \A t \in Tasks : Keeps(db[t], db'[t]) /\ Owned(db'[t], mem'[t])
  BY <1>1, KeepsSelf DEF IInv
<1> QED
  BY <1>1, <1>2, ManyTasksStep DEF IInv, TypeOK

-----------------------------------------------------------------------------
(* The theorems.                                                           *)

LEMMA InitSound == Init => IInv
<1> SUFFICES ASSUME Init PROVE IInv
  OBVIOUS
<1> DEFINE k == [status |-> "pending", phase |-> "none", sel |-> 1, gen |-> 0,
                 preserved |-> FALSE, lease |-> FALSE, prompted |-> FALSE,
                 att |-> [a \in Attempts |-> IF a = 1 THEN "pending" ELSE "none"],
                 row |-> [a \in Attempts |-> NoRow]]
<1>1. 1 \in Attempts /\ \A a \in Attempts : a \in Nat /\ ~(a < 1)
  BY BoundsAssumption DEF Attempts
<1>2. NoRow \in Row /\ ~NoRow.ack
  BY DEF NoRow, Row, RowStates
<1>3. k \in Durable
  <2>1. 0 \in Nat /\ "pending" \in Statuses /\ {"pending", "none"} \subseteq AttemptStatuses
    BY DEF Statuses, AttemptStatuses
  <2> QED
    BY <1>1, <1>2, <2>1 DEF Durable
<1>4. Lineage(k)
  BY <1>1, <1>2 DEF Lineage
<1>5. Owned(k, NoRuntime)
  BY DEF Owned
<1>6. db = [t \in Tasks |-> k] /\ mem = [t \in Tasks |-> NoRuntime]
  BY DEF Init
<1> HIDE DEF k
<1> QED
  BY <1>3, <1>4, <1>5, <1>6, NoRuntimeTyped DEF IInv, TypeOK, Sound

LEMMA NextSound == IInv /\ [Next]_vars => Done
<1> SUFFICES ASSUME IInv, [Next]_vars PROVE Done
  OBVIOUS
<1>1. CASE TopUp
  BY <1>1, TopUpStep
<1>2. ASSUME NEW t \in Tasks, TaskStep(t) PROVE Done
  <2>1. CASE BackoffElapses(t)
    BY <2>1, BackoffStep
  <2>2. CASE Heartbeat(t)
    BY <2>2, LeaseStep DEF Heartbeat
  <2>3. CASE LeaseExpires(t)
    BY <2>3, LeaseStep DEF LeaseExpires
  <2>4. CASE ExecutingStall(t)
    BY <2>4, ExecutingStallStep
  <2>5. CASE CancelTask(t)
    BY <2>5, CancelStep
  <2>6. CASE ProvideInput(t)
    BY <2>6, ProvideInputStep
  <2>7. CASE BeginRetry(t)
    BY <2>7, BeginRetryStep
  <2>8. CASE FinishRetry(t)
    BY <2>8, FinishRetryStep
  <2> QED
    BY <1>2, <2>1, <2>2, <2>3, <2>4, <2>5, <2>6, <2>7, <2>8 DEF TaskStep
<1>3. ASSUME NEW t \in Tasks, NEW a \in Attempts, AttemptStep(t, a) PROVE Done
  <2>1. CASE Claim(t, a)
    BY <2>1, ClaimStep
  <2>2. CASE FenceExpires(t, a)
    BY <2>2, FenceStep
  <2>3. CASE AbandonStuck(t, a)
    BY <2>3, AbandonStuckStep
  <2>4. CASE Reap(t, a)
    BY <2>4, ReapStep
  <2>5. CASE \E usable \in BOOLEAN : LaunchAccepted(t, a, usable)
    BY <2>5, LaunchAcceptedStep
  <2>6. CASE LaunchRejected(t, a)
    BY <2>6, LaunchRejectedStep
  <2>7. CASE RejectKilled(t, a)
    BY <2>7, RejectKilledStep
  <2>8. CASE LaunchThrows(t, a)
    BY <2>8, LaunchThrowsStep
  <2>9. CASE FailureReported(t, a)
    BY <2>9, FailureReportedStep
  <2>10. CASE ResourceLimit(t, a)
    BY <2>10, ResourceLimitStep
  <2>11. CASE \E outcome \in Outcomes : Completes(t, a, outcome)
    BY <2>11, CompletesStep
  <2>12. CASE ReclaimOrphan(t, a)
    BY <2>12, ReclaimOrphanStep
  <2>13. CASE KillDone(t, a)
    BY <2>13, KillDoneStep
  <2> QED
    BY <1>3, <2>1, <2>2, <2>3, <2>4, <2>5, <2>6, <2>7, <2>8, <2>9, <2>10, <2>11,
       <2>12, <2>13 DEF AttemptStep
<1>4. CASE \E reclaimed \in BOOLEAN : Restart(reclaimed)
  BY <1>4, RestartStep
<1>5. CASE UNCHANGED vars
  BY <1>5, StutterStep
<1> QED
  BY <1>1, <1>2, <1>3, <1>4, <1>5 DEF Next

\* The inductive invariant holds in every reachable state.
THEOREM LaunchInvariant == Spec => []IInv
<1>1. IInv /\ [Next]_vars => IInv'
  BY NextSound DEF Done
<1> QED
  BY InitSound, <1>1, PTL DEF Spec

\* The records keep their shape under every handler.
THEOREM LaunchTypeCorrect == Spec => []TypeOK
<1>1. IInv => TypeOK
  BY DEF IInv
<1> QED
  BY LaunchInvariant, <1>1, PTL

\* No attempt but the selected one is active, whatever mints attempts.
THEOREM LaunchOnlySelectedActive == Spec => []OnlySelectedActive
<1>1. IInv => OnlySelectedActive
  <2> SUFFICES ASSUME IInv, NEW t \in Tasks, NEW a \in Attempts, a # db[t].sel
               PROVE  db[t].att[a] \notin Active
    BY DEF OnlySelectedActive
  <2>1. Lineage(db[t]) /\ db[t].sel \in Attempts
    BY DEF IInv, Sound, Durable
  <2>2. a < db[t].sel \/ a > db[t].sel
    BY <2>1, BoundsAssumption DEF Attempts
  <2> QED
    BY <2>1, <2>2 DEF Lineage, Ended, Active
<1> QED
  BY LaunchInvariant, <1>1, PTL

\* A task shown as running is run by a process of its selected attempt.
THEOREM LaunchRunningIsOwned == Spec => []RunningIsOwned
<1>1. IInv => RunningIsOwned
  BY DEF IInv, Owned, RunningIsOwned
<1> QED
  BY LaunchInvariant, <1>1, PTL

\* The outcome of an attempt is never overwritten.
THEOREM LaunchOutcomesAreFinal == Spec => OutcomesAreFinal
<1>1. IInv /\ [Next]_vars =>
        [\A t \in Tasks, a \in Attempts :
            db[t].att[a] \in {"completed", "failed", "superseded"} =>
              db'[t].att[a] = db[t].att[a]]_vars
  BY NextSound DEF Done, Evolves, Ended
<1> QED
  BY LaunchInvariant, <1>1, PTL DEF Spec, OutcomesAreFinal

\* The outbox row of an accepted launch is never queued again.
THEOREM LaunchAcceptedNeverRequeued == Spec => AcceptedNeverRequeued
<1>1. IInv /\ [Next]_vars =>
        [\A t \in Tasks, a \in Attempts :
            db[t].row[a].ack => db'[t].row[a].state # "enqueued"]_vars
  <2> SUFFICES ASSUME IInv, [Next]_vars, NEW t \in Tasks, NEW a \in Attempts, db[t].row[a].ack
               PROVE  db'[t].row[a].state # "enqueued"
    OBVIOUS
  <2>1. Evolves(db[t], db'[t]) /\ Lineage(db'[t])
    BY NextSound DEF Done, IInv, Sound
  <2> QED
    BY <2>1 DEF Evolves, Lineage
<1> QED
  BY LaunchInvariant, <1>1, PTL DEF Spec, AcceptedNeverRequeued

-----------------------------------------------------------------------------
(* Recovery: claims, ends, stuck leases and revivals.                      *)

Recoverable(k, m) ==
    k.status = "queued" /\ k.phase = "launching" /\ ~k.preserved =>
        \/ k.row[k.sel].state \in LiveRow
        \/ m.proc[k.sel] \in {"starting", "failing"}
        \/ "enqueue" \in Faults /\ k.row[k.sel] = NoRow

\* What the processes and the outbox row of the selected attempt have to do
\* with the task: they are of its generation, and a task that is not running
\* yet has at most a launch under way.
Kin(k, m) ==
    /\ \A a \in Attempts : a > k.sel => m.proc[a] = "none"
    /\ m.proc[k.sel] # "none" => m.pgen[k.sel] = k.gen
    /\ k.status \in {"pending", "queued"} => m.proc[k.sel] \in {"none", "starting", "failing"}
    /\ k.row[k.sel].state \in LiveRow => k.row[k.sel].gen = k.gen

Held(k, m) == Kin(k, m) /\ Recoverable(k, m)

\* Nothing is revived, and no row is given up as stuck.
Quiet(k, j) ==
    /\ StuckRows(j) = StuckRows(k)
    /\ k.status = "failed" => j.status = "failed"

\* Rows are only taken out of the outbox, or stay as they were.
Fades(k, j) ==
    \A a \in Attempts :
        j.row[a].state \in LiveRow => k.row[a].state \in LiveRow /\ j.row[a].gen = k.row[a].gen

LEMMA EndRowFades ==
    ASSUME NEW k, Sound(k), NEW a \in Attempts, NEW end \in RowStates
    PROVE  /\ Fades(k, EndRow(k, a, end))
           /\ end \in LiveRow /\ k.row[a].state \in LiveRow => EndRow(k, a, end).row[a].state = end
           /\ \A b \in Attempts : b # a => EndRow(k, a, end).row[b] = k.row[b]
           /\ end # "stuck" => StuckRows(EndRow(k, a, end)) = StuckRows(k)
<1>1. CASE k.row[a].state \notin LiveRow
  BY <1>1 DEF EndRow, Fades
<1>2. CASE k.row[a].state \in LiveRow
  <2> DEFINE r == [k.row EXCEPT ![a].state = end, ![a].expired = FALSE]
             j == EndRow(k, a, end)
  <2>1. k.row \in [Attempts -> Row] /\ j = [k EXCEPT !.row = r]
    BY <1>2 DEF EndRow, Sound, Durable
  <2>2. /\ r[a].state = end /\ r[a].gen = k.row[a].gen
        /\ \A b \in Attempts : b # a => r[b] = k.row[b]
    BY <2>1 DEF Row
  <2> HIDE DEF r
  <2>3. j.row = r
    BY <2>1 DEF Sound, Durable
  <2> HIDE DEF j
  <2>4. Fades(k, j)
    BY <1>2, <2>2, <2>3 DEF Fades
  <2>5. end # "stuck" => StuckRows(j) = StuckRows(k)
    BY <1>2, <2>2, <2>3 DEF StuckRows, LiveRow
  <2> QED
    BY <2>2, <2>3, <2>4, <2>5 DEF j
<1> QED
  BY <1>1, <1>2

LEMMA FailDispatchFades ==
    ASSUME NEW k, Sound(k), NEW a \in Attempts
    PROVE  /\ Fades(k, FailDispatch(k, a))
           /\ \A b \in Attempts : b # a => FailDispatch(k, a).row[b] = k.row[b]
           /\ StuckRows(FailDispatch(k, a)) = StuckRows(k)
BY EndRowFades DEF FailDispatch, RowStates

LEMMA AbandonRowsFades ==
    ASSUME NEW k, Sound(k)
    PROVE  /\ Fades(k, AbandonRows(k)) /\ StuckRows(AbandonRows(k)) = StuckRows(k)
           /\ AbandonRows(k).gen = k.gen
<1> DEFINE r == [a \in Attempts |->
                    IF k.row[a].state \in LiveRow
                    THEN [k.row[a] EXCEPT !.state = "abandoned", !.expired = FALSE]
                    ELSE k.row[a]]
           j == AbandonRows(k)
<1>1. \A a \in Attempts :
        IF k.row[a].state \in LiveRow THEN r[a].state = "abandoned" ELSE r[a] = k.row[a]
  BY DEF Sound, Durable, Row
<1>2. j.row = r /\ j.gen = k.gen
  BY DEF AbandonRows, Sound, Durable
<1> HIDE DEF r, j
<1>3. Fades(k, j)
  BY <1>1, <1>2 DEF Fades, LiveRow
<1>4. StuckRows(j) = StuckRows(k)
  BY <1>1, <1>2 DEF StuckRows, LiveRow
<1> QED
  BY <1>2, <1>3, <1>4 DEF j

\* The writes of an end leave lineage, generation and rows alone.
LEMMA EndFields ==
    ASSUME NEW k, Sound(k), NEW o \in Outcomes
    PROVE  /\ Settle(k, o).row = k.row /\ Settle(k, o).gen = k.gen
           /\ Settle(k, o).sel = k.sel /\ Settle(k, o).status = o
           /\ FailTask(k).row = k.row /\ FailTask(k).gen = k.gen
           /\ MarkCancelled(k).row = k.row /\ MarkCancelled(k).gen = k.gen
           /\ k.status = "failed" => FailTask(k).status = "failed" /\ MarkCancelled(k).status = "failed"
BY DEF Settle, FailTask, MarkCancelled, Sound, Durable

LEMMA StuckSame ==
    ASSUME NEW k, NEW j, j.row = k.row
    PROVE  StuckRows(j) = StuckRows(k) /\ Fades(k, j)
BY DEF StuckRows, Fades

\* A fresh attempt has neither a row nor a process.
LEMMA FreshHeld ==
    ASSUME NEW k, Sound(k), NEW m \in Volatile, Kin(k, m), MoreAttempts(k),
           NEW j, Sound(j), j.sel = k.sel + 1, j.phase = "none",
           j.row[j.sel] = NoRow
    PROVE  Held(j, m)
<1>1. k.sel \in Nat /\ j.sel \in Attempts /\ \A a \in Attempts : a \in Nat
  BY BoundsAssumption DEF Sound, Durable, Attempts
<1>2. \A a \in Attempts : a > j.sel \/ a = j.sel => m.proc[a] = "none"
  BY <1>1 DEF Kin
<1> QED
  BY <1>1, <1>2 DEF Held, Kin, Recoverable, NoRow, LiveRow

\* A task that has ended, or runs, keeps its processes and its rows.
LEMMA EndHeld ==
    ASSUME NEW k, Sound(k), NEW m, Kin(k, m),
           NEW j, j.sel = k.sel, j.gen = k.gen, j.status \notin {"pending", "queued"},
           Fades(k, j)
    PROVE  Held(j, m)
BY DEF Held, Kin, Recoverable, Fades, Sound, Durable
LEMMA NewAttemptFields ==
    ASSUME NEW k, Sound(k), MoreAttempts(k)
    PROVE  /\ NewAttempt(k).sel = k.sel + 1 /\ NewAttempt(k).row = k.row
           /\ NewAttempt(k).phase = "none" /\ ~NewAttempt(k).preserved
           /\ Prepare(k).sel = k.sel + 1 /\ Prepare(k).row = k.row
           /\ Prepare(k).phase = "none"
<1> DEFINE s == SelectFresh(k)
           n == NewAttempt(k)
<1>1. s \in Durable /\ s.sel = k.sel + 1 /\ s.row = k.row
  BY SelectFreshFields DEF Sound
<1>2. n = [s EXCEPT !.status = "pending", !.phase = "none", !.preserved = FALSE]
  BY DEF NewAttempt
<1>3. Prepare(k) = [n EXCEPT !.gen = k.gen + 1]
  BY DEF Prepare
<1> HIDE DEF s
<1>4. /\ n.sel = k.sel + 1 /\ n.row = k.row /\ n.phase = "none" /\ ~n.preserved
  BY <1>1, <1>2 DEF Durable
<1>5. n \in Durable
  BY NewAttemptKeeps DEF Keeps, Sound
<1> HIDE DEF n
<1>6. Prepare(k).sel = n.sel /\ Prepare(k).row = n.row /\ Prepare(k).phase = n.phase
  BY <1>3, <1>5 DEF Durable
<1> QED
  BY <1>4, <1>6 DEF n

LEMMA DeferFields ==
    ASSUME NEW k, Sound(k), MoreAttempts(k)
    PROVE  /\ Defer(k).sel = k.sel + 1 /\ Defer(k).row = AbandonRows(k).row
           /\ Defer(k).phase = "none" /\ Defer(k).status = "queued"
<1> DEFINE r == AbandonRows(k)
           s == SelectFresh(r)
<1>1. Sound(r) /\ MoreAttempts(r) /\ r.sel = k.sel
  BY AbandonRowsKeeps DEF Keeps, MoreAttempts
<1>2. Defer(k) = [s EXCEPT !.status = "queued", !.phase = "none"]
  BY DEF Defer
<1> HIDE DEF r
<1>3. s \in Durable /\ s.sel = k.sel + 1 /\ s.row = r.row
  BY <1>1, SelectFreshFields DEF Sound
<1> HIDE DEF s
<1> QED
  BY <1>2, <1>3 DEF Durable, r

\* The records with a fresh attempt are held by the same processes.
LEMMA FreshRecordsHeld ==
    ASSUME NEW k, Sound(k), NEW m \in Volatile, Kin(k, m), MoreAttempts(k)
    PROVE  /\ Held(NewAttempt(k), m) /\ StuckRows(NewAttempt(k)) = StuckRows(k)
           /\ Held(Prepare(k), m) /\ StuckRows(Prepare(k)) = StuckRows(k)
           /\ Held(Defer(k), m) /\ StuckRows(Defer(k)) = StuckRows(k)
           /\ Held(Reset(k), m) /\ StuckRows(Reset(k)) = StuckRows(k)
<1>1. k.sel + 1 \in Attempts /\ k.row[k.sel + 1] = NoRow
  BY BoundsAssumption DEF Sound, Durable, Lineage, MoreAttempts, Attempts
<1>2. /\ Sound(AbandonRows(k)) /\ AbandonRows(k).sel = k.sel
      /\ AbandonRows(k).row[k.sel + 1] = NoRow
      /\ MoreAttempts(AbandonRows(k)) /\ StuckRows(AbandonRows(k)) = StuckRows(k)
  <2>1. Sound(AbandonRows(k)) /\ AbandonRows(k).sel = k.sel
    BY AbandonRowsKeeps DEF Keeps
  <2>2. AbandonRows(k).row[k.sel + 1] = NoRow
    BY <1>1, <2>1 DEF Sound, Durable, Lineage, Attempts
  <2> QED
    BY <2>1, <2>2, AbandonRowsFades DEF MoreAttempts
<1>3. Held(NewAttempt(k), m) /\ StuckRows(NewAttempt(k)) = StuckRows(k)
  <2>1. Sound(NewAttempt(k))
    BY NewAttemptKeeps DEF Keeps
  <2> QED
    BY <1>1, <2>1, NewAttemptFields, FreshHeld, StuckSame
<1>4. Held(Prepare(k), m) /\ StuckRows(Prepare(k)) = StuckRows(k)
  <2>1. Sound(Prepare(k))
    BY PrepareKeeps DEF Keeps
  <2> QED
    BY <1>1, <2>1, NewAttemptFields, FreshHeld, StuckSame
<1>5. Held(Defer(k), m) /\ StuckRows(Defer(k)) = StuckRows(k)
  <2>1. Sound(Defer(k))
    BY DeferKeeps DEF Keeps
  <2>2. StuckRows(Defer(k)) = StuckRows(AbandonRows(k))
    BY DeferFields, StuckSame
  <2> QED
    BY <1>2, <2>1, <2>2, DeferFields, FreshHeld
<1>6. Held(Reset(k), m) /\ StuckRows(Reset(k)) = StuckRows(k)
  <2>1. Sound(Reset(k))
    BY ResetKeeps DEF Keeps
  <2>2. /\ Reset(k).sel = k.sel + 1 /\ Reset(k).row = AbandonRows(k).row
        /\ Reset(k).phase = "none"
    BY <1>2, NewAttemptFields DEF Reset
  <2> QED
    BY <1>2, <2>1, <2>2, FreshHeld, StuckSame
<1> QED
  BY <1>3, <1>4, <1>5, <1>6

\* A claim leaves a row behind, unless the outbox cannot be written.
LEMMA LaunchHeld ==
    ASSUME NEW k, Sound(k), Startable(k), NEW m \in Volatile, Kin(k, m),
           NEW written \in BOOLEAN, ~written => "enqueue" \in Faults
    PROVE  Held(Launch(k, written), m) /\ StuckRows(Launch(k, written)) = StuckRows(k)
<1> DEFINE j == IF Reusable(k) THEN k ELSE NewAttempt(k)
           w == IF written THEN [NoRow EXCEPT !.state = "enqueued", !.gen = j.gen]
                ELSE j.row[j.sel]
           r == [j.row EXCEPT ![j.sel] = w]
           n == Launch(k, written)
<1>1. /\ Sound(j) /\ Kin(j, m) /\ j.row[j.sel] = NoRow /\ StuckRows(j) = StuckRows(k)
      /\ j.status \in {"pending", "queued"}
  <2>1. CASE Reusable(k)
    BY <2>1 DEF Reusable, Sound, Lineage, Startable
  <2>2. CASE ~Reusable(k)
    <3>1. MoreAttempts(k)
      BY <2>2 DEF Startable
    <3>2. NewAttempt(k).sel = k.sel + 1 /\ NewAttempt(k).row = k.row
      BY <3>1, NewAttemptFields
    <3>3. k.row[k.sel + 1] = NoRow
      BY <3>1, BoundsAssumption DEF Sound, Durable, Lineage, MoreAttempts, Attempts
    <3> QED
      BY <2>2, <3>1, <3>2, <3>3, NewAttemptKeeps, FreshRecordsHeld DEF Keeps, Held
  <2> QED
    BY <2>1, <2>2
<1>2. /\ n.status = "queued" /\ n.phase = "launching" /\ n.sel = j.sel /\ n.gen = j.gen
      /\ n.row = r
  BY <1>1 DEF Launch, Sound, Durable
<1> HIDE DEF j, n
<1>3. /\ j.sel \in Attempts /\ j.row \in [Attempts -> Row] /\ j.gen \in Nat
  BY <1>1 DEF Sound, Durable
<1>4. /\ r[j.sel] = w /\ \A a \in Attempts : a # j.sel => r[a] = j.row[a]
  BY <1>3
<1>5. /\ written => w.state = "enqueued" /\ w.gen = j.gen
      /\ ~written => w = NoRow
  BY <1>1 DEF NoRow
<1> HIDE DEF w, r
<1>6. Held(n, m)
  BY <1>1, <1>2, <1>4, <1>5 DEF Held, Kin, Recoverable, LiveRow, NoRow
<1>7. StuckRows(n) = StuckRows(j)
  <2>1. w.state # "stuck" /\ j.row[j.sel].state # "stuck"
    BY <1>1, <1>5 DEF NoRow
  <2> QED
    BY <1>2, <1>3, <1>4, <2>1 DEF StuckRows
<1> QED
  BY <1>1, <1>6, <1>7 DEF n

LEMMA DrainHeld ==
    ASSUME NEW d, NEW m \in [Tasks -> Volatile],
           \A t \in Tasks : Sound(d[t]) /\ Kin(d[t], m[t]),
           NEW queue \in SUBSET Tasks, NEW wanted, Drain(d, queue, wanted)
    PROVE  \A t \in Tasks :
             /\ Quiet(d[t], db'[t])
             /\ \/ db'[t] = d[t]
                \/ Held(db'[t], m[t]) /\ db'[t].status = "queued" /\ t \in queue /\ Startable(d[t])
<1>1. PICK L \in SUBSET {t \in queue : Startable(d[t])},
           E \in SUBSET Tasks :
        /\ E # {} => "enqueue" \in Faults
        /\ db' = [t \in Tasks |-> IF t \in L THEN Launch(d[t], t \notin E) ELSE d[t]]
  BY DEF Drain
<1> TAKE t \in Tasks
<1>2. CASE t \in L
  <2>1. Startable(d[t]) /\ db'[t] = Launch(d[t], t \notin E) /\ t \in queue
    BY <1>1, <1>2
  <2>2. (t \notin E) \in BOOLEAN /\ (~(t \notin E) => "enqueue" \in Faults)
    BY <1>1
  <2>3. /\ Held(db'[t], m[t]) /\ StuckRows(db'[t]) = StuckRows(d[t])
        /\ db'[t].status = "queued"
    BY <2>1, <2>2, LaunchHeld, LaunchKeeps
  <2> QED
    BY <2>1, <2>3 DEF Quiet, Startable
<1>3. CASE t \notin L
  BY <1>1, <1>3 DEF Quiet
<1> QED
  BY <1>2, <1>3

LEMMA MarkRunningFields ==
    ASSUME NEW k, Sound(k), NEW a \in Attempts
    PROVE  /\ Fades(k, MarkRunning(k, a)) /\ StuckRows(MarkRunning(k, a)) = StuckRows(k)
           /\ MarkRunning(k, a).sel = k.sel /\ MarkRunning(k, a).gen = k.gen
           /\ MarkRunning(k, a).status = "running"
<1> DEFINE w == [k.row[a] EXCEPT !.ack = @ \/ k.row[a].state = "leased"]
           r == [k.row EXCEPT ![a] = w]
           n == MarkRunning(k, a)
<1>1. k.row \in [Attempts -> Row] /\ k.row[a] \in Row
  BY DEF Sound, Durable
<1>2. /\ n.row = r /\ n.sel = k.sel /\ n.gen = k.gen /\ n.status = "running"
  BY <1>1 DEF MarkRunning, Sound, Durable
<1>3. w.state = k.row[a].state /\ w.gen = k.row[a].gen
  BY <1>1 DEF Row
<1> HIDE DEF w, n
<1>4. \A b \in Attempts : r[b].state = k.row[b].state /\ r[b].gen = k.row[b].gen
  BY <1>1, <1>3
<1> HIDE DEF r
<1> QED
  BY <1>2, <1>4 DEF Fades, StuckRows, n
-----------------------------------------------------------------------------
(* What a step does to one task.                                           *)

Heard(t) ==
    /\ db[t].status = "running" /\ ~db[t].preserved
    /\ mem[t].proc[db[t].sel] = "live" /\ mem'[t].proc[db[t].sel] = "none"
    => db'[t].status # "running" \/ db'[t].preserved
Stops(t) ==
    /\ StuckRows(db'[t]) # StuckRows(db[t])
    /\ Cardinality(StuckRows(db'[t])) > MaxStuck
    => db'[t].sel = db[t].sel /\ db'[t].status \in {"failed", "completed"}
Revives(t) ==
    db[t].status = "failed" /\ db'[t].status # "failed" =>
        \/ mem[t].retry
        \/ /\ db'[t].status = "queued" /\ mem'[t].parked
           /\ \E a \in Attempts : mem[t].proc[a] = "starting" /\ mem'[t].proc[a] = "none"

Fine(t) == Held(db'[t], mem'[t]) /\ Heard(t) /\ Stops(t) /\ Revives(t)

HInv == IInv /\ \A t \in Tasks : Held(db[t], mem[t])

\* What is known of a task in a reachable state.
LEMMA HeldFacts ==
    ASSUME HInv, NEW t \in Tasks
    PROVE  /\ IInv /\ db \in [Tasks -> Durable] /\ mem \in [Tasks -> Volatile]
           /\ Sound(db[t]) /\ db[t] \in Durable /\ mem[t] \in Volatile
           /\ Kin(db[t], mem[t]) /\ Held(db[t], mem[t]) /\ db[t].sel \in Attempts
           /\ mem[t].proc \in [Attempts -> ProcStates] /\ mem[t].pgen \in [Attempts -> Nat]
BY TaskFacts DEF HInv, Held, Durable, Volatile

\* A step that revives nothing, gives up no row and drops no live process.
LEMMA FineQuiet ==
    ASSUME NEW t \in Tasks, Held(db'[t], mem'[t]), Quiet(db[t], db'[t]),
           mem[t].proc[db[t].sel] = "live" => mem'[t].proc[db[t].sel] # "none"
    PROVE  Fine(t)
BY DEF Fine, Heard, Stops, Revives, Quiet

LEMMA HeldSameProc ==
    ASSUME NEW k, NEW m, NEW n, n.proc = m.proc, n.pgen = m.pgen
    PROVE  (Kin(k, m) => Kin(k, n)) /\ (Held(k, m) => Held(k, n))
BY DEF Held, Kin, Recoverable

\* A step that only touches one task.
LEMMA FineOne ==
    ASSUME HInv, NEW t \in Tasks, NEW j, NEW n,
           db' = [db EXCEPT ![t] = j], mem' = [mem EXCEPT ![t] = n],
           Held(j, n), Quiet(db[t], j),
           mem[t].proc[db[t].sel] = "live" => n.proc[db[t].sel] # "none"
    PROVE  \A u \in Tasks : Fine(u)
<1> TAKE u \in Tasks
<1>1. db'[t] = j /\ mem'[t] = n
  BY HeldFacts
<1>2. u # t => db'[u] = db[u] /\ mem'[u] = mem[u]
  BY HeldFacts
<1>3. CASE u = t
  BY <1>1, <1>3, FineQuiet
<1>4. CASE u # t
  <2>1. Held(db'[u], mem'[u]) /\ Quiet(db[u], db'[u])
    BY <1>2, <1>4, HeldFacts DEF Quiet
  <2> QED
    BY <1>2, <1>4, <2>1, FineQuiet
<1> QED
  BY <1>3, <1>4

LEMMA FineRecord ==
    ASSUME HInv, NEW t \in Tasks, NEW j, UNCHANGED mem,
           db' = [db EXCEPT ![t] = j], Held(j, mem[t]), Quiet(db[t], j)
    PROVE  \A u \in Tasks : Fine(u)
<1>1. mem' = [mem EXCEPT ![t] = mem[t]]
  BY HeldFacts
<1> QED
  BY <1>1, FineOne

LEMMA FineMemory ==
    ASSUME HInv, NEW t \in Tasks, NEW n, UNCHANGED db,
           mem' = [mem EXCEPT ![t] = n], Held(db[t], n),
           mem[t].proc[db[t].sel] = "live" => n.proc[db[t].sel] # "none"
    PROVE  \A u \in Tasks : Fine(u)
<1>1. db' = [db EXCEPT ![t] = db[t]] /\ Quiet(db[t], db[t])
  BY HeldFacts DEF Quiet
<1> QED
  BY <1>1, FineOne

\* Nothing but the process of attempt a changes.
ProcOnly(m, n, a) ==
    (\A b \in Attempts : b # a => n.proc[b] = m.proc[b]) /\ n.pgen = m.pgen

\* A process of another attempt changes, and none is started.
LEMMA HeldElsewhere ==
    ASSUME NEW k \in Durable, NEW m, NEW n, NEW a \in Attempts, a # k.sel,
           n.proc[a] = "none" \/ m.proc[a] # "none",
           ProcOnly(m, n, a)
    PROVE  (Kin(k, m) => Kin(k, n)) /\ (Held(k, m) => Held(k, n))
BY DEF Held, Kin, Recoverable, Durable, ProcOnly

\* A process that is gone.
LEMMA KinGone ==
    ASSUME NEW k \in Durable, NEW m, NEW n, NEW a \in Attempts, Kin(k, m),
           n.proc[a] = "none",
           ProcOnly(m, n, a)
    PROVE  Kin(k, n)
BY DEF Kin, Durable, ProcOnly

\* A process of a task that is not about to be launched changes.
LEMMA HeldHere ==
    ASSUME NEW k \in Durable, NEW m, NEW n, NEW a \in Attempts, Kin(k, m),
           k.status \notin {"pending", "queued"}, m.proc[a] # "none",
           ProcOnly(m, n, a)
    PROVE  Held(k, n)
BY DEF Held, Kin, Recoverable, Durable, ProcOnly

\* A record whose selected row and claim stay as they are.
LEMMA HeldRowsElsewhere ==
    ASSUME NEW k, NEW j, NEW m, Held(k, m),
           j.sel = k.sel, j.gen = k.gen, j.status = k.status, j.phase = k.phase,
           j.preserved = k.preserved, j.row[k.sel] = k.row[k.sel]
    PROVE  Held(j, m)
BY DEF Held, Kin, Recoverable

\* A row fades while the launch is under way or about to report its failure.
LEMMA HeldLaunching ==
    ASSUME NEW k \in Durable, NEW j, NEW m, Kin(k, m),
           j.sel = k.sel, j.gen = k.gen, j.status = k.status, j.phase = k.phase,
           j.preserved = k.preserved, Fades(k, j),
           m.proc[k.sel] \in {"starting", "failing"}
    PROVE  Held(j, m)
BY DEF Held, Kin, Recoverable, Fades, Durable

LEMMA RespondHeld ==
    ASSUME NEW d, NEW m \in [Tasks -> Volatile], NEW t \in Tasks, NEW a, NEW g,
           NEW o \in Outcomes, Respond(d, m, t, a, g, o),
           d \in [Tasks -> Durable], \A u \in Tasks : Sound(d[u]) /\ Kin(d[u], m[u]),
           \A u \in Tasks : u # t \/ ~Accepts(d[t], a, g) => Held(d[u], m[u])
    PROVE  \A u \in Tasks :
             /\ Held(db'[u], mem'[u]) /\ Quiet(d[u], db'[u])
             /\ mem'[u].proc = m[u].proc
<1> DEFINE d1 == [d EXCEPT ![t] = Settle(@, o)]
<1>1. CASE ~Accepts(d[t], a, g) /\ db' = d /\ mem' = m
  BY <1>1 DEF Quiet
<1>2. CASE Accepts(d[t], a, g)
  <2>1. d[t].status \in {"pending", "queued", "running"} /\ o \notin {"pending", "queued"}
    BY <1>2 DEF Accepts, Executable, Outcomes
  <2>2. /\ Settle(d[t], o).sel = d[t].sel /\ Settle(d[t], o).gen = d[t].gen
        /\ Settle(d[t], o).status = o /\ Settle(d[t], o).row = d[t].row
    BY EndFields
  <2>3. /\ Held(Settle(d[t], o), m[t]) /\ Quiet(d[t], Settle(d[t], o))
        /\ Sound(Settle(d[t], o))
    <3>1. Held(Settle(d[t], o), m[t])
      BY <2>1, <2>2, StuckSame, EndHeld
    <3>2. Sound(Settle(d[t], o))
      BY <2>1, SettleKeeps DEF Keeps
    <3> QED
      BY <2>1, <2>2, <3>1, <3>2, StuckSame DEF Quiet
  <2>4. d1[t] = Settle(d[t], o) /\ \A u \in Tasks : u # t => d1[u] = d[u]
    OBVIOUS
  <2>5. \A u \in Tasks : Held(d1[u], m[u]) /\ Quiet(d[u], d1[u]) /\ Sound(d1[u])
    BY <2>3, <2>4 DEF Quiet
  <2> HIDE DEF d1
  <2>6. CASE db' = d1 /\ mem' = m
    BY <2>5, <2>6
  <2>7. CASE Drain(d1, Tasks, Tasks) /\ mem' = Unpark(m)
    <3>1. \A u \in Tasks : /\ Quiet(d1[u], db'[u])
                           /\ db'[u] = d1[u] \/ Held(db'[u], m[u])
      BY <2>5, <2>7, DrainHeld DEF Held
    <3>2. \A u \in Tasks : mem'[u].proc = m[u].proc /\ mem'[u].pgen = m[u].pgen
      BY <2>7 DEF Unpark, Volatile
    <3>3. \A u \in Tasks : Held(db'[u], mem'[u])
      BY <2>5, <3>1, <3>2, HeldSameProc
    <3> QED
      BY <2>5, <3>1, <3>2, <3>3 DEF Quiet
  <2> QED
    BY <1>2, <2>6, <2>7 DEF Respond, d1
<1> QED
  BY <1>1, <1>2 DEF Respond
-----------------------------------------------------------------------------
(* One lemma per action.                                                   *)

\* A drain from the present state.
LEMMA TopUpFine == ASSUME HInv, TopUp PROVE \A t \in Tasks : Fine(t)
<1>1. Drain(db, Tasks \ Parked, Tasks \ Parked) /\ mem' = mem
  BY DEF TopUp
<1>2. \A t \in Tasks : /\ Quiet(db[t], db'[t])
                       /\ db'[t] = db[t] \/ Held(db'[t], mem[t])
  BY <1>1, HeldFacts, DrainHeld
<1> QED
  BY <1>1, <1>2, HeldFacts, FineQuiet

LEMMA BackoffFine == ASSUME HInv, NEW t \in Tasks, BackoffElapses(t) PROVE \A u \in Tasks : Fine(u)
<1> DEFINE n == [mem[t] EXCEPT !.parked = FALSE]
<1>1. n.proc = mem[t].proc /\ n.pgen = mem[t].pgen
  BY HeldFacts DEF Volatile
<1>2. mem' = [mem EXCEPT ![t] = n] /\ UNCHANGED db
  BY HeldFacts DEF BackoffElapses, Volatile
<1> HIDE DEF n
<1> QED
  BY <1>1, <1>2, HeldFacts, HeldSameProc, FineMemory

LEMMA LeaseFine ==
    ASSUME HInv, NEW t \in Tasks, NEW l \in BOOLEAN,
           db' = [db EXCEPT ![t].lease = l], UNCHANGED mem
    PROVE  \A u \in Tasks : Fine(u)
<1> DEFINE k == db[t]
           j == [k EXCEPT !.lease = l]
<1>1. /\ j.status = k.status /\ j.phase = k.phase /\ j.sel = k.sel /\ j.gen = k.gen
      /\ j.row = k.row /\ j.preserved = k.preserved
  BY HeldFacts DEF Durable
<1>2. db' = [db EXCEPT ![t] = j]
  OBVIOUS
<1> HIDE DEF j
<1>3. Held(j, mem[t]) /\ Quiet(k, j)
  BY <1>1, HeldFacts, HeldRowsElsewhere, StuckSame DEF Quiet
<1> QED
  BY <1>2, <1>3, FineRecord

LEMMA ExecutingStallFine ==
    ASSUME HInv, NEW t \in Tasks, ExecutingStall(t)
    PROVE  \A u \in Tasks : Fine(u)
<1>1. Respond(db, mem, t, db[t].sel, db[t].gen, "failed") /\ "failed" \in Outcomes
  BY DEF ExecutingStall, Outcomes
<1>2. \A u \in Tasks : /\ Held(db'[u], mem'[u]) /\ Quiet(db[u], db'[u])
                       /\ mem'[u].proc = mem[u].proc
  BY <1>1, HeldFacts, RespondHeld
<1> QED
  BY <1>2, FineQuiet

\* The kill of a victim of a cancelled or retried task.
LEMMA KillFine ==
    ASSUME HInv, NEW t \in Tasks, NEW j, NEW n, NEW v \in Victims(t),
           db' = [db EXCEPT ![t] = j], mem' = [mem EXCEPT ![t] = n],
           n.proc = Kill(mem[t].proc, v), n.pgen = mem[t].pgen,
           j.sel = db[t].sel, j.gen = db[t].gen, j.status \in {"completed", "failed"},
           db[t].status = "failed" => j.status = "failed",
           Fades(db[t], j), StuckRows(j) = StuckRows(db[t])
    PROVE  \A u \in Tasks : Fine(u)
<1>1. \A b \in Attempts : IF b = v THEN n.proc[b] = "killing" ELSE n.proc[b] = mem[t].proc[b]
  BY DEF Kill
<1>2. v \in Attempts => mem[t].proc[v] \in Registered
  BY BoundsAssumption DEF Victims, Attempts
<1>3. Kin(db[t], n)
  BY <1>1, <1>2, HeldFacts DEF Kin, Registered
<1>4. Held(j, n)
  BY <1>3, HeldFacts, EndHeld
<1>5. mem[t].proc[db[t].sel] = "live" => n.proc[db[t].sel] # "none"
  BY <1>1, HeldFacts
<1> QED
  BY <1>4, <1>5, FineOne DEF Quiet

LEMMA CancelFine == ASSUME HInv, NEW t \in Tasks, CancelTask(t) PROVE \A u \in Tasks : Fine(u)
<1> DEFINE r == AbandonRows(db[t])
           j == MarkCancelled(r)
<1>1. PICK v \in Victims(t) :
        mem' = [mem EXCEPT ![t].parked = FALSE, ![t].proc = Kill(@, v)]
  BY DEF CancelTask
<1> DEFINE n == [mem[t] EXCEPT !.parked = FALSE, !.proc = Kill(mem[t].proc, v)]
<1>2. mem' = [mem EXCEPT ![t] = n] /\ n.proc = Kill(mem[t].proc, v) /\ n.pgen = mem[t].pgen
  BY <1>1, HeldFacts DEF Volatile
<1>3. /\ Sound(r) /\ r.sel = db[t].sel /\ r.status = db[t].status
      /\ r.gen = db[t].gen /\ Fades(db[t], r) /\ StuckRows(r) = StuckRows(db[t])
  BY HeldFacts, AbandonRowsKeeps, AbandonRowsFades DEF Keeps
<1>4. db' = [db EXCEPT ![t] = j]
  BY DEF CancelTask
<1> HIDE DEF n, r
<1>5. /\ j.sel = r.sel /\ j.gen = r.gen /\ j.status \in {"completed", "failed"}
      /\ r.status = "failed" => j.status = "failed"
      /\ j.row = r.row
  BY <1>3, MarkCancelledKeeps, EndFields DEF Outcomes
<1> HIDE DEF j
<1>6. Fades(db[t], j) /\ StuckRows(j) = StuckRows(db[t])
  BY <1>3, <1>5, StuckSame DEF Fades
<1> QED
  BY <1>2, <1>3, <1>4, <1>5, <1>6, KillFine

LEMMA BeginRetryFine == ASSUME HInv, NEW t \in Tasks, BeginRetry(t) PROVE \A u \in Tasks : Fine(u)
<1> DEFINE j == MarkCancelled(db[t])
           p == mem[t].parked /\ db[t].status = "completed"
<1>1. PICK v \in Victims(t) :
        mem' = [mem EXCEPT ![t].retry = TRUE, ![t].victim = v, ![t].proc = Kill(@, v),
                           ![t].parked = @ /\ db[t].status = "completed"]
  BY DEF BeginRetry
<1> DEFINE n == [mem[t] EXCEPT !.retry = TRUE, !.victim = v,
                               !.proc = Kill(mem[t].proc, v), !.parked = p]
<1>2. mem' = [mem EXCEPT ![t] = n] /\ n.proc = Kill(mem[t].proc, v) /\ n.pgen = mem[t].pgen
  BY <1>1, HeldFacts DEF Volatile
<1>3. db' = [db EXCEPT ![t] = j]
  BY DEF BeginRetry
<1> HIDE DEF n
<1>4. /\ j.sel = db[t].sel /\ j.gen = db[t].gen /\ j.status \in {"completed", "failed"}
      /\ db[t].status = "failed" => j.status = "failed"
      /\ j.row = db[t].row
  BY HeldFacts, MarkCancelledKeeps, EndFields DEF Outcomes
<1> HIDE DEF j
<1> QED
  BY <1>2, <1>3, <1>4, StuckSame, KillFine

LEMMA ProvideInputFine ==
    ASSUME HInv, NEW t \in Tasks, ProvideInput(t)
    PROVE  \A u \in Tasks : Fine(u)
<1> DEFINE k == db[t]
           f == [k.att EXCEPT ![k.sel] = "running"]
           j == [k EXCEPT !.status = "running", !.att = f]
<1>1. db' = [db EXCEPT ![t] = j] /\ UNCHANGED mem /\ k.status = "needs_input"
  BY HeldFacts DEF ProvideInput, Durable
<1>2. j.status = "running" /\ j.sel = k.sel /\ j.gen = k.gen /\ j.row = k.row
  BY HeldFacts DEF Durable
<1> HIDE DEF j
<1>3. Held(j, mem[t]) /\ Quiet(k, j)
  BY <1>1, <1>2, HeldFacts, EndHeld, StuckSame DEF Quiet
<1> QED
  BY <1>1, <1>3, FineRecord

\* A retry that finishes may revive its own task.
LEMMA FinishRetryFine ==
    ASSUME HInv, NEW t \in Tasks, FinishRetry(t)
    PROVE  \A u \in Tasks : Fine(u)
<1> DEFINE d == [db EXCEPT ![t] = Reset(db[t])]
           n == [mem[t] EXCEPT !.retry = FALSE, !.victim = 0, !.parked = FALSE]
<1>1. Sound(Reset(db[t])) /\ Held(Reset(db[t]), mem[t]) /\ StuckRows(Reset(db[t])) = StuckRows(db[t])
  BY HeldFacts, ResetKeeps, FreshRecordsHeld DEF FinishRetry, Keeps
<1>2. /\ \A u \in Tasks : Sound(d[u]) /\ Held(d[u], mem[u]) /\ StuckRows(d[u]) = StuckRows(db[u])
      /\ \A u \in Tasks : u # t => d[u] = db[u]
  BY <1>1, HeldFacts
<1>3. Drain(d, Tasks, {t}) /\ mem[t].retry
  BY DEF FinishRetry
<1>4. \A u \in Tasks : mem'[u].proc = mem[u].proc /\ mem'[u].pgen = mem[u].pgen
  <2>1. n.proc = mem[t].proc /\ n.pgen = mem[t].pgen
    BY HeldFacts DEF Volatile
  <2>2. mem' = [mem EXCEPT ![t] = n]
    BY HeldFacts DEF FinishRetry, Volatile
  <2> HIDE DEF n
  <2> QED
    BY <2>1, <2>2, HeldFacts
<1> HIDE DEF d, n
<1>5. \A u \in Tasks : /\ Quiet(d[u], db'[u])
                       /\ db'[u] = d[u] \/ Held(db'[u], mem[u])
  BY <1>2, <1>3, HeldFacts, DrainHeld DEF Held
<1> TAKE u \in Tasks
<1>6. Held(db'[u], mem'[u]) /\ StuckRows(db'[u]) = StuckRows(db[u])
  BY <1>2, <1>4, <1>5, HeldSameProc DEF Quiet
<1>7. CASE u # t
  BY <1>2, <1>4, <1>5, <1>6, <1>7, FineQuiet
<1>8. CASE u = t
  BY <1>3, <1>4, <1>6, <1>8 DEF Fine, Heard, Stops, Revives
<1> QED
  BY <1>7, <1>8
LEMMA ClaimFine ==
    ASSUME HInv, NEW t \in Tasks, NEW a \in Attempts, Claim(t, a)
    PROVE  \A u \in Tasks : Fine(u)
<1> DEFINE k == db[t]
           w == [k.row[a] EXCEPT !.state = "leased", !.expired = FALSE,
                             !.tries = k.row[a].tries + 1]
           leased == [k EXCEPT !.row[a] = w]
<1>1. k.row[a] \in Row /\ k.row[a].state = "enqueued" /\ k.row \in [Attempts -> Row]
  BY HeldFacts DEF Claim, Durable
<1>2. w \in Row /\ w.ack = k.row[a].ack /\ w.state = "leased" /\ w.gen = k.row[a].gen
  BY <1>1, LeasedRow DEF Row
<1>3. [k EXCEPT !.row[a].state = "leased", !.row[a].expired = FALSE,
                !.row[a].tries = k.row[a].tries + 1] = leased
  BY <1>1, HeldFacts DEF Durable
<1>4. k.row[a] # NoRow
  BY <1>1 DEF NoRow
<1> HIDE DEF w
<1>5. /\ Sound(leased) /\ leased.status = k.status /\ leased.phase = k.phase
      /\ leased.sel = k.sel /\ leased.gen = k.gen /\ leased.preserved = k.preserved
      /\ leased.row[a] = w /\ \A b \in Attempts : b # a => leased.row[b] = k.row[b]
  <2>1. w.ack => w.state # "enqueued"
    BY <1>2
  <2>2. Sound(leased)
    BY <1>2, <1>4, <2>1, HeldFacts, RowWriteKeeps DEF Keeps
  <2> QED
    BY <1>1, <2>2, HeldFacts DEF Durable
<1> HIDE DEF leased
<1>6. Held(leased, mem[t]) /\ StuckRows(leased) = StuckRows(k)
  <2>1. Held(leased, mem[t])
    BY <1>1, <1>2, <1>5, HeldFacts DEF Held, Kin, Recoverable, LiveRow
  <2>2. StuckRows(leased) = StuckRows(k)
    BY <1>1, <1>2, <1>5 DEF StuckRows
  <2> QED
    BY <2>1, <2>2
<1>7. CASE /\ RowStale(k, a)
           /\ db' = [db EXCEPT ![t] = EndRow(k, a, "abandoned")]
           /\ UNCHANGED mem
  <2> DEFINE j == EndRow(k, a, "abandoned")
  <2>1. /\ j.sel = k.sel /\ j.status = k.status /\ j.gen = k.gen /\ j.preserved = k.preserved
        /\ j.phase = k.phase /\ Fades(k, j) /\ StuckRows(j) = StuckRows(k)
        /\ \A b \in Attempts : b # a => j.row[b] = k.row[b]
    BY HeldFacts, EndRowKeeps, EndRowFades DEF RowStates
  <2> HIDE DEF j
  <2>2. ASSUME a # k.sel PROVE Held(j, mem[t])
    BY <2>1, <2>2, HeldFacts, HeldRowsElsewhere
  <2>3. ASSUME a = k.sel PROVE Held(j, mem[t])
    <3>1. k.row[a].gen = k.gen
      BY <1>1, <2>3, HeldFacts DEF Kin, LiveRow
    <3>2. k.status \notin {"pending", "queued"}
      BY <1>7, <2>3, <3>1 DEF RowStale
    <3> QED
      BY <2>1, <3>2, HeldFacts, EndHeld
  <2>4. Held(j, mem[t])
    BY <2>2, <2>3
  <2> QED
    BY <1>7, <2>1, <2>4, FineRecord DEF Quiet, j
<1>8. CASE /\ ~RowStale(k, a) /\ mem[t].proc[a] # "none"
           /\ db' = [db EXCEPT ![t] = FailDispatch(leased, a)]
           /\ UNCHANGED mem
  <2> DEFINE j == FailDispatch(leased, a)
  <2>1. /\ j.sel = leased.sel /\ j.status = leased.status /\ j.gen = leased.gen
        /\ j.preserved = leased.preserved /\ j.phase = leased.phase
        /\ Fades(leased, j) /\ StuckRows(j) = StuckRows(leased)
    BY <1>5, FailDispatchKeeps, FailDispatchFades
  <2>2. mem[t].proc[leased.sel] \in {"starting", "failing"}
    BY <1>5, <1>8, HeldFacts DEF RowStale, Kin
  <2> HIDE DEF j
  <2>3. Held(j, mem[t])
    BY <1>5, <1>6, <2>1, <2>2, HeldLaunching DEF Held, Sound
  <2> QED
    BY <1>5, <1>6, <1>8, <2>1, <2>3, FineRecord DEF Quiet, j
<1>9. CASE /\ ~RowStale(k, a) /\ mem[t].proc[a] = "none"
           /\ db' = [db EXCEPT ![t] = leased]
           /\ mem' = [mem EXCEPT ![t].proc[a] = "starting", ![t].pgen[a] = k.gen]
  <2> DEFINE n == [mem[t] EXCEPT !.proc[a] = "starting", !.pgen[a] = k.gen]
  <2>1. /\ mem' = [mem EXCEPT ![t] = n] /\ n.proc[a] = "starting" /\ n.pgen[a] = k.gen
        /\ \A b \in Attempts : b # a => n.proc[b] = mem[t].proc[b]
    BY <1>9, HeldFacts DEF Volatile
  <2> HIDE DEF n
  <2>2. a = k.sel /\ ~(a > k.sel)
    BY <1>9, BoundsAssumption DEF RowStale, Attempts
  <2>3. Held(leased, n)
    BY <1>5, <1>6, <2>1, <2>2 DEF Held, Kin, Recoverable
  <2> QED
    BY <1>5, <1>6, <1>9, <2>1, <2>2, <2>3, FineOne DEF Quiet
<1> QED
  BY <1>3, <1>7, <1>8, <1>9 DEF Claim

LEMMA FenceFine ==
    ASSUME HInv, NEW t \in Tasks, NEW a \in Attempts, FenceExpires(t, a)
    PROVE  \A u \in Tasks : Fine(u)
<1> DEFINE w == [db[t].row[a] EXCEPT !.expired = TRUE]
           j == [db[t] EXCEPT !.row[a] = w]
<1>1. /\ db[t].row \in [Attempts -> Row] /\ db[t].row[a].state = "leased"
      /\ w.state = "leased" /\ w.gen = db[t].row[a].gen
  BY HeldFacts DEF FenceExpires, Durable, Row
<1>2. db' = [db EXCEPT ![t] = j] /\ UNCHANGED mem
  BY HeldFacts DEF FenceExpires, Durable
<1> HIDE DEF w
<1>3. /\ j.status = db[t].status /\ j.phase = db[t].phase /\ j.sel = db[t].sel
      /\ j.gen = db[t].gen /\ j.preserved = db[t].preserved
      /\ j.row[a] = w /\ \A b \in Attempts : b # a => j.row[b] = db[t].row[b]
  BY <1>1, HeldFacts DEF Durable
<1> HIDE DEF j
<1>4. Held(j, mem[t])
  BY <1>1, <1>3, HeldFacts DEF Held, Kin, Recoverable, LiveRow
<1>5. StuckRows(j) = StuckRows(db[t])
  BY <1>1, <1>3 DEF StuckRows
<1> QED
  BY <1>2, <1>3, <1>4, <1>5, FineRecord DEF Quiet

\* The one action that gives up a row as stuck: beyond the budget it ends
\* the task, within it it may give the task a fresh attempt.
LEMMA AbandonStuckFine ==
    ASSUME HInv, NEW t \in Tasks, NEW a \in Attempts, AbandonStuck(t, a)
    PROVE  \A u \in Tasks : Fine(u)
<1> DEFINE k == EndRow(db[t], a, "stuck")
<1>1. /\ Sound(k) /\ k.sel = db[t].sel /\ k.status = db[t].status /\ k.gen = db[t].gen
      /\ Fades(db[t], k)
  <2>1. "stuck" \in RowStates /\ "stuck" # "enqueued" /\ Sound(db[t])
    BY HeldFacts DEF RowStates
  <2>2. /\ Keeps(db[t], k) /\ k.sel = db[t].sel /\ k.status = db[t].status
        /\ k.gen = db[t].gen
    BY <2>1, EndRowKeeps
  <2>3. Fades(db[t], k)
    BY <2>1, EndRowFades
  <2> QED
    BY <2>2, <2>3 DEF Keeps
<1>2. Kin(k, mem[t])
  BY <1>1, HeldFacts DEF Kin, Fades
<1>3. UNCHANGED mem /\ (db'[t] = FailTask(k) \/ db'[t] = k \/ db'[t] = Prepare(k))
      /\ \A u \in Tasks : u # t => db'[u] = db[u]
  BY HeldFacts DEF AbandonStuck
<1>4. CASE db'[t] = FailTask(k)
  <2>1. /\ FailTask(k).sel = k.sel /\ FailTask(k).status \in {"completed", "failed"}
        /\ FailTask(k).gen = k.gen /\ FailTask(k).row = k.row
        /\ k.status = "failed" => FailTask(k).status = "failed"
    BY <1>1, FailTaskKeeps, EndFields DEF Outcomes
  <2>2. Held(FailTask(k), mem[t])
    BY <1>1, <1>2, <2>1, EndHeld, StuckSame
  <2> QED
    BY <1>1, <1>3, <1>4, <2>1, <2>2, HeldFacts DEF Fine, Heard, Stops, Revives
<1>5. CASE db'[t] = k /\ k.status \in {"completed", "failed"}
  <2>1. Held(k, mem[t])
    BY <1>1, <1>2, <1>5, EndHeld DEF Fades
  <2> QED
    BY <1>1, <1>3, <1>5, <2>1, HeldFacts DEF Fine, Heard, Stops, Revives
<1>6. CASE /\ db'[t] = Prepare(k) /\ ~OverBudget(k)
           /\ k.status \notin {"completed", "failed"} /\ MoreAttempts(k)
  <2>1. Held(Prepare(k), mem[t]) /\ StuckRows(Prepare(k)) = StuckRows(k)
    BY <1>1, <1>2, <1>6, HeldFacts, FreshRecordsHeld
  <2>2. Prepare(k).status = "pending"
    BY <1>1, <1>6, PrepareKeeps
  <2> QED
    BY <1>1, <1>3, <1>6, <2>1, <2>2, HeldFacts DEF Fine, Heard, Stops, Revives, OverBudget
<1>7. Fine(t)
  BY <1>4, <1>5, <1>6, HeldFacts DEF AbandonStuck
<1>8. ASSUME NEW u \in Tasks, u # t PROVE Fine(u)
  <2>1. db'[u] = db[u] /\ mem'[u] = mem[u]
    BY <1>3, <1>8
  <2> QED
    BY <2>1, HeldFacts, FineQuiet DEF Quiet
<1> QED
  BY <1>7, <1>8

LEMMA ReapFine ==
    ASSUME HInv, NEW t \in Tasks, NEW a \in Attempts, Reap(t, a)
    PROVE  \A u \in Tasks : Fine(u)
<1> DEFINE j == EndRow(db[t], a, "enqueued")
<1>1. db' = [db EXCEPT ![t] = j] /\ UNCHANGED mem /\ db[t].row[a].state = "leased" /\ ~db[t].row[a].ack
  BY DEF Reap, Overdue
<1>2. /\ j.sel = db[t].sel /\ j.status = db[t].status /\ j.gen = db[t].gen
      /\ j.preserved = db[t].preserved /\ j.phase = db[t].phase
  BY <1>1, HeldFacts, EndRowKeeps DEF RowStates
<1>3. /\ Fades(db[t], j) /\ StuckRows(j) = StuckRows(db[t]) /\ j.row[a].state = "enqueued"
      /\ \A b \in Attempts : b # a => j.row[b] = db[t].row[b]
  BY <1>1, HeldFacts, EndRowFades DEF RowStates, LiveRow
<1> HIDE DEF j
<1>4. Held(j, mem[t])
  BY <1>1, <1>2, <1>3, HeldFacts DEF Held, Kin, Recoverable, LiveRow, Fades
<1> QED
  BY <1>1, <1>2, <1>3, <1>4, FineRecord DEF Quiet

LEMMA LaunchAcceptedFine ==
    ASSUME HInv, NEW t \in Tasks, NEW a \in Attempts, NEW usable \in BOOLEAN,
           LaunchAccepted(t, a, usable)
    PROVE  \A u \in Tasks : Fine(u)
<1> DEFINE k == MarkRunning(db[t], a)
           p == IF usable THEN "live" ELSE "failing"
           n == [mem[t] EXCEPT !.proc[a] = p]
           j == IF usable THEN k ELSE FailDispatch(k, a)
<1>1. /\ a = db[t].sel /\ db[t].status \in {"pending", "queued", "running"}
      /\ mem[t].proc[a] = "starting"
  BY DEF LaunchAccepted, LaunchCurrent, LaunchStale
<1>2. /\ Sound(k) /\ k.sel = db[t].sel /\ k.gen = db[t].gen /\ k.status = "running"
      /\ Fades(db[t], k) /\ StuckRows(k) = StuckRows(db[t])
  BY <1>1, HeldFacts, MarkRunningKeeps, MarkRunningFields DEF Keeps
<1>3. /\ n.proc[a] = p /\ n.pgen = mem[t].pgen /\ mem' = [mem EXCEPT ![t] = n] /\ p # "none"
      /\ \A b \in Attempts : b # a => n.proc[b] = mem[t].proc[b]
  BY HeldFacts DEF LaunchAccepted, Volatile
<1>4. db' = [db EXCEPT ![t] = j]
  BY DEF LaunchAccepted
<1> HIDE DEF k, n, p
<1>5. /\ j.sel = k.sel /\ j.gen = k.gen /\ j.status = "running"
      /\ Fades(k, j) /\ StuckRows(j) = StuckRows(k)
  BY <1>2, FailDispatchKeeps, FailDispatchFades, StuckSame
<1> HIDE DEF j
<1>6. Fades(db[t], j)
  BY <1>2, <1>5 DEF Fades
<1>8. Held(j, n)
  <2>1. Held(j, mem[t])
    BY <1>2, <1>5, <1>6, HeldFacts, EndHeld
  <2> QED
    BY <1>1, <1>2, <1>3, <1>5, <2>1 DEF Held, Kin, Recoverable
<1> QED
  BY <1>1, <1>2, <1>3, <1>4, <1>5, <1>8, FineOne DEF Quiet
LEMMA LaunchRejectedFine ==
    ASSUME HInv, NEW t \in Tasks, NEW a \in Attempts, LaunchRejected(t, a)
    PROVE  \A u \in Tasks : Fine(u)
<1> DEFINE n == [mem[t] EXCEPT !.proc[a] = "stopping"]
<1>1. /\ n.pgen = mem[t].pgen /\ mem[t].proc[a] = "starting" /\ n.proc[a] = "stopping"
      /\ \A b \in Attempts : b # a => n.proc[b] = mem[t].proc[b]
      /\ ProcOnly(mem[t], n, a)
      /\ mem' = [mem EXCEPT ![t] = n] /\ UNCHANGED db
  BY HeldFacts DEF LaunchRejected, Volatile, ProcOnly
<1> HIDE DEF n
<1>2. ASSUME a = db[t].sel PROVE db[t].status \notin {"pending", "queued"}
  <2>1. mem[t].pgen[a] = db[t].gen
    BY <1>1, <1>2, HeldFacts DEF Kin
  <2>2. db[t].att[a] \notin {"none", "superseded"}
    BY <1>2, HeldFacts DEF Sound, Lineage
  <2> QED
    BY <1>2, <2>1, <2>2 DEF LaunchRejected, LaunchCurrent, LaunchStale
<1>3. Held(db[t], n)
  <2>1. ASSUME a = db[t].sel PROVE Held(db[t], n)
    BY <1>1, <1>2, <2>1, HeldFacts, HeldHere
  <2>2. ASSUME a # db[t].sel PROVE Held(db[t], n)
    BY <1>1, <2>2, HeldFacts, HeldElsewhere
  <2> QED
    BY <2>1, <2>2
<1>4. mem[t].proc[db[t].sel] = "live" => n.proc[db[t].sel] # "none"
  BY <1>1, HeldFacts
<1> QED
  BY <1>1, <1>3, <1>4, FineMemory

\* The row of a rejected launch is failed after the kill: by then the task
\* has moved on, or is not about to be launched.
LEMMA RejectKilledFine ==
    ASSUME HInv, NEW t \in Tasks, NEW a \in Attempts, RejectKilled(t, a)
    PROVE  \A u \in Tasks : Fine(u)
<1> DEFINE n == [mem[t] EXCEPT !.proc[a] = "none"]
           j == FailDispatch(db[t], a)
<1>1. /\ n.pgen = mem[t].pgen /\ mem[t].proc[a] = "stopping" /\ n.proc[a] = "none"
      /\ \A b \in Attempts : b # a => n.proc[b] = mem[t].proc[b]
      /\ ProcOnly(mem[t], n, a)
      /\ mem' = [mem EXCEPT ![t] = n] /\ db' = [db EXCEPT ![t] = j]
  BY HeldFacts DEF RejectKilled, Volatile, ProcOnly
<1> HIDE DEF n
<1>2. /\ j.sel = db[t].sel /\ j.status = db[t].status /\ j.gen = db[t].gen
      /\ j.preserved = db[t].preserved /\ j.phase = db[t].phase
      /\ Fades(db[t], j) /\ StuckRows(j) = StuckRows(db[t])
      /\ \A b \in Attempts : b # a => j.row[b] = db[t].row[b]
  BY HeldFacts, FailDispatchKeeps, FailDispatchFades
<1> HIDE DEF j
<1>3. Kin(db[t], n)
  BY <1>1, HeldFacts, KinGone
<1>4. ASSUME a = db[t].sel PROVE Held(j, n)
  <2>1. db[t].status \notin {"pending", "queued"}
    BY <1>1, <1>4, HeldFacts DEF Kin
  <2> QED
    BY <1>2, <1>3, <2>1, HeldFacts, EndHeld
<1>5. ASSUME a # db[t].sel PROVE Held(j, n)
  BY <1>1, <1>2, <1>5, HeldFacts, HeldElsewhere, HeldRowsElsewhere
<1>6. mem[t].proc[db[t].sel] = "live" => n.proc[db[t].sel] # "none"
  BY <1>1, HeldFacts
<1> QED
  BY <1>1, <1>2, <1>4, <1>5, <1>6, FineOne DEF Quiet

LEMMA LaunchThrowsFine ==
    ASSUME HInv, NEW t \in Tasks, NEW a \in Attempts, LaunchThrows(t, a)
    PROVE  \A u \in Tasks : Fine(u)
<1>0. mem[t].proc[a] = "starting"
  BY DEF LaunchThrows
<1>1. CASE LaunchStale(t, a) /\ mem' = [mem EXCEPT ![t].proc[a] = "none"] /\ UNCHANGED db
  <2> DEFINE n == [mem[t] EXCEPT !.proc[a] = "none"]
  <2>1. /\ n.pgen = mem[t].pgen /\ n.proc[a] = "none"
        /\ \A b \in Attempts : b # a => n.proc[b] = mem[t].proc[b]
        /\ ProcOnly(mem[t], n, a)
        /\ mem' = [mem EXCEPT ![t] = n]
    BY <1>1, HeldFacts DEF Volatile, ProcOnly
  <2> HIDE DEF n
  <2>2. a # db[t].sel
    BY <1>0, <1>1, HeldFacts DEF LaunchStale, Kin
  <2>3. Held(db[t], n)
    BY <2>1, <2>2, HeldFacts, HeldElsewhere
  <2> QED
    BY <1>1, <2>1, <2>2, <2>3, HeldFacts, FineMemory
<1>2. CASE /\ ~LaunchStale(t, a)
           /\ mem' = [mem EXCEPT ![t].proc[a] = "failing"]
           /\ db' = [db EXCEPT ![t] = FailDispatch(@, a)]
  <2> DEFINE n == [mem[t] EXCEPT !.proc[a] = "failing"]
             j == FailDispatch(db[t], a)
  <2>1. /\ n.pgen = mem[t].pgen /\ n.proc[a] = "failing"
        /\ \A b \in Attempts : b # a => n.proc[b] = mem[t].proc[b]
        /\ ProcOnly(mem[t], n, a)
        /\ mem' = [mem EXCEPT ![t] = n] /\ db' = [db EXCEPT ![t] = j]
    BY <1>2, HeldFacts DEF Volatile, ProcOnly
  <2> HIDE DEF n
  <2>2. /\ j.sel = db[t].sel /\ j.status = db[t].status /\ j.gen = db[t].gen
        /\ j.preserved = db[t].preserved /\ j.phase = db[t].phase
        /\ Fades(db[t], j) /\ StuckRows(j) = StuckRows(db[t])
    BY HeldFacts, FailDispatchKeeps, FailDispatchFades
  <2> HIDE DEF j
  <2>3. a = db[t].sel
    BY <1>2 DEF LaunchStale
  <2>4. Kin(db[t], n)
    BY <1>0, <2>1, <2>3, HeldFacts DEF Kin
  <2>5. Held(j, n)
    BY <2>1, <2>2, <2>3, <2>4, HeldFacts, HeldLaunching
  <2> QED
    BY <2>1, <2>2, <2>3, <2>5, FineOne DEF Quiet
<1> QED
  BY <1>1, <1>2 DEF LaunchThrows

LEMMA FailureReportedFine ==
    ASSUME HInv, NEW t \in Tasks, NEW a \in Attempts, FailureReported(t, a)
    PROVE  \A u \in Tasks : Fine(u)
<1> DEFINE n == [mem[t] EXCEPT !.proc[a] = "none"]
           m == [mem EXCEPT ![t].proc[a] = "none"]
<1>1. /\ n \in Volatile /\ n.pgen = mem[t].pgen /\ n.proc[a] = "none"
      /\ \A b \in Attempts : b # a => n.proc[b] = mem[t].proc[b]
      /\ ProcOnly(mem[t], n, a)
      /\ m \in [Tasks -> Volatile] /\ m[t] = n
      /\ \A u \in Tasks : u # t => m[u] = mem[u]
  <2>1. "none" \in ProcStates
    BY DEF ProcStates, ProcOnly
  <2>2. /\ n \in Volatile /\ n.pgen = mem[t].pgen /\ n.proc[a] = "none"
        /\ \A b \in Attempts : b # a => n.proc[b] = mem[t].proc[b]
        /\ ProcOnly(mem[t], n, a)
    BY <2>1, HeldFacts, ProcStep DEF ProcOnly
  <2>3. m = [mem EXCEPT ![t] = n]
    BY HeldFacts
  <2> HIDE DEF n, m
  <2> QED
    BY <2>2, <2>3, HeldFacts
<1>2. /\ Respond(db, m, t, a, mem[t].pgen[a], "failed") /\ "failed" \in Outcomes
      /\ mem[t].proc[a] = "failing"
  BY DEF FailureReported, Outcomes
<1> HIDE DEF n, m
<1>3. Kin(db[t], n)
  BY <1>1, HeldFacts, KinGone
<1>4. ASSUME ~Accepts(db[t], a, mem[t].pgen[a]) PROVE Held(db[t], n)
  <2>1. ASSUME a = db[t].sel PROVE Recoverable(db[t], n)
    <3>1. mem[t].pgen[a] = db[t].gen /\ db[t].att[a] # "superseded"
      BY <1>2, <2>1, HeldFacts DEF Kin, Sound, Lineage
    <3> QED
      BY <1>4, <2>1, <3>1 DEF Accepts, Executable, Recoverable
  <2>2. ASSUME a # db[t].sel PROVE Held(db[t], n)
    BY <1>1, <2>2, HeldFacts, HeldElsewhere
  <2> QED
    BY <1>3, <2>1, <2>2 DEF Held
<1>5. \A u \in Tasks : Sound(db[u]) /\ Kin(db[u], m[u])
  BY <1>1, <1>3, HeldFacts
<1>6. \A u \in Tasks : u # t \/ ~Accepts(db[t], a, mem[t].pgen[a]) => Held(db[u], m[u])
  BY <1>1, <1>4, HeldFacts
<1>7. \A u \in Tasks : /\ Held(db'[u], mem'[u]) /\ Quiet(db[u], db'[u])
                       /\ mem'[u].proc = m[u].proc
  BY <1>1, <1>2, <1>5, <1>6, HeldFacts, RespondHeld
<1> TAKE u \in Tasks
<1>8. mem[u].proc[db[u].sel] = "live" => mem'[u].proc[db[u].sel] # "none"
  BY <1>1, <1>2, <1>7, HeldFacts
<1> QED
  BY <1>7, <1>8, FineQuiet

\* A launch for want of capacity may revive its own task.
LEMMA ResourceLimitFine ==
    ASSUME HInv, NEW t \in Tasks, NEW a \in Attempts, ResourceLimit(t, a)
    PROVE  \A u \in Tasks : Fine(u)
<1> DEFINE d == [db EXCEPT ![t] = Defer(db[t])]
           n == [mem[t] EXCEPT !.proc[a] = "none", !.parked = TRUE]
<1>1. /\ n \in Volatile /\ n.pgen = mem[t].pgen /\ n.proc[a] = "none" /\ n.parked
      /\ \A b \in Attempts : b # a => n.proc[b] = mem[t].proc[b]
      /\ ProcOnly(mem[t], n, a)
      /\ mem' = [mem EXCEPT ![t] = n]
  BY HeldFacts DEF ResourceLimit, Volatile, ProcStates, ProcOnly
<1>2. Drain(d, Tasks \ {t}, {}) /\ mem[t].proc[a] = "starting" /\ MoreAttempts(db[t])
  BY DEF ResourceLimit
<1> HIDE DEF n
<1>3. mem' \in [Tasks -> Volatile] /\ mem'[t] = n /\ \A u \in Tasks : u # t => mem'[u] = mem[u]
  BY <1>1, HeldFacts
<1>4. /\ Held(Defer(db[t]), n) /\ Sound(Defer(db[t])) /\ Defer(db[t]).status = "queued"
      /\ StuckRows(Defer(db[t])) = StuckRows(db[t])
  <2>1. Kin(db[t], n)
    BY <1>1, HeldFacts, KinGone
  <2> QED
    BY <1>1, <1>2, <2>1, HeldFacts, DeferKeeps, FreshRecordsHeld DEF Keeps
<1>5. /\ d[t] = Defer(db[t]) /\ \A u \in Tasks : u # t => d[u] = db[u]
  BY HeldFacts
<1> HIDE DEF d
<1>6. \A u \in Tasks : Sound(d[u]) /\ Held(d[u], mem'[u]) /\ Kin(d[u], mem'[u])
  BY <1>3, <1>4, <1>5, HeldFacts DEF Held
<1>7. \A u \in Tasks : /\ Quiet(d[u], db'[u])
                       /\ \/ db'[u] = d[u]
                          \/ Held(db'[u], mem'[u]) /\ u \in Tasks \ {t}
  BY <1>2, <1>3, <1>6, DrainHeld
<1> TAKE u \in Tasks
<1>8. CASE u # t
  BY <1>3, <1>5, <1>6, <1>7, <1>8, FineQuiet
<1>9. CASE u = t
  <2>1. db'[t] = Defer(db[t])
    BY <1>5, <1>7
  <2>2. Held(db'[t], mem'[t]) /\ StuckRows(db'[t]) = StuckRows(db[t])
    BY <1>3, <1>4, <2>1
  <2>3. Heard(t) /\ Stops(t)
    BY <1>4, <2>1, <2>2 DEF Heard, Stops
  <2>4. Revives(t)
    BY <1>1, <1>2, <1>3, <1>4, <2>1 DEF Revives
  <2> QED
    BY <1>9, <2>2, <2>3, <2>4 DEF Fine
<1> QED
  BY <1>8, <1>9
\* The end of a process: the selected one's is of the task's generation.
LEMMA CompletesFine ==
    ASSUME HInv, NEW t \in Tasks, NEW a \in Attempts, NEW o \in Outcomes, Completes(t, a, o)
    PROVE  \A u \in Tasks : Fine(u)
<1> DEFINE k == db[t]
           j == EndRow(k, a, "completed")
           d == [db EXCEPT ![t] = j]
           n == [mem[t] EXCEPT !.proc[a] = "none"]
           m == [mem EXCEPT ![t].proc[a] = "none"]
<1>1. /\ n \in Volatile /\ n.pgen = mem[t].pgen /\ n.proc[a] = "none"
      /\ \A b \in Attempts : b # a => n.proc[b] = mem[t].proc[b]
      /\ ProcOnly(mem[t], n, a)
      /\ m = [mem EXCEPT ![t] = n] /\ m \in [Tasks -> Volatile] /\ m[t] = n
      /\ \A u \in Tasks : u # t => m[u] = mem[u]
  <2>1. "none" \in ProcStates
    BY DEF ProcStates
  <2>2. /\ n \in Volatile /\ n.pgen = mem[t].pgen /\ n.proc[a] = "none"
        /\ \A b \in Attempts : b # a => n.proc[b] = mem[t].proc[b]
    BY <2>1, HeldFacts, ProcStep
  <2>3. m = [mem EXCEPT ![t] = n]
    BY HeldFacts
  <2> HIDE DEF n, m
  <2> QED
    BY <2>2, <2>3, HeldFacts DEF ProcOnly
<1>2. /\ mem[t].proc[a] \in {"live", "killing", "killed"}
      /\ \/ LaunchStale(t, a) /\ db' = d /\ mem' = m
         \/ ~LaunchStale(t, a) /\ Respond(d, m, t, a, mem[t].pgen[a], o)
  BY DEF Completes
<1>3. /\ Sound(j) /\ j.sel = k.sel /\ j.status = k.status /\ j.gen = k.gen
      /\ j.preserved = k.preserved /\ j.phase = k.phase /\ j.att = k.att
  <2>1. "completed" \in RowStates /\ "completed" # "enqueued" /\ Sound(k)
    BY HeldFacts DEF RowStates
  <2> QED
    BY <2>1, EndRowKeeps DEF Keeps
<1>4. /\ Fades(k, j) /\ StuckRows(j) = StuckRows(k)
      /\ \A b \in Attempts : b # a => j.row[b] = k.row[b]
  <2>1. "completed" \in RowStates /\ "completed" # "stuck" /\ Sound(k)
    BY HeldFacts DEF RowStates
  <2> QED
    BY <2>1, EndRowFades
<1>5. d[t] = j /\ d \in [Tasks -> Durable] /\ \A u \in Tasks : u # t => d[u] = db[u]
  BY <1>3, HeldFacts DEF Sound
<1> HIDE DEF j, d, n, m
<1>6. Kin(k, n)
  BY <1>1, HeldFacts, KinGone
<1>7. ASSUME a = k.sel PROVE Held(j, n)
  <2>1. k.status \notin {"pending", "queued"}
    BY <1>2, <1>7, HeldFacts DEF Kin
  <2> QED
    BY <1>3, <1>4, <1>6, <2>1, HeldFacts, EndHeld
<1>8. ASSUME a # k.sel PROVE Held(j, n)
  <2>1. Held(k, n)
    BY <1>1, <1>8, HeldFacts, HeldElsewhere
  <2>2. j.row[k.sel] = k.row[k.sel]
    BY <1>4, <1>8, HeldFacts
  <2> QED
    BY <1>3, <2>1, <2>2, HeldRowsElsewhere
<1>9. \A u \in Tasks : Sound(d[u]) /\ Held(d[u], m[u]) /\ Kin(d[u], m[u]) /\ Quiet(db[u], d[u])
  BY <1>1, <1>3, <1>4, <1>5, <1>7, <1>8, HeldFacts DEF Held, Quiet
<1>10. CASE LaunchStale(t, a) /\ db' = d /\ mem' = m
  <2>1. a # k.sel
    BY <1>2, <1>10, HeldFacts DEF LaunchStale, Kin
  <2> TAKE u \in Tasks
  <2>2. mem[u].proc[db[u].sel] = "live" => mem'[u].proc[db[u].sel] # "none"
    BY <1>1, <1>10, <2>1, HeldFacts
  <2> QED
    BY <1>9, <1>10, <2>2, FineQuiet
<1>11. CASE ~LaunchStale(t, a) /\ Respond(d, m, t, a, mem[t].pgen[a], o)
  <2>a. d \in [Tasks -> Durable] /\ m \in [Tasks -> Volatile]
    BY <1>1, <1>5
  <2>b. \A u \in Tasks : Sound(d[u])
    BY <1>9
  <2>c. /\ \A u \in Tasks : Sound(d[u]) /\ Kin(d[u], m[u])
        /\ \A u \in Tasks : u # t \/ ~Accepts(d[t], a, mem[t].pgen[a]) => Held(d[u], m[u])
    BY <1>9
  <2>d. Respond(d, m, t, a, mem[t].pgen[a], o)
    BY <1>11
  <2>1. \A u \in Tasks : /\ Held(db'[u], mem'[u]) /\ Quiet(d[u], db'[u])
                         /\ mem'[u].proc = m[u].proc
    BY <2>a, <2>b, <2>c, <2>d, RespondHeld
  <2>2. Accepts(d[t], a, mem[t].pgen[a]) => db'[t].status # "running"
    BY <2>a, <2>b, <2>d, RespondStep
  <2>3. a = k.sel /\ mem[t].pgen[a] = k.gen
    BY <1>11 DEF LaunchStale
  <2>4. k.status = "running" /\ ~k.preserved => db'[t].status # "running"
    <3>1. k.att[k.sel] # "superseded"
      BY HeldFacts DEF Sound, Lineage
    <3> QED
      BY <1>3, <1>5, <2>2, <2>3, <3>1 DEF Accepts, Executable
  <2> TAKE u \in Tasks
  <2>5. Held(db'[u], mem'[u]) /\ Quiet(db[u], db'[u])
    BY <1>9, <2>1 DEF Quiet
  <2>6. CASE u # t
    BY <1>1, <2>1, <2>5, <2>6, HeldFacts, FineQuiet
  <2>7. CASE u = t
    BY <2>4, <2>5, <2>7 DEF Fine, Heard, Stops, Revives, Quiet
  <2> QED
    BY <2>6, <2>7
<1> QED
  BY <1>2, <1>10, <1>11

LEMMA ReclaimOrphanFine ==
    ASSUME HInv, NEW t \in Tasks, NEW a \in Attempts, ReclaimOrphan(t, a)
    PROVE  \A u \in Tasks : Fine(u)
<1> DEFINE n == [mem[t] EXCEPT !.proc[a] = "killed"]
<1>1. /\ n.pgen = mem[t].pgen /\ mem[t].proc[a] \in Registered /\ a # db[t].sel
      /\ \A b \in Attempts : b # a => n.proc[b] = mem[t].proc[b]
      /\ ProcOnly(mem[t], n, a)
      /\ mem' = [mem EXCEPT ![t] = n] /\ UNCHANGED db
  BY HeldFacts DEF ReclaimOrphan, Volatile, ProcOnly
<1> HIDE DEF n
<1>2. mem[t].proc[a] # "none"
  BY <1>1 DEF Registered
<1>3. Held(db[t], n)
  BY <1>1, <1>2, HeldFacts, HeldElsewhere
<1>4. mem[t].proc[db[t].sel] = "live" => n.proc[db[t].sel] # "none"
  BY <1>1, HeldFacts
<1> QED
  BY <1>1, <1>3, <1>4, FineMemory

LEMMA KillDoneFine ==
    ASSUME HInv, NEW t \in Tasks, NEW a \in Attempts, KillDone(t, a)
    PROVE  \A u \in Tasks : Fine(u)
<1> DEFINE n == [mem[t] EXCEPT !.proc[a] = "killed"]
<1>1. /\ n.pgen = mem[t].pgen /\ mem[t].proc[a] = "killing" /\ n.proc[a] = "killed"
      /\ \A b \in Attempts : b # a => n.proc[b] = mem[t].proc[b]
      /\ ProcOnly(mem[t], n, a)
      /\ mem' = [mem EXCEPT ![t] = n] /\ UNCHANGED db
  BY HeldFacts DEF KillDone, Volatile, ProcOnly
<1> HIDE DEF n
<1>2. ASSUME a = db[t].sel PROVE Held(db[t], n)
  <2>1. db[t].status \notin {"pending", "queued"}
    BY <1>1, <1>2, HeldFacts DEF Kin
  <2> QED
    BY <1>1, <2>1, HeldFacts, HeldHere
<1>3. ASSUME a # db[t].sel PROVE Held(db[t], n)
  BY <1>1, <1>3, HeldFacts, HeldElsewhere
<1>4. mem[t].proc[db[t].sel] = "live" => n.proc[db[t].sel] # "none"
  BY <1>1, HeldFacts
<1> QED
  BY <1>1, <1>2, <1>3, <1>4, FineMemory

\* A boot preserves, fails or launches anew what was in flight.
LEMMA RestartFine ==
    ASSUME HInv, NEW reclaimed \in BOOLEAN, Restart(reclaimed)
    PROVE  \A t \in Tasks : Fine(t)
<1> DEFINE lost == {t \in Tasks : InFlight(db[t])}
           late == {t \in lost : Startable(db[t])}
           kept == [t \in Tasks |-> IF t \in lost THEN [db[t] EXCEPT !.preserved = TRUE]
                                    ELSE db[t]]
           left(s) == [t \in Tasks |-> IF t \in lost \ s THEN Settle(db[t], "failed") ELSE db[t]]
<1>1. /\ mem' \in [Tasks -> Volatile]
      /\ \A t \in Tasks, a \in Attempts : mem'[t].proc[a] = "none"
  BY NoRuntimeTyped DEF Restart, NoRuntime
<1>2. ASSUME NEW k, Sound(k), NEW t \in Tasks, k.sel = db[t].sel, k.gen = db[t].gen, k.row = db[t].row
      PROVE  Kin(k, mem'[t])
  BY <1>1, <1>2, HeldFacts DEF Kin, Sound, Durable
<1>3. ASSUME NEW d, Drain(d, Tasks, Tasks), NEW t \in Tasks,
             \A u \in Tasks : Sound(d[u]) /\ Kin(d[u], mem'[u]),
             Quiet(db[t], d[t]), ~Recoverable(d[t], mem'[t]) => db'[t] # d[t],
             db[t].status = "running" /\ ~db[t].preserved =>
                 d[t].preserved \/ d[t].status \notin {"pending", "queued", "running"},
             d[t].status = db[t].status \/ d[t].status \notin {"pending", "queued", "running"}
      PROVE  Fine(t)
  <2>1. /\ Quiet(d[t], db'[t])
        /\ \/ db'[t] = d[t]
           \/ Held(db'[t], mem'[t]) /\ db'[t].status = "queued" /\ Startable(d[t])
    BY <1>1, <1>3, DrainHeld
  <2>2. Held(db'[t], mem'[t]) /\ Quiet(db[t], db'[t])
    BY <1>3, <2>1 DEF Held, Quiet
  <2>3. Heard(t)
    BY <1>3, <2>1 DEF Heard, Startable
  <2> QED
    BY <2>2, <2>3 DEF Fine, Stops, Revives, Quiet
<1>4. CASE Drain(kept, Tasks, Tasks)
  <2>1. ASSUME NEW t \in Tasks
        PROVE  /\ Sound(kept[t]) /\ Kin(kept[t], mem'[t]) /\ Quiet(db[t], kept[t])
               /\ Recoverable(kept[t], mem'[t])
               /\ kept[t].status = db[t].status
               /\ db[t].status = "running" /\ ~db[t].preserved => kept[t].preserved
    <3> DEFINE j == [db[t] EXCEPT !.preserved = TRUE]
    <3>1. /\ j \in Durable /\ j.status = db[t].status /\ j.sel = db[t].sel
          /\ j.gen = db[t].gen /\ j.phase = db[t].phase
          /\ j.att = db[t].att /\ j.row = db[t].row /\ j.prompted = db[t].prompted
          /\ j.preserved
      BY HeldFacts DEF Durable
    <3>2. CASE t \in lost
      <4>1. kept[t] = j
        BY <3>2
      <4> HIDE DEF j, kept
      <4>2. Sound(j)
        BY <3>1, HeldFacts, FieldsKeep DEF Keeps
      <4>3. Kin(j, mem'[t])
        BY <1>2, <3>1, <4>2
      <4>4. Quiet(db[t], j) /\ Recoverable(j, mem'[t])
        BY <3>1, StuckSame DEF Quiet, Recoverable
      <4> QED
        BY <3>1, <4>1, <4>2, <4>3, <4>4
    <3>3. CASE t \notin lost
      <4>1. kept[t] = db[t] /\ ~InFlight(db[t])
        BY <3>3
      <4> HIDE DEF j, kept
      <4>2. Kin(db[t], mem'[t])
        BY <1>2, HeldFacts
      <4>3. Recoverable(db[t], mem'[t])
        BY <4>1 DEF InFlight, Recoverable
      <4> QED
        BY <4>1, <4>2, <4>3, HeldFacts DEF Quiet, InFlight
    <3> QED
      BY <3>2, <3>3
  <2> HIDE DEF kept
  <2> QED
    BY <1>3, <1>4, <2>1
<1>5. ASSUME NEW s \in SUBSET late, Drain(left(s), Tasks, Tasks),
             \A t \in s : db'[t] # left(s)[t]
      PROVE  \A t \in Tasks : Fine(t)
  <2>1. ASSUME NEW t \in Tasks
        PROVE  /\ Sound(left(s)[t]) /\ Kin(left(s)[t], mem'[t]) /\ Quiet(db[t], left(s)[t])
               /\ ~Recoverable(left(s)[t], mem'[t]) => t \in s
               /\ \/ left(s)[t].status = db[t].status
                  \/ left(s)[t].status \notin {"pending", "queued", "running"}
               /\ db[t].status = "running" /\ ~db[t].preserved =>
                    left(s)[t].status \notin {"pending", "queued", "running"}
    <3>1. CASE t \in lost \ s
      <4> DEFINE j == Settle(db[t], "failed")
      <4>1. left(s)[t] = j
        BY <3>1
      <4>2. db[t].status \in {"pending", "queued", "running"} /\ "failed" \in Outcomes
        BY <3>1 DEF InFlight, Outcomes
      <4>3. /\ j.sel = db[t].sel /\ j.gen = db[t].gen /\ j.row = db[t].row
            /\ j.status = "failed" /\ Sound(j)
        BY <4>2, HeldFacts, EndFields, SettleKeeps DEF Keeps
      <4> HIDE DEF j, left
      <4>4. Kin(j, mem'[t])
        BY <1>2, <4>3
      <4>5. Recoverable(j, mem'[t]) /\ Quiet(db[t], j)
        BY <4>3, StuckSame DEF Recoverable, Quiet
      <4> QED
        BY <4>1, <4>3, <4>4, <4>5
    <3>2. CASE t \notin lost \ s
      <4>1. left(s)[t] = db[t]
        BY <3>2
      <4>2. t \in s \/ ~InFlight(db[t])
        BY <3>2
      <4>3. t \in s => Startable(db[t])
        OBVIOUS
      <4> HIDE DEF left
      <4>4. Kin(db[t], mem'[t])
        BY <1>2, HeldFacts
      <4>5. ~Recoverable(db[t], mem'[t]) => t \in s
        BY <4>2 DEF InFlight, Recoverable
      <4> QED
        BY <4>1, <4>2, <4>3, <4>4, <4>5, HeldFacts DEF Quiet, InFlight, Startable
    <3> QED
      BY <3>1, <3>2
  <2> HIDE DEF left
  <2> QED
    BY <1>3, <1>5, <2>1
<1> QED
  BY <1>4, <1>5 DEF Restart

LEMMA NextFine == HInv /\ [Next]_vars => \A u \in Tasks : Fine(u)
<1> SUFFICES ASSUME HInv, [Next]_vars PROVE \A u \in Tasks : Fine(u)
  OBVIOUS
<1>1. ASSUME NEW t \in Tasks, TaskStep(t) PROVE \A u \in Tasks : Fine(u)
  BY <1>1, BackoffFine, LeaseFine, ExecutingStallFine, CancelFine, ProvideInputFine,
     BeginRetryFine, FinishRetryFine
  DEF TaskStep, Heartbeat, LeaseExpires
<1>2. ASSUME NEW t \in Tasks, NEW a \in Attempts, AttemptStep(t, a) PROVE \A u \in Tasks : Fine(u)
  BY <1>2, ClaimFine, FenceFine, AbandonStuckFine, ReapFine, LaunchAcceptedFine,
     LaunchRejectedFine, RejectKilledFine, LaunchThrowsFine, FailureReportedFine,
     ResourceLimitFine, CompletesFine, ReclaimOrphanFine, KillDoneFine
  DEF AttemptStep
<1>3. CASE UNCHANGED vars
  BY <1>3, HeldFacts, FineQuiet DEF vars, Quiet
<1> QED
  BY <1>1, <1>2, <1>3, TopUpFine, RestartFine DEF Next

LEMMA InitHeld == Init => HInv
<1> SUFFICES ASSUME Init, NEW t \in Tasks PROVE Held(db[t], mem[t])
  BY InitSound DEF HInv
<1>1. db[t].sel = 1 /\ db[t].gen = 0 /\ db[t].phase = "none" /\ 1 \in Attempts
  BY BoundsAssumption DEF Init, Attempts
<1>2. db[t].row[1] = NoRow /\ \A a \in Attempts : mem[t].proc[a] = "none"
  BY <1>1 DEF Init, NoRuntime
<1> QED
  BY <1>1, <1>2 DEF Held, Kin, Recoverable, NoRow, LiveRow

\* In every behaviour the claims, rows and processes of a task fit together.
THEOREM LaunchKinship == Spec => []HInv
<1>1. Init => HInv
  BY InitHeld
<1>2. HInv /\ [Next]_vars => HInv'
  BY NextFine, NextSound DEF HInv, Fine, Done
<1> QED
  BY <1>1, <1>2, LaunchInvariant, PTL DEF Spec

\* In every reachable state a task that was claimed for launch has a row, or
\* a launch, that brings it further, unless outbox writes can fail.
THEOREM LaunchClaimedIsRecoverable == Spec => []ClaimedIsRecoverable
<1>1. HInv => ClaimedIsRecoverable
  BY DEF HInv, Held, Recoverable, ClaimedIsRecoverable
<1> QED
  BY LaunchKinship, <1>1, PTL

\* The end of a process that runs a task is never ignored as stale.
THEOREM LaunchEndIsHeard == Spec => EndIsHeard
<1>1. HInv /\ [Next]_vars =>
        [\A t \in Tasks :
          /\ db[t].status = "running" /\ ~db[t].preserved
          /\ mem[t].proc[db[t].sel] = "live" /\ mem'[t].proc[db[t].sel] = "none"
          => db'[t].status # "running" \/ db'[t].preserved]_vars
  BY NextFine DEF Fine, Heard
<1> QED
  BY LaunchKinship, <1>1, PTL DEF Spec, EndIsHeard

\* A stuck lease beyond the budget never mints another attempt.
THEOREM LaunchStuckBudgetStops == Spec => StuckBudgetStops
<1>1. HInv /\ [Next]_vars =>
        [\A t \in Tasks :
          /\ StuckRows(db'[t]) # StuckRows(db[t])
          /\ Cardinality(StuckRows(db'[t])) > MaxStuck
          => db'[t].sel = db[t].sel /\ db'[t].status \in {"failed", "completed"}]_vars
  BY NextFine DEF Fine, Stops
<1> QED
  BY LaunchKinship, <1>1, PTL DEF Spec, StuckBudgetStops

\* A task that was cancelled or has failed comes back by a retry only, or by
\* a launch of it that ends for want of capacity.
THEOREM LaunchEndedRevivedOnlyByRetry == Spec => EndedRevivedOnlyByRetry
<1>1. HInv /\ [Next]_vars =>
        [\A t \in Tasks : db[t].status = "failed" /\ db'[t].status # "failed" =>
          \/ mem[t].retry
          \/ /\ db'[t].status = "queued" /\ mem'[t].parked
             /\ \E a \in Attempts : mem[t].proc[a] = "starting" /\ mem'[t].proc[a] = "none"]_vars
  BY NextFine DEF Fine, Revives
<1> QED
  BY LaunchKinship, <1>1, PTL DEF Spec, EndedRevivedOnlyByRetry

-----------------------------------------------------------------------------
(* Slots: how many tasks may hold one.                                     *)

Slot(k) == Counted(k) /\ ~k.prompted
Slots(d) == {t \in Tasks : Slot(d[t])}
Few(d) == "stall" \notin Faults => Cardinality(Slots(d)) <= MaxConcurrency

\* A task that is not running yet waits with a fresh attempt nobody has
\* started, or with a claimed one that is in a launch phase.
Waiting(k, m) ==
    k.status \in {"pending", "queued"} =>
        \/ k.att[k.sel] = "pending" /\ m.proc[k.sel] = "none"
        \/ k.att[k.sel] \in Leasable /\ k.phase # "none"

\* A claimed attempt keeps its lease as long as somebody attends to it.
Leased(k, m) ==
    "stall" \notin Faults /\ k.att[k.sel] \in Leasable /\ ~k.prompted /\ Attended(k, m) => k.lease

Ready(k, m) == Waiting(k, m) /\ Leased(k, m)

\* What a step must establish.
Tidy == (\A t \in Tasks : Ready(db'[t], mem'[t])) /\ Few(db')

SInv == HInv /\ (\A t \in Tasks : Ready(db[t], mem[t])) /\ Few(db)

LEMMA FewerSlots ==
    ASSUME NEW d, NEW e, Few(d), \A t \in Tasks : "stall" \notin Faults /\ Slot(e[t]) => Slot(d[t])
    PROVE  Few(e)
<1> SUFFICES ASSUME "stall" \notin Faults PROVE Cardinality(Slots(e)) <= MaxConcurrency
  BY DEF Few
<1>1. Slots(e) \subseteq Slots(d)
  BY DEF Slots
<1>2. IsFiniteSet(Slots(d))
  BY TasksAssumption, FS_Subset DEF Slots
<1>3. /\ Cardinality(Slots(e)) <= Cardinality(Slots(d))
      /\ Cardinality(Slots(e)) \in Nat /\ Cardinality(Slots(d)) \in Nat
  BY <1>1, <1>2, FS_Subset, FS_CardinalityType
<1> QED
  BY <1>3, BoundsAssumption DEF Few

\* Rows may fade without anything else of the record changing.
Alike(k, j) ==
    /\ j.status = k.status /\ j.phase = k.phase /\ j.sel = k.sel /\ j.att = k.att
    /\ (j.lease <=> k.lease) /\ (j.prompted <=> k.prompted) /\ (j.preserved <=> k.preserved)

LEMMA AlikeReady ==
    ASSUME NEW k \in Durable, NEW j, NEW m, Alike(k, j), Fades(k, j)
    PROVE  (Ready(k, m) => Ready(j, m)) /\ (Slot(j) <=> Slot(k))
<1>1. k.sel \in Attempts
  BY DEF Durable
<1>2. Slot(j) <=> Slot(k)
  BY DEF Alike, Slot, Counted
<1>3. Attended(j, m) => Attended(k, m)
  BY <1>1 DEF Alike, Fades, Attended
<1>4. Waiting(k, m) => Waiting(j, m)
  BY DEF Alike, Waiting
<1>5. Leased(k, m) => Leased(j, m)
  BY <1>3 DEF Alike, Leased
<1> QED
  BY <1>2, <1>4, <1>5 DEF Ready

\* The end of a task gives its slot back.
Closes(k, j) ==
    /\ j.status \in {"completed", "failed", "needs_input"} /\ j.sel = k.sel
    /\ (j.lease <=> k.lease) /\ (k.prompted => j.prompted) /\ (j.preserved <=> k.preserved)
    /\ j.att[k.sel] \in Leasable => k.att[k.sel] \in Leasable

LEMMA ClosesReady ==
    ASSUME NEW k \in Durable, NEW j, NEW m, Closes(k, j), Fades(k, j), Ready(k, m)
    PROVE  Ready(j, m) /\ ~Slot(j)
<1>1. k.sel \in Attempts
  BY DEF Durable
<1>2. ~Slot(j)
  BY DEF Closes, Slot, Counted
<1>3. Attended(j, m) => Attended(k, m)
  BY <1>1 DEF Closes, Fades, Attended
<1>4. Waiting(j, m)
  BY DEF Closes, Waiting
<1>5. Leased(j, m)
  BY <1>3 DEF Closes, Leased, Ready
<1> QED
  BY <1>2, <1>4, <1>5 DEF Ready

\* A fresh attempt holds no slot.
LEMMA FreshReady ==
    ASSUME NEW j, NEW m, j.status \in {"pending", "queued"}, j.att[j.sel] = "pending",
           m.proc[j.sel] = "none"
    PROVE  Ready(j, m) /\ ~Slot(j)
BY DEF Ready, Waiting, Leased, Leasable, Slot, Counted

\* Processes that only wind down.
Calm(m, n) ==
    \A a \in Attempts :
        \/ n.proc[a] = m.proc[a]
        \/ n.proc[a] = "none"
        \/ m.proc[a] # "none" /\ n.proc[a] \notin {"starting", "live"}

LEMMA CalmReady ==
    ASSUME NEW k \in Durable, NEW m, NEW n, Calm(m, n), Ready(k, m)
    PROVE  Ready(k, n)
<1>1. k.sel \in Attempts
  BY DEF Durable
<1>2. Attended(k, n) => Attended(k, m)
  BY <1>1 DEF Calm, Attended
<1>3. Leased(k, n)
  BY <1>2 DEF Leased, Ready
<1>4. Waiting(k, n)
  BY <1>1 DEF Waiting, Calm, Ready
<1> QED
  BY <1>3, <1>4 DEF Ready

-----------------------------------------------------------------------------
(* The writes, seen from the slots.                                        *)

LEMMA EndRowAlike ==
    ASSUME NEW k \in Durable, NEW a \in Attempts, NEW end
    PROVE  Alike(k, EndRow(k, a, end))
BY DEF Alike, EndRow, Durable

LEMMA FailDispatchAlike ==
    ASSUME NEW k \in Durable, NEW a \in Attempts
    PROVE  Alike(k, FailDispatch(k, a))
BY EndRowAlike DEF FailDispatch

LEMMA AbandonRowsAlike ==
    ASSUME NEW k \in Durable
    PROVE  Alike(k, AbandonRows(k))
BY DEF Alike, AbandonRows, Durable

LEMMA MarkCancelledCloses ==
    ASSUME NEW k \in Durable
    PROVE  /\ Closes(k, MarkCancelled(k)) /\ MarkCancelled(k).row = k.row
<1>1. CASE k.status = "completed"
  BY <1>1 DEF MarkCancelled, Closes
<1>2. CASE k.status # "completed"
  <2> DEFINE f == [k.att EXCEPT ![k.sel] = "failed"]
             j == MarkCancelled(k)
  <2>1. k.sel \in Attempts /\ f[k.sel] = "failed"
    BY DEF Durable
  <2>2. j = [k EXCEPT !.status = "failed", !.att = f]
    BY <1>2 DEF MarkCancelled, Durable
  <2> HIDE DEF f
  <2>3. /\ j.status = "failed" /\ j.sel = k.sel /\ j.lease = k.lease
        /\ j.prompted = k.prompted /\ j.preserved = k.preserved /\ j.att = f
        /\ j.row = k.row
    BY <2>2 DEF Durable
  <2> HIDE DEF j
  <2>4. Closes(k, j)
    BY <2>1, <2>3 DEF Closes, Leasable
  <2> QED
    BY <2>3, <2>4 DEF j
<1> QED
  BY <1>1, <1>2

LEMMA FailTaskCloses ==
    ASSUME NEW k \in Durable
    PROVE  /\ Closes(k, FailTask(k)) /\ FailTask(k).row = k.row
<1>1. CASE k.status \in {"completed", "failed"}
  BY <1>1 DEF FailTask, Closes
<1>2. CASE k.status \notin {"completed", "failed"}
  BY <1>2, MarkCancelledCloses DEF FailTask, MarkCancelled
<1> QED
  BY <1>1, <1>2

LEMMA SettleCloses ==
    ASSUME NEW k \in Durable, NEW o \in Outcomes
    PROVE  /\ Closes(k, Settle(k, o)) /\ Settle(k, o).row = k.row
<1> DEFINE old == k.att[k.sel]
           x == CASE o = "completed" -> IF old = "running" THEN o ELSE old
                  [] o = "failed" -> IF old \in Leasable THEN o ELSE old
                  [] OTHER -> o
           f == [k.att EXCEPT ![k.sel] = x]
           j == Settle(k, o)
<1>1. k.sel \in Attempts /\ f[k.sel] = x
  BY DEF Durable
<1>2. x \in Leasable => old \in Leasable
  BY DEF Outcomes, Leasable
<1>3. j = [k EXCEPT !.status = o, !.prompted = @ \/ o = "needs_input", !.att = f]
  BY DEF Settle, Durable
<1> HIDE DEF f, x
<1>4. /\ j.status = o /\ j.sel = k.sel /\ j.lease = k.lease
      /\ j.preserved = k.preserved /\ j.att = f /\ j.row = k.row
      /\ k.prompted => j.prompted
  BY <1>3 DEF Durable
<1> HIDE DEF j
<1>5. Closes(k, j)
  BY <1>1, <1>2, <1>4 DEF Closes, Outcomes
<1> QED
  BY <1>4, <1>5 DEF j

\* A prepared attempt begins pending.
LEMMA PendingFresh ==
    ASSUME NEW k, Sound(k), MoreAttempts(k)
    PROVE  /\ Prepare(k).att[k.sel + 1] = "pending" /\ Prepare(k).sel = k.sel + 1
           /\ Prepare(k).status = "pending"
<1> DEFINE s == SelectFresh(k)
           n == NewAttempt(k)
<1>1. k.sel + 1 \in Attempts
  BY BoundsAssumption DEF Sound, Durable, Attempts, MoreAttempts
<1>2. s \in Durable /\ s.sel = k.sel + 1 /\ s.att[k.sel + 1] = "pending"
  BY <1>1, SelectFreshFields DEF Sound
<1>3. n = [s EXCEPT !.status = "pending", !.phase = "none", !.preserved = FALSE]
  BY DEF NewAttempt
<1> HIDE DEF s
<1>4. n.att = s.att
  BY <1>2, <1>3 DEF Durable
<1>5. n \in Durable
  BY NewAttemptKeeps DEF Keeps, Sound
<1>6. Prepare(k) = [n EXCEPT !.gen = k.gen + 1]
  BY DEF Prepare
<1> HIDE DEF n
<1>7. Prepare(k).att = n.att
  BY <1>5, <1>6 DEF Durable
<1> QED
  BY <1>2, <1>4, <1>7, PrepareKeeps, NewAttemptFields

\* Every fresh attempt is pending, and nothing runs for it yet.
LEMMA FreshRecordsReady ==
    ASSUME NEW k, Sound(k), NEW m \in Volatile, Kin(k, m), MoreAttempts(k)
    PROVE  /\ Ready(Prepare(k), m) /\ ~Slot(Prepare(k))
           /\ Ready(Reset(k), m) /\ ~Slot(Reset(k))
           /\ Ready(Defer(k), m) /\ ~Slot(Defer(k))
<1> DEFINE r == AbandonRows(k)
<1>1. /\ k \in Durable /\ k.sel \in Nat /\ k.sel + 1 \in Attempts /\ k.sel + 1 > k.sel
  BY BoundsAssumption DEF Sound, Durable, Attempts, MoreAttempts
<1>2. m.proc[k.sel + 1] = "none"
  BY <1>1 DEF Kin
<1>3. Sound(r) /\ r \in Durable /\ r.sel = k.sel /\ MoreAttempts(r)
  BY AbandonRowsKeeps DEF Keeps, Sound, MoreAttempts
<1>5. Ready(Prepare(k), m) /\ ~Slot(Prepare(k))
  BY <1>2, PendingFresh, FreshReady
<1>6. Ready(Reset(k), m) /\ ~Slot(Reset(k))
  BY <1>2, <1>3, PendingFresh, FreshReady DEF Reset
<1>7. Ready(Defer(k), m) /\ ~Slot(Defer(k))
  <2> DEFINE s == SelectFresh(r)
  <2> HIDE DEF r
  <2>1. s \in Durable /\ s.att[k.sel + 1] = "pending" /\ s.sel = k.sel + 1
    BY <1>1, <1>3, SelectFreshFields
  <2>2. Defer(k) = [s EXCEPT !.status = "queued", !.phase = "none"]
    BY DEF Defer, r
  <2> HIDE DEF s
  <2>3. Defer(k).att = s.att /\ Defer(k).sel = s.sel /\ Defer(k).status = "queued"
    BY <2>1, <2>2 DEF Durable
  <2> QED
    BY <1>2, <2>1, <2>3, FreshReady
<1> QED
  BY <1>5, <1>6, <1>7

\* A claim leaves the selected attempt claimed, leased and launching.
LEMMA LaunchReady ==
    ASSUME NEW k, Sound(k), Startable(k), NEW written \in BOOLEAN, NEW m
    PROVE  Ready(Launch(k, written), m)
<1> DEFINE j == IF Reusable(k) THEN k ELSE NewAttempt(k)
           f == [j.att EXCEPT ![j.sel] = "claimed"]
           w == IF written THEN [NoRow EXCEPT !.state = "enqueued", !.gen = j.gen]
                ELSE j.row[j.sel]
           r == [j.row EXCEPT ![j.sel] = w]
           n == Launch(k, written)
<1>1. j \in Durable
  BY NewAttemptKeeps DEF Startable, Keeps, Sound
<1>2. n = [j EXCEPT !.status = "queued", !.phase = "launching",
                    !.lease = TRUE, !.att = f, !.row = r]
  BY <1>1 DEF Launch, Durable
<1> HIDE DEF j, r
<1>3. j.sel \in Attempts /\ f[j.sel] = "claimed"
  BY <1>1 DEF Durable
<1> HIDE DEF f
<1>4. n.phase = "launching" /\ n.lease /\ n.att = f /\ n.sel = j.sel
  BY <1>1, <1>2 DEF Durable
<1> HIDE DEF n
<1>5. Ready(n, m)
  BY <1>3, <1>4 DEF Ready, Waiting, Leased, Leasable
<1> QED
  BY <1>5 DEF n

\* A drain counts the slots that are held, and launches no more tasks than
\* there are slots left.
LEMMA DrainFew ==
    ASSUME NEW d, Few(d), NEW queue \in SUBSET Tasks, NEW wanted, Drain(d, queue, wanted)
    PROVE  Few(db')
<1> DEFINE occ == Occupied(d)
           busy == Cardinality(Occupied(d))
<1>1. PICK L \in SUBSET {t \in queue : Startable(d[t])}, E \in SUBSET Tasks :
        /\ L # {} => busy + Cardinality(L) <= MaxConcurrency
        /\ db' = [t \in Tasks |-> IF t \in L THEN Launch(d[t], t \notin E) ELSE d[t]]
  BY DEF Drain
<1>2. CASE L = {}
  <2>1. \A t \in Tasks : db'[t] = d[t]
    BY <1>1, <1>2
  <2> QED
    BY <2>1, FewerSlots
<1>3. CASE L # {}
  <2>1. IsFiniteSet(occ) /\ IsFiniteSet(L)
    BY TasksAssumption, FS_Subset DEF Occupied
  <2>2. Slots(db') \subseteq occ \cup L
    BY <1>1 DEF Slots, Slot, Occupied
  <2>3. /\ IsFiniteSet(occ \cup L)
        /\ Cardinality(occ \cup L) = Cardinality(occ) + Cardinality(L) - Cardinality(occ \cap L)
    BY <2>1, FS_Union
  <2>4. IsFiniteSet(occ \cap L)
    BY <2>1, FS_Subset
  <2>5. /\ Cardinality(Slots(db')) <= Cardinality(occ \cup L) /\ IsFiniteSet(Slots(db'))
    BY <2>2, <2>3, FS_Subset
  <2>6. /\ Cardinality(Slots(db')) \in Nat /\ Cardinality(occ) \in Nat
        /\ Cardinality(L) \in Nat /\ Cardinality(occ \cap L) \in Nat
    BY <2>1, <2>4, <2>5, FS_CardinalityType
  <2>7. Cardinality(occ) + Cardinality(L) <= MaxConcurrency
    BY <1>1, <1>3
  <2> HIDE DEF occ
  <2>8. Cardinality(Slots(db')) <= MaxConcurrency
    BY <2>3, <2>5, <2>6, <2>7, BoundsAssumption
  <2> QED
    BY <2>8 DEF Few
<1> QED
  BY <1>2, <1>3

LEMMA DrainReady ==
    ASSUME NEW d, NEW m, NEW queue \in SUBSET Tasks, NEW wanted, Drain(d, queue, wanted),
           \A t \in Tasks : Sound(d[t]) /\ Ready(d[t], m[t])
    PROVE  \A t \in Tasks : Ready(db'[t], m[t])
<1>1. PICK L \in SUBSET {t \in queue : Startable(d[t])}, E \in SUBSET Tasks :
        db' = [t \in Tasks |-> IF t \in L THEN Launch(d[t], t \notin E) ELSE d[t]]
  BY DEF Drain
<1> TAKE t \in Tasks
<1>2. CASE t \in L
  <2>1. Startable(d[t]) /\ db'[t] = Launch(d[t], t \notin E) /\ (t \notin E) \in BOOLEAN
    BY <1>1, <1>2
  <2> QED
    BY <2>1, LaunchReady
<1>3. CASE t \notin L
  BY <1>1, <1>3
<1> QED
  BY <1>2, <1>3

-----------------------------------------------------------------------------
(* Steps of one shape.                                                     *)

LEMMA ReadyFacts ==
    ASSUME SInv, NEW t \in Tasks
    PROVE  /\ HInv /\ IInv /\ db \in [Tasks -> Durable] /\ mem \in [Tasks -> Volatile]
           /\ Sound(db[t]) /\ db[t] \in Durable /\ mem[t] \in Volatile
           /\ Kin(db[t], mem[t]) /\ db[t].sel \in Attempts /\ Ready(db[t], mem[t])
           /\ Owned(db[t], mem[t]) /\ Few(db)
BY HeldFacts, TaskFacts DEF SInv

LEMMA TidyOne ==
    ASSUME SInv, NEW t \in Tasks, NEW j, NEW n,
           db' = [db EXCEPT ![t] = j], mem' = [mem EXCEPT ![t] = n],
           Ready(j, n), "stall" \notin Faults /\ Slot(j) => Slot(db[t])
    PROVE  Tidy
<1>1. /\ db'[t] = j /\ mem'[t] = n
      /\ \A u \in Tasks : u # t => db'[u] = db[u] /\ mem'[u] = mem[u]
  BY ReadyFacts
<1>2. \A u \in Tasks : Ready(db'[u], mem'[u])
  BY <1>1, ReadyFacts
<1>3. Few(db')
  <2>1. \A u \in Tasks : "stall" \notin Faults /\ Slot(db'[u]) => Slot(db[u])
    BY <1>1
  <2> DEFINE e == db'
  <2>2. \A u \in Tasks : "stall" \notin Faults /\ Slot(e[u]) => Slot(db[u])
    BY <2>1
  <2> HIDE DEF e
  <2>3. Few(e)
    BY <2>2, ReadyFacts, FewerSlots
  <2> QED
    BY <2>3 DEF e
<1> QED
  BY <1>2, <1>3 DEF Tidy

LEMMA TidyRecord ==
    ASSUME SInv, NEW t \in Tasks, NEW j, UNCHANGED mem,
           db' = [db EXCEPT ![t] = j],
           Ready(j, mem[t]), "stall" \notin Faults /\ Slot(j) => Slot(db[t])
    PROVE  Tidy
<1>1. mem' = [mem EXCEPT ![t] = mem[t]]
  BY ReadyFacts
<1> QED
  BY <1>1, TidyOne

LEMMA TidyMemory ==
    ASSUME SInv, NEW t \in Tasks, NEW n, UNCHANGED db,
           mem' = [mem EXCEPT ![t] = n], Calm(mem[t], n)
    PROVE  Tidy
<1>1. db' = [db EXCEPT ![t] = db[t]]
  BY ReadyFacts
<1>2. Ready(db[t], n)
  BY ReadyFacts, CalmReady
<1> QED
  BY <1>1, <1>2, TidyOne

\* A drain from a state in which no task has gained a slot.
LEMMA TidyDrain ==
    ASSUME SInv, NEW d, NEW m, NEW queue \in SUBSET Tasks, NEW wanted, Drain(d, queue, wanted),
           \A t \in Tasks : Sound(d[t]) /\ Ready(d[t], m[t]),
           \A t \in Tasks : Slot(d[t]) => Slot(db[t]),
           \A t \in Tasks : mem'[t].proc = m[t].proc
    PROVE  Tidy
<1>1. Few(db)
  BY DEF SInv
<1>2. Few(d)
  BY <1>1, FewerSlots
<1>3. Few(db')
  BY <1>2, DrainFew
<1>4. \A t \in Tasks : Ready(db'[t], m[t])
  BY DrainReady
<1>5. \A t \in Tasks : Ready(db'[t], mem'[t])
  BY <1>4 DEF Ready, Waiting, Leased, Attended
<1> QED
  BY <1>3, <1>5 DEF Tidy

LEMMA RespondTidy ==
    ASSUME SInv, NEW d \in [Tasks -> Durable], NEW m \in [Tasks -> Volatile], NEW t \in Tasks,
           NEW a, NEW g, NEW o \in Outcomes, Respond(d, m, t, a, g, o),
           \A u \in Tasks : Sound(d[u]) /\ Ready(d[u], m[u]),
           \A u \in Tasks : Slot(d[u]) => Slot(db[u])
    PROVE  Tidy
<1> DEFINE d1 == [d EXCEPT ![t] = Settle(d[t], o)]
<1>1. CASE ~Accepts(d[t], a, g) /\ db' = d /\ mem' = m
  BY <1>1, FewerSlots DEF SInv, Tidy
<1>2. CASE Accepts(d[t], a, g)
  <2>1. /\ Sound(Settle(d[t], o)) /\ Ready(Settle(d[t], o), m[t]) /\ ~Slot(Settle(d[t], o))
    <3>1. d[t].status \in {"pending", "queued", "running"}
      BY <1>2 DEF Accepts, Executable
    <3>2. Sound(Settle(d[t], o))
      BY <3>1, SettleKeeps DEF Keeps
    <3> QED
      BY <3>2, SettleCloses, StuckSame, ClosesReady
  <2>2. /\ \A u \in Tasks : Sound(d1[u]) /\ Ready(d1[u], m[u])
        /\ \A u \in Tasks : Slot(d1[u]) => Slot(db[u])
    BY <2>1
  <2>3. /\ \/ db' = d1 /\ mem' = m
           \/ Drain(d1, Tasks, Tasks) /\ mem' = Unpark(m)
    BY <1>2 DEF Respond
  <2> HIDE DEF d1
  <2>4. CASE db' = d1 /\ mem' = m
    BY <2>2, <2>4, FewerSlots DEF SInv, Tidy
  <2>5. CASE Drain(d1, Tasks, Tasks) /\ mem' = Unpark(m)
    <3>1. \A u \in Tasks : mem'[u].proc = m[u].proc
      BY <2>5 DEF Unpark, Volatile
    <3> QED
      BY <2>2, <2>5, <3>1, TidyDrain
  <2> QED
    BY <2>3, <2>4, <2>5
<1> QED
  BY <1>1, <1>2 DEF Respond

-----------------------------------------------------------------------------
(* One lemma per action.                                                   *)

LEMMA TopUpTidy == ASSUME SInv, TopUp PROVE Tidy
<1>1. Drain(db, Tasks \ Parked, Tasks \ Parked) /\ mem' = mem
  BY DEF TopUp
<1> QED
  BY <1>1, ReadyFacts, TidyDrain

LEMMA BackoffTidy == ASSUME SInv, NEW t \in Tasks, BackoffElapses(t) PROVE Tidy
<1> DEFINE n == [mem[t] EXCEPT !.parked = FALSE]
<1>1. mem' = [mem EXCEPT ![t] = n] /\ UNCHANGED db /\ n.proc = mem[t].proc
  BY ReadyFacts DEF BackoffElapses, Volatile
<1> HIDE DEF n
<1> QED
  BY <1>1, TidyMemory DEF Calm

\* A renewed lease belongs to a task that had it all along, or that holds no
\* slot either way.
LEMMA HeartbeatTidy == ASSUME SInv, NEW t \in Tasks, Heartbeat(t) PROVE Tidy
<1> DEFINE k == db[t]
           j == [k EXCEPT !.lease = TRUE]
<1>1. db' = [db EXCEPT ![t] = j] /\ UNCHANGED mem
  BY ReadyFacts DEF Heartbeat, Durable
<1>2. mem[t].proc[k.sel] \in {"starting", "live"} /\ ~k.lease
  BY DEF Heartbeat
<1>3. /\ j.status = k.status /\ j.phase = k.phase /\ j.sel = k.sel /\ j.att = k.att
      /\ j.lease /\ j.prompted = k.prompted /\ j.preserved = k.preserved
  BY ReadyFacts DEF Durable
<1> HIDE DEF j
<1>4. Ready(j, mem[t])
  BY <1>3, ReadyFacts DEF Ready, Waiting, Leased
<1>5. "stall" \notin Faults /\ Slot(j) => Slot(k)
  BY <1>2, <1>3, ReadyFacts DEF Slot, Counted, Ready, Leased, Attended
<1> QED
  BY <1>1, <1>4, <1>5, TidyRecord

LEMMA LeaseExpiresTidy == ASSUME SInv, NEW t \in Tasks, LeaseExpires(t) PROVE Tidy
<1> DEFINE k == db[t]
           j == [k EXCEPT !.lease = FALSE]
<1>1. db' = [db EXCEPT ![t] = j] /\ UNCHANGED mem
  BY ReadyFacts DEF LeaseExpires, Durable
<1>2. "stall" \in Faults \/ ~Attended(k, mem[t])
  BY DEF LeaseExpires
<1>3. /\ j.status = k.status /\ j.phase = k.phase /\ j.sel = k.sel /\ j.att = k.att
      /\ ~j.lease /\ j.prompted = k.prompted /\ j.preserved = k.preserved
      /\ j.row = k.row
  BY ReadyFacts DEF Durable
<1> HIDE DEF j
<1>4. Ready(j, mem[t])
  BY <1>2, <1>3, ReadyFacts DEF Ready, Waiting, Leased, Attended
<1>5. Slot(j) => Slot(k)
  BY <1>3 DEF Slot, Counted
<1> QED
  BY <1>1, <1>4, <1>5, TidyRecord

LEMMA ExecutingStallTidy == ASSUME SInv, NEW t \in Tasks, ExecutingStall(t) PROVE Tidy
<1>1. Respond(db, mem, t, db[t].sel, db[t].gen, "failed") /\ "failed" \in Outcomes
  BY DEF ExecutingStall, Outcomes
<1> QED
  BY <1>1, ReadyFacts, RespondTidy

\* Every victim of a cancel is a process that is registered.
LEMMA KillCalm ==
    ASSUME NEW t \in Tasks, NEW n, NEW v \in Victims(t), n.proc = Kill(mem[t].proc, v)
    PROVE  Calm(mem[t], n)
<1>1. v \in Attempts => mem[t].proc[v] \in Registered
  BY BoundsAssumption DEF Victims, Attempts
<1> QED
  BY <1>1 DEF Calm, Kill, Registered

LEMMA CancelTidy == ASSUME SInv, NEW t \in Tasks, CancelTask(t) PROVE Tidy
<1> DEFINE k == db[t]
           r == AbandonRows(k)
           j == MarkCancelled(r)
<1>1. PICK v \in Victims(t) :
        mem' = [mem EXCEPT ![t].parked = FALSE, ![t].proc = Kill(@, v)]
  BY DEF CancelTask
<1> DEFINE n == [mem[t] EXCEPT !.parked = FALSE, !.proc = Kill(mem[t].proc, v)]
<1>2. mem' = [mem EXCEPT ![t] = n] /\ n.proc = Kill(mem[t].proc, v)
  BY <1>1, ReadyFacts DEF Volatile
<1>3. db' = [db EXCEPT ![t] = j]
  BY DEF CancelTask
<1> HIDE DEF n
<1>4. Ready(k, n)
  BY <1>2, KillCalm, CalmReady, ReadyFacts
<1>5. r \in Durable /\ Ready(r, n)
  <2>1. Sound(r) /\ Fades(k, r) /\ Alike(k, r)
    BY ReadyFacts, AbandonRowsKeeps, AbandonRowsFades, AbandonRowsAlike DEF Keeps
  <2> QED
    BY <1>4, <2>1, ReadyFacts, AlikeReady DEF Sound
<1> HIDE DEF r
<1>6. Ready(j, n) /\ ~Slot(j)
  BY <1>5, MarkCancelledCloses, StuckSame, ClosesReady
<1> QED
  BY <1>2, <1>3, <1>6, TidyOne

LEMMA BeginRetryTidy == ASSUME SInv, NEW t \in Tasks, BeginRetry(t) PROVE Tidy
<1> DEFINE k == db[t]
           j == MarkCancelled(k)
           p == mem[t].parked /\ db[t].status = "completed"
<1>1. PICK v \in Victims(t) :
        mem' = [mem EXCEPT ![t].retry = TRUE, ![t].victim = v, ![t].proc = Kill(@, v),
                           ![t].parked = @ /\ db[t].status = "completed"]
  BY DEF BeginRetry
<1> DEFINE n == [mem[t] EXCEPT !.retry = TRUE, !.victim = v,
                               !.proc = Kill(mem[t].proc, v), !.parked = p]
<1>2. mem' = [mem EXCEPT ![t] = n] /\ n.proc = Kill(mem[t].proc, v)
  BY <1>1, ReadyFacts DEF Volatile
<1>3. db' = [db EXCEPT ![t] = j]
  BY DEF BeginRetry
<1> HIDE DEF n
<1>4. Ready(k, n)
  BY <1>2, KillCalm, CalmReady, ReadyFacts
<1>5. Ready(j, n) /\ ~Slot(j)
  BY <1>4, ReadyFacts, MarkCancelledCloses, StuckSame, ClosesReady
<1> QED
  BY <1>2, <1>3, <1>5, TidyOne

\* A task its user answered takes a slot without asking for one, but is not
\* among those the limit is about.
LEMMA ProvideInputTidy == ASSUME SInv, NEW t \in Tasks, ProvideInput(t) PROVE Tidy
<1> DEFINE k == db[t]
           f == [k.att EXCEPT ![k.sel] = "running"]
           j == [k EXCEPT !.status = "running", !.att = f]
<1>1. db' = [db EXCEPT ![t] = j] /\ UNCHANGED mem /\ k.status = "needs_input"
  BY ReadyFacts DEF ProvideInput, Durable
<1>2. k.prompted
  BY <1>1, ReadyFacts DEF Sound, Lineage
<1>3. j.status = "running" /\ j.prompted = k.prompted
  BY ReadyFacts DEF Durable
<1> HIDE DEF j
<1>4. Ready(j, mem[t]) /\ ~Slot(j)
  BY <1>2, <1>3 DEF Ready, Waiting, Leased, Slot
<1> QED
  BY <1>1, <1>4, TidyRecord

LEMMA FinishRetryTidy == ASSUME SInv, NEW t \in Tasks, FinishRetry(t) PROVE Tidy
<1> DEFINE d == [db EXCEPT ![t] = Reset(db[t])]
           n == [mem[t] EXCEPT !.retry = FALSE, !.victim = 0, !.parked = FALSE]
<1>1. /\ Sound(Reset(db[t])) /\ Ready(Reset(db[t]), mem[t]) /\ ~Slot(Reset(db[t]))
  BY ReadyFacts, ResetKeeps, FreshRecordsReady DEF FinishRetry, Keeps
<1>2. /\ \A u \in Tasks : Sound(d[u]) /\ Ready(d[u], mem[u])
      /\ \A u \in Tasks : Slot(d[u]) => Slot(db[u])
  BY <1>1, ReadyFacts
<1>3. Drain(d, Tasks, {t})
  BY DEF FinishRetry
<1>4. \A u \in Tasks : mem'[u].proc = mem[u].proc
  <2>1. n.proc = mem[t].proc
    BY ReadyFacts DEF Volatile
  <2>2. mem' = [mem EXCEPT ![t] = n]
    BY ReadyFacts DEF FinishRetry, Volatile
  <2> HIDE DEF n
  <2> QED
    BY <2>1, <2>2, ReadyFacts
<1> HIDE DEF d, n
<1> QED
  BY <1>2, <1>3, <1>4, TidyDrain

LEMMA ClaimTidy ==
    ASSUME SInv, NEW t \in Tasks, NEW a \in Attempts, Claim(t, a)
    PROVE  Tidy
<1> DEFINE k == db[t]
           w == [k.row[a] EXCEPT !.state = "leased", !.expired = FALSE,
                             !.tries = k.row[a].tries + 1]
           leased == [k EXCEPT !.row[a] = w]
<1>1. k.row[a] \in Row /\ k.row[a].state = "enqueued" /\ k.row \in [Attempts -> Row]
  BY ReadyFacts DEF Claim, Durable
<1>2. w \in Row /\ w.state = "leased" /\ w.gen = k.row[a].gen /\ w.ack = k.row[a].ack
  BY <1>1, LeasedRow DEF Row
<1>3. [k EXCEPT !.row[a].state = "leased", !.row[a].expired = FALSE,
                !.row[a].tries = k.row[a].tries + 1] = leased
  BY <1>1, ReadyFacts DEF Durable
<1>a. k.row[a] # NoRow /\ (w.ack => w.state # "enqueued")
  BY <1>1, <1>2 DEF NoRow
<1> HIDE DEF w
<1>4. /\ Alike(k, leased) /\ Sound(leased)
      /\ leased.row[a] = w /\ \A b \in Attempts : b # a => leased.row[b] = k.row[b]
  <2>1. Sound(leased)
    BY <1>2, <1>a, ReadyFacts, RowWriteKeeps DEF Keeps
  <2> QED
    BY <1>1, <2>1, ReadyFacts DEF Durable, Alike
<1> HIDE DEF leased
<1>5. Fades(k, leased)
  BY <1>1, <1>2, <1>4 DEF Fades, LiveRow
<1>6. Ready(leased, mem[t]) /\ (Slot(leased) <=> Slot(k))
  BY <1>4, <1>5, ReadyFacts, AlikeReady
<1>7. CASE /\ db' = [db EXCEPT ![t] = EndRow(k, a, "abandoned")]
           /\ UNCHANGED mem
  <2> DEFINE j == EndRow(k, a, "abandoned")
  <2>1. Fades(k, j) /\ Alike(k, j)
    BY ReadyFacts, EndRowFades, EndRowAlike DEF RowStates
  <2>2. Ready(j, mem[t]) /\ (Slot(j) <=> Slot(k))
    BY <2>1, ReadyFacts, AlikeReady
  <2> HIDE DEF j
  <2> QED
    BY <1>7, <2>2, TidyRecord DEF j
<1>8. CASE /\ db' = [db EXCEPT ![t] = FailDispatch(leased, a)]
           /\ UNCHANGED mem
  <2> DEFINE j == FailDispatch(leased, a)
  <2>1. Fades(leased, j) /\ Alike(leased, j)
    BY <1>4, FailDispatchFades, FailDispatchAlike DEF Sound
  <2>2. Ready(j, mem[t]) /\ (Slot(j) <=> Slot(leased))
    BY <1>4, <1>6, <2>1, AlikeReady DEF Sound
  <2> HIDE DEF j
  <2> QED
    BY <1>6, <1>8, <2>2, TidyRecord DEF j
<1>9. CASE /\ ~RowStale(k, a) /\ mem[t].proc[a] = "none"
           /\ db' = [db EXCEPT ![t] = leased]
           /\ mem' = [mem EXCEPT ![t].proc[a] = "starting", ![t].pgen[a] = k.gen]
  <2> DEFINE n == [mem[t] EXCEPT !.proc[a] = "starting", !.pgen[a] = k.gen]
  <2>1. /\ mem' = [mem EXCEPT ![t] = n]
        /\ \A b \in Attempts : b # a => n.proc[b] = mem[t].proc[b]
    BY <1>9, ReadyFacts DEF Volatile
  <2> HIDE DEF n
  <2>2. a = k.sel /\ k.att[a] # "pending"
    BY <1>9, <1>a, ReadyFacts DEF RowStale, Sound, Lineage
  <2>3. leased.row[a].state \in LiveRow /\ k.row[a].state \in LiveRow
    BY <1>1, <1>2, <1>4 DEF LiveRow
  <2>4. Ready(leased, n)
    BY <1>4, <1>6, <2>2, <2>3, ReadyFacts DEF Ready, Waiting, Leased, Attended, Alike
  <2> QED
    BY <1>6, <1>9, <2>1, <2>4, TidyOne
<1> QED
  BY <1>3, <1>7, <1>8, <1>9 DEF Claim

LEMMA FenceTidy ==
    ASSUME SInv, NEW t \in Tasks, NEW a \in Attempts, FenceExpires(t, a)
    PROVE  Tidy
<1> DEFINE w == [db[t].row[a] EXCEPT !.expired = TRUE]
           j == [db[t] EXCEPT !.row[a] = w]
<1>1. /\ db[t].row \in [Attempts -> Row]
      /\ w.state = db[t].row[a].state /\ w.gen = db[t].row[a].gen
  BY ReadyFacts DEF Durable, Row
<1>2. db' = [db EXCEPT ![t] = j] /\ UNCHANGED mem
  BY ReadyFacts DEF FenceExpires, Durable
<1> HIDE DEF w
<1>3. /\ Alike(db[t], j)
      /\ j.row[a] = w /\ \A b \in Attempts : b # a => j.row[b] = db[t].row[b]
  BY <1>1, ReadyFacts DEF Durable, Alike
<1> HIDE DEF j
<1>4. Fades(db[t], j)
  BY <1>1, <1>3 DEF Fades
<1>5. Ready(j, mem[t]) /\ (Slot(j) <=> Slot(db[t]))
  BY <1>3, <1>4, ReadyFacts, AlikeReady
<1> QED
  BY <1>2, <1>5, TidyRecord

LEMMA AbandonStuckTidy ==
    ASSUME SInv, NEW t \in Tasks, NEW a \in Attempts, AbandonStuck(t, a)
    PROVE  Tidy
<1> DEFINE k == EndRow(db[t], a, "stuck")
<1>1. /\ Sound(k) /\ k \in Durable /\ k.sel = db[t].sel
      /\ Fades(db[t], k) /\ Alike(db[t], k)
  <2>1. "stuck" \in RowStates /\ "stuck" # "enqueued" /\ Sound(db[t]) /\ db[t] \in Durable
    BY ReadyFacts DEF RowStates
  <2>2. Sound(k)
    BY <2>1, EndRowKeeps DEF Keeps
  <2>3. Fades(db[t], k) /\ Alike(db[t], k)
    BY <2>1, EndRowFades, EndRowAlike
  <2> QED
    BY <2>2, <2>3 DEF Sound, Alike
<1>2. /\ UNCHANGED mem
      /\ \/ db' = [db EXCEPT ![t] = FailTask(k)]
         \/ db' = [db EXCEPT ![t] = k]
         \/ MoreAttempts(k) /\ db' = [db EXCEPT ![t] = Prepare(k)]
  BY DEF AbandonStuck
<1> HIDE DEF k
<1>3. Ready(k, mem[t]) /\ (Slot(k) <=> Slot(db[t]))
  BY <1>1, ReadyFacts, AlikeReady
<1>4. CASE db' = [db EXCEPT ![t] = FailTask(k)]
  <2>1. Ready(FailTask(k), mem[t]) /\ ~Slot(FailTask(k))
    BY <1>1, <1>3, FailTaskCloses, StuckSame, ClosesReady
  <2> QED
    BY <1>2, <1>4, <2>1, TidyRecord
<1>5. CASE db' = [db EXCEPT ![t] = k]
  BY <1>2, <1>3, <1>5, TidyRecord
<1>6. CASE MoreAttempts(k) /\ db' = [db EXCEPT ![t] = Prepare(k)]
  <2> DEFINE j == Prepare(k)
  <2>1. /\ k.sel \in Nat /\ k.sel + 1 \in Attempts /\ k.sel + 1 > k.sel
    BY <1>1, <1>6, BoundsAssumption DEF Durable, Attempts, MoreAttempts
  <2>2. mem[t].proc[k.sel + 1] = "none"
    BY <1>1, <2>1, ReadyFacts DEF Kin
  <2>3. /\ j.sel = k.sel + 1 /\ j.status = "pending" /\ j.att[k.sel + 1] = "pending"
    BY <1>1, <1>6, PendingFresh
  <2>4. Ready(j, mem[t]) /\ ~Slot(j)
    BY <2>2, <2>3, FreshReady
  <2> QED
    BY <1>2, <1>6, <2>4, TidyRecord
<1> QED
  BY <1>2, <1>4, <1>5, <1>6

LEMMA ReapTidy == ASSUME SInv, NEW t \in Tasks, NEW a \in Attempts, Reap(t, a) PROVE Tidy
<1> DEFINE j == EndRow(db[t], a, "enqueued")
<1>1. db' = [db EXCEPT ![t] = j] /\ UNCHANGED mem
  BY DEF Reap
<1>2. Fades(db[t], j) /\ Alike(db[t], j)
  <2>1. "enqueued" \in RowStates
    BY DEF RowStates
  <2> QED
    BY <2>1, ReadyFacts, EndRowFades, EndRowAlike
<1> HIDE DEF j
<1>3. Ready(j, mem[t]) /\ (Slot(j) <=> Slot(db[t]))
  BY <1>2, ReadyFacts, AlikeReady
<1> QED
  BY <1>1, <1>3, TidyRecord

\* A launch that is accepted had been claimed, and has held its slot since.
LEMMA LaunchAcceptedTidy ==
    ASSUME SInv, NEW t \in Tasks, NEW a \in Attempts, NEW usable \in BOOLEAN,
           LaunchAccepted(t, a, usable)
    PROVE  Tidy
<1> DEFINE i == db[t]
           k == MarkRunning(i, a)
           p == IF usable THEN "live" ELSE "failing"
           n == [mem[t] EXCEPT !.proc[a] = p]
           j == IF usable THEN k ELSE FailDispatch(k, a)
<1>1. /\ a = i.sel /\ i.status \in {"pending", "queued", "running"}
      /\ mem[t].proc[a] = "starting"
  BY DEF LaunchAccepted, LaunchCurrent, LaunchStale
<1>2. mem' = [mem EXCEPT ![t] = n] /\ db' = [db EXCEPT ![t] = j]
  BY ReadyFacts DEF LaunchAccepted, Volatile
<1>3. /\ Sound(k) /\ k.sel = i.sel /\ k.status = "running" /\ k.lease
      /\ (k.prompted <=> i.prompted) /\ (k.preserved <=> i.preserved)
  <2>1. k.lease
    <3> DEFINE f == [i.att EXCEPT ![a] = "running"]
               w == [i.row[a] EXCEPT !.ack = @ \/ i.row[a].state = "leased"]
               r == [i.row EXCEPT ![a] = w]
    <3>1. k = [i EXCEPT !.status = "running", !.phase = "executing", !.lease = TRUE,
                        !.att = f, !.row = r]
      BY ReadyFacts DEF MarkRunning, Durable
    <3> HIDE DEF f, r
    <3> QED
      BY <3>1, ReadyFacts DEF Durable
  <2> QED
    BY <1>1, <2>1, ReadyFacts, MarkRunningKeeps, MarkRunningFields DEF Keeps
<1> HIDE DEF k, n
<1>4. /\ j.status = "running" /\ j.lease
      /\ (j.prompted <=> i.prompted) /\ (j.preserved <=> i.preserved)
  BY <1>3, FailDispatchAlike DEF Alike, Sound
<1> HIDE DEF j
<1>5. Ready(j, n)
  BY <1>4 DEF Ready, Waiting, Leased
<1>6. ASSUME "stall" \notin Faults, Slot(j) PROVE Slot(i)
  <2>1. ~i.preserved /\ ~i.prompted
    BY <1>4, <1>6 DEF Slot, Counted
  <2>2. i.status # "running"
    BY <1>1, <2>1, ReadyFacts DEF Owned
  <2>3. i.att[i.sel] \in Leasable /\ i.phase # "none"
    BY <1>1, <2>2, ReadyFacts DEF Ready, Waiting
  <2>4. i.lease
    BY <1>1, <1>6, <2>1, <2>3, ReadyFacts DEF Ready, Leased, Attended
  <2> QED
    BY <1>1, <2>1, <2>2, <2>3, <2>4 DEF Slot, Counted
<1> QED
  BY <1>2, <1>5, <1>6, TidyOne

LEMMA LaunchRejectedTidy ==
    ASSUME SInv, NEW t \in Tasks, NEW a \in Attempts, LaunchRejected(t, a)
    PROVE  Tidy
<1> DEFINE n == [mem[t] EXCEPT !.proc[a] = "stopping"]
<1>1. /\ mem[t].proc[a] = "starting" /\ n.proc[a] = "stopping"
      /\ \A b \in Attempts : b # a => n.proc[b] = mem[t].proc[b]
      /\ mem' = [mem EXCEPT ![t] = n] /\ UNCHANGED db
  BY ReadyFacts DEF LaunchRejected, Volatile
<1> HIDE DEF n
<1>2. Calm(mem[t], n)
  BY <1>1 DEF Calm
<1> QED
  BY <1>1, <1>2, TidyMemory

\* A failed row, together with a process that winds down.
LEMMA FailingTidy ==
    ASSUME SInv, NEW t \in Tasks, NEW a \in Attempts, NEW n, Calm(mem[t], n),
           mem' = [mem EXCEPT ![t] = n], db' = [db EXCEPT ![t] = FailDispatch(db[t], a)]
    PROVE  Tidy
<1> DEFINE j == FailDispatch(db[t], a)
<1>1. Fades(db[t], j) /\ Alike(db[t], j)
  BY ReadyFacts, FailDispatchFades, FailDispatchAlike
<1>2. Ready(db[t], n)
  BY ReadyFacts, CalmReady
<1> HIDE DEF j
<1>3. Ready(j, n) /\ (Slot(j) <=> Slot(db[t]))
  BY <1>1, <1>2, ReadyFacts, AlikeReady
<1> QED
  BY <1>3, TidyOne DEF j

LEMMA RejectKilledTidy ==
    ASSUME SInv, NEW t \in Tasks, NEW a \in Attempts, RejectKilled(t, a)
    PROVE  Tidy
<1> DEFINE n == [mem[t] EXCEPT !.proc[a] = "none"]
<1>1. /\ n.proc[a] = "none"
      /\ \A b \in Attempts : b # a => n.proc[b] = mem[t].proc[b]
      /\ mem' = [mem EXCEPT ![t] = n] /\ db' = [db EXCEPT ![t] = FailDispatch(db[t], a)]
  BY ReadyFacts DEF RejectKilled, Volatile
<1> HIDE DEF n
<1>2. Calm(mem[t], n)
  BY <1>1 DEF Calm
<1> QED
  BY <1>1, <1>2, FailingTidy

LEMMA LaunchThrowsTidy ==
    ASSUME SInv, NEW t \in Tasks, NEW a \in Attempts, LaunchThrows(t, a)
    PROVE  Tidy
<1>0. mem[t].proc[a] = "starting"
  BY DEF LaunchThrows
<1>1. CASE mem' = [mem EXCEPT ![t].proc[a] = "none"] /\ UNCHANGED db
  <2> DEFINE n == [mem[t] EXCEPT !.proc[a] = "none"]
  <2>1. /\ n.proc[a] = "none"
        /\ \A b \in Attempts : b # a => n.proc[b] = mem[t].proc[b]
        /\ mem' = [mem EXCEPT ![t] = n]
    BY <1>1, ReadyFacts DEF Volatile
  <2> HIDE DEF n
  <2>2. Calm(mem[t], n)
    BY <1>1, <2>1 DEF Calm
  <2> QED
    BY <1>1, <2>1, <2>2, TidyMemory
<1>2. CASE /\ mem' = [mem EXCEPT ![t].proc[a] = "failing"]
           /\ db' = [db EXCEPT ![t] = FailDispatch(@, a)]
  <2> DEFINE n == [mem[t] EXCEPT !.proc[a] = "failing"]
  <2>1. /\ n.proc[a] = "failing"
        /\ \A b \in Attempts : b # a => n.proc[b] = mem[t].proc[b]
        /\ mem' = [mem EXCEPT ![t] = n] /\ db' = [db EXCEPT ![t] = FailDispatch(db[t], a)]
    BY <1>2, ReadyFacts DEF Volatile
  <2> HIDE DEF n
  <2>2. Calm(mem[t], n)
    BY <1>0, <2>1 DEF Calm
  <2> QED
    BY <1>0, <2>1, <2>2, FailingTidy
<1> QED
  BY <1>1, <1>2 DEF LaunchThrows

\* The end of a process of attempt a, before its response is handled.
LEMMA ProcessGone ==
    ASSUME SInv, NEW t \in Tasks, NEW a \in Attempts,
           NEW m, m = [mem EXCEPT ![t].proc[a] = "none"]
    PROVE  /\ m \in [Tasks -> Volatile] /\ \A u \in Tasks : Calm(mem[u], m[u])
<1> DEFINE n == [mem[t] EXCEPT !.proc[a] = "none"]
<1>1. /\ n \in Volatile /\ n.proc[a] = "none"
      /\ \A b \in Attempts : b # a => n.proc[b] = mem[t].proc[b]
  <2>1. "none" \in ProcStates
    BY DEF ProcStates
  <2> QED
    BY <2>1, ReadyFacts, ProcStep
<1>2. m = [mem EXCEPT ![t] = n]
  BY ReadyFacts
<1> HIDE DEF n
<1>3. Calm(mem[t], n)
  BY <1>1 DEF Calm
<1>4. ASSUME NEW u \in Tasks PROVE Calm(mem[u], m[u])
  <2>1. CASE u = t
    BY <1>2, <1>3, <2>1, ReadyFacts
  <2>2. CASE u # t
    BY <1>2, <2>2, ReadyFacts DEF Calm
  <2> QED
    BY <2>1, <2>2
<1> QED
  BY <1>1, <1>2, <1>4, ReadyFacts

LEMMA FailureReportedTidy ==
    ASSUME SInv, NEW t \in Tasks, NEW a \in Attempts, FailureReported(t, a)
    PROVE  Tidy
<1> DEFINE m == [mem EXCEPT ![t].proc[a] = "none"]
<1>1. Respond(db, m, t, a, mem[t].pgen[a], "failed") /\ "failed" \in Outcomes
  BY DEF FailureReported, Outcomes
<1>2. m \in [Tasks -> Volatile] /\ \A u \in Tasks : Calm(mem[u], m[u])
  BY ProcessGone
<1> HIDE DEF m
<1>3. \A u \in Tasks : Sound(db[u]) /\ Ready(db[u], m[u])
  BY <1>2, ReadyFacts, CalmReady
<1>4. db \in [Tasks -> Durable]
  BY DEF SInv, HInv, IInv, TypeOK
<1> QED
  BY <1>1, <1>2, <1>3, <1>4, RespondTidy

LEMMA CompletesTidy ==
    ASSUME SInv, NEW t \in Tasks, NEW a \in Attempts, NEW o \in Outcomes, Completes(t, a, o)
    PROVE  Tidy
<1> DEFINE k == db[t]
           j == EndRow(k, a, "completed")
           d == [db EXCEPT ![t] = j]
           m == [mem EXCEPT ![t].proc[a] = "none"]
<1>0. db \in [Tasks -> Durable]
  BY DEF SInv, HInv, IInv, TypeOK
<1>1. \/ db' = d /\ mem' = m
      \/ Respond(d, m, t, a, mem[t].pgen[a], o)
  BY DEF Completes
<1>2. m \in [Tasks -> Volatile] /\ \A u \in Tasks : Calm(mem[u], m[u])
  BY ProcessGone
<1>3. Sound(j) /\ Fades(k, j) /\ Alike(k, j)
  <2>1. "completed" \in RowStates /\ "completed" # "enqueued" /\ Sound(k)
    BY ReadyFacts DEF RowStates
  <2> QED
    BY <2>1, ReadyFacts, EndRowKeeps, EndRowFades, EndRowAlike DEF Keeps
<1>4. d[t] = j /\ d \in [Tasks -> Durable] /\ \A u \in Tasks : u # t => d[u] = db[u]
  BY <1>0, <1>3 DEF Sound
<1> HIDE DEF j, d, m
<1>5. \A u \in Tasks : Ready(db[u], m[u])
  BY <1>2, ReadyFacts, CalmReady
<1>6. Ready(j, m[t]) /\ (Slot(j) <=> Slot(k))
  BY <1>3, <1>5, ReadyFacts, AlikeReady
<1>7. /\ \A u \in Tasks : Sound(d[u]) /\ Ready(d[u], m[u])
      /\ \A u \in Tasks : Slot(d[u]) => Slot(db[u])
  BY <1>3, <1>4, <1>5, <1>6, ReadyFacts
<1>8. CASE db' = d /\ mem' = m
  BY <1>7, <1>8, FewerSlots DEF SInv, Tidy
<1>9. CASE Respond(d, m, t, a, mem[t].pgen[a], o)
  BY <1>2, <1>4, <1>7, <1>9, RespondTidy
<1> QED
  BY <1>1, <1>8, <1>9

LEMMA ResourceLimitTidy ==
    ASSUME SInv, NEW t \in Tasks, NEW a \in Attempts, ResourceLimit(t, a)
    PROVE  Tidy
<1> DEFINE d == [db EXCEPT ![t] = Defer(db[t])]
           n == [mem[t] EXCEPT !.proc[a] = "none", !.parked = TRUE]
<1>0. db \in [Tasks -> Durable] /\ mem \in [Tasks -> Volatile]
  BY DEF SInv, HInv, IInv, TypeOK
<1>1. /\ n.proc[a] = "none" /\ n.pgen = mem[t].pgen /\ n \in Volatile
      /\ \A b \in Attempts : b # a => n.proc[b] = mem[t].proc[b]
      /\ mem' = [mem EXCEPT ![t] = n]
  BY ReadyFacts DEF ResourceLimit, Volatile, ProcStates
<1>2. Drain(d, Tasks \ {t}, {}) /\ MoreAttempts(db[t])
  BY DEF ResourceLimit
<1> HIDE DEF n
<1>3. mem'[t] = n /\ \A u \in Tasks : u # t => mem'[u] = mem[u]
  BY <1>0, <1>1
<1>4. /\ Sound(Defer(db[t])) /\ Ready(Defer(db[t]), n) /\ ~Slot(Defer(db[t]))
  <2>1. Kin(db[t], n)
    BY <1>1, ReadyFacts, KinGone DEF ProcOnly
  <2> QED
    BY <1>1, <1>2, <2>1, ReadyFacts, DeferKeeps, FreshRecordsReady DEF Keeps
<1>5. d[t] = Defer(db[t]) /\ \A u \in Tasks : u # t => d[u] = db[u]
  BY <1>0
<1> HIDE DEF d
<1>6. /\ \A u \in Tasks : Sound(d[u]) /\ Ready(d[u], mem'[u])
      /\ \A u \in Tasks : Slot(d[u]) => Slot(db[u])
  BY <1>3, <1>4, <1>5, ReadyFacts
<1> DEFINE m == mem'
<1>7. /\ \A u \in Tasks : Sound(d[u]) /\ Ready(d[u], m[u])
      /\ \A u \in Tasks : mem'[u].proc = m[u].proc
  BY <1>6
<1> HIDE DEF m
<1> QED
  BY <1>2, <1>6, <1>7, TidyDrain

LEMMA ReclaimOrphanTidy ==
    ASSUME SInv, NEW t \in Tasks, NEW a \in Attempts, ReclaimOrphan(t, a)
    PROVE  Tidy
<1> DEFINE n == [mem[t] EXCEPT !.proc[a] = "killed"]
<1>1. /\ n.proc[a] = "killed" /\ mem[t].proc[a] \in Registered
      /\ \A b \in Attempts : b # a => n.proc[b] = mem[t].proc[b]
      /\ mem' = [mem EXCEPT ![t] = n] /\ UNCHANGED db
  BY ReadyFacts DEF ReclaimOrphan, Volatile
<1> HIDE DEF n
<1>2. Calm(mem[t], n)
  BY <1>1 DEF Calm, Registered
<1> QED
  BY <1>1, <1>2, TidyMemory

LEMMA KillDoneTidy ==
    ASSUME SInv, NEW t \in Tasks, NEW a \in Attempts, KillDone(t, a)
    PROVE  Tidy
<1> DEFINE n == [mem[t] EXCEPT !.proc[a] = "killed"]
<1>1. /\ n.proc[a] = "killed" /\ mem[t].proc[a] = "killing"
      /\ \A b \in Attempts : b # a => n.proc[b] = mem[t].proc[b]
      /\ mem' = [mem EXCEPT ![t] = n] /\ UNCHANGED db
  BY ReadyFacts DEF KillDone, Volatile
<1> HIDE DEF n
<1>2. Calm(mem[t], n)
  BY <1>1 DEF Calm
<1> QED
  BY <1>1, <1>2, TidyMemory

\* A boot gives up, or preserves, what was in flight; neither holds a slot.
LEMMA RestartTidy ==
    ASSUME SInv, NEW reclaimed \in BOOLEAN, Restart(reclaimed)
    PROVE  Tidy
<1> DEFINE lost == {t \in Tasks : InFlight(db[t])}
           late == {t \in lost : Startable(db[t])}
           kept == [t \in Tasks |-> IF t \in lost THEN [db[t] EXCEPT !.preserved = TRUE]
                                    ELSE db[t]]
           left(s) == [t \in Tasks |-> IF t \in lost \ s THEN Settle(db[t], "failed") ELSE db[t]]
           m == mem'
<1>1. \A t \in Tasks : Calm(mem[t], m[t])
  BY DEF Restart, NoRuntime, Calm
<1>2. \A t \in Tasks : mem'[t].proc = m[t].proc
  OBVIOUS
<1> HIDE DEF m
<1>3. \A t \in Tasks : Sound(db[t]) /\ Ready(db[t], m[t])
  BY <1>1, ReadyFacts, CalmReady
<1>4. CASE Drain(kept, Tasks, Tasks)
  <2>1. ASSUME NEW t \in Tasks
        PROVE  /\ Sound(kept[t]) /\ Ready(kept[t], m[t])
               /\ Slot(kept[t]) => Slot(db[t])
    <3> DEFINE j == [db[t] EXCEPT !.preserved = TRUE]
    <3>1. /\ j \in Durable /\ j.status = db[t].status /\ j.sel = db[t].sel
          /\ j.phase = db[t].phase /\ j.att = db[t].att /\ j.row = db[t].row
          /\ j.prompted = db[t].prompted /\ j.preserved
      BY ReadyFacts DEF Durable
    <3>2. CASE t \in lost
      <4>1. kept[t] = j
        BY <3>2
      <4> HIDE DEF j, kept
      <4>2. Sound(j)
        BY <3>1, ReadyFacts, FieldsKeep DEF Keeps
      <4>3. ~Slot(j)
        BY <3>1 DEF Slot, Counted
      <4>4. Ready(j, m[t])
        BY <1>3, <3>1 DEF Ready, Waiting, Leased, Attended
      <4> QED
        BY <4>1, <4>2, <4>3, <4>4
    <3>3. CASE t \notin lost
      <4>1. kept[t] = db[t]
        BY <3>3
      <4> QED
        BY <1>3, <4>1
    <3> QED
      BY <3>2, <3>3
  <2> HIDE DEF kept
  <2> QED
    BY <1>2, <1>4, <2>1, TidyDrain
<1>5. ASSUME NEW s \in SUBSET late, Drain(left(s), Tasks, Tasks)
      PROVE  Tidy
  <2> DEFINE e == left(s)
  <2>1. ASSUME NEW t \in Tasks
        PROVE  /\ Sound(e[t]) /\ Ready(e[t], m[t])
               /\ Slot(e[t]) => Slot(db[t])
    <3>1. CASE t \in lost \ s
      <4> DEFINE j == Settle(db[t], "failed")
      <4>1. e[t] = j
        BY <3>1
      <4>2. db[t].status \in {"pending", "queued", "running"} /\ "failed" \in Outcomes
        BY <3>1 DEF InFlight, Outcomes
      <4>3. Sound(j)
        BY <4>2, ReadyFacts, SettleKeeps DEF Keeps
      <4>4. Ready(j, m[t]) /\ ~Slot(j)
        BY <1>3, <4>2, ReadyFacts, SettleCloses, StuckSame, ClosesReady
      <4> HIDE DEF j, e
      <4> QED
        BY <4>1, <4>3, <4>4
    <3>2. CASE t \notin lost \ s
      <4>1. e[t] = db[t]
        BY <3>2
      <4> QED
        BY <1>3, <4>1
    <3> QED
      BY <3>1, <3>2
  <2>2. Drain(e, Tasks, Tasks)
    BY <1>5
  <2> HIDE DEF e, left
  <2> QED
    BY <1>2, <2>1, <2>2, TidyDrain
<1> QED
  BY <1>4, <1>5 DEF Restart

LEMMA StutterTidy == ASSUME SInv, UNCHANGED vars PROVE Tidy
<1>1. db' = db /\ mem' = mem
  BY DEF vars
<1> QED
  BY <1>1 DEF SInv, Tidy

LEMMA NextTidy == SInv /\ [Next]_vars => Tidy
<1> SUFFICES ASSUME SInv, [Next]_vars PROVE Tidy
  OBVIOUS
<1>1. ASSUME NEW t \in Tasks, TaskStep(t) PROVE Tidy
  BY <1>1, BackoffTidy, HeartbeatTidy, LeaseExpiresTidy, ExecutingStallTidy, CancelTidy,
     ProvideInputTidy, BeginRetryTidy, FinishRetryTidy
  DEF TaskStep
<1>2. ASSUME NEW t \in Tasks, NEW a \in Attempts, AttemptStep(t, a) PROVE Tidy
  BY <1>2, ClaimTidy, FenceTidy, AbandonStuckTidy, ReapTidy, LaunchAcceptedTidy,
     LaunchRejectedTidy, RejectKilledTidy, LaunchThrowsTidy, FailureReportedTidy,
     ResourceLimitTidy, CompletesTidy, ReclaimOrphanTidy, KillDoneTidy
  DEF AttemptStep
<1> QED
  BY <1>1, <1>2, TopUpTidy, RestartTidy, StutterTidy DEF Next

\* In every behaviour a waiting task is fresh or claimed, a claimed attempt
\* somebody attends to keeps its lease, and no claim oversubscribes the slots.
THEOREM LaunchSlotDiscipline == Spec => []SInv
<1>1. Init => SInv
  <2> SUFFICES ASSUME Init PROVE SInv
    OBVIOUS
  <2>1. HInv
    BY InitHeld
  <2>2. ASSUME NEW t \in Tasks
        PROVE  /\ db[t].status = "pending" /\ db[t].sel = 1 /\ 1 \in Attempts
               /\ db[t].att[1] = "pending" /\ mem[t].proc[1] = "none"
    BY BoundsAssumption DEF Init, NoRuntime, Attempts
  <2>3. \A t \in Tasks : Ready(db[t], mem[t]) /\ ~Slot(db[t])
    BY <2>2, FreshReady
  <2>4. Few(db)
    <3>1. Slots(db) = {}
      BY <2>3 DEF Slots
    <3> QED
      BY <3>1, FS_EmptySet, BoundsAssumption DEF Few
  <2> QED
    BY <2>1, <2>3, <2>4 DEF SInv
<1>2. SInv /\ [Next]_vars => SInv'
  <2> SUFFICES ASSUME SInv, [Next]_vars PROVE SInv'
    OBVIOUS
  <2>1. HInv'
    BY NextFine, NextSound DEF SInv, HInv, Fine, Done
  <2>2. Tidy
    BY NextTidy
  <2>3. (\A t \in Tasks : Ready(db[t], mem[t]))' /\ Few(db)'
    BY <2>2 DEF Tidy, Few, Slots, Slot, Counted, Ready, Waiting, Leased, Attended
  <2> QED
    BY <2>1, <2>3 DEF SInv
<1> QED
  BY <1>1, <1>2, PTL DEF Spec

\* The claims of tasks that did not ask for input never hold more slots than
\* the orchestrator has, unless the owner stops for longer than a lease.
THEOREM LaunchSlotsRespected == Spec => []SlotsRespected
<1>1. SInv => SlotsRespected
  <2> SUFFICES ASSUME SInv, "stall" \notin Faults
               PROVE  Cardinality({t \in Occupied(db) : ~db[t].prompted}) <= MaxConcurrency
    BY DEF SlotsRespected
  <2>1. {t \in Occupied(db) : ~db[t].prompted} = Slots(db)
    BY DEF Occupied, Slots, Slot
  <2> QED
    BY <2>1 DEF SInv, Few
<1> QED
  BY LaunchSlotDiscipline, <1>1, PTL
=============================================================================
