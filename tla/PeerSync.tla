------------------------------- MODULE PeerSync -------------------------------
(***************************************************************************)
(* Synchronisation of two databases (sync-journal.ts, sync-delta.ts,       *)
(* sync-merge.ts): a local write of a task, an attempt or a workflow       *)
(* appends the row it leaves to the store's journal, except the claim of   *)
(* an attempt and the deletion of a task; a store exports the entries that *)
(* are its own; the other merges them in one transaction, journals what    *)
(* changed as imported, and forgets its own entries of a row that the      *)
(* peer's row has superseded.                                              *)
(*                                                                         *)
(* A row of a task or an attempt is its place in the order of the merge:   *)
(* status rank first, canonical text second; 0 is no row.  A workflow row  *)
(* is 0, Alive, or the time of its deletion; its other columns are left    *)
(* out.  Whatever drives the exchange may delay, repeat, reorder and lose  *)
(* batches.                                                                *)
(***************************************************************************)
EXTENDS Integers, FiniteSets

CONSTANTS
    Stores,
    Workflow,   \* the workflow
    Tasks,      \* its tasks
    Attempts,   \* attempts
    TaskOf,     \* attempt -> its task
    TaskRows,   \* rows a task may have
    AttemptRows,\* rows an attempt may have
    Kept,       \* what is stored of a task's row that wins over another:
                \* its columns but for freshness, which is the other's
    MaxWrites,  \* bound on local writes
    MaxWire,    \* bound on the batches under way
    Deletes,    \* whether the workflow may be deleted
    Prunes      \* whether old journal entries may be removed (once)

ASSUME PeerSyncAssumption ==
    /\ \E s, r \in Stores : s # r /\ Stores = {s, r}
    /\ Workflow \notin Tasks \cup Attempts /\ Tasks \cap Attempts = {}
    /\ TaskOf \in [Attempts -> Tasks]
    /\ TaskRows \subseteq Nat \ {0} /\ AttemptRows \subseteq Nat \ {0}
    /\ Kept \in [(TaskRows \cup {0}) \X TaskRows -> TaskRows]
    /\ MaxWrites \in Nat /\ MaxWire \in Nat
    /\ Deletes \in BOOLEAN /\ Prunes \in BOOLEAN

VARIABLES
    store,  \* each database: rows, journal, next sequence number, cursor
    wire,   \* batches under way
    strayed,\* rows that a write took back in the order, a merge stored other
            \* than they came, or that went with a task (history)
    claimed,\* attempts a store has claimed and not written since (history)
    erased, \* whether a task was deleted (history)
    pruned, \* whether a journal was pruned (history)
    writes  \* local writes so far

history == <<strayed, claimed, erased, pruned>>
vars == <<store, wire, history, writes>>

Entities == {Workflow} \cup Tasks \cup Attempts
Alive == 1
NoCursor == -1

Peer(s) == CHOOSE r \in Stores : r # s
MaxOf(a, b) == IF a >= b THEN a ELSE b

Init ==
    /\ store = [s \in Stores |-> [row |-> [e \in Entities |-> 0], log |-> {}, next |-> 1, cursor |-> NoCursor]]
    /\ wire = {}
    /\ strayed = {}
    /\ claimed = [s \in Stores |-> {}]
    /\ erased = FALSE
    /\ pruned = FALSE
    /\ writes = 0

-----------------------------------------------------------------------------
(* Local writes.  Row and journal entry are one transaction.               *)

Entry(db, e, op, row, home) == [seq |-> db.next, of |-> e, op |-> op, row |-> row, home |-> home]

Journaled(db, e, op, row, home) ==
    [db EXCEPT !.log = @ \cup {Entry(db, e, op, row, home)}, !.next = @ + 1]

Put(db, e, v) == Journaled([db EXCEPT !.row[e] = v], e, "upsert", v, TRUE)

\* A workflow row that is journaled by a task carries the status of the rollup,
\* which no workflow row of the database has.
Rollups == {"pendingRollup", "rollup"}

\* A write of the row v of e in store s, journaled or not.
Writes(s, e, v) ==
    /\ writes < MaxWrites
    /\ writes' = writes + 1
    /\ strayed' = IF v < store[s].row[e] THEN strayed \cup {e} ELSE strayed
    /\ UNCHANGED <<wire, erased, pruned>>

Written(s, e, v) ==
    /\ Writes(s, e, v)
    /\ claimed' = [claimed EXCEPT ![s] = @ \ {e}]

SaveWorkflow(s) ==
    /\ store[s].row[Workflow] = 0
    /\ store' = [store EXCEPT ![s] = Put(@, Workflow, Alive)]
    /\ Written(s, Workflow, Alive)

SaveTask(s, t, v) ==
    /\ store[s].row[t] = 0 /\ store[s].row[Workflow] = Alive
    /\ store' = [store EXCEPT ![s] = Put(@, t, v)]
    /\ Written(s, t, v)

\* updateTask and updateTaskLaunchState; updateTask journals the workflow row,
\* too, when it changes the rollup of the tasks.
UpdateTask(s, t, v) ==
    /\ store[s].row[t] \notin {0, v}
    /\ \/ store' = [store EXCEPT ![s] = Put(@, t, v)]
       \/ \E op \in Rollups :
              store' = [store EXCEPT ![s] = Journaled(Put(@, t, v), Workflow, op, @.row[Workflow], TRUE)]
    /\ Written(s, t, v)

\* saveAttempt, updateAttempt; a claimed attempt may be journaled as it is.
WriteAttempt(s, a, v) ==
    /\ store[s].row[TaskOf[a]] # 0 /\ (store[s].row[a] # v \/ a \in claimed[s])
    /\ store' = [store EXCEPT ![s] = Put(@, a, v)]
    /\ Written(s, a, v)

\* claimAttemptForLaunch: the row changes and the journal does not.
ClaimAttempt(s, a, v) ==
    /\ store[s].row[a] \notin {0, v}
    /\ store' = [store EXCEPT ![s].row[a] = v]
    /\ Writes(s, a, v)
    /\ claimed' = [claimed EXCEPT ![s] = @ \cup {a}]

\* A task and its attempts go, and nothing is journaled.
DeleteTask(s, t) ==
    LET gone == {t} \cup {a \in Attempts : TaskOf[a] = t}
    IN  /\ writes < MaxWrites
        /\ store[s].row[t] # 0
        /\ store' = [store EXCEPT ![s].row = [e \in Entities |-> IF e \in gone THEN 0 ELSE @[e]]]
        /\ strayed' = strayed \cup gone
        /\ erased' = TRUE
        /\ writes' = writes + 1
        /\ UNCHANGED <<wire, claimed, pruned>>

\* Tasks and attempts go, the workflow row stays with the time of its
\* deletion, later than any other so far.
DeleteWorkflow(s) ==
    LET db == [store[s] EXCEPT !.row = [e \in Entities |-> IF e = Workflow THEN Alive + 1 + writes ELSE 0]]
    IN  /\ Deletes
        /\ store[s].row[Workflow] = Alive
        /\ store' = [store EXCEPT ![s] = Journaled(db, Workflow, "tombstone", db.row[Workflow], TRUE)]
        /\ Written(s, Workflow, Alive + 1 + writes)

-----------------------------------------------------------------------------
(* Exchange.                                                               *)

Received(s) == MaxOf(store[s].cursor, 0)

Home(db, e) == {x \in db.log : x.home /\ x.of = e}

Seqs(db) == {x.seq : x \in db.log}
HighWater(db, since) == CHOOSE n \in Seqs(db) \cup {since} : \A m \in Seqs(db) \cup {since} : n >= m

\* exportDelta: the store's own entries after since; their numbers order them.
Delta(db, since) ==
    [high |-> HighWater(db, since), entries |-> {x \in db.log : x.home /\ x.seq > since}]

\* A batch begins at 0: what a later begin, the receiver's cursor, leaves out is
\* what the receiver skips, for a cursor never goes back.  A batch of which
\* the cursor has everything comes to nothing and is left out.
Export(s) ==
    /\ Cardinality(wire) < MaxWire
    /\ HighWater(store[s], 0) > Received(Peer(s))
    /\ wire' = wire \cup {[to |-> Peer(s), delta |-> Delta(store[s], 0)]}
    /\ UNCHANGED <<store, history, writes>>

\* What is written of an entry's row that wins.
Stored(local, x) == IF x.of \in Tasks THEN Kept[local, x.row] ELSE x.row

\* Mutant: the deletion that arrives last stands.
MergedLast(local, x) ==
    CASE x.of = Workflow /\ x.op = "tombstone" -> x.row
      [] x.of = Workflow /\ x.op # "tombstone" /\ local > Alive -> local
      [] OTHER -> IF x.row > local THEN Stored(local, x) ELSE local

\* What the merge makes of a local row and an entry.  The later deletion
\* stands; what is written of a living workflow cannot revive a deleted one.
Merged(local, x) ==
    IF x.of = Workflow /\ local > Alive /\ x.op # "tombstone" THEN local
    ELSE IF x.row > local THEN Stored(local, x)
    ELSE local

\* The merge writes a task's row other than it came.
Alters(local, x) == x.of \in Tasks /\ x.row > local /\ Stored(local, x) # x.row

\* Mutant: a losing entry purges as well.
SupersedesAlways(local, x) == TRUE

\* incomingAuthoritative: the entry wins against the local row, or equals it.
\* A status above pending wins; otherwise the canonical text decides, in which
\* a workflow without deletion time is above one with, and the rollup's text
\* is below the row's.
Wins(local, x) ==
    CASE x.op = "rollup" -> TRUE
      [] x.op = "pendingRollup" -> local > Alive /\ x.row > local
      [] OTHER -> IF local = Alive THEN x.row = Alive ELSE x.row >= local

Supersedes(local, x) ==
    \/ local = 0
    \/ x.of # Workflow /\ x.row >= local
    \/ /\ x.of = Workflow /\ Wins(local, x)
       /\ ~(local > Alive /\ x.op # "tombstone" /\ x.row = Alive) \* returned early

\* Mutant: the purge does not ask for the entity.
PurgedWhole(db, e) == [db EXCEPT !.log = {x \in @ : ~x.home}]

\* purgeLocalOriginJournal
Purged(db, e) == [db EXCEPT !.log = @ \ Home(db, e)]

\* ensureWorkflow: a task comes with its workflow.
Ensured(db, x) ==
    IF x.of \in Tasks /\ db.row[Workflow] = 0 THEN [db EXCEPT !.row[Workflow] = Alive] ELSE db

Misses(db, x) == x.of \in Attempts /\ db.row[TaskOf[x.of]] = 0

\* applyEntry, the purge and the journal entry of the import
Applied(db, x) ==
    LET base == Ensured(db, x)
        local == base.row[x.of]
        kept == IF Supersedes(local, x) THEN Purged(base, x.of) ELSE base
        row == Merged(local, x)
    IN  IF row = local THEN kept
        ELSE Journaled([kept EXCEPT !.row[x.of] = row], x.of, x.op, x.row, FALSE)

\* The entries beyond the cursor, and the database after those up to a number,
\* applied in the order of their numbers.
Fresh(s, m) == {x \in m.delta.entries : x.seq > Received(s)}

Turn(db, S, n) == IF \E x \in S : x.seq = n THEN Applied(db, CHOOSE x \in S : x.seq = n) ELSE db

Course(db, S, last) ==
    LET f[n \in 0 .. last] == IF n = 0 THEN db ELSE Turn(f[n - 1], S, n)
    IN  f

After(s, m) == Course(store[s], Fresh(s, m), m.delta.high)

\* An attempt without its task makes the transaction throw.
Throws(s, m) ==
    LET after == After(s, m)
    IN  \E x \in Fresh(s, m) : Misses(after[x.seq - 1], x)

\* The tasks that a batch leaves with another row than the entry's.
Altered(s, m) ==
    LET after == After(s, m)
    IN  {x.of : x \in {y \in Fresh(s, m) : Alters(after[y.seq - 1].row[y.of], y)}}

\* applyDelta
Deliver(m) ==
    LET s == m.to IN
    /\ ~Throws(s, m)
    /\ store' = [store EXCEPT ![s] =
                   [After(s, m)[m.delta.high] EXCEPT !.cursor = MaxOf(Received(s), m.delta.high)]]
    /\ wire' \in {wire, wire \ {m}}
    /\ strayed' = strayed \cup Altered(s, m)
    /\ claimed' = [claimed EXCEPT ![s] = {a \in @ : store'[s].row[a] = store[s].row[a]}]
    /\ UNCHANGED <<erased, pruned, writes>>

Lose(m) ==
    /\ wire' = wire \ {m}
    /\ UNCHANGED <<store, history, writes>>

\* pruneOldSyncJournal: the oldest entries, whatever their origin, unless a
\* peer is known; the sent cursor is never moved, so a peer stops it for good.
Prune(s) ==
    /\ Prunes /\ ~pruned /\ store[s].cursor = NoCursor
    /\ \E n \in Seqs(store[s]) :
           store' = [store EXCEPT ![s].log = {x \in @ : x.seq > n}]
    /\ pruned' = TRUE
    /\ UNCHANGED <<wire, strayed, claimed, erased, writes>>

-----------------------------------------------------------------------------
Next ==
    \/ \E s \in Stores :
        \/ SaveWorkflow(s) \/ DeleteWorkflow(s) \/ Export(s) \/ Prune(s)
        \/ \E t \in Tasks :
            \/ \E v \in TaskRows : SaveTask(s, t, v) \/ UpdateTask(s, t, v)
            \/ DeleteTask(s, t)
        \/ \E a \in Attempts, v \in AttemptRows : WriteAttempt(s, a, v) \/ ClaimAttempt(s, a, v)
    \/ \E m \in wire : Deliver(m) \/ Lose(m)

Spec == Init /\ [][Next]_vars

-----------------------------------------------------------------------------
(* Properties.                                                             *)

Deleted == \E s \in Stores : store[s].row[Workflow] > Alive

\* A store is ahead in a row: its own is higher in the order of the merge, or
\* is deleted and the peer's is not.
Ahead(s, e) ==
    LET mine == store[s].row[e]
        theirs == store[Peer(s)].row[e]
    IN  mine > theirs /\ (theirs > Alive => e # Workflow)

\* A row that is ahead of the peer's is still exported to it: purges, cursors,
\* losses and repetitions never leave the stores apart.  The code keeps no such
\* promise of an attempt from its claim, which journals nothing, to its next
\* write; of a row that a write takes back; of a task whose row the receiver
\* stored with a freshness of its own; of a deleted task with its attempts; of
\* the tasks of a deleted workflow; and of anything once a journal is pruned.
NothingIsForgotten ==
    \A s \in Stores : \A e \in Entities \ (strayed \cup claimed[s]) :
        /\ ~pruned
        /\ e = Workflow \/ ~Deleted
        /\ Ahead(s, e)
        => \E x \in Home(store[s], e) : x.row = store[s].row[e] /\ x.seq > Received(Peer(s))

\* A deletion stands, and the latest of two: no batch of the peer, late or
\* repeated, revives the workflow or moves its deletion back.
DeletionStands ==
    [][\A s \in Stores : store[s].row[Workflow] > Alive =>
           store'[s].row[Workflow] >= store[s].row[Workflow]]_vars

\* The receiver of a batch has every task whose attempts it names, as long as
\* nothing was deleted or pruned.
BatchesApply == Deleted \/ erased \/ pruned \/ \A m \in wire : ~Throws(m.to, m)

=============================================================================
