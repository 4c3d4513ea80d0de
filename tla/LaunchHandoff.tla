---------------------------- MODULE LaunchHandoff ----------------------------
(***************************************************************************)
(* The launch handoff: how a ready task becomes a running process.         *)
(*                                                                         *)
(* The Orchestrator claims an attempt and writes a row of the launch       *)
(* outbox (task_launch_dispatch) in the same SQLite file; the              *)
(* LaunchDispatcher leases the row and hands the task to the TaskRunner,   *)
(* which starts an executor and reports back.  Cancels, retries, stuck     *)
(* lease recovery, resource-limit deferrals, the executing-stall watchdog  *)
(* and restarts of the owner process run between any two of those steps.   *)
(*                                                                         *)
(* `db` is what SQLite holds for a task, `mem` what the owner process      *)
(* holds in memory and a restart loses.  Tasks here have no dependencies   *)
(* on each other: they compete for slots only.                             *)
(***************************************************************************)
EXTENDS Naturals, FiniteSets

CONSTANTS
    Tasks,           \* the tasks of the loaded workflows
    MaxAttempt,      \* bound: attempts a task may be given
    MaxConcurrency,  \* execution slots of the orchestrator
    MaxTries,        \* DISPATCH_MAX_ATTEMPTS
    MaxStuck,        \* MAX_STUCK_LEASE_RETRIES
    AgeCutoff,       \* the launch-age cutoff is not longer than a lease
    Faults           \* the environment faults a run allows

ASSUME TasksAssumption == IsFiniteSet(Tasks)
ASSUME BoundsAssumption ==
    /\ MaxAttempt \in Nat \ {0}
    /\ MaxConcurrency \in Nat \ {0}
    /\ MaxTries \in Nat \ {0}
    /\ MaxStuck \in Nat
ASSUME SwitchAssumption ==
    /\ AgeCutoff \in BOOLEAN
    /\ Faults \subseteq {"enqueue", "stall", "restart"}

VARIABLES db, mem
vars == <<db, mem>>

Attempts == 1 .. MaxAttempt

Statuses == {"pending", "queued", "running", "needs_input", "completed", "failed"}
AttemptStatuses == {"none", "pending", "claimed", "running", "needs_input",
                    "completed", "failed", "superseded"}
Active == {"pending", "claimed", "running", "needs_input"}
Leasable == {"claimed", "running"}
\* "stuck" is an abandoned row whose abandon_reason is 'stuck-lease'.
RowStates == {"none", "enqueued", "leased", "completed", "abandoned", "stuck"}
LiveRow == {"enqueued", "leased"}

(***************************************************************************)
(* What the runner does for an attempt: starting (executor.start is        *)
(* pending), stopping (a rejected launch is being killed), failing (the    *)
(* launch threw and its failure is not reported yet), live (registered in  *)
(* activeExecutions), killing (a kill is awaited), killed (the kill has    *)
(* returned, the executor's completion callback has not run).              *)
(***************************************************************************)
ProcStates == {"none", "starting", "stopping", "failing", "live", "killing", "killed"}
Registered == {"live", "killing"}

Row == [state : RowStates, tries : Nat, ack : BOOLEAN, expired : BOOLEAN, gen : Nat]
NoRow == [state |-> "none", tries |-> 0, ack |-> FALSE, expired |-> FALSE, gen |-> 0]

Durable == [status : Statuses, phase : {"none", "launching", "executing"},
            sel : Attempts, gen : Nat, preserved : BOOLEAN, lease : BOOLEAN,
            prompted : BOOLEAN,  \* history: the selected attempt asked for input
            att : [Attempts -> AttemptStatuses], row : [Attempts -> Row]]
Volatile == [proc : [Attempts -> ProcStates], pgen : [Attempts -> Nat],
             parked : BOOLEAN, retry : BOOLEAN, victim : 0 .. MaxAttempt]

NoRuntime == [proc |-> [a \in Attempts |-> "none"], pgen |-> [a \in Attempts |-> 0],
              parked |-> FALSE, retry |-> FALSE, victim |-> 0]

Init ==
    /\ db = [t \in Tasks |->
               [status |-> "pending", phase |-> "none", sel |-> 1, gen |-> 0,
                preserved |-> FALSE, lease |-> FALSE, prompted |-> FALSE,
                att |-> [a \in Attempts |-> IF a = 1 THEN "pending" ELSE "none"],
                row |-> [a \in Attempts |-> NoRow]]]
    /\ mem = [t \in Tasks |-> NoRuntime]

-----------------------------------------------------------------------------
(* Writes on one task's durable record k.                                  *)

MoreAttempts(k) == k.sel < MaxAttempt

\* Mutant: an attempt that has an outcome is superseded too.
SelectFreshOverOutcome(k) ==
    [k EXCEPT !.att = [a \in Attempts |->
                         IF a = k.sel + 1 THEN "pending"
                         ELSE IF a = k.sel THEN "superseded" ELSE k.att[a]],
              !.sel = k.sel + 1, !.lease = FALSE, !.prompted = FALSE]

\* Mutant: the replaced attempt is not retired.
SelectFreshLeavingOld(k) ==
    [k EXCEPT !.att[k.sel + 1] = "pending", !.sel = k.sel + 1,
              !.lease = FALSE, !.prompted = FALSE]

\* A new pending attempt is selected; the one it replaces is superseded
\* unless it has an outcome already.
SelectFresh(k) ==
    [k EXCEPT !.att = [a \in Attempts |->
                         IF a = k.sel + 1 THEN "pending"
                         ELSE IF a = k.sel /\ k.att[a] \in Active THEN "superseded"
                         ELSE k.att[a]],
              !.sel = k.sel + 1,
              !.lease = FALSE,
              !.prompted = FALSE]

NewAttempt(k) ==
    [SelectFresh(k) EXCEPT !.status = "pending", !.phase = "none", !.preserved = FALSE]

\* prepareTaskForNewAttempt leaves outbox rows alone: only the generation
\* and the selected attempt move.
Prepare(k) == [NewAttempt(k) EXCEPT !.gen = k.gen + 1]

AbandonRows(k) ==
    [k EXCEPT !.row = [a \in Attempts |->
        IF k.row[a].state \in LiveRow
        THEN [k.row[a] EXCEPT !.state = "abandoned", !.expired = FALSE]
        ELSE k.row[a]]]

Reset(k) == Prepare(AbandonRows(k))

Defer(k) == [SelectFresh(AbandonRows(k)) EXCEPT !.status = "queued", !.phase = "none"]

EndRow(k, a, end) ==
    IF k.row[a].state \in LiveRow
    THEN [k EXCEPT !.row[a].state = end, !.row[a].expired = FALSE]
    ELSE k

\* Mutant: failDispatch forgets that the row was accepted.
FailDispatchUnacked(k, a) ==
    EndRow(k, a, IF k.row[a].tries >= MaxTries THEN "abandoned" ELSE "enqueued")

\* failDispatch: an accepted row, or one out of tries, is abandoned; any
\* other live row goes back to the queue.
FailDispatch(k, a) ==
    IF k.row[a].tries >= MaxTries \/ k.row[a].ack
    THEN EndRow(k, a, "abandoned")
    ELSE EndRow(k, a, "enqueued")

FailTask(k) ==
    IF k.status \in {"completed", "failed"} THEN k
    ELSE [k EXCEPT !.status = "failed", !.att[k.sel] = "failed"]

\* cancelTask's writes to the cancelled task itself.
MarkCancelled(k) ==
    IF k.status = "completed" THEN k
    ELSE [k EXCEPT !.status = "failed", !.att[k.sel] = "failed"]

-----------------------------------------------------------------------------
(* Scheduling.  `d` is the durable state the handler has produced so far.  *)

\* isReusableLaunchAttempt, for an attempt without an active lease
Reusable(k) == k.att[k.sel] = "pending" /\ k.phase = "none"

\* drainScheduler's claim of a dequeued task; `written` is FALSE when
\* enqueueLaunchDispatch threw, which drainScheduler only logs.
Launch(k, written) ==
    LET j == IF Reusable(k) THEN k ELSE NewAttempt(k)
    IN  [j EXCEPT !.status = "queued", !.phase = "launching", !.lease = TRUE,
                  !.att[j.sel] = "claimed",
                  !.row[j.sel] = IF written
                                 THEN [NoRow EXCEPT !.state = "enqueued", !.gen = j.gen]
                                 ELSE @]

Startable(k) ==
    /\ k.status \in {"pending", "queued"}
    /\ ~(k.att[k.sel] \in Leasable /\ k.lease)
    /\ Reusable(k) \/ MoreAttempts(k)

\* Mutant: a claim holds no slot until its launch is accepted.
CountedWhenRunning(k) ==
    ~k.preserved /\ k.status = "running" /\ (k.att[k.sel] \in Leasable => k.lease)

\* isTaskExecutionActive as countActivePersistedAttempts asks it
Counted(k) ==
    /\ ~k.preserved
    /\ IF k.att[k.sel] \in Leasable
       THEN /\ k.lease
            /\ \/ k.status = "running"
               \/ k.status \in {"pending", "queued"} /\ k.phase # "none"
       ELSE k.status = "running"

Occupied(d) == {t \in Tasks : Counted(d[t])}

\* One drain of the scheduler queue from d: it launches tasks of `queue`,
\* as many of `wanted` as there are free slots.
Drain(d, queue, wanted) ==
    LET able == {t \in queue : Startable(d[t])}
        busy == Cardinality(Occupied(d))
    IN  \E L \in SUBSET able :
          /\ L # {} => busy + Cardinality(L) <= MaxConcurrency
          /\ \/ wanted \cap able \subseteq L
             \/ L \subseteq wanted /\ busy + Cardinality(L) >= MaxConcurrency
          /\ \E E \in SUBSET (IF "enqueue" \in Faults THEN L ELSE {}) :
               db' = [t \in Tasks |-> IF t \in L THEN Launch(d[t], t \notin E) ELSE d[t]]

Parked == {t \in Tasks : mem[t].parked}
Unpark(m) == [t \in Tasks |-> [m[t] EXCEPT !.parked = FALSE]]

\* startExecution skips the tasks parked for capacity.
TopUp == Drain(db, Tasks \ Parked, Tasks \ Parked) /\ UNCHANGED mem

BackoffElapses(t) ==
    /\ mem[t].parked
    /\ mem' = [mem EXCEPT ![t].parked = FALSE]
    /\ UNCHANGED db

-----------------------------------------------------------------------------
(* Worker responses.                                                       *)

\* Mutant: only a launching task takes a response.
ExecutableWhenLaunching(k) ==
    ~k.preserved /\ k.status \in {"pending", "queued"} /\ k.phase = "launching"

Executable(k) ==
    /\ ~k.preserved
    /\ \/ k.status = "running"
       \/ k.status \in {"pending", "queued"} /\ k.phase = "launching"

Accepts(k, a, g) ==
    a = k.sel /\ k.att[a] # "superseded" /\ g = k.gen /\ Executable(k)

Outcomes == {"completed", "failed", "needs_input"}

Settle(k, outcome) ==
    [k EXCEPT !.status = outcome,
              !.prompted = @ \/ outcome = "needs_input",
              !.att[k.sel] = CASE outcome = "completed" -> IF @ = "running" THEN outcome ELSE @
                               [] outcome = "failed" -> IF @ \in Leasable THEN outcome ELSE @
                               [] OTHER -> outcome]

\* handleWorkerResponse for attempt a of t launched under generation g, from
\* durable state d and memory m.  An end of t starts every ready task and
\* releases all deferred ones; a prompt for input starts nothing.
Respond(d, m, t, a, g, outcome) ==
    LET d1 == [d EXCEPT ![t] = Settle(@, outcome)]
    IN  \/ /\ ~Accepts(d[t], a, g)
           /\ db' = d /\ mem' = m
        \/ /\ Accepts(d[t], a, g) /\ outcome = "needs_input"
           /\ db' = d1 /\ mem' = m
        \/ /\ Accepts(d[t], a, g) /\ outcome # "needs_input"
           /\ Drain(d1, Tasks, Tasks)
           /\ mem' = Unpark(m)

\* isLaunchStale: the lineage moved past the attempt captured at launch.
LaunchStale(t, a) == a # db[t].sel \/ mem[t].pgen[a] # db[t].gen

-----------------------------------------------------------------------------
(* LaunchDispatcher.                                                       *)

\* Mutant: a task that is queued for its launch counts as moved on.
RowStaleUnlessPending(k, a) ==
    k.status # "pending" \/ a # k.sel \/ k.row[a].gen # k.gen

RowStale(k, a) ==
    k.status \notin {"pending", "queued"} \/ a # k.sel \/ k.row[a].gen # k.gen

\* claimLaunchDispatchAtomic and the hand-over to executeTask.
Claim(t, a) ==
    LET k == db[t]
        leased == [k EXCEPT !.row[a].state = "leased", !.row[a].expired = FALSE,
                            !.row[a].tries = k.row[a].tries + 1]
    IN  /\ k.row[a].state = "enqueued"
        /\ \/ /\ RowStale(k, a)
              /\ db' = [db EXCEPT ![t] = EndRow(k, a, "abandoned")]
              /\ UNCHANGED mem
           \/ /\ ~RowStale(k, a) /\ mem[t].proc[a] # "none"
              /\ db' = [db EXCEPT ![t] = FailDispatch(leased, a)]
              /\ UNCHANGED mem
           \/ /\ ~RowStale(k, a) /\ mem[t].proc[a] = "none"
              /\ db' = [db EXCEPT ![t] = leased]
              /\ mem' = [mem EXCEPT ![t].proc[a] = "starting", ![t].pgen[a] = k.gen]

FenceExpires(t, a) ==
    /\ db[t].row[a].state = "leased" /\ ~db[t].row[a].expired /\ ~db[t].row[a].ack
    /\ db' = [db EXCEPT ![t].row[a].expired = TRUE]
    /\ UNCHANGED mem

\* Mutant: a launch still in flight is never overdue.
OverdueWhenGone(t, a) ==
    db[t].row[a].state = "leased" /\ db[t].row[a].expired /\ mem[t].proc[a] = "none"

Overdue(t, a) ==
    db[t].row[a].state = "leased" /\ db[t].row[a].expired /\ ~db[t].row[a].ack

StuckRows(k) == {a \in Attempts : k.row[a].state = "stuck"}

\* Mutant: the budget is counted per attempt.
OverBudgetOfAttempt(k) == Cardinality(StuckRows(k) \cap {k.sel}) > MaxStuck

OverBudget(k) == Cardinality(StuckRows(k)) > MaxStuck

\* abandonStuckLeases: the row leaves the outbox, and its task is failed when
\* the task's durable count of such rows exceeds the budget, else given a
\* fresh attempt.  A task that has an outcome refuses the fresh attempt.
AbandonStuck(t, a) ==
    LET k == EndRow(db[t], a, "stuck")
    IN  /\ Overdue(t, a) /\ (db[t].row[a].tries >= MaxTries \/ AgeCutoff)
        /\ \/ /\ OverBudget(k)
              /\ db' = [db EXCEPT ![t] = FailTask(k)]
           \/ /\ ~OverBudget(k)
              /\ k.status \in {"completed", "failed"}
              /\ db' = [db EXCEPT ![t] = k]
           \/ /\ ~OverBudget(k)
              /\ k.status \notin {"completed", "failed"} /\ MoreAttempts(k)
              /\ db' = [db EXCEPT ![t] = Prepare(k)]
        /\ UNCHANGED mem

\* reapExpiredLeases runs after abandonStuckLeases in the same poll.
Reap(t, a) ==
    /\ Overdue(t, a) /\ db[t].row[a].tries < MaxTries /\ ~AgeCutoff
    /\ db' = [db EXCEPT ![t] = EndRow(@, a, "enqueued")]
    /\ UNCHANGED mem

-----------------------------------------------------------------------------
(* TaskRunner.                                                             *)

\* Mutant: the lineage of the launch is not looked at.
LaunchCurrentByStatus(t, a) == db[t].status \in {"pending", "queued", "running"}

\* Mutant: the status of the task is not looked at.
LaunchCurrentByLineage(t, a) ==
    ~LaunchStale(t, a) /\ db[t].att[a] \notin {"none", "superseded"}

\* markTaskRunningAfterLaunch together with the generation check before it.
LaunchCurrent(t, a) ==
    /\ ~LaunchStale(t, a)
    /\ db[t].att[a] \notin {"none", "superseded"}
    /\ db[t].status \in {"pending", "queued", "running"}

MarkRunning(k, a) ==
    [k EXCEPT !.status = "running", !.phase = "executing", !.lease = TRUE,
              !.att[a] = "running",
              !.row[a].ack = @ \/ k.row[a].state = "leased"]

\* From the resolution of executor.start to the registration of the handle
\* nothing is awaited.  A handle without a workspace, or metadata that cannot
\* be saved, throws after the row was accepted.
LaunchAccepted(t, a, usable) ==
    LET k == MarkRunning(db[t], a)
    IN  /\ mem[t].proc[a] = "starting" /\ LaunchCurrent(t, a)
        /\ db' = [db EXCEPT ![t] = IF usable THEN k ELSE FailDispatch(k, a)]
        /\ mem' = [mem EXCEPT ![t].proc[a] = IF usable THEN "live" ELSE "failing"]

LaunchRejected(t, a) ==
    /\ mem[t].proc[a] = "starting" /\ ~LaunchCurrent(t, a)
    /\ mem' = [mem EXCEPT ![t].proc[a] = "stopping"]
    /\ UNCHANGED db

\* The row is failed only after the rejected process has been killed.
RejectKilled(t, a) ==
    /\ mem[t].proc[a] = "stopping"
    /\ mem' = [mem EXCEPT ![t].proc[a] = "none"]
    /\ db' = [db EXCEPT ![t] = FailDispatch(@, a)]

\* executeTask's catch: a stale launch leaves no trace, not even on its row.
LaunchThrows(t, a) ==
    /\ mem[t].proc[a] = "starting"
    /\ \/ /\ LaunchStale(t, a)
          /\ mem' = [mem EXCEPT ![t].proc[a] = "none"]
          /\ UNCHANGED db
       \/ /\ ~LaunchStale(t, a)
          /\ mem' = [mem EXCEPT ![t].proc[a] = "failing"]
          /\ db' = [db EXCEPT ![t] = FailDispatch(@, a)]

\* The failed response is sent after awaiting the executor's cleanup.
FailureReported(t, a) ==
    /\ mem[t].proc[a] = "failing"
    /\ Respond(db, [mem EXCEPT ![t].proc[a] = "none"], t, a, mem[t].pgen[a], "failed")

\* A launch without execution capacity defers the task.  This catch branch
\* comes before the staleness check, and deferTask looks at no attempt.
ResourceLimit(t, a) ==
    /\ mem[t].proc[a] = "starting" /\ MoreAttempts(db[t])
    /\ Drain([db EXCEPT ![t] = Defer(@)], Tasks \ {t}, {})
    /\ mem' = [mem EXCEPT ![t].proc[a] = "none", ![t].parked = TRUE]

Heartbeat(t) ==
    /\ mem[t].proc[db[t].sel] \in {"starting", "live"} /\ ~db[t].lease
    /\ db' = [db EXCEPT ![t].lease = TRUE]
    /\ UNCHANGED mem

\* A lease outlives the fence of a dispatch row and is renewed while the
\* attempt is launched or runs, unless the owner stops for longer than a
\* lease ("stall": the machine slept, the dispatcher had no runner) or died.
Attended(k, m) ==
    ~k.preserved /\ (m.proc[k.sel] \in {"starting", "live"} \/ k.row[k.sel].state \in LiveRow)

LeaseExpires(t) ==
    /\ db[t].lease /\ db[t].att[db[t].sel] \in Leasable
    /\ "stall" \in Faults \/ ~Attended(db[t], mem[t])
    /\ db' = [db EXCEPT ![t].lease = FALSE]
    /\ UNCHANGED mem

\* The executor's completion callback: a stale completion is suppressed, and
\* the row is completed either way.
Completes(t, a, outcome) ==
    LET m == [mem EXCEPT ![t].proc[a] = "none"]
        d == [db EXCEPT ![t] = EndRow(@, a, "completed")]
    IN  /\ mem[t].proc[a] \in {"live", "killing", "killed"}
        /\ \/ LaunchStale(t, a) /\ db' = d /\ mem' = m
           \/ ~LaunchStale(t, a) /\ Respond(d, m, t, a, mem[t].pgen[a], outcome)

\* Mutant: the watchdog looks at tasks with a process only.
ExecutingStallOfLive(t) ==
    /\ db[t].status = "running" /\ db[t].phase = "executing"
    /\ db[t].att[db[t].sel] \in Leasable /\ ~db[t].lease
    /\ mem[t].proc[db[t].sel] \in Registered
    /\ Respond(db, mem, t, db[t].sel, db[t].gen, "failed")

\* The watchdog fails a task that executes without a lease.
ExecutingStall(t) ==
    /\ db[t].status = "running" /\ db[t].phase = "executing"
    /\ db[t].att[db[t].sel] \in Leasable /\ ~db[t].lease
    /\ Respond(db, mem, t, db[t].sel, db[t].gen, "failed")

\* selectExecutor of any launch drops executions that are not selected.
ReclaimOrphan(t, a) ==
    /\ mem[t].proc[a] \in Registered /\ a # db[t].sel
    /\ \E u \in Tasks, b \in Attempts : mem[u].proc[b] = "starting"
    /\ mem' = [mem EXCEPT ![t].proc[a] = "killed"]
    /\ UNCHANGED db

KillDone(t, a) ==
    /\ mem[t].proc[a] = "killing"
    /\ mem' = [mem EXCEPT ![t].proc[a] = "killed"]
    /\ UNCHANGED db

-----------------------------------------------------------------------------
(* Commands and restarts.                                                  *)

\* resolveActiveExecution: the selected attempt's process, else any other.
Victims(t) ==
    LET running == {a \in Attempts : mem[t].proc[a] \in Registered}
    IN  IF db[t].status # "running" \/ running = {} THEN {0}
        ELSE IF db[t].sel \in running THEN {db[t].sel} ELSE running

Kill(proc, v) == [a \in Attempts |-> IF a = v THEN "killing" ELSE proc[a]]

\* The facade's cancelTask: cancel at once, then kill.
CancelTask(t) ==
    /\ db[t].status # "completed"
    /\ db' = [db EXCEPT ![t] = MarkCancelled(AbandonRows(@))]
    /\ \E v \in Victims(t) :
         mem' = [mem EXCEPT ![t].parked = FALSE, ![t].proc = Kill(@, v)]

ProvideInput(t) ==
    /\ db[t].status = "needs_input"
    /\ db' = [db EXCEPT ![t].status = "running", ![t].att[db[t].sel] = "running"]
    /\ UNCHANGED mem

\* A retry cancels first and keeps the outbox rows until the kill returns;
\* the per-workflow command mutex admits one at a time.
BeginRetry(t) ==
    /\ ~mem[t].retry /\ MoreAttempts(db[t])
    /\ db' = [db EXCEPT ![t] = MarkCancelled(@)]
    /\ \E v \in Victims(t) :
         mem' = [mem EXCEPT ![t].retry = TRUE, ![t].victim = v, ![t].proc = Kill(@, v),
                            ![t].parked = @ /\ db[t].status = "completed"]

FinishRetry(t) ==
    /\ mem[t].retry /\ MoreAttempts(db[t])
    /\ mem[t].victim \notin {a \in Attempts : mem[t].proc[a] = "killing"}
    /\ Drain([db EXCEPT ![t] = Reset(@)], Tasks, {t})
    /\ mem' = [mem EXCEPT ![t].retry = FALSE, ![t].victim = 0, ![t].parked = FALSE]

\* The owner process dies and another one boots.  When the new owner had to
\* reclaim a dead owner's writer lock it preserves what was in flight, else
\* it fails it; then it starts what is ready.  A queued task whose lease ran
\* out may be relaunched before its turn to be failed comes.
InFlight(k) ==
    /\ ~k.preserved
    /\ \/ k.status = "running"
       \/ k.status \in {"pending", "queued"} /\ k.phase = "launching"

Restart(reclaimed) ==
    /\ "restart" \in Faults
    /\ mem' = [t \in Tasks |-> NoRuntime]
    /\ LET lost == {t \in Tasks : InFlight(db[t])}
           late == {t \in lost : Startable(db[t])}
           kept == [t \in Tasks |-> IF t \in lost THEN [db[t] EXCEPT !.preserved = TRUE]
                                    ELSE db[t]]
       IN  \/ reclaimed /\ Drain(kept, Tasks, Tasks)
           \/ /\ ~reclaimed
              /\ \E spared \in SUBSET late :
                   LET d == [t \in Tasks |-> IF t \in lost \ spared
                                             THEN Settle(db[t], "failed") ELSE db[t]]
                   IN  Drain(d, Tasks, Tasks) /\ \A t \in spared : db'[t] # d[t]

-----------------------------------------------------------------------------
AttemptStep(t, a) ==
    \/ Claim(t, a) \/ FenceExpires(t, a) \/ AbandonStuck(t, a) \/ Reap(t, a)
    \/ \E usable \in BOOLEAN : LaunchAccepted(t, a, usable)
    \/ LaunchRejected(t, a) \/ RejectKilled(t, a)
    \/ LaunchThrows(t, a) \/ FailureReported(t, a) \/ ResourceLimit(t, a)
    \/ \E outcome \in Outcomes : Completes(t, a, outcome)
    \/ ReclaimOrphan(t, a) \/ KillDone(t, a)

TaskStep(t) ==
    \/ BackoffElapses(t) \/ Heartbeat(t) \/ LeaseExpires(t) \/ ExecutingStall(t)
    \/ CancelTask(t) \/ ProvideInput(t) \/ BeginRetry(t) \/ FinishRetry(t)

Next ==
    \/ TopUp
    \/ \E t \in Tasks : TaskStep(t)
    \/ \E t \in Tasks, a \in Attempts : AttemptStep(t, a)
    \/ \E reclaimed \in BOOLEAN : Restart(reclaimed)

Spec == Init /\ [][Next]_vars

\* What the owner's timers guarantee: the poll, the watchdog, the fences,
\* leases and backoffs, and the awaited kills.  No process has to end.
Timers(t) ==
    /\ WF_vars(LeaseExpires(t)) /\ WF_vars(ExecutingStall(t)) /\ WF_vars(BackoffElapses(t))
    /\ \A a \in Attempts :
         /\ WF_vars(Claim(t, a)) /\ WF_vars(FenceExpires(t, a))
         /\ WF_vars(AbandonStuck(t, a)) /\ WF_vars(Reap(t, a))
         /\ WF_vars(RejectKilled(t, a)) /\ WF_vars(FailureReported(t, a))
         /\ WF_vars(KillDone(t, a))

FairSpec == Spec /\ WF_vars(TopUp) /\ \A t \in Tasks : Timers(t)

-----------------------------------------------------------------------------
(* Properties.                                                             *)

\* The records keep their shape: the one type invariant of the module.
TypeOK ==
    /\ db \in [Tasks -> Durable]
    /\ mem \in [Tasks -> Volatile]

\* Whatever the interleaving of claims, stuck leases, deferrals, retries and
\* restarts, an attempt that is not selected is over: every operation that
\* mints an attempt retires the one it replaces.
OnlySelectedActive ==
    \A t \in Tasks, a \in Attempts : a # db[t].sel => db[t].att[a] \notin Active

\* A task shown as running is really being run by this owner, by a process
\* started for its selected attempt and generation, so that its response will
\* be accepted; the exceptions are crash preservation and an answered prompt.
RunningIsOwned ==
    \A t \in Tasks :
        LET k == db[t]
        IN  k.status = "running" /\ ~k.preserved /\ ~k.prompted =>
              /\ mem[t].proc[k.sel] \in {"live", "failing"}
              /\ mem[t].pgen[k.sel] = k.gen
              /\ k.att[k.sel] = "running"

\* Durable-write / durable-recovery symmetry: a task claimed for launch has a
\* live row of its selected attempt, or a launch of it under way or yet to
\* report its failure; only when outbox writes can fail may it have no row.
ClaimedIsRecoverable ==
    \A t \in Tasks :
        LET k == db[t]
        IN  k.status = "queued" /\ k.phase = "launching" /\ ~k.preserved =>
              \/ k.row[k.sel].state \in LiveRow
              \/ mem[t].proc[k.sel] \in {"starting", "failing"}
              \/ "enqueue" \in Faults /\ k.row[k.sel] = NoRow

\* The tasks whose attempts hold slots never exceed the concurrency limit, as
\* long as the owner does not stop for longer than a lease.  A task resumed
\* by its user's answer takes a slot without asking for one.
SlotsRespected ==
    "stall" \notin Faults =>
        Cardinality({t \in Occupied(db) : ~db[t].prompted}) <= MaxConcurrency

\* An attempt's outcome is final: no late launch, response, cancel or retry
\* brings a completed, failed or superseded attempt back.
OutcomesAreFinal ==
    [][\A t \in Tasks, a \in Attempts :
          db[t].att[a] \in {"completed", "failed", "superseded"} =>
            db'[t].att[a] = db[t].att[a]]_vars

\* The end of a process that runs a task is never ignored as stale: the task
\* leaves running with its process, unless a dead owner took both down.
EndIsHeard ==
    [][\A t \in Tasks :
          /\ db[t].status = "running" /\ ~db[t].preserved
          /\ mem[t].proc[db[t].sel] = "live" /\ mem'[t].proc[db[t].sel] = "none"
          => db'[t].status # "running" \/ db'[t].preserved]_vars

\* A launch that was accepted is never queued again, so no second process is
\* started for it, whichever of failDispatch, the reaper and the stuck-lease
\* sweep reaches its row later.
AcceptedNeverRequeued ==
    [][\A t \in Tasks, a \in Attempts :
          db[t].row[a].ack => db'[t].row[a].state # "enqueued"]_vars

\* The stuck-lease budget survives fresh attempts and restarts: a stuck lease
\* beyond it never mints another attempt.
StuckBudgetStops ==
    [][\A t \in Tasks :
          /\ StuckRows(db'[t]) # StuckRows(db[t])
          /\ Cardinality(StuckRows(db'[t])) > MaxStuck
          => db'[t].sel = db[t].sel /\ db'[t].status \in {"failed", "completed"}]_vars

\* "Defer a running task back to pending": a task that was cancelled or has
\* failed comes back only through a retry, or by a launch of it that was under
\* way at that moment and ends for want of capacity (deferTask asks nothing).
EndedRevivedOnlyByRetry ==
    [][\A t \in Tasks : db[t].status = "failed" /\ db'[t].status # "failed" =>
          \/ mem[t].retry
          \/ /\ db'[t].status = "queued" /\ mem'[t].parked
             /\ \E a \in Attempts : mem[t].proc[a] = "starting" /\ mem'[t].proc[a] = "none"]_vars

\* Every claimed launch gets an answer within the timers' bounds: its row is
\* accepted or leaves the outbox (or the bound on attempts is reached).
LaunchSettles ==
    \A t \in Tasks, a \in Attempts :
        db[t].row[a].state \in LiveRow ~>
            \/ db[t].row[a].state \notin LiveRow
            \/ db[t].row[a].ack
            \/ ~MoreAttempts(db[t])

\* A running task that no process executes does not stay so: its lease runs
\* out and the watchdog fails it, unless it was preserved after a crash.
UnownedRunEnds ==
    \A t \in Tasks :
        (db[t].status = "running" /\ db[t].prompted) ~>
            db[t].status # "running" \/ db[t].preserved

=============================================================================
