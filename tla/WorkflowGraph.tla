--------------------------- MODULE WorkflowGraph ---------------------------
(***************************************************************************)
(* The task graph of one workflow: how the Orchestrator moves its tasks    *)
(* when they are launched, end, are fixed, approved, cancelled, retried or *)
(* recreated, and what each of those does to the tasks that depend on them.*)
(*                                                                         *)
(* A launch is one action here (claim to running is LaunchHandoff's), and  *)
(* so is every handler, except the two that await in the middle with the   *)
(* workflow's mutex held: an invalidation, which kills the cancelled       *)
(* processes between its cancel and its reset, and the approval of a merge *)
(* gate, which merges the branch between its check and its write.          *)
(*                                                                         *)
(* Every reset clears startedAt, so a task that is pending, queued,        *)
(* blocked or skipped never has one and "never started" is its status.     *)
(***************************************************************************)
EXTENDS Naturals, FiniteSets

CONSTANTS
    Tasks,
    Deps,            \* the dependencies of each task
    Gated,           \* tasks that require a manual approval
    Merge,           \* merge gates: they end in a review
    Hooked,          \* merge gates whose approval merges the branch
    MaxConcurrency,
    MaxMoves         \* bound: what people and workers ask of the workflow

ASSUME GraphSetsAssumption ==
    /\ IsFiniteSet(Tasks)
    /\ Deps \in [Tasks -> SUBSET Tasks]
    /\ Gated \subseteq Tasks
    /\ Hooked \subseteq Merge
    /\ Merge \subseteq Tasks \ Gated
ASSUME GraphAcyclicAssumption ==
    \A S \in (SUBSET Tasks) \ {{}} : \E t \in S : Deps[t] \cap S = {}
ASSUME GraphBoundsAssumption ==
    /\ MaxConcurrency \in Nat \ {0}
    /\ MaxMoves \in Nat

VARIABLES
    task,    \* the task rows
    cmd,     \* the command that holds the workflow's mutex over an await
    undone,  \* history: an idle task was closed, or finished work rejected
    moves

vars == <<task, cmd, undone, moves>>

Statuses == {"pending", "queued", "running", "fixing_with_ai", "awaiting_approval",
             "review_ready", "blocked", "skipped", "completed", "failed", "closed"}
EntryStatuses == {"failed", "review_ready", "awaiting_approval"}

\* launched is the history of the row: its attempt was claimed.  A reset, and
\* the return of a blocked or skipped task, selects a new attempt.
Row == [st : Statuses,
        workspace : BOOLEAN,                \* workspacePath
        entry : EntryStatuses \cup {"none"}, \* fixSessionEntryStatus
        parked : BOOLEAN,                   \* pendingFixError
        agent : BOOLEAN,                    \* a fix agent works on this lineage
        launched : BOOLEAN]

NewRow == [st |-> "pending", workspace |-> FALSE, entry |-> "none",
           parked |-> FALSE, agent |-> FALSE, launched |-> FALSE]

TaskCommands == {"retryTask", "recreateTask", "recreateDownstream"}
WorkflowCommands == {"retryWorkflow", "recreateWorkflow"}
Kinds == TaskCommands \cup WorkflowCommands \cup {"approve"}
NoCmd == [kind |-> "none", target |-> {}]

Init ==
    /\ task = [t \in Tasks |-> NewRow]
    /\ cmd = NoCmd
    /\ undone = FALSE
    /\ moves = 0

-----------------------------------------------------------------------------
(* The graph.                                                              *)

\* What depends on `roots`, directly or not, over tasks of `open` only: the
\* walk does not enter a task outside `open`.
Below(roots, open) ==
    LET Closed(S) == \A t \in open : Deps[t] \cap (roots \cup S) # {} => t \in S
    IN  {t \in open : \A S \in SUBSET open : Closed(S) => t \in S}

In(g, S) == {t \in Tasks : g[t].st \in S}
\* The walks of a failure, a cancellation and an approval stop at a completed task.
Unfinished(g) == Tasks \ In(g, {"completed"})

To(g, S, status) == [t \in Tasks |-> IF t \in S THEN [g[t] EXCEPT !.st = status] ELSE g[t]]

\* Mutant: a blocked task is not looked at again.
ReadyPending(g) == {t \in In(g, {"pending"}) : \A d \in Deps[t] : g[d].st = "completed"}

\* getReadyNodes, for tasks that are not claimed yet.
Ready(g) ==
    {t \in In(g, {"pending", "blocked"}) : \A d \in Deps[t] : g[d].st = "completed"}

\* Tasks with a claimed or running attempt.
Occupied(g) == In(g, {"queued", "running", "fixing_with_ai"})

Free(g) ==
    LET n == Cardinality(Occupied(g))
    IN  IF n < MaxConcurrency THEN MaxConcurrency - n ELSE 0

\* A claim; a row with a parked fix gets a new attempt, which clears it.
Claim(r) ==
    [r EXCEPT !.st = "queued", !.launched = TRUE,
              !.workspace = @ /\ ~r.parked,
              !.entry = IF r.parked THEN "none" ELSE @,
              !.parked = FALSE]

\* Blocked or skipped tasks are pending again, on a new attempt.
Return(g, S) ==
    [t \in Tasks |-> IF t \in S THEN [g[t] EXCEPT !.st = "pending", !.launched = FALSE] ELSE g[t]]

\* A drain of the scheduler: the wanted tasks are in its queue (a blocked one
\* is pending again), others that are ready may be left there from before,
\* and it claims while slots last.
Drain(g, wanted) ==
    LET h == Return(g, wanted \cap Ready(g) \cap In(g, {"blocked"}))
    IN  \E L \in SUBSET Ready(h) :
            /\ Cardinality(L) <= Free(h)
            /\ wanted \cap Ready(h) \subseteq L \/ Cardinality(L) = Free(h)
            /\ task' = [t \in Tasks |-> IF t \in L THEN Claim(h[t]) ELSE h[t]]

DrainAll(g) == Drain(g, Tasks)

-----------------------------------------------------------------------------
(* Workers.                                                                *)

\* The failure of t: what depends on it and has not started is skipped.
Failed(g, t) ==
    LET below == Below({t}, Unfinished(g))
    IN  To(To(g, {t}, "failed"), below \cap In(g, {"pending", "queued", "blocked"}), "skipped")

\* markTaskRunningAfterLaunch: the executor of a claimed task has started.
Launched(t) ==
    /\ task[t].st = "queued"
    /\ task' = [task EXCEPT ![t].st = "running", ![t].workspace = TRUE]
    /\ UNCHANGED <<cmd, undone, moves>>

\* A worker's `completed` response; one that needs an approval waits for it.
Completes(t) ==
    /\ task[t].st = "running" /\ t \notin Merge
    /\ IF t \in Gated THEN task' = To(task, {t}, "awaiting_approval")
                      ELSE DrainAll(To(task, {t}, "completed"))
    /\ UNCHANGED <<cmd, undone, moves>>

\* A merge gate has published its review.
ReviewReady(t) ==
    /\ task[t].st = "running" /\ t \in Merge
    /\ DrainAll(To(task, {t}, "review_ready"))
    /\ UNCHANGED <<cmd, undone, moves>>

\* A `failed` response of a task that runs or is being launched.
Fails(t) ==
    /\ task[t].st \in {"queued", "running"}
    /\ DrainAll(Failed(task, t))
    /\ UNCHANGED <<cmd, undone, moves>>

\* The launch dispatcher gives a launch up; what depends on it stays as it is.
FailTask(t) ==
    /\ task[t].st = "queued"
    /\ task' = [task EXCEPT ![t].st = "failed", ![t].entry = "none"]
    /\ UNCHANGED <<cmd, undone, moves>>

\* The launch dispatcher's poll tops the scheduler up.
Poll == DrainAll(task) /\ task' # task /\ UNCHANGED <<cmd, undone, moves>>

-----------------------------------------------------------------------------
(* Fix sessions: an agent repairs a failed task, or a gate under review.   *)

Move == moves < MaxMoves /\ moves' = moves + 1

\* Only in a workspace that is kept, and never over a parked fix.
BeginFix(t) ==
    /\ Move
    /\ task[t].st \in EntryStatuses
    /\ task[t].workspace /\ ~task[t].parked
    /\ task' = [task EXCEPT ![t].st = "fixing_with_ai", ![t].entry = task[t].st,
                            ![t].agent = TRUE]
    /\ UNCHANGED <<cmd, undone>>

\* Mutant: parking the fix ends the session.
ParkedForGood(r) ==
    [r EXCEPT !.st = "awaiting_approval", !.entry = "none", !.parked = TRUE, !.agent = FALSE]

\* setFixAwaitingApproval.
Parked(r) == [r EXCEPT !.st = "awaiting_approval", !.parked = TRUE, !.agent = FALSE]

\* Mutant: a row that knows of no session fails.
RevertedAnyway(r) ==
    [r EXCEPT !.st = IF r.entry # "none" THEN r.entry ELSE "failed",
              !.entry = "none", !.parked = FALSE]

\* The session returns to where it was entered from; without a record of it,
\* to failed; a row that knows of no session is left alone.
Reverted(r) ==
    LET back == IF r.entry # "none" THEN r.entry
                ELSE IF r.st \in {"fixing_with_ai", "failed"} \/ r.parked THEN "failed"
                ELSE "none"
    IN  IF back = "none" THEN r
        ELSE [r EXCEPT !.st = back, !.entry = "none", !.parked = FALSE]

\* The agent ends while its lineage is the task's: its fix is parked for a
\* person, or the session is reverted -- also when the task was cancelled.
FixEnds(t) ==
    /\ task[t].agent
    /\ \/ /\ task[t].st = "fixing_with_ai"
          /\ task' = [task EXCEPT ![t] = Parked(task[t])]
       \/ task' = [task EXCEPT ![t] = [Reverted(task[t]) EXCEPT !.agent = FALSE]]
    /\ UNCHANGED <<cmd, undone, moves>>

-----------------------------------------------------------------------------
(* Approvals.                                                              *)

Asks(t) == task[t].st \in {"awaiting_approval", "review_ready"}

\* Mutant: what the failure skipped stays skipped.
ApprovedOnly(g, t) ==
    [To(g, {t}, "completed") EXCEPT ![t].entry = "none"]

\* The write of an approval: t is completed and what its failure skipped
\* is pending again.
Approved(g, t) ==
    LET done == [To(g, {t}, "completed") EXCEPT ![t].entry = "none"]
    IN  Return(done, Below({t}, Unfinished(done)) \cap In(g, {"skipped"}))

\* Of a task, or of a gate that merges nothing.
Approve(t) ==
    /\ Asks(t)
    /\ ~(t \in Merge /\ task[t].parked)
    /\ t \notin Hooked
    /\ DrainAll(Approved(task, t))
    /\ UNCHANGED <<cmd, undone, moves>>

\* Of a gate with a parked fix: the gate runs again, to publish it.
ApproveFix(t) ==
    /\ Asks(t)
    /\ t \in Merge /\ task[t].parked
    /\ task' = [task EXCEPT ![t].st = "running", ![t].parked = FALSE, ![t].entry = "none"]
    /\ UNCHANGED <<cmd, undone, moves>>

\* Of a gate that merges: the check, then the await of the merge.
BeginApprove(t) ==
    /\ cmd = NoCmd
    /\ Asks(t) /\ t \in Hooked /\ ~task[t].parked
    /\ cmd' = [kind |-> "approve", target |-> {t}]
    /\ UNCHANGED <<task, undone, moves>>

\* The merge is done: the task is completed, whatever it has become.
EndApprove ==
    /\ cmd.kind = "approve"
    /\ \E t \in cmd.target : DrainAll(Approved(task, t))
    /\ cmd' = NoCmd
    /\ UNCHANGED <<undone, moves>>

\* A reject of a parked fix reverts its session, any other fails the task;
\* neither touches what depends on it.  The first has no check of the status:
\* an approved or cancelled task still carries its parked fix.
Reject(t) ==
    /\ Move
    /\ Asks(t) \/ task[t].parked
    /\ task' = [task EXCEPT ![t] = IF @.parked THEN Reverted(@)
                                   ELSE [@ EXCEPT !.st = "failed", !.entry = "none"]]
    /\ undone' = (undone \/ task[t].st = "completed")
    /\ UNCHANGED cmd

-----------------------------------------------------------------------------
(* Cancelling.                                                             *)

\* The cascade of a cancelled task: what has not started waits for a retry,
\* everything else fails.
Cancelled(g, t) ==
    LET reach == {t} \cup Below({t}, Unfinished(g))
        waits == (reach \ {t}) \cap In(g, {"pending", "queued", "blocked", "skipped"})
    IN  To(To(g, reach \ waits, "failed"), waits, "blocked")

WorkflowCancelled(g) ==
    To(g, In(g, {"pending", "queued", "running", "fixing_with_ai", "blocked",
                 "review_ready", "awaiting_approval"}), "failed")

\* A user cancels a task.
CancelTask(t) ==
    /\ Move
    /\ task[t].st \notin {"completed", "closed"}
    /\ task' = Cancelled(task, t)
    /\ UNCHANGED <<cmd, undone>>

CancelWorkflow ==
    /\ Move
    /\ task' = WorkflowCancelled(task)
    /\ task' # task
    /\ UNCHANGED <<cmd, undone>>

\* A sweep closes an idle task, alone.
CloseIdleTask(t) ==
    /\ Move
    /\ cmd = NoCmd
    /\ task[t].st \in {"failed", "completed", "review_ready"}
    /\ task' = To(task, {t}, "closed")
    /\ undone' = TRUE
    /\ UNCHANGED cmd

-----------------------------------------------------------------------------
(* Retries and recreations.                                                *)

\* A retry keeps the workspace; a recreation drops it, and keeps what is
\* recorded of a fix session.
RetryReset(r) == [NewRow EXCEPT !.workspace = r.workspace]
RecreateReset(r) == [NewRow EXCEPT !.entry = r.entry, !.parked = r.parked]

\* Mutant: the reset does not go past a completed task.
RetryToCompleted(g, roots, forced) ==
    LET reset == (roots \cup Below(roots, Unfinished(g))) \ (In(g, {"pending"}) \ forced)
    IN  [t \in Tasks |-> IF t \in reset THEN RetryReset(g[t]) ELSE g[t]]

Retry(g, roots, forced) ==
    LET reset == (roots \cup Below(roots, Tasks)) \ (In(g, {"pending"}) \ forced)
    IN  [t \in Tasks |-> IF t \in reset THEN RetryReset(g[t]) ELSE g[t]]

Recreate(g, S) == [t \in Tasks |-> IF t \in S THEN RecreateReset(g[t]) ELSE g[t]]

\* What a workflow's retry starts from: skipped and closed tasks are not in it.
RetryRoots(g) ==
    In(g, {"failed", "blocked", "running", "fixing_with_ai", "awaiting_approval", "review_ready"})

\* A command takes the mutex and cancels what it invalidates; a target that
\* is over already is left as it is, and so is everything below it.
BeginInvalidation(kind, target) ==
    /\ Move
    /\ cmd = NoCmd
    /\ cmd' = [kind |-> kind, target |-> target]
    /\ task' = IF kind \in WorkflowCommands THEN WorkflowCancelled(task)
               ELSE IF target \cap In(task, {"completed", "closed"}) = {}
                    THEN Cancelled(task, CHOOSE t \in target : TRUE)
               ELSE task
    /\ UNCHANGED undone

\* The cancelled processes are killed: the reset, and a drain of its roots.
ApplyInvalidation ==
    LET below == Below(cmd.target, Tasks)
        all == cmd.target \cup below
    IN  /\ \/ /\ cmd.kind = "retryTask"
              /\ Drain(Retry(task, cmd.target, cmd.target), cmd.target)
           \/ cmd.kind = "recreateTask" /\ Drain(Recreate(task, all), all)
           \/ cmd.kind = "recreateDownstream" /\ Drain(Recreate(task, below), below)
           \/ cmd.kind = "retryWorkflow" /\ DrainAll(Retry(task, RetryRoots(task), {}))
           \/ cmd.kind = "recreateWorkflow" /\ DrainAll(Recreate(task, Tasks))
        /\ cmd' = NoCmd
        /\ UNCHANGED <<undone, moves>>

\* The await throws (a kill or the merge fails): the command ends there.
CommandFails ==
    /\ cmd # NoCmd
    /\ cmd' = NoCmd
    /\ UNCHANGED <<task, undone, moves>>

Next ==
    \/ \E t \in Tasks :
        \/ Launched(t) \/ Completes(t) \/ ReviewReady(t) \/ Fails(t) \/ FailTask(t)
        \/ BeginFix(t) \/ FixEnds(t)
        \/ Approve(t) \/ ApproveFix(t) \/ BeginApprove(t) \/ Reject(t)
        \/ CancelTask(t) \/ CloseIdleTask(t)
        \/ \E kind \in TaskCommands : BeginInvalidation(kind, {t})
    \/ \E kind \in WorkflowCommands : BeginInvalidation(kind, {})
    \/ EndApprove \/ ApplyInvalidation \/ CommandFails \/ CancelWorkflow
    \/ Poll

Spec == Init /\ [][Next]_vars

\* The dispatcher's poll is a timer of the owner process; nothing else has
\* to happen.
LiveSpec == Spec /\ WF_vars(Poll)

-----------------------------------------------------------------------------
(* Properties.                                                             *)

\* The values the rows and the command take.
TypeOK ==
    /\ task \in [Tasks -> Row]
    /\ cmd \in [kind : Kinds \cup {"none"}, target : SUBSET Tasks]
    /\ undone \in BOOLEAN
    /\ moves \in 0 .. MaxMoves

NotStarted == {"pending", "queued", "blocked", "skipped"}

\* Work is never kept over an input that is to be done (again): whatever
\* resets a task resets everything that was launched below it
\* (resetSubgraphToPending, applyRecreateReset).
InputsStand ==
    \A t \in Tasks : task[t].launched =>
        \A d \in Deps[t] : task[d].st \notin NotStarted

\* A skipped task has something to wait for: whoever completes the last of
\* its dependencies has brought it back (unskipDescendants, the resets).
\* Closing an idle task ends the promise, since the walks go through it, and
\* so does a late reject, which fails finished work and leaves what was built
\* on it as it is.
SkippedHasReason ==
    \/ undone
    \/ \A t \in Tasks : task[t].st = "skipped" =>
           \E d \in Deps[t] : task[d].st # "completed"

\* A fix session, running or parked, can return to where it began: no
\* cancel, reset or approval in between loses the record (merge.ts).
SessionsReturn ==
    \A t \in Tasks :
        \/ task[t].st = "fixing_with_ai"
        \/ task[t].st = "awaiting_approval" /\ task[t].parked
        => task[t].entry # "none"

\* A late reject of finished work: the task fails alone, and only once, as
\* the mark of the fix it was approved with is gone.
TakenBack(t) ==
    /\ task[t].parked
    /\ task' = [task EXCEPT ![t].st = "failed", ![t].parked = FALSE]

\* Finished work is only undone by a reset, or closed; no failure, cancel or
\* fix session of another task or of its own takes it back.  A reject does,
\* for rejectTask checks no status, but only from a task that was approved
\* with a parked fix, not from one that a worker completed.
FinishedWorkStands ==
    [][\A t \in Tasks : task[t].st = "completed" =>
           \/ task'[t].st \in {"completed", "closed", "pending", "queued"}
           \/ TakenBack(t)]_vars

\* A task whose dependencies are completed does not stay pending or blocked
\* for ever while there is a free slot, however it came to be so; one that
\* waits for a person holds no slot.
ReadyIsLaunched ==
    \A t \in Tasks :
        []<>(\/ task[t].st \notin {"pending", "blocked"}
             \/ \E d \in Deps[t] : task[d].st # "completed"
             \/ Cardinality({u \in Tasks : task[u].st \in {"queued", "running", "fixing_with_ai"}})
                >= MaxConcurrency)
=============================================================================
