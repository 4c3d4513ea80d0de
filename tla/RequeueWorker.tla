--------------------------- MODULE RequeueWorker ---------------------------
(***************************************************************************)
(* The worker that runs stalled tasks again.                               *)
(*                                                                         *)
(* A task whose process stopped its heartbeats is failed by a watchdog with *)
(* a failure class.  The requeue worker hears of it by a lifecycle event, or *)
(* finds it when it polls, and asks the mutation queue to retry the task:  *)
(* at most Budget times by a counter in worker_actions, spaced by a ledger *)
(* in memory that is keyed by task and generation.  When the budget is used *)
(* up it asks to park the task for a person, once.                         *)
(***************************************************************************)
EXTENDS Integers, Sequences, FiniteSets

CONSTANTS
    Tasks,
    Budget,         \* stallRequeueRetries
    FailureClasses, \* classes of failures that happen
    MaxFailures,    \* bound: failures of a task
    MaxRestarts,    \* bound: restarts of the owner process
    MaxRefusals,    \* bound: submissions that throw
    MaxHelp         \* bound: retries and answers of a person

ASSUME BudgetAssumption == Budget \in Nat
ASSUME ClassesAssumption ==
    FailureClasses \subseteq {"liveness_stall", "ssh-transport-transient", "other"}
ASSUME RequeueBoundsAssumption ==
    MaxFailures \in Nat /\ MaxRestarts \in Nat /\ MaxRefusals \in Nat /\ MaxHelp \in Nat

VARIABLES
    task,    \* the rows: status, failure class and generation
    cap,     \* attemptCount of the row stall-requeue-cap in worker_actions
    intents, \* open mutation intents, oldest first
    ledger,  \* the worker's memory: lineage -> entry
    hints,   \* pendingWakeups
    work,    \* the runtime's work queue: why a task is in it
    count    \* what happened so far

vars == <<task, cap, intents, ledger, hints, work, count>>
memory == <<ledger, hints, work>>

Running == [status |-> "running", class |-> "none"]
Requeueable == {"liveness_stall", "ssh-transport-transient"}

\* isRequeueableFailureTask of a failed task.
Eligible(t) == task[t].status = "failed" /\ task[t].class \in Requeueable

\* The lineage of a task: requeueLedgerKeyFromTask.
Key(t) == <<t, task[t].gen>>
NoEntry == [attempts |-> 0, spaced |-> TRUE, escalated |-> FALSE]
Entry(t) == IF Key(t) \in DOMAIN ledger THEN ledger[Key(t)] ELSE NoEntry
Enter(t, e) == ledger' = [k \in DOMAIN ledger \cup {Key(t)} |-> IF k = Key(t) THEN e ELSE ledger[k]]

Idle == [t \in Tasks |-> "none"]

\* enqueueWork: a task that is queued already stays as it is.
Enqueued(T, reason) == [t \in Tasks |-> IF t \in T /\ work[t] = "none" THEN reason ELSE work[t]]

\* The lifecycle event of a task wakes the worker for all that it has heard.
Hear(t) ==
    /\ hints' = hints \cup {t}
    /\ work' = Enqueued(hints \cup {t}, "wake")

Spend(what, bound) == count[what] < bound /\ count' = [count EXCEPT ![what] = @ + 1]

Init ==
    /\ task = [t \in Tasks |-> [status |-> "running", class |-> "none", gen |-> 0]]
    /\ cap = [t \in Tasks |-> 0]
    /\ intents = <<>>
    /\ ledger = [k \in {} |-> NoEntry] /\ hints = {} /\ work = Idle
    /\ count = [failures |-> [t \in Tasks |-> 0], restarts |-> 0, refusals |-> 0, help |-> 0,
                requeues |-> [t \in Tasks |-> 0], slips |-> [t \in Tasks |-> 0],
                escalations |-> [t \in Tasks |-> 0], resumed |-> {}]

-----------------------------------------------------------------------------
(* The task.                                                               *)

\* The watchdog or the executor fails the task.
Fails(t, class) ==
    /\ task[t].status = "running" /\ count.failures[t] < MaxFailures
    /\ task' = [task EXCEPT ![t].status = "failed", ![t].class = class]
    /\ count' = [count EXCEPT !.failures[t] = @ + 1]
    /\ Hear(t)
    /\ UNCHANGED <<cap, intents, ledger>>

Completes(t) ==
    /\ task[t].status = "running"
    /\ task' = [task EXCEPT ![t].status = "completed"]
    /\ Hear(t)
    /\ UNCHANGED <<cap, intents, ledger, count>>

\* A reset bumps the generation, the retry of a task included.
Retried(t) == [status |-> "running", class |-> "none", gen |-> task[t].gen + 1]

\* A person retries the task.
RetryByHand(t) ==
    /\ task[t].status \in {"failed", "needs_input"} /\ Spend("help", MaxHelp)
    /\ task' = [task EXCEPT ![t] = Retried(t)]
    /\ Hear(t)
    /\ UNCHANGED <<cap, intents, ledger>>

\* A person answers the prompt of a parked task.
ProvideInput(t) ==
    /\ task[t].status = "needs_input" /\ count.help < MaxHelp
    /\ task' = [task EXCEPT ![t].status = "running"]
    /\ count' = [count EXCEPT !.help = @ + 1, !.resumed = @ \cup {Key(t)}]
    /\ Hear(t)
    /\ UNCHANGED <<cap, intents, ledger>>

-----------------------------------------------------------------------------
(* The worker.                                                             *)

\* The runtime's interval.
Poll ==
    /\ \E t \in Tasks : Eligible(t) /\ work[t] = "none"
    /\ work' = Enqueued({t \in Tasks : Eligible(t)}, "poll")
    /\ UNCHANGED <<task, cap, intents, ledger, hints, count>>

\* Mutant: the worker looks at what it heard and never at the rows.
CandidatesHeard(reason) == hints

\* What a tick looks at: what was heard, if it was woken and heard anything,
\* and the rows otherwise.
Candidates(reason) ==
    IF reason = "wake" /\ hints # {} THEN hints ELSE {t \in Tasks : Eligible(t)}

\* A tick for t drains the hints; it acts if t is among its candidates and
\* its row says so now.
Tick(t) ==
    /\ work[t] # "none"
    /\ work' = [work EXCEPT ![t] = "none"]
    /\ hints' = {}

Acts(t) == t \in Candidates(work[t]) /\ Eligible(t)

\* checkRequeueRetryCap.
Allowed(t) == cap[t] < Budget

\* Mutant: the counter is not asked.
DecisionOfLedger(t) ==
    IF Entry(t).attempts >= Budget THEN "escalate"
    ELSE IF ~Entry(t).spaced THEN "backoff"
    ELSE "requeue"

\* The counter decides first, then the ledger.
Decision(t) ==
    IF ~Allowed(t) \/ Entry(t).attempts >= Budget THEN "escalate"
    ELSE IF ~Entry(t).spaced THEN "backoff"
    ELSE "requeue"

TickIdle(t) ==
    /\ Tick(t)
    /\ ~Acts(t) \/ Decision(t) = "backoff" \/ (Decision(t) = "escalate" /\ Entry(t).escalated)
    /\ UNCHANGED <<task, cap, intents, ledger, count>>

\* Mutant: the escalation goes ahead of what was submitted before.
SubmittedAhead(kind, t) ==
    intents' = IF kind = "escalate" THEN <<[kind |-> kind, task |-> t]>> \o intents
               ELSE Append(intents, [kind |-> kind, task |-> t])

Submitted(kind, t) == intents' = Append(intents, [kind |-> kind, task |-> t])

\* Mutant: the worker does not remember that it escalated.
TickEscalateForgetting(t) ==
    /\ Tick(t) /\ Acts(t) /\ Decision(t) = "escalate" /\ ~Entry(t).escalated
    /\ Submitted("escalate", t)
    /\ count' = [count EXCEPT !.escalations[t] = @ + 1]
    /\ UNCHANGED <<task, cap, ledger>>

TickEscalate(t) ==
    /\ Tick(t) /\ Acts(t) /\ Decision(t) = "escalate" /\ ~Entry(t).escalated
    /\ Submitted("escalate", t)
    /\ Enter(t, [Entry(t) EXCEPT !.escalated = TRUE])
    /\ count' = [count EXCEPT !.escalations[t] = @ + 1]
    /\ UNCHANGED <<task, cap>>

\* The ledger counts, the intent is submitted, the counter is recorded.
TickRequeue(t) ==
    /\ Tick(t) /\ Acts(t) /\ Decision(t) = "requeue"
    /\ Submitted("requeue", t)
    /\ Enter(t, [Entry(t) EXCEPT !.attempts = @ + 1, !.spaced = FALSE])
    /\ cap' = [cap EXCEPT ![t] = @ + 1]
    /\ count' = [count EXCEPT !.requeues[t] = @ + 1]
    /\ UNCHANGED task

\* The submission throws: the ledger is refunded and the tick fails.
TickRefused(t) ==
    /\ Tick(t) /\ Acts(t) /\ Spend("refusals", MaxRefusals)
    /\ \/ Decision(t) = "requeue" /\ Enter(t, [Entry(t) EXCEPT !.spaced = TRUE])
       \/ Decision(t) = "escalate" /\ ~Entry(t).escalated /\ UNCHANGED ledger
    /\ UNCHANGED <<task, cap, intents>>

\* stallRequeueBackoffMs goes by.
Elapse(t) ==
    /\ \E k \in DOMAIN ledger : k[1] = t /\ ~ledger[k].spaced
    /\ ledger' = [k \in DOMAIN ledger |-> IF k[1] = t THEN [ledger[k] EXCEPT !.spaced = TRUE] ELSE ledger[k]]
    /\ UNCHANGED <<task, cap, intents, hints, work, count>>

-----------------------------------------------------------------------------
(* The mutation queue executes the intents in order.                       *)

\* retry-task looks at no status; the escalation parks a stalled task only.
Effect(i) ==
    LET t == i.task IN
    CASE i.kind = "requeue" -> [task EXCEPT ![t] = Retried(t)]
      [] i.kind = "escalate" /\ task[t].status = "failed" /\ task[t].class = "liveness_stall" ->
            [task EXCEPT ![t].status = "needs_input", ![t].class = "none"]
      [] OTHER -> task

RunIntent ==
    /\ intents # <<>>
    /\ task' = Effect(Head(intents))
    /\ intents' = Tail(intents)
    /\ IF task' # task THEN Hear(Head(intents).task) ELSE UNCHANGED <<hints, work>>
    /\ UNCHANGED <<cap, ledger, count>>

\* The owner restarts: the worker's memory is gone, rows and intents stay.
Forget == ledger' = [k \in {} |-> NoEntry] /\ hints' = {} /\ work' = Idle

Restart ==
    /\ Spend("restarts", MaxRestarts) /\ Forget
    /\ UNCHANGED <<task, cap, intents>>

\* It dies when an intent has had its effect and is not marked completed.
DieInIntent ==
    /\ intents # <<>> /\ Spend("restarts", MaxRestarts) /\ Forget
    /\ task' = Effect(Head(intents))
    /\ UNCHANGED <<cap, intents>>

\* It dies when the intent is submitted and the counter is not recorded.
DieInTick(t) ==
    /\ work[t] # "none" /\ Acts(t) /\ Decision(t) = "requeue" /\ count.restarts < MaxRestarts
    /\ Submitted("requeue", t) /\ Forget
    /\ count' = [count EXCEPT !.restarts = @ + 1, !.requeues[t] = @ + 1, !.slips[t] = @ + 1]
    /\ UNCHANGED <<task, cap>>

-----------------------------------------------------------------------------
Worker(t) == TickIdle(t) \/ TickEscalate(t) \/ TickRequeue(t) \/ TickRefused(t)

Next ==
    \/ \E t \in Tasks : \/ \E c \in FailureClasses : Fails(t, c)
                        \/ Completes(t) \/ RetryByHand(t) \/ ProvideInput(t)
                        \/ Worker(t) \/ Elapse(t) \/ DieInTick(t)
    \/ Poll \/ RunIntent \/ Restart \/ DieInIntent

Spec == Init /\ [][Next]_vars

\* The poll timer, the drain of the work queue, the clock and the drain of
\* the mutation queue do not stop.
LiveSpec ==
    /\ Spec
    /\ WF_vars(Poll) /\ WF_vars(RunIntent)
    /\ \A t \in Tasks : WF_vars(Worker(t)) /\ WF_vars(Elapse(t))

-----------------------------------------------------------------------------
(* Properties.                                                             *)

Rows == [status : {"running", "failed", "needs_input", "completed"},
         class : {"none", "liveness_stall", "ssh-transport-transient", "other"},
         gen : Nat]
Intents == [kind : {"requeue", "escalate"}, task : Tasks]
Queued == [Tasks -> {"none", "wake", "poll"}]

TypeOK ==
    /\ task \in [Tasks -> Rows]
    /\ cap \in [Tasks -> Nat]
    /\ intents \in Seq(Intents)
    /\ hints \subseteq Tasks
    /\ work \in Queued

\* The worker's requeues of a task never exceed the budget, over all its
\* generations and restarts of the owner, except by the requeues whose record
\* a crash cut off.
RequeuesWithinBudget == \A t \in Tasks : count.requeues[t] <= Budget + count.slips[t]

\* A person is asked at most once per failure of the task and life of the
\* worker.
AskedOncePerFailure == \A t \in Tasks : count.escalations[t] <= count.failures[t] + count.restarts

\* A task parked for a person is taken from there by a person.
ParkedIsLeftToAPerson ==
    [][\A t \in Tasks : task[t].status = "needs_input" /\ task'[t] # task[t] => count'.help > count.help]_vars

\* A stalled task is run again or parked in the end, if it was not parked
\* and resumed in this generation before.
Stalled(t) == task[t].status = "failed" /\ task[t].class = "liveness_stall" /\ Key(t) \notin count.resumed
StalledIsHandled == \A t \in Tasks : Stalled(t) ~> ~Stalled(t)

=============================================================================
