------------------------ MODULE RequeueWorkerProofs ------------------------
(***************************************************************************)
(* The rows keep their shape, and the requeues of a task never exceed its  *)
(* budget by more than the records that crashes cut off: the counter in    *)
(* worker_actions and the cut-off records add up to the requeues.  A       *)
(* person is asked once per failure and life of the worker, and a parked   *)
(* task is left to that person.                                            *)
(***************************************************************************)
EXTENDS RequeueWorker, TLAPS

Counts == [failures : [Tasks -> Nat], restarts : Nat, refusals : Nat, help : Nat,
           requeues : [Tasks -> Nat], slips : [Tasks -> Nat],
           escalations : [Tasks -> Nat], resumed : SUBSET (Tasks \X Nat)]

CountsOK == count \in Counts

\* The requeues are those the counter has and those a crash kept from it.
Tallied == \A t \in Tasks : count.requeues[t] = cap[t] + count.slips[t] /\ cap[t] <= Budget

IInv == TypeOK /\ CountsOK /\ Tallied

-----------------------------------------------------------------------------
\* A task is requeued only while the counter allows it.
LEMMA DecisionAsksTheCounter ==
    ASSUME NEW t \in Tasks, Decision(t) = "requeue"
    PROVE  cap[t] < Budget
  BY DEF Decision, Allowed

LEMMA SpendCounts ==
    ASSUME CountsOK, NEW what \in {"restarts", "refusals", "help"}, NEW bound \in Nat, Spend(what, bound)
    PROVE  /\ count' \in Counts
           /\ count'.requeues = count.requeues /\ count'.slips = count.slips
  <1>1. count[what] \in Nat
    BY DEF CountsOK, Counts
  <1>2. count' = [count EXCEPT ![what] = count[what] + 1]
    BY DEF Spend
  <1>3. count[what] + 1 \in Nat
    BY <1>1
  <1>4. CASE what = "restarts"
    BY <1>2, <1>3, <1>4 DEF CountsOK, Counts
  <1>5. CASE what = "refusals"
    BY <1>2, <1>3, <1>5 DEF CountsOK, Counts
  <1>6. CASE what = "help"
    BY <1>2, <1>3, <1>6 DEF CountsOK, Counts
  <1> QED BY <1>4, <1>5, <1>6

\* Hearing of a task keeps the shape of the worker's memory.
LEMMA HearTypes ==
    ASSUME TypeOK, NEW t \in Tasks, Hear(t)
    PROVE  hints' \subseteq Tasks /\ work' \in Queued
  BY DEF TypeOK, Hear, Enqueued, Queued

LEMMA TickTypes ==
    ASSUME TypeOK, NEW t \in Tasks, Tick(t)
    PROVE  hints' \subseteq Tasks /\ work' \in Queued
  BY DEF TypeOK, Tick, Queued

LEMMA ForgetTypes ==
    ASSUME Forget
    PROVE  hints' \subseteq Tasks /\ work' \in Queued
  BY DEF Forget, Idle, Queued

LEMMA SubmittedTypes ==
    ASSUME TypeOK, NEW t \in Tasks, NEW kind \in {"requeue", "escalate"}, Submitted(kind, t)
    PROVE  intents' \in Seq(Intents)
  <1>1. [kind |-> kind, task |-> t] \in Intents
    BY DEF Intents
  <1> QED BY <1>1 DEF TypeOK, Submitted

LEMMA RetriedTypes ==
    ASSUME TypeOK, NEW t \in Tasks
    PROVE  Retried(t) \in Rows
  BY DEF TypeOK, Retried, Rows

LEMMA EffectTypes ==
    ASSUME TypeOK, NEW i \in Intents
    PROVE  Effect(i) \in [Tasks -> Rows]
  <1>1. i.task \in Tasks /\ task \in [Tasks -> Rows] /\ i.kind \in {"requeue", "escalate"}
    BY DEF TypeOK, Intents
  <1>2. CASE i.kind = "requeue"
    <2>1. Effect(i) = [task EXCEPT ![i.task] = Retried(i.task)]
      BY <1>2 DEF Effect
    <2> QED BY <2>1, <1>1, RetriedTypes
  <1>3. CASE i.kind = "escalate"
    <2>1. \/ Effect(i) = [task EXCEPT ![i.task].status = "needs_input", ![i.task].class = "none"]
          \/ Effect(i) = task
      BY <1>3 DEF Effect
    <2> QED BY <2>1, <1>1 DEF Rows
  <1> QED BY <1>1, <1>2, <1>3

\* What the record of counts holds.
LEMMA CountFields ==
    ASSUME count \in Counts
    PROVE  /\ count.failures \in [Tasks -> Nat] /\ count.restarts \in Nat /\ count.help \in Nat
           /\ count.requeues \in [Tasks -> Nat] /\ count.slips \in [Tasks -> Nat]
           /\ count.escalations \in [Tasks -> Nat] /\ count.resumed \in SUBSET (Tasks \X Nat)
  BY DEF Counts

\* The invariant of the next state, part by part.
LEMMA Assemble ==
    ASSUME task' \in [Tasks -> Rows], cap' \in [Tasks -> Nat], intents' \in Seq(Intents),
           hints' \subseteq Tasks, work' \in Queued,
           count' \in Counts, Tallied'
    PROVE  IInv'
  BY DEF IInv, TypeOK, CountsOK

\* What the invariant says, part by part.
LEMMA Parts ==
    ASSUME IInv
    PROVE  /\ task \in [Tasks -> Rows] /\ cap \in [Tasks -> Nat] /\ intents \in Seq(Intents)
           /\ hints \subseteq Tasks /\ work \in Queued
           /\ count \in Counts /\ Tallied /\ TypeOK /\ CountsOK
  BY DEF IInv, TypeOK, CountsOK

-----------------------------------------------------------------------------
\* Init establishes the invariant.
LEMMA InitIInv == Init => IInv
  <1> SUFFICES ASSUME Init PROVE IInv
    OBVIOUS
  <1>1. TypeOK
    BY DEF Init, TypeOK, Idle, Rows, Queued
  <1>2. CountsOK
    BY DEF Init, CountsOK, Counts
  <1>3. Tallied
    BY BudgetAssumption DEF Init, Tallied
  <1> QED BY <1>1, <1>2, <1>3 DEF IInv

\* The steps that leave counter, requeues and cut-off records alone.
LEMMA TallyUnchanged ==
    ASSUME Tallied, cap' = cap, count'.requeues = count.requeues, count'.slips = count.slips
    PROVE  Tallied'
  BY DEF Tallied

\* What happens to a task.
LEMMA TaskSteps ==
    ASSUME IInv, NEW t \in Tasks,
           \/ \E c \in FailureClasses : Fails(t, c)
           \/ Completes(t) \/ RetryByHand(t) \/ ProvideInput(t)
    PROVE  IInv'
  <1>0. /\ task \in [Tasks -> Rows] /\ count \in Counts /\ Tallied /\ TypeOK /\ CountsOK
        /\ cap \in [Tasks -> Nat] /\ intents \in Seq(Intents)
    BY Parts
  <1>1. hints' \subseteq Tasks /\ work' \in Queued
    <2>1. Hear(t)
      BY DEF Fails, Completes, RetryByHand, ProvideInput
    <2> QED BY <2>1, <1>0, HearTypes
  <1>2. cap' \in [Tasks -> Nat] /\ intents' \in Seq(Intents) /\ cap' = cap
    BY <1>0 DEF Fails, Completes, RetryByHand, ProvideInput
  <1>3. task' \in [Tasks -> Rows]
    <2>1. CASE \E c \in FailureClasses : Fails(t, c)
      <3>1. PICK c \in FailureClasses : Fails(t, c)
        BY <2>1
      <3>2. c \in {"liveness_stall", "ssh-transport-transient", "other"}
        BY ClassesAssumption
      <3>3. task' = [task EXCEPT ![t].status = "failed", ![t].class = c]
        BY <3>1 DEF Fails
      <3> QED BY <1>0, <3>2, <3>3 DEF Rows
    <2>2. CASE Completes(t) \/ ProvideInput(t)
      <3>1. \/ task' = [task EXCEPT ![t].status = "completed"]
            \/ task' = [task EXCEPT ![t].status = "running"]
        BY <2>2 DEF Completes, ProvideInput
      <3> QED BY <1>0, <3>1 DEF Rows
    <2>3. CASE RetryByHand(t)
      BY <1>0, <2>3, RetriedTypes DEF RetryByHand
    <2> QED BY <2>1, <2>2, <2>3
  <1>4. count' \in Counts /\ count'.requeues = count.requeues /\ count'.slips = count.slips
    <2>1. CASE \E c \in FailureClasses : Fails(t, c)
      <3>1. count' = [count EXCEPT !.failures[t] = count.failures[t] + 1]
        BY <2>1 DEF Fails
      <3>2. PICK f : f = [count.failures EXCEPT ![t] = count.failures[t] + 1]
        OBVIOUS
      <3>3. f \in [Tasks -> Nat]
        BY <1>0, <3>2, CountFields
      <3>4. count' = [count EXCEPT !.failures = f]
        BY <3>1, <3>2
      <3> QED BY <1>0, <3>3, <3>4 DEF Counts
    <2>2. CASE Completes(t)
      BY <1>0, <2>2 DEF Completes
    <2>3. CASE RetryByHand(t)
      BY <1>0, <2>3, SpendCounts, RequeueBoundsAssumption DEF RetryByHand
    <2>4. CASE ProvideInput(t)
      <3>1. Key(t) \in Tasks \X Nat
        BY <1>0 DEF Key, Rows
      <3>2. count' = [count EXCEPT !.help = count.help + 1, !.resumed = count.resumed \cup {Key(t)}]
        BY <2>4 DEF ProvideInput
      <3>3. PICK r : r = count.resumed \cup {Key(t)}
        OBVIOUS
      <3>4. r \in SUBSET (Tasks \X Nat)
        BY <1>0, <3>1, <3>3, CountFields
      <3>5. PICK n : n = count.help + 1
        OBVIOUS
      <3>6. n \in Nat
        BY <1>0, <3>5, CountFields
      <3>7. count' = [count EXCEPT !.help = n, !.resumed = r]
        BY <3>2, <3>3, <3>5
      <3> QED BY <1>0, <3>4, <3>6, <3>7 DEF Counts
    <2> QED BY <2>1, <2>2, <2>3, <2>4
  <1>5. Tallied'
    BY <1>0, <1>2, <1>4, TallyUnchanged
  <1> QED BY <1>1, <1>2, <1>3, <1>4, <1>5, Assemble

\* The requeue of a task within the budget.
LEMMA RequeueStep ==
    ASSUME IInv, NEW t \in Tasks, TickRequeue(t)
    PROVE  count' \in Counts /\ cap' \in [Tasks -> Nat] /\ Tallied'
  <1>0. count \in Counts /\ cap \in [Tasks -> Nat] /\ Tallied
    BY Parts
  <1>1. cap[t] < Budget
    BY DecisionAsksTheCounter DEF TickRequeue
  <1>2. cap' = [cap EXCEPT ![t] = cap[t] + 1]
    BY DEF TickRequeue
  <1>3. count' = [count EXCEPT !.requeues[t] = count.requeues[t] + 1]
    BY DEF TickRequeue
  <1>4. /\ count' \in Counts /\ count'.slips = count.slips
        /\ count'.requeues = [count.requeues EXCEPT ![t] = count.requeues[t] + 1]
    BY <1>0, <1>3 DEF Counts
  <1>5. count.requeues \in [Tasks -> Nat] /\ count.slips \in [Tasks -> Nat]
    BY <1>0 DEF Counts
  <1>6. Tallied'
    <2> SUFFICES ASSUME NEW u \in Tasks
                 PROVE  count'.requeues[u] = cap'[u] + count'.slips[u] /\ cap'[u] <= Budget
      BY DEF Tallied
    <2>1. count.requeues[u] = cap[u] + count.slips[u] /\ cap[u] <= Budget
      BY <1>0 DEF Tallied
    <2>2. cap[u] \in Nat /\ count.slips[u] \in Nat /\ count.requeues[u] \in Nat
      BY <1>0, <1>5
    <2>3. CASE u = t
      BY <1>0, <1>1, <1>2, <1>4, <1>5, <2>1, <2>2, <2>3, BudgetAssumption
    <2>4. CASE u # t
      BY <1>0, <1>2, <1>4, <1>5, <2>1, <2>4
    <2> QED BY <2>3, <2>4
  <1> QED BY <1>0, <1>2, <1>4, <1>6

\* The steps of the worker.
LEMMA WorkerSteps ==
    ASSUME IInv, NEW t \in Tasks, Worker(t)
    PROVE  IInv'
  <1>0. /\ task \in [Tasks -> Rows] /\ count \in Counts /\ Tallied /\ TypeOK /\ CountsOK
        /\ cap \in [Tasks -> Nat] /\ intents \in Seq(Intents)
    BY Parts
  <1>1. hints' \subseteq Tasks /\ work' \in Queued
    <2>1. Tick(t)
      BY DEF Worker, TickIdle, TickEscalate, TickRequeue, TickRefused
    <2> QED BY <2>1, <1>0, TickTypes
  <1>2. task' \in [Tasks -> Rows]
    BY <1>0 DEF Worker, TickIdle, TickEscalate, TickRequeue, TickRefused
  <1>3. intents' \in Seq(Intents)
    <2>1. intents' = intents \/ Submitted("escalate", t) \/ Submitted("requeue", t)
      BY DEF Worker, TickIdle, TickEscalate, TickRequeue, TickRefused
    <2> QED BY <1>0, <2>1, SubmittedTypes
  <1>5. CASE TickRequeue(t)
    BY <1>1, <1>2, <1>3, <1>5, RequeueStep, Assemble
  <1>6. CASE ~TickRequeue(t)
    <2>1. cap' = cap
      BY <1>6 DEF Worker, TickIdle, TickEscalate, TickRefused
    <2>2. count' \in Counts /\ count'.requeues = count.requeues /\ count'.slips = count.slips
      <3>1. CASE TickIdle(t)
        BY <1>0, <3>1 DEF TickIdle
      <3>2. CASE TickEscalate(t)
        <4>1. count' = [count EXCEPT !.escalations[t] = count.escalations[t] + 1]
          BY <3>2 DEF TickEscalate
        <4>2. PICK f : f = [count.escalations EXCEPT ![t] = count.escalations[t] + 1]
          OBVIOUS
        <4>3. f \in [Tasks -> Nat]
          BY <1>0, <4>2, CountFields
        <4>4. count' = [count EXCEPT !.escalations = f]
          BY <4>1, <4>2
        <4> QED BY <1>0, <4>3, <4>4 DEF Counts
      <3>3. CASE TickRefused(t)
        BY <1>0, <3>3, SpendCounts, RequeueBoundsAssumption DEF TickRefused
      <3> QED BY <1>6, <3>1, <3>2, <3>3 DEF Worker
    <2>3. Tallied'
      BY <1>0, <2>1, <2>2, TallyUnchanged
    <2> QED BY <1>0, <1>1, <1>2, <1>3, <2>1, <2>2, <2>3, Assemble
  <1> QED BY <1>5, <1>6

\* A crash between the submission and its record.
LEMMA DieInTickStep ==
    ASSUME IInv, NEW t \in Tasks, DieInTick(t)
    PROVE  IInv'
  <1>0. /\ task \in [Tasks -> Rows] /\ count \in Counts /\ Tallied /\ TypeOK
        /\ cap \in [Tasks -> Nat]
    BY Parts
  <1>1. hints' \subseteq Tasks /\ work' \in Queued
    BY ForgetTypes DEF DieInTick
  <1>2. count' = [count EXCEPT !.restarts = count.restarts + 1,
                               !.requeues[t] = count.requeues[t] + 1,
                               !.slips[t] = count.slips[t] + 1]
    BY DEF DieInTick
  <1>3. /\ count' \in Counts
        /\ count'.requeues = [count.requeues EXCEPT ![t] = count.requeues[t] + 1]
        /\ count'.slips = [count.slips EXCEPT ![t] = count.slips[t] + 1]
    <2>1. PICK q : q = [count.requeues EXCEPT ![t] = count.requeues[t] + 1]
      OBVIOUS
    <2>2. PICK p : p = [count.slips EXCEPT ![t] = count.slips[t] + 1]
      OBVIOUS
    <2>3. PICK n : n = count.restarts + 1
      OBVIOUS
    <2>4. q \in [Tasks -> Nat] /\ p \in [Tasks -> Nat] /\ n \in Nat
      BY <1>0, <2>1, <2>2, <2>3, CountFields
    <2>5. count' = [count EXCEPT !.restarts = n, !.requeues = q, !.slips = p]
      BY <1>2, <2>1, <2>2, <2>3
    <2>6. count' \in Counts /\ count'.requeues = q /\ count'.slips = p
      BY <1>0, <2>4, <2>5 DEF Counts
    <2> QED BY <2>1, <2>2, <2>6
  <1>4. intents' \in Seq(Intents)
    BY <1>0, SubmittedTypes DEF DieInTick
  <1>5. cap' = cap /\ task' = task
    BY <1>0 DEF DieInTick
  <1>6. count.requeues \in [Tasks -> Nat] /\ count.slips \in [Tasks -> Nat]
    BY <1>0 DEF Counts
  <1>7. Tallied'
    <2> SUFFICES ASSUME NEW u \in Tasks
                 PROVE  count'.requeues[u] = cap'[u] + count'.slips[u] /\ cap'[u] <= Budget
      BY DEF Tallied
    <2>1. count.requeues[u] = cap[u] + count.slips[u] /\ cap[u] <= Budget
      BY <1>0 DEF Tallied
    <2>2. cap[u] \in Nat /\ count.slips[u] \in Nat /\ count.requeues[u] \in Nat
      BY <1>0, <1>6
    <2>3. CASE u = t
      BY <1>3, <1>5, <1>6, <2>1, <2>2, <2>3
    <2>4. CASE u # t
      BY <1>3, <1>5, <1>6, <2>1, <2>4
    <2> QED BY <2>3, <2>4
  <1> QED BY <1>0, <1>1, <1>3, <1>4, <1>5, <1>7, Assemble

\* The mutation queue and restarts.
LEMMA QueueSteps ==
    ASSUME IInv, RunIntent \/ Restart \/ DieInIntent
    PROVE  IInv'
  <1>0. /\ task \in [Tasks -> Rows] /\ count \in Counts /\ Tallied /\ TypeOK /\ CountsOK
        /\ cap \in [Tasks -> Nat] /\ intents \in Seq(Intents)
        /\ hints \subseteq Tasks /\ work \in Queued
    BY Parts
  <1>1. cap' = cap
    BY DEF RunIntent, Restart, DieInIntent
  <1>2. intents # <<>> => Head(intents) \in Intents /\ Tail(intents) \in Seq(Intents)
    BY <1>0
  <1>3. intents' \in Seq(Intents)
    BY <1>0, <1>2 DEF RunIntent, Restart, DieInIntent
  <1>4. task' \in [Tasks -> Rows]
    BY <1>0, <1>2, EffectTypes DEF RunIntent, Restart, DieInIntent
  <1>5. hints' \subseteq Tasks /\ work' \in Queued
    <2>1. CASE Forget
      BY <2>1, ForgetTypes
    <2>2. CASE RunIntent
      <3>1. Head(intents).task \in Tasks
        BY <1>2, <2>2 DEF RunIntent, Intents
      <3>2. CASE Hear(Head(intents).task)
        BY <1>0, <3>1, <3>2, HearTypes
      <3>3. CASE UNCHANGED <<hints, work>>
        BY <1>0, <3>3
      <3> QED BY <2>2, <3>2, <3>3 DEF RunIntent
    <2> QED BY <2>1, <2>2 DEF Restart, DieInIntent
  <1>6. count' \in Counts /\ count'.requeues = count.requeues /\ count'.slips = count.slips
    <2>1. CASE count' = count
      BY <1>0, <2>1
    <2>2. CASE Spend("restarts", MaxRestarts)
      BY <1>0, <2>2, SpendCounts, RequeueBoundsAssumption
    <2> QED BY <2>1, <2>2 DEF RunIntent, Restart, DieInIntent
  <1>7. Tallied'
    BY <1>0, <1>1, <1>6, TallyUnchanged
  <1> QED BY <1>0, <1>1, <1>3, <1>4, <1>5, <1>6, <1>7, Assemble

\* The clock and the poll timer.
LEMMA TimerSteps ==
    ASSUME IInv, Poll \/ \E t \in Tasks : Elapse(t)
    PROVE  IInv'
  <1>0. /\ task \in [Tasks -> Rows] /\ count \in Counts /\ Tallied
        /\ cap \in [Tasks -> Nat] /\ intents \in Seq(Intents)
        /\ hints \subseteq Tasks /\ work \in Queued
    BY Parts
  <1>1. task' = task /\ cap' = cap /\ intents' = intents /\ hints' = hints /\ count' = count
    BY DEF Poll, Elapse
  <1>3. work' \in Queued
    BY <1>0 DEF Poll, Elapse, Enqueued, Queued
  <1>4. Tallied'
    BY <1>0, <1>1, TallyUnchanged
  <1> QED BY <1>0, <1>1, <1>3, <1>4, Assemble

\* Every step keeps the invariant.
LEMMA NextIInv == IInv /\ [Next]_vars => IInv'
  <1> SUFFICES ASSUME IInv, [Next]_vars PROVE IInv'
    OBVIOUS
  <1>1. CASE Next
    BY <1>1, TaskSteps, WorkerSteps, DieInTickStep, QueueSteps, TimerSteps DEF Next
  <1>2. CASE UNCHANGED vars
    BY <1>2 DEF vars, IInv, TypeOK, CountsOK, Tallied
  <1> QED BY <1>1, <1>2

\* In every behaviour the counter and the cut-off records add up to the
\* requeues, and the counter stays within the budget.
THEOREM RequeueInvariant == Spec => []IInv
  BY InitIInv, NextIInv, PTL DEF Spec

\* The rows, intents and the worker's memory keep their shape.
THEOREM RequeueTypeCorrect == Spec => []TypeOK
  <1>1. IInv => TypeOK
    BY DEF IInv
  <1> QED BY <1>1, RequeueInvariant, PTL

\* No task is requeued more often than its budget and the crashes that cut
\* off a record allow, whatever generations, restarts and people do.
THEOREM RequeueBudget == Spec => []RequeuesWithinBudget
  <1>1. IInv => RequeuesWithinBudget
    <2> SUFFICES ASSUME IInv, NEW t \in Tasks
                 PROVE  count.requeues[t] <= Budget + count.slips[t]
      BY DEF RequeuesWithinBudget
    <2>1. count.requeues[t] = cap[t] + count.slips[t] /\ cap[t] <= Budget
      BY DEF IInv, Tallied
    <2>2. cap[t] \in Nat /\ count.slips[t] \in Nat
      BY DEF IInv, TypeOK, CountsOK, Counts
    <2> QED BY <2>1, <2>2, BudgetAssumption
  <1> QED BY <1>1, RequeueInvariant, PTL

-----------------------------------------------------------------------------
(* A person is asked once per failure, and a parked task is left alone.     *)

Entries == [attempts : Nat, spaced : BOOLEAN, escalated : BOOLEAN]

\* The memory of the worker counts no more requeues than the counter.
LedgerOK ==
    \A k \in DOMAIN ledger :
        k \in Tasks \X Nat /\ ledger[k] \in Entries /\ ledger[k].attempts <= cap[k[1]]

\* The worker remembers that it escalated this lineage.
Remembered(k) == k \in DOMAIN ledger /\ ledger[k].escalated

\* A failure for which this life of the worker asked nobody yet.
Unasked ==
    \A t \in Tasks : task[t].status = "failed" /\ ~Remembered(Key(t)) =>
        count.escalations[t] < count.failures[t] + count.restarts

Asked == LedgerOK /\ Unasked /\ AskedOncePerFailure

LEMMA EntryTypes ==
    ASSUME IInv, LedgerOK, NEW t \in Tasks
    PROVE  /\ Entry(t) \in Entries /\ Entry(t).attempts <= cap[t]
           /\ Key(t) \in Tasks \X Nat /\ Entry(t).escalated = Remembered(Key(t))
  <1>0. task \in [Tasks -> Rows] /\ cap \in [Tasks -> Nat]
    BY Parts
  <1>1. Key(t) \in Tasks \X Nat /\ Key(t)[1] = t
    BY <1>0 DEF Key, Rows
  <1>2. CASE Key(t) \in DOMAIN ledger
    <2>1. Entry(t) = ledger[Key(t)]
      BY <1>2 DEF Entry
    <2>2. Entry(t) \in Entries /\ Entry(t).attempts <= cap[t]
      BY <1>1, <1>2, <2>1 DEF LedgerOK
    <2>3. Entry(t).escalated \in BOOLEAN
      BY <2>2 DEF Entries
    <2> QED BY <1>1, <1>2, <2>1, <2>2, <2>3 DEF Remembered
  <1>3. CASE Key(t) \notin DOMAIN ledger
    <2>1. Entry(t) = [attempts |-> 0, spaced |-> TRUE, escalated |-> FALSE]
      BY <1>3 DEF Entry, NoEntry
    <2>2. Entry(t) \in Entries /\ Entry(t).attempts = 0 /\ Entry(t).escalated = FALSE
      BY <2>1 DEF Entries
    <2>3. Remembered(Key(t)) = FALSE
      BY <1>3 DEF Remembered
    <2>4. 0 <= cap[t]
      BY <1>0
    <2> QED BY <1>1, <2>2, <2>3, <2>4
  <1> QED BY <1>2, <1>3

\* A new entry of a task's lineage that forgets no escalation.
LEMMA EnterKeeps ==
    ASSUME IInv, LedgerOK, NEW t \in Tasks, NEW e \in Entries, Enter(t, e), task' = task,
           \A u \in Tasks : cap'[u] \in Nat /\ cap[u] <= cap'[u],
           e.attempts <= cap'[t], Entry(t).escalated => e.escalated
    PROVE  /\ LedgerOK' /\ \A k : Remembered(k) => Remembered(k)'
           /\ e.escalated => Remembered(Key(t))'
  <1>0. cap \in [Tasks -> Nat] /\ task \in [Tasks -> Rows]
    BY Parts
  <1>1. Key(t) \in Tasks \X Nat /\ Key(t)[1] = t
    BY <1>0 DEF Key, Rows
  <1>2. /\ DOMAIN ledger' = DOMAIN ledger \cup {Key(t)}
        /\ ledger'[Key(t)] = e
        /\ \A k \in DOMAIN ledger : k # Key(t) => ledger'[k] = ledger[k]
    BY DEF Enter
  <1>3. LedgerOK'
    <2> SUFFICES ASSUME NEW k \in DOMAIN ledger'
                 PROVE  k \in Tasks \X Nat /\ ledger'[k] \in Entries /\ ledger'[k].attempts <= cap'[k[1]]
      BY DEF LedgerOK
    <2>1. CASE k = Key(t)
      BY <1>1, <1>2, <2>1
    <2>2. CASE k # Key(t)
      <3>1. k \in DOMAIN ledger /\ ledger'[k] = ledger[k]
        BY <1>2, <2>2
      <3>2. k \in Tasks \X Nat /\ ledger[k] \in Entries /\ ledger[k].attempts <= cap[k[1]]
        BY <3>1 DEF LedgerOK
      <3>3. k[1] \in Tasks /\ ledger[k].attempts \in Nat
        BY <3>2 DEF Entries
      <3>4. cap[k[1]] \in Nat /\ cap'[k[1]] \in Nat /\ cap[k[1]] <= cap'[k[1]]
        BY <1>0, <3>3
      <3> QED BY <3>1, <3>2, <3>3, <3>4
    <2> QED BY <2>1, <2>2
  <1>4. ASSUME NEW k, Remembered(k) PROVE Remembered(k)'
    <2>1. CASE k = Key(t)
      <3>1. Entry(t).escalated
        BY <2>1, <1>4 DEF Remembered, Entry
      <3> QED BY <1>2, <2>1, <3>1 DEF Remembered
    <2>2. CASE k # Key(t)
      BY <1>2, <1>4, <2>2 DEF Remembered
    <2> QED BY <2>1, <2>2
  <1>5. ASSUME e.escalated PROVE Key(t) \in DOMAIN ledger' /\ ledger'[Key(t)].escalated
    BY <1>2, <1>5
  <1>6. Key(t)' = Key(t)
    BY DEF Key
  <1>7. e.escalated => Remembered(Key(t))'
    BY <1>5, <1>6 DEF Remembered
  <1> QED BY <1>3, <1>4, <1>7

\* A step that asks nobody, fails nothing and forgets nothing.
LEMMA AskedAlike ==
    ASSUME Asked, LedgerOK', \A k : Remembered(k) => Remembered(k)',
           \A u \in Tasks : task'[u].status = "failed" => task'[u] = task[u],
           count'.escalations = count.escalations, count'.failures = count.failures,
           count'.restarts = count.restarts
    PROVE  Asked'
  <1>1. AskedOncePerFailure'
    BY DEF Asked, AskedOncePerFailure
  <1>2. Unasked'
    <2> SUFFICES ASSUME NEW u \in Tasks, task'[u].status = "failed", ~Remembered(Key(u))'
                 PROVE  count'.escalations[u] < count'.failures[u] + count'.restarts
      BY DEF Unasked
    <2>1. task'[u] = task[u]
      OBVIOUS
    <2>2. Key(u)' = Key(u)
      BY <2>1 DEF Key
    <2>3. ~Remembered(Key(u))
      BY <2>2
    <2> QED BY <2>1, <2>3 DEF Asked, Unasked
  <1> QED BY <1>1, <1>2 DEF Asked

\* A restart makes room for one more escalation of each task.
LEMMA AskedAfterRestart ==
    ASSUME IInv, Asked, Forget,
           count'.escalations = count.escalations, count'.failures = count.failures,
           count'.restarts = count.restarts + 1
    PROVE  Asked'
  <1>1. LedgerOK'
    BY DEF Forget, LedgerOK
  <1>2. count \in Counts
    BY Parts
  <1>3. ASSUME NEW u \in Tasks
        PROVE  count'.escalations[u] < count'.failures[u] + count'.restarts
    <2>1. count.escalations[u] <= count.failures[u] + count.restarts
      BY DEF Asked, AskedOncePerFailure
    <2>2. count.escalations[u] \in Nat /\ count.failures[u] \in Nat /\ count.restarts \in Nat
      BY <1>2, CountFields
    <2> QED BY <2>1, <2>2
  <1>4. Unasked'
    BY <1>3 DEF Unasked
  <1>5. AskedOncePerFailure'
    <2> SUFFICES ASSUME NEW u \in Tasks
                 PROVE  count'.escalations[u] <= count'.failures[u] + count'.restarts
      BY DEF AskedOncePerFailure
    <2>1. count.escalations[u] \in Nat /\ count.failures[u] \in Nat /\ count.restarts \in Nat
      BY <1>2, CountFields
    <2> QED BY <1>3, <2>1
  <1> QED BY <1>1, <1>4, <1>5 DEF Asked

\* A failure makes room for one more escalation of its task.
LEMMA AskedAfterFailure ==
    ASSUME IInv, Asked, NEW t \in Tasks, NEW c \in FailureClasses, Fails(t, c)
    PROVE  Asked'
  <1>0. count \in Counts /\ task \in [Tasks -> Rows]
    BY Parts
  <1>1. ledger' = ledger /\ cap' = cap
    BY DEF Fails
  <1>2. LedgerOK'
    BY <1>1 DEF Asked, LedgerOK
  <1>3. count' = [count EXCEPT !.failures[t] = count.failures[t] + 1]
    BY DEF Fails
  <1>4. /\ count'.escalations = count.escalations /\ count'.restarts = count.restarts
        /\ count'.failures = [count.failures EXCEPT ![t] = count.failures[t] + 1]
    BY <1>0, <1>3 DEF Counts
  <1>5. ASSUME NEW u \in Tasks
        PROVE  /\ count'.escalations[u] <= count'.failures[u] + count'.restarts
               /\ u = t => count'.escalations[u] < count'.failures[u] + count'.restarts
               /\ u # t => count'.failures[u] = count.failures[u]
    <2>1. count.escalations[u] <= count.failures[u] + count.restarts
      BY DEF Asked, AskedOncePerFailure
    <2>2. count.escalations[u] \in Nat /\ count.failures[u] \in Nat /\ count.restarts \in Nat
          /\ count.failures \in [Tasks -> Nat]
      BY <1>0, CountFields
    <2>3. count'.failures[u] = IF u = t THEN count.failures[u] + 1 ELSE count.failures[u]
      BY <1>4, <2>2
    <2> QED BY <1>4, <2>1, <2>2, <2>3
  <1>6. Unasked'
    <2> SUFFICES ASSUME NEW u \in Tasks, task'[u].status = "failed", ~Remembered(Key(u))'
                 PROVE  count'.escalations[u] < count'.failures[u] + count'.restarts
      BY DEF Unasked
    <2>1. CASE u = t
      BY <1>5, <2>1
    <2>2. CASE u # t
      <3>1. task'[u] = task[u]
        BY <1>0, <2>2 DEF Fails
      <3>2. ~Remembered(Key(u))
        BY <1>1, <3>1 DEF Remembered, Key
      <3>3. count.escalations[u] < count.failures[u] + count.restarts
        BY <3>1, <3>2 DEF Asked, Unasked
      <3> QED BY <1>4, <1>5, <2>2, <3>3
    <2> QED BY <2>1, <2>2
  <1>7. AskedOncePerFailure'
    BY <1>5 DEF AskedOncePerFailure
  <1> QED BY <1>2, <1>6, <1>7 DEF Asked

\* An escalation uses up the room and is remembered.
LEMMA AskedAfterEscalation ==
    ASSUME IInv, Asked, NEW t \in Tasks, TickEscalate(t)
    PROVE  Asked'
  <1>0. count \in Counts /\ task \in [Tasks -> Rows] /\ cap \in [Tasks -> Nat] /\ LedgerOK
    BY Parts DEF Asked
  <1>1. /\ Entry(t) \in Entries /\ Entry(t).attempts <= cap[t]
        /\ Entry(t).escalated = Remembered(Key(t))
    BY <1>0, EntryTypes
  <1>2. PICK e : e = [Entry(t) EXCEPT !.escalated = TRUE]
    OBVIOUS
  <1>3. e \in Entries /\ e.escalated /\ e.attempts = Entry(t).attempts
    BY <1>1, <1>2 DEF Entries
  <1>4. Enter(t, e) /\ task' = task /\ cap' = cap /\ ~Entry(t).escalated /\ Acts(t)
    BY <1>2 DEF TickEscalate
  <1>5. \A u \in Tasks : cap'[u] \in Nat /\ cap[u] <= cap'[u]
    BY <1>0, <1>4
  <1>6. LedgerOK' /\ (\A k : Remembered(k) => Remembered(k)') /\ Remembered(Key(t))'
    BY <1>0, <1>1, <1>3, <1>4, <1>5, EnterKeeps
  <1>7. count' = [count EXCEPT !.escalations[t] = count.escalations[t] + 1]
    BY DEF TickEscalate
  <1>8. /\ count'.failures = count.failures /\ count'.restarts = count.restarts
        /\ count'.escalations = [count.escalations EXCEPT ![t] = count.escalations[t] + 1]
    BY <1>0, <1>7 DEF Counts
  <1>9. count.escalations[t] < count.failures[t] + count.restarts
    <2>1. task[t].status = "failed" /\ ~Remembered(Key(t))
      BY <1>1, <1>4 DEF Acts, Eligible
    <2> QED BY <2>1 DEF Asked, Unasked
  <1>10. ASSUME NEW u \in Tasks
         PROVE  /\ count'.escalations[u] <= count'.failures[u] + count'.restarts
                /\ u # t => count'.escalations[u] = count.escalations[u]
    <2>1. count.escalations[u] <= count.failures[u] + count.restarts
      BY DEF Asked, AskedOncePerFailure
    <2>2. count.escalations[u] \in Nat /\ count.failures[u] \in Nat /\ count.restarts \in Nat
          /\ count.escalations \in [Tasks -> Nat]
      BY <1>0, CountFields
    <2>3. count'.escalations[u] = IF u = t THEN count.escalations[u] + 1 ELSE count.escalations[u]
      BY <1>8, <2>2
    <2> QED BY <1>8, <1>9, <2>1, <2>2, <2>3
  <1>11. Unasked'
    <2> SUFFICES ASSUME NEW u \in Tasks, task'[u].status = "failed", ~Remembered(Key(u))'
                 PROVE  count'.escalations[u] < count'.failures[u] + count'.restarts
      BY DEF Unasked
    <2>1. u # t
      BY <1>6
    <2>2. Key(u)' = Key(u)
      BY <1>4 DEF Key
    <2>3. ~Remembered(Key(u)) /\ task[u].status = "failed"
      BY <1>4, <1>6, <2>2
    <2> QED BY <1>8, <1>10, <2>1, <2>3 DEF Asked, Unasked
  <1>12. AskedOncePerFailure'
    BY <1>10 DEF AskedOncePerFailure
  <1> QED BY <1>6, <1>11, <1>12 DEF Asked

LEMMA SpendKeeps ==
    ASSUME count \in Counts, NEW what \in {"restarts", "refusals", "help"}, NEW bound, Spend(what, bound)
    PROVE  /\ count'.escalations = count.escalations /\ count'.failures = count.failures
           /\ count'.restarts = IF what = "restarts" THEN count.restarts + 1 ELSE count.restarts
           /\ count'.help = IF what = "help" THEN count.help + 1 ELSE count.help
  BY DEF Spend, Counts

\* An intent takes effect on its own task: it runs it or parks it.
LEMMA EffectOfIntent ==
    ASSUME IInv, NEW i \in Intents, task' = Effect(i), NEW u \in Tasks, task'[u] # task[u]
    PROVE  /\ u = i.task
           /\ \/ i = [kind |-> "requeue", task |-> u] /\ task'[u].status = "running"
              \/ /\ i = [kind |-> "escalate", task |-> u] /\ task'[u].status = "needs_input"
                 /\ task[u].status = "failed"
  <1>0. task \in [Tasks -> Rows] /\ i.task \in Tasks /\ i.kind \in {"requeue", "escalate"}
        /\ i = [kind |-> i.kind, task |-> i.task]
    BY Parts DEF Intents
  <1>1. CASE i.kind = "requeue"
    <2>1. task' = [task EXCEPT ![i.task] = Retried(i.task)]
      BY <1>1 DEF Effect
    <2>2. Retried(i.task).status = "running"
      BY DEF Retried
    <2> QED BY <1>0, <1>1, <2>1, <2>2
  <1>2. CASE i.kind = "escalate"
    <2>1. \/ /\ task' = [task EXCEPT ![i.task].status = "needs_input", ![i.task].class = "none"]
             /\ task[i.task].status = "failed"
          \/ task' = task
      BY <1>2 DEF Effect
    <2> QED BY <1>0, <1>2, <2>1 DEF Rows
  <1> QED BY <1>0, <1>1, <1>2

\* Every step keeps what the worker remembers, or restarts it.
LEMMA AskedStep ==
    ASSUME IInv, Asked, [Next]_vars
    PROVE  Asked'
  <1>0. count \in Counts /\ task \in [Tasks -> Rows] /\ cap \in [Tasks -> Nat] /\ LedgerOK
        /\ intents \in Seq(Intents)
    BY Parts DEF Asked
  <1>1. ASSUME NEW t \in Tasks, Completes(t) \/ RetryByHand(t) \/ ProvideInput(t)
        PROVE  Asked'
    <2>1. ledger' = ledger /\ cap' = cap
      BY <1>1 DEF Completes, RetryByHand, ProvideInput
    <2>2. LedgerOK' /\ \A k : Remembered(k) => Remembered(k)'
      BY <1>0, <2>1 DEF LedgerOK, Remembered
    <2>3. \A u \in Tasks : task'[u].status = "failed" => task'[u] = task[u]
      BY <1>0, <1>1 DEF Completes, RetryByHand, ProvideInput, Retried, Rows
    <2>4. /\ count'.escalations = count.escalations /\ count'.failures = count.failures
          /\ count'.restarts = count.restarts
      <3>1. CASE Completes(t)
        BY <3>1 DEF Completes
      <3>2. CASE RetryByHand(t)
        BY <1>0, <3>2, SpendKeeps DEF RetryByHand
      <3>3. CASE ProvideInput(t)
        BY <1>0, <3>3 DEF ProvideInput, Counts
      <3> QED BY <1>1, <3>1, <3>2, <3>3
    <2> QED BY <2>2, <2>3, <2>4, AskedAlike
  <1>2. ASSUME NEW t \in Tasks, TickIdle(t) \/ Elapse(t)
        PROVE  Asked'
    <2>1. task' = task /\ cap' = cap /\ count' = count
      BY <1>2 DEF TickIdle, Elapse
    <2>2. LedgerOK' /\ \A k : Remembered(k) => Remembered(k)'
      <3>1. CASE ledger' = ledger
        BY <1>0, <2>1, <3>1 DEF LedgerOK, Remembered
      <3>2. CASE Elapse(t)
        <4>1. DOMAIN ledger' = DOMAIN ledger
          BY <3>2 DEF Elapse
        <4>2. ASSUME NEW k \in DOMAIN ledger
              PROVE  /\ ledger'[k] \in Entries /\ ledger'[k].attempts = ledger[k].attempts
                     /\ ledger'[k].escalated = ledger[k].escalated
          <5>1. ledger[k] \in Entries
            BY <1>0 DEF LedgerOK
          <5>2. ledger'[k] = [ledger[k] EXCEPT !.spaced = TRUE] \/ ledger'[k] = ledger[k]
            BY <3>2 DEF Elapse
          <5> QED BY <5>1, <5>2 DEF Entries
        <4> QED BY <1>0, <2>1, <4>1, <4>2 DEF LedgerOK, Remembered
      <3> QED BY <1>2, <3>1, <3>2 DEF TickIdle
    <2> QED BY <2>1, <2>2, AskedAlike
  <1>3. ASSUME NEW t \in Tasks, TickRequeue(t)
        PROVE  Asked'
    <2>1. Entry(t) \in Entries /\ Entry(t).attempts <= cap[t]
      BY <1>0, EntryTypes
    <2>2. PICK e : e = [Entry(t) EXCEPT !.attempts = Entry(t).attempts + 1, !.spaced = FALSE]
      OBVIOUS
    <2>3. e \in Entries /\ e.escalated = Entry(t).escalated /\ e.attempts = Entry(t).attempts + 1
      <3>1. PICK n : n = Entry(t).attempts + 1
        OBVIOUS
      <3>2. n \in Nat
        BY <2>1, <3>1 DEF Entries
      <3>3. e = [Entry(t) EXCEPT !.attempts = n, !.spaced = FALSE]
        BY <2>2, <3>1
      <3>4. e \in Entries /\ e.escalated = Entry(t).escalated /\ e.attempts = n
        BY <2>1, <3>2, <3>3 DEF Entries
      <3> QED BY <3>1, <3>4
    <2>4. Enter(t, e) /\ task' = task /\ cap' = [cap EXCEPT ![t] = cap[t] + 1]
      BY <1>3, <2>2 DEF TickRequeue
    <2>5. \A u \in Tasks : cap'[u] \in Nat /\ cap[u] <= cap'[u]
      BY <1>0, <2>4
    <2>6. e.attempts <= cap'[t]
      BY <1>0, <2>1, <2>3, <2>4 DEF Entries
    <2>7. LedgerOK' /\ \A k : Remembered(k) => Remembered(k)'
      BY <1>0, <2>3, <2>4, <2>5, <2>6, EnterKeeps
    <2>8. /\ count'.escalations = count.escalations /\ count'.failures = count.failures
          /\ count'.restarts = count.restarts
      BY <1>0, <1>3 DEF TickRequeue, Counts
    <2> QED BY <2>4, <2>7, <2>8, AskedAlike
  <1>4. ASSUME NEW t \in Tasks, TickRefused(t)
        PROVE  Asked'
    <2>1. task' = task /\ cap' = cap
      BY <1>4 DEF TickRefused
    <2>2. LedgerOK' /\ \A k : Remembered(k) => Remembered(k)'
      <3>1. CASE ledger' = ledger
        BY <1>0, <2>1, <3>1 DEF LedgerOK, Remembered
      <3>2. CASE Enter(t, [Entry(t) EXCEPT !.spaced = TRUE])
        <4>1. Entry(t) \in Entries /\ Entry(t).attempts <= cap[t]
          BY <1>0, EntryTypes
        <4>2. PICK e : e = [Entry(t) EXCEPT !.spaced = TRUE]
          OBVIOUS
        <4>3. e \in Entries /\ e.escalated = Entry(t).escalated /\ e.attempts = Entry(t).attempts
          BY <4>1, <4>2 DEF Entries
        <4>4. \A u \in Tasks : cap'[u] \in Nat /\ cap[u] <= cap'[u]
          BY <1>0, <2>1
        <4> QED BY <1>0, <2>1, <3>2, <4>1, <4>2, <4>3, <4>4, EnterKeeps
      <3> QED BY <1>4, <3>1, <3>2 DEF TickRefused
    <2>3. /\ count'.escalations = count.escalations /\ count'.failures = count.failures
          /\ count'.restarts = count.restarts
      BY <1>0, <1>4, SpendKeeps DEF TickRefused
    <2> QED BY <2>1, <2>2, <2>3, AskedAlike
  <1>5. CASE RunIntent
    <2>1. cap' = cap /\ ledger' = ledger /\ count' = count /\ task' = Effect(Head(intents))
      BY <1>5 DEF RunIntent
    <2>2. LedgerOK' /\ \A k : Remembered(k) => Remembered(k)'
      BY <1>0, <2>1 DEF LedgerOK, Remembered
    <2>3. Head(intents) \in Intents
      BY <1>0, <1>5 DEF RunIntent
    <2>4. \A u \in Tasks : task'[u].status = "failed" => task'[u] = task[u]
      BY <2>1, <2>3, EffectOfIntent
    <2> QED BY <2>1, <2>2, <2>4, AskedAlike
  <1>6. CASE Poll \/ UNCHANGED vars
    <2>1. cap' = cap /\ ledger' = ledger /\ count' = count /\ task' = task
      BY <1>6 DEF Poll, vars
    <2>2. LedgerOK' /\ \A k : Remembered(k) => Remembered(k)'
      BY <1>0, <2>1 DEF LedgerOK, Remembered
    <2> QED BY <2>1, <2>2, AskedAlike
  <1>7. CASE Restart \/ DieInIntent
    BY <1>0, <1>7, SpendKeeps, AskedAfterRestart DEF Restart, DieInIntent
  <1>8. ASSUME NEW t \in Tasks, DieInTick(t)
        PROVE  Asked'
    <2>1. /\ count'.escalations = count.escalations /\ count'.failures = count.failures
          /\ count'.restarts = count.restarts + 1
      BY <1>0, <1>8 DEF DieInTick, Counts
    <2> QED BY <1>8, <2>1, AskedAfterRestart DEF DieInTick
  <1> QED
    BY <1>1, <1>2, <1>3, <1>4, <1>5, <1>6, <1>7, <1>8, AskedAfterFailure, AskedAfterEscalation
    DEF Next, Worker

\* In every behaviour a person is asked at most once per failure of the
\* task and life of the worker.
THEOREM RequeueAsksOnce == Spec => []AskedOncePerFailure
  <1>1. Init => Asked
    <2> SUFFICES ASSUME Init PROVE Asked
      OBVIOUS
    <2>1. LedgerOK /\ Unasked
      BY DEF Init, LedgerOK, Unasked
    <2>2. AskedOncePerFailure
      BY DEF Init, AskedOncePerFailure
    <2> QED BY <2>1, <2>2 DEF Asked
  <1>2. IInv /\ Asked /\ [Next]_vars => Asked'
    BY AskedStep
  <1>3. Asked => AskedOncePerFailure
    BY DEF Asked
  <1> QED BY <1>1, <1>2, <1>3, RequeueInvariant, PTL DEF Spec

-----------------------------------------------------------------------------
(* Parked tasks.                                                           *)

Asks(t) == [kind |-> "escalate", task |-> t]
Requeues(t) == [kind |-> "requeue", task |-> t]
Open(i) == \E n \in 1..Len(intents) : intents[n] = i

\* Who is parked, or about to be, has no requeues left.
Exhausted(t) == Open(Asks(t)) \/ task[t].status = "needs_input" => cap[t] >= Budget

\* No requeue is open behind an escalation, or of a parked task.
RequeuesFirst(t) ==
    \A m, n \in 1..Len(intents) : intents[m] = Asks(t) /\ intents[n] = Requeues(t) => n < m
LeftAlone(t) == task[t].status = "needs_input" => ~Open(Requeues(t))

Parked == \A t \in Tasks : Exhausted(t) /\ RequeuesFirst(t) /\ LeftAlone(t)

\* A step that submits nothing and parks nobody.
LEMMA ParkedAlike ==
    ASSUME Parked, intents' = intents, cap' = cap,
           \A u \in Tasks : task'[u].status = "needs_input" => task[u].status = "needs_input"
    PROVE  Parked'
  BY DEF Parked, Exhausted, RequeuesFirst, LeftAlone, Open

\* What a submission leaves in the queue.
LEMMA SubmittedLast ==
    ASSUME IInv, NEW kind \in {"requeue", "escalate"}, NEW t \in Tasks, Submitted(kind, t)
    PROVE  /\ Len(intents) \in Nat /\ Len(intents') = Len(intents) + 1
           /\ \A n \in 1..Len(intents) : intents'[n] = intents[n]
           /\ intents'[Len(intents) + 1] = [kind |-> kind, task |-> t]
  <1>1. intents \in Seq(Intents) /\ [kind |-> kind, task |-> t] \in Intents
    BY Parts DEF Intents
  <1>2. intents' = Append(intents, [kind |-> kind, task |-> t])
    BY DEF Submitted
  <1> QED BY <1>1, <1>2

\* An escalation is submitted when the requeues are used up.
LEMMA ParkedAfterEscalation ==
    ASSUME IInv, LedgerOK, Parked, NEW t \in Tasks, TickEscalate(t)
    PROVE  Parked'
  <1>0. cap \in [Tasks -> Nat] /\ task' = task /\ cap' = cap /\ Submitted("escalate", t)
    BY Parts DEF TickEscalate
  <1>1. cap[t] >= Budget
    <2>1. ~(cap[t] < Budget) \/ Entry(t).attempts >= Budget
      BY DEF TickEscalate, Decision, Allowed
    <2>2. Entry(t).attempts \in Nat /\ Entry(t).attempts <= cap[t]
      BY EntryTypes DEF Entries
    <2> QED BY <1>0, <2>1, <2>2, BudgetAssumption
  <1>2. /\ Len(intents) \in Nat /\ Len(intents') = Len(intents) + 1
        /\ \A n \in 1..Len(intents) : intents'[n] = intents[n]
        /\ intents'[Len(intents) + 1] = Asks(t)
    BY <1>0, SubmittedLast DEF Asks
  <1> SUFFICES ASSUME NEW u \in Tasks
               PROVE  Exhausted(u)' /\ RequeuesFirst(u)' /\ LeftAlone(u)'
    BY DEF Parked
  <1>3. Exhausted(u) /\ RequeuesFirst(u) /\ LeftAlone(u)
    BY DEF Parked
  <1>4. ASSUME NEW n \in 1..Len(intents')
        PROVE  n \in 1..Len(intents) \/ (n = Len(intents) + 1 /\ intents'[n] = Asks(t))
    BY <1>2, <1>4
  <1>5. Asks(t) # Requeues(u) /\ (Asks(t) = Asks(u) => t = u)
    BY DEF Asks, Requeues
  <1>6. Exhausted(u)'
    BY <1>0, <1>1, <1>2, <1>3, <1>4, <1>5 DEF Exhausted, Open, Asks
  <1>7. LeftAlone(u)'
    BY <1>0, <1>2, <1>3, <1>4, <1>5 DEF LeftAlone, Open, Requeues
  <1>8. RequeuesFirst(u)'
    <2> SUFFICES ASSUME NEW m \in 1..Len(intents'), NEW n \in 1..Len(intents'),
                        intents'[m] = Asks(u), intents'[n] = Requeues(u)
                 PROVE  n < m
      BY DEF RequeuesFirst, Asks, Requeues
    <2>1. n \in 1..Len(intents)
      BY <1>4, <1>5
    <2>2. CASE m \in 1..Len(intents)
      BY <1>2, <1>3, <2>1, <2>2 DEF RequeuesFirst
    <2>3. CASE m = Len(intents) + 1
      BY <1>2, <2>1, <2>3
    <2> QED BY <1>4, <2>2, <2>3
  <1> QED BY <1>6, <1>7, <1>8

\* A requeue is submitted while some are left: nobody asks for this task.
LEMMA ParkedAfterRequeue ==
    ASSUME IInv, Parked, NEW t \in Tasks, Decision(t) = "requeue", Submitted("requeue", t),
           task' = task, \A u \in Tasks : cap'[u] \in Nat /\ cap[u] <= cap'[u]
    PROVE  Parked'
  <1>0. cap \in [Tasks -> Nat]
    BY Parts
  <1>1. ~Open(Asks(t)) /\ task[t].status # "needs_input"
    <2>1. cap[t] < Budget
      BY DecisionAsksTheCounter
    <2>2. Exhausted(t)
      BY DEF Parked
    <2> QED BY <1>0, <2>1, <2>2, BudgetAssumption DEF Exhausted
  <1>2. /\ Len(intents) \in Nat /\ Len(intents') = Len(intents) + 1
        /\ \A n \in 1..Len(intents) : intents'[n] = intents[n]
        /\ intents'[Len(intents) + 1] = Requeues(t)
    BY SubmittedLast DEF Requeues
  <1> SUFFICES ASSUME NEW u \in Tasks
               PROVE  Exhausted(u)' /\ RequeuesFirst(u)' /\ LeftAlone(u)'
    BY DEF Parked
  <1>3. Exhausted(u) /\ RequeuesFirst(u) /\ LeftAlone(u)
    BY DEF Parked
  <1>4. ASSUME NEW n \in 1..Len(intents')
        PROVE  n \in 1..Len(intents) \/ (n = Len(intents) + 1 /\ intents'[n] = Requeues(t))
    BY <1>2, <1>4
  <1>5. Asks(u) # Requeues(t) /\ (Requeues(t) = Requeues(u) => t = u)
    BY DEF Asks, Requeues
  <1>6. Exhausted(u)'
    <2> SUFFICES ASSUME Open(Asks(u))' \/ task'[u].status = "needs_input"
                 PROVE  cap'[u] >= Budget
      BY DEF Exhausted
    <2>1. Open(Asks(u))' => Open(Asks(u))
      BY <1>2, <1>4, <1>5 DEF Open, Asks
    <2>2. cap[u] >= Budget
      BY <1>3, <2>1 DEF Exhausted
    <2> QED BY <1>0, <2>2, BudgetAssumption
  <1>7. LeftAlone(u)'
    BY <1>1, <1>2, <1>3, <1>4, <1>5 DEF LeftAlone, Open, Requeues
  <1>8. RequeuesFirst(u)'
    <2> SUFFICES ASSUME NEW m \in 1..Len(intents'), NEW n \in 1..Len(intents'),
                        intents'[m] = Asks(u), intents'[n] = Requeues(u)
                 PROVE  n < m
      BY DEF RequeuesFirst, Asks, Requeues
    <2>1. m \in 1..Len(intents) /\ intents[m] = Asks(u)
      BY <1>2, <1>4, <1>5
    <2>2. CASE n \in 1..Len(intents)
      BY <1>2, <1>3, <2>1, <2>2 DEF RequeuesFirst
    <2>3. CASE n = Len(intents) + 1
      <3>1. u = t
        BY <1>2, <1>5, <2>3
      <3> QED BY <1>1, <2>1, <3>1 DEF Open
    <2> QED BY <1>4, <2>2, <2>3
  <1> QED BY <1>6, <1>7, <1>8

\* The intent at the head parks its task when no requeue of it is open.
LEMMA ParkedAfterIntent ==
    ASSUME IInv, Parked, intents # <<>>, task' = Effect(Head(intents)), cap' = cap,
           intents' = intents \/ intents' = Tail(intents)
    PROVE  Parked'
  <1>0. intents \in Seq(Intents)
    BY Parts
  <1>1. /\ Head(intents) \in Intents /\ Head(intents) = intents[1]
        /\ Len(intents) \in Nat /\ 1 \in 1..Len(intents)
    BY <1>0
  <1>2. PICK d \in {0, 1} : /\ Len(intents') = Len(intents) - d
                           /\ \A n \in 1..Len(intents') : intents'[n] = intents[n + d]
    <2>1. CASE intents' = intents
      BY <1>1, <2>1
    <2>2. CASE intents' = Tail(intents)
      BY <1>0, <2>2
    <2> QED BY <2>1, <2>2
  <1>3. \A n \in 1..Len(intents') : n + d \in 1..Len(intents) /\ intents'[n] = intents[n + d]
    BY <1>1, <1>2
  <1> SUFFICES ASSUME NEW u \in Tasks
               PROVE  Exhausted(u)' /\ RequeuesFirst(u)' /\ LeftAlone(u)'
    BY DEF Parked
  <1>4. Exhausted(u) /\ RequeuesFirst(u) /\ LeftAlone(u)
    BY DEF Parked
  <1>5. /\ Open(Asks(u))' => Open(Asks(u))
        /\ Open(Requeues(u))' => Open(Requeues(u))
    BY <1>3 DEF Open, Asks, Requeues
  <1>6. CASE task'[u].status = "needs_input" /\ task'[u] # task[u]
    <2>1. Head(intents) = Asks(u)
      BY <1>1, <1>6, EffectOfIntent DEF Asks
    <2>2. Open(Asks(u))
      BY <1>1, <2>1 DEF Open
    <2>3. ~Open(Requeues(u))
      <3> SUFFICES ASSUME NEW n \in 1..Len(intents), intents[n] = Requeues(u) PROVE FALSE
        BY DEF Open
      <3>1. n < 1
        BY <1>1, <1>4, <2>1 DEF RequeuesFirst
      <3> QED BY <1>1, <3>1
    <2> QED BY <1>3, <1>4, <1>5, <2>2, <2>3 DEF Exhausted, LeftAlone, Open, RequeuesFirst, Asks, Requeues
  <1>7. CASE task'[u].status = "needs_input" => task'[u] = task[u]
    <2>1. Exhausted(u)' /\ LeftAlone(u)'
      BY <1>4, <1>5, <1>7 DEF Exhausted, LeftAlone
    <2>2. RequeuesFirst(u)'
      <3> SUFFICES ASSUME NEW m \in 1..Len(intents'), NEW n \in 1..Len(intents'),
                          intents'[m] = Asks(u), intents'[n] = Requeues(u)
                   PROVE  n < m
        BY DEF RequeuesFirst, Asks, Requeues
      <3>1. n + d < m + d
        BY <1>3, <1>4 DEF RequeuesFirst
      <3> QED BY <3>1
    <2> QED BY <2>1, <2>2
  <1> QED BY <1>6, <1>7

\* Every step leaves parked tasks alone and asks for exhausted ones only.
LEMMA ParkedStep ==
    ASSUME IInv, LedgerOK, Parked, [Next]_vars
    PROVE  Parked'
  <1>0. count \in Counts /\ task \in [Tasks -> Rows] /\ cap \in [Tasks -> Nat]
    BY Parts
  <1>1. ASSUME NEW t \in Tasks,
               \/ \E c \in FailureClasses : Fails(t, c)
               \/ Completes(t) \/ RetryByHand(t) \/ ProvideInput(t)
        PROVE  Parked'
    <2>1. intents' = intents /\ cap' = cap
      BY <1>1 DEF Fails, Completes, RetryByHand, ProvideInput
    <2>2. \A u \in Tasks : task'[u].status = "needs_input" => task[u].status = "needs_input"
      BY <1>0, <1>1 DEF Fails, Completes, RetryByHand, ProvideInput, Retried, Rows
    <2> QED BY <2>1, <2>2, ParkedAlike
  <1>2. ASSUME NEW t \in Tasks, TickIdle(t) \/ TickRefused(t) \/ Elapse(t)
        PROVE  Parked'
    BY <1>2, ParkedAlike DEF TickIdle, TickRefused, Elapse
  <1>3. CASE Poll \/ Restart \/ UNCHANGED vars
    BY <1>3, ParkedAlike DEF Poll, Restart, vars
  <1>4. ASSUME NEW t \in Tasks, TickRequeue(t)
        PROVE  Parked'
    <2>1. \A u \in Tasks : cap'[u] \in Nat /\ cap[u] <= cap'[u]
      BY <1>0, <1>4 DEF TickRequeue
    <2> QED BY <1>4, <2>1, ParkedAfterRequeue DEF TickRequeue
  <1>5. ASSUME NEW t \in Tasks, DieInTick(t)
        PROVE  Parked'
    <2>1. \A u \in Tasks : cap'[u] \in Nat /\ cap[u] <= cap'[u]
      BY <1>0, <1>5 DEF DieInTick
    <2> QED BY <1>5, <2>1, ParkedAfterRequeue DEF DieInTick
  <1>6. CASE RunIntent \/ DieInIntent
    BY <1>6, ParkedAfterIntent DEF RunIntent, DieInIntent
  <1> QED
    BY <1>1, <1>2, <1>3, <1>4, <1>5, <1>6, ParkedAfterEscalation DEF Next, Worker

\* A step that takes a parked task from there is a person's.
LEMMA ParkedTakenByAPerson ==
    ASSUME IInv, Parked, [Next]_vars, NEW t \in Tasks,
           task[t].status = "needs_input", task'[t] # task[t]
    PROVE  count'.help > count.help
  <1>0. /\ count \in Counts /\ task \in [Tasks -> Rows] /\ intents \in Seq(Intents)
        /\ count.help \in Nat
    BY Parts, CountFields
  <1>1. ASSUME NEW u \in Tasks, RetryByHand(u) PROVE count'.help > count.help
    BY <1>0, <1>1, SpendKeeps DEF RetryByHand
  <1>2. ASSUME NEW u \in Tasks, ProvideInput(u) PROVE count'.help > count.help
    <2>1. count'.help = count.help + 1
      BY <1>0, <1>2 DEF ProvideInput, Counts
    <2> QED BY <1>0, <2>1
  <1>3. ASSUME NEW u \in Tasks, Completes(u) \/ \E c \in FailureClasses : Fails(u, c) PROVE FALSE
    <2>1. task[u].status = "running"
      BY <1>3 DEF Completes, Fails
    <2>2. u # t
      BY <2>1
    <2> QED BY <1>0, <1>3, <2>2 DEF Completes, Fails
  <1>4. ~(RunIntent \/ DieInIntent)
    <2> SUFFICES ASSUME intents # <<>>, task' = Effect(Head(intents)) PROVE FALSE
      BY DEF RunIntent, DieInIntent
    <2>1. Head(intents) \in Intents /\ Head(intents) = intents[1] /\ 1 \in 1..Len(intents)
      BY <1>0
    <2>2. Head(intents) = Requeues(t)
      BY <2>1, EffectOfIntent DEF Requeues
    <2>3. Open(Requeues(t))
      BY <2>1, <2>2 DEF Open
    <2> QED BY <2>3 DEF Parked, LeftAlone
  <1>5. ASSUME NEW u \in Tasks, Worker(u) \/ Elapse(u) \/ DieInTick(u) PROVE FALSE
    BY <1>5 DEF Worker, TickIdle, TickEscalate, TickRequeue, TickRefused, Elapse, DieInTick
  <1>6. ~(Poll \/ Restart \/ UNCHANGED vars)
    BY DEF Poll, Restart, vars
  <1> QED BY <1>1, <1>2, <1>3, <1>4, <1>5, <1>6 DEF Next

\* In every behaviour a task that is parked for a person is taken from
\* there by a person: no requeue of the worker is still on its way to it.
THEOREM RequeueParkedLeftAlone == Spec => ParkedIsLeftToAPerson
  <1>1. Init => Asked /\ Parked
    <2> SUFFICES ASSUME Init PROVE Asked /\ Parked
      OBVIOUS
    <2>1. LedgerOK /\ Unasked /\ AskedOncePerFailure
      BY DEF Init, LedgerOK, Unasked, AskedOncePerFailure
    <2>2. Parked
      BY DEF Init, Parked, Exhausted, RequeuesFirst, LeftAlone, Open
    <2> QED BY <2>1, <2>2 DEF Asked
  <1>2. IInv /\ Asked /\ Parked /\ [Next]_vars => (Asked /\ Parked)'
    BY AskedStep, ParkedStep DEF Asked
  <1>3. IInv /\ Parked /\ [Next]_vars =>
          [\A t \in Tasks : task[t].status = "needs_input" /\ task'[t] # task[t] =>
              count'.help > count.help]_vars
    BY ParkedTakenByAPerson
  <1> QED BY <1>1, <1>2, <1>3, RequeueInvariant, PTL DEF Spec, ParkedIsLeftToAPerson

=============================================================================
