---------------------------- MODULE MutationQueue ----------------------------
(***************************************************************************)
(* The persisted mutation queue: every change to a workflow that comes     *)
(* from a surface is an intent row in SQLite, run one at a time per        *)
(* workflow by the PersistedWorkflowMutationCoordinator of the owner       *)
(* process, which holds a lease on the workflow while it drains.           *)
(*                                                                         *)
(* `row`, `lease` and `deleted` are durable; the rest is the coordinator's *)
(* memory, lost when its process ends.  One owner process lives at a time  *)
(* (the database writer lock); a lease of the process before it is "gone". *)
(* A heartbeat at a third of the lease keeps the lease of a live owner, so *)
(* only a gone lease expires.                                              *)
(***************************************************************************)
EXTENDS Naturals, FiniteSets

CONSTANTS
    Workflows,
    MaxIntents,    \* bound: intents accepted in a behaviour
    MaxRestarts,   \* bound: times the owner process is replaced
    Kinds,         \* the mutations a run submits
    Priorities,
    Forms,         \* how it submits them
    QuickRestart   \* an owner may be replaced before its leases expire

AllKinds == {"work", "ready", "retry", "rebase", "recreate", "delete"}

ASSUME QueueSetsAssumption ==
    /\ Kinds \subseteq AllKinds
    /\ Priorities \subseteq {"high", "normal"}
    /\ Forms \subseteq {"enqueue", "submit", "defer", "recovery"}
    /\ QuickRestart \in BOOLEAN
ASSUME QueueBoundsAssumption ==
    /\ MaxIntents \in Nat \ {0}
    /\ MaxRestarts \in Nat
ASSUME QueueNamesAssumption == "none" \notin Workflows

VARIABLES
    row,       \* the intents table, by id
    lease,     \* the leases table, by workflow
    deleted,   \* workflows that are soft-deleted
    mem,       \* dispatch, race and caller of each intent
    loop,      \* the drain loop of each workflow, with its intent
    pending,   \* pendingDrainWorkflows
    timer,     \* deferredDrainTimer is armed
    kick,      \* a finished drain has yet to process the pending drains
    recovered, \* resumePending has run in this process
    restarts

vars == <<row, lease, deleted, mem, loop, pending, timer, kick, recovered, restarts>>

Ids == 1 .. MaxIntents

\* Reset mutations drop what was queued before them; the hard ones drop
\* what is running too.
Fences == {"retry", "rebase", "recreate", "delete"}
HardFences == {"recreate", "delete"}
Coalescible == {"retry", "ready"}
\* Channels that are acknowledged without an intent once the workflow is gone.
IdempotentWhenMissing == {"ready", "retry", "recreate", "delete"}

\* "erased" is a row removed together with its workflow.
Row == [status : {"none", "queued", "running", "completed", "failed", "erased"},
        kind : AllKinds, wf : Workflows \cup {"none"}, high : BOOLEAN]
NoIntent == [status |-> "none", kind |-> "work", wf |-> "none", high |-> FALSE]
Lease == [holder : {"free", "me", "gone"}, active : 0 .. MaxIntents, expired : BOOLEAN]
Free == [holder |-> "free", active |-> 0, expired |-> FALSE]

\* race is the Promise.race of executeIntent: what settled it first.
Mem == [dispatch : {"none", "running", "resolved", "rejected"},
        race : {"none", "open", "resolved", "rejected", "superseded"},
        caller : {"none", "waiting", "resolved", "rejected", "lost"},
        told : 0 .. 2]   \* onIntentFailed calls, counted to two
Unknown == [dispatch |-> "none", race |-> "none", caller |-> "none", told |-> 0]

Loop == [at : {"idle", "executing", "between"}, intent : 0 .. MaxIntents]
Idle == [at |-> "idle", intent |-> 0]

Ended == {"completed", "failed", "erased"}

Init ==
    /\ row = [i \in Ids |-> NoIntent]
    /\ lease = [w \in Workflows |-> Free]
    /\ deleted = {}
    /\ mem = [i \in Ids |-> Unknown]
    /\ loop = [w \in Workflows |-> Idle]
    /\ pending = {}
    /\ timer = FALSE
    /\ kick = FALSE
    /\ recovered = FALSE
    /\ restarts = 0

-----------------------------------------------------------------------------
(* The tables and the memory after a write on a set of intents.            *)

Of(r, w, status) == {i \in Ids : r[i].wf = w /\ r[i].status = status}

\* Mutant: the oldest first.
BeforeByAge(r, i, j) == i <= j

\* High priority first, then the oldest.
Before(r, i, j) == (r[i].high /\ ~r[j].high) \/ (r[i].high = r[j].high /\ i <= j)
First(r, S) == CHOOSE i \in S : \A j \in S : Before(r, i, j)

\* The queued intents a fence drops.
QueuedBefore(r, f) ==
    IF r[f].kind \in Fences THEN {i \in Of(r, r[f].wf, "queued") : i < f} ELSE {}

\* Mutant: only this process's own dispatch is superseded.
RunningBeforeOwn(r, f) ==
    IF r[f].kind \in HardFences
    THEN {i \in Of(r, r[f].wf, "running") : i < f /\ mem[i].race # "none"} ELSE {}

\* The running intents a hard fence supersedes.
RunningBefore(r, f) ==
    IF r[f].kind \in HardFences THEN {i \in Of(r, r[f].wf, "running") : i < f} ELSE {}

SetStatus(r, S, status) == [i \in Ids |-> IF i \in S THEN [r[i] EXCEPT !.status = status] ELSE r[i]]

Tell(m) == [m EXCEPT !.told = IF @ < 2 THEN @ + 1 ELSE 2]

RejectCaller(m) == [m EXCEPT !.caller = IF @ = "waiting" THEN "rejected" ELSE @]
\* A registered invalidation signal wins the race only if it is still open.
Invalidate(m) == [m EXCEPT !.race = IF @ = "open" THEN "superseded" ELSE @]

Evicted(m, S) == [i \in Ids |-> IF i \in S THEN RejectCaller(Tell(m[i])) ELSE m[i]]
Supersede(m, S) == [i \in Ids |-> IF i \in S THEN Invalidate(Tell(m[i])) ELSE m[i]]
Start(m, S) ==
    [i \in Ids |-> IF i \in S THEN [m[i] EXCEPT !.dispatch = "running", !.race = "open"] ELSE m[i]]

-----------------------------------------------------------------------------
(* Draining.                                                               *)

\* claimNextWorkflowMutationIntent and executeIntent up to its await, for
\* one intent of each of some workflows.
Begin(r, m, S) ==
    LET out == UNION {QueuedBefore(r, f) : f \in S}
    IN  /\ row' = SetStatus(SetStatus(r, S, "running"), out, "failed")
        /\ mem' = Start(Evicted(m, out), S)

\* Mutant: a workflow leaves drainingWorkflows while its intent runs.
DrainingBetween(w) == loop[w].at = "between"

Draining(w) == loop[w].at # "idle"

\* claimWorkflowMutationLease succeeds.
CanClaim(ls, w) == ls[w].holder # "gone" \/ ls[w].expired

\* Taking over an expired lease puts what ran under it back in the queue.
Reclaimed(r, ls, ws) ==
    [i \in Ids |-> IF r[i].wf \in ws /\ r[i].status = "running" /\ ls[r[i].wf].expired
                   THEN [r[i] EXCEPT !.status = "queued"] ELSE r[i]]

\* processPendingDrains: every pending workflow that is not draining starts
\* its drain; one whose lease is held elsewhere is skipped and forgotten.
\* A drain that ends at once leaves the pending drains to be processed again.
ProcessDrains(r, m, ls, ps, again) ==
    LET ready   == {w \in ps : ~Draining(w)}
        claimed == {w \in ready : CanClaim(ls, w)}
        r1      == Reclaimed(r, ls, claimed)
        busy    == {w \in claimed : Of(r1, w, "queued") # {}}
        head    == [w \in busy |-> First(r1, Of(r1, w, "queued"))]
    IN  /\ Begin(r1, m, {head[w] : w \in busy})
        /\ loop' = [w \in Workflows |->
                      IF w \in busy THEN [at |-> "executing", intent |-> head[w]] ELSE loop[w]]
        /\ lease' = [w \in Workflows |->
                      IF w \in busy THEN [holder |-> "me", active |-> head[w], expired |-> FALSE]
                      ELSE IF w \in claimed THEN Free ELSE ls[w]]
        /\ pending' = ps \ ready
        /\ kick' = (again \/ ready \ busy # {})

Schedule(r, m, w) ==
    IF Draining(w)
    THEN row' = r /\ mem' = m /\ UNCHANGED <<loop, lease, pending, kick>>
    ELSE ProcessDrains(r, m, lease, pending \cup {w}, kick)

ScheduleDeferred(r, m, w) ==
    /\ row' = r /\ mem' = m
    /\ IF Draining(w) THEN UNCHANGED <<pending, timer>>
       ELSE pending' = pending \cup {w} /\ timer' = TRUE
    /\ UNCHANGED <<loop, lease, kick>>

TimerFires ==
    /\ timer
    /\ timer' = FALSE
    /\ ProcessDrains(row, mem, lease, pending, kick)
    /\ UNCHANGED <<deleted, recovered, restarts>>

DrainEnded ==
    /\ kick
    /\ ProcessDrains(row, mem, lease, pending, FALSE)
    /\ UNCHANGED <<deleted, timer, recovered, restarts>>

-----------------------------------------------------------------------------
(* Accepting mutations.                                                    *)

Fresh(i) == row[i].status = "none" /\ \A j \in Ids : j < i => row[j].status # "none"

\* The tables once intent i is inserted and its fences have taken effect.
Inserted(i, w, k, h) == [row EXCEPT ![i] = [status |-> "queued", kind |-> k, wf |-> w, high |-> h]]
Overtaken(r, i) == QueuedBefore(r, i) \cup RunningBefore(r, i)
AcceptedRows(r, i) == SetStatus(r, Overtaken(r, i), "failed")
AcceptedMem(r, i, caller) ==
    [Supersede(Evicted(mem, QueuedBefore(r, i)), RunningBefore(r, i)) EXCEPT ![i].caller = caller]

\* The caller keeps a promise of the outcome.
Enqueue(w, k, h) == \E i \in Ids :
    /\ "enqueue" \in Forms
    /\ Fresh(i)
    /\ LET r == Inserted(i, w, k, h)
       IN  Schedule(AcceptedRows(r, i), AcceptedMem(r, i, "waiting"), w)
    /\ UNCHANGED <<deleted, timer, recovered, restarts>>

\* The open intents a submitted retry or start-ready joins.
Joinable(w, k, globally) ==
    IF k \notin Coalescible THEN {}
    ELSE {i \in Ids : /\ row[i].status \in {"queued", "running"}
                      /\ row[i].kind = k
                      /\ (row[i].wf = w \/ (globally /\ k = "ready"))}

Schedules(r, m, w, deferred) ==
    IF deferred THEN ScheduleDeferred(r, m, w) ELSE Schedule(r, m, w) /\ UNCHANGED timer

\* Fire and forget.  Batches defer the drain; a recovery worker joins an
\* open start-ready of any workflow (submitGlobalRecovery).
Form(globally, deferred) ==
    IF globally THEN "recovery" ELSE IF deferred THEN "defer" ELSE "submit"

Submit(w, k, h, globally, deferred) ==
    /\ Form(globally, deferred) \in Forms
    /\ w \notin deleted \/ k \notin IdempotentWhenMissing
    /\ LET open == Joinable(w, k, globally)
       IN  \/ /\ open # {}
              /\ Schedules(row, mem, row[First(row, open)].wf, deferred)
           \/ /\ open = {}
              /\ \E i \in Ids :
                   /\ Fresh(i)
                   /\ LET r == Inserted(i, w, k, h)
                      IN  Schedules(AcceptedRows(r, i), AcceptedMem(r, i, "none"), w, deferred)
    /\ UNCHANGED <<deleted, recovered, restarts>>

-----------------------------------------------------------------------------
(* The dispatch of an intent and what follows it.                          *)

\* Mutant: the rejection is recorded without looking at the row.
DispatchRejectsBlindly(i) ==
    /\ mem[i].dispatch = "running"
    /\ row' = SetStatus(row, {i}, "failed")
    /\ mem' = [mem EXCEPT ![i] =
                 [Tell(@) EXCEPT !.dispatch = "rejected",
                                 !.race = IF @ = "open" THEN "rejected" ELSE @]]
    /\ UNCHANGED <<lease, deleted, loop, pending, timer, kick, recovered, restarts>>

DispatchResolves(i) ==
    /\ mem[i].dispatch = "running"
    /\ mem' = [mem EXCEPT ![i].dispatch = "resolved",
                          ![i].race = IF @ = "open" THEN "resolved" ELSE @]
    /\ UNCHANGED <<row, lease, deleted, loop, pending, timer, kick, recovered, restarts>>

\* recordDispatchRejection runs before the awaiting executeIntent resumes.
DispatchRejects(i) ==
    /\ mem[i].dispatch = "running"
    /\ LET current == row[i].status = "running"
           m == IF current THEN Tell(mem[i]) ELSE mem[i]
       IN  /\ row' = IF current THEN SetStatus(row, {i}, "failed") ELSE row
           /\ mem' = [mem EXCEPT ![i] =
                        [m EXCEPT !.dispatch = "rejected",
                                  !.race = IF @ = "open" THEN "rejected" ELSE @]]
    /\ UNCHANGED <<lease, deleted, loop, pending, timer, kick, recovered, restarts>>

\* A delete intent's dispatch removes the workflow with its intents and lease.
DeletesWorkflow(i) ==
    /\ mem[i].dispatch = "running" /\ row[i].kind = "delete"
    /\ LET w == row[i].wf
       IN  /\ w \in Workflows \ deleted
           /\ deleted' = deleted \cup {w}
           /\ row' = [j \in Ids |-> IF row[j].wf = w /\ row[j].status # "none"
                                    THEN [row[j] EXCEPT !.status = "erased"] ELSE row[j]]
           /\ lease' = [lease EXCEPT ![w] = Free]
    /\ UNCHANGED <<mem, loop, pending, timer, kick, recovered, restarts>>

SettledRow(i, ok) ==
    IF row[i].status = "running"
    THEN SetStatus(row, {i}, IF ok THEN "completed" ELSE "failed")
    ELSE row

\* Mutant: a superseded intent answers its caller with success.
AnswerKindly(i) == IF mem[i].race = "rejected" THEN "rejected" ELSE "resolved"

\* Mutant: an intent whose rejection is already recorded is not answered.
AnswerUnrecorded(i) ==
    IF row[i].status # "running" THEN "waiting"
    ELSE IF mem[i].race = "resolved" THEN "resolved" ELSE "rejected"

Answer(i) == IF mem[i].race = "resolved" THEN "resolved" ELSE "rejected"

\* executeIntent resumes: outcome, caller and lease.
Settle(w) ==
    LET i == loop[w].intent
        ok == mem[i].race = "resolved"
        m == IF row[i].status = "running" /\ ~ok THEN Tell(mem[i]) ELSE mem[i]
    IN  /\ loop[w].at = "executing"
        /\ mem[i].race # "open"
        /\ row' = SettledRow(i, ok)
        /\ mem' = [mem EXCEPT ![i] =
                     [m EXCEPT !.race = "none",
                               !.caller = IF @ = "waiting" THEN Answer(i) ELSE @]]
        /\ lease' = IF lease[w].holder = "me" THEN [lease EXCEPT ![w].active = 0] ELSE lease
        /\ loop' = [loop EXCEPT ![w] = [at |-> "between", intent |-> 0]]
        /\ UNCHANGED <<deleted, pending, timer, kick, recovered, restarts>>

\* Mutant: the drain ends after one intent.
DrainNextOnce(w) ==
    /\ loop[w].at = "between"
    /\ lease' = IF lease[w].holder = "me" THEN [lease EXCEPT ![w] = Free] ELSE lease
    /\ loop' = [loop EXCEPT ![w] = Idle]
    /\ kick' = TRUE
    /\ UNCHANGED <<row, mem, deleted, pending, timer, recovered, restarts>>

\* The drain loop claims the next intent, or releases the lease and ends.
DrainNext(w) ==
    /\ loop[w].at = "between"
    /\ \/ /\ Of(row, w, "queued") # {}
          /\ LET i == First(row, Of(row, w, "queued"))
             IN  /\ Begin(row, mem, {i})
                 /\ loop' = [loop EXCEPT ![w] = [at |-> "executing", intent |-> i]]
                 /\ lease' = IF lease[w].holder = "me" THEN [lease EXCEPT ![w].active = i] ELSE lease
          /\ UNCHANGED kick
       \/ /\ Of(row, w, "queued") = {}
          /\ lease' = IF lease[w].holder = "me" THEN [lease EXCEPT ![w] = Free] ELSE lease
          /\ loop' = [loop EXCEPT ![w] = Idle]
          /\ kick' = TRUE
          /\ UNCHANGED <<row, mem>>
    /\ UNCHANGED <<deleted, pending, timer, recovered, restarts>>

-----------------------------------------------------------------------------
(* Restarts of the owner process.                                          *)

LeaseExpires(w) ==
    /\ lease[w].holder = "gone" /\ ~lease[w].expired
    /\ lease' = [lease EXCEPT ![w].expired = TRUE]
    /\ UNCHANGED <<row, deleted, mem, loop, pending, timer, kick, recovered, restarts>>

Forgotten(m) == [m EXCEPT !.dispatch = "none", !.race = "none",
                          !.caller = IF @ = "waiting" THEN "lost" ELSE @]

\* The owner process ends and another takes over.  An orderly quit puts the
\* running intents back in the queue; the leases stay in either case.
Restart(orderly, quick) ==
    /\ restarts < MaxRestarts
    /\ quick => QuickRestart
    /\ restarts' = restarts + 1
    /\ row' = IF orderly
              THEN SetStatus(row, {i \in Ids : row[i].status = "running"}, "queued") ELSE row
    /\ lease' = [w \in Workflows |->
                   IF lease[w].holder = "free" THEN Free
                   ELSE [lease[w] EXCEPT !.holder = "gone", !.expired = @ \/ ~quick]]
    /\ mem' = [i \in Ids |-> Forgotten(mem[i])]
    /\ loop' = [w \in Workflows |-> Idle]
    /\ pending' = {} /\ timer' = FALSE /\ kick' = FALSE /\ recovered' = FALSE
    /\ UNCHANGED deleted

\* Running intents that no unexpired lease names as its active one.
Orphaned(r, ls) == {i \in Ids : r[i].status = "running" /\ ls[r[i].wf].active # i}

\* recoverWorkflowMutationsOnStartup: once in each process, after it has
\* begun to accept mutations.
Recover ==
    /\ ~recovered
    /\ recovered' = TRUE
    /\ LET ls == [w \in Workflows |-> IF lease[w].expired THEN Free ELSE lease[w]]
           r  == SetStatus(row, Orphaned(row, ls), "queued")
       IN  ProcessDrains(r, mem, ls,
                         pending \cup {w \in Workflows : Of(r, w, "queued") # {}}, kick)
    /\ UNCHANGED <<deleted, timer, restarts>>

Next ==
    \/ \E w \in Workflows, k \in Kinds, p \in Priorities : Enqueue(w, k, p = "high")
    \/ \E w \in Workflows, k \in Kinds, p \in Priorities, globally, deferred \in BOOLEAN :
          Submit(w, k, p = "high", globally, deferred)
    \/ TimerFires
    \/ DrainEnded
    \/ \E i \in Ids : DispatchResolves(i) \/ DispatchRejects(i) \/ DeletesWorkflow(i)
    \/ \E w \in Workflows : Settle(w) \/ DrainNext(w) \/ LeaseExpires(w)
    \/ \E orderly, quick \in BOOLEAN : Restart(orderly, quick)
    \/ Recover

Spec == Init /\ [][Next]_vars

-----------------------------------------------------------------------------
(* Properties.                                                             *)

\* The rows, leases and memory keep their shape.
TypeOK ==
    /\ row \in [Ids -> Row]
    /\ lease \in [Workflows -> Lease]
    /\ deleted \subseteq Workflows
    /\ mem \in [Ids -> Mem]
    /\ loop \in [Workflows -> Loop]
    /\ pending \subseteq Workflows
    /\ timer \in BOOLEAN /\ kick \in BOOLEAN /\ recovered \in BOOLEAN
    /\ restarts \in 0 .. MaxRestarts

Older(i) == {j \in Ids : j < i /\ row[j].wf = row[i].wf}

\* Accepting a recreate or a delete settles everything accepted before it
\* for the workflow, whether it was queued, running here, or left running
\* by an owner that is gone (evictQueuedWorkflowIntentsForNewFence and
\* invalidateSupersededRunningIntent): nothing older ever starts again.
HardFenceClears ==
    \A f \in Ids : row[f].kind \in HardFences /\ row[f].status # "none" =>
        \A j \in Older(f) : row[j].status \in Ended

\* The failure of an intent is announced once: by the fence that drops it,
\* by the recorded rejection or by executeIntent, never by two of them and
\* never for an intent that has not failed.
FailureToldOnce ==
    \A i \in Ids : row[i].status # "erased" =>
        mem[i].told = IF row[i].status = "failed" THEN 1 ELSE 0

\* The dispatches of a workflow run one after another: two overlap only
\* when all but one have lost their intents to a hard fence.
OverlapIsSuperseded ==
    \A i \in Ids : \A j \in Older(i) :
        mem[i].dispatch = "running" /\ mem[j].dispatch = "running" =>
            "failed" \in {row[i].status, row[j].status} \/ row[i].wf \in deleted

\* What a caller hears agrees with the record: an error means that the
\* intent failed and will not run again, success that it is complete or was
\* overtaken by a hard fence after its dispatch had succeeded.
CallerHearsTheRecord ==
    \A i \in {j \in Ids : row[j].wf \notin deleted} :
        /\ mem[i].caller = "rejected" => row[i].status = "failed"
        /\ mem[i].caller = "resolved" =>
              \/ row[i].status = "completed"
              \/ row[i].status = "failed" /\ mem[i].dispatch \in {"resolved", "none"}
                 /\ \E f \in Ids : i \in Older(f) /\ row[f].kind \in HardFences

\* A completed or failed intent keeps its outcome until it is erased.
OutcomesStick ==
    [][\A i \in Ids : row[i].status \in {"completed", "failed"} =>
           row'[i].status \in {row[i].status, "erased"}]_vars

\* The queue keeps the promise of a serial queue: drains, leases, timers and
\* restarts only start, end or put back what the abstract queue allows.  What
\* is asked of a deleted workflow is outside the promise.
StateOf(status) ==
    CASE status = "none" -> "absent"
      [] status = "queued" -> "waiting"
      [] status = "completed" -> "done"
      [] OTHER -> status
Entries == [i \in Ids |-> [state |-> IF row[i].wf \in deleted THEN "erased" ELSE StateOf(row[i].status),
                          kind |-> row[i].kind, wf |-> row[i].wf, high |-> row[i].high]]
Serial == INSTANCE SerialQueue WITH
    Places <- Ids, Resets <- Fences, entry <- Entries
RunsSerially == Serial!Spec

(* Fairness: the event loop runs its continuations and timers, the clock    *)
(* runs, a dispatch that still owns its intent ends.  A superseded dispatch *)
(* may hang for ever, and nobody has to submit or to restart anything.      *)
DispatchEnds(i) == row[i].status # "failed" /\ (DispatchResolves(i) \/ DispatchRejects(i))

FairSpec ==
    /\ Spec
    /\ WF_vars(TimerFires) /\ WF_vars(DrainEnded) /\ WF_vars(Recover)
    /\ \A w \in Workflows :
          WF_vars(Settle(w)) /\ WF_vars(DrainNext(w)) /\ WF_vars(LeaseExpires(w))
    /\ \A i \in Ids : WF_vars(DispatchEnds(i))

\* Every accepted intent ends: no queued mutation is lost, across drains,
\* fences and restarts of the owner.
IntentsEnd ==
    \A i \in Ids : row[i].status \in {"queued", "running"} ~> row[i].status \in Ended

\* Every caller that waits is answered, unless its process ends (checked
\* without deletes: deleteWorkflow erases what waits behind it, callers and all).
CallersAnswered ==
    \A i \in Ids : mem[i].caller = "waiting" ~> mem[i].caller # "waiting"

=============================================================================
