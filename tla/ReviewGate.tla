----------------------------- MODULE ReviewGate -----------------------------
(***************************************************************************)
(* A merge gate that waits for reviews on a forge: the publishers that     *)
(* open pull requests for it, the polls that read their state, the fixes,  *)
(* approvals, retries and cancels that move the gate meanwhile.            *)
(*                                                                         *)
(* A poll reads the gate in the orchestrator's cache (`mem`) and writes it *)
(* to the database (`row`) past the cache; a command refreshes the cache   *)
(* first and writes both.  Every handler is one action between two awaits: *)
(* a poll awaits the forge for each artifact in turn, a publisher while it *)
(* opens each pull request, a teardown while it closes each.               *)
(***************************************************************************)
EXTENDS Naturals, FiniteSets

CONSTANTS
    Polls,       \* polls that may be under way at once
    SlotCount,   \* the pull requests of a publication
    MaxPr,       \* bound: pull requests that are ever opened
    MaxGen,      \* bound: generations of the gate
    MaxMoves     \* bound: what people, workers and faults ask of the gate

ASSUME ReviewBoundsAssumption ==
    /\ IsFiniteSet(Polls)
    /\ {SlotCount, MaxPr, MaxGen} \subseteq Nat \ {0}
    /\ MaxMoves \in Nat

VARIABLES
    row,        \* the gate in the database
    mem,        \* the gate in the orchestrator's cache
    forge,      \* the pull requests
    poll,       \* the polls under way
    pub,        \* the publishers, one per generation
    agent,      \* the generation a fix agent works on, 0 for none
    teardown,   \* a retry: the reviews it has still to close
    moves

vars == <<row, mem, forge, poll, pub, agent, teardown, moves>>

Slots == 1 .. SlotCount
Prs == 1 .. MaxPr
Gens == 1 .. MaxGen
Nobody == [pr |-> 0, st |-> "none"]
NoArts == [s \in Slots |-> Nobody]
\* A poll under way: the gate that it read, and the artifact it asks about.
NoPoll == [at |-> 0, heard |-> "none", gen |-> 0, active |-> 0, prs |-> [s \in Slots |-> 0]]
NoTeardown == [on |-> FALSE, left |-> {}]
NoPublisher == [stage |-> "none", at |-> 0, kept |-> NoArts, arts |-> NoArts]

\* Publications are replaced or discarded as a whole, so that an artifact's
\* generation is `active` unless it is discarded.  "changes_requested" decides
\* nothing and counts as open.
Init ==
    /\ row = [st |-> "pending", gen |-> 1, active |-> 0, entry |-> "none",
              parked |-> FALSE, arts |-> NoArts]
    /\ mem = row
    /\ forge = [p \in Prs |-> [slot |-> 0, st |-> "none"]]
    /\ poll = [p \in Polls |-> NoPoll]
    /\ pub = [g \in Gens |-> NoPublisher]
    /\ agent = 0
    /\ teardown = NoTeardown
    /\ moves = 0

-----------------------------------------------------------------------------
(* The gate.                                                               *)

\* isCurrentReviewGateArtifact.
Current(gate, s) == gate.arts[s].st \notin {"none", "discarded"}

CurrentSlots(gate) == {s \in Slots : Current(gate, s)}

\* reviewGateIsApproved.
GateApproved(gate) ==
    /\ CurrentSlots(gate) # {}
    /\ \A s \in CurrentSlots(gate) : gate.arts[s].st = "approved"

Asks(gate) == gate.st \in {"review_ready", "awaiting_approval"}

\* A command of the orchestrator refreshes its cache and writes both.
Write(gate) == row' = gate /\ mem' = gate

\* orchestrator.approve: the gate is completed when it asks for an approval
\* and no required artifact is unapproved.  The approve hook returns at once
\* for a gate with an external review.
Completed(gate) == [gate EXCEPT !.st = "completed", !.entry = "none"]

Move == moves < MaxMoves /\ moves' = moves + 1

-----------------------------------------------------------------------------
(* Polls.                                                                  *)

\* The artifact of the gate that was read which comes next; 0 at the end.
NextSlots(prs, s) ==
    LET later == {t \in Slots : t > s /\ prs[t] # 0}
    IN  IF later = {} THEN {0} ELSE {t \in later : \A u \in later : t <= u}

\* The worker's tick, of a cached gate that asks, or a person's check of any.
PollStarts(p) ==
    LET prs == [s \in Slots |-> IF Current(mem, s) THEN mem.arts[s].pr ELSE 0]
    IN  /\ poll[p].at = 0
        /\ CurrentSlots(mem) # {}
        /\ \E s \in NextSlots(prs, 0) :
               poll' = [poll EXCEPT ![p] = [at |-> s, heard |-> "none", gen |-> mem.gen,
                                            active |-> mem.active, prs |-> prs]]
        /\ UNCHANGED <<row, mem, forge, pub, agent, teardown, moves>>

\* The pull request that a poll asks about.
Asked(p) == poll[p].prs[poll[p].at]

\* The forge answers; the answer is on its way while others go on.
ForgeAnswers(p) ==
    /\ poll[p].at # 0 /\ poll[p].heard = "none"
    /\ poll' = [poll EXCEPT ![p].heard = forge[Asked(p)].st]
    /\ UNCHANGED <<row, mem, forge, pub, agent, teardown, moves>>

\* Mutant: an answer is heard by any gate that asks.
StillAsks(seen, gate, pr) == Asks(gate)

\* Mutant: the publication has to be one of the current generation.
StillMatchesGeneration(seen, gate, pr) ==
    /\ Asks(gate)
    /\ gate.gen = seen.gen /\ gate.active = gate.gen
    /\ \E s \in CurrentSlots(gate) : gate.arts[s].pr = pr

\* reviewPollStillMatches.
StillMatches(seen, gate, pr) ==
    /\ Asks(gate)
    /\ gate.gen = seen.gen /\ gate.active = seen.active
    /\ \E s \in CurrentSlots(gate) : gate.arts[s].pr = pr

\* updateReviewGateArtifact: what the forge says of a merged one is approval.
Updated(gate, pr, answer) ==
    [s \in Slots |->
        IF Current(gate, s) /\ gate.arts[s].pr = pr
        THEN [gate.arts[s] EXCEPT !.st = IF answer = "merged" THEN "approved" ELSE answer]
        ELSE gate.arts[s]]

\* The answer is heard.  The write replaces the artifacts of the row by those
\* of the cache, updated; a closed review closes the gate; and when every
\* artifact of what was written is approved, the orchestrator approves, which
\* refreshes the cache and looks at the row again.
PollHears(p) ==
    LET answer == poll[p].heard
        written == [row EXCEPT !.arts = Updated(mem, Asked(p), answer), !.active = mem.active,
                               !.st = IF answer = "closed" THEN "closed" ELSE @]
    IN  /\ poll[p].at # 0 /\ answer # "none"
        /\ IF ~StillMatches(poll[p], mem, Asked(p)) THEN UNCHANGED <<row, mem>>
           ELSE IF GateApproved(written)
                THEN Write(IF Asks(written) THEN Completed(written) ELSE written)
                ELSE row' = written /\ UNCHANGED mem
        /\ \E s \in NextSlots(poll[p].prs, poll[p].at) :
               poll' = [poll EXCEPT ![p] = IF s = 0 THEN NoPoll
                                           ELSE [@ EXCEPT !.at = s, !.heard = "none"]]
        /\ UNCHANGED <<forge, pub, agent, teardown, moves>>

\* The forge does not answer: the check of this gate ends.
PollFails(p) ==
    /\ Move
    /\ poll[p].at # 0 /\ poll[p].heard = "none"
    /\ poll' = [poll EXCEPT ![p] = NoPoll]
    /\ UNCHANGED <<row, mem, forge, pub, agent, teardown>>

\* Whatever refreshes the cache: the drain of the dispatcher's poll, commands
\* of other workflows.
Refresh ==
    /\ mem # row
    /\ mem' = row
    /\ UNCHANGED <<row, forge, poll, pub, agent, teardown, moves>>

-----------------------------------------------------------------------------
(* Publishing.                                                             *)

Publisher(stage, kept) == [stage |-> stage, at |-> 1, kept |-> kept, arts |-> NoArts]

\* The gate is launched.
Launch ==
    /\ row.st = "pending"
    /\ Write([row EXCEPT !.st = "running"])
    /\ pub' = [pub EXCEPT ![row.gen] = Publisher("launch", NoArts)]
    /\ UNCHANGED <<forge, poll, agent, teardown, moves>>

Works(g) == pub[g].stage \in {"launch", "killed", "fix"}
Published(g) == pub[g].at \notin Slots

\* createReview for the next slot: the branch's open pull request is reused,
\* else one is opened.  A killed executor does not stop here.
OpenReview(g) ==
    LET s == pub[g].at
        open == {p \in Prs : forge[p] = [slot |-> s, st |-> "open"]}
        fresh == {p \in Prs : forge[p].st = "none"}
        Takes(p) == pub' = [pub EXCEPT ![g].at = @ + 1, ![g].kept = NoArts,
                                       ![g].arts = [@ EXCEPT ![s] = [pr |-> p, st |-> "open"]]]
    IN  /\ Works(g) /\ ~Published(g)
        /\ \/ \E p \in open : Takes(p) /\ UNCHANGED forge
           \/ \E p \in fresh :
                /\ open = {} /\ \A q \in fresh : p <= q
                /\ Takes(p) /\ forge' = [forge EXCEPT ![p] = [slot |-> s, st |-> "open"]]
        /\ UNCHANGED <<row, mem, poll, agent, teardown, moves>>

\* After a fix, a stack whose descriptions are still valid is kept as it is.
ReuseReviews(g) ==
    /\ pub[g].stage = "fix" /\ pub[g].at = 1
    /\ \E s \in Slots : pub[g].kept[s].st \notin {"none", "discarded"}
    /\ pub' = [pub EXCEPT ![g].at = SlotCount + 1, ![g].kept = NoArts,
                               ![g].arts = pub[g].kept]
    /\ UNCHANGED <<row, mem, forge, poll, agent, teardown, moves>>

Ended(g) == pub' = [pub EXCEPT ![g] = NoPublisher]

\* The executor of a launch has published: a write past the cache while the
\* lineage is the gate's (updateMergeGateMetadataIfCurrent), then the
\* completion, which waits for its turn.
MetadataWritten(g) ==
    /\ pub[g].stage = "launch" /\ Published(g)
    /\ row' = IF mem.gen = g THEN [row EXCEPT !.arts = pub[g].arts, !.active = g] ELSE row
    /\ pub' = [pub EXCEPT ![g].stage = "written"]
    /\ UNCHANGED <<mem, forge, poll, agent, teardown, moves>>

\* setTaskReviewReady, while the publication's lineage is the gate's and the
\* gate still runs.
UnderReview(gate, g, arts) ==
    IF gate.gen = g /\ gate.st = "running"
    THEN [gate EXCEPT !.st = "review_ready", !.arts = arts, !.active = g] ELSE gate

\* The completion of a launch, and the end of a publication after a fix.
ReviewReady(g) ==
    /\ pub[g].stage = "written" \/ (pub[g].stage = "fix" /\ Published(g))
    /\ Write(UnderReview(row, g, pub[g].arts))
    /\ Ended(g)
    /\ UNCHANGED <<forge, poll, agent, teardown, moves>>

\* There is nothing to review: a launch completes the gate and drops its
\* artifacts, a publication after a fix keeps them.
NothingToReview(g) ==
    /\ pub[g].stage \in {"launch", "fix"} /\ pub[g].at = 1
    /\ Write(IF row.gen # g \/ row.st # "running" THEN row
             ELSE IF pub[g].stage = "fix" THEN [row EXCEPT !.st = "review_ready"]
             ELSE [Completed(row) EXCEPT !.arts = NoArts, !.active = 0])
    /\ Ended(g)
    /\ UNCHANGED <<forge, poll, agent, teardown, moves>>

\* A publication throws.
PublishFails(g) ==
    /\ Works(g)
    /\ Write(IF row.gen = g /\ row.st = "running" THEN [row EXCEPT !.st = "failed"] ELSE row)
    /\ Ended(g)
    /\ UNCHANGED <<forge, poll, agent, teardown, moves>>

\* A killed executor drops what it has opened.
KilledEnds(g) ==
    /\ pub[g].stage = "killed" /\ Published(g)
    /\ Ended(g)
    /\ UNCHANGED <<row, mem, forge, poll, agent, teardown, moves>>

-----------------------------------------------------------------------------
(* People and workers.                                                     *)

\* A fix session of a gate under review or failed: a new generation, the
\* artifacts stay.
BeginFix ==
    /\ Move
    /\ Asks(row) \/ row.st = "failed"
    /\ ~row.parked /\ row.gen < MaxGen
    /\ Write([row EXCEPT !.st = "fixing_with_ai", !.entry = row.st, !.gen = @ + 1])
    /\ agent' = row.gen + 1
    /\ UNCHANGED <<forge, poll, pub, teardown>>

\* The session returns to where it was entered from, if the row knows of one.
Reverted(gate) ==
    [gate EXCEPT !.st = IF gate.entry # "none" THEN gate.entry
                        ELSE IF gate.st = "fixing_with_ai" \/ gate.parked THEN "failed"
                        ELSE @,
                 !.entry = "none", !.parked = FALSE]

\* The agent ends: while the lineage is its own its fix is parked for a
\* person, or the session reverted -- also when the gate was cancelled.
FixEnds ==
    /\ agent # 0
    /\ \/ row.gen = agent /\ row.st = "fixing_with_ai"
          /\ Write([row EXCEPT !.st = "awaiting_approval", !.parked = TRUE])
       \/ Write(IF row.gen = agent THEN Reverted(row) ELSE row)
    /\ agent' = 0
    /\ UNCHANGED <<forge, poll, pub, teardown, moves>>

\* A person decides about a parked fix: it is published, or taken back.
DecideFix ==
    /\ Asks(row) /\ row.parked
    /\ \/ /\ Write([row EXCEPT !.st = "running", !.parked = FALSE, !.entry = "none"])
          /\ pub' = [pub EXCEPT ![row.gen] = Publisher("fix", row.arts)]
       \/ Write(Reverted(row)) /\ UNCHANGED pub
    /\ UNCHANGED <<forge, poll, agent, teardown, moves>>

\* Mutant: an approval is not asked what it is spent on.
Approvable(gate) == TRUE

\* assertReviewGateApprovable.
AllApproved(gate) == \A s \in CurrentSlots(gate) : gate.arts[s].st = "approved"

\* An approval, minted by a person or a worker at any earlier time.
ApproveGate ==
    /\ Asks(row) /\ ~row.parked
    /\ Write(IF AllApproved(row) THEN Completed(row) ELSE row)
    /\ UNCHANGED <<forge, poll, pub, agent, teardown, moves>>

RejectGate ==
    /\ Move
    /\ Asks(row) /\ ~row.parked
    /\ Write([row EXCEPT !.st = "failed", !.entry = "none"])
    /\ UNCHANGED <<forge, poll, pub, agent, teardown>>

Killed(g) == [pub EXCEPT ![g].stage = IF @ = "launch" THEN "killed" ELSE @]

\* A cancel: an executor is killed, the publication of a fix goes on.
CancelGate ==
    /\ Move
    /\ row.st \notin {"pending", "completed", "closed", "failed"}
    /\ Write([row EXCEPT !.st = "failed"])
    /\ pub' = Killed(row.gen)
    /\ UNCHANGED <<forge, poll, agent, teardown>>

\* A retry or a recreation: first the current reviews are closed, one by one,
\* of the gate as it was cached.
BeginTeardown ==
    /\ Move
    /\ ~teardown.on /\ row.gen < MaxGen
    /\ teardown' = [on |-> TRUE, left |-> {mem.arts[s].pr : s \in CurrentSlots(mem)}]
    /\ UNCHANGED <<row, mem, forge, poll, pub, agent>>

CloseReview(p) ==
    /\ p \in teardown.left
    /\ forge' = IF forge[p].st = "open" THEN [forge EXCEPT ![p].st = "closed"] ELSE forge
    /\ teardown' = [teardown EXCEPT !.left = @ \ {p}]
    /\ UNCHANGED <<row, mem, poll, pub, agent, moves>>

\* Then the gate is reset: a new generation, every artifact discarded.
Discarded(gate) ==
    [st |-> "pending", gen |-> gate.gen + 1, entry |-> "none", parked |-> FALSE,
     active |-> IF gate.active = 0 THEN 0 ELSE gate.gen + 1,
     arts |-> [s \in Slots |-> IF gate.arts[s].st = "none" THEN Nobody
                               ELSE [gate.arts[s] EXCEPT !.st = "discarded"]]]

Reset ==
    /\ teardown.on /\ teardown.left = {}
    /\ row.gen < MaxGen
    /\ Write(Discarded(row))
    /\ pub' = Killed(row.gen)
    /\ teardown' = NoTeardown
    /\ UNCHANGED <<forge, poll, agent, moves>>

\* The sweep of idle tasks, or a person, closes the gate.
CloseGate ==
    /\ Move
    /\ row.st \in {"failed", "completed", "review_ready"}
    /\ Write([row EXCEPT !.st = "closed"])
    /\ UNCHANGED <<forge, poll, pub, agent, teardown>>

\* The owner dies and another starts: what was under way is gone.
Restart ==
    /\ Move
    /\ mem' = row
    /\ poll' = [p \in Polls |-> NoPoll]
    /\ pub' = [g \in Gens |-> NoPublisher]
    /\ agent' = 0
    /\ teardown' = NoTeardown
    /\ UNCHANGED <<row, forge>>

\* A gate that nobody runs is failed, at the next start or by the watchdog,
\* which returns a fix session to where it began instead.
Stalls ==
    /\ \/ /\ row.st = "running" /\ pub[row.gen].stage = "none"
          /\ Write([row EXCEPT !.st = "failed"])
       \/ /\ row.st = "fixing_with_ai" /\ agent # row.gen
          /\ Write([row EXCEPT !.st = "failed"]) \/ Write(Reverted(row))
    /\ UNCHANGED <<forge, poll, pub, agent, teardown, moves>>

\* Reviewers merge or close a pull request.
Reviewed(p) ==
    /\ forge[p].st = "open"
    /\ \E st \in {"merged", "closed"} : forge' = [forge EXCEPT ![p].st = st]
    /\ UNCHANGED <<row, mem, poll, pub, agent, teardown, moves>>

Next ==
    \/ \E p \in Polls : PollStarts(p) \/ ForgeAnswers(p) \/ PollHears(p) \/ PollFails(p)
    \/ Refresh \/ Launch
    \/ \E g \in Gens :
        \/ OpenReview(g) \/ ReuseReviews(g) \/ MetadataWritten(g) \/ ReviewReady(g)
        \/ NothingToReview(g) \/ PublishFails(g) \/ KilledEnds(g)
    \/ BeginFix \/ FixEnds \/ DecideFix
    \/ ApproveGate \/ RejectGate \/ CancelGate \/ CloseGate
    \/ BeginTeardown \/ Reset
    \/ \E p \in Prs : CloseReview(p) \/ Reviewed(p)
    \/ Restart \/ Stalls

Spec == Init /\ [][Next]_vars

\* The status worker ticks, the forge answers, and the dispatcher's poll
\* refreshes the cache; nobody has to review, approve or retry, and a retry
\* that has begun goes on.
FairSpec ==
    /\ Spec
    /\ WF_vars(Refresh)
    /\ \A p \in Polls : WF_vars(PollStarts(p)) /\ WF_vars(ForgeAnswers(p)) /\ WF_vars(PollHears(p))

-----------------------------------------------------------------------------
(* Properties.                                                             *)

\* A gate is completed only over merged reviews: neither an approval that
\* was meant for an earlier publication, nor the answer to a late poll, nor a
\* stack that was kept through a fix completes it earlier
\* (assertReviewGateApprovable, reviewPollStillMatches).
CompletedIsLanded ==
    row.st = "completed" =>
        \A s \in CurrentSlots(row) : forge[row.arts[s].pr].st = "merged"

\* Only the gate's own reviews close it: not the answer about a review that a
\* retry closed, or a fix replaced, in the meantime (reviewPollStillMatches).
ClosedForACause ==
    [][(row.st # "closed" /\ row'.st = "closed" /\ moves' = moves) =>
           \E s \in CurrentSlots(row') : forge[row'.arts[s].pr].st = "closed"]_vars

\* A gate does not wait for ever for reviews that are decided: when all of
\* them are merged or one is closed, it hears of it, whatever polls, fixes,
\* failed checks and stale caches come between (pollMergeGateTask).
Decided ==
    /\ row.st = "review_ready" /\ CurrentSlots(row) # {}
    /\ \/ \A s \in CurrentSlots(row) : forge[row.arts[s].pr].st = "merged"
       \/ \E s \in CurrentSlots(row) : forge[row.arts[s].pr].st = "closed"

DecidedIsHeard == Decided ~> ~Decided

=============================================================================
