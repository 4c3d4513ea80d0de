----------------------------- MODULE SerialQueue -----------------------------
(***************************************************************************)
(* What the mutation queue promises to those who submit: the mutations of  *)
(* a workflow run one at a time, the most urgent and then the oldest first; *)
(* a reset runs when nothing older is left; an outcome is final; and only  *)
(* a later reset drops a mutation that waits.  How the owner process       *)
(* drains the queue, its leases and its timers are not mentioned.          *)
(***************************************************************************)
EXTENDS Naturals

CONSTANTS
    Places,    \* places in the queue, (naturals), in the order of acceptance
    Resets     \* kinds that drop what waits

VARIABLE entry \* each place: state, kind, workflow and urgency

Open == {"waiting", "running"}
Settled == {"done", "failed"}

Init == \A i \in Places : entry[i].state = "absent"

\* Of two mutations of a workflow, the one that is to run first.
Ahead(i, j) ==
    \/ entry'[i].high /\ ~entry'[j].high
    \/ entry'[i].high = entry'[j].high /\ i < j

Older(i, j) == i < j /\ entry'[i].wf = entry'[j].wf

\* A mutation starts when nothing else of its workflow runs or is ahead of
\* it; a reset when nothing older is open.
Starts(i) ==
    /\ entry'[i].state = "running"
    /\ \A j \in Places \ {i} : entry'[j].wf = entry'[i].wf =>
          /\ entry'[j].state # "running"
          /\ entry'[j].state = "waiting" => ~Ahead(j, i)
    /\ entry'[i].kind \in Resets => \A j \in Places : Older(j, i) => entry'[j].state \notin Open

\* A later reset is open.
Dropped(i) ==
    /\ entry'[i].state = "failed"
    /\ \E r \in Places : Older(i, r) /\ entry'[r].kind \in Resets /\ entry'[r].state \in Open

\* What may happen to a mutation in a step; the steps of several workflows
\* may coincide.
Accepted(i) == entry[i].state = "absent" /\ (entry'[i].state = "waiting" \/ Starts(i))
Waits(i) == entry[i].state = "waiting" /\ (Starts(i) \/ Dropped(i))
Runs(i) ==
    /\ entry[i].state = "running"
    /\ \/ entry'[i].state \in Settled
       \/ entry'[i].state = "waiting" \* the owner is replaced
Erased(i) == entry'[i].state = "erased" \* its workflow is deleted
Stays(i) == entry'[i] = entry[i]

Same(i) == entry'[i] = [entry[i] EXCEPT !.state = entry'[i].state]

Next ==
    \A i \in Places :
        Stays(i) \/ Accepted(i) \/ Erased(i) \/ (Same(i) /\ (Waits(i) \/ Runs(i)))

Spec == Init /\ [][Next]_entry

=============================================================================
