------------------------------ MODULE TaskFeed ------------------------------
(***************************************************************************)
(* How a task's row in SQLite reaches the task graph a user looks at.      *)
(*                                                                         *)
(* Every write of the owner process bumps the row's taskStateVersion; the  *)
(* writes of the orchestrator are announced as deltas, other writers only  *)
(* touch the row.  The main process of a window (the owner's, or that of a *)
(* viewer which hears the owner over a socket) merges a delta in its       *)
(* snapshot cache, stamps what it forwards with a stream sequence and      *)
(* queues it for the renderer.  The renderer accepts the stream in order,  *)
(* in batches, and asks for a snapshot when a number is missing.           *)
(***************************************************************************)
EXTENDS Integers, Sequences, FiniteSets, SequencesExt

CONSTANTS
    Tasks,
    Modes,        \* the kinds of windows: see mode
    MaxWrites,    \* bound: versions a row reaches
    MaxFailures,  \* MAX_CONSECUTIVE_RESYNC_FAILURES
    Polled        \* tasks of workflows that have not ended

ASSUME FeedBoundsAssumption ==
    MaxWrites \in Nat \ {0} /\ MaxFailures \in Nat \ {0}
ASSUME FeedModeAssumption ==
    /\ Polled \subseteq Tasks
    /\ Modes \subseteq [viewer : BOOLEAN, overtaking : BOOLEAN,
                        losses : Nat, reloads : Nat, refreshes : Nat]

VARIABLES
    mode,    \* viewer: the window belongs to a process that is not the owner;
             \* overtaking: a single event may overtake a batch in the preload script;
             \* the rest bounds the breaks of the viewer's socket, the reloads of the
             \* renderer and the snapshots the user asks for
    log,     \* of each task, the field each version of its row changed
    gone,    \* tasks whose row is deleted
    wire,    \* viewer: what the owner sent it, in order
    linked,  \* viewer: its socket to the owner is up
    cache,   \* lastKnownTaskStates of the main process
    stream,  \* the deltas stamped so far: a delta's sequence is its position
    pending, \* pendingEvents of the publisher
    ipc,     \* messages on their way to the renderer, each a batch
    drain,   \* pendingBatchItems of the preload script
    ui,      \* the renderer
    asked,   \* snapshots the renderer has requested and not received
    shown,   \* uiInteractive
    used     \* the bounded events so far, and the requests no owner will answer

vars == <<mode, log, gone, wire, linked, cache, stream, pending, ipc, drain, ui,
          asked, shown, used>>
rows == <<mode, log, gone>>
Viewer == mode.viewer
main == <<cache, stream, pending, ipc>>
renderer == <<drain, ui>>

\* A change either sets the status or some other part of the row.
Fields == {"status", "detail"}

\* A row, or a copy of it: for each field, the version that last wrote it.
Absent == [v |-> 0, val |-> [f \in Fields |-> 0]]
LastWrite(writes, v, f) == Max({1} \cup {i \in 2 .. v : writes[i] = f})
Version(writes, v) == IF v = 0 THEN Absent ELSE [v |-> v, val |-> [f \in Fields |-> LastWrite(writes, v, f)]]
At(t, v) == Version(log[t], v)
RowOf(t) == IF t \in gone THEN Absent ELSE At(t, Len(log[t]))

\* A created delta carries the row, an update the one field it changes.
Created(t, row) == [type |-> "created", task |-> t, v |-> row.v, row |-> row]
Updated(t, v, f) == [type |-> "updated", task |-> t, v |-> v, field |-> f]
Removed(t, v) == [type |-> "removed", task |-> t, v |-> v]
Merge(copy, d) ==
    CASE d.type = "created" -> d.row
      [] d.type = "removed" -> Absent
      [] OTHER -> [v |-> d.v, val |-> [copy.val EXCEPT ![d.field] = d.v]]
SetsStatus(d) == d.type = "updated" /\ d.field = "status"

-----------------------------------------------------------------------------
(* The renderer: useTasks over the event pipeline.                         *)

Blank == [phase |-> "loading", map |-> [t \in Tasks |-> RowOf(t)], mark |-> Len(stream),
          busy |-> FALSE, resync |-> FALSE, failures |-> 0, target |-> 0, pipe |-> <<>>, gaveUp |-> FALSE]

ApplyTo(map, d) ==
    IF d.type = "updated" /\ map[d.task].v = 0 THEN map
    ELSE [map EXCEPT ![d.task] = Merge(@, d)]

\* The maps after each of the events.
Applied(map, events) ==
    LET maps[i \in 0 .. Len(events)] ==
            IF i = 0 THEN map ELSE ApplyTo(maps[i - 1], events[i].delta)
    IN  maps
Unknown(map, d) == d.type = "updated" /\ map[d.task].v = 0

SnapshotsIn(batch) == {i \in DOMAIN batch : batch[i].type = "snapshot"}

\* The map a snapshot installs: it never takes a task it has back.
Install(map, s) ==
    [t \in Tasks |-> IF s.rows[t].v > 0 /\ map[t].v > s.rows[t].v THEN map[t] ELSE s.rows[t]]

\* The last snapshot of the batch and the deltas behind it; did one of them
\* update a task the map does not have?
Batch(u) ==
    LET cut == IF SnapshotsIn(u.pipe) = {} THEN 0 ELSE Max(SnapshotsIn(u.pipe))
        s == u.pipe[cut]
        base == IF cut = 0 THEN [u EXCEPT !.pipe = <<>>]
                ELSE [u EXCEPT !.pipe = <<>>,
                               !.map = Install(@, s),
                               !.mark = Max({@, s.seq}),
                               !.resync = FALSE,
                               !.failures = IF s.seq >= u.target THEN 0 ELSE @]
        deltas == SubSeq(u.pipe, cut + 1, Len(u.pipe))
        maps == Applied(base.map, deltas)
        missed == \E i \in DOMAIN deltas : Unknown(maps[i - 1], deltas[i].delta)
    IN  [ui |-> [base EXCEPT !.map = maps[Len(deltas)]], asks |-> IF missed THEN 1 ELSE 0]

Push(u, e) == [u EXCEPT !.pipe = Append(@, e)]

\* Mutant: no number is ever missed.
HandleAny(u, e) ==
    IF e.type = "snapshot" THEN [ui |-> Push(u, e), asks |-> 0]
    ELSE IF e.seq <= u.mark \/ u.resync THEN [ui |-> u, asks |-> 0]
    ELSE [ui |-> Push([u EXCEPT !.mark = e.seq], e), asks |-> 0]

\* Mutant: the watermark follows the deltas that are dropped during a resync.
HandleCounting(u, e) ==
    LET first == u.mark + 1 IN
    IF e.type = "snapshot" THEN [ui |-> Push(u, e), asks |-> 0]
    ELSE IF e.seq <= u.mark THEN [ui |-> u, asks |-> 0]
    ELSE IF u.resync THEN [ui |-> [u EXCEPT !.mark = e.seq], asks |-> 0]
    ELSE IF e.seq = first THEN [ui |-> Push([u EXCEPT !.mark = e.seq], e), asks |-> 0]
    ELSE [ui |-> [u EXCEPT !.failures = @ + 1, !.resync = TRUE, !.target = e.seq, !.pipe = <<>>],
          asks |-> 1]

\* handleTaskGraphEvent: the renderer after the event, and the snapshots it
\* asks for.
Handle(u, e) ==
    LET quiet(n) == [ui |-> n, asks |-> 0]
        seq == e.seq
    IN  CASE e.type = "snapshot" -> quiet(Push(u, e))
          [] e.type = "delta" /\ (seq <= u.mark \/ u.resync) -> quiet(u)
          [] e.type = "delta" /\ ~u.resync /\ seq = u.mark + 1 ->
                LET n == Push([u EXCEPT !.mark = seq, !.failures = 0], e)
                IN  IF e.delta.type = "removed" \/ SetsStatus(e.delta) THEN Batch(n) ELSE quiet(n)
          [] e.type = "delta" /\ ~u.resync /\ seq > u.mark + 1 /\ u.failures >= MaxFailures ->
                quiet(Push([u EXCEPT !.mark = seq, !.failures = 0, !.gaveUp = TRUE], e))
          [] OTHER ->
                [ui |-> [u EXCEPT !.failures = @ + 1, !.resync = TRUE, !.target = seq, !.pipe = <<>>],
                 asks |-> 1]

Take(r) == ui' = r.ui /\ asked' = asked + r.asks

-----------------------------------------------------------------------------
(* The main process: the cache, the stream and the publisher.              *)

\* publishEvent of the events in order; the last one may flush the queue.
Send(events, flush) ==
    IF ~shown THEN UNCHANGED <<pending, ipc>>
    ELSE IF flush
    THEN pending' = <<>> /\ ipc' = Append(ipc, pending \o events)
    ELSE pending' = pending \o events /\ UNCHANGED ipc

\* publishDelta: stamp, then publish.  A delta with a status flushes.
Publish(d) ==
    /\ stream' = Append(stream, d)
    /\ Send(<<[type |-> "delta", delta |-> d, seq |-> Len(stream) + 1]>>, SetsStatus(d))

PublishNothing == UNCHANGED <<stream, pending, ipc>>

\* recoverQuarantinedTask: the row as the database has it now.
Recover(t, now) ==
    /\ cache' = [cache EXCEPT ![t] = now]
    /\ Publish(IF now.v = 0 THEN Removed(t, cache[t].v) ELSE Created(t, now))

\* Mutant: an update is merged into whatever the cache holds.
ProcessBlindly(d, now) ==
    LET entry == cache[d.task] IN
    IF entry.v > 0 /\ d.v <= entry.v THEN PublishNothing /\ UNCHANGED cache
    ELSE cache' = [cache EXCEPT ![d.task] = Merge(entry, d)] /\ Publish(d)

\* applyDelta and what follows from it; `now` is the row to recover from.
Process(d, now) ==
    LET entry == cache[d.task]
        stale == CASE d.type = "updated" -> entry.v > 0 /\ d.v <= entry.v
                   [] OTHER -> d.v < entry.v
        gap == d.type = "updated" /\ d.v - 1 # entry.v
    IN  \/ stale /\ PublishNothing /\ UNCHANGED cache
        \/ ~stale /\ gap /\ Recover(d.task, now)
        \/ ~stale /\ ~gap /\ cache' = [cache EXCEPT ![d.task] = Merge(entry, d)] /\ Publish(d)

-----------------------------------------------------------------------------
Init ==
    /\ mode \in Modes
    /\ log \in [Tasks -> {<<>>, <<"status">>}]
    /\ gone = {}
    /\ wire = <<>> /\ linked = TRUE
    /\ cache = [t \in Tasks |-> RowOf(t)]
    /\ stream = <<>> /\ pending = <<>> /\ ipc = <<>> /\ drain = <<>>
    /\ ui = Blank
    /\ asked = 0 /\ shown = FALSE
    /\ used = [losses |-> 0, reloads |-> 0, refreshes |-> 0, cut |-> 0]

Spend(what) == used[what] < mode[what] /\ used' = [used EXCEPT ![what] = @ + 1]

\* The owner publishes a delta: its own window hears it at once, a viewer
\* over the socket, if that is up.
Announce(d, now) ==
    IF Viewer
    THEN /\ wire' = IF linked THEN Append(wire, d) ELSE wire
         /\ UNCHANGED main
    ELSE Process(d, now) /\ UNCHANGED wire

\* A task of a plan that is loaded, forked or expanded.
Create(t) ==
    /\ t \notin gone /\ log[t] = <<>>
    /\ log' = [log EXCEPT ![t] = <<"status">>]
    /\ LET row == [v |-> 1, val |-> [f \in Fields |-> 1]] IN Announce(Created(t, row), row)
    /\ UNCHANGED <<mode, gone, linked, drain, ui, asked, shown, used>>

\* writeAndSync, and the update that announces it.
Write(t, f) ==
    /\ t \notin gone /\ Len(log[t]) \in 1 .. MaxWrites - 1
    /\ LET v == Len(log[t]) + 1 IN
       /\ log' = [log EXCEPT ![t] = Append(@, f)]
       /\ Announce(Updated(t, v, f),
                   [v |-> v, val |-> [RowOf(t).val EXCEPT ![f] = v]])
    /\ UNCHANGED <<mode, gone, linked, drain, ui, asked, shown, used>>

\* A writer that goes to persistence directly: timestamps of a failed
\* launch, the anchor of a fix, a field set by hand.
WriteSilently(t) ==
    /\ t \notin gone /\ Len(log[t]) \in 1 .. MaxWrites - 1
    /\ log' = [log EXCEPT ![t] = Append(@, "detail")]
    /\ UNCHANGED <<mode, gone, wire, linked, main, renderer, asked, shown, used>>

Delete(t) ==
    /\ t \notin gone /\ log[t] # <<>>
    /\ gone' = gone \cup {t}
    /\ Announce(Removed(t, Len(log[t])), Absent)
    /\ UNCHANGED <<mode, log, linked, drain, ui, asked, shown, used>>

\* startDbPolling: a row that differs from the cache is republished whole.
\* Only the owner polls.
PollRow(t) ==
    /\ ~Viewer /\ t \in Polled \ gone /\ cache[t] # RowOf(t)
    /\ Recover(t, RowOf(t))
    /\ UNCHANGED <<rows, wire, linked, renderer, asked, shown, used>>

\* A snapshot enters the renderer's queue with the count of this process.
Snapshot(map) == [type |-> "snapshot", rows |-> map, seq |-> Len(stream)]
AllRows == [t \in Tasks |-> RowOf(t)]

\* The viewer takes the next message of the owner: a delta, or the answer to
\* a refresh.
Receive ==
    /\ wire # <<>>
    /\ wire' = Tail(wire)
    /\ LET m == Head(wire) IN
       \/ m.type = "reply" /\ Send(<<Snapshot(m.rows)>>, FALSE) /\ UNCHANGED <<cache, stream>>
       \/ m.type # "reply" /\ Process(m, RowOf(m.task))
    /\ UNCHANGED <<rows, linked, renderer, asked, shown, used>>

Replies == Cardinality({i \in DOMAIN wire : wire[i].type = "reply"})

\* Mutant: a request the break cut off is not answered from the database.
LoseLinkAndReplies ==
    /\ Viewer /\ linked /\ Spend("losses")
    /\ linked' = FALSE /\ wire' = <<>>
    /\ UNCHANGED <<rows, main, renderer, asked, shown>>

\* The socket breaks with what is on it; requests without an answer will
\* fail when their deadline passes.
LoseLink ==
    /\ Viewer /\ linked /\ Spend("losses")
    /\ linked' = FALSE /\ wire' = <<>>
    /\ asked' = asked + Replies
    /\ UNCHANGED <<rows, main, renderer, shown>>

\* What was requested over the old socket, or over none, stays unanswered.
Reconnect ==
    /\ ~linked /\ linked' = TRUE
    /\ used' = [used EXCEPT !.cut = asked]
    /\ UNCHANGED <<rows, wire, main, renderer, asked, shown>>

\* resolveRefreshTaskGraphSnapshot: the owner reads its rows; a viewer asks
\* the owner, and reads the database itself when the request fails or its
\* deadline passes.
AskOwner ==
    /\ Viewer /\ linked /\ asked > used.cut
    /\ asked' = asked - 1
    /\ wire' = Append(wire, [type |-> "reply", rows |-> AllRows])
    /\ UNCHANGED <<rows, linked, main, renderer, shown, used>>

AnswerLocally ==
    /\ asked > 0
    /\ asked' = asked - 1
    /\ used' = [used EXCEPT !.cut = Max({0, @ - 1})]
    /\ Send(<<Snapshot(AllRows)>>, FALSE)
    /\ UNCHANGED <<rows, wire, linked, cache, stream, renderer, shown>>

\* The publisher's timer.
FlushPending ==
    /\ pending # <<>>
    /\ ipc' = Append(ipc, pending) /\ pending' = <<>>
    /\ UNCHANGED <<rows, wire, linked, cache, stream, renderer, asked, shown, used>>

\* ready-to-show.
Show ==
    /\ ~shown /\ shown' = TRUE
    /\ UNCHANGED <<rows, wire, linked, main, renderer, asked, used>>

-----------------------------------------------------------------------------
\* useTasks subscribes.
Subscribe ==
    /\ ui.phase = "loading" /\ ui' = [ui EXCEPT !.phase = "live"]
    /\ UNCHANGED <<rows, wire, linked, main, drain, asked, shown, used>>

\* A message of one event is handled at once, a larger one is set aside.
Arrive ==
    /\ ipc # <<>> /\ ipc' = Tail(ipc)
    /\ drain = <<>> \/ (mode.overtaking /\ ~ui.busy)
    /\ \/ ui.phase = "loading" /\ UNCHANGED <<renderer, asked>>
       \/ ui.phase = "live" /\ Len(Head(ipc)) = 1 /\ Take(Handle(ui, Head(ipc)[1])) /\ UNCHANGED drain
       \/ ui.phase = "live" /\ Len(Head(ipc)) > 1 /\ drain' = drain \o Head(ipc) /\ UNCHANGED <<ui, asked>>
    /\ UNCHANGED <<rows, wire, linked, cache, stream, pending, shown, used>>

\* drainBatchItems: all that was set aside, in order; the renderer does
\* nothing else until it is through.
Drain ==
    /\ drain # <<>> /\ drain' = Tail(drain)
    /\ LET r == Handle(ui, Head(drain)) IN
       /\ ui' = [r.ui EXCEPT !.busy = Len(drain) > 1]
       /\ asked' = asked + r.asks
    /\ UNCHANGED <<rows, wire, linked, main, shown, used>>

\* The pipeline's timer.
FlushBatch ==
    /\ ui.pipe # <<>> /\ ~ui.busy
    /\ Take(Batch(ui))
    /\ UNCHANGED <<rows, wire, linked, main, drain, shown, used>>

\* The user, or a component, asks for the whole graph.
Refresh ==
    /\ ui.phase = "live" /\ ~ui.busy /\ Spend("refreshes")
    /\ asked' = asked + 1
    /\ UNCHANGED <<rows, wire, linked, main, renderer, shown>>

\* The renderer crashed and is loaded again: it starts from the rows the
\* main process hands the preload script; what was on its way is lost.
Reload ==
    /\ ui.phase = "live" /\ ~ui.busy /\ Spend("reloads")
    /\ ui' = [Blank EXCEPT !.map = IF Viewer THEN cache ELSE AllRows]
    /\ pending' = <<>> /\ ipc' = <<>> /\ drain' = <<>>
    /\ UNCHANGED <<rows, wire, linked, cache, stream, asked, shown>>

Writers == \E t \in Tasks : \/ \E f \in Fields : Write(t, f)
                            \/ WriteSilently(t) \/ Create(t) \/ Delete(t)

\* What happens without anyone's doing: timers, messages, answers.
Feed ==
    \/ \E t \in Tasks : PollRow(t)
    \/ Receive \/ Reconnect \/ AskOwner \/ AnswerLocally \/ FlushPending
    \/ Show \/ Subscribe \/ Arrive \/ Drain \/ FlushBatch

Next == Writers \/ Feed \/ LoseLink \/ Refresh \/ Reload

Spec == Init /\ [][Next]_vars

\* The feed does not stop while it has something to do.
LiveSpec == Spec /\ WF_vars(Feed)

-----------------------------------------------------------------------------
(* Properties.                                                             *)

Whole(t, copy) == copy = At(t, copy.v)

\* The main process never keeps a mixture of two versions of a task: what
\* its cache holds is the row as it was at the version it is labelled with,
\* whatever deltas were lost or written past it.
CacheIsWhole == \A t \in Tasks : Whole(t, cache[t])

\* The owner's own window, as long as nothing is overtaken.
Owner == ~mode.viewer /\ ~mode.overtaking

\* Nor does the renderer of the owner's window; and as gaps come one at a
\* time and snapshots are honest, it never has a reason to give up on them.
ShownIsWhole == Owner => ~ui.gaveUp /\ \A t \in Tasks : Whole(t, ui.map[t])

\* What the watermark counts is on the owner's screen once the batch is applied:
\* no accepted or skipped delta is newer than the copy the renderer shows.
WatermarkIsShown ==
    Owner /\ ui.pipe = <<>> /\ ~ui.resync /\ ~ui.gaveUp =>
        \A i \in 1 .. ui.mark :
            LET d == stream[i] IN
            IF d.type = "removed" THEN ui.map[d.task].v = 0 \/ \E j \in i + 1 .. Len(stream) : stream[j].task = d.task
            ELSE ui.map[d.task].v >= d.v \/ (ui.map[d.task].v = 0 /\ d.task \in gone)

\* A renderer that waits for a snapshot stops waiting.
ResyncEnds == ui.resync ~> ~ui.resync

=============================================================================
