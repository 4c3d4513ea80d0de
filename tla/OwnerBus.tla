------------------------------ MODULE OwnerBus ------------------------------
(***************************************************************************)
(* Who serves the socket.                                                  *)
(*                                                                         *)
(* Every process that may own the database makes its bus before it asks    *)
(* for the writer lock: it connects to the socket, or serves it when       *)
(* nobody does, so that a process may serve that never gets the lock.  A   *)
(* refused connection lets it remove the socket file.  Between the refusal *)
(* and the removal, and between the removal and the bind, other processes  *)
(* run.  The holder of the lock probes its own socket and takes it back.   *)
(***************************************************************************)
EXTENDS Integers

CONSTANTS
    Procs,       \* processes that may own the database
    Viewers,     \* pure clients: allowServe is false
    NoProc, Dead, Absent,
    FailuresBeforeReserve,
    ProbesFirst, \* bound: nobody takes the path of a holder that has just
                 \* served it again before the holder's next probe
    MaxStarts, MaxCrashes, MaxErasures \* bounds on the environment

ASSUME OwnerBusAssumption ==
    /\ Procs \cap Viewers = {}
    /\ Procs \cap {NoProc, Dead, Absent} = {} /\ Dead # Absent
    /\ FailuresBeforeReserve \in Nat \ {0} /\ ProbesFirst \in BOOLEAN
    /\ MaxStarts \in Nat /\ MaxCrashes \in Nat /\ MaxErasures \in Nat

VARIABLES
    path,   \* what the socket path names: the server of a process, a dead file, nothing
    life,   \* the process: off, starting, opening, owner, refused, closing, leaving
    holder, \* who has the writer lock
    serves, \* whether the process has a listening server, on the path or not
    peer,   \* the server it is connected to
    link,   \* its attempt to get onto the bus: idle, or the next thing it does
    ready,  \* whether readyPromise is resolved
    sentinel, \* consecutiveFailures and recoveryPending
    used    \* the environment's steps so far

lock == <<life, holder>>
bus == <<serves, peer, link, ready>>
busVars == <<path, lock, bus, sentinel, used>>

Members == Procs \cup Viewers
Rested == [failures |-> 0, pending |-> FALSE]

TypeOK ==
    /\ path \in Procs \cup {Dead, Absent}
    /\ life \in [Procs -> {"off", "starting", "opening", "owner", "refused", "closing", "leaving"}]
    /\ holder \in Procs \cup {NoProc}
    /\ serves \in [Procs -> BOOLEAN] /\ peer \in [Members -> Procs \cup {NoProc}]
    /\ link \in [Members -> {"idle", "connect", "reclaim", "bind", "retry", "timer"}]
    /\ ready \in [Procs -> BOOLEAN]
    /\ sentinel \in [Procs -> [failures : Nat, pending : BOOLEAN]]
    /\ used \in [starts : Nat, crashes : Nat, erasures : Nat]

BusInit ==
    /\ path \in {Dead, Absent}
    /\ life = [p \in Procs |-> "off"] /\ holder = NoProc
    /\ serves = [p \in Procs |-> FALSE] /\ peer = [m \in Members |-> NoProc]
    /\ link = [m \in Members |-> IF m \in Viewers THEN "connect" ELSE "idle"]
    /\ ready = [p \in Procs |-> FALSE]
    /\ sentinel = [p \in Procs |-> Rested]
    /\ used = [starts |-> 0, crashes |-> 0, erasures |-> 0]

Lives(p) == life[p] \notin {"off", "leaving"}
Answers(p) == life[p] \in {"owner", "closing"}
Reset(p) == sentinel' = [sentinel EXCEPT ![p] = Rested]

\* A ping over a new connection: the server answers it, or passes it on to
\* its peers when it has no handler itself.
Reaches(p) == path = p \/ (path \in Procs /\ ~Answers(path) /\ peer[p] = path)

\* Who goes unheard between a re-serve and the next probe.
Undisturbed == ProbesFirst => \A p \in Procs : ~(life[p] = "owner" /\ sentinel[p].pending /\ Reaches(p))

\* Mutant: losing the peer does not schedule a recovery.
CutQuietly(p, next) ==
    /\ peer' = [m \in Members |-> IF m = p \/ peer[m] = p THEN NoProc ELSE peer[m]]
    /\ link' = [link EXCEPT ![p] = next]

\* Those connected to p, and p itself, lose their connections; whoever is
\* left without peer and server tries again on a timer (scheduleRecovery).
Cut(p, next) ==
    LET lost == {m \in Members : peer[m] = p} IN
    /\ peer' = [m \in Members |-> IF m \in lost \cup {p} THEN NoProc ELSE peer[m]]
    /\ link' = [m \in Members |-> IF m = p THEN next
                                   ELSE IF m \in lost \ {q \in Procs : serves[q]} THEN "timer" ELSE link[m]]

Stop(p) == serves' = [serves EXCEPT ![p] = FALSE]

-----------------------------------------------------------------------------
\* The bus of a member.

\* What a member without a server to connect to does next.
Refused(m) == IF m \in Viewers THEN "timer" ELSE IF path = Dead THEN "reclaim" ELSE "bind"

\* tryConnect: the answer of a refused or missing socket is acted on later.
Connect(m) ==
    /\ link[m] = "connect"
    /\ link' = [link EXCEPT ![m] = IF path \in Procs THEN "idle" ELSE Refused(m)]
    /\ peer' = [peer EXCEPT ![m] = IF path \in Procs THEN path ELSE NoProc]
    /\ ready' = [p \in Procs |-> ready[p] \/ (p = m /\ path \in Procs)]
    /\ UNCHANGED <<path, lock, serves, sentinel, used>>

\* tryServe(true): the file goes, whatever it is by now.
Reclaim(p) ==
    /\ link[p] = "reclaim" /\ Undisturbed
    /\ path' = Absent /\ link' = [link EXCEPT ![p] = "bind"]
    /\ UNCHANGED <<lock, serves, peer, ready, sentinel, used>>

\* listen: EADDRINUSE when there is a file, dead or not.
Bind(p) ==
    /\ link[p] = "bind"
    /\ \/ path = Absent /\ path' = p /\ link' = [link EXCEPT ![p] = "idle"]
          /\ serves' = [serves EXCEPT ![p] = TRUE] /\ ready' = [ready EXCEPT ![p] = TRUE]
       \/ path # Absent /\ link' = [link EXCEPT ![p] = "retry"] /\ UNCHANGED <<path, serves, ready>>
    /\ UNCHANGED <<lock, peer, sentinel, used>>

\* tryConnectRetry: the loser of the race for the path becomes a client.
Retry(p) ==
    /\ link[p] = "retry"
    /\ \/ path \in Procs /\ peer' = [peer EXCEPT ![p] = path] /\ link' = [link EXCEPT ![p] = "idle"]
       \/ path \notin Procs /\ link' = [link EXCEPT ![p] = "timer"] /\ UNCHANGED peer
    /\ ready' = [ready EXCEPT ![p] = TRUE]
    /\ UNCHANGED <<path, lock, serves, sentinel, used>>

Timer(m) ==
    /\ link[m] = "timer" /\ link' = [link EXCEPT ![m] = "connect"]
    /\ UNCHANGED <<path, lock, serves, peer, ready, sentinel, used>>

-----------------------------------------------------------------------------
\* A process: initServices makes the bus, waits until it is ready and asks
\* for the lock; the handlers and the sentinel come afterwards.
Start(p) ==
    /\ life[p] = "off" /\ used.starts < MaxStarts
    /\ used' = [used EXCEPT !.starts = @ + 1]
    /\ life' = [life EXCEPT ![p] = "starting"] /\ link' = [link EXCEPT ![p] = "connect"]
    /\ ready' = [ready EXCEPT ![p] = FALSE] /\ Reset(p)
    /\ UNCHANGED <<path, holder, serves, peer>>

Acquire(p) ==
    /\ life[p] = "starting" /\ ready[p]
    /\ \/ holder = NoProc /\ holder' = p /\ life' = [life EXCEPT ![p] = "opening"]
       \/ holder # NoProc /\ life' = [life EXCEPT ![p] = "refused"] /\ UNCHANGED holder
    /\ UNCHANGED <<path, bus, sentinel, used>>

Open(p) ==
    /\ life[p] = "opening" /\ life' = [life EXCEPT ![p] = "owner"]
    /\ UNCHANGED <<path, holder, bus, sentinel, used>>

\* One round of the sentinel.  Taking the path back drops the peers, closes
\* the server, which unlinks the path, and goes on like a refused connect.
Tick(p) ==
    /\ life[p] = "owner" /\ link[p] \in {"idle", "timer"}
    /\ LET failed == [sentinel[p] EXCEPT !.failures = IF @ < FailuresBeforeReserve THEN @ + 1 ELSE @] IN
       \/ /\ Reaches(p) /\ sentinel[p] # Rested /\ Reset(p)
          /\ UNCHANGED <<path, bus>>
       \/ /\ ~Reaches(p)
          /\ sentinel[p].pending \/ failed.failures < FailuresBeforeReserve
          /\ sentinel[p] # failed
          /\ sentinel' = [sentinel EXCEPT ![p] = failed] /\ UNCHANGED <<path, bus>>
       \/ /\ ~Reaches(p) /\ Undisturbed
          /\ ~sentinel[p].pending /\ failed.failures = FailuresBeforeReserve
          /\ sentinel' = [sentinel EXCEPT ![p] = [failures |-> failed.failures, pending |-> TRUE]]
          /\ path' = IF serves[p] THEN Absent ELSE path
          /\ Stop(p) /\ Cut(p, "reclaim") /\ UNCHANGED ready
    /\ UNCHANGED <<lock, used>>

\* An owner gives up the lock before it leaves the bus.
Release(p) ==
    /\ life[p] = "owner" /\ link[p] \in {"idle", "timer"}
    /\ life' = [life EXCEPT ![p] = "closing"]
    /\ holder' = NoProc
    /\ UNCHANGED <<path, bus, sentinel, used>>

\* disconnect: closing a server unlinks the path, and so does the bus itself.
Disconnect(p) ==
    /\ life[p] \in {"refused", "closing"} /\ link[p] \in {"idle", "timer"}
    /\ serves[p] => Undisturbed
    /\ life' = [life EXCEPT ![p] = IF serves[p] THEN "leaving" ELSE "off"]
    /\ path' = IF serves[p] THEN Absent ELSE path
    /\ Stop(p) /\ Cut(p, "idle")
    /\ UNCHANGED <<holder, ready, sentinel, used>>

Leave(p) ==
    /\ life[p] = "leaving" /\ Undisturbed
    /\ life' = [life EXCEPT ![p] = "off"] /\ path' = Absent
    /\ UNCHANGED <<holder, bus, sentinel, used>>

\* A process dies: its file stays, its lock is found stale.
Crash(p) ==
    /\ Lives(p) /\ used.crashes < MaxCrashes
    /\ used' = [used EXCEPT !.crashes = @ + 1]
    /\ life' = [life EXCEPT ![p] = "off"]
    /\ holder' = IF holder = p THEN NoProc ELSE holder
    /\ path' = IF path = p THEN Dead ELSE path
    /\ Stop(p) /\ Cut(p, "idle") /\ UNCHANGED <<ready, sentinel>>

\* Somebody removes the socket file.
Erase ==
    /\ path # Absent /\ used.erasures < MaxErasures /\ Undisturbed
    /\ path' = Absent /\ used' = [used EXCEPT !.erasures = @ + 1]
    /\ UNCHANGED <<lock, bus, sentinel>>

Link(m) == Connect(m) \/ Timer(m)
Serve(p) == Reclaim(p) \/ Bind(p) \/ Retry(p)
Own(p) == Acquire(p) \/ Open(p) \/ Tick(p)
Exit(p) == (life[p] = "closing" /\ Disconnect(p)) \/ Leave(p)

BusNext ==
    \/ \E m \in Members : Link(m)
    \/ \E p \in Procs : Serve(p) \/ Own(p) \/ Start(p) \/ Release(p) \/ Disconnect(p) \/ Leave(p) \/ Crash(p)
    \/ Erase

BusSpec == BusInit /\ [][BusNext]_busVars

\* The event loops and timers of living processes go on.  Nobody has to
\* start, quit or crash; in particular a refused process may wait for ever.
BusLiveSpec ==
    /\ BusSpec
    /\ \A m \in Members : WF_busVars(Link(m))
    /\ \A p \in Procs : WF_busVars(Serve(p)) /\ WF_busVars(Own(p)) /\ WF_busVars(Exit(p))

-----------------------------------------------------------------------------
\* A living process listens at whatever is connected to and at the path, a
\* process that is getting onto the bus is not on it, nobody is client and
\* server at once, and one process has the lock.
OnTheBus ==
    /\ \A p \in Procs : path = p => serves[p]
    /\ \A m \in Members, p \in Procs : peer[m] = p => serves[p]
    /\ \A p \in Procs : serves[p] => Lives(p) /\ link[p] = "idle" /\ peer[p] = NoProc
    /\ \A p \in Procs : ~Lives(p) => link[p] = "idle" /\ peer[p] = NoProc
    /\ \A m \in Members : link[m] # "idle" => peer[m] = NoProc
    /\ \A v \in Viewers : link[v] \in {"idle", "connect", "timer"}
    /\ \A p \in Procs : holder = p <=> life[p] \in {"opening", "owner"}

\* A new connection reaches the holder, and so does a viewer over the one it
\* has, unless it hangs on a process that was refused the lock and stays.
Found(p) ==
    /\ Reaches(p)
    /\ \A v \in Viewers :
          \/ peer[v] = p
          \/ peer[v] # NoProc /\ (peer[p] = peer[v] \/ life[peer[v]] = "refused")

\* The holder of the lock does not stay unreachable: whoever took or removed
\* its socket, it serves it again or is served by another, until it leaves.
HolderIsFound ==
    \A p \in Procs : (life[p] = "owner") ~> (Found(p) \/ life[p] # "owner")

=============================================================================
