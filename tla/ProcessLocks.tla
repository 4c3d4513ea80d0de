---------------------------- MODULE ProcessLocks ----------------------------
(***************************************************************************)
(* The locks that keep processes apart.                                    *)
(*                                                                         *)
(* The database has one writer, the desktop one window process, a kind of  *)
(* worker one process.  Each of the three is a lock on the file system that *)
(* names its holder by pid.  A starter that meets the lock looks at the    *)
(* pid, and when it judges the holder dead removes the lock and tries      *)
(* again.  Every call to the file system is a step of its own, and a pid   *)
(* may be given to another process after its owner died.                   *)
(***************************************************************************)
EXTENDS Integers, FiniteSets

CONSTANTS
    Pids,
    Kinds,      \* locks to look at: "writer", "gui", "worker"
    MaxTries,   \* passes of the worker's loop (5 in the code)
    MaxLives,   \* bound: processes that get a pid, one after another
    MaxCrashes  \* bound: processes that die without cleaning up

ASSUME KindsAssumption == Kinds \subseteq {"writer", "gui", "worker"}
ASSUME LockBoundsAssumption ==
    MaxTries \in Nat \ {0} /\ MaxLives \in Nat /\ MaxCrashes \in Nat

VARIABLES
    kind,    \* the lock this behaviour is about
    lock,    \* the directory or file: who made it, and the name in it
    pc,      \* where each process is; "off" when no process has the pid
    life,    \* how many processes have had the pid
    saw,     \* the name a process read
    tries,   \* passes of the worker's loop
    crashes,
    robbed,  \* processes whose lock was removed by another
    overlap  \* whether two were acquiring at the same time

vars == <<kind, lock, pc, life, saw, tries, crashes, robbed, overlap>>

Acquiring == {"create", "write", "look", "judge", "remove"}
Holding == {"held", "freeing"}

Nobody == [pid |-> "none", life |-> 0]
Self(p) == [pid |-> p, life |-> life[p]]
NoLock == [maker |-> Nobody, name |-> Nobody]
Locked == lock.maker # Nobody

Alive(p) == pc[p] # "off"
Goes(p, to) == pc' = [pc EXCEPT ![p] = to]

\* The lock goes, whoever it belongs to now.
RemoveLock(p) ==
    /\ lock' = NoLock
    /\ robbed' = robbed \cup {q \in Pids \ {p} : lock.maker = Self(q) /\ pc[q] \in {"write"} \cup Holding}

Init ==
    /\ kind \in Kinds
    /\ lock = NoLock
    /\ pc = [p \in Pids |-> "off"] /\ life = [p \in Pids |-> 0]
    /\ saw = [p \in Pids |-> Nobody] /\ tries = [p \in Pids |-> 0]
    /\ crashes = 0 /\ robbed = {} /\ overlap = FALSE

-----------------------------------------------------------------------------
\* A process gets the pid and asks for the lock, or it is another program.
Start(p) ==
    /\ pc[p] = "off" /\ life[p] < MaxLives
    /\ life' = [life EXCEPT ![p] = @ + 1]
    /\ \/ Goes(p, "create") /\ overlap' = (overlap \/ \E q \in Pids : pc[q] \in Acquiring)
       \/ Goes(p, "other") /\ UNCHANGED overlap
    /\ tries' = [tries EXCEPT ![p] = 0] /\ saw' = [saw EXCEPT ![p] = Nobody]
    /\ robbed' = robbed \ {p}
    /\ UNCHANGED <<kind, lock, crashes>>

\* mkdir, or open with wx.
Create(p) ==
    /\ pc[p] = "create"
    /\ \/ ~Locked /\ lock' = [maker |-> Self(p), name |-> Nobody] /\ Goes(p, "write")
       \/ Locked /\ Goes(p, "look") /\ UNCHANGED lock
    /\ UNCHANGED <<kind, life, saw, tries, crashes, robbed, overlap>>

\* The pid goes into whatever directory is there now, the worker's record
\* into the file it opened.  The writer goes on without a pid file.
WriteName(p) ==
    /\ pc[p] = "write"
    /\ \/ /\ IF kind = "worker" THEN lock.maker = Self(p) ELSE Locked
          /\ lock' = [lock EXCEPT !.name = Self(p)] /\ Goes(p, "held")
       \/ kind = "writer" /\ Goes(p, "held") /\ UNCHANGED lock
       \/ kind = "worker" /\ lock.maker # Self(p) /\ Goes(p, "held") /\ UNCHANGED lock
       \/ kind = "gui" /\ ~Locked /\ Goes(p, "refused") /\ UNCHANGED lock
    /\ UNCHANGED <<kind, life, saw, tries, crashes, robbed, overlap>>

\* Mutant: a lock without a name is held by somebody.
LookStrictly(p) ==
    /\ pc[p] = "look"
    /\ IF lock.name = Nobody THEN Goes(p, "refused") ELSE Goes(p, "judge")
    /\ saw' = [saw EXCEPT ![p] = lock.name]
    /\ UNCHANGED <<kind, lock, life, tries, crashes, robbed, overlap>>

\* A lock without a name is held for the writer, and stale for the others.
Look(p) ==
    /\ pc[p] = "look"
    /\ IF lock.name # Nobody THEN Goes(p, "judge")
       ELSE IF kind = "writer" THEN Goes(p, "refused")
       ELSE Goes(p, "remove")
    /\ saw' = [saw EXCEPT ![p] = lock.name]
    /\ UNCHANGED <<kind, lock, life, tries, crashes, robbed, overlap>>

\* Mutant: a holder whose start time is unknown counts as recycled.
StaleUnlessKnown(p) ==
    LET q == saw[p].pid IN ~Alive(q) \/ kind # "worker"

\* The holder is dead, or its pid belongs to a process that was started
\* after the lock was written; the worker's lock does not ask for that.
Stale(p) ==
    LET q == saw[p].pid IN ~Alive(q) \/ (kind # "worker" /\ life[q] # saw[p].life)

\* Whether the start time is known and tells: it may be too close.
Judge(p) ==
    /\ pc[p] = "judge"
    /\ \/ Stale(p) /\ Goes(p, "remove")
       \/ Alive(saw[p].pid) /\ Goes(p, "refused")
    /\ UNCHANGED <<kind, lock, life, saw, tries, crashes, robbed, overlap>>

Remove(p) ==
    /\ pc[p] = "remove" /\ RemoveLock(p)
    /\ tries' = [tries EXCEPT ![p] = IF kind = "worker" THEN @ + 1 ELSE @]
    /\ Goes(p, IF tries'[p] = MaxTries THEN "refused" ELSE "create")
    /\ UNCHANGED <<kind, life, saw, crashes, overlap>>

\* The worker looks whether the lock is still its own before it removes it.
Release(p) ==
    /\ pc[p] = "held"
    /\ IF kind # "worker" THEN Goes(p, "off") /\ RemoveLock(p)
       ELSE /\ Goes(p, IF lock.name = Self(p) THEN "freeing" ELSE "off")
            /\ UNCHANGED <<lock, robbed>>
    /\ UNCHANGED <<kind, life, saw, tries, crashes, overlap>>

Unlink(p) ==
    /\ pc[p] = "freeing" /\ Goes(p, "off") /\ RemoveLock(p)
    /\ UNCHANGED <<kind, life, saw, tries, crashes, overlap>>

\* A refused process, or another program, ends.
Quit(p) ==
    /\ pc[p] \in {"refused", "other"} /\ Goes(p, "off")
    /\ UNCHANGED <<kind, lock, life, saw, tries, crashes, robbed, overlap>>

Crash(p) ==
    /\ pc[p] \in Acquiring \cup Holding /\ crashes < MaxCrashes
    /\ crashes' = crashes + 1 /\ Goes(p, "off")
    /\ UNCHANGED <<kind, lock, life, saw, tries, robbed, overlap>>

-----------------------------------------------------------------------------
Acquire(p) == Create(p) \/ WriteName(p) \/ Look(p) \/ Judge(p) \/ Remove(p)

Next == \E p \in Pids : Start(p) \/ Acquire(p) \/ Release(p) \/ Unlink(p) \/ Quit(p) \/ Crash(p)

Spec == Init /\ [][Next]_vars

\* The calls of acquire follow each other without waiting.
LiveSpec == Spec /\ \A p \in Pids : WF_vars(Acquire(p))

-----------------------------------------------------------------------------
(* Properties.                                                             *)

Holder == [pid : Pids \cup {"none"}, life : Nat]

TypeOK ==
    /\ kind \in Kinds
    /\ lock \in [maker : Holder, name : Holder]
    /\ pc \in [Pids -> {"off", "other", "refused"} \cup Acquiring \cup Holding]
    /\ life \in [Pids -> Nat] /\ tries \in [Pids -> Nat] /\ saw \in [Pids -> Holder]
    /\ crashes \in Nat /\ robbed \subseteq Pids /\ overlap \in BOOLEAN

Holders == {p \in Pids : pc[p] \in Holding}

\* A process that holds the lock owns what is on the disk, unless another
\* removed it: two holders always include one that was robbed.
HolderOwnsTheLock == \A p \in Holders \ robbed : lock.maker = Self(p)

\* As long as no two processes acquire at the same time, at most one holds
\* the lock, whatever dies and whoever gets a dead holder's pid.
ExclusiveAlone == ~overlap => Cardinality(Holders) <= 1

\* A starter that is alone gets the lock, whatever a crash left behind,
\* except where a writer died before it wrote its pid, or the starter has
\* the pid of the dead holder.
Alone(p) == \A q \in Pids \ {p} : ~Alive(q)
Hopeless(p) == Locked /\ (lock.name.pid = p \/ (kind = "writer" /\ lock.name = Nobody))
AloneSucceeds ==
    \A p \in Pids :
        pc[p] = "create" /\ tries[p] = 0 /\ Alone(p) /\ ~Hopeless(p)
            ~> pc[p] \in Holding \/ ~Alone(p) \/ ~Alive(p)

=============================================================================
