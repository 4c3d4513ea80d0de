------------------------- MODULE ProcessLocksProofs -------------------------
(***************************************************************************)
(* Who holds a lock owns what is on the disk until another removes it; and *)
(* as long as acquisitions do not overlap nobody is robbed, so that there  *)
(* is one holder.                                                          *)
(***************************************************************************)
EXTENDS ProcessLocks, FiniteSetTheorems, TLAPS

\* The processes that made the lock and have not given it back.
Makers == {p \in Pids : pc[p] \in {"write"} \cup Holding}

\* A process that lives has had its pid for the first time or later.
Born == \A p \in Pids : Alive(p) => life[p] > 0

MakersOwn == \A p \in Makers \ robbed : lock.maker = Self(p)

\* What holds while acquisitions do not overlap.
OneAcquires == \A p, q \in Pids : pc[p] \in Acquiring /\ pc[q] \in Acquiring => p = q
NamedByMaker == lock.name \in {Nobody, lock.maker}
HeldIsNamed == kind # "writer" => \A q \in Holders : lock.name = Self(q)
JudgesTheHolder == \A p \in Pids : pc[p] = "judge" => \A q \in Holders : saw[p] = Self(q)
RemovesFree == \A p \in Pids : pc[p] = "remove" => Makers = {}

Quiet == robbed = {} /\ OneAcquires /\ NamedByMaker /\ HeldIsNamed /\ JudgesTheHolder /\ RemovesFree

IInv == TypeOK /\ Born /\ MakersOwn /\ (~overlap => Quiet)

-----------------------------------------------------------------------------
\* Nothing changes the type of a lock, a name or a place.
LEMMA TypeStep == TypeOK /\ [Next]_vars => TypeOK'
  <1> SUFFICES ASSUME TypeOK, [Next]_vars PROVE TypeOK'
    OBVIOUS
  <1>1. \A p \in Pids : Self(p) \in Holder
    BY DEF TypeOK, Self, Holder
  <1>2. Nobody \in Holder
    BY DEF Nobody, Holder
  <1>3. NoLock \in [maker : Holder, name : Holder]
    BY <1>2 DEF NoLock
  <1>4. CASE UNCHANGED vars
    BY <1>4 DEF TypeOK, vars
  <1>5. CASE Next
    <2> PICK p \in Pids : Start(p) \/ Acquire(p) \/ Release(p) \/ Unlink(p) \/ Quit(p) \/ Crash(p)
      BY <1>5 DEF Next
    <2>1. CASE Start(p)
      <3>1. pc' \in [Pids -> {"off", "other", "refused"} \cup Acquiring \cup Holding]
        BY <2>1 DEF Start, Goes, TypeOK, Acquiring, Holding
      <3>2. life' \in [Pids -> Nat] /\ tries' \in [Pids -> Nat]
        BY <2>1 DEF Start, TypeOK
      <3>3. saw' \in [Pids -> Holder]
        BY <2>1, <1>2 DEF Start, TypeOK
      <3>4. overlap' \in BOOLEAN
        BY <2>1 DEF Start, TypeOK
      <3>5. kind' = kind /\ lock' = lock /\ crashes' = crashes /\ robbed' \subseteq Pids
        BY <2>1 DEF Start, TypeOK
      <3> QED BY <3>1, <3>2, <3>3, <3>4, <3>5 DEF TypeOK
    <2>2. CASE Create(p)
      BY <2>2, <1>1, <1>2 DEF Create, Goes, TypeOK, Acquiring, Holding
    <2>3. CASE WriteName(p)
      <3>1. lock' \in [maker : Holder, name : Holder]
        <4>1. lock' = [lock EXCEPT !.name = Self(p)] \/ lock' = lock
          BY <2>3 DEF WriteName
        <4> QED BY <4>1, <1>1 DEF TypeOK
      <3>2. pc' \in [Pids -> {"off", "other", "refused"} \cup Acquiring \cup Holding]
        BY <2>3 DEF WriteName, Goes, TypeOK, Acquiring, Holding
      <3> QED BY <2>3, <3>1, <3>2 DEF WriteName, TypeOK
    <2>4. CASE Look(p)
      <3>1. lock.name \in Holder
        BY DEF TypeOK
      <3> QED BY <2>4, <3>1 DEF Look, Goes, TypeOK, Acquiring, Holding
    <2>5. CASE Judge(p)
      BY <2>5 DEF Judge, Goes, TypeOK, Acquiring, Holding
    <2>6. CASE Remove(p)
      <3>1. tries' \in [Pids -> Nat]
        BY <2>6 DEF Remove, TypeOK
      <3>2. pc' \in [Pids -> {"off", "other", "refused"} \cup Acquiring \cup Holding]
        BY <2>6 DEF Remove, Goes, TypeOK, Acquiring, Holding
      <3> QED BY <2>6, <3>1, <3>2, <1>3 DEF Remove, RemoveLock, TypeOK
    <2>7. CASE Release(p)
      BY <2>7, <1>3 DEF Release, RemoveLock, Goes, TypeOK, Acquiring, Holding
    <2>8. CASE Unlink(p)
      BY <2>8, <1>3 DEF Unlink, RemoveLock, Goes, TypeOK, Acquiring, Holding
    <2>9. CASE Quit(p)
      BY <2>9 DEF Quit, Goes, TypeOK, Acquiring, Holding
    <2>10. CASE Crash(p)
      BY <2>10 DEF Crash, Goes, TypeOK, Acquiring, Holding
    <2> QED BY <2>1, <2>2, <2>3, <2>4, <2>5, <2>6, <2>7, <2>8, <2>9, <2>10 DEF Acquire
  <1> QED BY <1>4, <1>5

\* A pid that lives has been given to somebody.
LEMMA BornStep == TypeOK /\ Born /\ [Next]_vars => Born'
  <1> SUFFICES ASSUME TypeOK, Born, [Next]_vars, NEW q \in Pids, Alive(q)' PROVE life'[q] > 0
    BY DEF Born
  <1>1. life[q] \in Nat
    BY DEF TypeOK
  <1>2. CASE UNCHANGED vars
    BY <1>2 DEF Born, Alive, vars
  <1>3. CASE Next
    <2> PICK p \in Pids : Start(p) \/ Acquire(p) \/ Release(p) \/ Unlink(p) \/ Quit(p) \/ Crash(p)
      BY <1>3 DEF Next
    <2>1. CASE Start(p)
      BY <2>1, <1>1 DEF Start, Goes, Born, Alive, TypeOK
    <2>2. CASE ~Start(p)
      <3>1. life' = life
        BY <2>2 DEF Acquire, Create, WriteName, Look, Judge, Remove, Release, Unlink, Quit, Crash
      <3>2. pc[p] # "off"
        BY <2>2 DEF Acquire, Create, WriteName, Look, Judge, Remove, Release, Unlink, Quit, Crash, Acquiring, Holding
      <3>3. q # p => pc'[q] = pc[q]
        BY <2>2 DEF Acquire, Create, WriteName, Look, Judge, Remove, Release, Unlink, Quit, Crash, Goes, TypeOK
      <3> QED BY <3>1, <3>2, <3>3 DEF Born, Alive
    <2> QED BY <2>1, <2>2
  <1> QED BY <1>2, <1>3

\* Processes have different identities, and none is Nobody.
LEMMA Identities ==
    ASSUME NEW p \in Pids, NEW q \in Pids
    PROVE  /\ Self(p) = Self(q) => p = q
           /\ life[p] \in Nat /\ life[p] > 0 => Self(p) # Nobody
  BY DEF Self, Nobody

-----------------------------------------------------------------------------
\* Removing the lock leaves only robbed makers behind.
LEMMA RemovalRobs ==
    ASSUME NEW p \in Pids, RemoveLock(p), MakersOwn, NEW q \in Pids, q # p,
           q \in Makers
    PROVE  q \in robbed'
  <1>1. CASE q \in robbed
    BY <1>1 DEF RemoveLock
  <1>2. CASE q \notin robbed
    <2>1. lock.maker = Self(q)
      BY <1>2 DEF MakersOwn
    <2> QED BY <2>1 DEF RemoveLock, Makers
  <1> QED BY <1>1, <1>2

\* The makers that were not robbed own the lock on the disk.
LEMMA MakersStep == TypeOK /\ Born /\ MakersOwn /\ [Next]_vars => MakersOwn'
  <1> SUFFICES ASSUME TypeOK, Born, MakersOwn, [Next]_vars,
                      NEW q \in Pids, q \in Makers', q \notin robbed'
               PROVE  lock'.maker = Self(q)'
    BY DEF MakersOwn, Makers
  <1>1. CASE UNCHANGED vars
    BY <1>1 DEF MakersOwn, Makers, Self, vars
  <1>2. CASE Next
    <2> PICK p \in Pids : Start(p) \/ Acquire(p) \/ Release(p) \/ Unlink(p) \/ Quit(p) \/ Crash(p)
      BY <1>2 DEF Next
    <2>1. CASE Start(p)
      <3>1. q # p
        BY <2>1 DEF Start, Goes, TypeOK, Makers, Holding
      <3>2. q \in Makers /\ q \notin robbed /\ Self(q)' = Self(q) /\ lock' = lock
        BY <2>1, <3>1 DEF Start, Goes, TypeOK, Makers, Self
      <3> QED BY <3>2 DEF MakersOwn
    <2>2. CASE Create(p)
      <3>1. Self(q)' = Self(q) /\ robbed' = robbed
        BY <2>2 DEF Create, Self
      <3>2. CASE ~Locked
        <4>1. lock'.maker = Self(p)
          BY <2>2, <3>2 DEF Create
        <4>2. CASE q = p
          BY <4>1, <4>2, <3>1
        <4>3. CASE q # p
          <5>1. q \in Makers
            BY <2>2, <4>3 DEF Create, Goes, TypeOK, Makers
          <5>2. lock.maker = Self(q)
            BY <3>1, <5>1 DEF MakersOwn
          <5>3. life[q] \in Nat /\ life[q] > 0
            BY <5>1 DEF Born, Alive, Makers, Holding, TypeOK
          <5> QED BY <5>2, <5>3, <3>2, Identities DEF Locked
        <4> QED BY <4>2, <4>3
      <3>3. CASE Locked
        <4>1. lock' = lock /\ q \in Makers
          BY <2>2, <3>3 DEF Create, Goes, TypeOK, Makers, Holding
        <4> QED BY <3>1, <4>1 DEF MakersOwn
      <3> QED BY <3>2, <3>3
    <2>3. CASE WriteName(p)
      <3>1. lock'.maker = lock.maker
        <4>1. lock' = [lock EXCEPT !.name = Self(p)] \/ lock' = lock
          BY <2>3 DEF WriteName
        <4> QED BY <4>1 DEF TypeOK
      <3>2. q \in Makers /\ robbed' = robbed /\ Self(q)' = Self(q)
        BY <2>3 DEF WriteName, Goes, TypeOK, Makers, Self, Holding
      <3> QED BY <3>1, <3>2 DEF MakersOwn
    <2>4. CASE Remove(p) \/ Unlink(p) \/ (Release(p) /\ kind # "worker")
      <3>1. RemoveLock(p)
        BY <2>4 DEF Remove, Unlink, Release
      <3>2. q # p
        BY <2>4 DEF Remove, Unlink, Release, Goes, TypeOK, Makers, Holding
      <3>3. q \in Makers
        BY <2>4, <3>2 DEF Remove, Unlink, Release, Goes, TypeOK, Makers
      <3> QED BY <3>1, <3>2, <3>3, RemovalRobs
    <2>5. CASE Look(p) \/ Judge(p) \/ Quit(p) \/ Crash(p) \/ (Release(p) /\ kind = "worker")
      <3>1. lock' = lock /\ robbed' = robbed /\ life' = life
        BY <2>5 DEF Look, Judge, Quit, Crash, Release
      <3>2. q \in Makers
        BY <2>5 DEF Look, Judge, Quit, Crash, Release, Goes, TypeOK, Makers, Holding
      <3> QED BY <3>1, <3>2 DEF MakersOwn, Self
    <2> QED BY <2>1, <2>2, <2>3, <2>4, <2>5 DEF Acquire
  <1> QED BY <1>1, <1>2

-----------------------------------------------------------------------------
\* Without overlap the makers of the lock are one.
LEMMA OneMaker ==
    ASSUME IInv, ~overlap, NEW p \in Makers, NEW q \in Makers
    PROVE  p = q
  <1>1. lock.maker = Self(p) /\ lock.maker = Self(q)
    BY DEF IInv, Quiet, MakersOwn
  <1> QED BY <1>1 DEF Self

\* Starting: nobody else is acquiring, or the two overlap from now on.
LEMMA QuietStart ==
    ASSUME IInv, NEW p \in Pids, Start(p), ~overlap'
    PROVE  Quiet'
  <1>00. TypeOK /\ overlap \in BOOLEAN
    BY DEF IInv, TypeOK
  <1>01. ~overlap
    <2>1. CASE overlap' = (overlap \/ \E q \in Pids : pc[q] \in Acquiring)
      BY <1>00, <2>1
    <2>2. CASE UNCHANGED overlap
      BY <2>2
    <2> QED BY <2>1, <2>2 DEF Start
  <1>0. TypeOK /\ Quiet /\ ~overlap
    BY <1>00, <1>01 DEF IInv
  <1>1. robbed' = {} /\ lock' = lock /\ kind' = kind
    BY <1>0 DEF Start, Quiet
  <1>2. Makers' = Makers /\ Holders' = Holders
    BY <1>0 DEF Start, Goes, TypeOK, Makers, Holders, Holding
  <1>3. \A q \in Pids : q # p => pc'[q] = pc[q] /\ saw'[q] = saw[q] /\ Self(q)' = Self(q)
    BY <1>0 DEF Start, Goes, TypeOK, Self
  <1>4. pc'[p] \in {"create", "other"} /\ p \notin Holders /\ p \notin Makers
    BY <1>0 DEF Start, Goes, TypeOK, Holders, Makers, Holding
  <1>5. OneAcquires'
    <2>1. CASE pc'[p] = "create"
      <3>1. \A q \in Pids : pc[q] \notin Acquiring
        BY <1>0, <2>1 DEF Start, Goes, TypeOK
      <3> QED BY <1>3, <3>1 DEF OneAcquires
    <2>2. CASE pc'[p] = "other"
      <3>1. pc'[p] \notin Acquiring
        BY <2>2 DEF Acquiring
      <3> QED BY <1>0, <1>3, <3>1 DEF OneAcquires, Quiet
    <2> QED BY <1>4, <2>1, <2>2
  <1>6. NamedByMaker'
    BY <1>0, <1>1 DEF NamedByMaker, Quiet
  <1>7. HeldIsNamed'
    BY <1>0, <1>1, <1>2, <1>3, <1>4 DEF HeldIsNamed, Quiet, Holders
  <1>8. JudgesTheHolder'
    BY <1>0, <1>2, <1>3, <1>4 DEF JudgesTheHolder, Quiet, Holders
  <1>9. RemovesFree'
    BY <1>0, <1>2, <1>3, <1>4 DEF RemovesFree, Quiet
  <1> QED BY <1>1, <1>5, <1>6, <1>7, <1>8, <1>9 DEF Quiet

\* Making the lock: it was free, so nobody holds it.
LEMMA QuietCreate ==
    ASSUME IInv, NEW p \in Pids, Create(p), ~overlap'
    PROVE  Quiet'
  <1>0. TypeOK /\ Quiet /\ ~overlap /\ Born
    BY DEF IInv, Create
  <1>1. robbed' = {} /\ kind' = kind /\ saw' = saw /\ \A q \in Pids : Self(q)' = Self(q)
    BY <1>0 DEF Create, Quiet, Self
  <1>2. \A q \in Pids : q # p => pc'[q] = pc[q]
    BY <1>0 DEF Create, Goes, TypeOK
  <1>3. pc[p] = "create" /\ pc'[p] \in {"write", "look"}
    BY <1>0 DEF Create, Goes, TypeOK
  <1>4. Holders' = Holders
    BY <1>2, <1>3 DEF Holders, Holding
  <1>5. OneAcquires'
    BY <1>0, <1>2, <1>3 DEF OneAcquires, Quiet, Acquiring
  <1>6. \A q \in Pids : pc'[q] \notin {"judge", "remove"}
    BY <1>0, <1>2, <1>3 DEF OneAcquires, Quiet, Acquiring
  <1>7. JudgesTheHolder' /\ RemovesFree'
    BY <1>6 DEF JudgesTheHolder, RemovesFree
  <1>8. CASE Locked
    <2>1. lock' = lock
      BY <1>8 DEF Create
    <2> QED BY <1>0, <1>1, <1>4, <1>5, <1>7, <2>1 DEF Quiet, NamedByMaker, HeldIsNamed, Holders
  <1>9. CASE ~Locked
    <2>1. lock' = [maker |-> Self(p), name |-> Nobody]
      BY <1>9 DEF Create
    <2>2. Holders = {}
      <3> SUFFICES ASSUME NEW q \in Holders PROVE FALSE
        OBVIOUS
      <3>1. q \in Pids /\ lock.maker = Self(q)
        BY <1>0 DEF IInv, MakersOwn, Makers, Holders, Quiet
      <3>2. life[q] \in Nat /\ life[q] > 0
        BY <1>0 DEF Born, Alive, Holders, Holding, TypeOK
      <3> QED BY <1>9, <3>1, <3>2, Identities DEF Locked
    <2>3. NamedByMaker' /\ HeldIsNamed'
      BY <1>4, <2>1, <2>2 DEF NamedByMaker, HeldIsNamed
    <2> QED BY <1>1, <1>5, <1>7, <2>3 DEF Quiet
  <1> QED BY <1>8, <1>9

\* Naming the lock: it is the lock the process made.
LEMMA QuietWriteName ==
    ASSUME IInv, NEW p \in Pids, WriteName(p), ~overlap'
    PROVE  Quiet'
  <1>0. TypeOK /\ Quiet /\ ~overlap /\ Born
    BY DEF IInv, WriteName
  <1>1. robbed' = {} /\ kind' = kind /\ saw' = saw /\ \A q \in Pids : Self(q)' = Self(q)
    BY <1>0 DEF WriteName, Quiet, Self
  <1>2. \A q \in Pids : q # p => pc'[q] = pc[q]
    BY <1>0 DEF WriteName, Goes, TypeOK
  <1>3. pc[p] = "write" /\ pc'[p] \in {"held", "refused"}
    BY <1>0 DEF WriteName, Goes, TypeOK
  <1>4. p \in Makers
    BY <1>3 DEF Makers
  <1>5. lock.maker = Self(p) /\ Locked
    <2>1. lock.maker = Self(p)
      BY <1>0, <1>4 DEF IInv, MakersOwn, Quiet
    <2>2. life[p] \in Nat /\ life[p] > 0
      BY <1>0, <1>3 DEF Born, Alive, TypeOK
    <2> QED BY <2>1, <2>2, Identities DEF Locked
  <1>6. Holders = {}
    <2> SUFFICES ASSUME NEW q \in Holders PROVE FALSE
      OBVIOUS
    <2>1. q \in Makers
      BY DEF Holders, Makers
    <2>2. q = p
      BY <1>0, <1>4, <2>1, OneMaker
    <2> QED BY <1>3, <2>2 DEF Holders, Holding
  <1>7. Holders' \subseteq {p}
    BY <1>2, <1>6 DEF Holders
  <1>8. OneAcquires'
    BY <1>0, <1>2, <1>3 DEF OneAcquires, Quiet, Acquiring
  <1>9. \A q \in Pids : pc'[q] \notin {"judge", "remove"}
    BY <1>0, <1>2, <1>3 DEF OneAcquires, Quiet, Acquiring
  <1>10. JudgesTheHolder' /\ RemovesFree'
    BY <1>9 DEF JudgesTheHolder, RemovesFree
  <1>11. lock' = [lock EXCEPT !.name = Self(p)] \/ (kind = "writer" /\ lock' = lock)
    BY <1>5 DEF WriteName
  <1>12. NamedByMaker' /\ HeldIsNamed'
    <2>1. CASE lock' = [lock EXCEPT !.name = Self(p)]
      <3>1. lock'.name = Self(p) /\ lock'.maker = lock.maker
        BY <1>0, <2>1 DEF TypeOK
      <3> QED BY <1>1, <1>5, <1>7, <3>1 DEF NamedByMaker, HeldIsNamed
    <2>2. CASE kind = "writer" /\ lock' = lock
      BY <1>0, <1>1, <2>2 DEF NamedByMaker, HeldIsNamed, Quiet
    <2> QED BY <1>11, <2>1, <2>2
  <1> QED BY <1>1, <1>8, <1>10, <1>12 DEF Quiet

\* Looking at the lock: a holder has its name in it, or it is the writer's.
LEMMA QuietLook ==
    ASSUME IInv, NEW p \in Pids, Look(p), ~overlap'
    PROVE  Quiet'
  <1>0. TypeOK /\ Quiet /\ ~overlap /\ Born
    BY DEF IInv, Look
  <1>1. /\ robbed' = {} /\ kind' = kind /\ lock' = lock
        /\ \A q \in Pids : Self(q)' = Self(q)
    BY <1>0 DEF Look, Quiet, Self
  <1>2. \A q \in Pids : q # p => pc'[q] = pc[q]
    BY <1>0 DEF Look, Goes, TypeOK
  <1>3. pc[p] = "look" /\ pc'[p] \in {"judge", "refused", "remove"} /\ saw'[p] = lock.name
    BY <1>0 DEF Look, Goes, TypeOK
  <1>4. Makers' = Makers /\ Holders' = Holders
    BY <1>2, <1>3 DEF Holders, Makers, Holding
  <1>5. OneAcquires'
    BY <1>0, <1>2, <1>3 DEF OneAcquires, Quiet, Acquiring
  <1>6. \A q \in Pids : q # p => pc'[q] \notin Acquiring
    BY <1>0, <1>2, <1>3 DEF OneAcquires, Quiet, Acquiring
  <1>7. \A q \in Makers : q \in Holders
    BY <1>2, <1>3, <1>6 DEF Makers, Holders, Acquiring
  <1>8. \A q \in Holders : q \in Pids /\ lock.maker = Self(q) /\ Self(q) # Nobody
    <2> TAKE q \in Holders
    <2>1. q \in Makers /\ q \in Pids
      BY DEF Holders, Makers
    <2>2. lock.maker = Self(q)
      BY <1>0, <2>1 DEF IInv, MakersOwn, Quiet
    <2>3. life[q] \in Nat /\ life[q] > 0
      BY <1>0 DEF Born, Alive, Holders, Holding, TypeOK
    <2> QED BY <2>1, <2>2, <2>3, Identities
  <1>9. JudgesTheHolder'
    <2> SUFFICES ASSUME NEW u \in Pids, pc'[u] = "judge", NEW q \in Holders
                 PROVE  saw'[u] = Self(q)'
      BY <1>4 DEF JudgesTheHolder
    <2>1. u = p
      BY <1>6 DEF Acquiring
    <2>2. lock.name # Nobody
      BY <1>0, <2>1 DEF Look, Goes, TypeOK
    <2>3. lock.name = lock.maker
      BY <1>0, <2>2 DEF Quiet, NamedByMaker
    <2> QED BY <1>1, <1>3, <1>8, <2>1, <2>3
  <1>10. RemovesFree'
    <2> SUFFICES ASSUME NEW u \in Pids, pc'[u] = "remove", NEW q \in Makers
                 PROVE  FALSE
      BY <1>4 DEF RemovesFree
    <2>1. u = p
      BY <1>6 DEF Acquiring
    <2>2. lock.name = Nobody /\ kind # "writer"
      BY <1>0, <2>1 DEF Look, Goes, TypeOK
    <2>3. q \in Holders
      BY <1>7
    <2>4. lock.name = Self(q)
      BY <1>0, <2>2, <2>3 DEF Quiet, HeldIsNamed
    <2> QED BY <1>8, <2>2, <2>3, <2>4
  <1> QED BY <1>0, <1>1, <1>4, <1>5, <1>8, <1>9, <1>10 DEF Quiet, NamedByMaker, HeldIsNamed

\* Judging: a holder is alive and has its pid still, so it is not stale.
LEMMA QuietJudge ==
    ASSUME IInv, NEW p \in Pids, Judge(p), ~overlap'
    PROVE  Quiet'
  <1>0. TypeOK /\ Quiet /\ ~overlap /\ Born
    BY DEF IInv, Judge
  <1>1. /\ robbed' = {} /\ kind' = kind /\ lock' = lock /\ saw' = saw
        /\ \A q \in Pids : Self(q)' = Self(q)
    BY <1>0 DEF Judge, Quiet, Self
  <1>2. \A q \in Pids : q # p => pc'[q] = pc[q]
    BY <1>0 DEF Judge, Goes, TypeOK
  <1>3. pc[p] = "judge" /\ pc'[p] \in {"refused", "remove"}
    BY <1>0 DEF Judge, Goes, TypeOK
  <1>4. Makers' = Makers /\ Holders' = Holders
    BY <1>2, <1>3 DEF Holders, Makers, Holding
  <1>5. OneAcquires'
    BY <1>0, <1>2, <1>3 DEF OneAcquires, Quiet, Acquiring
  <1>6. \A q \in Pids : q # p => pc'[q] \notin Acquiring
    BY <1>0, <1>2, <1>3 DEF OneAcquires, Quiet, Acquiring
  <1>7. \A q \in Makers : q \in Holders
    BY <1>2, <1>3, <1>6 DEF Makers, Holders, Acquiring
  <1>8. JudgesTheHolder'
    BY <1>1, <1>3, <1>6 DEF JudgesTheHolder, Acquiring
  <1>9. RemovesFree'
    <2> SUFFICES ASSUME NEW u \in Pids, pc'[u] = "remove", NEW q \in Makers
                 PROVE  FALSE
      BY <1>4 DEF RemovesFree
    <2>1. u = p
      BY <1>6 DEF Acquiring
    <2>2. Stale(p)
      BY <1>0, <2>1 DEF Judge, Goes, TypeOK
    <2>3. q \in Holders
      BY <1>7
    <2>4. saw[p] = Self(q)
      BY <1>0, <1>3, <2>3 DEF Quiet, JudgesTheHolder
    <2>5. Alive(q) /\ saw[p].pid = q /\ saw[p].life = life[q]
      BY <2>3, <2>4 DEF Alive, Holders, Holding, Self
    <2> QED BY <2>2, <2>5 DEF Stale
  <1> QED BY <1>0, <1>1, <1>4, <1>5, <1>8, <1>9 DEF Quiet, NamedByMaker, HeldIsNamed, Holders

\* A lock that is removed belongs to the remover, or to nobody alive.
LEMMA QuietRemoval ==
    ASSUME IInv, NEW p \in Pids, ~overlap',
           Remove(p) \/ Unlink(p) \/ (Release(p) /\ kind # "worker")
    PROVE  Quiet'
  <1>0. TypeOK /\ Quiet /\ ~overlap /\ Born
    BY DEF IInv, Remove, Unlink, Release
  <1>1. kind' = kind /\ saw' = saw /\ \A q \in Pids : Self(q)' = Self(q)
    BY DEF Remove, Unlink, Release, Self
  <1>2. \A q \in Pids : q # p => pc'[q] = pc[q]
    BY <1>0 DEF Remove, Unlink, Release, Goes, TypeOK
  <1>3. pc'[p] \in {"off", "refused", "create"} /\ (pc[p] = "remove" \/ (pc[p] \in Holding /\ pc'[p] = "off"))
    BY <1>0 DEF Remove, Unlink, Release, Goes, TypeOK, Holding
  <1>4. RemoveLock(p)
    BY DEF Remove, Unlink, Release
  <1>5. \A q \in Makers : q = p
    <2> TAKE q \in Makers
    <2>1. CASE pc[p] = "remove"
      BY <1>0, <2>1 DEF Quiet, RemovesFree
    <2>2. CASE pc[p] \in Holding
      <3>1. p \in Makers
        BY <2>2 DEF Makers
      <3> QED BY <1>0, <3>1, OneMaker
    <2> QED BY <1>3, <2>1, <2>2
  <1>6. robbed' = {}
    BY <1>0, <1>4, <1>5 DEF RemoveLock, Quiet, Makers
  <1>7. lock' = NoLock
    BY <1>4 DEF RemoveLock
  <1>8. Makers' = {} /\ Holders' = {}
    BY <1>2, <1>3, <1>5 DEF Makers, Holders, Holding
  <1>9. OneAcquires'
    <2>1. pc'[p] \in Acquiring => pc[p] \in Acquiring
      BY <1>3 DEF Acquiring, Holding
    <2> QED BY <1>0, <1>2, <2>1 DEF OneAcquires, Quiet
  <1>10. NamedByMaker'
    BY <1>7 DEF NamedByMaker, NoLock
  <1>11. HeldIsNamed' /\ JudgesTheHolder' /\ RemovesFree'
    BY <1>8 DEF HeldIsNamed, JudgesTheHolder, RemovesFree
  <1> QED BY <1>6, <1>9, <1>10, <1>11 DEF Quiet

\* Steps that end something and leave the lock where it is.
LEMMA QuietEnd ==
    ASSUME IInv, NEW p \in Pids, ~overlap',
           Quit(p) \/ Crash(p) \/ (Release(p) /\ kind = "worker")
    PROVE  Quiet'
  <1>0. TypeOK /\ Quiet /\ ~overlap /\ Born
    BY DEF IInv, Quit, Crash, Release
  <1>1. /\ robbed' = {} /\ kind' = kind /\ lock' = lock /\ saw' = saw
        /\ \A q \in Pids : Self(q)' = Self(q)
    BY <1>0 DEF Quit, Crash, Release, Self, Quiet
  <1>2. \A q \in Pids : q # p => pc'[q] = pc[q]
    BY <1>0 DEF Quit, Crash, Release, Goes, TypeOK
  <1>3. pc'[p] = "off" \/ (pc'[p] = "freeing" /\ pc[p] = "held")
    BY <1>0 DEF Quit, Crash, Release, Goes, TypeOK
  <1>4. Makers' \subseteq Makers /\ Holders' \subseteq Holders
    BY <1>2, <1>3 DEF Makers, Holders, Holding
  <1>5. OneAcquires' /\ RemovesFree'
    BY <1>0, <1>2, <1>3, <1>4 DEF OneAcquires, RemovesFree, Quiet, Acquiring
  <1>6. JudgesTheHolder' /\ HeldIsNamed' /\ NamedByMaker'
    BY <1>0, <1>1, <1>2, <1>3, <1>4 DEF JudgesTheHolder, HeldIsNamed, NamedByMaker, Quiet, Holders
  <1> QED BY <1>1, <1>5, <1>6 DEF Quiet

-----------------------------------------------------------------------------
LEMMA InitIInv == Init => IInv
  <1> SUFFICES ASSUME Init PROVE IInv
    OBVIOUS
  <1>1. TypeOK
    BY DEF Init, TypeOK, NoLock, Nobody, Holder, Acquiring, Holding
  <1>2. Makers = {} /\ Holders = {}
    BY DEF Init, Makers, Holders, Holding
  <1>3. Born /\ MakersOwn
    BY <1>2 DEF Init, Born, Alive, MakersOwn
  <1>4. Quiet
    BY <1>2 DEF Init, Quiet, OneAcquires, NamedByMaker, HeldIsNamed, JudgesTheHolder, RemovesFree, NoLock, Acquiring
  <1> QED BY <1>1, <1>3, <1>4 DEF IInv

LEMMA NextIInv == IInv /\ [Next]_vars => IInv'
  <1> SUFFICES ASSUME IInv, [Next]_vars PROVE IInv'
    OBVIOUS
  <1>1. TypeOK' /\ Born' /\ MakersOwn'
    BY TypeStep, BornStep, MakersStep DEF IInv
  <1>2. ASSUME ~overlap' PROVE Quiet'
    <2>1. CASE UNCHANGED vars
      BY <1>2, <2>1 DEF vars, IInv, Quiet, OneAcquires, NamedByMaker, HeldIsNamed, JudgesTheHolder, RemovesFree, Makers, Holders, Self
    <2>2. CASE Next
      BY <1>2, <2>2, QuietStart, QuietCreate, QuietWriteName, QuietLook, QuietJudge, QuietRemoval, QuietEnd DEF Next, Acquire
    <2> QED BY <2>1, <2>2
  <1> QED BY <1>1, <1>2 DEF IInv

\* The inductive invariant of the three locks.
THEOREM LocksInvariant == Spec => []IInv
  BY InitIInv, NextIInv, PTL DEF Spec

\* Rows, names and places keep their types.
THEOREM LocksTypeCorrect == Spec => []TypeOK
  <1>1. IInv => TypeOK
    BY DEF IInv
  <1> QED BY <1>1, LocksInvariant, PTL

\* A process that holds a lock owns what is on the disk, unless another
\* process removed it.
THEOREM LocksHolderOwns == Spec => []HolderOwnsTheLock
  <1>1. IInv => HolderOwnsTheLock
    BY DEF IInv, MakersOwn, Makers, Holders, HolderOwnsTheLock
  <1> QED BY <1>1, LocksInvariant, PTL

\* While acquisitions do not overlap, no lock has two holders, for any
\* number of processes, crashes and reused pids.
THEOREM LocksExclusiveAlone == Spec => []ExclusiveAlone
  <1>1. IInv => ExclusiveAlone
    <2> SUFFICES ASSUME IInv, ~overlap PROVE Cardinality(Holders) <= 1
      BY DEF ExclusiveAlone
    <2>1. \A p, q \in Holders : p = q
      BY OneMaker DEF Holders, Makers
    <2>2. CASE Holders = {}
      BY <2>2, FS_EmptySet
    <2>3. CASE Holders # {}
      <3>1. PICK p : p \in Holders
        BY <2>3
      <3>2. Holders = {p}
        BY <2>1, <3>1
      <3>3. Cardinality({p}) = 1
        BY FS_Singleton
      <3> QED BY <3>2, <3>3
    <2> QED BY <2>2, <2>3
  <1> QED BY <1>1, LocksInvariant, PTL

=============================================================================
