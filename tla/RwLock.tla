------------------------------- MODULE RwLock -------------------------------
(***************************************************************************)
(* RwLock and Guard of linux/bindings: threads take a kernel rw_semaphore  *)
(* for reading or writing with one of seven functions, use the data, and   *)
(* drop, downgrade or lend the guard.  A step is one call of a semaphore   *)
(* function with what the wrapper makes of its result, or one access to    *)
(* the data.                                                               *)
(***************************************************************************)
EXTENDS Integers, FiniteSets

CONSTANTS
  Thread,
  MaxData    \* bound: how often the data is changed through either kind of guard

ASSUME ThreadFinite == IsFiniteSet(Thread)

VARIABLES
  sem,       \* the rw_semaphore: how many readers hold it, and whether a writer does
  waits,     \* per thread, the marker whose lock function it is blocked in, or "no"
  guard,     \* per thread, the kind of guard it has: none, Read or Write
  cell,      \* the data: how often it was changed through a guard of each kind
  seen       \* history: the data as the owner of a guard last read or wrote it

lockVars == <<sem, waits, guard, cell, seen>>

ReadMarkers  == {"Read", "TryRead", "ReadInterruptible", "ReadKillable"}
WriteMarkers == {"Write", "TryWrite", "WriteKillable"}
TryMarkers   == {"TryRead", "TryWrite"}
Markers      == ReadMarkers \cup WriteMarkers

Unchanged == [Read |-> 0, Write |-> 0]

LockInit ==
  /\ sem = [readers |-> 0, writer |-> FALSE]
  /\ waits = [t \in Thread |-> "no"] /\ guard = [t \in Thread |-> "none"]
  /\ cell = Unchanged /\ seen = [t \in Thread |-> Unchanged]

-----------------------------------------------------------------------------
(* The semaphore *)

Available(m) == ~sem.writer /\ (m \in WriteMarkers => sem.readers = 0)

Down(m) == IF m \in ReadMarkers THEN [readers |-> sem.readers + 1, writer |-> sem.writer]
                                ELSE [readers |-> sem.readers, writer |-> TRUE]

\* What a lock function returns when it got the semaphore, and when it did not; down_read
\* and down_write return nothing, and only when they have it.
Got(m)  == IF m \in TryMarkers THEN 1 ELSE 0
Fail(m) == IF m \in TryMarkers THEN 0 ELSE -4

-----------------------------------------------------------------------------
(* The wrapper *)

\* A slip: a trylock is taken to have succeeded when it returned 0.
AcquiredZero(m, val) == m \in {"Read", "Write"} \/ val = 0

\* When a lock function's result means that the lock is owned.
Acquired(m, val) ==
  \/ m \in {"Read", "Write"}
  \/ m \in TryMarkers /\ val = 1
  \/ m \in Markers \ (TryMarkers \cup {"Read", "Write"}) /\ val = 0

\* The guard made by into: of the lock functions of readers a Read guard.
Into(m) == IF m \in ReadMarkers THEN "Read" ELSE "Write"

Returns(t, m, val) ==
  /\ guard' = [guard EXCEPT ![t] = IF Acquired(m, val) THEN Into(m) ELSE "none"]
  /\ seen' = [seen EXCEPT ![t] = cell]
  /\ waits' = [waits EXCEPT ![t] = "no"]
  /\ UNCHANGED cell

\* A thread with no guard calls a blocking function.
Call(t, m) ==
  /\ guard[t] = "none" /\ waits[t] = "no" /\ m \notin TryMarkers
  /\ waits' = [waits EXCEPT ![t] = m]
  /\ UNCHANGED <<sem, guard, cell, seen>>

Granted(t) ==
  /\ waits[t] # "no" /\ Available(waits[t])
  /\ sem' = Down(waits[t]) /\ Returns(t, waits[t], Got(waits[t]))

\* A signal ends the wait of an interruptible or killable function.
Interrupted(t) ==
  /\ waits[t] \notin {"no", "Read", "Write"}
  /\ Returns(t, waits[t], Fail(waits[t]))
  /\ UNCHANGED sem

\* try_read and try_write; a trylock also fails when others wait.
Try(t, m) ==
  /\ guard[t] = "none" /\ waits[t] = "no" /\ m \in TryMarkers
  /\ \/ Available(m) /\ sem' = Down(m) /\ Returns(t, m, Got(m))
     \/ /\ ~Available(m) \/ \E u \in Thread : waits[u] # "no"
        /\ Returns(t, m, Fail(m))
        /\ UNCHANGED sem

\* unlock, as it is bound to the guard's marker: up_read or up_write.
Unlock(k) == IF k = "Read" THEN [readers |-> sem.readers - 1, writer |-> sem.writer]
                           ELSE [readers |-> sem.readers, writer |-> FALSE]

DropGuard(t) ==
  /\ guard[t] # "none"
  /\ sem' = Unlock(guard[t]) /\ guard' = [guard EXCEPT ![t] = "none"]
  /\ UNCHANGED <<waits, cell, seen>>

\* do_unlocked: unlock, the callback, and relock with the marker's lock function.
DoUnlocked(t) ==
  /\ guard[t] # "none"
  /\ sem' = Unlock(guard[t]) /\ waits' = [waits EXCEPT ![t] = guard[t]]
  /\ guard' = [guard EXCEPT ![t] = "none"]
  /\ UNCHANGED <<cell, seen>>

\* A slip: the write lock is given up, and taken again for reading.
DowngradeByUnlock(t) ==
  /\ guard[t] = "Write"
  /\ sem' = Unlock("Write") /\ guard' = [guard EXCEPT ![t] = "Read"]
  /\ UNCHANGED <<waits, cell, seen>>

DowngradeGuard(t) ==
  /\ guard[t] = "Write"
  /\ sem' = [readers |-> sem.readers + 1, writer |-> FALSE]
  /\ guard' = [guard EXCEPT ![t] = "Read"]
  /\ UNCHANGED <<waits, cell, seen>>

\* deref_mut: Guard has it whatever its backend, so the data changes through a Read
\* guard as well.
DerefMut(t) ==
  /\ guard[t] # "none" /\ cell[guard[t]] < MaxData
  /\ cell' = [cell EXCEPT ![guard[t]] = @ + 1]
  /\ seen' = [seen EXCEPT ![t] = cell']
  /\ UNCHANGED <<sem, waits, guard>>

LockNext ==
  \E t \in Thread :
    \/ \E m \in Markers : Call(t, m) \/ Try(t, m)
    \/ Granted(t) \/ Interrupted(t) \/ DropGuard(t) \/ DoUnlocked(t) \/ DowngradeGuard(t) \/ DerefMut(t)

LockSpec == LockInit /\ [][LockNext]_lockVars

-----------------------------------------------------------------------------
(* Properties *)

\* Every variable has its type.
LockTypeOK ==
  /\ sem \in [readers : Nat, writer : BOOLEAN]
  /\ waits \in [Thread -> Markers \cup {"no"}]
  /\ guard \in [Thread -> {"none", "Read", "Write"}]
  /\ cell \in [Read : Nat, Write : Nat] /\ seen \in [Thread -> [Read : Nat, Write : Nat]]

\* The semaphore is held exactly by the guards there are: a failed or interrupted call
\* leaves nothing locked, and each guard is released by the function of its kind.
SemOfGuards ==
  /\ sem.readers = Cardinality({t \in Thread : guard[t] = "Read"})
  /\ sem.writer <=> \E t \in Thread : guard[t] = "Write"

\* While a thread has a Write guard no other thread changes the data, and while it has a
\* Read guard, also one it got by downgrading ("Downgrade write lock to read lock"), the
\* data changes at most through another Read guard, which has a deref_mut too.
StableUnderGuard ==
  \A t \in Thread :
    /\ guard[t] = "Write" => seen[t] = cell
    /\ guard[t] = "Read" => seen[t].Write = cell.Write
=============================================================================
