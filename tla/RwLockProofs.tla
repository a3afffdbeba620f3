---------------------------- MODULE RwLockProofs ----------------------------
(***************************************************************************)
(* The guards of a RwLock and the kernel's semaphore agree, and under a    *)
(* guard no other thread changes the data, Read guards among themselves    *)
(* excepted, whatever threads there are.                                   *)
(***************************************************************************)
EXTENDS RwLock, FiniteSetTheorems, TLAPS

\* The guards exclude each other as those of a reader-writer lock do, and a thread that
\* waits has none.  With it SemOfGuards and StableUnderGuard are inductive: who gets the
\* semaphore finds in its counts that nobody has a guard in the way.
Exclusive ==
  /\ \A t, u \in Thread : guard[t] = "Write" /\ guard[u] # "none" => t = u
  /\ \A t \in Thread : waits[t] # "no" => guard[t] = "none"

LInv == LockTypeOK /\ SemOfGuards /\ Exclusive /\ StableUnderGuard

ReadersOf(g) == {t \in Thread : g[t] = "Read"}

\* How the number of readers changes with one guard.
LEMMA ReadersCount ==
  ASSUME NEW g \in [Thread -> {"none", "Read", "Write"}], NEW t \in Thread,
         NEW k \in {"none", "Read", "Write"}
  PROVE  LET h == [g EXCEPT ![t] = k]
         IN /\ Cardinality(ReadersOf(g)) \in Nat
            /\ (g[t] = "Read") = (k = "Read") => Cardinality(ReadersOf(h)) = Cardinality(ReadersOf(g))
            /\ g[t] # "Read" /\ k = "Read" => Cardinality(ReadersOf(h)) = Cardinality(ReadersOf(g)) + 1
            /\ g[t] = "Read" /\ k # "Read" => Cardinality(ReadersOf(h)) = Cardinality(ReadersOf(g)) - 1
<1> DEFINE h == [g EXCEPT ![t] = k]
<1>1. IsFiniteSet(ReadersOf(g))
  BY ThreadFinite, FS_Subset DEF ReadersOf
<1>2. Cardinality(ReadersOf(g)) \in Nat
  BY <1>1, FS_CardinalityType
<1>3. (g[t] = "Read") = (k = "Read") => ReadersOf(h) = ReadersOf(g)
  BY DEF ReadersOf
<1>4. ASSUME g[t] # "Read", k = "Read"
      PROVE  Cardinality(ReadersOf(h)) = Cardinality(ReadersOf(g)) + 1
  <2>1. ReadersOf(h) = ReadersOf(g) \cup {t} /\ t \notin ReadersOf(g)
    BY <1>4 DEF ReadersOf
  <2> QED BY <2>1, <1>1, FS_AddElement
<1>5. ASSUME g[t] = "Read", k # "Read"
      PROVE  Cardinality(ReadersOf(h)) = Cardinality(ReadersOf(g)) - 1
  <2>1. ReadersOf(h) = ReadersOf(g) \ {t} /\ t \in ReadersOf(g)
    BY <1>5 DEF ReadersOf
  <2> QED BY <2>1, <1>1, FS_RemoveElement
<1> QED BY <1>2, <1>3, <1>4, <1>5

\* With no reader counted there is no Read guard.
LEMMA NoReaders ==
  ASSUME NEW g \in [Thread -> {"none", "Read", "Write"}], Cardinality(ReadersOf(g)) = 0
  PROVE  \A t \in Thread : g[t] # "Read"
<1>1. IsFiniteSet(ReadersOf(g))
  BY ThreadFinite, FS_Subset DEF ReadersOf
<1>2. ReadersOf(g) = {}
  BY <1>1, FS_EmptySet
<1> QED BY <1>2 DEF ReadersOf

\* A new lock has no guards.
LEMMA LockStarts == LockInit => LInv
<1> SUFFICES ASSUME LockInit PROVE LInv
  OBVIOUS
<1>1. {t \in Thread : guard[t] = "Read"} = {}
  BY DEF LockInit
<1>2. SemOfGuards
  BY <1>1, FS_EmptySet DEF SemOfGuards, LockInit
<1>3. LockTypeOK
  BY DEF LockTypeOK, LockInit, Unchanged
<1> QED BY <1>2, <1>3 DEF LInv, LockInit, Exclusive, StableUnderGuard

\* The semaphore is got with a marker: the new guard fits the ones there are.
LEMMA LockGot ==
  ASSUME LInv, NEW t \in Thread, NEW m \in Markers, guard[t] = "none", Available(m),
         sem' = Down(m), Returns(t, m, Got(m))
  PROVE  LInv'
<1> USE DEF LInv, LockTypeOK, Markers, ReadMarkers, WriteMarkers, TryMarkers
<1>1. Acquired(m, Got(m))
  BY DEF Acquired, Got
<1>2. /\ guard' = [guard EXCEPT ![t] = Into(m)] /\ Into(m) \in {"Read", "Write"}
      /\ (Into(m) = "Read") = (m \in ReadMarkers)
  BY <1>1 DEF Returns, Into
<1>3. LockTypeOK'
  BY <1>2 DEF Returns, Down
<1>4. ~sem.writer /\ (Into(m) = "Write" => sem.readers = 0)
  BY <1>2 DEF Available
<1>5. \A u \in Thread : guard[u] # "Write"
  BY <1>4 DEF SemOfGuards
<1>6. Into(m) = "Write" => \A u \in Thread : guard[u] = "none"
  BY <1>4, <1>5, NoReaders DEF SemOfGuards, ReadersOf
<1>7. SemOfGuards'
  <2>1. sem'.readers = Cardinality(ReadersOf(guard'))
    <3>1. sem.readers = Cardinality(ReadersOf(guard))
      BY DEF SemOfGuards, ReadersOf
    <3>2. sem'.readers = IF Into(m) = "Read" THEN sem.readers + 1 ELSE sem.readers
      BY <1>2 DEF Down
    <3>3. CASE Into(m) = "Read"
      <4>1. Cardinality(ReadersOf([guard EXCEPT ![t] = "Read"])) = Cardinality(ReadersOf(guard)) + 1
        BY ReadersCount
      <4>2. guard' = [guard EXCEPT ![t] = "Read"]
        BY <1>2, <3>3
      <4> QED BY <4>1, <4>2, <3>1, <3>2, <3>3
    <3>4. CASE Into(m) = "Write"
      <4>1. Cardinality(ReadersOf([guard EXCEPT ![t] = "Write"])) = Cardinality(ReadersOf(guard))
        BY ReadersCount
      <4>2. guard' = [guard EXCEPT ![t] = "Write"]
        BY <1>2, <3>4
      <4> QED BY <4>1, <4>2, <3>1, <3>2, <3>4
    <3> QED BY <1>2, <3>3, <3>4
  <2>2. sem'.writer <=> Into(m) = "Write"
    BY <1>2, <1>4 DEF Down
  <2>3. (\E u \in Thread : guard'[u] = "Write") <=> Into(m) = "Write"
    BY <1>2, <1>5
  <2> QED BY <2>1, <2>2, <2>3 DEF SemOfGuards, ReadersOf
<1>8. Exclusive'
  BY <1>2, <1>5, <1>6 DEF Exclusive, Returns
<1>9. StableUnderGuard'
  BY <1>2 DEF StableUnderGuard, Returns
<1> QED BY <1>3, <1>7, <1>8, <1>9

\* A call that fails leaves its thread without a guard, as it was.
LEMMA LockFailed ==
  ASSUME LInv, NEW t \in Thread, NEW m \in Markers \ {"Read", "Write"}, guard[t] = "none",
         UNCHANGED sem, Returns(t, m, Fail(m))
  PROVE  LInv'
<1> USE DEF LInv, LockTypeOK
<1>1. ~Acquired(m, Fail(m))
  BY DEF Acquired, Fail, TryMarkers
<1>2. guard' = guard
  BY <1>1 DEF Returns
<1>3. LockTypeOK'
  BY <1>2 DEF Returns
<1>4. SemOfGuards'
  BY <1>2 DEF SemOfGuards
<1> QED BY <1>2, <1>3, <1>4 DEF Exclusive, StableUnderGuard, Returns

\* Giving a guard up takes it out of the semaphore.
LEMMA GuardGone ==
  ASSUME LInv, NEW t \in Thread, guard[t] # "none", sem' = Unlock(guard[t]),
         guard' = [guard EXCEPT ![t] = "none"]
  PROVE  SemOfGuards' /\ sem' \in [readers : Nat, writer : BOOLEAN]
<1> USE DEF LInv, LockTypeOK
<1>1. sem.readers = Cardinality(ReadersOf(guard))
  BY DEF SemOfGuards, ReadersOf
<1>2. sem'.readers = IF guard[t] = "Read" THEN sem.readers - 1 ELSE sem.readers
  BY DEF Unlock
<1>3. sem'.readers = Cardinality(ReadersOf(guard'))
  <2>1. CASE guard[t] = "Read"
    <3>1. Cardinality(ReadersOf(guard')) = Cardinality(ReadersOf(guard)) - 1
      BY <2>1, ReadersCount
    <3> QED BY <2>1, <3>1, <1>1, <1>2
  <2>2. CASE guard[t] # "Read"
    <3>1. Cardinality(ReadersOf(guard')) = Cardinality(ReadersOf(guard))
      BY <2>2, ReadersCount
    <3> QED BY <2>2, <3>1, <1>1, <1>2
  <2> QED BY <2>1, <2>2
<1>4. sem'.readers \in Nat
  <2>1. guard' \in [Thread -> {"none", "Read", "Write"}]
    OBVIOUS
  <2> QED BY <2>1, <1>3, ReadersCount
<1>5. sem' \in [readers : Nat, writer : BOOLEAN]
  BY <1>2, <1>4 DEF Unlock
<1>6. sem'.writer <=> \E u \in Thread : guard'[u] = "Write"
  <2>1. CASE guard[t] = "Read"
    BY <2>1 DEF Unlock, SemOfGuards
  <2>2. CASE guard[t] = "Write"
    BY <2>2 DEF Unlock, Exclusive
  <2> QED BY <2>1, <2>2
<1> QED BY <1>3, <1>5, <1>6 DEF SemOfGuards, ReadersOf

\* Every call of every thread keeps the invariant.
LEMMA LockStep == LInv /\ [LockNext]_lockVars => LInv'
<1> SUFFICES ASSUME LInv, [LockNext]_lockVars PROVE LInv'
  OBVIOUS
<1>1. ASSUME NEW t \in Thread, NEW m \in Markers, Call(t, m) PROVE LInv'
  <2>1. LockTypeOK'
    BY <1>1 DEF Call, LInv, LockTypeOK
  <2> QED BY <2>1, <1>1 DEF Call, LInv, LockTypeOK, SemOfGuards, Exclusive, StableUnderGuard
<1>2. ASSUME NEW t \in Thread, NEW m \in Markers, Try(t, m) PROVE LInv'
  BY <1>2, LockGot, LockFailed DEF Try, TryMarkers
<1>3. ASSUME NEW t \in Thread, Granted(t) PROVE LInv'
  BY <1>3, LockGot DEF Granted, LInv, LockTypeOK, Exclusive
<1>4. ASSUME NEW t \in Thread, Interrupted(t) PROVE LInv'
  BY <1>4, LockFailed DEF Interrupted, LInv, LockTypeOK, Exclusive
<1>5. ASSUME NEW t \in Thread, DropGuard(t) PROVE LInv'
  <2>1. SemOfGuards' /\ sem' \in [readers : Nat, writer : BOOLEAN]
    BY <1>5, GuardGone DEF DropGuard
  <2> QED BY <2>1, <1>5 DEF DropGuard, LInv, LockTypeOK, Exclusive, StableUnderGuard
<1>6. ASSUME NEW t \in Thread, DoUnlocked(t) PROVE LInv'
  <2>1. SemOfGuards' /\ sem' \in [readers : Nat, writer : BOOLEAN]
    BY <1>6, GuardGone DEF DoUnlocked
  <2>2. waits' \in [Thread -> Markers \cup {"no"}]
    BY <1>6 DEF DoUnlocked, LInv, LockTypeOK, Markers, ReadMarkers, WriteMarkers
  <2> QED BY <2>1, <2>2, <1>6 DEF DoUnlocked, LInv, LockTypeOK, Exclusive, StableUnderGuard
<1>7. ASSUME NEW t \in Thread, DowngradeGuard(t) PROVE LInv'
  <2>1. sem.readers = Cardinality(ReadersOf(guard)) /\ sem.readers \in Nat
    BY DEF LInv, LockTypeOK, SemOfGuards, ReadersOf
  <2>2. sem'.readers = Cardinality(ReadersOf(guard'))
    BY <2>1, <1>7, ReadersCount DEF DowngradeGuard, LInv, LockTypeOK
  <2>3. ~sem'.writer /\ \A u \in Thread : guard'[u] # "Write"
    BY <1>7 DEF DowngradeGuard, LInv, LockTypeOK, Exclusive
  <2>4. SemOfGuards'
    BY <2>2, <2>3 DEF SemOfGuards, ReadersOf
  <2>5. LockTypeOK'
    BY <1>7, <2>1 DEF DowngradeGuard, LInv, LockTypeOK
  <2> QED BY <2>3, <2>4, <2>5, <1>7 DEF DowngradeGuard, LInv, LockTypeOK, Exclusive, StableUnderGuard
<1>8. ASSUME NEW t \in Thread, DerefMut(t) PROVE LInv'
  <2>1. LockTypeOK'
    BY <1>8 DEF DerefMut, LInv, LockTypeOK
  <2>2. StableUnderGuard'
    BY <1>8 DEF DerefMut, LInv, LockTypeOK, Exclusive, StableUnderGuard
  <2> QED BY <2>1, <2>2, <1>8 DEF DerefMut, LInv, SemOfGuards, Exclusive
<1>9. CASE UNCHANGED lockVars
  <2>1. LockTypeOK'
    BY <1>9 DEF lockVars, LInv, LockTypeOK
  <2> QED BY <2>1, <1>9 DEF lockVars, LInv, SemOfGuards, Exclusive, StableUnderGuard
<1> QED BY <1>1, <1>2, <1>3, <1>4, <1>5, <1>6, <1>7, <1>8, <1>9 DEF LockNext

\* However many threads take, try, interrupt, lend, downgrade and drop guards (lock.rs,
\* rwlock.rs), the semaphore is held exactly by the guards there are.
THEOREM SemaphoreMatchesGuards == LockSpec => []SemOfGuards
<1>1. LInv => SemOfGuards
  BY DEF LInv
<1> QED BY <1>1, LockStarts, LockStep, PTL DEF LockSpec

\* The owner of a Write guard sees the data as it left it, and the owner of a Read guard,
\* also after a downgrade, sees no change made through a Write guard.
THEOREM DataStable == LockSpec => []StableUnderGuard
<1>1. LInv => StableUnderGuard
  BY DEF LInv
<1> QED BY <1>1, LockStarts, LockStep, PTL DEF LockSpec

=============================================================================
