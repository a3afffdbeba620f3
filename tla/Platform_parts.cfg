\* Three bios and a stop at any time; four references; three threads at the lock; two
\* bios through the target; two encrypting tasks, one or both on a common handle; devices
\* of 16 and 33 sectors and a partition; three transactions of two threads; three
\* requests, two enqueuers, two dequeuers; two appenders; bitmaps of up to three words.
CONSTANTS
  Bios = {b1, b2, b3}
  Ref = {r1, r2, r3, r4}
  Thread = {t1, t2, t3}
  MaxData = 1
  BioSet = {b1, b2}
  BoxFails = TRUE
  IoFails = TRUE
  Task = {t1, t2}
  Keys = {k1, k2}
  NoKey = NoKey
  Plain <- MCPlain
  Common = Common
  CommonKind = "Aead"
  Users <- MCUsers
  Sectors = 2
  Geometry <- MCDevices
  Memory = FALSE
  NoSet = NoSet
  t1 = t1
  t2 = t2
  x1 = x1
  x2 = x2
  x3 = x3
  TxThread = {t1, t2}
  Tx = {x1, x2, x3}
  Item = {i1, i2}
  Owner <- MCOwner
  Handlers = 1
  NoTx = NoTx
  Req = {q1, q2, q3}
  Enqueuer = {e1, e2}
  Dequeuer = {d1, d2}
  NoReq = NoReq
  UsizeRange = 8
  Appender = {a1, a2}
  LogBlocks = 4
  MaxAppends = 4
  Unset = Unset
  WordBits = 3
  MaxBits = 7
  NoBit = NoBit
SPECIFICATION PlatformSpec
INVARIANTS InOrder StopsClean ArcAlive MemoryLife SemOfGuards StableUnderGuard
  TargetReleases BiosBalanced CryptsAsAsked NothingLeft PartsApart
  DbAtomic NoPanic  AppendedReadable SearchesExact
PROPERTY BiosEnd
CHECK_DEADLOCK FALSE
