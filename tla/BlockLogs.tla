------------------------------ MODULE BlockLogs ------------------------------
(***************************************************************************)
(* The two implementations of BlockLog: MemLog, a log in memory, and       *)
(* BlockRing, a log over the blocks of a block set that are used again.    *)
(* Threads append and read; a block holds the thread's count of appends.   *)
(***************************************************************************)
EXTENDS Naturals, Sequences, FiniteSets

CONSTANTS
  Appender,     \* threads that append
  LogBlocks,    \* blocks of the MemLog, and of the ring's block set
  MaxAppends,   \* bound on appends
  Unset         \* None, and a thread or a lock that is free

ASSUME LogAssumption ==
  /\ LogBlocks \in Nat \ {0} /\ IsFiniteSet(Appender)
  /\ Unset \notin Appender \cup [pos : Nat, n : 1..2, v : Nat] \cup [pos : Nat, n : 1..2]

VARIABLES
  ring,         \* whether the log is a BlockRing
  blocks,       \* MemLog::log, or the ring's storage
  end,          \* append_pos, or cursor
  holder,       \* the thread that holds the lock of a MemLog
  call,         \* per thread its append: the position it loaded, its blocks and data
  written,      \* threads whose append to the ring has written its blocks
  started,      \* appends so far
  overlapped,   \* whether an append to the ring began while another one ran
  log,          \* appends that returned: [pos, n, v]
  reading       \* a read that passed its range check: [pos, n], or Unset

logVars == <<ring, blocks, end, holder, call, written, started, overlapped, log, reading>>

Block == 0..LogBlocks - 1

\* MemLog::create, and BlockRing::new with its set_cursor.
LogInit ==
  /\ ring \in BOOLEAN
  /\ blocks = [b \in Block |-> 0]
  /\ end \in IF ring THEN 0..LogBlocks ELSE {0}
  /\ holder = Unset /\ call = [a \in Appender |-> Unset] /\ written = {}
  /\ started = 0 /\ overlapped = FALSE /\ log = {} /\ reading = Unset

\* Blocks pos, pos + 1, ... of a block set are given the value v.
Stored(pos, n, v) == [b \in Block |-> IF b \in pos..pos + n - 1 THEN v ELSE blocks[b]]

\* Thread a appends n blocks where the log ends.
Begin(a, n) ==
  /\ call[a] = Unset /\ started < MaxAppends
  /\ call' = [call EXCEPT ![a] = [pos |-> end, n |-> n, v |-> started + 1]] /\ started' = started + 1

\* MemLog::append until its fetch_add, with the lock held; out of range it returns.
MemAppend(a, n) ==
  /\ ~ring /\ holder = Unset /\ end + n <= LogBlocks
  /\ Begin(a, n) /\ holder' = a /\ blocks' = Stored(end, n, started + 1)
  /\ UNCHANGED <<ring, end, written, overlapped, log, reading>>

MemAppendEnd(a) ==
  /\ ~ring /\ call[a] # Unset
  /\ end' = end + call[a].n /\ holder' = Unset
  /\ log' = log \cup {call[a]} /\ call' = [call EXCEPT ![a] = Unset]
  /\ UNCHANGED <<ring, blocks, written, started, overlapped, reading>>

\* MemLog::read: the range check, against append_pos.
ReadCheck(pos, n) ==
  /\ ~ring /\ reading = Unset /\ pos + n <= end
  /\ reading' = [pos |-> pos, n |-> n]
  /\ UNCHANGED <<ring, blocks, end, holder, call, written, started, overlapped, log>>

\* The rest of read, with the lock held.
ReadBlocks ==
  /\ reading # Unset /\ holder = Unset
  /\ reading' = Unset
  /\ UNCHANGED <<ring, blocks, end, holder, call, written, started, overlapped, log>>

\* BlockRing::append until it has its cursor, which it copies from under the lock.  Nothing
\* keeps another append from doing the same before this one moves the cursor.
RingCursor(a, n) ==
  /\ ring /\ Begin(a, n)
  /\ overlapped' = (overlapped \/ \E b \in Appender : call[b] # Unset)
  /\ UNCHANGED <<ring, blocks, end, holder, written, log, reading>>

\* The write, which fails when the blocks do not fit before the end of the storage.
RingWrite(a) ==
  /\ ring /\ call[a] # Unset /\ a \notin written
  /\ LET pos == call[a].pos % LogBlocks
     IN IF pos + call[a].n > LogBlocks
        THEN call' = [call EXCEPT ![a] = Unset] /\ UNCHANGED <<blocks, written>>
        ELSE /\ blocks' = Stored(pos, call[a].n, call[a].v) /\ written' = written \cup {a}
             /\ UNCHANGED call
  /\ UNCHANGED <<ring, end, holder, started, overlapped, log, reading>>

\* A slip: the new cursor is computed from the position in the storage.
RingSetCursorLap(a) ==
  /\ a \in written
  /\ end' = (call[a].pos % LogBlocks) + call[a].n
  /\ log' = log \cup {call[a]} /\ call' = [call EXCEPT ![a] = Unset] /\ written' = written \ {a}
  /\ UNCHANGED <<ring, blocks, holder, started, overlapped, reading>>

\* set_cursor, and append returns.
RingSetCursor(a) ==
  /\ a \in written
  /\ end' = call[a].pos + call[a].n
  /\ log' = log \cup {call[a]} /\ call' = [call EXCEPT ![a] = Unset] /\ written' = written \ {a}
  /\ UNCHANGED <<ring, blocks, holder, started, overlapped, reading>>

LogNext ==
  \/ \E a \in Appender :
       \/ MemAppendEnd(a) \/ RingWrite(a) \/ RingSetCursor(a)
       \/ \E n \in 1..2 : MemAppend(a, n) \/ RingCursor(a, n)
  \/ ReadBlocks
  \/ \E pos \in 0..LogBlocks, n \in 1..2 : ReadCheck(pos, n)

LogSpec == LogInit /\ [][LogNext]_logVars

-----------------------------------------------------------------------------
(* Properties *)

\* BlockLog's "concurrent appends are carried out as if they are done one by one": the ranges
\* that appends return are disjoint and end where the log ends.  A BlockRing breaks it when
\* two appends overlap: both take the same cursor.
AppendsSerial ==
  /\ \A c, d \in log : c # d => c.pos + c.n <= d.pos \/ d.pos + d.n <= c.pos
  /\ \A c \in log : c.pos + c.n <= end

\* What a log has room for reads back as it was appended, from a range of its own: in a MemLog
\* every block, however its appends overlap; in a ring whose appends did not overlap the
\* blocks at the last LogBlocks positions (read takes a position modulo the storage) that no
\* running append has overwritten.
AppendedReadable ==
  ~overlapped =>
    /\ AppendsSerial
    /\ \A c \in log : \A p \in c.pos..c.pos + c.n - 1 :
         /\ p + LogBlocks >= end
         /\ \A a \in written : p + LogBlocks >= call[a].pos + call[a].n
         => blocks[p % LogBlocks] = c.v

\* A read of a MemLog that passed its check gets blocks that were appended, whatever is
\* appended before it has the lock.
ReadsAppended ==
  reading # Unset =>
    \A p \in reading.pos..reading.pos + reading.n - 1 :
      \E c \in log : p \in c.pos..c.pos + c.n - 1 /\ blocks[p] = c.v
=============================================================================
