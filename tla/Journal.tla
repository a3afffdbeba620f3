------------------------------- MODULE Journal -------------------------------
(***************************************************************************)
(* RecoveryJournal over RawJournal over BlockSet::write_slice: how undo    *)
(* records become bytes of the journal's blocks, block by block, and what  *)
(* recovery reads there after a crash between any two blocks.  A cell      *)
(* stands for a run of bytes: a flag, the length word, or a part of a      *)
(* record.  ProtectedFile takes the journal for a sequence of records.     *)
(***************************************************************************)
EXTENDS Naturals, Sequences, SequencesExt, TLC

CONSTANTS
  BlockCells,   \* BLOCK_SIZE
  RecordCells,  \* RECOVERY_NODE_SIZE, more than a block
  BufCells,     \* DEFAULT_BUF_SIZE
  NBlocks,      \* blocks of the journal's disk
  MaxRecords,   \* bound on records
  MaxErrors     \* bound on write errors of the device

ASSUME JournalAssumption ==
  /\ {BlockCells, RecordCells, BufCells, NBlocks} \subseteq Nat \ {0}
  /\ {MaxRecords, MaxErrors} \subseteq Nat

VARIABLES
  cells,        \* the disk
  jbuf,         \* RawJournal::buf
  flush_pos,    \* RawJournal::flush_pos
  chunks,       \* what the running call still passes to RawJournal::append
  jstep,        \* where the running call is
  pending,      \* blocks that the running device write has still to write
  appended,     \* all cells appended since the journal was created or reset
  flushed,      \* how many of them a flush that returned covers
  log_owner,    \* whose log is on disk: "this" session's, an "old" one, or "none" since
                \* a flush failed
  made,         \* records made so far
  errs          \* write errors so far

session == <<appended, flushed, log_owner, made, errs>>
jVars == <<cells, jbuf, flush_pos, chunks, jstep, pending, session>>

INNER_OFFSET == BlockCells

\* RecoveryJournal::create on a disk of zeros.
JInit ==
  /\ cells = [p \in 0..NBlocks * BlockCells - 1 |-> 0]
  /\ jbuf = <<>> /\ flush_pos = INNER_OFFSET /\ chunks = <<>> /\ jstep = "idle"
  /\ pending = <<>> /\ appended = <<>> /\ flushed = 0 /\ log_owner = "this"
  /\ made = 0 /\ errs = 0

-----------------------------------------------------------------------------
(* BlockSet::write_slice *)

EndPos(offset, len) == (offset + len + BlockCells - 1) \div BlockCells

\* In range; the block after the last one is read when the last one is written in part.
SliceFits(offset, data) ==
  LET end == EndPos(offset, Len(data))
  IN IF (offset + Len(data)) % BlockCells = 0 THEN end <= NBlocks ELSE end < NBlocks

\* The blocks it writes: around the data, the start of the first block as it was, and the
\* end of the block after the last one.
SliceBlocks(offset, data) ==
  [b \in offset \div BlockCells..EndPos(offset, Len(data)) - 1 |->
     [p \in b * BlockCells..(b + 1) * BlockCells - 1 |->
        IF p < offset THEN cells[p]
        ELSE IF p < offset + Len(data) THEN data[p - offset + 1] ELSE cells[p + BlockCells]]]

\* The device writes one of the blocks.
WriteBlock ==
  \E b \in DOMAIN pending :
    /\ cells' = [p \in DOMAIN cells |-> IF p \in DOMAIN pending[b] THEN pending[b][p] ELSE cells[p]]
    /\ pending' = [c \in DOMAIN pending \ {b} |-> pending[c]]
    /\ UNCHANGED <<jbuf, flush_pos, chunks, jstep, session>>

\* The device reports an error; the `?` of flush or reset returns it.
WriteError ==
  /\ pending # <<>> /\ errs < MaxErrors
  /\ pending' = <<>> /\ chunks' = <<>> /\ jstep' = "idle" /\ errs' = errs + 1
  /\ IF jstep = "reset" THEN appended' = <<>> /\ flushed' = 0 /\ log_owner' = "old"
     ELSE log_owner' = "none" /\ UNCHANGED <<appended, flushed>>
  /\ UNCHANGED <<cells, jbuf, flush_pos, made>>

-----------------------------------------------------------------------------
(* Calls *)

Idle == jstep = "idle" /\ chunks = <<>>

\* A bound: past the end of the disk every flush fails and moves flush_pos further.
InRange == flush_pos <= NBlocks * BlockCells

\* RecoveryJournal::append: a flag and a record.
JAppend ==
  /\ Idle /\ InRange /\ made < MaxRecords
  /\ chunks' = <<<<0>>, [i \in 1..RecordCells |-> made + 2]>> /\ made' = made + 1
  /\ UNCHANGED <<cells, jbuf, flush_pos, jstep, pending, appended, flushed, log_owner, errs>>

\* RecoveryJournal::commit.
JCommit ==
  /\ Idle /\ InRange /\ appended # <<>> /\ Last(appended) # 1
  /\ chunks' = <<<<1>>>>
  /\ UNCHANGED <<cells, jbuf, flush_pos, jstep, pending, session>>

\* RawJournal::append: a full buffer is flushed.
RawAppend ==
  /\ jstep = "idle" /\ chunks # <<>>
  /\ jbuf' = jbuf \o Head(chunks) /\ appended' = appended \o Head(chunks)
  /\ chunks' = Tail(chunks)
  /\ jstep' = IF Len(jbuf') >= BufCells THEN "flush" ELSE "idle"
  /\ UNCHANGED <<cells, flush_pos, pending, flushed, log_owner, made, errs>>

JFlush ==
  /\ Idle /\ InRange /\ jstep' = "flush"
  /\ UNCHANGED <<cells, jbuf, flush_pos, chunks, pending, session>>

\* flush: flush_pos is moved on, and the buffer is written where it was.
FlushBuf ==
  /\ jstep = "flush"
  /\ flush_pos' = flush_pos + Len(jbuf)
  /\ IF jbuf = <<>> \/ SliceFits(flush_pos, jbuf)
     THEN /\ pending' = IF jbuf = <<>> THEN <<>> ELSE SliceBlocks(flush_pos, jbuf)
          /\ jstep' = "data" /\ UNCHANGED <<chunks, log_owner>>
     ELSE jstep' = "idle" /\ chunks' = <<>> /\ log_owner' = "none" /\ UNCHANGED pending
  /\ UNCHANGED <<cells, jbuf, appended, flushed, made, errs>>

\* A slip: the length is written first.
FlushMetaFirst ==
  /\ jstep = "data"
  /\ pending' = SliceBlocks(0, <<flush_pos>>) @@ pending /\ jstep' = "meta"
  /\ UNCHANGED <<cells, jbuf, flush_pos, chunks, session>>

\* The length word, once the buffer is written.
FlushMeta ==
  /\ jstep = "data" /\ pending = <<>>
  /\ pending' = SliceBlocks(0, <<flush_pos>>) /\ jstep' = "meta"
  /\ UNCHANGED <<cells, jbuf, flush_pos, chunks, session>>

FlushDone ==
  /\ jstep = "meta" /\ pending = <<>>
  /\ jbuf' = <<>> /\ jstep' = "idle" /\ flushed' = Len(appended)
  /\ log_owner' = IF log_owner = "old" THEN "this" ELSE log_owner
  /\ UNCHANGED <<cells, flush_pos, chunks, pending, appended, made, errs>>

JReset ==
  /\ Idle
  /\ jbuf' = <<>> /\ flush_pos' = INNER_OFFSET
  /\ pending' = SliceBlocks(0, <<INNER_OFFSET>>) /\ jstep' = "reset"
  /\ UNCHANGED <<cells, chunks, session>>

ResetDone ==
  /\ jstep = "reset" /\ pending = <<>>
  /\ jstep' = "idle" /\ appended' = <<>> /\ flushed' = 0 /\ log_owner' = "this"
  /\ UNCHANGED <<cells, jbuf, flush_pos, chunks, pending, made, errs>>

-----------------------------------------------------------------------------
(* A crash, and recovery when the file is opened again *)

\* RawJournal::size.
Sized == cells[0] >= INNER_OFFSET

\* RawJournal::read of the whole log.
LogOnDisk == [i \in 1..cells[0] - INNER_OFFSET |-> cells[INNER_OFFSET + i - 1]]

\* recovery's loops over a log: what is at each flag.  The second stops at a short record.
Parse(log) ==
  LET from[o \in 1..Len(log) + 1] ==
        IF o = Len(log) + 1 THEN <<>>
        ELSE CASE log[o] = 1 -> <<"commit">> \o from[o + 1]
               [] log[o] = 0 -> IF o + RecordCells > Len(log) THEN <<>>
                                ELSE <<SubSeq(log, o + 1, o + RecordCells)>> \o from[o + RecordCells + 1]
               [] OTHER -> <<"invalid">>
  IN from[1]

\* The records are written back, the journal is created anew and its disk stays as it is.
Reopen ==
  /\ Sized
  /\ jbuf' = <<>> /\ flush_pos' = INNER_OFFSET /\ chunks' = <<>> /\ jstep' = "idle"
  /\ pending' = <<>> /\ appended' = <<>> /\ flushed' = 0 /\ log_owner' = "old"
  /\ UNCHANGED <<cells, made, errs>>

JNext ==
  \/ WriteBlock \/ WriteError \/ JAppend \/ JCommit \/ RawAppend \/ JFlush \/ FlushBuf
  \/ FlushMeta \/ FlushDone \/ JReset \/ ResetDone \/ Reopen

JSpec == JInit /\ [][JNext]_jVars

-----------------------------------------------------------------------------
(* Properties *)

\* Whenever the machine stops, the log on disk is what the session appended, cut off not
\* before the last flush that returned; a reset that runs leaves it or empties it.  So it
\* is from the session's first flush or reset on, until a flush fails.
LogIsPrefix ==
  log_owner = "this" /\ Sized =>
    \/ IsPrefix(LogOnDisk, appended) /\ Len(LogOnDisk) >= flushed
    \/ jstep = "reset" /\ LogOnDisk = <<>>

\* recovery never meets a byte that is no flag where it expects one, which
\* `unreachable!("invalid journal flag, data corruption")` rules out.
FlagsValid == Sized => ~Contains(Parse(LogOnDisk), "invalid")
=============================================================================
