------------------------ MODULE ProtectedFileProofs ------------------------
(***************************************************************************)
(* The update flag of a protected file, for every tree shape, cache size,  *)
(* journal size, number of I/O errors and choice of crash times.           *)
(***************************************************************************)
EXTENDS ProtectedFile, TLAPS

\* The fields of the records that a step changes one field of.
MetaShape == {"size", "data", "root", "node"} \subseteq DOMAIN meta
OpShape == {"kind", "pc"} \subseteq DOMAIN op
FlShape == fl \in [pc : FlushPcs, sync : BOOLEAN]

\* A flush of a file that needs writing sets the flag, and the metadata that
\* write_to_disk writes last clears it; if it fails in between, the status says so and
\* the file still needs writing, also while calls that do not look at the status go on.
FlagInv ==
  /\ MetaShape /\ OpShape /\ FlShape
  /\ meta.node.flag = 0
  /\ up # "up" => fl.pc = "none" /\ op = NoOp /\ status = "Ok"
  /\ fl.pc \in {"write_recovery_file", "set_update_flag"} => need_writing
  /\ up = "up" /\ host_meta.flag # 0 =>
       /\ need_writing /\ fl.pc \notin {"commit", "reset"}
       /\ \/ status # "Ok"
          \/ fl.pc \in {"update_nodes", "write_nodes", "write_metadata"}

USE DEF FlushPcs, NoOp, NoFlush

-----------------------------------------------------------------------------

\* A new file.
LEMMA InitFlag == Init => FlagInv
BY DEF Init, FlagInv, MetaShape, OpShape, FlShape, NewMeta, BlankMeta

\* The calls: write and read begin, flush, clear_cache and clear_error start
\* internal_flush or return at once.
LEMMA CallFlag == ASSUME FlagInv, Call PROVE FlagInv'
<1>1. ASSUME NEW kind \in {"write", "read"}, NEW offset, NEW n, NEW v,
             Begin(kind, offset, n, v)
      PROVE  FlagInv'
  BY <1>1 DEF Begin, Idle, Running, disks, FlagInv, MetaShape, OpShape, FlShape
<1>2. ASSUME NEW kind \in {"flush", "clear_cache", "clear_error"}, FlushCall(kind)
      PROVE  FlagInv'
  <2>1. CASE need_writing \/ status = "WriteToDiskFailed"
    <3>1. op' = [NoOp EXCEPT !.kind = kind, !.off = op.off] /\ status' = status /\ up' = up
          /\ meta' = meta /\ host_meta' = host_meta /\ up = "up" /\ fl.pc = "none"
          /\ need_writing' = need_writing
      BY <1>2, <2>1 DEF FlushCall, Idle, Running, disks
    <3>2. CASE status = "WriteToDiskFailed"
      <4>1. fl' = RetryFrom
        BY <1>2, <2>1, <3>2 DEF FlushCall
      <4> QED BY <3>1, <3>2, <4>1 DEF RetryFrom, FlagInv, MetaShape, OpShape, FlShape
    <3>3. CASE status # "WriteToDiskFailed"
      <4>1. fl' = FlushFrom(TRUE)
        BY <1>2, <2>1, <3>3 DEF FlushCall
      <4> QED BY <2>1, <3>1, <3>3, <4>1 DEF FlushFrom, FlagInv, MetaShape, OpShape, FlShape
    <3> QED BY <3>2, <3>3
  <2>2. CASE ~(need_writing \/ status = "WriteToDiskFailed")
    BY <1>2, <2>2 DEF FlushCall, Return, Idle, Running, disks, FlagInv, MetaShape,
                      OpShape, FlShape
  <2> QED BY <2>1, <2>2
<1> QED BY <1>1, <1>2 DEF Call, BeginWrite, BeginRead, Flush, ClearCache, ClearError

\* write and read, up to internal_flush: the flag, the status and the flush are left
\* alone, and shrink_cache flushes a file that needs writing.
LEMMA AccessFlag ==
  ASSUME FlagInv,
         \/ MetadataPart \/ GetDataNode \/ GetDataNodePresent
         \/ \E k \in 1..MaxSize : GetDataNodeReadError(k)
         \/ PopBack \/ FlushToEvict \/ GiveUp \/ CopyIn \/ CopyOut
  PROVE  FlagInv'
<1> USE DEF FlagInv, MetaShape, OpShape, FlShape, disks, Running
<1>1. CASE MetadataPart
  BY <1>1 DEF MetadataPart, Advance, Ended
<1>2. CASE GetDataNode
  BY <1>2 DEF GetDataNode, Fetching
<1>3. CASE GetDataNodePresent
  BY <1>3 DEF GetDataNodePresent, Fetching
<1>4. CASE \E k \in 1..MaxSize : GetDataNodeReadError(k)
  BY <1>4 DEF GetDataNodeReadError, Fetching
<1>5. CASE PopBack
  BY <1>5 DEF PopBack, Shrinking
<1>6. CASE FlushToEvict
  BY <1>6 DEF FlushToEvict, Shrinking, FlushFrom
<1>7. CASE GiveUp
  BY <1>7 DEF GiveUp, Shrinking, Ended
<1>8. CASE CopyIn
  BY <1>8 DEF CopyIn, Shrinking, Advance, Ended
<1>9. CASE CopyOut
  BY <1>9 DEF CopyOut, Shrinking, Advance, Ended
<1> QED BY <1>1, <1>2, <1>3, <1>4, <1>5, <1>6, <1>7, <1>8, <1>9

\* internal_flush: set_update_flag sets the flag, the metadata write_to_disk writes
\* last has it clear, and a failure in between leaves a status to retry from.
LEMMA FlushFlag ==
  ASSUME FlagInv,
         \/ WriteRecoveryFile \/ SetUpdateFlag \/ UpdateNodes \/ UpdateMetadata
         \/ WriteNode \/ WriteMetadata \/ CommitJournal \/ ResetJournal \/ FlushError
  PROVE  FlagInv'
<1> USE DEF FlagInv, MetaShape, OpShape, FlShape, disks, Flushing, FlushTo
<1>1. CASE WriteRecoveryFile
  BY <1>1 DEF WriteRecoveryFile
<1>2. CASE SetUpdateFlag
  BY <1>2 DEF SetUpdateFlag
<1>3. CASE UpdateNodes
  BY <1>3 DEF UpdateNodes, EncryptMeta
<1>4. CASE UpdateMetadata
  BY <1>4 DEF UpdateMetadata, EncryptMeta
<1>5. CASE WriteNode
  BY <1>5 DEF WriteNode
<1>6. CASE WriteMetadata
  <2>1. host_meta' = meta.node /\ UNCHANGED <<up, meta, status, op>> /\ up = "up"
    BY <1>6 DEF WriteMetadata
  <2>2. fl' = [fl EXCEPT !.pc = "commit"] \/ fl' = NoFlush
    BY <1>6 DEF WriteMetadata
  <2>3. CASE fl' = [fl EXCEPT !.pc = "commit"]
    BY <2>1, <2>3
  <2>4. CASE fl' = NoFlush
    BY <2>1, <2>4
  <2> QED BY <2>2, <2>3, <2>4
<1>7. CASE CommitJournal
  BY <1>7 DEF CommitJournal
<1>8. CASE ResetJournal
  BY <1>8 DEF ResetJournal, Return
<1>9. CASE FlushError
  <2>1. PICK pc \in FlushPcs, n \in 1..2 :
           up = "up" /\ fl.pc = pc /\ status' = RetryStatus(pc) /\ FailedDisks(pc, n)
    BY <1>9 DEF FlushError
  <2>2. fl' = NoFlush /\ UNCHANGED <<up, meta, need_writing>>
        /\ \E offset : op' = [NoOp EXCEPT !.off = offset]
    BY <1>9 DEF FlushError
  <2>3. status' # "Ok"
    BY <2>1 DEF RetryStatus
  <2>4. pc = "set_update_flag" \/ UNCHANGED host_meta
    BY <2>1 DEF FailedDisks
  <2> QED BY <2>1, <2>2, <2>3, <2>4
<1> QED BY <1>1, <1>2, <1>3, <1>4, <1>5, <1>6, <1>7, <1>8, <1>9

\* A crash leaves no call behind, and open accepts a file with a clear flag only,
\* also after recovery.
LEMMA OpenFlag == ASSUME FlagInv, Crash \/ Open PROVE FlagInv'
<1> USE DEF FlagInv, MetaShape, OpShape, FlShape
<1>1. CASE Crash
  BY <1>1 DEF Crash, Vacant, NewMeta, BlankMeta
<1>2. CASE Open
  <2>1. /\ up = "down" /\ UNCHANGED <<status, op, fl>>
        /\ \/ up' = "up" /\ meta' = OpenedMeta(Recovery.meta) /\ Recovery.meta.flag = 0
              /\ host_meta' = Recovery.meta
           \/ up' = "failed" /\ UNCHANGED meta
    BY <1>2 DEF Open, Openable
  <2> QED BY <2>1 DEF OpenedMeta
<1> QED BY <1>1, <1>2

-----------------------------------------------------------------------------

\* The update flag on the disk is clear whenever the file is in order and no flush
\* is running, whatever I/O errors and crashes came before: such a file can be
\* opened as far as its flag goes.
THEOREM UpdateFlagClear == Spec => []FlagClear
<1>1. FlagInv /\ [Next]_vars => FlagInv'
  <2> SUFFICES ASSUME FlagInv, [Next]_vars PROVE FlagInv'
    OBVIOUS
  <2>1. CASE UNCHANGED vars
    BY <2>1 DEF vars, core, disks, FlagInv, MetaShape, OpShape, FlShape
  <2>2. CASE Call \/ Step \/ Crash \/ Open
    BY <2>2, CallFlag, AccessFlag, FlushFlag, OpenFlag DEF Step
  <2> QED BY <2>1, <2>2 DEF Next
<1>2. FlagInv => FlagClear
  BY DEF FlagInv, FlagClear
<1> QED BY <1>1, <1>2, InitFlag, PTL DEF Spec
=============================================================================
