---------------------------- MODULE ProtectedFile ----------------------------
(***************************************************************************)
(* FileInner: a protected file over a block device, with its LRU node      *)
(* cache, its Merkle hash tree and its undo journal.                       *)
(*                                                                         *)
(* Cells stand for bytes.  A ciphertext is the plaintext together with the *)
(* version of the random key it was encrypted under; the GCM data (key and *)
(* MAC) an MHT node keeps for a child is that version, and 0 where it      *)
(* keeps none.  Decryption succeeds when the versions agree.  An MHT       *)
(* plaintext is indexed by the child's physical number.                    *)
(*                                                                         *)
(* A call runs alone (the file is behind a mutex), in steps that end where *)
(* the code writes to a disk, so that a crash can fall between any two     *)
(* writes.  A write reaches the disk when it is issued.                    *)
(***************************************************************************)
EXTENDS NodeLayout, FiniteSets, Sequences, SequencesExt

CONSTANTS
  Value, Zero,      \* what a cell holds; what a fresh cell holds
  MaxSize,          \* bound: the most cells a file may have
  MaxCachePage,     \* max_cache_page
  JournalBuf,       \* records in the journal's buffer when it flushes itself
  MaxEnc,           \* bound: no write or read begins after this many update_nodes
  MaxFaults,        \* bound: steps that an I/O error ends, in a behaviour
  CrashPhase        \* when a crash may come: subset of Phases

Phases == {"idle", "call", "evict", "sync", "commit"}

ASSUME FileAssumption ==
  /\ Zero \in Value
  /\ MaxSize \in Nat /\ MaxSize > MD_USER_DATA_SIZE
  /\ MaxCachePage \in Nat /\ JournalBuf \in Nat \ {0}
  /\ MaxEnc \in Nat /\ MaxFaults \in Nat
  /\ CrashPhase \subseteq Phases

VARIABLES
  host,         \* BlockFile: the ciphertext of every node
  host_meta,    \* BlockFile: the metadata node
  journal,      \* RecoveryJournal: [buf, pos, log], log is what is on its disk
  up,           \* "up": open; "down": not open; "failed": open returned no file
  meta,         \* MetadataInfo: size, first cells, root's GCM data, ciphertext
  node,         \* the FileNode of the root and of every cached node
  cache,        \* LruCache: physical numbers, head first
  need_writing, \* FileInner::need_writing
  status,       \* FileStatus
  op,           \* the call in progress, and the node it holds
  fl,           \* internal_flush in progress
  detached,     \* an MHT node was dropped from the cache before a node below it
  enc,          \* versions used so far
  faults,       \* steps that an I/O error has ended so far
  view,         \* history: the content, as the user of the file sees it
  late,         \* history: a write changed it after a write_to_disk had failed
  synced,       \* history: the content at the last successful sync
  flushed,      \* history: the content at the last completed write_to_disk
  snap          \* history: the content at every update_nodes

disks == <<host, host_meta, journal>>
history == <<synced, flushed, snap>>
core == <<disks, up, meta, node, cache, need_writing, status, op, fl, detached,
          enc, faults, history>>
vars == <<core, view, late>>

-----------------------------------------------------------------------------
(* Nodes *)

Root    == ROOT_MHT_PHY_NUM
DataIds == {DataPhysicalNumber(d) : d \in 0..DataLogicNumber(MaxSize - 1)}
MhtIds  == {MhtPosition(l) : l \in 1..MhtLogicNumber(DataLogicNumber(MaxSize - 1))}
NodeIds == DataIds \cup MhtIds
Nodes   == NodeIds \cup {Root}

MhtLogic(p) == (p - 1) \div (ATTACHED + 1)

\* The parent pointer set when a node is built.
Parent == [p \in NodeIds |->
  MhtPosition(IF p \in DataIds THEN CalculateMhtLogicalNumber(p) ELSE ParentMht(MhtLogic(p)))]
Children == [p \in Nodes |-> {q \in NodeIds : Parent[q] = p}]

\* The MHT nodes from l up to the root, which is left out.
MhtPath[l \in 0..MaxSize] ==
  IF l = 0 THEN <<>> ELSE <<MhtPosition(l)>> \o MhtPath[ParentMht(l)]

\* The ancestors of a node, nearest first, root left out.
Path == [p \in NodeIds |-> MhtPath[MhtLogic(Parent[p])]]

Chain == [p \in NodeIds |-> <<p>> \o Path[p]]

Offset(p) == MD_USER_DATA_SIZE + CalculateDataLogicalNumber(p) * NODE_SIZE

ZeroPlain(p) == IF p \in DataIds THEN [c \in 0..NODE_SIZE-1 |-> Zero]
                                 ELSE [q \in Children[p] |-> 0]
Blank(p) == [ver |-> 0, plain |-> ZeroPlain(p)]

\* FileNode::new: zeroed, new_node set, need_writing clear.
NewNode(p) == [dirty |-> FALSE, new |-> TRUE, plain |-> ZeroPlain(p), ciph |-> Blank(p)]

\* A slip: the plaintext is left as it was.
LoadedUndecrypted(p, c) == [NewNode(p) EXCEPT !.ciph = c]

\* A node read and decrypted; new_node keeps the value FileNode::new gave it.
LoadedNode(p, c) == [NewNode(p) EXCEPT !.plain = c.plain, !.ciph = c]

BlankMeta == [flag |-> 0, valid |-> FALSE, size |-> 0,
              data |-> [c \in 0..MD_USER_DATA_SIZE-1 |-> Zero], root |-> 0]
NewMeta   == [size |-> 0, data |-> BlankMeta.data, root |-> 0, node |-> BlankMeta]

\* In memory: the node objects and the order of the cache.
mem == [node |-> node, cache |-> cache]
CachedIn(m) == ToSet(m.cache)

\* The plaintext of a node, in memory or as stored.
PlainIn(m, h, p) ==
  IF p \in CachedIn(m) \cup {Root} THEN m.node[p].plain ELSE h[p].plain

\* The stored ciphertext of p decrypts with the GCM data its parent keeps for it.
ReadableIn(m, h, p) ==
  LET gcm == PlainIn(m, h, Parent[p])[p] IN gcm # 0 /\ h[p].ver = gcm

\* The uncached nodes read_mht_node recurses through, topmost first.
Missing(m, path) ==
  LET hit == SelectInSeq(path, LAMBDA q : q \in CachedIn(m))
  IN Reverse(SubSeq(path, 1, IF hit = 0 THEN Len(path) ELSE hit - 1))

\* Slips: the order is left alone; the node is not unlinked from its place.
MoveToHeadKept(c, p) == c
MoveToHeadTwice(c, p) == <<p>> \o c

\* LruCache::push of a key that is absent, and LruCache::move_to_head.
Push(m, p, n) == [node |-> [m.node EXCEPT ![p] = n], cache |-> <<p>> \o m.cache]
MoveToHead(c, p) == IF Contains(c, p) THEN <<p>> \o Remove(c, p) ELSE c

Load(m, h, ps) == FoldLeft(LAMBDA a, p : Push(a, p, LoadedNode(p, h[p])), m, ps)

-----------------------------------------------------------------------------
(* The content the user sees: cached plaintexts, and stored nodes whose     *)
(* whole chain of GCM data decrypts.                                        *)

Lost == "lost"

View ==
  LET cached == ToSet(cache)
      plain(p) == IF p \in cached \cup {Root} THEN node[p].plain ELSE host[p].plain
      readable(p) == plain(Parent[p])[p] # 0 /\ host[p].ver = plain(Parent[p])[p]
      reachable(p) == \A i \in DOMAIN Chain[p] :
        (\E j \in 1..i : Chain[p][j] \in cached) \/ readable(Chain[p][i])
      cell(offset) ==
        IF offset < MD_USER_DATA_SIZE THEN meta.data[offset]
        ELSE LET p == DataPhysicalNumber(DataLogicNumber(offset)) IN
             IF reachable(p) THEN plain(p)[offset - Offset(p)] ELSE Lost
  IN [i \in 1..meta.size |-> cell(i - 1)]

-----------------------------------------------------------------------------
(* create: a new file, nothing of it on disk *)

NoOp == [kind |-> "none", off |-> 0, left |-> 0, val |-> Zero, pc |-> "run", held |-> 0]
NoFlush == [pc |-> "none", sync |-> FALSE]

\* RecoveryJournal::create.  sized: the length word on the journal's disk is valid,
\* which it is not before the first flush or reset.
NewJournal(sized, log) == [buf |-> <<>>, pos |-> 0, sized |-> sized, log |-> log]

EmptyTree == [p \in Nodes |-> NewNode(p)]

Init ==
  /\ host = [p \in Nodes |-> Blank(p)] /\ host_meta = BlankMeta
  /\ journal = NewJournal(FALSE, <<>>)
  /\ up = "up" /\ meta = NewMeta /\ node = EmptyTree /\ cache = <<>>
  /\ need_writing = TRUE /\ status = "Ok"
  /\ op = NoOp /\ fl = NoFlush /\ detached = FALSE
  /\ enc = 0 /\ faults = 0
  /\ view = <<>> /\ late = FALSE /\ synced = <<>> /\ flushed = <<>> /\ snap = <<>>

\* The histories are kept where a crash may come, which alone looks back at them.
Kept(h, new) == IF CrashPhase = {} THEN h ELSE new

Running == up = "up" /\ ~detached /\ fl.pc = "none"
Idle    == Running /\ op.kind = "none"

-----------------------------------------------------------------------------
(* write and read, each after a seek to the offset; in a file with an error, *)
(* where the seek fails, at the cursor, which the idle op keeps              *)

\* seek refuses an offset beyond the end; read and write do not look at status.
Begin(kind, offset, n, v) ==
  /\ Idle
  /\ IF status = "Ok" THEN offset <= meta.size ELSE offset = op.off
  /\ op' = [NoOp EXCEPT !.kind = kind, !.off = offset, !.left = n, !.val = v]
  /\ UNCHANGED <<disks, up, meta, node, cache, need_writing, status, fl, detached,
                 enc, faults, history>>

BeginWrite(offset, n, v) ==
  offset + n <= MaxSize /\ enc < MaxEnc /\ Begin("write", offset, n, v)
BeginRead(offset, n) ==
  offset + n <= meta.size /\ enc < MaxEnc /\ Begin("read", offset, n, Zero)

Ended(offset) == [NoOp EXCEPT !.off = IF status = "Ok" THEN 0 ELSE offset]
Advance(len) == IF op.left = len THEN Ended(op.off + len)
                ELSE [op EXCEPT !.off = @ + len, !.left = @ - len, !.pc = "run",
                           !.held = 0]

\* A slip: only the part in the metadata node counts.
GrowLess(size, end) == IF end > size /\ end <= MD_USER_DATA_SIZE THEN end ELSE size

Grow(size, end) == IF end > size THEN end ELSE size
Least(a, b) == IF a < b THEN a ELSE b

\* The part of a write or read that falls in the metadata node.
MetadataPart ==
  LET len == Least(op.left, MD_USER_DATA_SIZE - op.off) IN
  /\ Running /\ op.kind \in {"write", "read"}
  /\ op.off < MD_USER_DATA_SIZE
  /\ IF op.kind = "write"
     THEN /\ meta' = [meta EXCEPT
                !.size = Grow(@, op.off + len),
                !.data = [c \in DOMAIN @ |->
                  IF op.off <= c /\ c < op.off + len THEN op.val ELSE @[c]]]
          /\ need_writing' = TRUE
     ELSE UNCHANGED <<meta, need_writing>>
  /\ op' = Advance(len)
  /\ UNCHANGED <<disks, up, node, cache, status, fl, detached, enc, faults, history>>

\* Where get_data_node goes for the current offset.
HeldNode == DataPhysicalNumber(DataLogicNumber(op.off))
InNode   == op.off - Offset(HeldNode)
AtEnd    == op.off = meta.size
Appending == InNode = 0 /\ AtEnd
AppendingMht ==
  /\ AtEnd /\ Parent[HeldNode] # Root
  /\ (op.off - MD_USER_DATA_SIZE) % (ATTACHED * NODE_SIZE) = 0

\* The nodes to read, topmost first: the missing ancestors (but not an MHT node
\* that is about to be appended), and the data node unless it is appended or cached.
ToRead ==
  IF ~Appending /\ HeldNode \in CachedIn(mem) THEN <<>>
  ELSE LET path == IF AppendingMht THEN Tail(Path[HeldNode]) ELSE Path[HeldNode]
       IN Missing(mem, path) \o (IF Appending THEN <<>> ELSE <<HeldNode>>)

\* The nodes to append, in the order they are pushed.
ToAppend == (IF AppendingMht THEN <<Parent[HeldNode]>> ELSE <<>>)
            \o (IF Appending THEN <<HeldNode>> ELSE <<>>)

Fetching ==
  /\ Running /\ op.kind \in {"write", "read"} /\ op.pc = "run"
  /\ op.off >= MD_USER_DATA_SIZE

\* get_data_node up to shrink_cache: read or append, then bump the ancestors.
GetDataNode ==
  LET loaded   == Load(mem, host, ToRead)
      appended == FoldLeft(LAMBDA m, p : Push(m, p, NewNode(p)), loaded, ToAppend)
  IN
  /\ Fetching
  /\ \A i \in DOMAIN ToRead : ReadableIn(mem, host, ToRead[i])
  /\ \A i \in DOMAIN ToAppend : ToAppend[i] \notin CachedIn(mem)
  /\ node' = appended.node
  /\ cache' = FoldLeft(MoveToHead, appended.cache, Path[HeldNode])
  /\ op' = [op EXCEPT !.pc = "shrink", !.held = HeldNode]
  /\ UNCHANGED <<disks, up, meta, need_writing, status, fl, detached, enc, faults, history>>

\* Reading stops at the k-th node: it does not decrypt, or the device fails.
GetDataNodeReadError(k) ==
  LET done == SubSeq(ToRead, 1, k - 1)
      loaded == Load(mem, host, done)
  IN
  /\ Fetching
  /\ k \in DOMAIN ToRead
  /\ \A i \in DOMAIN done : ReadableIn(mem, host, done[i])
  /\ \/ ~ReadableIn(mem, host, ToRead[k]) /\ UNCHANGED faults
     \/ faults < MaxFaults /\ faults' = faults + 1
  /\ node' = loaded.node /\ cache' = loaded.cache
  /\ op' = [op EXCEPT !.pc = "shrink", !.held = 0]
  /\ UNCHANGED <<disks, up, meta, need_writing, status, fl, detached, enc, history>>

\* A node to append is cached already: push refuses it, Errno::Unexpected.
GetDataNodePresent ==
  LET j == SelectInSeq(ToAppend, LAMBDA p : p \in CachedIn(mem))
      pushed == FoldLeft(LAMBDA m, p : Push(m, p, NewNode(p)),
                         Load(mem, host, ToRead), SubSeq(ToAppend, 1, j - 1))
  IN
  /\ Fetching
  /\ j # 0
  /\ \A i \in DOMAIN ToRead : ReadableIn(mem, host, ToRead[i])
  /\ node' = pushed.node /\ cache' = pushed.cache
  /\ op' = [op EXCEPT !.pc = "shrink", !.held = 0]
  /\ UNCHANGED <<disks, up, meta, need_writing, status, fl, detached, enc, faults, history>>

\* Slips: a dirty node is dropped; a file of one data node is taken for one that
\* has none.
BackDirtyNever == FALSE
NeedsTwoNodes  == meta.size > MD_USER_DATA_SIZE + NODE_SIZE /\ node[Root].dirty

Shrinking == Running /\ op.pc = "shrink"
TooLong   == Len(cache) > MaxCachePage
BackDirty == node[Last(cache)].dirty

\* is_need_write_node, and where internal_flush starts.
IsNeedWriteNode == meta.size > MD_USER_DATA_SIZE /\ node[Root].dirty
FlushFrom(sync) ==
  [pc |-> IF IsNeedWriteNode THEN "write_recovery_file" ELSE "update_metadata", sync |-> sync]

\* shrink_cache, a clean node at the back: pop it.
PopBack ==
  LET p == Last(cache) IN
  /\ Shrinking /\ TooLong /\ ~BackDirty
  /\ cache' = Front(cache)
  /\ node' = [node EXCEPT ![p] = NewNode(p)]
  /\ detached' = \E q \in ToSet(Front(cache)) : Parent[q] = p
  /\ UNCHANGED <<disks, up, meta, need_writing, status, op, fl, enc, faults, history>>

\* shrink_cache, a dirty node at the back: internal_flush(false), which returns
\* at once when need_writing is clear.
FlushToEvict ==
  /\ Shrinking /\ TooLong /\ BackDirty
  /\ fl' = IF need_writing THEN FlushFrom(FALSE) ELSE NoFlush
  /\ UNCHANGED <<disks, up, meta, node, cache, need_writing, status, op, detached,
                 enc, faults, history>>

\* The node was not found: the call returns (write with the error, read short).
GiveUp ==
  /\ Shrinking /\ ~TooLong /\ op.held = 0
  /\ op' = Ended(op.off)
  /\ UNCHANGED <<disks, up, meta, node, cache, need_writing, status, fl, detached,
                 enc, faults, history>>

\* write: mark the node and, up to the root, its ancestors.
MarkDirty(n, ps) ==
  [q \in Nodes |-> IF q \in ps THEN [n[q] EXCEPT !.dirty = TRUE] ELSE n[q]]
Ancestors(p) == {Root} \cup ToSet(Path[p])

\* The cells go to the node that was found, which shrink_cache may have dropped
\* since: then only its ancestors stay marked, and the cells are gone with it.
CopyIn ==
  LET p    == op.held
      len  == Least(op.left, NODE_SIZE - InNode)
      here == p \in CachedIn(mem)
      copied == IF here THEN [node EXCEPT ![p].plain = [c \in DOMAIN @ |->
                    IF InNode <= c /\ c < InNode + len THEN op.val ELSE @[c]]]
                ELSE node
  IN
  /\ Shrinking /\ ~TooLong /\ p # 0 /\ op.kind = "write"
  /\ IF node[p].dirty THEN node' = copied /\ UNCHANGED need_writing
     ELSE /\ node' = MarkDirty(copied, Ancestors(p) \cup (IF here THEN {p} ELSE {}))
          /\ need_writing' = TRUE
  /\ meta' = [meta EXCEPT !.size = Grow(@, op.off + len)]
  /\ op' = Advance(len)
  /\ UNCHANGED <<disks, up, cache, status, fl, detached, enc, faults, history>>

CopyOut ==
  /\ Shrinking /\ ~TooLong /\ op.held # 0 /\ op.kind = "read"
  /\ op' = Advance(Least(op.left, NODE_SIZE - InNode))
  /\ UNCHANGED <<disks, up, meta, node, cache, need_writing, status, fl, detached,
                 enc, faults, history>>

-----------------------------------------------------------------------------
(* flush, clear_cache, clear_error: the calls that end in internal_flush(true) *)

\* clear_cache pops from the back and stops, with an error, at a dirty node.
Popped == LET dirty == {i \in DOMAIN cache : node[cache[i]].dirty}
          IN IF dirty = {} THEN <<>> ELSE SubSeq(cache, 1, Max(dirty) - 1)

\* The call returns; what it flushed, or found clean, is what a sync promises.
Return(kind) ==
  /\ op' = NoOp /\ status' = "Ok" /\ synced' = Kept(synced, view)
  /\ IF kind = "clear_cache"
     THEN /\ cache' = Popped
          /\ node' = [p \in Nodes |-> IF p \in {Root} \cup ToSet(Popped)
                                      THEN node[p] ELSE NewNode(p)]
     ELSE UNCHANGED <<cache, node>>

\* A slip: the retry takes the nodes for written.
RetryMetadata == [pc |-> "write_metadata", sync |-> TRUE]

\* clear_error: write_to_disk again, after it failed.
RetryFrom ==
  [pc |-> IF IsNeedWriteNode THEN "write_nodes" ELSE "write_metadata", sync |-> TRUE]

\* ... and internal_flush in all other cases.
FlushCall(kind) ==
  LET start == IF status = "WriteToDiskFailed" THEN RetryFrom ELSE FlushFrom(TRUE) IN
  /\ Idle
  /\ IF need_writing \/ status = "WriteToDiskFailed"
     THEN /\ op' = [NoOp EXCEPT !.kind = kind, !.off = op.off] /\ fl' = start
          /\ UNCHANGED <<cache, node, status, synced>>
     ELSE /\ Return(kind) /\ UNCHANGED fl
  /\ UNCHANGED <<disks, up, meta, need_writing, detached, enc, faults, flushed, snap>>

Flush      == status = "Ok" /\ FlushCall("flush")
ClearCache == FlushCall("clear_cache")
ClearError == status # "Ok" /\ FlushCall("clear_error")

-----------------------------------------------------------------------------
(* internal_flush *)

FlushPcs == {"none", "write_recovery_file", "set_update_flag", "update_nodes",
             "update_metadata", "write_nodes", "write_metadata", "commit", "reset"}

Flushing(pc) == up = "up" /\ ~detached /\ fl.pc = pc
FlushTo(pc)  == fl' = [fl EXCEPT !.pc = pc]

\* RawJournal::flush: the buffer goes after what this session flushed before.
JournalFlush(j) ==
  [buf |-> <<>>, pos |-> j.pos + Len(j.buf), sized |-> TRUE,
   log |-> SubSeq(j.log, 1, j.pos) \o j.buf]

JournalAppend(j, r) ==
  LET k == [j EXCEPT !.buf = Append(@, r)]
  IN IF Len(k.buf) >= JournalBuf THEN JournalFlush(k) ELSE k

Commit == [p |-> -1]
IsCommit(r) == r.p = -1

\* write_recovery_file_node: the old ciphertexts of the nodes to be overwritten.
RecoveryRecords ==
  LET old(p) == node[p].dirty /\ ~node[p].new
      mhts   == SelectSeq(cache, LAMBDA p : old(p) /\ p \in MhtIds)
      datas  == SelectSeq(cache, LAMBDA p : old(p) /\ p \in DataIds)
      ids    == mhts \o datas \o (IF old(Root) THEN <<Root>> ELSE <<>>)
  IN Append([i \in DOMAIN ids |-> [p |-> ids[i], c |-> node[ids[i]].ciph]],
            [p |-> METADATA_PHY_NUM, c |-> meta.node])

WriteRecoveryFile ==
  /\ Flushing("write_recovery_file") /\ FlushTo("set_update_flag")
  /\ journal' = FoldLeft(JournalAppend, journal, RecoveryRecords)
  /\ UNCHANGED <<host, host_meta, up, meta, node, cache, need_writing, status, op,
                 detached, enc, faults, history>>

\* The previous metadata ciphertext, with the update flag set.
SetUpdateFlag ==
  /\ Flushing("set_update_flag") /\ FlushTo("update_nodes")
  /\ host_meta' = [meta.node EXCEPT !.flag = 1]
  /\ UNCHANGED <<host, journal, up, meta, node, cache, need_writing, status, op,
                 detached, enc, faults, history>>

\* A slip: the cells that were encrypted before are kept.
EncryptStaleData(m) ==
  [m EXCEPT !.node = [flag |-> 0, valid |-> TRUE, size |-> m.size, data |-> m.node.data,
                      root |-> m.root]]

\* MetadataInfo::encrypt.
EncryptMeta(m) ==
  [m EXCEPT !.node = [flag |-> 0, valid |-> TRUE, size |-> m.size, data |-> m.data,
                      root |-> m.root]]

\* update_nodes and update_metadata: the dirty nodes are encrypted, children
\* before parents, each under a fresh key left in its parent's plaintext.
UpdateNodes ==
  LET v     == enc + 1
      dirty == {p \in CachedIn(mem) : node[p].dirty \/
                  \E q \in CachedIn(mem) \cap DataIds : node[q].dirty /\ Contains(Path[q], p)}
      plain == [p \in Nodes |-> IF p \in DataIds THEN node[p].plain
                  ELSE [q \in Children[p] |-> IF q \in dirty THEN v ELSE node[p].plain[q]]]
  IN
  /\ Flushing("update_nodes") /\ FlushTo("write_nodes")
  /\ node' = [p \in Nodes |->
       IF p \in dirty \cup {Root}
       THEN [node[p] EXCEPT !.plain = plain[p], !.ciph = [ver |-> v, plain |-> plain[p]],
                            !.dirty = TRUE]
       ELSE IF p \in CachedIn(mem) THEN [node[p] EXCEPT !.plain = plain[p]] ELSE node[p]]
  /\ meta' = EncryptMeta([meta EXCEPT !.root = v])
  /\ enc' = v /\ snap' = Kept(snap, Append(snap, view))
  /\ UNCHANGED <<disks, up, cache, need_writing, status, op, detached, faults, synced,
                 flushed>>

\* update_metadata when no node needs writing.
UpdateMetadata ==
  /\ Flushing("update_metadata") /\ FlushTo("write_metadata")
  /\ meta' = EncryptMeta(meta)
  /\ UNCHANGED <<disks, up, node, cache, need_writing, status, op, detached, enc,
                 faults, history>>

\* write_to_disk: dirty nodes from the tail of the cache, the root, the metadata.
WriteNode ==
  LET dirty == {i \in DOMAIN cache : node[cache[i]].dirty}
      p == IF dirty = {} THEN Root ELSE cache[Max(dirty)]
  IN
  /\ Flushing("write_nodes")
  /\ FlushTo(IF p = Root THEN "write_metadata" ELSE "write_nodes")
  /\ host' = [host EXCEPT ![p] = node[p].ciph]
  /\ node' = [node EXCEPT ![p].dirty = FALSE, ![p].new = FALSE]
  /\ UNCHANGED <<host_meta, journal, up, meta, cache, need_writing, status, op,
                 detached, enc, faults, history>>

WriteMetadata ==
  /\ Flushing("write_metadata")
  /\ host_meta' = meta.node
  /\ flushed' = Kept(flushed, view)
  /\ IF fl.sync THEN FlushTo("commit") /\ UNCHANGED need_writing
     ELSE fl' = NoFlush /\ need_writing' = FALSE
  /\ UNCHANGED <<host, journal, up, meta, node, cache, status, op, detached, enc,
                 faults, synced, snap>>

\* journal.commit and journal.flush, after host_file.flush.
CommitJournal ==
  /\ Flushing("commit") /\ FlushTo("reset")
  /\ journal' = JournalFlush([journal EXCEPT !.buf = Append(@, Commit)])
  /\ UNCHANGED <<host, host_meta, up, meta, node, cache, need_writing, status, op,
                 detached, enc, faults, history>>

\* journal.reset; internal_flush and the call that made it return.
ResetJournal ==
  /\ Flushing("reset") /\ fl' = NoFlush
  /\ journal' = NewJournal(TRUE, <<>>)
  /\ need_writing' = FALSE
  /\ Return(op.kind)
  /\ UNCHANGED <<host, host_meta, up, meta, detached, enc, faults, flushed, snap>>

EarlyPcs == {"write_recovery_file", "set_update_flag"}

\* A slip: only a failure before the nodes are written is noted.
RetryStatusEarly(pc) == IF pc \in EarlyPcs THEN "FlushError" ELSE "Ok"

RetryStatus(pc) == IF pc \in EarlyPcs THEN "FlushError" ELSE "WriteToDiskFailed"

\* What is on the disks when the step at pc fails: the n-th error is in what the code
\* does about the first.
FailedDisks(pc, n) ==
  \* a full buffer cannot be flushed: the journal is reset, on its disk if that works
  \/ /\ pc = "write_recovery_file"
     /\ \E k \in DOMAIN RecoveryRecords :
          LET j == FoldLeft(JournalAppend, journal, SubSeq(RecoveryRecords, 1, k - 1))
          IN /\ Len(j.buf) + 1 >= JournalBuf
             /\ journal' = IF n = 1 THEN NewJournal(TRUE, <<>>) ELSE NewJournal(j.sized, j.log)
     /\ UNCHANGED host_meta
  \* the write of the metadata fails, or the flush, and the metadata are written back
  \/ /\ pc = "set_update_flag" /\ UNCHANGED journal
     /\ \/ n = 1 /\ UNCHANGED host_meta
        \/ fl.sync /\ host_meta' = [meta.node EXCEPT !.flag = n - 1]
  \/ pc \in {"write_nodes", "write_metadata"} /\ n = 1 /\ UNCHANGED <<host_meta, journal>>
  \* the commit record may be in the journal's buffer
  \/ /\ pc = "commit" /\ n = 1 /\ UNCHANGED host_meta
     /\ journal' \in {journal, [journal EXCEPT !.buf = Append(@, Commit)]}
  \/ /\ pc = "reset" /\ n = 1 /\ UNCHANGED host_meta
     /\ journal' = NewJournal(journal.sized, journal.log)

\* A disk fails: internal_flush returns the error, the call that made it does too,
\* and the status says which way to retry.
FlushError ==
  /\ \E pc \in FlushPcs, n \in 1..2 :
        /\ Flushing(pc) /\ FailedDisks(pc, n) /\ status' = RetryStatus(pc)
        /\ faults < MaxFaults /\ faults' = faults + 1
  /\ fl' = NoFlush
  /\ \E offset \in IF status # "Ok" \/ op.kind \in {"write", "read"} THEN {op.off}
                   ELSE 0..meta.size :
        op' = [NoOp EXCEPT !.off = offset]
  /\ UNCHANGED <<host, up, meta, node, cache, need_writing, detached, enc, history>>

-----------------------------------------------------------------------------
(* Crash, and open with recovery *)

\* "sync" and "evict" end when the metadata is written; "commit" ends a sync.
Phase == CASE fl.pc \in {"commit", "reset"} -> "commit"
           [] fl.pc \in FlushPcs \ {"none", "commit", "reset"} ->
                IF fl.sync THEN "sync" ELSE "evict"
           [] fl.pc = "none" -> IF op.kind = "none" THEN "idle" ELSE "call"

\* What is in memory when no file is open.
Vacant ==
  /\ meta' = NewMeta /\ node' = EmptyTree /\ cache' = <<>>
  /\ need_writing' = FALSE /\ status' = "Ok" /\ op' = NoOp /\ fl' = NoFlush

\* Before a first sync has returned nothing is promised of the disks.
Crash ==
  /\ up = "up" /\ ~detached /\ Phase \in CrashPhase
  /\ synced # <<>> /\ journal.sized
  /\ up' = "down"
  /\ Vacant
  /\ journal' = NewJournal(journal.sized, journal.log)
  /\ UNCHANGED <<host, host_meta, detached, enc, faults, history>>

\* A slip: the root is not authenticated.
OpenableUnrooted(hm, h) == hm.flag = 0 /\ hm.valid

\* open_file succeeds: the update flag is clear, metadata and root decrypt.
Openable(hm, h) ==
  /\ hm.flag = 0 /\ hm.valid
  /\ hm.size > MD_USER_DATA_SIZE => hm.root # 0 /\ h[Root].ver = hm.root

\* recovery, one Node record: MHT nodes and metadata are remembered, all are
\* written back to the file's disk.
WriteBack(a, r) ==
  IF IsCommit(r) THEN a
  ELSE IF r.p = METADATA_PHY_NUM THEN [a EXCEPT !.meta = r.c, !.raw_meta = r.c]
  ELSE [a EXCEPT !.host[r.p] = r.c,
                 !.raw[r.p] = IF IsMhtNode(r.p) THEN r.c ELSE @]

\* RecoveryHandler::decrypt_node: the MHT nodes from the root down that are not
\* in mhts yet are decrypted from the raw ones; an absent or wrong one panics.
DecryptNode(a, p, c) ==
  LET path    == Path[p] \o <<Root>>
      hit     == SelectInSeq(path, LAMBDA q : q \in DOMAIN a.mhts)
      todo    == SubSeq(path, 1, IF hit = 0 THEN Len(path) ELSE hit - 1)
      plain(q) == IF q \in DOMAIN a.mhts THEN a.mhts[q] ELSE a.raw[q].plain
      gcm(q)  == IF q = Root THEN a.raw_meta.root ELSE plain(Parent[q])[q]
      ok      == /\ \A i \in DOMAIN todo : gcm(todo[i]) # 0 /\ a.raw[todo[i]].ver = gcm(todo[i])
                 /\ Root \in ToSet(todo) => a.raw_meta.valid
                 /\ gcm(p) # 0 /\ c.ver = gcm(p)
  IN [a EXCEPT !.panic = ~ok,
               !.mhts = [q \in DOMAIN @ \cup ToSet(todo) |-> plain(q)],
               !.rollback = [q \in DOMAIN @ \cup {p} |-> IF q = p THEN c ELSE @[q]]]

\* ... and, for a record after the last commit, the first version of a data node
\* is decrypted and kept, to be rolled back.
RollBack(a, r) ==
  IF a.panic THEN a
  ELSE IF r.p \in DataIds \ DOMAIN a.rollback THEN WriteBack(DecryptNode(a, r.p, r.c), r)
  ELSE WriteBack(a, r)

Recovery ==
  LET log  == journal.log
      last == SelectLastInSeq(log, IsCommit)
      none == <<>>
      start == [host |-> host, meta |-> host_meta, panic |-> FALSE,
                raw |-> [p \in Nodes |-> Blank(p)], raw_meta |-> BlankMeta,
                mhts |-> none, rollback |-> none]
  IN FoldLeft(RollBack, FoldLeft(WriteBack, start, SubSeq(log, 1, last)),
              SubSeq(log, last + 1, Len(log)))

\* rollback_nodes, one data node: its ancestors are read, all are marked dirty,
\* and it is pushed at the head of the cache, over max_cache_page or not.
RollBackNode(m, r, p) ==
  LET todo == Missing(m, Path[p])
      loaded  == Load(m, r.host, todo)
      in   == Push(loaded, p, LoadedNode(p, r.rollback[p]))
  IN [node |-> MarkDirty(in.node, {p} \cup Ancestors(p)), cache |-> in.cache,
      ok |-> m.ok /\ \A i \in DOMAIN todo : ReadableIn(m, r.host, todo[i])]

OpenedRoot(r) == [NewNode(Root) EXCEPT !.plain = r.host[Root].plain, !.ciph = r.host[Root],
                                       !.new = FALSE]
OpenedMeta(hm) == [size |-> hm.size, data |-> hm.data, root |-> hm.root, node |-> hm]

\* open: open_file, recovery, open_file again, rollback_nodes in the order of a
\* hash map.  An error or a panic anywhere leaves no file.
Open ==
  LET r == Recovery
      opened == [node |-> IF r.meta.size > MD_USER_DATA_SIZE
                          THEN [EmptyTree EXCEPT ![Root] = OpenedRoot(r)] ELSE EmptyTree,
                 cache |-> <<>>, ok |-> TRUE]
      ready == /\ Openable(host_meta, host) /\ journal.sized
               /\ ~r.panic /\ Openable(r.meta, r.host)
  IN
  /\ up = "down"
  /\ \E order \in SetToSeqs(IF ready THEN DOMAIN r.rollback ELSE {}) :
       LET m == FoldLeft(LAMBDA a, p : RollBackNode(a, r, p), opened, order) IN
       IF ready /\ m.ok
       THEN /\ up' = "up" /\ meta' = OpenedMeta(r.meta)
            /\ node' = m.node /\ cache' = m.cache
            /\ need_writing' = (DOMAIN r.rollback # {})
            /\ host' = r.host /\ host_meta' = r.meta
       ELSE /\ up' = "failed"
            /\ UNCHANGED <<host, host_meta, meta, node, cache, need_writing>>
  /\ UNCHANGED <<journal, status, op, fl, detached, enc, faults, history>>

-----------------------------------------------------------------------------

Call ==
  \/ \E offset \in 0..MaxSize-1, n \in 1..MaxSize, v \in Value : BeginWrite(offset, n, v)
  \/ \E offset \in 0..MaxSize-1, n \in 1..MaxSize : BeginRead(offset, n)
  \/ Flush \/ ClearCache \/ ClearError

\* The steps of a call in progress.
Step ==
  \/ MetadataPart \/ GetDataNode \/ GetDataNodePresent
  \/ \E k \in 1..MaxSize : GetDataNodeReadError(k)
  \/ PopBack \/ FlushToEvict \/ GiveUp \/ CopyIn \/ CopyOut
  \/ WriteRecoveryFile \/ SetUpdateFlag \/ UpdateNodes \/ UpdateMetadata
  \/ WriteNode \/ WriteMetadata \/ CommitJournal \/ ResetJournal \/ FlushError

Next ==
  /\ Call \/ Step \/ Crash \/ Open
  /\ view' = View'
  /\ late' = (up' = "up" /\ (late \/ (status = "WriteToDiskFailed" /\ op.kind = "write"
                                      /\ view' # view)))

Spec == Init /\ [][Next]_vars

\* A call that was made runs on its thread until it returns.
FairSpec == Spec /\ WF_core(Step)

-----------------------------------------------------------------------------
(* Properties *)

PlainType(p) == IF p \in DataIds THEN [0..NODE_SIZE-1 -> Value] ELSE [Children[p] -> Nat]
CipherType(p) == [ver : Nat, plain : PlainType(p)]
MetaCipher == [flag : {0, 1}, valid : BOOLEAN, size : 0..MaxSize,
               data : [0..MD_USER_DATA_SIZE-1 -> Value], root : Nat]
RecordOK(r) == \/ IsCommit(r)
               \/ r.p = METADATA_PHY_NUM /\ r.c \in MetaCipher
               \/ r.p \in Nodes /\ r.c \in CipherType(r.p)

\* Every variable has its type, and the cache holds no node twice.
TypeOK ==
  /\ \A p \in Nodes : host[p] \in CipherType(p)
  /\ host_meta \in MetaCipher
  /\ \A s \in {journal.buf, journal.log} : \A i \in DOMAIN s : RecordOK(s[i])
  /\ journal.pos \in 0..Len(journal.log) /\ Len(journal.buf) < JournalBuf
  /\ up \in {"up", "down", "failed"}
  /\ meta \in [size : 0..MaxSize, data : [0..MD_USER_DATA_SIZE-1 -> Value], root : Nat,
               node : MetaCipher]
  /\ \A p \in Nodes : node[p] \in [dirty : BOOLEAN, new : BOOLEAN, plain : PlainType(p),
                                   ciph : CipherType(p)]
  /\ cache \in Seq(NodeIds) /\ Cardinality(ToSet(cache)) = Len(cache)
  /\ need_writing \in BOOLEAN
  /\ status \in {"Ok", "FlushError", "WriteToDiskFailed"}
  /\ op \in [kind : {"none", "write", "read", "flush", "clear_cache", "clear_error"},
             off : 0..MaxSize, left : 0..MaxSize, val : Value, pc : {"run", "shrink"},
             held : DataIds \cup {0}]
  /\ fl \in [pc : FlushPcs, sync : BOOLEAN]
  /\ detached \in BOOLEAN /\ enc \in Nat /\ faults \in 0..MaxFaults

\* The update flag on the disk is clear while the file is in order and no flush is
\* running: open refuses a file whose flag is set.
FlagClear ==
  up = "up" /\ fl.pc = "none" /\ status = "Ok" => host_meta.flag = 0

\* The content as the file's disk has it, without the journal.
Stored ==
  LET gcm(p) == host[Parent[p]].plain[p]
      readable(p) == gcm(p) # 0 /\ host[p].ver = gcm(p)
      cell(offset) ==
        IF offset < MD_USER_DATA_SIZE THEN host_meta.data[offset]
        ELSE LET p == DataPhysicalNumber(DataLogicNumber(offset)) IN
             IF \A i \in DOMAIN Chain[p] : readable(Chain[p][i])
             THEN host[p].plain[offset - Offset(p)] ELSE Lost
  IN IF Openable(host_meta, host) THEN [i \in 1..host_meta.size |-> cell(i - 1)] ELSE <<Lost>>

\* A file with nothing to write has on its disk what its user sees, whatever errors and
\* retries came before, so long as nothing was written while a write_to_disk that failed
\* was still to be repeated: clear_error (other.rs) repeats it with the old ciphertexts
\* and then takes everything for written.
CleanIsStored ==
  up = "up" /\ fl.pc = "none" /\ status = "Ok" /\ ~need_writing /\ ~late => Stored = view

\* flush.rs, where write_to_disk resets the journal: "all nodes are persisted on disk,
\* the recovery file is no longer needed".
NodesPersisted == [][ResetJournal => Stored = view]_vars

\* Every call returns, whatever errors it meets; in particular shrink_cache's loop ends.
CallsReturn == []<>(op.kind = "none")

\* The cache lists every MHT node before the nodes below it, so that shrink_cache,
\* which pops at the back, never drops the parent of a cached node
\* (get_data_node: "bump all the parents mht to reside before the data node").
ParentsAhead ==
  up = "up" /\ op.pc = "run" =>
    \A i \in DOMAIN cache : Parent[cache[i]] = Root
      \/ \E j \in 1..i-1 : cache[j] = Parent[cache[i]]

\* No MHT node leaves the cache while a node below it is in it: the two would come to
\* disagree, since the node below keeps a pointer to the object that was dropped.
NothingDetached == ~detached

\* A dirty node has dirty ancestors up to the root, and the file knows that it
\* needs writing: an internal_flush that skips a node would lose it.
DirtyPath ==
  \A p \in CachedIn(mem) : node[p].dirty =>
    need_writing /\ \A q \in {Root} \cup ToSet(Path[p]) : node[q].dirty

\* The cells that write copies are what the user then reads.
WritesLand ==
  [][CopyIn => op.off + 1 \in DOMAIN view' /\ view'[op.off + 1] = op.val]_vars

\* A flush that returns has committed everything written before it: it leaves no
\* undo record behind that a later recovery would apply.
SyncEndsJournal ==
  [][(Flush \/ ResetJournal) /\ fl'.pc = "none" =>
       journal'.buf = <<>> /\ journal'.log = <<>>]_vars

\* write_to_disk overwrites a node only when its old ciphertext has an undo record, in
\* the journal's buffer or on its disk.
OverwritesRecorded ==
  [][WriteNode => \A p \in Nodes : host[p] # host'[p] /\ host[p].ver # 0 =>
       \E r \in ToSet(journal.log \o journal.buf) : r.p = p]_vars

\* Recovery can decrypt the data nodes whose records it finds, with the MHT nodes and
\* the metadata whose records came before: where it cannot, it panics.
RecordsDecrypt == up = "down" /\ Openable(host_meta, host) => ~Recovery.panic

\* Whatever a crash interrupts and recovery writes back, a file that opens without a
\* node to roll back shows one state: every cell that can be read is what the tree
\* under its root held, even where root, metadata and nodes are of different flushes.
OpensOneState ==
  [][Open /\ up' = "up" /\ ~need_writing' => \A i \in DOMAIN view' : i > MD_USER_DATA_SIZE =>
       view'[i] \in {Lost, snap[meta'.root][i]}]_vars

\* The commit record makes a sync final: once it is on the journal's disk, recovery has
\* no node to discard, and the file opens with what was committed.
CommitIsFinal ==
  [][Open /\ journal.log # <<>> /\ IsCommit(Last(journal.log)) =>
       up' = "up" /\ view' = flushed]_vars

\* The rest of the write in progress.
Writing == IF op.kind = "write" THEN <<op.off, op.left, op.val>> ELSE <<0, 0, 0>>

Promised == INSTANCE SyncedFile WITH
  content <- IF up = "up" THEN view ELSE IF up = "down" THEN synced ELSE <<Lost>>,
  open <- up = "up", writing <- Writing

\* Sync atomicity: the file implements SyncedFile, with flush for its Sync.  A file that
\* is opened again after a crash holds what it held when the last sync returned, and
\* only the cells that write copies change what the user of an open file sees.
SyncAtomicity == Promised!Spec

Snapshots == INSTANCE SyncedFile WITH
  content <- IF up = "up" THEN view ELSE IF up = "down" THEN flushed ELSE <<Lost>>,
  synced <- flushed, open <- up = "up", writing <- Writing

\* The file implements SyncedFile, with every completed write_to_disk, those that
\* shrink_cache makes included, for its Sync: after a crash the file holds what the
\* last one wrote.
FlushAtomicity == Snapshots!Spec
=============================================================================
