------------------------------ MODULE FileApi ------------------------------
(***************************************************************************)
(* The calls of a protected file (FileInner, file/{read,write,other,close, *)
(* open}.rs) as its client sees them: the cursor, the end-of-file flag,    *)
(* the split of the contents between the metadata node and the data nodes, *)
(* need_writing and status.  What a flush does on the disk, the cache with  *)
(* the flush an eviction makes, and last_error are the subject of           *)
(* ProtectedFile; here a flush stores the file, or fails before the write   *)
(* to the disk (FlushError) or in it (WriteToDiskFailed).                   *)
(*                                                                         *)
(* read and write do not look at status.  What is written after a           *)
(* WriteToDiskFailed is not in the ciphertext that clear_error writes out   *)
(* again before it clears need_writing: it is "stray", in memory only, and  *)
(* a stray data node that leaves the cache comes back as the disk has it.   *)
(*                                                                         *)
(* A cell stands for 1 KB: MdCells is MD_USER_DATA_SIZE, NodeCells is      *)
(* NODE_SIZE.  A call may find one data node that get_data_node cannot     *)
(* return ("bad"): an I/O error, or a block that does not decrypt.          *)
(***************************************************************************)
EXTENDS Integers, Sequences, FiniteSets, FiniteSetsExt

CONSTANTS
    MdCells, NodeCells,     \* MD_USER_DATA_SIZE and NODE_SIZE, in cells
    NodeCount,              \* the number of data nodes that are modelled
    MaxSize,                \* bound on the size of a client's file
    Bufs,                   \* the buffers a client writes
    ReadLens,               \* how many cells a client reads
    Names,                  \* the file's names
    NodeFaults,             \* get_data_node may fail
    WildSeeks,              \* clients also seek out of the file
    Drops,                  \* clients also drop a file that has changes to flush
    None

ASSUME FileCells ==
    /\ MdCells \in Nat \ {0} /\ NodeCells \in Nat \ {0} /\ NodeCount \in Nat
    /\ MaxSize \in Nat /\ MaxSize <= MdCells + NodeCount * NodeCells
    /\ ReadLens \subseteq Nat /\ \A b \in Bufs : b \in Seq({b[i] : i \in DOMAIN b})

VARIABLES
    f,          \* the FileInner, None when no file is open
    image,      \* the contents, the size and the name on the disk, when no
                \* file is open
    saved,      \* the disk holds what the open file holds
    ideal,      \* the contents as a client expects them, a flat sequence: None
                \* where the file makes no promise
    panicked    \* an unwrap or an assert of the code has failed

fileVars == <<f, image, saved, ideal, panicked>>

Nodes == 0 .. NodeCount - 1
Zeros(n) == [i \in 1 .. n |-> 0]

\* The place of the byte at an offset: the metadata node holds the first ones.
InMeta(off) == off < MdCells
NodeAt(off) == (off - MdCells) \div NodeCells
OffsetInNode(off) == (off - MdCells) % NodeCells

\* The data nodes of the n cells at off.
Touched(off, n) == {NodeAt(o) : o \in {o \in off .. off + n - 1 : ~InMeta(o)}}

\* How far a transfer of n cells at off gets before a node it cannot have.
Reach(off, n, bad) ==
    LET lost == {i \in 0 .. n - 1 : ~InMeta(off + i) /\ NodeAt(off + i) \in bad}
    IN  IF lost = {} THEN n ELSE Min(lost)

\* The first offset of a data node, and the nodes of a file that do not decrypt.
NodeStart(n) == MdCells + n * NodeCells
Garbage(x) == {n \in Nodes : x.node[n] = None /\ NodeStart(n) < x.size}

\* The n cells at off, read node by node.
CellsAt(x, off, n) ==
    [i \in 1 .. n |->
        LET o == off + i - 1
        IN  IF InMeta(o) THEN x.meta[o] ELSE x.node[NodeAt(o)][OffsetInNode(o)]]

\* x with buf copied to off, node by node; a node behind the end is new.
Plaintext(node) == IF node = None THEN [c \in 0 .. NodeCells - 1 |-> 0] ELSE node
StoreShifted(x, off, buf) ==
    [x EXCEPT
        !.meta = [o \in DOMAIN @ |->
                    IF o - off + 1 \in DOMAIN buf THEN buf[o - off + 1] ELSE @[o]],
        !.node = [n \in DOMAIN @ |-> [c \in 0 .. NodeCells - 1 |->
                    LET i == n * NodeCells + c - off + 1
                    IN  IF i \in DOMAIN buf /\ off + i - 1 >= MdCells
                        THEN buf[i] ELSE Plaintext(@[n])[c]]]]
Store(x, off, buf) ==
    [x EXCEPT
        !.meta = [o \in DOMAIN @ |->
                    IF o - off + 1 \in DOMAIN buf THEN buf[o - off + 1] ELSE @[o]],
        !.node = [n \in DOMAIN @ |-> IF n \notin Touched(off, Len(buf)) THEN @[n] ELSE
                    [c \in 0 .. NodeCells - 1 |->
                    LET i == MdCells + n * NodeCells + c - off + 1
                    IN  IF i \in DOMAIN buf THEN buf[i] ELSE Plaintext(@[n])[c]]]]

\* x, about to get w cells at off.  After a WriteToDiskFailed they are stray:
\* old is what the disk has of the node, None when it was not there.
Strayed(x, off, w) ==
    LET t == Touched(off, w)
        s == DOMAIN x.old
    IN  IF x.status = "WriteToDiskFailed"
        THEN [x EXCEPT
                !.old = [n \in s \cup t |-> IF n \in s THEN @[n]
                            ELSE IF NodeStart(n) < x.size THEN x.node[n] ELSE None],
                !.slip = @ \/ InMeta(off) \/ off + w > x.size]
        ELSE [x EXCEPT !.old = [n \in s \ t |-> @[n]]]

\* x cut to a size.  What lies behind the end is written before it is read
\* again, so it is not kept.
Cut(x, size) ==
    [x EXCEPT
        !.size = size,
        !.node = [n \in DOMAIN @ |->
                    IF size > NodeStart(n) /\ @[n] = None THEN None
                    ELSE [c \in 0 .. NodeCells - 1 |->
                            IF NodeStart(n) + c < size THEN @[n][c] ELSE 0]],
        !.old = [n \in {n \in DOMAIN @ : NodeStart(n) < size} |-> @[n]]]

\* FileInner::write of buf.
DoWrite(x, buf, bad) ==
    LET off == IF x.opts.append THEN x.size ELSE x.offset
        w   == Reach(off, Len(buf), bad \cup Garbage(x))
    IN  CASE buf = <<>> -> [file |-> x, ok |-> TRUE, n |-> 0]
          [] buf # <<>> /\ ~x.opts.writable -> [file |-> x, ok |-> FALSE, n |-> 0]
          [] OTHER ->
               [file |-> [Store(Strayed(x, off, w), off, SubSeq(buf, 1, w)) EXCEPT
                            !.offset = off + w,
                            !.size = IF off + w > @ THEN off + w ELSE @,
                            !.need_writing = @ \/ w > 0],
                ok |-> w = Len(buf), n |-> w]

\* FileInner::read of n cells: an I/O error ends the transfer early, and the
\* call returns what it has.
DoRead(x, n, bad) ==
    LET left == Min({n, x.size - x.offset})
        r    == Reach(x.offset, left, bad \cup Garbage(x))
    IN  CASE n = 0 \/ x.end_of_file -> [file |-> x, n |-> 0]
          [] n > 0 /\ ~x.end_of_file /\ x.offset = x.size ->
               [file |-> [x EXCEPT !.end_of_file = TRUE], n |-> 0]
          [] OTHER ->
               [file |-> [x EXCEPT
                            !.offset = @ + r,
                            !.end_of_file = @ \/ (r = left /\ left # n)],
                n |-> r]

\* FileInner::seek; -1 is an offset it cannot make sense of: the unwrap panics.
SeekTo(x, whence, off) ==
    LET new == CASE whence = "Start" -> off
                 [] whence = "End" -> IF off <= 0 THEN x.size + off ELSE -1
                 [] whence = "Current" -> x.offset + off
    IN  IF new <= x.size THEN new ELSE -1
Moved(x, new) == [x EXCEPT !.offset = new, !.end_of_file = FALSE]

IsOk(x) == x.status = "Ok"

BadSets == {{}} \cup (IF NodeFaults THEN {{n} : n \in Nodes} ELSE {})

\* The contents a client expects after w cells of buf were written at off.
Overwritten(off, buf, w) ==
    [i \in 1 .. Max({Len(ideal), off + w}) |->
        IF i - off \in 1 .. w THEN buf[i - off] ELSE ideal[i]]

\* A stray node comes back as it was, or not at all, when the cache drops it.
Unpromised(S, cells) ==
    [i \in DOMAIN cells |->
        IF ~InMeta(i - 1) /\ NodeAt(i - 1) \in S THEN None ELSE cells[i]]

--------------------------------------------------------------------------
\* A step to x: what is in memory is on the disk only if nothing changed.
Image(x) == [meta |-> x.meta, node |-> x.node, size |-> x.size, name |-> x.name]
StrayParts(x) == DOMAIN x.old \cup (IF x.slip THEN {None} ELSE {})
Left(x) == [meta |-> x.meta, node |-> x.node, size |-> x.size, name |-> x.name,
            stray |-> StrayParts(x) # {}]
Becomes(x) ==
    /\ f' = x
    /\ saved' = (saved /\ Image(x) = Image(f))
    /\ UNCHANGED image

Write(buf, bad) ==
    LET r == DoWrite(f, buf, bad)
        off == IF f.opts.append THEN f.size ELSE f.offset
    IN  /\ off + Len(buf) <= MaxSize
        /\ Becomes(r.file)
        /\ ideal' = Unpromised(DOMAIN r.file.old, Overwritten(off, buf, r.n))
        /\ UNCHANGED panicked

Read(n, bad) ==
    /\ Becomes(DoRead(f, n, bad).file)
    /\ panicked' = (panicked \/ (n > 0 /\ ~f.end_of_file /\ f.offset > f.size))
    /\ UNCHANGED ideal

\* FileInner::read_at: the cursor comes back, the end-of-file flag does not.
ReadAt(n, off, bad) ==
    /\ Becomes(IF off > f.size \/ ~IsOk(f) THEN f
               ELSE [DoRead(Moved(f, off), n, bad).file EXCEPT !.offset = f.offset])
    /\ UNCHANGED <<ideal, panicked>>

\* FileInner::write_at: a write behind the end first fills the gap with zeros.
WriteAt(buf, off, bad) ==
    LET gap  == Zeros(off - f.size)
        fill == DoWrite(Moved(f, f.size), gap, bad)
        x    == IF off > f.size THEN fill.file ELSE f
        r    == DoWrite(Moved(x, off), buf, bad)
        at   == IF f.opts.append THEN x.size ELSE off
    IN  /\ at + Len(buf) <= MaxSize
        /\ \/ /\ ~IsOk(f)
              /\ Becomes(f)
              /\ UNCHANGED ideal
           \/ /\ IsOk(f) /\ off > f.size /\ ~fill.ok
              /\ Becomes([fill.file EXCEPT !.offset = f.offset])
              /\ ideal' = Overwritten(f.size, gap, fill.n)
           \/ /\ IsOk(f) /\ (off > f.size => fill.ok)
              /\ Becomes([r.file EXCEPT !.offset = f.offset])
              /\ ideal' = [i \in 1 .. Max({Len(ideal), off, at + r.n}) |->
                             IF i - at \in 1 .. r.n THEN buf[i - at]
                             ELSE IF i <= Len(ideal) THEN ideal[i] ELSE 0]
        /\ UNCHANGED panicked

Seek(whence, off) ==
    LET new == SeekTo(f, whence, off)
    IN  /\ ~WildSeeks => new >= 0
        /\ Becomes(IF ~IsOk(f) \/ new < 0 THEN f ELSE Moved(f, new))
        /\ panicked' = (panicked \/ (IsOk(f) /\ new < 0))
        /\ UNCHANGED ideal

\* FileInner::set_len: grow with zeros, or write zeros over the tail and cut,
\* whether or not the zeros could be written: a cut that wrote none of them
\* does not set need_writing.
SetLen(size, bad) ==
    LET grow == size > f.size
        from == IF grow THEN f.size ELSE size
        zero == Zeros(IF grow THEN size - f.size ELSE f.size - size)
        r    == DoWrite(Moved(f, from), zero, bad)
    IN  /\ f.opts.append => f.size + Len(zero) <= MaxSize
        /\ \/ /\ ~IsOk(f)
              /\ Becomes(f)
              /\ UNCHANGED ideal
           \/ /\ IsOk(f) /\ grow /\ ~r.ok
              /\ Becomes([r.file EXCEPT !.offset = f.offset])
              /\ ideal' = Overwritten(f.size, zero, r.n)
           \/ /\ IsOk(f) /\ (grow => r.ok)
              /\ Becomes([Cut(r.file, size) EXCEPT
                            !.offset = Min({f.offset, size}), !.end_of_file = FALSE,
                            !.slip = @ \/ (size # f.size /\ ~r.file.need_writing)])
              /\ ideal' = [i \in 1 .. size |-> IF i <= Len(ideal) THEN ideal[i] ELSE 0]
        /\ UNCHANGED panicked

--------------------------------------------------------------------------
Results == {"ok", "FlushError", "WriteToDiskFailed"}

\* internal_flush: nothing to do; or all but the stray nodes, which have no
\* need_writing, is encrypted and written; or an error.  The steps that fail
\* with FlushError are only taken for a file that has data nodes.
DoFlush(x, how) ==
    CASE ~x.need_writing -> [file |-> x, ok |-> TRUE, saved |-> saved]
      [] x.need_writing /\ how = "ok" ->
           [file |-> [x EXCEPT !.need_writing = FALSE, !.slip = FALSE],
            ok |-> TRUE, saved |-> DOMAIN x.old = {}]
      [] x.need_writing /\ how = "FlushError" /\ x.size > MdCells ->
           [file |-> [x EXCEPT !.status = how], ok |-> FALSE, saved |-> saved]
      [] OTHER ->
           [file |-> [x EXCEPT !.status = "WriteToDiskFailed", !.slip = FALSE],
            ok |-> FALSE, saved |-> FALSE]

\* clear_error: forget the error of a healthy file, write the ciphertext of a
\* failed flush again, or flush.
DoClearError(x, how) ==
    LET r == DoFlush(x, how)
    IN  CASE x.status = "Ok" ->
               [file |-> [x EXCEPT !.end_of_file = FALSE], ok |-> TRUE, saved |-> saved]
          [] x.status = "WriteToDiskFailed" ->
               IF how # "ok" THEN [file |-> x, ok |-> FALSE, saved |-> saved]
               ELSE [file |-> [x EXCEPT !.need_writing = FALSE, !.status = "Ok"],
                     ok |-> TRUE, saved |-> StrayParts(x) = {}]
          [] OTHER -> IF r.ok THEN [r EXCEPT !.file.status = "Ok"] ELSE r

\* Stray nodes that leave the cache are read from the disk when next needed.
Reloaded(x, S) ==
    Cut([x EXCEPT !.node = [n \in DOMAIN @ |-> IF n \in S THEN x.old[n] ELSE @[n]],
                  !.old = [n \in DOMAIN @ \ S |-> @[n]]], x.size)

Flushed(r) ==
    /\ f' = r.file /\ saved' = r.saved
    /\ UNCHANGED <<image, ideal, panicked>>

\* flush, also for get_metadata_mac.
Flush(how) == Flushed(IF IsOk(f) THEN DoFlush(f, how) ELSE [file |-> f, saved |-> saved])

ClearError(how) == Flushed(DoClearError(f, how))

\* clear_cache: flush or repair, then empty the cache.
ClearCache(how) ==
    LET r == IF IsOk(f) THEN DoFlush(f, how) ELSE DoClearError(f, how)
    IN  Flushed(IF ~r.ok THEN r
                ELSE [file |-> Reloaded(r.file, DOMAIN r.file.old),
                      saved |-> r.saved \/ ~r.file.slip])

\* An eviction: a stray node has no need_writing and is dropped as it is.
Evict(n) ==
    /\ n \in DOMAIN f.old /\ f.status # "WriteToDiskFailed"
    /\ Flushed([file |-> Reloaded(f, {n}),
                saved |-> saved \/ (~f.need_writing /\ StrayParts(f) = {n})])

\* close, and a PfsDisk that is dropped: the file is flushed and gone.
Close(how) ==
    LET r == IF IsOk(f) THEN DoFlush(f, how) ELSE DoClearError(f, how)
    IN  /\ f' = IF r.ok THEN None ELSE r.file
        /\ image' = IF r.ok THEN Left(r.file) ELSE image
        /\ saved' = r.saved
        /\ UNCHANGED <<ideal, panicked>>

\* An SgxFile that goes out of scope: there is no Drop that would flush it.
DropFile ==
    /\ Drops \/ ~f.need_writing
    /\ f' = None
    /\ image' = Left(f)
    /\ UNCHANGED <<saved, ideal, panicked>>

RenameOnlyMemory(old, new) ==
    /\ Becomes(IF f.name = old THEN [f EXCEPT !.name = new] ELSE f)
    /\ UNCHANGED <<ideal, panicked>>
Rename(old, new) ==
    /\ Becomes(IF f.name = old
               THEN [f EXCEPT !.name = new, !.need_writing = TRUE,
                              !.slip = @ \/ f.status = "WriteToDiskFailed"]
               ELSE f)
    /\ UNCHANGED <<ideal, panicked>>

Opts == {o \in [append : BOOLEAN, writable : BOOLEAN] : o.append => o.writable}
Blank == [meta |-> [o \in 0 .. MdCells - 1 |-> 0],
          node |-> [n \in Nodes |-> [c \in 0 .. NodeCells - 1 |-> 0]],
          size |-> 0]
Opened(x, name, opts, offset, need_writing) ==
    [meta |-> x.meta, node |-> x.node, size |-> x.size, name |-> name,
     opts |-> opts, offset |-> offset, end_of_file |-> FALSE,
     need_writing |-> need_writing, status |-> "Ok",
     old |-> [n \in {} |-> None],   \* the stray data nodes, as the disk has them
     slip |-> FALSE]                \* the metadata is stray

Create(name) ==
    /\ f = None /\ image = None
    /\ f' = Opened(Blank, name, [append |-> FALSE, writable |-> TRUE], 0, TRUE)
    /\ ideal' = <<>> /\ saved' = FALSE
    /\ UNCHANGED <<image, panicked>>

\* open: the name must be the one in the metadata.  (What an unsaved file left
\* on the disk is not modelled.)
Open(name, opts) ==
    /\ f = None /\ image # None /\ saved
    /\ image.name = name
    /\ f' = Opened(image, name, opts, IF opts.append THEN image.size ELSE 0, FALSE)
    /\ image' = None
    /\ UNCHANGED <<saved, ideal, panicked>>

FileInit == f = None /\ image = None /\ saved = TRUE /\ ideal = <<>> /\ panicked = FALSE

FileCalls ==
    \/ \E bad \in BadSets :
          \/ \E buf \in Bufs : Write(buf, bad)
          \/ \E buf \in Bufs, off \in 0 .. MaxSize : WriteAt(buf, off, bad)
          \/ \E n \in ReadLens : Read(n, bad)
          \/ \E n \in ReadLens, off \in 0 .. MaxSize : ReadAt(n, off, bad)
          \/ \E size \in 0 .. MaxSize : SetLen(size, bad)
    \/ \E whence \in {"Start", "End", "Current"}, off \in -2 .. MaxSize :
          Seek(whence, off)
    \/ \E how \in Results : Flush(how) \/ ClearError(how) \/ ClearCache(how) \/ Close(how)
    \/ \E n \in Nodes : Evict(n)
    \/ DropFile
    \/ \E old, new \in Names : Rename(old, new)

FileNext ==
    \/ f # None /\ ~panicked /\ FileCalls
    \/ \E name \in Names : Create(name)
    \/ \E name \in Names, opts \in Opts : Open(name, opts)

FileSpec == FileInit /\ [][FileNext]_fileVars

--------------------------------------------------------------------------
\* Whatever the cursor and the length, a read returns the cells a client of a
\* flat file expects: the split of the contents between the metadata node and
\* the data nodes (write.rs, read.rs) and the sizes agree, also after a write
\* or a set_len that an I/O error cut short.  The data nodes that were written
\* after a WriteToDiskFailed promise nothing until they are written again:
\* clear_error (other.rs) lets their new contents go with the cache.
FlatContents ==
    f # None => /\ f.size = Len(ideal)
                /\ \A i \in 1 .. f.size : ideal[i] # None => CellsAt(f, i - 1, 1)[1] = ideal[i]

\* The cursor never lies behind the end of the file: read.rs computes
\* file_size - offset, and asserts that a shortened read ends at the end.
CursorInFile == f # None => f.offset \in 0 .. f.size

\* A file with nothing to write is the file on the disk, as flush, which returns
\* at once when need_writing is not set, takes it to be; the two ways out of this
\* are a write or a rename after a WriteToDiskFailed, which clear_error does not
\* store, and a set_len whose zeros could not be written.
SavedWhenClean == f # None => f.need_writing \/ saved \/ StrayParts(f) # {}

\* fs.rs: "SgxFiles are automatically closed when they go out of scope": a file
\* that is no longer open, and had no stray parts, has its contents on the disk.
ClosedIsSaved == f = None => saved \/ image.stray

\* The end-of-file flag is only set while the cursor is at the end: with it set,
\* read returns nothing.
EofAtEnd == f # None /\ f.end_of_file => f.offset = f.size

\* No seek, read or set_len of the file's own calls fails an unwrap or an assert.
NoFilePanic == ~panicked
============================================================================
