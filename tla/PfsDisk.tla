------------------------------ MODULE PfsDisk ------------------------------
(***************************************************************************)
(* The data path of the device-mapper target: a bio (dm-sworndisk          *)
(* lib.rs, bio.rs) is turned into calls of PfsDisk (pfs_disk/mod.rs),      *)
(* which keeps the blocks of the disk in a protected file, the f of        *)
(* FileApi.  The requests of the block layer of core (BioReq) reach the    *)
(* same disk through do_read and do_write.                                 *)
(*                                                                         *)
(* A cell of FileApi is a sector here: MdCells is PFS_INNER_OFFSET and     *)
(* NodeCells is BLOCK_SECTORS.  One worker processes the bios, so a bio    *)
(* is one step; ideal is what the sectors must hold, None where the code    *)
(* gives up their contents.  A panic of the worker or of a caller ends the  *)
(* behaviour; blame says what the call that panicked met.                  *)
(***************************************************************************)
EXTENDS FileApi

CONSTANTS
    DiskBlocks,     \* the blocks of the host's device
    Keys, DefaultKey,
    Vecs            \* the bio_vec arrays of a bio, as sequences of lengths

VARIABLES
    disk,       \* the PfsDisk: its size and permissions, None if there is none
    key,        \* the user key the file's metadata are encrypted with
    right,      \* every read so far returned what was written
    over,       \* a writev has reached over the end of this disk
    blame       \* what a call that panicked met

pfsVars == <<f, image, saved, ideal, panicked, disk, key, right, over, blame>>

S == NodeCells
Untouched == -1

total_data_blocks == (DiskBlocks * 13) \div 16
ByteOffset(addr) == addr * S + MdCells
Length(total) == MdCells + total * S

\* The file that is modelled has room for the disk; bios describe memory.
ASSUME DiskAssumption ==
    /\ DiskBlocks \in Nat /\ total_data_blocks <= NodeCount
    /\ Vecs \subseteq Seq(Nat)

--------------------------------------------------------------------------
(* PfsDisk.  A call returns the file after it, the buffer after it and     *)
(* whether an unwrap failed: that of the seek, behind the end of the file  *)
(* or when the file has an error, or that of the write.                    *)
validate_range(addr) == addr < disk.total

SeekFails(x, addr) == ~IsOk(x) \/ SeekTo(x, "Start", ByteOffset(addr)) < 0
At(x, addr) == Moved(x, ByteOffset(addr))

\* Every call seeks first: where the cursor was left is not kept.
Parked(x) == Moved(x, 0)

\* file.read: a short read leaves the rest of the buffer as it was.
FileRead(x, buf, bad) ==
    LET r == DoRead(x, Len(buf), bad)
    IN  [file |-> r.file, panic |-> FALSE, n |-> r.n,
         buf |-> CellsAt(x, x.offset, r.n) \o SubSeq(buf, r.n + 1, Len(buf))]

PfsRead(x, addr, buf, bad) ==
    IF ~disk.can_read \/ ~validate_range(addr)
    THEN [file |-> x, buf |-> buf, n |-> 0, panic |-> FALSE]
    ELSE IF SeekFails(x, addr) THEN [file |-> x, buf |-> buf, n |-> 0, panic |-> TRUE]
    ELSE FileRead(At(x, addr), buf, bad)

\* readv checks neither the permission nor the range.
PfsReadv(x, addr, n, bad) ==
    IF SeekFails(x, addr) THEN [file |-> x, buf |-> Zeros(n), n |-> 0, panic |-> TRUE]
    ELSE FileRead(At(x, addr), Zeros(n), bad)

PfsWrite(x, addr, buf, bad) ==
    LET w == DoWrite(At(x, addr), buf, bad)
    IN  IF ~disk.can_write \/ ~validate_range(addr) THEN [file |-> x, panic |-> FALSE]
        ELSE IF SeekFails(x, addr) THEN [file |-> x, panic |-> TRUE]
        ELSE [file |-> w.file, panic |-> ~w.ok]

--------------------------------------------------------------------------
(* A bio: a range of sectors, and memory described by an array of          *)
(* bio_vecs (lens) of which bi_idx, bi_bvec_done and bi_size select a part.*)
SumLens(lens, a, b) ==
    LET sum[k \in 0 .. Len(lens)] == IF k < a THEN 0 ELSE sum[k - 1] + lens[k]
    IN  sum[b]
Memory(bio) == 1 .. SumLens(bio.lens, 1, Len(bio.lens))

\* The bio_vecs BioVecIter yields: the memory before each one, and its length.
\* bi_bvec_done is not looked at.
BioIter(bio) ==
    LET left(k) == bio.size - SumLens(bio.lens, bio.idx, k - 1)
        ks == {k \in bio.idx .. Len(bio.lens) : left(k) > 0}
    IN  [j \in 1 .. Cardinality(ks) |->
            LET k == bio.idx + j - 1
            IN  [at |-> SumLens(bio.lens, 1, k - 1), len |-> Min({left(k), bio.lens[k]})]]

\* The places in memory of the bio's sectors: as the iterator yields them, and
\* as the block layer defines them.
Yielded(vecs) ==
    LET places[j \in 0 .. Len(vecs)] ==
            IF j = 0 THEN <<>>
            ELSE places[j - 1] \o [c \in 1 .. vecs[j].len |-> vecs[j].at + c]
    IN  places[Len(vecs)]
Meant(bio) ==
    LET before == SumLens(bio.lens, 1, bio.idx - 1) + bio.done
    IN  [p \in 1 .. bio.size |-> before + p]

\* A bio as the target sees it.
Seen(bio) ==
    [start |-> bio.start, size |-> bio.size, split |-> bio.done > 0,
     memory |-> Memory(bio), vecs |-> BioIter(bio),
     places |-> Yielded(BioIter(bio)), meant |-> Meant(bio)]

Aligned(bio) == bio.start % S = 0 /\ bio.size % S = 0
\* BufRef::try_from and BufMut::try_from of a bio_vec: whole blocks only.
WholeBlocks(bio) ==
    \A j \in DOMAIN bio.vecs : bio.vecs[j].len % S = 0

start_block(bio) == bio.start \div S
nblocks(bio) == (bio.start + bio.size + S - 1) \div S - start_block(bio)

\* process of an aligned read, and read_unaligned: what is read, in sectors.
ReadAligned(bio, bad) == PfsReadv(f, start_block(bio), bio.size, bad)
read_unaligned_start(bio, bad) ==
    PfsRead(f, start_block(bio), Zeros(nblocks(bio) * S), bad)
read_unaligned(bio, bad) ==
    LET r == PfsRead(f, start_block(bio), Zeros(nblocks(bio) * S), bad)
        offset == bio.start % S
    IN  [r EXCEPT !.buf = SubSeq(@, offset + 1, offset + bio.size), !.n = @ - offset]

\* process of an aligned write: one write per bio_vec.
WriteVec(mem, bad, io, vec) ==
    LET r == PfsWrite(io.file, io.pos, [c \in 1 .. vec.len |-> mem[vec.at + c]], bad)
    IN  IF io.panic THEN io ELSE
        [file |-> r.file, pos |-> io.pos + vec.len \div S, n |-> 0, panic |-> r.panic]
WriteAligned(bio, mem, bad) ==
    LET io[j \in 0 .. Len(bio.vecs)] ==
            IF j = 0 THEN [file |-> f, pos |-> start_block(bio), n |-> 0, panic |-> FALSE]
            ELSE WriteVec(mem, bad, io[j - 1], bio.vecs[j])
    IN  io[Len(bio.vecs)]

\* write_unaligned reads the blocks, changes the sectors and writes the blocks.
write_unaligned_blind(bio, mem, bad, badw) ==
    LET offset == bio.start % S
        places == bio.places
        w == PfsWrite(f, start_block(bio),
                 [c \in 1 .. nblocks(bio) * S |->
                     IF c - offset \in DOMAIN places THEN mem[places[c - offset]] ELSE 0],
                 badw)
    IN  [file |-> w.file, panic |-> w.panic, n |-> nblocks(bio) * S]
write_unaligned(bio, mem, bad, badw) ==
    LET r == PfsRead(f, start_block(bio), Zeros(nblocks(bio) * S), bad)
        offset == bio.start % S
        places == bio.places
        w == PfsWrite(r.file, start_block(bio),
                 [c \in DOMAIN r.buf |->
                     IF c - offset \in DOMAIN places THEN mem[places[c - offset]]
                     ELSE r.buf[c]], badw)
    IN  [file |-> w.file, panic |-> r.panic \/ w.panic, n |-> r.n]

--------------------------------------------------------------------------
(* The worker's process, the requests of core's block layer, and the       *)
(* target's constructor and destructor.                                    *)
Same == UNCHANGED <<image, disk, key, panicked, blame>>

\* What is written: no two neighbouring sectors, and no two a block apart, agree
\* throughout.
Pattern(m) == IF m % 3 = 1 THEN 1 ELSE 0

\* The sectors a bio or a request writes hold its data from now on, except those
\* that it spoils.
Written(start, data, spoiled) ==
    ideal' = [i \in 1 .. Max({Len(ideal), MdCells + start + Len(data)}) |->
                LET s == i - MdCells - 1
                IN  IF s \in spoiled THEN None
                    ELSE IF s - start + 1 \in DOMAIN data THEN data[s - start + 1]
                    ELSE ideal[i]]

\* A call that panics, and what it met: an unreadable node, a file whose flush has
\* failed, or what the caller passed.  What the call had done by then is not kept.
Panic(bad, what) ==
    /\ panicked' = TRUE
    /\ blame' = what \cup (IF bad # {} THEN {"node"} ELSE {})
                     \cup (IF f = None \/ IsOk(f) THEN {} ELSE {"flush"})
    /\ UNCHANGED <<f, image, saved, ideal, disk, key, right, over>>

\* The memory of a bio after a read put the sectors of buf at the given places.
Filled(bio, places, buf) ==
    [m \in bio.memory |->
        LET ps == {p \in DOMAIN places : places[p] = m}
        IN  IF ps = {} THEN Untouched ELSE buf[Max(ps)]]

\* The disk of a target is opened for reading and writing.
OnTarget == disk.can_read /\ disk.can_write

\* A read of a bio put the sectors that are promised in its memory, zeros for
\* those behind the n it got, and touched nothing else.
FilledRight(bio, want, r) ==
    LET got == Filled(bio, bio.places, r.buf)
        should == Filled(bio, bio.meant,
                         [p \in DOMAIN want |-> IF p <= r.n THEN want[p] ELSE 0])
    IN  \A m \in bio.memory : should[m] # None => got[m] = should[m]

ProcessRead(bio, bad) ==
    LET r    == IF Aligned(bio) THEN ReadAligned(bio, bad) ELSE read_unaligned(bio, bad)
        want == SubSeq(ideal, MdCells + bio.start + 1, MdCells + bio.start + bio.size)
        fail == Aligned(bio) /\ ~WholeBlocks(bio)
    IN  /\ OnTarget
        /\ IF fail \/ r.panic THEN Panic({}, IF fail THEN {"vec"} ELSE {})
           ELSE /\ f' = Parked(r.file)
                /\ right' = (right /\ (bio.split \/ FilledRight(bio, want, r)))
                /\ Same /\ UNCHANGED <<saved, ideal, over>>

\* The sectors that end up with other data than they should: all of a bio that
\* starts within a bio_vec, and the others of its blocks that write_unaligned could
\* not read and fills with zeros.
Spoiled(bio, n) ==
    LET own == bio.start .. bio.start + bio.size - 1
        first == start_block(bio) * S
    IN  (IF bio.split THEN own ELSE {})
            \cup (IF Aligned(bio) THEN {}
                  ELSE (first + n .. first + nblocks(bio) * S - 1) \ own)

ProcessWrite(bio, bad, badw) ==
    LET mem  == [m \in bio.memory |-> Pattern(m)]
        w    == IF Aligned(bio) THEN WriteAligned(bio, mem, badw)
                ELSE write_unaligned(bio, mem, bad, badw)
        fail == Aligned(bio) /\ ~WholeBlocks(bio)
        data == [p \in DOMAIN bio.meant |-> mem[bio.meant[p]]]
    IN  /\ OnTarget
        /\ IF fail \/ w.panic THEN Panic(badw, IF fail THEN {"vec"} ELSE {})
           ELSE /\ f' = Parked(w.file)
                /\ Written(bio.start, data, Spoiled(bio, w.n))
                /\ saved' = FALSE
                /\ Same /\ UNCHANGED <<right, over>>

\* get_range_in_bytes of a request: the whole range must lie on the disk.
get_range_in_bytes(addr, blocks) == addr + blocks <= disk.total

\* The buffers of a request, one after the other: n blocks each.
ReadBuf(bad, io, n) ==
    LET r == FileRead(io.file, Zeros(n * S), bad)
    IN  [file |-> r.file, buf |-> io.buf \o r.buf, whole |-> io.whole /\ r.n = n * S]
WriteBuf(data, bad, io, n) ==
    LET w == DoWrite(io.file, SubSeq(data, io.n + 1, io.n + n * S), bad)
    IN  IF ~io.ok THEN io ELSE [file |-> w.file, n |-> io.n + n * S, ok |-> w.ok]

do_read(addr, bufs, bads) ==
    LET blocks == SumLens(bufs, 1, Len(bufs))
        io[j \in 0 .. Len(bufs)] ==
            IF j = 0 THEN [file |-> At(f, addr), buf |-> <<>>, whole |-> TRUE]
            ELSE ReadBuf(bads[j], io[j - 1], bufs[j])
        r == io[Len(bufs)]
    IN  /\ disk.can_read /\ get_range_in_bytes(addr, blocks)
        /\ IF SeekFails(f, addr) THEN Panic({}, {})
           ELSE /\ f' = Parked(r.file)
                /\ right' = (right /\ (r.whole => \A c \in DOMAIN r.buf :
                                ideal[ByteOffset(addr) + c] \in {None, r.buf[c]}))
                /\ Same /\ UNCHANGED <<saved, ideal, over>>

do_write(addr, bufs, bad) ==
    LET blocks == SumLens(bufs, 1, Len(bufs))
        data   == [c \in 1 .. blocks * S |-> Pattern(c)]
        io[j \in 0 .. Len(bufs)] ==
            IF j = 0 THEN [file |-> At(f, addr), n |-> 0, ok |-> TRUE]
            ELSE WriteBuf(data, bad, io[j - 1], bufs[j])
    IN  /\ disk.can_write /\ get_range_in_bytes(addr, blocks)
        /\ IF SeekFails(f, addr) \/ ~io[Len(bufs)].ok THEN Panic(bad, {})
           ELSE /\ f' = Parked(io[Len(bufs)].file)
                /\ Written(addr * S, data, {})
                /\ saved' = FALSE
                /\ Same /\ UNCHANGED <<right, over>>

\* writev: the blocks of the buffers in one write; only its first block is
\* checked against the size of the disk, so the others may make the file longer.
writev(addr, blocks, bad) ==
    LET data == [c \in 1 .. blocks * S |-> Pattern(c + 1)]
        r == PfsWrite(f, addr, data, bad)
    IN  /\ addr + blocks <= NodeCount
        /\ disk.can_write /\ validate_range(addr)
        /\ IF r.panic THEN Panic(bad, {})
           ELSE /\ f' = Parked(r.file)
                /\ Written(addr * S, data, {})
                /\ saved' = FALSE
                /\ over' = (over \/ addr + blocks > disk.total)
                /\ Same /\ UNCHANGED right

\* sync, do_flush: an error is the caller's.
SyncDisk(how) ==
    LET r == IF IsOk(f) THEN DoFlush(f, how) ELSE [file |-> f, saved |-> saved]
    IN  /\ f' = Parked(r.file) /\ saved' = r.saved
        /\ Same /\ UNCHANGED <<ideal, right, over>>

\* write_zeros of the file from begin to end.
write_zeros(x, begin, end) == DoWrite(Moved(x, begin), Zeros(end - begin), {}).file

ReadWrite == [append |-> FALSE, writable |-> TRUE]

\* PfsDisk::create: always a new file, of 13/16 of the device's blocks.
CreateDiskEmpty(k) ==
    /\ disk = None
    /\ f' = Opened(Blank, DefaultKey, ReadWrite, 0, TRUE)
    /\ ideal' = Zeros(Length(total_data_blocks))
    /\ key' = k /\ saved' = FALSE /\ image' = None
    /\ disk' = [total |-> total_data_blocks, can_read |-> TRUE, can_write |-> TRUE]
    /\ over' = FALSE
    /\ UNCHANGED <<panicked, blame, right>>
CreateDisk(k) ==
    /\ disk = None
    /\ f' = Parked(write_zeros(Opened(Blank, DefaultKey, ReadWrite, 0, TRUE), 0,
                               Length(total_data_blocks)))
    /\ ideal' = Zeros(Length(total_data_blocks))
    /\ key' = k /\ saved' = FALSE /\ image' = None
    /\ disk' = [total |-> total_data_blocks, can_read |-> TRUE, can_write |-> TRUE]
    /\ over' = FALSE
    /\ UNCHANGED <<panicked, blame, right>>

\* OpenOptions::open.  The file is opened with AeadKey::default(), whatever the
\* root key; decrypting metadata with another key than theirs fails an unwrap.
OpenOpts == [read : BOOLEAN, write : BOOLEAN, clear : BOOLEAN, total : {None} \cup 1 .. NodeCount]
Openable(o) ==
    /\ o.read \/ o.write
    /\ image.size >= MdCells + S /\ (image.size - MdCells) % S = 0
    /\ o.total # None => image.size <= Length(o.total)
OpenDisk(o) ==
    LET old == Opened(image, DefaultKey, ReadWrite, 0, FALSE)
        grown == IF o.total = None THEN old ELSE write_zeros(old, old.size, Length(o.total))
        new == IF o.clear THEN write_zeros(grown, 0, old.size) ELSE grown
    IN  /\ disk = None /\ image # None /\ saved
        /\ IF key # DefaultKey THEN Panic({}, {"key"})
           ELSE /\ Openable(o)
                /\ f' = Parked(new) /\ image' = None
                /\ saved' = (Image(new) = Image(old))
                /\ ideal' = [i \in 1 .. new.size |->
                               IF o.clear \/ i > old.size THEN 0 ELSE ideal[i]]
                /\ disk' = [total |-> IF o.total # None THEN o.total
                                      ELSE (old.size - MdCells) \div S,
                            can_read |-> o.read, can_write |-> o.write]
                /\ over' = FALSE
                /\ UNCHANGED <<panicked, blame, key, right>>

\* The target's dtr: sync, and the drop of the disk, which flushes again; both
\* unwrap the result.
DropDisk(how) ==
    LET r == DoFlush(f, how)
    IN  IF ~IsOk(f) \/ ~r.ok THEN Panic({}, {"flush"})
        ELSE /\ f' = None /\ image' = Left(f) /\ saved' = r.saved
             /\ disk' = None
             /\ UNCHANGED <<ideal, panicked, key, right, over, blame>>

--------------------------------------------------------------------------
\* The bios of the block layer: sectors of the target's region, memory of one
\* of the given shapes.  A split bio starts within a bio_vec.
Bios == [t \in 0 .. NodeCount |->
    {Seen(b) : b \in {b \in [start : 0 .. t * S - 1, size : 1 .. t * S, lens : Vecs, idx : 1 .. 2,
            done : 0 .. 1] :
        /\ b.start + b.size <= t * S
        /\ b.idx <= Len(b.lens) /\ b.done < b.lens[b.idx]
        /\ b.size <= SumLens(b.lens, b.idx, Len(b.lens)) - b.done}}]

PfsInit ==
    /\ FileInit
    /\ disk = None /\ key = DefaultKey /\ right = TRUE /\ over = FALSE /\ blame = {}

Buffers == {<<1>>, <<2>>, <<1, 1>>}
PfsCalls ==
    \/ \E bio \in Bios[disk.total], bad \in BadSets :
          \/ ProcessRead(bio, bad)
          \/ ProcessWrite(bio, bad, {}) \/ ProcessWrite(bio, {}, bad)
    \/ \E addr \in 0 .. disk.total, bufs \in Buffers :
          \/ \E bads \in [DOMAIN bufs -> BadSets] : do_read(addr, bufs, bads)
          \/ \E bad \in BadSets : do_write(addr, bufs, bad)
    \/ \E addr \in 0 .. disk.total, blocks \in 1 .. 2, bad \in BadSets :
          writev(addr, blocks, bad)
    \/ \E how \in Results : SyncDisk(how) \/ DropDisk(how)

PfsNext ==
    /\ ~panicked
    /\ \/ disk # None /\ PfsCalls
       \/ \E k \in Keys : CreateDisk(k)
       \/ \E o \in OpenOpts : OpenDisk(o)

PfsSpec == PfsInit /\ [][PfsNext]_pfsVars

--------------------------------------------------------------------------
\* The sectors of the file hold what the bios and requests wrote last: the
\* read-modify-write of an unaligned bio, the bio_vecs of an aligned one and the
\* buffers of a request all land where they belong (lib.rs process).  Two kinds of
\* writes spoil sectors: BioVecIter ignores bi_bvec_done (bio.rs), and after a read
\* that came short without an error (read.rs) write_unaligned writes zeros over the
\* sectors it could not read.  And the file stays exactly as long as the disk's
\* blocks, from which open computes their number, unless a writev went over the end.
SectorsKept ==
    disk # None /\ ~panicked =>
        /\ f.size = Len(ideal) /\ (f.size = Length(disk.total) \/ over)
        /\ \A i \in 1 .. f.size : ideal[i] # None => CellsAt(f, i - 1, 1)[1] = ideal[i]

\* A read of a bio that does not start within a bio_vec fills exactly the memory of
\* the bio, with the sectors' contents, or with zeros from the first sector on that
\* it could not read; a request whose reads all succeed gets the sectors' contents.
ReadsWritten == right

\* The unwraps of the data path fail only after an I/O error, a failed flush, a
\* bio_vec that is not a multiple of a block or a file that was created with another
\* key than the one open uses: the seek of a call that passed the check of its range
\* never lies behind the end of the file (mod.rs, open_options.rs).
PanicHasCause == panicked => blame # {}
============================================================================
