----------------------------- MODULE BlockSets -----------------------------
(***************************************************************************)
(* The block sets a protected file lives on: the RawDisk of the device-    *)
(* mapper target over a host block device (dm-sworndisk lib.rs,            *)
(* block_device.rs, Bio::alloc), or the MemDisk of the tests               *)
(* (bio/block_set.rs), and the subsets the file makes of it for its data   *)
(* and for its journal (pfs/sys/file/open.rs).                             *)
(*                                                                         *)
(* Sectors are counted from the start of the block device the bio is       *)
(* submitted to; the block layer (external) refuses a bio that leaves it.  *)
(***************************************************************************)
EXTENDS Integers

CONSTANTS
    Sectors,        \* BLOCK_SECTORS
    Geometry,       \* the host's devices, as pairs <<bd_start_sect, bd_nr_sectors>>
    Memory,         \* TRUE: a MemDisk, FALSE: a RawDisk
    NoSet

ASSUME SetsAssumption == Sectors \in Nat \ {0} /\ Geometry \subseteq Nat \X Nat

VARIABLES
    device,     \* the host block device: its geometry, and whether it is held
    set,        \* the region of every block set, NoSet if it does not exist
    io,         \* the blocks of the last I/O that was carried out
    refused,    \* an I/O within its set failed since the disk was opened
    indexed     \* an index behind the end of the memory of a MemDisk was used

setVars == <<device, set, io, refused, indexed>>

Handle == {"disk", "data", "journal"}
Region(a, b) == [start |-> a, end |-> b]
NoIo == [handle |-> "none", blocks |-> Region(0, 0)]

\* HostBlockDevice::region: the start is aligned up, the end aligned down.
DeviceRegion(d) == Region((d[1] + Sectors - 1) \div Sectors, (d[1] + d[2]) \div Sectors)
HostBlocks(d) == d[2] \div Sectors
DiskRegion(d) == IF Memory THEN Region(0, HostBlocks(d)) ELSE DeviceRegion(d)

\* nblocks: Range::len, which is 0 when the start is behind the end.
size(h) == IF set[h].start <= set[h].end THEN set[h].end - set[h].start ELSE 0

SetInit ==
    /\ device = [geometry |-> <<0, 0>>, held |-> FALSE]
    /\ set = [h \in Handle |-> NoSet]
    /\ io = NoIo /\ refused = FALSE /\ indexed = FALSE

\* RawDisk::open (a held device is a lookup that succeeded), MemDisk::create.
OpenSet(d) ==
    /\ ~device.held /\ \A h \in Handle : set[h] = NoSet
    /\ device' = [geometry |-> d, held |-> TRUE]
    /\ set' = [set EXCEPT !["disk"] = DiskRegion(d)]
    /\ refused' = FALSE
    /\ UNCHANGED <<io, indexed>>

\* subset of RawDisk and of MemDisk.
SubsetFromStart(h, from, range) ==
    /\ set[h] = NoSet /\ set[from] # NoSet
    /\ set[from].start + range.end <= set[from].end
    /\ set' = [set EXCEPT ![h] = Region(set[from].start, set[from].start + range.end)]
    /\ UNCHANGED <<device, io, refused, indexed>>
Subset(h, from, range) ==
    /\ set[h] = NoSet /\ set[from] # NoSet
    /\ set[from].start + range.end <= set[from].end
    /\ set' = [set EXCEPT ![h] = Region(set[from].start + range.start,
                                        set[from].start + range.end)]
    /\ UNCHANGED <<device, io, refused, indexed>>

\* The file's subsets: 7/8 for the data, the rest for the journal.
DataPart == (size("disk") * 7) \div 8
subdisk_for_data == Subset("data", "disk", Region(0, DataPart))
subdisk_for_journal == Subset("journal", "disk", Region(DataPart, size("disk")))

\* read and write: the check compares with the end of the region, not its size.
InRange(h, pos, n) == pos + n <= set[h].end

\* Bio::alloc and submit_sync: the blocks of the bio, as sectors of the device.
Accepted(d, blocks) == blocks.end * Sectors <= d[2]

BlockIo(h, pos, n) ==
    LET blocks == Region(set[h].start + pos, set[h].start + pos + n)
        inside == pos + n <= size(h)
        there  == Accepted(device.geometry, blocks)
    IN  /\ set[h] # NoSet
        /\ IF InRange(h, pos, n) /\ there
           THEN io' = [handle |-> h, blocks |-> blocks] /\ UNCHANGED refused
           ELSE io' = NoIo /\ refused' = (refused \/ inside)
        /\ indexed' = (indexed \/ (Memory /\ InRange(h, pos, n) /\ ~there))
        /\ UNCHANGED <<device, set>>

\* A dropped RawDisk drops its reference to the device; the last one puts it.
DropSet(h) ==
    /\ set[h] # NoSet
    /\ set' = [set EXCEPT ![h] = NoSet]
    /\ device' = [geometry |-> device.geometry,
                  held |-> \E g \in Handle \ {h} : set[g] # NoSet]
    /\ io' = NoIo
    /\ UNCHANGED <<refused, indexed>>

Positions(h) == IF set[h] = NoSet THEN {} ELSE 0 .. set[h].end

SetNext ==
    \/ \E d \in Geometry : OpenSet(d)
    \/ set["disk"] # NoSet /\ (subdisk_for_data \/ subdisk_for_journal)
    \/ \E h \in Handle : \E pos \in Positions(h), n \in 1 .. 2 : BlockIo(h, pos, n)
    \/ \E h \in Handle : DropSet(h)

SetSpec == SetInit /\ [][SetNext]_setVars

--------------------------------------------------------------------------
\* block_set.rs: "The `region` is the accessible subset".  Whatever position the caller
\* passes, the blocks of an I/O start in the region of its set, and on a device that starts
\* at sector 0 they end in it: the data and the journal of a file never touch each other's
\* blocks there.  The range check alone does not give this (it compares a position in the
\* set with the end of the region): the data's set must start at block 0, and the end of the
\* device stops the journal's I/O.  On a partition an I/O of the data may end in the journal.
IoInRegion ==
    io # NoIo => /\ io.blocks.start >= set[io.handle].start
                 /\ device.geometry[1] = 0 => io.blocks.end <= set[io.handle].end

\* The subsets a file makes for its data and its journal are apart, and together
\* they are the disk (subdisk_for_data and subdisk_for_journal round alike).
PartsApart ==
    set["data"] # NoSet /\ set["journal"] # NoSet =>
        /\ set["data"].end = set["journal"].start
        /\ set["disk"] # NoSet => /\ set["data"].start = set["disk"].start
                                  /\ set["journal"].end = set["disk"].end

\* An I/O within its set is carried out: neither the range check nor the end of
\* the device refuses it (block_device.rs: "Returns the block range of the host
\* `block_device`").  So it is on a device that starts at sector 0; the region of a partition
\* starts at its first sector of the whole device, and each bio adds it again.
IoServed == device.geometry[1] = 0 => ~refused

\* The device is held as long as a block set of it exists (HostBlockDevice::drop
\* runs with the last RawDisk).
DeviceHeld == (\E h \in Handle : set[h] # NoSet) => device.held

\* A MemDisk never indexes behind its memory.
MemoryIndexed == ~indexed
============================================================================
