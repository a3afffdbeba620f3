-------------------------- MODULE BlockSetsProofs --------------------------
(***************************************************************************)
(* On every device, whole or a partition, the file's data and its journal  *)
(* are given blocks of their own; and on a device that starts at sector 0  *)
(* their I/O keeps to them, although the range check of RawDisk compares a *)
(* position in the set with the end of its region.                         *)
(***************************************************************************)
EXTENDS BlockSets, TLAPS

First == DiskRegion(device.geometry).start
Last == DiskRegion(device.geometry).end
Split == First + ((Last - First) * 7) \div 8

\* The regions there can be: the disk's, from the first to the last whole block of the device;
\* the data's, from the first block; and the journal's, up to the last.  So the wrong check
\* is still enough for the data of a device that starts at sector 0, and the end of the
\* device stops the journal's I/O.
SInv ==
    /\ device.geometry \in Nat \X Nat
    /\ set \in [Handle -> {NoSet, Region(First, Last), Region(First, Split), Region(Split, Last)}]
    /\ set["disk"] # NoSet => set["disk"] = Region(First, Last)
    /\ set["data"] # NoSet => set["data"] = Region(First, Split) /\ First <= Last
    /\ set["journal"] # NoSet => set["journal"] = Region(Split, Last) /\ First <= Last
    /\ DeviceHeld
    /\ io # NoIo => /\ io.handle \in Handle /\ set[io.handle] # NoSet
                    /\ io.blocks.start >= set[io.handle].start
                    /\ device.geometry[1] = 0 => io.blocks.end <= set[io.handle].end

\* A whole number of blocks that fits a device in sectors fits it in blocks.
LEMMA FitsInBlocks ==
    ASSUME NEW s \in Nat \ {0}, NEW n \in Nat, NEW k \in Nat, k * s <= n
    PROVE  k <= n \div s
<1> DEFINE q == n \div s
<1>1. q \in Nat /\ n < (q + 1) * s
  OBVIOUS
<1>2. ASSUME k >= q + 1 PROVE k * s >= (q + 1) * s
  BY <1>1, <1>2
<1> QED BY <1>1, <1>2

\* Sectors are rounded to natural numbers of blocks.
LEMMA RoundsNatural ==
    ASSUME NEW n \in Nat PROVE n \div Sectors \in Nat
  BY SetsAssumption

\* The disk's region, and where the file cuts it.
LEMMA SizesNatural ==
    ASSUME device.geometry \in Nat \X Nat
    PROVE  /\ First \in Nat /\ Last \in Nat
           /\ First <= Last => Split \in Nat /\ First <= Split /\ Split <= Last
<1> DEFINE g == device.geometry
<1>1. g[1] \in Nat /\ g[2] \in Nat
  OBVIOUS
<1>2. g[1] + Sectors - 1 \in Nat /\ g[1] + g[2] \in Nat
  BY <1>1, SetsAssumption
<1>3. /\ g[2] \div Sectors \in Nat /\ (g[1] + Sectors - 1) \div Sectors \in Nat
      /\ (g[1] + g[2]) \div Sectors \in Nat
  BY <1>1, <1>2, RoundsNatural
<1>4. First \in Nat /\ Last \in Nat
  BY <1>3 DEF First, Last, DiskRegion, DeviceRegion, HostBlocks, Region
<1> HIDE DEF First, Last
<1> QED BY <1>4 DEF Split

\* On a device that starts at sector 0 the disk is all its whole blocks.
LEMMA WholeDevice ==
    ASSUME device.geometry \in Nat \X Nat, device.geometry[1] = 0
    PROVE  First = 0 /\ Last = device.geometry[2] \div Sectors
<1>1. (0 + Sectors - 1) \div Sectors = 0
  BY SetsAssumption
<1> QED BY <1>1 DEF First, Last, DiskRegion, DeviceRegion, HostBlocks, Region

\* There are no sets at first.
LEMMA SetStarts == SetInit => SInv
  BY DEF SetInit, SInv, DeviceHeld, Handle

\* A disk is opened on a device.
LEMMA DiskOpened ==
    ASSUME SInv, NEW d \in Geometry, OpenSet(d) PROVE SInv'
<1>1. d \in Nat \X Nat
  BY SetsAssumption
<1>2. device'.geometry = d /\ device'.held = TRUE
  BY DEF OpenSet
<1>3. DiskRegion(d) = Region(First', Last')
  BY <1>2 DEF First, Last, DiskRegion, DeviceRegion, Region
<1>4. set' = [set EXCEPT !["disk"] = Region(First', Last')]
  BY <1>3 DEF OpenSet
<1>5. \A h \in Handle : set[h] = NoSet
  BY DEF OpenSet
<1>6. io' = NoIo
  BY <1>5 DEF OpenSet, SInv
<1> HIDE DEF First, Last, Split
<1> QED BY <1>1, <1>2, <1>4, <1>5, <1>6 DEF SInv, DeviceHeld, Handle

\* The file makes one of its two subsets.
LEMMA SubsetMade ==
    ASSUME SInv, set["disk"] # NoSet, subdisk_for_data \/ subdisk_for_journal PROVE SInv'
<1>1. /\ First \in Nat /\ Last \in Nat
      /\ First <= Last => Split \in Nat /\ First <= Split /\ Split <= Last
  BY SizesNatural DEF SInv
<1>2. set["disk"] = Region(First, Last)
  BY DEF SInv
<1>a. set["disk"].start = First /\ set["disk"].end = Last
  BY <1>2 DEF Region
<1>4. UNCHANGED <<device, io>>
  BY DEF subdisk_for_data, subdisk_for_journal, Subset
<1>5. First' = First /\ Last' = Last /\ Split' = Split
  BY <1>4 DEF First, Last, Split
<1> HIDE DEF First, Last
<1>b. size("disk") = IF First <= Last THEN Last - First ELSE 0
  BY <1>a DEF size
<1>3. First <= Last
  <2>1. CASE subdisk_for_data
    <3>1. First + DataPart <= Last
      BY <2>1, <1>a DEF subdisk_for_data, Subset, Region
    <3>2. DataPart \in Nat
      BY <1>1, <1>b DEF DataPart
    <3> QED BY <3>1, <3>2, <1>1
  <2>2. CASE subdisk_for_journal
    <3>1. First + size("disk") <= Last
      BY <2>2, <1>a DEF subdisk_for_journal, Subset, Region
    <3> QED BY <3>1, <1>1, <1>b
  <2> QED BY <2>1, <2>2
<1>c. size("disk") = Last - First /\ First + DataPart = Split /\ First + size("disk") = Last
  <2>1. size("disk") = Last - First
    BY <1>3, <1>b
  <2>2. First + DataPart = Split
    BY <2>1 DEF DataPart, Split
  <2> QED BY <2>1, <2>2, <1>1
<1> HIDE DEF Split
<1>6. \/ set["data"] = NoSet /\ set' = [set EXCEPT !["data"] = Region(First, Split)]
      \/ set["journal"] = NoSet /\ set' = [set EXCEPT !["journal"] = Region(Split, Last)]
  <2>1. CASE subdisk_for_data
    <3>1. /\ set["data"] = NoSet
          /\ set' = [set EXCEPT !["data"] = Region(First + 0, First + DataPart)]
      BY <2>1, <1>a DEF subdisk_for_data, Subset, Region
    <3>2. First + 0 = First
      BY <1>1
    <3> QED BY <3>1, <3>2, <1>c
  <2>2. CASE subdisk_for_journal
    <3>1. /\ set["journal"] = NoSet
          /\ set' = [set EXCEPT !["journal"] = Region(First + DataPart, First + size("disk"))]
      BY <2>2, <1>a DEF subdisk_for_journal, Subset, Region
    <3> QED BY <3>1, <1>c
  <2> QED BY <2>1, <2>2
<1>7. "disk" \in Handle /\ "data" \in Handle /\ "journal" \in Handle
  BY DEF Handle
<1>8. DeviceHeld'
  BY <1>4, <1>7 DEF SInv, DeviceHeld
<1>9. set' \in [Handle -> {NoSet, Region(First, Last), Region(First, Split), Region(Split, Last)}]
  BY <1>6, <1>7 DEF SInv
<1>10. /\ set'["disk"] # NoSet => set'["disk"] = Region(First, Last)
       /\ set'["data"] # NoSet => set'["data"] = Region(First, Split)
       /\ set'["journal"] # NoSet => set'["journal"] = Region(Split, Last)
       /\ \A h \in Handle : set[h] # NoSet => set'[h] = set[h]
  BY <1>6, <1>7 DEF SInv
<1> QED BY <1>3, <1>4, <1>5, <1>8, <1>9, <1>10 DEF SInv

\* An I/O that is carried out starts in the region of its set, and ends in it on a device
\* that starts at sector 0.
LEMMA IoDone ==
    ASSUME SInv, NEW h \in Handle, NEW pos \in Positions(h), NEW n \in 1 .. 2, BlockIo(h, pos, n)
    PROVE  SInv'
<1> DEFINE blocks == Region(set[h].start + pos, set[h].start + pos + n)
           whole  == device.geometry[1] = 0
<1>1. /\ First \in Nat /\ Last \in Nat
      /\ First <= Last => Split \in Nat /\ First <= Split /\ Split <= Last
  BY SizesNatural DEF SInv
<1>2. UNCHANGED <<device, set>> /\ set[h] # NoSet
  BY DEF BlockIo
<1>3. First' = First /\ Last' = Last /\ Split' = Split
  BY <1>2 DEF First, Last, Split
<1>4. \/ set[h] = Region(First, Last)
      \/ First <= Last /\ set[h] \in {Region(First, Split), Region(Split, Last)}
  BY <1>2 DEF SInv, Handle
<1>5. pos \in Nat /\ n \in Nat /\ set[h].start \in Nat /\ set[h].end \in Nat
  <2> HIDE DEF First, Last, Split
  <2>1. set[h].start \in Nat /\ set[h].end \in Nat
    BY <1>1, <1>4 DEF Region
  <2> QED BY <1>2, <2>1 DEF Positions
<1>6. ASSUME InRange(h, pos, n), Accepted(device.geometry, blocks)
      PROVE  blocks.start >= set[h].start /\ (whole => blocks.end <= set[h].end)
  <2>1. device.geometry \in Nat \X Nat /\ device.geometry[2] \in Nat /\ Sectors \in Nat \ {0}
    BY SetsAssumption DEF SInv
  <2>2. blocks.end \in Nat /\ blocks.end * Sectors <= device.geometry[2]
    BY <1>5, <1>6 DEF Accepted, Region
  <2>3. blocks.end <= device.geometry[2] \div Sectors
    BY <2>1, <2>2, FitsInBlocks
  <2>4. pos + n <= set[h].end
    BY <1>6 DEF InRange
  <2>5. ASSUME whole PROVE blocks.end <= set[h].end
    <3>1. First = 0 /\ blocks.end <= Last
      BY <2>1, <2>3, <2>5, WholeDevice
    <3> HIDE DEF First, Last, Split
    <3>2. set[h].end = Last \/ set[h].start = 0
      BY <3>1, <1>4 DEF Region
    <3> QED BY <3>1, <3>2, <2>4, <1>5 DEF Region
  <2> HIDE DEF whole
  <2>6. blocks.start >= set[h].start
    BY <1>5 DEF Region
  <2> QED BY <2>5, <2>6
<1> HIDE DEF First, Last, Split
<1>7. \/ io' = NoIo
      \/ /\ io' = [handle |-> h, blocks |-> blocks] /\ blocks.start >= set[h].start
         /\ whole => blocks.end <= set[h].end
  BY <1>6 DEF BlockIo
<1>8. DeviceHeld'
  BY <1>2 DEF SInv, DeviceHeld
<1> HIDE DEF blocks
<1>9. io' # NoIo => /\ io'.handle \in Handle /\ set'[io'.handle] # NoSet
                    /\ io'.blocks.start >= set'[io'.handle].start
                    /\ device'.geometry[1] = 0 => io'.blocks.end <= set'[io'.handle].end
  BY <1>2, <1>7
<1> QED BY <1>2, <1>3, <1>8, <1>9 DEF SInv

\* A set is dropped; the last one lets the device go.
LEMMA SetDropped ==
    ASSUME SInv, NEW h \in Handle, DropSet(h) PROVE SInv'
<1>1. device'.geometry = device.geometry /\ io' = NoIo /\ set' = [set EXCEPT ![h] = NoSet]
  BY DEF DropSet
<1>2. First' = First /\ Last' = Last /\ Split' = Split
  BY <1>1 DEF First, Last, Split
<1> HIDE DEF First, Last, Split
<1>3. DeviceHeld'
  BY <1>1 DEF SInv, DeviceHeld, DropSet
<1> QED BY <1>1, <1>2, <1>3 DEF SInv, Handle

\* Every operation on a set keeps the regions.
LEMMA SetStep == ASSUME SInv, [SetNext]_setVars PROVE SInv'
<1>1. CASE UNCHANGED setVars
  BY <1>1 DEF setVars, SInv, DeviceHeld, First, Last, Split
<1>2. CASE SetNext
  BY <1>2, DiskOpened, SubsetMade, IoDone, SetDropped DEF SetNext
<1> QED BY <1>1, <1>2

\* No read or write of RawDisk or MemDisk, at whatever position, starts outside the region of
\* its set, and on a device that starts at sector 0 none ends outside it: there the data and
\* the journal do not overwrite each other.
THEOREM IoStaysInRegion == SetSpec => []IoInRegion
<1>1. SInv => IoInRegion
  BY DEF SInv, IoInRegion
<1>2. SInv /\ [SetNext]_setVars => SInv'
  BY SetStep
<1> QED BY <1>1, <1>2, SetStarts, PTL DEF SetSpec

\* subdisk_for_data and subdisk_for_journal (open.rs) cut the disk in two without a gap, on
\* every device, a partition included.
THEOREM SubsetsApart == SetSpec => []PartsApart
<1>1. SInv => PartsApart
  BY DEF SInv, PartsApart, Region
<1>2. SInv /\ [SetNext]_setVars => SInv'
  BY SetStep
<1> QED BY <1>1, <1>2, SetStarts, PTL DEF SetSpec

============================================================================
