------------------------------- MODULE MCPfs -------------------------------
(***************************************************************************)
(* The parts of the protected file around its commit protocol, in one      *)
(* instance: where nodes go as the file grows, the cache of nodes, the     *)
(* keys, the journal, the calls on a file, and the disk made of one.  A    *)
(* behaviour runs one part, chosen at the start; the others keep their     *)
(* initial states, so the state spaces add up and do not multiply.         *)
(***************************************************************************)
EXTENDS NodeGrowth, LruCache, FileKeys, Journal, PfsDisk

VARIABLE part

\* What a call writes, and the bio_vecs of a bio.
MCBufs == {<<1>>, <<0, 1>>}
MCVecs == {<<4>>, <<2, 2>>, <<1, 2, 1>>}

diskVars == <<disk, key, right, over, blame>>
allVars == <<vars, lruVars, keyVars, jVars, pfsVars, part>>

PartsInit ==
    /\ part \in {"growth", "lru", "keys", "journal", "file", "disk"}
    /\ Init /\ LruInit /\ KeysInit /\ JInit /\ PfsInit

GrowthPart ==
    /\ part = "growth" /\ Next
    /\ UNCHANGED <<lruVars, keyVars, jVars, pfsVars, part>>
LruPart ==
    /\ part = "lru" /\ LruNext
    /\ UNCHANGED <<vars, keyVars, jVars, pfsVars, part>>
KeysPart ==
    /\ part = "keys" /\ KeysNext
    /\ UNCHANGED <<vars, lruVars, jVars, pfsVars, part>>
JournalPart ==
    /\ part = "journal" /\ JNext
    /\ UNCHANGED <<vars, lruVars, keyVars, pfsVars, part>>
FilePart ==
    /\ part = "file" /\ FileNext
    /\ UNCHANGED <<vars, lruVars, keyVars, jVars, diskVars, part>>
DiskPart ==
    /\ part = "disk" /\ PfsNext
    /\ UNCHANGED <<vars, lruVars, keyVars, jVars, part>>

PartsNext == GrowthPart \/ LruPart \/ KeysPart \/ JournalPart \/ FilePart \/ DiskPart

PartsSpec == PartsInit /\ [][PartsNext]_allVars

=============================================================================
