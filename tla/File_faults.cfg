\* Eviction, and an I/O error at any read or write of the disks, with retries; writes
\* and reads go on in a file with an error.
CONSTANTS
  ATTACHED = 1
  CHILD = 1
  NODE_SIZE = 1
  MD_USER_DATA_SIZE = 1
  Value = {z, a}
  Zero = z
  MaxSize = 3
  MaxCachePage = 2
  JournalBuf = 2
  MaxEnc = 2
  MaxFaults = 1
  CrashPhase = {}
SPECIFICATION FairSpec
INVARIANTS DirtyPath FlagClear CleanIsStored
PROPERTY CallsReturn
