\* A cache that holds the whole file: only sync writes to the disks.
\* A crash comes at any time but during a sync.
CONSTANTS
  ATTACHED = 1
  CHILD = 1
  NODE_SIZE = 2
  MD_USER_DATA_SIZE = 1
  Value = {z, a}
  Zero = z
  MaxSize = 4
  MaxCachePage = 10
  JournalBuf = 1000
  MaxEnc = 2
  MaxFaults = 0
  CrashPhase = {"idle", "call"}
SPECIFICATION Spec
PROPERTY SyncAtomicity
