\* Eviction between syncs, a crash outside of any flush.
CONSTANTS
  ATTACHED = 1
  CHILD = 1
  NODE_SIZE = 1
  MD_USER_DATA_SIZE = 1
  Value = {z, a}
  Zero = z
  MaxSize = 4
  MaxCachePage = 3
  JournalBuf = 1000
  MaxEnc = 2
  MaxFaults = 0
  CrashPhase = {"idle", "call"}
SPECIFICATION Spec
PROPERTY SyncAtomicity
