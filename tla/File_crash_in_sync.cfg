\* No eviction, a crash during a sync, before the metadata is written.
CONSTANTS
  ATTACHED = 1
  CHILD = 1
  NODE_SIZE = 1
  MD_USER_DATA_SIZE = 1
  Value = {z, a}
  Zero = z
  MaxSize = 4
  MaxCachePage = 10
  JournalBuf = 1000
  MaxEnc = 2
  MaxFaults = 0
  CrashPhase = {"sync"}
SPECIFICATION Spec
PROPERTY SyncAtomicity
