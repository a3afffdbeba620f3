\* A journal that is partly on its disk, and a crash between any two writes.
\* A file that cannot be opened again stays down.
CONSTANTS
  ATTACHED = 1
  CHILD = 1
  NODE_SIZE = 1
  MD_USER_DATA_SIZE = 1
  Value = {z, a}
  Zero = z
  MaxSize = 3
  MaxCachePage = 2
  JournalBuf = 2
  MaxEnc = 2
  MaxFaults = 0
  CrashPhase = {"idle", "call", "evict", "sync", "commit"}
SPECIFICATION Spec
PROPERTY OpensOneState
CHECK_DEADLOCK FALSE
