\* A cache smaller than the file: every access may evict and flush.
\* A crash comes at any time but during an internal_flush.
CONSTANTS
  ATTACHED = 1
  CHILD = 1
  NODE_SIZE = 1
  MD_USER_DATA_SIZE = 1
  Value = {z, a}
  Zero = z
  MaxSize = 4
  MaxCachePage = 3
  JournalBuf = 1000
  MaxEnc = 2
  MaxFaults = 0
  CrashPhase = {"idle", "call"}
SPECIFICATION Spec
INVARIANTS TypeOK ParentsAhead
PROPERTIES WritesLand FlushAtomicity
