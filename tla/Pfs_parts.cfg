\* Files of up to 120 data nodes; three keys in the cache; three user keys and two names;
\* two records and one write error; files of up to three cells in two nodes, and a node
\* or a flush that fails in any call; a disk of two blocks, created with either of two keys.
CONSTANTS
  ATTACHED = 3
  CHILD = 2
  NODE_SIZE = 4096
  MD_USER_DATA_SIZE = 3072
  MaxNodes = 120
  Key = {11, 12, 13}
  Box = {1, 2, 3}
  Null = Null
  UserKeys = {k1, k2, zero}
  ZeroKey = zero
  FileNames = {a, b}
  AutoKeys = FALSE
  MAX_USAGES = 3
  NoFile = NoFile
  BlockCells = 2
  RecordCells = 3
  BufCells = 6
  NBlocks = 8
  MaxRecords = 2
  MaxErrors = 1
  MdCells = 1
  NodeCells = 2
  NodeCount = 2
  MaxSize = 3
  Bufs <- MCBufs
  ReadLens = {3}
  Names = {n1, n2}
  NodeFaults = TRUE
  WildSeeks = FALSE
  Drops = FALSE
  None = None
  DiskBlocks = 2
  Keys = {k0, k1}
  DefaultKey = k0
  Vecs <- MCVecs
SPECIFICATION PartsSpec
INVARIANTS RecoveryAgrees ParentsBelow SlotsDistinct
  ListLinked OpensAsWritten LogIsPrefix FlatContents SavedWhenClean
  SectorsKept ReadsWritten PanicHasCause
PROPERTIES NoBlockReused ImplementsLruOrder
CHECK_DEADLOCK FALSE
