\* The constants of sys/node.rs and sys/metadata.rs, a file of two groups of data nodes.
CONSTANTS
  ATTACHED = 96
  CHILD = 32
  NODE_SIZE = 4096
  MD_USER_DATA_SIZE = 3072
  MaxNodes = 192
SPECIFICATION Spec
INVARIANT TestIsDataNode
CHECK_DEADLOCK FALSE
