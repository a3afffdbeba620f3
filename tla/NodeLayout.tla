----------------------------- MODULE NodeLayout -----------------------------
(***************************************************************************)
(* The numbering of the 4 KiB nodes of a protected file.                   *)
(*                                                                         *)
(* A file is a metadata node (physical number 0) that also holds the first *)
(* MD_USER_DATA_SIZE bytes of user data, followed by groups of one MHT     *)
(* (Merkle hash tree) node and ATTACHED data nodes.  The MHT nodes form a  *)
(* tree of fan-out CHILD; MHT 0 is the root, physical number 1.            *)
(*                                                                         *)
(* The numbering is written twice in the code: the file computes physical  *)
(* numbers from offsets (file/node.rs), and recovery computes logical      *)
(* numbers from physical ones (host/mod.rs).                               *)
(***************************************************************************)
EXTENDS Integers

CONSTANTS
  ATTACHED,           \* ATTACHED_DATA_NODES_COUNT: data nodes per MHT node
  CHILD,              \* CHILD_MHT_NODES_COUNT: MHT children per MHT node
  NODE_SIZE,          \* bytes (here: cells) of user data in a data node
  MD_USER_DATA_SIZE   \* bytes (here: cells) of user data in the metadata node

ASSUME LayoutAssumption ==
  /\ ATTACHED \in Nat \ {0}
  /\ CHILD \in Nat \ {0}
  /\ NODE_SIZE \in Nat \ {0}
  /\ MD_USER_DATA_SIZE \in Nat

METADATA_PHY_NUM == 0
ROOT_MHT_PHY_NUM == 1

(***************************************************************************)
(* Slips in the formulas below, to see that the properties notice them.    *)
(***************************************************************************)
DataPhysicalPacked(d)  == d + 1 + 1
ParentMhtFromOne(l)    == (l - 1) \div CHILD + 1
MhtGcmIndexByParent(l) == (l - 1) \div CHILD
DataLogicalShifted(p)  == p - 1 - ((p - 2) \div (ATTACHED + 1))

(***************************************************************************)
(* get_node_numbers: from a file offset to the logical and physical        *)
(* numbers of the data node that holds it and of that node's MHT parent.   *)
(***************************************************************************)
DataLogicNumber(offset) == (offset - MD_USER_DATA_SIZE) \div NODE_SIZE
MhtLogicNumber(d)       == d \div ATTACHED
DataPhysicalNumber(d)   == d + 1 + 1 + MhtLogicNumber(d)
MhtPhysicalNumber(d)    == DataPhysicalNumber(d) - (d % ATTACHED) - 1

\* read_mht_node / append_mht_node: where MHT node l is stored, and its parent.
MhtPosition(l) == 1 + l * (ATTACHED + 1)
ParentMht(l)   == (l - 1) \div CHILD

\* gcm_index: the slot of a child in the parent's table of keys and MACs.
DataGcmIndex(d) == d % ATTACHED
MhtGcmIndex(l)  == (l - 1) % CHILD

\* FileInner::is_data_node and RecoveryHandler::is_mht_node.
IsDataNode(p) == p # 0 /\ (p - 1) % (ATTACHED + 1) # 0
IsMhtNode(p)  == p <= 1 \/ (p - 1) % (ATTACHED + 1) = 0

\* RecoveryHandler: from the physical number of a data node back.
CalculateMhtLogicalNumber(p)  == (p - 2) \div (ATTACHED + 1)
CalculateDataLogicalNumber(p) == p - 2 - CalculateMhtLogicalNumber(p)
=============================================================================
