----------------------------- MODULE NodeGrowth -----------------------------
(***************************************************************************)
(* A file growing at its end, one data node at a time: append_data_node,   *)
(* with append_mht_node when the new data node is the first of its group.  *)
(* owner records which node each block of the host file was given to.      *)
(***************************************************************************)
EXTENDS NodeLayout

CONSTANT MaxNodes   \* bound: the most data nodes in a file

ASSUME GrowthAssumption == MaxNodes \in Nat

VARIABLES count,    \* data nodes in the file
          owner     \* the node each block in use holds

vars == <<count, owner>>

Meta    == [kind |-> "meta", logic |-> 0]
Mht(l)  == [kind |-> "mht", logic |-> l]
Data(d) == [kind |-> "data", logic |-> d]

Extend(f, p, n) == [q \in DOMAIN f \cup {p} |-> IF q = p THEN n ELSE f[q]]

Init ==
  /\ count = 0
  /\ owner = [p \in {METADATA_PHY_NUM, ROOT_MHT_PHY_NUM} |->
                IF p = METADATA_PHY_NUM THEN Meta ELSE Mht(0)]

\* get_mht_node appends an MHT node when the offset is the first of a group.
AppendMht(f, d) ==
  LET l == MhtLogicNumber(d) IN
  IF l # 0 /\ d % ATTACHED = 0 THEN Extend(f, MhtPosition(l), Mht(l)) ELSE f

AppendDataNode ==
  /\ count < MaxNodes
  /\ count' = count + 1
  /\ owner' = Extend(AppendMht(owner, count), DataPhysicalNumber(count), Data(count))

Next == AppendDataNode

Spec == Init /\ [][Next]_vars

-----------------------------------------------------------------------------

\* The counters and the owner records have their types.
TypeOK ==
  /\ count \in 0..MaxNodes
  /\ DOMAIN owner \subseteq Nat
  /\ \A p \in DOMAIN owner :
       owner[p].kind \in {"meta", "mht", "data"} /\ owner[p].logic \in Nat

\* Growing never hands a block that is in use to another node.
NoBlockReused ==
  [][\A p \in DOMAIN owner : p \in DOMAIN owner' /\ owner'[p] = owner[p]]_vars

\* The blocks in use are a prefix of the host file: no hole, and a file of count
\* data nodes needs no more blocks than these.
NoHole ==
  DOMAIN owner = 0..(count + 1 + (IF count = 0 THEN 0 ELSE MhtLogicNumber(count - 1)))

\* Recovery, which knows a node by its block only, takes it for what the file
\* stored there: is_mht_node, is_data_node and the two calculate_*_logical_number.
\* Block 1 is the root MHT node, which file/node.rs's test takes for a data node.
RecoveryAgrees ==
  \A p \in DOMAIN owner :
    /\ IsMhtNode(p) <=> owner[p].kind # "data"
    /\ IsDataNode(p) <=> owner[p].kind = "data"
    /\ owner[p].kind = "data" =>
         /\ CalculateDataLogicalNumber(p) = owner[p].logic
         /\ MhtPosition(CalculateMhtLogicalNumber(p)) = MhtPhysicalNumber(owner[p].logic)

\* The test of is_data_node (file/node.rs, test_is_data_node), block by block:
\* "assert!(FileInner::<MemDisk>::is_data_node(1));" and six more.
TestIsDataNode ==
  count > 0 => \A p \in DOMAIN owner \cap {0, 1, 2, 98, 99, 194, 195} :
                 IsDataNode(p) <=> p \in {1, 2, 99, 194}

\* The parent of a node, as the tree has it.
ParentBlock(n) ==
  IF n.kind = "data" THEN MhtPosition(MhtLogicNumber(n.logic))
                     ELSE MhtPosition(ParentMht(n.logic))
Slot(n) == IF n.kind = "data" THEN DataGcmIndex(n.logic) ELSE MhtGcmIndex(n.logic)

Inner(p) == p > ROOT_MHT_PHY_NUM

\* Every node hangs below an MHT node that is in use and has a smaller block number
\* (update_nodes encrypts MHT nodes by descending number, "bottom layers first").
ParentsBelow ==
  \A p \in DOMAIN owner : Inner(p) =>
    LET q == ParentBlock(owner[p])
    IN q \in DOMAIN owner /\ owner[q].kind = "mht" /\ q < p

\* Two nodes below the same parent never share a slot of its GCM tables.
SlotsDistinct ==
  \A p, q \in DOMAIN owner :
    /\ Inner(p) /\ Inner(q) /\ p # q
    /\ owner[p].kind = owner[q].kind /\ ParentBlock(owner[p]) = ParentBlock(owner[q])
    => Slot(owner[p]) # Slot(owner[q])
=============================================================================
