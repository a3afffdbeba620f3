-------------------------- MODULE NodeGrowthProofs --------------------------
(***************************************************************************)
(* For every fan-out and every file length, the numbering used when a file *)
(* grows and the numbering used by recovery agree, and no block is used    *)
(* twice.                                                                  *)
(***************************************************************************)
EXTENDS NodeGrowth, TLAPS

\* What block p must hold, from its number alone.
Expected(p) ==
  LET g == (p - 1) \div (ATTACHED + 1)
      r == (p - 1) % (ATTACHED + 1)
  IN IF p = 0 THEN Meta ELSE IF r = 0 THEN Mht(g) ELSE Data(ATTACHED * g + r - 1)

\* The inductive invariant: the blocks in use are a prefix, and each holds what its
\* number says.
IInv ==
  /\ count \in 0..MaxNodes
  /\ NoHole
  /\ \A p \in DOMAIN owner : owner[p] = Expected(p)

-----------------------------------------------------------------------------
(* Arithmetic *)

\* Euclidean division.
LEMMA DivMod ==
  ASSUME NEW a \in Nat, NEW b \in Nat \ {0}
  PROVE  /\ a \div b \in Nat /\ a % b \in Nat /\ a % b < b
         /\ a = b * (a \div b) + (a % b)
OBVIOUS

\* Quotient and remainder are unique.
LEMMA DivUnique ==
  ASSUME NEW b \in Nat \ {0}, NEW q \in Nat, NEW r \in 0..(b-1)
  PROVE  (b * q + r) \div b = q /\ (b * q + r) % b = r
OBVIOUS

\* A data node's block number gives back its group and its place in the group.
LEMMA DataBlock ==
  ASSUME NEW d \in Nat
  PROVE  LET p == DataPhysicalNumber(d) IN
         /\ p \in Nat /\ p > 1
         /\ (p - 1) \div (ATTACHED + 1) = MhtLogicNumber(d)
         /\ (p - 1) % (ATTACHED + 1) = (d % ATTACHED) + 1
         /\ (p - 2) \div (ATTACHED + 1) = MhtLogicNumber(d)
         /\ MhtLogicNumber(d) \in Nat
         /\ d = ATTACHED * MhtLogicNumber(d) + (d % ATTACHED)
<1> DEFINE l == d \div ATTACHED  r == d % ATTACHED  w == ATTACHED + 1
<1>1. ATTACHED \in Nat \ {0} /\ w \in Nat \ {0}
  BY LayoutAssumption
<1>2. l \in Nat /\ r \in Nat /\ r < ATTACHED /\ d = ATTACHED * l + r
  BY <1>1, DivMod
<1> HIDE DEF l, r
<1>3. d + 1 + 1 + l - 1 = w * l + (r + 1) /\ d + 1 + 1 + l - 2 = w * l + r
  BY <1>1, <1>2
<1>4. /\ (w * l + (r + 1)) \div w = l /\ (w * l + (r + 1)) % w = r + 1
      /\ (w * l + r) \div w = l
  <2>1. r + 1 \in 0..(w - 1) /\ r \in 0..(w - 1)
    BY <1>1, <1>2
  <2> HIDE DEF w
  <2> QED BY <1>1, <1>2, <2>1, DivUnique
<1>5. d + 1 + 1 + l \in Nat /\ d + 1 + 1 + l > 1
  BY <1>2
<1> HIDE DEF w
<1>6. /\ (d + 1 + 1 + l - 1) \div w = l /\ (d + 1 + 1 + l - 1) % w = r + 1
      /\ (d + 1 + 1 + l - 2) \div w = l
  BY <1>3, <1>4
<1> QED BY <1>1, <1>2, <1>5, <1>6 DEF DataPhysicalNumber, MhtLogicNumber, l, r, w

\* An MHT node's block number gives back its logical number.
LEMMA MhtBlock ==
  ASSUME NEW l \in Nat
  PROVE  LET p == MhtPosition(l) IN
         /\ p \in Nat /\ p > 0
         /\ (p - 1) \div (ATTACHED + 1) = l
         /\ (p - 1) % (ATTACHED + 1) = 0
<1> DEFINE w == ATTACHED + 1
<1>1. w \in Nat \ {0} /\ 0 \in 0..(w-1)
  BY LayoutAssumption
<1> HIDE DEF w
<1>2. 1 + l * w - 1 = w * l + 0 /\ 1 + l * w \in Nat /\ 1 + l * w > 0
  BY <1>1
<1>3. (w * l + 0) \div w = l /\ (w * l + 0) % w = 0
  BY <1>1, DivUnique
<1>4. (1 + l * w - 1) \div w = l /\ (1 + l * w - 1) % w = 0
  BY <1>2, <1>3
<1>5. MhtPosition(l) = 1 + l * w /\ ATTACHED + 1 = w
  BY DEF MhtPosition, w
<1> QED BY <1>1, <1>2, <1>4, <1>5, LayoutAssumption

\* Blocks hold what Expected says of them.
LEMMA ExpectedData ==
  ASSUME NEW d \in Nat
  PROVE  Expected(DataPhysicalNumber(d)) = Data(d)
<1>1. ATTACHED \in Nat /\ d % ATTACHED \in Nat
  BY LayoutAssumption, DivMod
<1> DEFINE p == DataPhysicalNumber(d)
           g == (p - 1) \div (ATTACHED + 1)
           r == (p - 1) % (ATTACHED + 1)
<1>2. /\ p \in Nat /\ p > 1 /\ g \in Nat /\ r = (d % ATTACHED) + 1
      /\ d = ATTACHED * g + (d % ATTACHED)
  BY DataBlock
<1>3. Expected(p) = IF p = 0 THEN Meta ELSE IF r = 0 THEN Mht(g)
                    ELSE Data(ATTACHED * g + r - 1)
  BY DEF Expected
<1> HIDE DEF p, g, r
<1>4. ATTACHED * g + r - 1 = d /\ r # 0 /\ p # 0
  BY <1>1, <1>2
<1> QED BY <1>3, <1>4 DEF p

\* A block that holds an MHT node is numbered as MhtPosition says.
LEMMA ExpectedMht ==
  ASSUME NEW l \in Nat
  PROVE  Expected(MhtPosition(l)) = Mht(l)
BY MhtBlock DEF Expected

-----------------------------------------------------------------------------
(* The invariant *)

\* The last block in use by a file of n data nodes.
Top(n) == n + 1 + (IF n = 0 THEN 0 ELSE MhtLogicNumber(n - 1))

\* The blocks an append takes are the next ones after the blocks in use.
LEMMA NextBlocks ==
  ASSUME NEW n \in Nat
  PROVE  /\ Top(n) \in Nat
         /\ IF MhtLogicNumber(n) # 0 /\ n % ATTACHED = 0
            THEN /\ MhtPosition(MhtLogicNumber(n)) = Top(n) + 1
                 /\ DataPhysicalNumber(n) = Top(n) + 2
            ELSE DataPhysicalNumber(n) = Top(n) + 1
         /\ Top(n + 1) = DataPhysicalNumber(n)
<1> DEFINE l == n \div ATTACHED  r == n % ATTACHED
<1>1. ATTACHED \in Nat \ {0}
  BY LayoutAssumption
<1>2. l \in Nat /\ r \in Nat /\ r < ATTACHED /\ n = ATTACHED * l + r
  BY <1>1, DivMod
<1>3. CASE n = 0
  <2>1. 0 \div ATTACHED = 0 /\ 0 % ATTACHED = 0
    BY <1>1
  <2> QED BY <1>3, <2>1 DEF Top, MhtLogicNumber, DataPhysicalNumber
<1>4. CASE n # 0 /\ r # 0
  <2> HIDE DEF l, r
  <2>1. n - 1 = ATTACHED * l + (r - 1) /\ r - 1 \in 0..(ATTACHED - 1)
    BY <1>1, <1>2, <1>4
  <2>2. (n - 1) \div ATTACHED = l
    BY <1>1, <1>2, <2>1, DivUnique
  <2> QED BY <1>2, <1>4, <2>2 DEF Top, MhtLogicNumber, DataPhysicalNumber, l, r
<1>5. CASE n # 0 /\ r = 0
  <2> HIDE DEF l, r
  <2>1. l # 0 /\ l - 1 \in Nat
    BY <1>1, <1>2, <1>5
  <2>2. n - 1 = ATTACHED * (l - 1) + (ATTACHED - 1) /\ ATTACHED - 1 \in 0..(ATTACHED - 1)
    BY <1>1, <1>2, <1>5
  <2>3. (n - 1) \div ATTACHED = l - 1
    BY <1>1, <2>1, <2>2, DivUnique
  <2>4. 1 + l * (ATTACHED + 1) = n + l + 1
    BY <1>1, <1>2, <1>5
  <2> QED BY <1>2, <1>5, <2>1, <2>3, <2>4
          DEF Top, MhtLogicNumber, DataPhysicalNumber, MhtPosition, l, r
<1> QED BY <1>2, <1>3, <1>4, <1>5

\* A new file has the metadata node and the root, and nothing else.
LEMMA InitIInv == Init => IInv
<1> SUFFICES ASSUME Init PROVE IInv
  OBVIOUS
<1>1. count \in 0..MaxNodes
  BY GrowthAssumption DEF Init
<1>2. NoHole
  BY DEF Init, NoHole, METADATA_PHY_NUM, ROOT_MHT_PHY_NUM
<1>3. Expected(0) = Meta /\ Expected(1) = Mht(0)
  <2>1. MhtPosition(0) = 1
    BY LayoutAssumption DEF MhtPosition
  <2> QED BY <2>1, ExpectedMht DEF Expected
<1>4. \A p \in DOMAIN owner : owner[p] = Expected(p)
  BY <1>3 DEF Init, METADATA_PHY_NUM, ROOT_MHT_PHY_NUM
<1> QED BY <1>1, <1>2, <1>4 DEF IInv

\* An append takes blocks that are not in use and gives each to the node its
\* number stands for.
LEMMA AppendStep ==
  ASSUME IInv, AppendDataNode
  PROVE  /\ IInv'
         /\ \A p \in DOMAIN owner : p \in DOMAIN owner' /\ owner'[p] = owner[p]
<1> DEFINE l == MhtLogicNumber(count)
           mid == AppendMht(owner, count)
           p0 == DataPhysicalNumber(count)
           first == l # 0 /\ count % ATTACHED = 0
<1>1. count \in Nat /\ count' = count + 1 /\ count' \in 0..MaxNodes
  BY GrowthAssumption DEF IInv, AppendDataNode
<1>2. l \in Nat /\ p0 \in Nat
  BY <1>1, DataBlock
<1>3. DOMAIN owner = 0..Top(count) /\ Top(count) \in Nat
  BY <1>1, NextBlocks DEF IInv, NoHole, Top
<1>4. /\ first => MhtPosition(l) = Top(count) + 1 /\ p0 = Top(count) + 2
      /\ ~first => p0 = Top(count) + 1
      /\ Top(count + 1) = p0
  BY <1>1, NextBlocks
<1>5. /\ DOMAIN mid = 0..(p0 - 1)
      /\ \A p \in DOMAIN mid : mid[p] = Expected(p)
      /\ \A p \in DOMAIN owner : mid[p] = owner[p]
  <2>1. CASE first
    <3>1. mid = Extend(owner, MhtPosition(l), Mht(l))
      BY <2>1 DEF AppendMht
    <3>2. Expected(MhtPosition(l)) = Mht(l)
      BY <1>2, ExpectedMht
    <3> HIDE DEF mid, l, p0, first
    <3>3. DOMAIN mid = (0..Top(count)) \cup {MhtPosition(l)}
      BY <1>3, <3>1 DEF Extend
    <3>4. MhtPosition(l) \notin DOMAIN owner
      BY <1>3, <1>4, <2>1
    <3> QED BY <1>3, <1>4, <2>1, <3>1, <3>2, <3>3, <3>4 DEF Extend, IInv
  <2>2. CASE ~first
    <3>1. mid = owner
      BY <2>2 DEF AppendMht
    <3> HIDE DEF mid, p0, first
    <3> QED BY <1>3, <1>4, <2>2, <3>1 DEF IInv
  <2> QED BY <2>1, <2>2
<1>6. owner' = Extend(mid, p0, Data(count))
  BY DEF AppendDataNode
<1>7. Expected(p0) = Data(count)
  BY <1>1, ExpectedData
<1> HIDE DEF mid, p0, l, first
<1>8. DOMAIN owner' = 0..Top(count') /\ p0 \notin DOMAIN owner
  BY <1>1, <1>2, <1>3, <1>4, <1>5, <1>6 DEF Extend
<1>9. \A p \in DOMAIN owner' : owner'[p] = Expected(p)
  BY <1>5, <1>6, <1>7 DEF Extend
<1>10. NoHole'
  BY <1>8 DEF NoHole, Top
<1>11. \A p \in DOMAIN owner : p \in DOMAIN owner' /\ owner'[p] = owner[p]
  BY <1>2, <1>3, <1>4, <1>5, <1>6, <1>8 DEF Extend
<1>12. (\A p \in DOMAIN owner : owner[p] = Expected(p))'
  BY <1>9 DEF Expected, Meta, Mht, Data
<1> QED BY <1>1, <1>10, <1>11, <1>12 DEF IInv

\* IInv holds in every file that grew by append_data_node.
LEMMA Inductive == Spec => []IInv
<1>1. IInv /\ [Next]_vars => IInv'
  <2> SUFFICES ASSUME IInv, [Next]_vars PROVE IInv'
    OBVIOUS
  <2>1. CASE Next
    BY <2>1, AppendStep DEF Next
  <2>2. CASE UNCHANGED vars
    BY <2>2 DEF vars, IInv, NoHole, Expected
  <2> QED BY <2>1, <2>2
<1> QED BY <1>1, InitIInv, PTL DEF Spec

-----------------------------------------------------------------------------
(* What the invariant says of one block *)

\* A block beyond the root is p = w*g + r + 1 with w = ATTACHED + 1: an MHT node
\* g when r = 0, and data node ATTACHED*g + r - 1 of group g otherwise.
Place(p, g, r) ==
  /\ r <= ATTACHED
  /\ p = (ATTACHED + 1) * g + r + 1
  /\ (p - 1) % (ATTACHED + 1) = r
  /\ r = 0 => g > 0 /\ owner[p] = Mht(g) /\ p = MhtPosition(g)
  /\ r # 0 => LET d == ATTACHED * g + r - 1 IN
       /\ d \in Nat /\ owner[p] = Data(d)
       /\ MhtLogicNumber(d) = g /\ d % ATTACHED = r - 1
       /\ CalculateMhtLogicalNumber(p) = g

\* Every block after the root has a place: a group and an index in it.
LEMMA InnerBlock ==
  ASSUME IInv, NEW p \in DOMAIN owner, p > 1
  PROVE  \E g \in Nat, r \in Nat : Place(p, g, r)
<1> DEFINE w == ATTACHED + 1  g == (p - 1) \div w  r == (p - 1) % w
<1>1. ATTACHED \in Nat \ {0} /\ w \in Nat \ {0}
  BY LayoutAssumption
<1>2. p \in Nat
  <2>1. count \in Nat
    BY GrowthAssumption DEF IInv
  <2> QED BY <2>1, NextBlocks DEF IInv, NoHole, Top
<1>3. p - 1 \in Nat
  BY <1>2
<1>4. g \in Nat /\ r \in Nat /\ r < w /\ p - 1 = w * g + r
  <2> HIDE DEF w
  <2> QED BY <1>1, <1>3, DivMod
<1>5. owner[p] = IF p = 0 THEN Meta ELSE IF r = 0 THEN Mht(g) ELSE Data(ATTACHED * g + r - 1)
  BY DEF IInv, Expected
<1> HIDE DEF g, r
<1>6. r <= ATTACHED /\ p = w * g + r + 1
  BY <1>1, <1>2, <1>4
<1>7. ASSUME r = 0 PROVE g > 0 /\ owner[p] = Mht(g) /\ p = MhtPosition(g)
  <2>1. owner[p] = Mht(g)
    BY <1>2, <1>5, <1>7
  <2>2. p = 1 + g * (ATTACHED + 1)
    BY <1>1, <1>4, <1>6, <1>7
  <2>3. g # 0
    BY <1>1, <1>4, <1>6, <1>7
  <2> QED BY <1>4, <2>1, <2>2, <2>3 DEF MhtPosition
<1>8. ASSUME r # 0
      PROVE  LET d == ATTACHED * g + r - 1 IN
             /\ d \in Nat /\ owner[p] = Data(d)
             /\ MhtLogicNumber(d) = g /\ d % ATTACHED = r - 1
             /\ CalculateMhtLogicalNumber(p) = g
  <2>1. /\ r - 1 \in 0..(ATTACHED - 1) /\ r - 1 \in 0..(w - 1)
        /\ ATTACHED * g \in Nat
        /\ ATTACHED * g + r - 1 = ATTACHED * g + (r - 1)
    BY <1>1, <1>4, <1>6, <1>8
  <2>2. /\ (ATTACHED * g + (r - 1)) \div ATTACHED = g
        /\ (ATTACHED * g + (r - 1)) % ATTACHED = r - 1
    BY <1>1, <1>4, <2>1, DivUnique
  <2>3. p - 2 = w * g + (r - 1)
    BY <1>1, <1>2, <1>4
  <2>4. (p - 2) \div w = g
    <3> HIDE DEF w
    <3>1. (w * g + (r - 1)) \div w = g
      BY <1>1, <1>4, <2>1, DivUnique
    <3> QED BY <2>3, <3>1
  <2>5. ATTACHED * g + r - 1 \in Nat
    BY <2>1
  <2>6. owner[p] = Data(ATTACHED * g + r - 1)
    BY <1>5, <1>8
  <2> QED BY <2>1, <2>2, <2>4, <2>5, <2>6 DEF MhtLogicNumber, CalculateMhtLogicalNumber
<1> QED BY <1>4, <1>6, <1>7, <1>8 DEF r, Place

-----------------------------------------------------------------------------
(* Theorems *)

\* Type correctness of the growing file.
THEOREM TypeCorrect == Spec => []TypeOK
<1>1. IInv => TypeOK
  <2> SUFFICES ASSUME IInv PROVE TypeOK
    OBVIOUS
  <2>1. count \in Nat /\ DOMAIN owner \subseteq Nat
    <3>1. count \in Nat
      BY GrowthAssumption DEF IInv
    <3> QED BY <3>1, NextBlocks DEF IInv, NoHole, Top
  <2>2. ASSUME NEW p \in DOMAIN owner
        PROVE  owner[p].kind \in {"meta", "mht", "data"} /\ owner[p].logic \in Nat
    <3>1. CASE p > 1
      BY <3>1, InnerBlock DEF Place, Mht, Data
    <3>2. CASE ~(p > 1)
      <4>1. p = 0 \/ p = 1
        BY <2>1, <3>2
      <4>2. Expected(0) = Meta /\ Expected(1) = Mht(0)
        <5>1. MhtPosition(0) = 1
          BY LayoutAssumption DEF MhtPosition
        <5> QED BY <5>1, ExpectedMht DEF Expected
      <4> QED BY <4>1, <4>2 DEF IInv, Meta, Mht
    <3> QED BY <3>1, <3>2
  <2> QED BY <2>1, <2>2 DEF TypeOK, IInv
<1> QED BY <1>1, Inductive, PTL

\* append_data_node and append_mht_node leave no hole in the host file.
THEOREM GrowthIsDense == Spec => []NoHole
<1>1. IInv => NoHole
  BY DEF IInv
<1> QED BY <1>1, Inductive, PTL

\* append_data_node and append_mht_node never give away a block that is in use.
THEOREM GrowthKeepsBlocks == Spec => NoBlockReused
<1>1. IInv /\ [Next]_vars =>
        [\A p \in DOMAIN owner : p \in DOMAIN owner' /\ owner'[p] = owner[p]]_vars
  BY AppendStep DEF Next
<1> QED BY <1>1, Inductive, PTL DEF Spec, NoBlockReused

\* Recovery's inverse numbering agrees with the numbering of the file.
THEOREM RecoveryNumbering == Spec => []RecoveryAgrees
<1>1. IInv => RecoveryAgrees
  <2> SUFFICES ASSUME IInv, NEW p \in DOMAIN owner
               PROVE  /\ IsMhtNode(p) <=> owner[p].kind # "data"
                      /\ IsDataNode(p) <=> owner[p].kind = "data"
                      /\ owner[p].kind = "data" =>
                           /\ CalculateDataLogicalNumber(p) = owner[p].logic
                           /\ MhtPosition(CalculateMhtLogicalNumber(p)) =
                                MhtPhysicalNumber(owner[p].logic)
    BY DEF RecoveryAgrees
  <2>1. ATTACHED \in Nat \ {0} /\ p \in Nat
    <3>1. count \in Nat
      BY GrowthAssumption DEF IInv
    <3> QED BY <3>1, LayoutAssumption, NextBlocks DEF IInv, NoHole, Top
  <2>2. CASE p > 1
    <3>1. PICK g \in Nat, r \in Nat : Place(p, g, r)
      BY <2>2, InnerBlock
    <3>2. CASE r = 0
      BY <2>1, <2>2, <3>1, <3>2 DEF Place, IsMhtNode, IsDataNode, Mht
    <3>3. CASE r # 0
      <4> DEFINE d == ATTACHED * g + r - 1
      <4>1. /\ owner[p].kind = "data" /\ owner[p].logic = d /\ d \in Nat
            /\ MhtLogicNumber(d) = g /\ d % ATTACHED = r - 1
            /\ CalculateMhtLogicalNumber(p) = g
        BY <3>1, <3>3 DEF Place, Data
      <4>2. p - 2 - g = d
        BY <2>1, <3>1 DEF Place
      <4>3. 1 + g * (ATTACHED + 1) = d + 1 + 1 + g - (r - 1) - 1
        BY <2>1, <3>1 DEF Place
      <4>4. MhtPosition(g) = MhtPhysicalNumber(d)
        <5> HIDE DEF d
        <5> QED BY <4>1, <4>3 DEF MhtPosition, MhtPhysicalNumber, DataPhysicalNumber
      <4>5. CalculateDataLogicalNumber(p) = d
        <5> HIDE DEF d
        <5> QED BY <4>1, <4>2 DEF CalculateDataLogicalNumber
      <4>6. IsDataNode(p) /\ ~IsMhtNode(p)
        BY <2>1, <2>2, <3>1, <3>3 DEF Place, IsDataNode, IsMhtNode
      <4> QED BY <4>1, <4>4, <4>5, <4>6
    <3> QED BY <3>2, <3>3
  <2>3. CASE ~(p > 1)
    <3>1. p = 0 \/ p = 1
      BY <2>1, <2>3
    <3>2. MhtPosition(0) = 1
      BY <2>1 DEF MhtPosition
    <3>3. Expected(0) = Meta /\ Expected(1) = Mht(0)
      BY <3>2, ExpectedMht DEF Expected
    <3>4. (1 - 1) % (ATTACHED + 1) = 0
      BY <2>1
    <3> QED BY <3>1, <3>3, <3>4 DEF IInv, Meta, Mht, IsDataNode, IsMhtNode
  <2> QED BY <2>2, <2>3
<1> QED BY <1>1, Inductive, PTL

\* A tree in which every node's parent has a smaller block number: encrypting MHT
\* nodes by descending number, as update_nodes does, goes from the bottom up.
THEOREM TreeIsOrdered == Spec => []ParentsBelow
<1>1. IInv => ParentsBelow
  <2> SUFFICES ASSUME IInv, NEW p \in DOMAIN owner, p > 1
               PROVE  LET q == ParentBlock(owner[p])
                      IN q \in DOMAIN owner /\ owner[q].kind = "mht" /\ q < p
    BY DEF ParentsBelow, Inner, ROOT_MHT_PHY_NUM
  <2>1. /\ ATTACHED \in Nat \ {0} /\ CHILD \in Nat \ {0}
        /\ p \in Nat /\ \A q \in Nat : q < p => q \in DOMAIN owner
    <3>1. count \in Nat
      BY GrowthAssumption DEF IInv
    <3>2. DOMAIN owner = 0..Top(count) /\ Top(count) \in Nat
      BY <3>1, NextBlocks DEF IInv, NoHole, Top
    <3> QED BY <3>2, LayoutAssumption
  <2>2. ASSUME NEW l \in Nat, MhtPosition(l) < p
        PROVE  MhtPosition(l) \in DOMAIN owner /\ owner[MhtPosition(l)].kind = "mht"
    <3>1. MhtPosition(l) \in DOMAIN owner
      BY <2>1, <2>2, MhtBlock
    <3>2. owner[MhtPosition(l)] = Mht(l)
      BY <3>1, ExpectedMht DEF IInv
    <3> QED BY <3>1, <3>2 DEF Mht
  <2>3. PICK g \in Nat, r \in Nat : Place(p, g, r)
    BY InnerBlock
  <2>4. CASE r # 0
    <3>1. ParentBlock(owner[p]) = MhtPosition(g)
      BY <2>3, <2>4 DEF Place, ParentBlock, Data
    <3>2. MhtPosition(g) < p
      BY <2>1, <2>3, <2>4 DEF Place, MhtPosition
    <3> QED BY <2>2, <3>1, <3>2
  <2>5. CASE r = 0
    <3> DEFINE l == (g - 1) \div CHILD
    <3>1. ParentBlock(owner[p]) = MhtPosition(l)
      BY <2>3, <2>5 DEF Place, ParentBlock, Mht, ParentMht
    <3>2. l \in Nat /\ l < g
      <4>1. g - 1 \in Nat
        BY <2>3, <2>5 DEF Place
      <4>2. l \in Nat /\ (g - 1) % CHILD \in Nat /\ g - 1 = CHILD * l + ((g - 1) % CHILD)
        BY <2>1, <4>1, DivMod
      <4> HIDE DEF l
      <4>3. CHILD * l >= l
        BY <2>1, <4>2
      <4>4. CHILD * l \in Nat /\ CHILD * l <= g - 1
        BY <2>1, <4>1, <4>2
      <4> QED BY <4>1, <4>2, <4>3, <4>4
    <3> HIDE DEF l
    <3>3. p = 1 + g * (ATTACHED + 1)
      BY <2>3, <2>5 DEF Place, MhtPosition
    <3>4. 1 + l * (ATTACHED + 1) < 1 + g * (ATTACHED + 1)
      <4>1. PICK k \in Nat : g = l + k + 1
        <5>1. g - l - 1 \in Nat /\ g = l + (g - l - 1) + 1
          BY <3>2
        <5> QED BY <5>1
      <4>2. g * (ATTACHED + 1) = l * (ATTACHED + 1) + k * (ATTACHED + 1) + (ATTACHED + 1)
        BY <2>1, <3>2, <4>1
      <4>3. /\ k * (ATTACHED + 1) \in Nat /\ l * (ATTACHED + 1) \in Nat
        BY <2>1, <3>2, <4>1
      <4> QED BY <2>1, <4>2, <4>3
    <3>5. MhtPosition(l) < p
      BY <3>3, <3>4 DEF MhtPosition
    <3> QED BY <2>2, <3>1, <3>2, <3>5
  <2> QED BY <2>3, <2>4, <2>5
<1> QED BY <1>1, Inductive, PTL

\* No two children of an MHT node share a slot of its tables of keys and MACs, so
\* that the table may be seen as indexed by the child.
THEOREM SlotsAreDistinct == Spec => []SlotsDistinct
<1>1. IInv => SlotsDistinct
  <2> SUFFICES ASSUME IInv, NEW p \in DOMAIN owner, NEW q \in DOMAIN owner,
                      p > 1, q > 1, owner[p].kind = owner[q].kind,
                      ParentBlock(owner[p]) = ParentBlock(owner[q]),
                      Slot(owner[p]) = Slot(owner[q])
               PROVE  p = q
    BY DEF SlotsDistinct, Inner, ROOT_MHT_PHY_NUM
  <2>1. ATTACHED \in Nat \ {0} /\ CHILD \in Nat \ {0}
    BY LayoutAssumption
  <2>2. PICK g \in Nat, r \in Nat : Place(p, g, r)
    BY InnerBlock
  <2>3. PICK h \in Nat, s \in Nat : Place(q, h, s)
    BY InnerBlock
  <2>4. \A a, b \in Nat : MhtPosition(a) = MhtPosition(b) => a = b
    <3> SUFFICES ASSUME NEW a \in Nat, NEW b \in Nat, MhtPosition(a) = MhtPosition(b)
                 PROVE  a = b
      OBVIOUS
    <3>1. (MhtPosition(a) - 1) \div (ATTACHED + 1) = a
      BY MhtBlock
    <3>2. (MhtPosition(b) - 1) \div (ATTACHED + 1) = b
      BY MhtBlock
    <3> QED BY <3>1, <3>2
  <2>5. CASE r # 0
    <3>1. s # 0
      BY <2>2, <2>3, <2>5 DEF Place, Data, Mht
    <3>2. /\ ParentBlock(owner[p]) = MhtPosition(g) /\ Slot(owner[p]) = r - 1
      BY <2>2, <2>5 DEF Place, ParentBlock, Slot, Data, DataGcmIndex
    <3>3. /\ ParentBlock(owner[q]) = MhtPosition(h) /\ Slot(owner[q]) = s - 1
      BY <2>3, <3>1 DEF Place, ParentBlock, Slot, Data, DataGcmIndex
    <3>4. g = h
      BY <2>4, <3>2, <3>3
    <3>5. r = s
      <4>1. r - 1 = s - 1
        BY <3>2, <3>3
      <4> QED BY <4>1
    <3> QED BY <2>2, <2>3, <3>4, <3>5 DEF Place
  <2>6. CASE r = 0
    <3>1. s = 0
      BY <2>2, <2>3, <2>6 DEF Place, Data, Mht
    <3>2. /\ ParentBlock(owner[p]) = MhtPosition((g - 1) \div CHILD)
          /\ Slot(owner[p]) = (g - 1) % CHILD /\ g - 1 \in Nat
      BY <2>2, <2>6 DEF Place, ParentBlock, Slot, Mht, ParentMht, MhtGcmIndex
    <3>3. /\ ParentBlock(owner[q]) = MhtPosition((h - 1) \div CHILD)
          /\ Slot(owner[q]) = (h - 1) % CHILD /\ h - 1 \in Nat
      BY <2>3, <3>1 DEF Place, ParentBlock, Slot, Mht, ParentMht, MhtGcmIndex
    <3>4. /\ (g - 1) \div CHILD \in Nat /\ g - 1 = CHILD * ((g - 1) \div CHILD) + ((g - 1) % CHILD)
      BY <2>1, <3>2, DivMod
    <3>5. /\ (h - 1) \div CHILD \in Nat /\ h - 1 = CHILD * ((h - 1) \div CHILD) + ((h - 1) % CHILD)
      BY <2>1, <3>3, DivMod
    <3>6. (g - 1) \div CHILD = (h - 1) \div CHILD /\ (g - 1) % CHILD = (h - 1) % CHILD
      BY <2>4, <3>2, <3>3, <3>4, <3>5
    <3>7. g = h
      BY <3>4, <3>5, <3>6
    <3> QED BY <2>2, <2>3, <2>6, <3>1, <3>7 DEF Place
  <2> QED BY <2>5, <2>6
<1> QED BY <1>1, Inductive, PTL
=============================================================================
