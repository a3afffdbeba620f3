--------------------------- MODULE RefCountProofs ---------------------------
(***************************************************************************)
(* What Arc and Weak promise, for every number of references, whatever     *)
(* upgrades are made: which promises end with an upgrade that returns None *)
(* is part of the statements.                                              *)
(***************************************************************************)
EXTENDS RefCount, FiniteSetTheorems, TLAPS

(* The life of an allocation goes through eight phases; in each it is known *)
(* which references there are and what the two counts say of them.  After   *)
(* an upgrade that returned None the strong count is one too high, and      *)
(* after a late one there may be Arcs in the phases that follow InUse.      *)

Only(states) == \A r \in Ref : ref[r] \in states \cup {"none"}
Sole(st) == \E r \in Ref : ref[r] = st /\ \A s \in Ref : ref[s] = st => s = r
Arcs == Cardinality(In("arc"))
Weaks == Cardinality(In("weak"))

Missed == IF denied = "no" THEN 0 ELSE 1
Late(states) == IF denied = "late" THEN states \cup {"arc"} ELSE states

Fresh ==
  memory = "none" /\ Only({}) /\ denied = "no"
InClosure ==
  /\ memory = "allocated" /\ data = "uninit" /\ Only({"weak", "cyclic", "arc"}) /\ Sole("cyclic")
  /\ strong = Arcs + Missed /\ weak = Weaks + 1
  /\ denied # "late" /\ (denied = "no" => In("arc") = {})
InUse ==
  /\ memory = "allocated" /\ data = "alive" /\ Only({"arc", "weak"})
  /\ strong = Arcs + Missed /\ weak = Weaks + 1
  /\ denied # "late" /\ (denied = "no" => In("arc") # {})
LastArc ==
  /\ memory = "allocated" /\ data = "alive" /\ Only(Late({"weak", "drop_data"}))
  /\ Sole("drop_data")
  /\ strong = Arcs + Missed /\ weak = Weaks + 1 /\ denied # "early"
DataGone ==
  /\ memory = "allocated" /\ data = "dropped" /\ Only(Late({"weak", "drop_weak"}))
  /\ Sole("drop_weak")
  /\ strong = Arcs + Missed /\ weak = Weaks + 1 /\ denied # "early"
WeaksLeft ==
  /\ memory = "allocated" /\ data = "dropped" /\ Only(Late({"weak"})) /\ In("weak") # {}
  /\ strong = Arcs + Missed /\ weak = Weaks /\ denied # "early"
LastWeak ==
  /\ memory = "allocated" /\ data = "dropped" /\ Only(Late({"free"})) /\ Sole("free")
  /\ denied # "early"
Freed ==
  memory = "freed" /\ data = "dropped" /\ Only(Late({})) /\ denied # "early"
Undefined ==
  memory = "undefined" /\ data = "dropped" /\ denied = "late"

RInv ==
  /\ RefTypeOK
  /\ \/ Fresh \/ InClosure \/ InUse \/ LastArc \/ DataGone \/ WeaksLeft \/ LastWeak \/ Freed
     \/ Undefined

\* How one reference's change changes the sets and their sizes.
LEMMA Counts ==
  ASSUME RefTypeOK, NEW r \in Ref, NEW st, NEW k, Becomes(r, st)
  PROVE  /\ Cardinality(In(k)) \in Nat /\ (Cardinality(In(k)) = 0 <=> In(k) = {})
         /\ (ref[r] = k) = (st = k) => Cardinality(In(k))' = Cardinality(In(k))
         /\ ref[r] # k /\ st = k => Cardinality(In(k))' = Cardinality(In(k)) + 1
         /\ ref[r] = k /\ st # k => Cardinality(In(k))' = Cardinality(In(k)) - 1
<1>1. IsFiniteSet(In(k))
  BY RefFinite, FS_Subset DEF In
<1>2. Cardinality(In(k)) \in Nat /\ (Cardinality(In(k)) = 0 <=> In(k) = {})
  BY <1>1, FS_CardinalityType, FS_EmptySet
<1>3. (ref[r] = k) = (st = k) => In(k)' = In(k)
  BY DEF In, Becomes, RefTypeOK
<1>4. ASSUME ref[r] # k, st = k PROVE Cardinality(In(k))' = Cardinality(In(k)) + 1
  <2>1. In(k)' = In(k) \cup {r} /\ r \notin In(k)
    BY <1>4 DEF In, Becomes, RefTypeOK
  <2> QED BY <2>1, <1>1, FS_AddElement
<1>5. ASSUME ref[r] = k, st # k PROVE Cardinality(In(k))' = Cardinality(In(k)) - 1
  <2>1. In(k)' = In(k) \ {r} /\ r \in In(k)
    BY <1>5 DEF In, Becomes, RefTypeOK
  <2> QED BY <2>1, <1>1, FS_RemoveElement
<1> QED BY <1>2, <1>3, <1>4, <1>5

\* Before the allocation there are no references.
LEMMA RefStarts == RefInit => RInv
<1> SUFFICES ASSUME RefInit PROVE RInv
  OBVIOUS
<1>1. RefTypeOK
  BY DEF RefInit, RefTypeOK
<1>2. Fresh
  BY DEF RefInit, Fresh, Only
<1> QED BY <1>1, <1>2 DEF RInv

\* try_new and try_new_cyclic start the life of an allocation.
LEMMA Made ==
  ASSUME RInv, NEW r \in Ref, TryNew(r) \/ TryNewCyclic(r) PROVE RInv'
<1> USE DEF RInv
<1>0. RefTypeOK'
  BY DEF RefTypeOK, TryNew, TryNewCyclic, Becomes
<1>1. Fresh
  BY DEF TryNew, TryNewCyclic, InClosure, InUse, LastArc, DataGone, WeaksLeft, LastWeak, Freed,
         Undefined
<1>2. In("arc") = {} /\ In("weak") = {} /\ ref[r] = "none"
  BY <1>1 DEF Fresh, Only, In
<1>3. Arcs = 0 /\ Weaks = 0
  BY <1>2, FS_EmptySet DEF Arcs, Weaks
<1>4. CASE TryNew(r)
  <2>1. Becomes(r, "arc") /\ RefTypeOK
    BY <1>4 DEF TryNew
  <2>2. Arcs' = 1 /\ Weaks' = 0
    BY <2>1, <1>2, <1>3, Counts DEF Arcs, Weaks
  <2>3. Only({"arc", "weak"})' /\ In("arc")' # {}
    BY <2>1, <1>1 DEF Fresh, Only, In, Becomes, RefTypeOK
  <2>4. InUse'
    BY <1>4, <2>2, <2>3, <1>1 DEF TryNew, InUse, Fresh, Missed
  <2> QED BY <1>0, <2>4
<1>5. CASE TryNewCyclic(r)
  <2>1. Becomes(r, "cyclic") /\ RefTypeOK
    BY <1>5 DEF TryNewCyclic
  <2>2. Weaks' = 0 /\ Arcs' = 0 /\ In("arc")' = {}
    <3>1. Weaks' = 0 /\ Arcs' = 0
      BY <2>1, <1>2, <1>3, Counts DEF Weaks, Arcs
    <3> QED BY <3>1, <2>1, <1>2 DEF In, Becomes, RefTypeOK
  <2>3. Only({"weak", "cyclic", "arc"})' /\ Sole("cyclic")'
    BY <2>1, <1>1 DEF Fresh, Only, Sole, Becomes, RefTypeOK
  <2>4. InClosure'
    BY <1>5, <2>2, <2>3, <1>1 DEF TryNewCyclic, InClosure, Fresh, Missed
  <2> QED BY <1>0, <2>4
<1> QED BY <1>4, <1>5

\* Each kind of reference names the phases it can exist in.
LEMMA PhaseOf ==
  ASSUME RInv, memory # "undefined", NEW r \in Ref
  PROVE  /\ ref[r] = "arc" /\ ~GivenUp =>
              InClosure \/ InUse \/ LastArc \/ DataGone \/ WeaksLeft
         /\ ref[r] = "cyclic" => InClosure
         /\ ref[r] = "drop_data" => LastArc
         /\ ref[r] = "drop_weak" => DataGone
         /\ ref[r] = "free" => LastWeak
         /\ ref[r] = "weak" => InClosure \/ InUse \/ LastArc \/ DataGone \/ WeaksLeft
<1>1. CASE LastWeak
  <2>1. GivenUp
    BY <1>1 DEF LastWeak, Sole, GivenUp, In
  <2> QED BY <1>1, <2>1 DEF LastWeak, Only, Late
<1>2. CASE Freed
  BY <1>2 DEF Freed, Only, Late, GivenUp
<1>3. CASE ~LastWeak /\ ~Freed
  BY <1>3 DEF RInv, Fresh, InClosure, InUse, LastArc, DataGone, WeaksLeft, Undefined, Only, Late
<1> QED BY <1>1, <1>2, <1>3

\* A phase with an Arc, or with an upgrade that may make one.
Shared == InClosure \/ InUse \/ LastArc \/ DataGone \/ WeaksLeft

\* A new reference to the data in a phase that may have one leaves the phase as it is:
\* an Arc where there is one, or after an upgrade that returned None; or a Weak.
LEMMA Joined ==
  ASSUME RInv, Shared, NEW s \in Ref, ref[s] = "none", NEW st, Becomes(s, st),
         \/ /\ st = "arc" /\ strong' = strong + 1 /\ weak' = weak
            /\ In("arc") # {} \/ denied # "no"
         \/ st = "weak" /\ strong' = strong /\ weak' = weak + 1,
         UNCHANGED <<data, memory, denied>>
  PROVE  RInv'
<1>1. RefTypeOK /\ RefTypeOK'
  BY DEF RInv, RefTypeOK, Becomes
<1>2. Arcs \in Nat /\ Weaks \in Nat
  BY <1>1, Counts DEF Arcs, Weaks
<1>3. strong' = strong + (Arcs' - Arcs) /\ weak' = weak + (Weaks' - Weaks)
      /\ Arcs' \in Nat /\ Weaks' \in Nat
  <2>1. CASE st = "arc"
    <3>1. Arcs' = Arcs + 1 /\ Weaks' = Weaks
      BY <1>1, <2>1, Counts DEF Arcs, Weaks
    <3>2. strong' = strong + 1 /\ weak' = weak /\ strong \in Nat /\ weak \in Nat
      BY <1>1, <2>1 DEF RefTypeOK
    <3> QED BY <3>1, <3>2, <1>2
  <2>2. CASE st = "weak"
    <3>1. Arcs' = Arcs /\ Weaks' = Weaks + 1
      BY <1>1, <2>2, Counts DEF Arcs, Weaks
    <3>2. strong' = strong /\ weak' = weak + 1 /\ strong \in Nat /\ weak \in Nat
      BY <1>1, <2>2 DEF RefTypeOK
    <3> QED BY <3>1, <3>2, <1>2
  <2> QED BY <2>1, <2>2
<1>4. Missed' = Missed /\ Missed \in Nat
  BY DEF Missed
<1>5. strong = Arcs + Missed => strong' = Arcs' + Missed'
  BY <1>2, <1>3, <1>4
<1>6. (weak = Weaks => weak' = Weaks') /\ (weak = Weaks + 1 => weak' = Weaks' + 1)
  BY <1>2, <1>3
<1>7. CASE InClosure
  <2>1. Only({"weak", "cyclic", "arc"})' /\ Sole("cyclic")'
    BY <1>1, <1>7 DEF InClosure, Only, Sole, Becomes, RefTypeOK
  <2>2. denied = "no" => In("arc")' = {}
    BY <1>1, <1>7 DEF InClosure, In, Becomes, RefTypeOK
  <2> QED BY <2>1, <2>2, <1>1, <1>5, <1>6, <1>7 DEF InClosure, RInv
<1>8. CASE InUse
  <2>1. Only({"arc", "weak"})' /\ (denied = "no" => In("arc")' # {})
    BY <1>1, <1>8 DEF InUse, Only, In, Becomes, RefTypeOK
  <2> QED BY <2>1, <1>1, <1>5, <1>6, <1>8 DEF InUse, RInv
<1>9. CASE LastArc \/ DataGone \/ WeaksLeft
  <2>1. st = "arc" => denied = "late"
    BY <1>1, <1>9 DEF LastArc, DataGone, WeaksLeft, Only, Late, In, RefTypeOK
  <2>2. CASE LastArc
    <3>1. Only(Late({"weak", "drop_data"}))' /\ Sole("drop_data")'
      BY <1>1, <2>1, <2>2 DEF LastArc, Only, Late, Sole, Becomes, RefTypeOK
    <3> QED BY <3>1, <1>1, <1>5, <1>6, <2>2 DEF LastArc, RInv
  <2>3. CASE DataGone
    <3>1. Only(Late({"weak", "drop_weak"}))' /\ Sole("drop_weak")'
      BY <1>1, <2>1, <2>3 DEF DataGone, Only, Late, Sole, Becomes, RefTypeOK
    <3> QED BY <3>1, <1>1, <1>5, <1>6, <2>3 DEF DataGone, RInv
  <2>4. CASE WeaksLeft
    <3>1. Only(Late({"weak"}))' /\ In("weak")' # {}
      BY <1>1, <2>1, <2>4 DEF WeaksLeft, Only, Late, In, Becomes, RefTypeOK
    <3> QED BY <3>1, <1>1, <1>5, <1>6, <2>4 DEF WeaksLeft, RInv
  <2> QED BY <1>9, <2>2, <2>3, <2>4
<1> QED BY <1>7, <1>8, <1>9 DEF Shared

\* clone and downgrade of an Arc.
LEMMA ArcShared ==
  ASSUME RInv, memory # "undefined", NEW r \in Ref, NEW s \in Ref,
         ArcClone(r, s) \/ Downgrade(r, s)
  PROVE  RInv'
<1>1. Shared /\ In("arc") # {}
  BY PhaseOf DEF ArcClone, Downgrade, Shared, In
<1>2. CASE ArcClone(r, s)
  BY <1>1, <1>2, Joined DEF ArcClone
<1>3. CASE Downgrade(r, s)
  BY <1>1, <1>3, Joined DEF Downgrade
<1> QED BY <1>2, <1>3

\* A Weak is cloned in the same phase.
LEMMA WeakShared ==
  ASSUME RInv, memory # "undefined", NEW r \in Ref, NEW s \in Ref, WeakClone(r, s) PROVE RInv'
<1>1. Shared
  BY PhaseOf DEF WeakClone, Shared
<1> QED BY <1>1, Joined DEF WeakClone

\* The closure of try_new_cyclic has returned.
LEMMA ClosureDone ==
  ASSUME RInv, memory # "undefined", NEW r \in Ref, CyclicDone(r) PROVE RInv'
<1> USE DEF RInv
<1>0. RefTypeOK'
  BY DEF RefTypeOK, CyclicDone, Becomes
<1>1. InClosure /\ Becomes(r, "arc") /\ ref[r] = "cyclic" /\ RefTypeOK
  BY PhaseOf DEF CyclicDone
<1>2. Arcs' = Arcs + 1 /\ Weaks' = Weaks /\ Arcs \in Nat
  BY <1>1, Counts DEF Arcs, Weaks
<1>3. Missed' = Missed /\ Missed \in Nat
  BY DEF CyclicDone, Missed
<1>4. Only({"arc", "weak"})' /\ In("arc")' # {}
  BY <1>1 DEF InClosure, Only, Sole, In, Becomes, RefTypeOK
<1>5. InUse'
  BY <1>1, <1>2, <1>3, <1>4 DEF CyclicDone, InClosure, InUse
<1> QED BY <1>0, <1>5

\* upgrade: another Arc, or, with the strong count at zero, none, and a count of one.
LEMMA Upgraded ==
  ASSUME RInv, memory # "undefined", NEW r \in Ref, NEW s \in Ref, Upgrade(r, s)
  PROVE  RInv'
<1>1. Shared /\ RefTypeOK /\ ref[s] = "none"
  BY PhaseOf DEF Upgrade, Shared, RInv
<1>2. strong = Arcs + Missed /\ Arcs \in Nat /\ Missed \in Nat /\ (Arcs = 0 <=> In("arc") = {})
  <2>1. IsFiniteSet(In("arc"))
    BY RefFinite, FS_Subset DEF In
  <2>2. Arcs \in Nat /\ (Arcs = 0 <=> In("arc") = {})
    BY <2>1, FS_CardinalityType, FS_EmptySet DEF Arcs
  <2> QED BY <2>2, <1>1 DEF Shared, InClosure, InUse, LastArc, DataGone, WeaksLeft, Missed
<1>3. CASE strong # 0
  <2>1. In("arc") # {} \/ denied # "no"
    BY <1>2, <1>3 DEF Missed
  <2>2. Becomes(s, "arc") /\ strong' = strong + 1 /\ UNCHANGED <<weak, data, memory, denied>>
    BY <1>3 DEF Upgrade
  <2> QED BY <1>1, <2>1, <2>2, Joined
<1>4. CASE strong = 0
  <2>1. Arcs = 0 /\ In("arc") = {} /\ denied = "no"
    BY <1>2, <1>4 DEF Missed
  <2>2. /\ ref' = ref /\ strong' = 1 /\ UNCHANGED <<weak, data, memory>>
        /\ denied' = IF data = "uninit" THEN "early" ELSE "late"
    BY <1>4 DEF Upgrade
  <2>3. RefTypeOK'
    BY <1>1, <2>2 DEF RefTypeOK
  <2>4. Arcs' = 0 /\ Weaks' = Weaks /\ Missed' = 1 /\ In("weak")' = In("weak")
    BY <2>1, <2>2 DEF Arcs, Weaks, In, Missed
  <2>5. ~InUse
    BY <2>1 DEF InUse
  <2>6. CASE InClosure
    <3>1. InClosure'
      BY <2>2, <2>4, <2>6 DEF InClosure, Only, Sole
    <3> QED BY <3>1, <2>3 DEF RInv
  <2>7. CASE LastArc
    <3>1. LastArc'
      BY <2>1, <2>2, <2>4, <2>7 DEF LastArc, Only, Sole, Late
    <3> QED BY <3>1, <2>3 DEF RInv
  <2>8. CASE DataGone
    <3>1. DataGone'
      BY <2>1, <2>2, <2>4, <2>8 DEF DataGone, Only, Sole, Late
    <3> QED BY <3>1, <2>3 DEF RInv
  <2>9. CASE WeaksLeft
    <3>1. WeaksLeft'
      BY <2>1, <2>2, <2>4, <2>9 DEF WeaksLeft, Only, Late
    <3> QED BY <3>1, <2>3 DEF RInv
  <2> QED BY <2>5, <2>6, <2>7, <2>8, <2>9, <1>1 DEF Shared
<1> QED BY <1>1, <1>3, <1>4 DEF RefTypeOK

\* An Arc is dropped; the last one, if no upgrade ever returned None, goes on to drop
\* the data.
LEMMA ArcDropped ==
  ASSUME RInv, memory # "undefined", NEW r \in Ref, ArcDrop(r) PROVE RInv'
<1>1. Shared /\ ref[r] = "arc" /\ RefTypeOK /\ strong' = strong - 1
      /\ UNCHANGED <<weak, data, memory, denied>>
      /\ Becomes(r, IF strong = 1 THEN "drop_data" ELSE "none")
  BY PhaseOf DEF ArcDrop, Shared, RInv
<1>2. IsFiniteSet(In("arc")) /\ IsFiniteSet(In("arc")')
  BY RefFinite, FS_Subset DEF In
<1>3. Arcs \in Nat /\ Arcs # 0 /\ Weaks \in Nat /\ (Arcs' = 0 <=> In("arc")' = {})
  <2>1. Arcs \in Nat /\ (Arcs = 0 <=> In("arc") = {}) /\ (Arcs' = 0 <=> In("arc")' = {})
    BY <1>2, FS_CardinalityType, FS_EmptySet DEF Arcs
  <2>2. In("arc") # {} /\ Weaks \in Nat
    <3>1. In("arc") # {}
      BY <1>1 DEF In
    <3>2. Weaks \in Nat
      BY <1>1, Counts DEF Weaks
    <3> QED BY <3>1, <3>2
  <2> QED BY <2>1, <2>2
<1>4. Arcs' = Arcs - 1 /\ Weaks' = Weaks
  BY <1>1, Counts DEF Arcs, Weaks
<1>5. strong = Arcs + Missed /\ Missed' = Missed /\ Missed \in Nat
  BY <1>1 DEF Shared, InClosure, InUse, LastArc, DataGone, WeaksLeft, Missed
<1>6. strong' = Arcs' + Missed' /\ strong' \in Nat
  BY <1>1, <1>3, <1>4, <1>5
<1>7. RefTypeOK'
  BY <1>1, <1>6 DEF RefTypeOK, Becomes
<1>8. CASE strong = 1
  <2>1. Arcs = 1 /\ denied = "no"
    BY <1>3, <1>5, <1>8 DEF Missed
  <2>2. InUse
    BY <1>1, <2>1 DEF Shared, InClosure, LastArc, DataGone, WeaksLeft, Only, Late, In
  <2>3. In("arc")' = {} /\ Becomes(r, "drop_data")
    BY <1>1, <1>3, <1>4, <1>8, <2>1
  <2>4. Only(Late({"weak", "drop_data"}))' /\ Sole("drop_data")'
    BY <2>1, <2>2, <2>3, <1>1 DEF InUse, Only, Late, Sole, In, Becomes, RefTypeOK
  <2>5. LastArc'
    BY <2>1, <2>2, <2>4, <1>1, <1>4, <1>6 DEF InUse, LastArc
  <2> QED BY <1>7, <2>5 DEF RInv
<1>9. CASE strong # 1
  <2>1. Becomes(r, "none") /\ (denied = "no" => In("arc")' # {})
    <3>1. Becomes(r, "none")
      BY <1>1, <1>9
    <3>2. ASSUME denied = "no" PROVE Arcs' # 0
      BY <3>2, <1>3, <1>4, <1>5, <1>9 DEF Missed
    <3> QED BY <3>1, <3>2, <1>3
  <2>2. CASE InClosure
    <3>1. Only({"weak", "cyclic", "arc"})' /\ Sole("cyclic")' /\ denied # "no"
      BY <1>1, <2>1, <2>2 DEF InClosure, Only, Sole, In, Becomes, RefTypeOK
    <3>2. InClosure'
      BY <3>1, <1>1, <1>4, <1>6, <2>2 DEF InClosure
    <3> QED BY <3>2, <1>7 DEF RInv
  <2>3. CASE InUse
    <3>1. Only({"arc", "weak"})'
      BY <1>1, <2>1, <2>3 DEF InUse, Only, Becomes, RefTypeOK
    <3>2. InUse'
      BY <3>1, <1>1, <1>4, <1>6, <2>1, <2>3 DEF InUse
    <3> QED BY <3>2, <1>7 DEF RInv
  <2>4. CASE LastArc
    <3>1. Only(Late({"weak", "drop_data"}))' /\ Sole("drop_data")'
      BY <1>1, <2>1, <2>4 DEF LastArc, Only, Late, Sole, Becomes, RefTypeOK
    <3>2. LastArc'
      BY <3>1, <1>1, <1>4, <1>6, <2>4 DEF LastArc
    <3> QED BY <3>2, <1>7 DEF RInv
  <2>5. CASE DataGone
    <3>1. Only(Late({"weak", "drop_weak"}))' /\ Sole("drop_weak")'
      BY <1>1, <2>1, <2>5 DEF DataGone, Only, Late, Sole, Becomes, RefTypeOK
    <3>2. DataGone'
      BY <3>1, <1>1, <1>4, <1>6, <2>5 DEF DataGone
    <3> QED BY <3>2, <1>7 DEF RInv
  <2>6. CASE WeaksLeft
    <3>1. Only(Late({"weak"}))' /\ In("weak")' # {}
      BY <1>1, <2>1, <2>6 DEF WeaksLeft, Only, Late, In, Becomes, RefTypeOK
    <3>2. WeaksLeft'
      BY <3>1, <1>1, <1>4, <1>6, <2>6 DEF WeaksLeft
    <3> QED BY <3>2, <1>7 DEF RInv
  <2> QED BY <1>1, <2>2, <2>3, <2>4, <2>5, <2>6 DEF Shared
<1> QED BY <1>8, <1>9

\* The last Arc drops the data, and its Weak is next.
LEMMA DataDropped ==
  ASSUME RInv, memory # "undefined", NEW r \in Ref, DropData(r) PROVE RInv'
<1>1. LastArc /\ ref[r] = "drop_data" /\ RefTypeOK /\ Becomes(r, "drop_weak")
  BY PhaseOf DEF DropData, RInv
<1>2. Weaks' = Weaks /\ Arcs' = Arcs /\ Missed' = Missed
  BY <1>1, Counts DEF Weaks, Arcs, DropData, Missed
<1>3. Only(Late({"weak", "drop_weak"}))' /\ Sole("drop_weak")'
  BY <1>1 DEF DropData, LastArc, Only, Late, Sole, Becomes, RefTypeOK
<1>4. DataGone'
  BY <1>1, <1>2, <1>3 DEF DropData, LastArc, DataGone
<1>5. RefTypeOK'
  BY <1>1 DEF DropData, RefTypeOK, Becomes
<1> QED BY <1>4, <1>5 DEF RInv

\* The last Weak frees the memory.
LEMMA MemoryFreed ==
  ASSUME RInv, memory # "undefined", NEW r \in Ref, FreeMemory(r) PROVE RInv'
<1>1. LastWeak /\ ref[r] = "free" /\ RefTypeOK /\ Becomes(r, "none")
  BY PhaseOf DEF FreeMemory, RInv
<1>2. Only(Late({}))'
  BY <1>1 DEF FreeMemory, LastWeak, Only, Late, Sole, Becomes, RefTypeOK
<1>3. Freed'
  BY <1>1, <1>2 DEF FreeMemory, Freed, LastWeak
<1>4. RefTypeOK'
  BY <1>1 DEF FreeMemory, RefTypeOK, Becomes
<1> QED BY <1>3, <1>4 DEF RInv

\* A use of an Arc whose memory is given up ends what is known.
LEMMA Misused ==
  ASSUME RInv, memory # "undefined", NEW r \in Ref, UseGivenUp(r) PROVE RInv'
<1>1. LastWeak \/ Freed
  BY PhaseOf DEF RInv, UseGivenUp, GivenUp, In, Fresh, InClosure, InUse, LastArc, DataGone,
                 WeaksLeft, Undefined
<1>2. data = "dropped" /\ denied = "late"
  BY <1>1 DEF UseGivenUp, LastWeak, Freed, Only, Late
<1> QED BY <1>2 DEF RInv, UseGivenUp, Undefined, RefTypeOK

\* A Weak is dropped: the last one goes on to free the memory, and while the data is
\* there, or the Weak that all Arcs share, none is the last.
LEMMA WeakDropped ==
  ASSUME RInv, memory # "undefined", NEW r \in Ref, WeakDrop(r) PROVE RInv'
<1>1. RefTypeOK /\ weak' = weak - 1 /\ UNCHANGED <<strong, data, memory, denied>>
      /\ Becomes(r, IF weak = 1 THEN "free" ELSE "none") /\ ref[r] \in {"weak", "drop_weak"}
  BY DEF WeakDrop, RInv
<1>2. IsFiniteSet(In("weak")) /\ IsFiniteSet(In("weak")') /\ Weaks \in Nat
  <2>1. IsFiniteSet(In("weak")) /\ IsFiniteSet(In("weak")')
    BY RefFinite, FS_Subset DEF In
  <2> QED BY <2>1, FS_CardinalityType DEF Weaks
<1>3. Arcs' = Arcs /\ Missed' = Missed
  BY <1>1, Counts DEF Arcs, Missed
<1>4. CASE ref[r] = "weak" /\ ~WeaksLeft
  <2>1. Weaks # 0
    BY <1>2, <1>4, FS_EmptySet DEF Weaks, In
  <2>2. InClosure \/ InUse \/ LastArc \/ DataGone
    BY <1>4, PhaseOf
  <2>3. weak = Weaks + 1
    BY <2>2 DEF InClosure, InUse, LastArc, DataGone
  <2>4. Becomes(r, "none") /\ weak' \in Nat
    BY <1>1, <1>2, <2>1, <2>3
  <2>5. Weaks' = Weaks - 1
    BY <2>4, <1>1, <1>4, Counts DEF Weaks
  <2>6. RefTypeOK'
    BY <2>4, <1>1 DEF RefTypeOK, Becomes
  <2>7. weak' = Weaks' + 1
    BY <2>3, <2>5, <1>1, <1>2
  <2>8. In("arc")' = In("arc")
    BY <2>4, <1>1, <1>4 DEF In, Becomes, RefTypeOK
  <2>9. CASE InClosure
    <3>1. Only({"weak", "cyclic", "arc"})' /\ Sole("cyclic")'
      BY <2>4, <2>9, <1>1, <1>4 DEF InClosure, Only, Sole, Becomes, RefTypeOK
    <3>2. InClosure'
      BY <3>1, <2>7, <2>8, <2>9, <1>1, <1>3 DEF InClosure
    <3> QED BY <2>6, <3>2 DEF RInv
  <2>10. CASE InUse
    <3>1. Only({"arc", "weak"})'
      BY <2>4, <2>10, <1>1, <1>4 DEF InUse, Only, Becomes, RefTypeOK
    <3>2. InUse'
      BY <3>1, <2>7, <2>8, <2>10, <1>1, <1>3 DEF InUse
    <3> QED BY <2>6, <3>2 DEF RInv
  <2>11. CASE LastArc
    <3>1. Only(Late({"weak", "drop_data"}))' /\ Sole("drop_data")'
      BY <2>4, <2>11, <1>1, <1>4 DEF LastArc, Only, Late, Sole, Becomes, RefTypeOK
    <3>2. LastArc'
      BY <3>1, <2>7, <2>11, <1>1, <1>3 DEF LastArc
    <3> QED BY <2>6, <3>2 DEF RInv
  <2>12. CASE DataGone
    <3>1. Only(Late({"weak", "drop_weak"}))' /\ Sole("drop_weak")'
      BY <2>4, <2>12, <1>1, <1>4 DEF DataGone, Only, Late, Sole, Becomes, RefTypeOK
    <3>2. DataGone'
      BY <3>1, <2>7, <2>12, <1>1, <1>3 DEF DataGone
    <3> QED BY <2>6, <3>2 DEF RInv
  <2> QED BY <2>2, <2>9, <2>10, <2>11, <2>12
<1>5. CASE ref[r] = "drop_weak" \/ WeaksLeft
  <2>1. memory = "allocated" /\ data = "dropped" /\ strong = Arcs + Missed /\ denied # "early"
    BY <1>5, PhaseOf DEF DataGone, WeaksLeft
  <2>2. weak' = Weaks' /\ weak' \in Nat
    <3>1. CASE ref[r] = "drop_weak"
      <4>1. weak = Weaks + 1
        BY <3>1, PhaseOf DEF DataGone
      <4>2. Weaks' = Weaks
        BY <3>1, <1>1, Counts DEF Weaks
      <4> QED BY <4>1, <4>2, <1>1, <1>2
    <3>2. CASE ref[r] = "weak" /\ WeaksLeft
      <4>1. Weaks # 0 /\ weak = Weaks
        BY <1>2, <3>2, FS_EmptySet DEF Weaks, In, WeaksLeft
      <4>2. Weaks' = Weaks - 1
        BY <3>2, <1>1, Counts DEF Weaks
      <4> QED BY <4>1, <4>2, <1>1, <1>2
    <3> QED BY <3>1, <3>2, <1>1, <1>5
  <2>3. RefTypeOK'
    BY <2>2, <1>1 DEF RefTypeOK, Becomes
  <2>4. weak' = 0 <=> In("weak")' = {}
    BY <2>2, <1>2, FS_EmptySet DEF Weaks
  <2>5. \A q \in Ref : q # r => ref[q] \in Late({"weak"}) \cup {"none"}
    <3>1. CASE ref[r] = "drop_weak"
      BY <3>1, PhaseOf DEF DataGone, Only, Late, Sole
    <3>2. CASE WeaksLeft
      BY <3>2 DEF WeaksLeft, Only
    <3> QED BY <3>1, <3>2, <1>5
  <2>6. weak \in Nat
    BY <1>1 DEF RefTypeOK
  <2>7. CASE weak = 1
    <3>1. In("weak")' = {}
      BY <2>4, <2>7, <1>1
    <3>2. Only(Late({"free"}))' /\ Sole("free")'
      BY <3>1, <2>5, <2>7, <1>1 DEF Only, Late, Sole, In, Becomes, RefTypeOK
    <3>3. LastWeak'
      BY <3>2, <2>1, <1>1 DEF LastWeak
    <3> QED BY <2>3, <3>3 DEF RInv
  <2>8. CASE weak # 1
    <3>1. In("weak")' # {}
      BY <2>4, <2>6, <2>8, <1>1
    <3>2. Only(Late({"weak"}))'
      BY <2>5, <2>8, <1>1 DEF Only, Late, Becomes, RefTypeOK
    <3>3. WeaksLeft'
      BY <3>1, <3>2, <2>1, <2>2, <1>1, <1>3 DEF WeaksLeft
    <3> QED BY <2>3, <3>3 DEF RInv
  <2> QED BY <2>7, <2>8
<1> QED BY <1>1, <1>4, <1>5

\* Every operation of every thread keeps the phases.
LEMMA RefStep == RInv /\ [RefNext]_refVars => RInv'
<1> SUFFICES ASSUME RInv, [RefNext]_refVars PROVE RInv'
  OBVIOUS
<1>1. CASE UNCHANGED refVars
  <2> USE <1>1 DEF refVars, Only, Sole, Late, Missed, Arcs, Weaks, In
  <2>1. RefTypeOK'
    BY DEF RInv, RefTypeOK
  <2>2. /\ Fresh => Fresh'
        /\ InClosure => InClosure'
        /\ InUse => InUse'
    BY DEF Fresh, InClosure, InUse
  <2>3. /\ LastArc => LastArc'
        /\ DataGone => DataGone'
        /\ WeaksLeft => WeaksLeft'
    BY DEF LastArc, DataGone, WeaksLeft
  <2>4. /\ LastWeak => LastWeak'
        /\ Freed => Freed'
        /\ Undefined => Undefined'
    BY DEF LastWeak, Freed, Undefined
  <2> QED BY <2>1, <2>2, <2>3, <2>4 DEF RInv
<1>2. CASE RefNext
  BY <1>2, Made, ArcShared, WeakShared, ClosureDone, Upgraded, ArcDropped, DataDropped,
     WeakDropped, MemoryFreed, Misused DEF RefNext
<1> QED BY <1>1, <1>2

\* As long as no upgrade returned None, whoever holds an Arc (arc.rs) finds the data
\* alive, for any number of references and any interleaving of clones, downgrades,
\* upgrades and drops.
THEOREM ArcsAlive == RefSpec => []ArcAlive
<1>1. RInv => ArcAlive
  <2> SUFFICES ASSUME RInv, denied = "no", NEW r \in Ref, ref[r] \in {"arc", "drop_data"}
               PROVE  data = "alive" /\ memory = "allocated"
    BY DEF ArcAlive, In
  <2> QED BY DEF RInv, Fresh, InClosure, InUse, LastArc, DataGone, WeaksLeft, LastWeak,
                 Freed, Undefined, Only, Late, In
<1> QED BY <1>1, RefStep, RefStarts, PTL DEF RefSpec

\* The memory is freed under no reference but an Arc a late upgrade made, and with the
\* last one, unless an early upgrade returned None.
THEOREM MemoryLives == RefSpec => []MemoryLife
<1>1. RInv => MemoryLife
  <2> SUFFICES ASSUME RInv PROVE MemoryLife
    OBVIOUS
  <2>1. CASE memory = "freed"
    BY <2>1 DEF RInv, MemoryLife, Fresh, InClosure, InUse, LastArc, DataGone, WeaksLeft,
                LastWeak, Freed, Undefined, Only, Late
  <2>2. CASE memory = "allocated" /\ \A r \in Ref : ref[r] = "none"
    <3>1. InUse /\ In("arc") = {}
      BY <2>2 DEF RInv, Fresh, InClosure, LastArc, DataGone, WeaksLeft, LastWeak, Freed,
                  Undefined, Sole, In
    <3>2. denied = "early"
      BY <3>1 DEF InUse, RInv, RefTypeOK
    <3> QED BY <2>2, <3>2 DEF MemoryLife
  <2> QED BY <2>1, <2>2 DEF MemoryLife
<1> QED BY <1>1, RefStep, RefStarts, PTL DEF RefSpec

\* strong_count and weak_count are exact while the data is alive and there is an Arc, an
\* upgrade that returned None being counted as one.
THEOREM CountersExact == RefSpec => []CountsExact
<1>1. RInv => CountsExact
  <2> SUFFICES ASSUME RInv, In("arc") # {}, data = "alive"
               PROVE  StrongCount = Arcs + Missed /\ WeakCount = Weaks
    BY DEF CountsExact, Arcs, Weaks, Missed
  <2>1. InUse \/ LastArc
    BY DEF RInv, Fresh, InClosure, DataGone, WeaksLeft, LastWeak, Freed, Undefined, In, Only, Late
  <2>2. IsFiniteSet(In("arc")) /\ IsFiniteSet(In("weak"))
    BY RefFinite, FS_Subset DEF In
  <2>3. Arcs \in Nat /\ Arcs # 0 /\ Weaks \in Nat /\ Missed \in Nat
    BY <2>2, FS_CardinalityType, FS_EmptySet DEF Arcs, Weaks, Missed
  <2> QED BY <2>1, <2>3 DEF StrongCount, WeakCount, InUse, LastArc
<1> QED BY <1>1, RefStep, RefStarts, PTL DEF RefSpec
=============================================================================
