------------------------------ MODULE RefCount ------------------------------
(***************************************************************************)
(* Arc and Weak of linux/bindings: one allocation with two reference       *)
(* counts, and the references to it, each of which some thread owns.  A    *)
(* step is one atomic operation on a count, or what a thread does between  *)
(* two of them: dropping the data, freeing the memory.                     *)
(*                                                                         *)
(* A reference in state "drop_data" is an Arc that took the strong count   *)
(* to zero, "drop_weak" the Weak that Arc::drop makes after it, "free" a   *)
(* Weak that took the weak count to zero, and "cyclic" the Weak that       *)
(* try_new_cyclic lends to its closure.                                    *)
(*                                                                         *)
(* An upgrade that finds the strong count at zero returns None but leaves  *)
(* the count at one, so a second one returns an Arc, of data that is not   *)
(* there yet or no longer.  Such an Arc does not own the memory: once the  *)
(* last Weak has given it up, what a use of the Arc does is undefined, and *)
(* the behaviour ends.                                                     *)
(***************************************************************************)
EXTENDS Naturals, FiniteSets

CONSTANT Ref   \* references that may exist at a time

ASSUME RefFinite == IsFiniteSet(Ref)

VARIABLES
  ref,       \* per reference, its state
  strong,    \* ArcInner::strong
  weak,      \* ArcInner::weak
  data,      \* ArcInner::data: none, uninit, alive or dropped
  memory,    \* the box: none, allocated, freed, or undefined after a use of freed memory
  denied    \* the upgrade that returned None: none yet, one before try_new_cyclic
             \* made its Arc ("early") or one after the last Arc was gone ("late")

refVars == <<ref, strong, weak, data, memory, denied>>

In(st) == {r \in Ref : ref[r] = st}

Becomes(r, st) == ref' = [ref EXCEPT ![r] = st]

RefInit ==
  /\ ref = [r \in Ref |-> "none"]
  /\ strong = 0 /\ weak = 0 /\ data = "none" /\ memory = "none"
  /\ denied = "no"

\* The last Weak has taken the weak count to zero.
GivenUp == memory = "freed" \/ In("free") # {}

-----------------------------------------------------------------------------

TryNew(r) ==
  /\ memory = "none"
  /\ Becomes(r, "arc")
  /\ strong' = 1 /\ weak' = 1 /\ data' = "alive" /\ memory' = "allocated"
  /\ UNCHANGED denied

\* try_new_cyclic up to data_fn, which may clone the Weak it gets.
TryNewCyclic(r) ==
  /\ memory = "none"
  /\ Becomes(r, "cyclic")
  /\ strong' = 0 /\ weak' = 1 /\ data' = "uninit" /\ memory' = "allocated"
  /\ UNCHANGED denied

\* After data_fn the data is written, and the Weak turned into an Arc.  (A debug build
\* stops here if the count is not zero, as it is after an upgrade in data_fn.)
CyclicDone(r) ==
  /\ ref[r] = "cyclic"
  /\ Becomes(r, "arc")
  /\ strong' = strong + 1 /\ data' = "alive"
  /\ UNCHANGED <<weak, memory, denied>>

ArcClone(r, s) ==
  /\ ref[r] = "arc" /\ ref[s] = "none" /\ ~GivenUp
  /\ Becomes(s, "arc") /\ strong' = strong + 1
  /\ UNCHANGED <<weak, data, memory, denied>>

Downgrade(r, s) ==
  /\ ref[r] = "arc" /\ ref[s] = "none" /\ ~GivenUp
  /\ Becomes(s, "weak") /\ weak' = weak + 1
  /\ UNCHANGED <<strong, data, memory, denied>>

WeakClone(r, s) ==
  /\ ref[r] \in {"weak", "cyclic"} /\ ref[s] = "none"
  /\ Becomes(s, "weak") /\ weak' = weak + 1
  /\ UNCHANGED <<strong, data, memory, denied>>

\* A slip: whatever the count was, the caller gets an Arc.
UpgradeAlways(r, s) ==
  /\ ref[r] \in {"weak", "cyclic"} /\ ref[s] = "none"
  /\ strong' = strong + 1 /\ Becomes(s, "arc")
  /\ UNCHANGED <<weak, data, memory, denied>>

\* upgrade adds one to the strong count, and leaves it there when it was zero.
Upgrade(r, s) ==
  /\ ref[r] \in {"weak", "cyclic"} /\ ref[s] = "none"
  /\ strong' = strong + 1
  /\ \/ strong # 0 /\ Becomes(s, "arc") /\ UNCHANGED denied
     \/ /\ strong = 0 /\ UNCHANGED ref
        /\ denied' = IF data = "uninit" THEN "early" ELSE "late"
  /\ UNCHANGED <<weak, data, memory>>

ArcDrop(r) ==
  /\ ref[r] = "arc" /\ ~GivenUp
  /\ strong' = strong - 1
  /\ Becomes(r, IF strong = 1 THEN "drop_data" ELSE "none")
  /\ UNCHANGED <<weak, data, memory, denied>>

\* Any use of an Arc whose memory is given up.
UseGivenUp(r) ==
  /\ ref[r] = "arc" /\ GivenUp
  /\ memory' = "undefined"
  /\ UNCHANGED <<ref, strong, weak, data, denied>>

DropData(r) ==
  /\ ref[r] = "drop_data"
  /\ data' = "dropped" /\ Becomes(r, "drop_weak")
  /\ UNCHANGED <<strong, weak, memory, denied>>

\* A slip: the last Arc keeps the Weak that all Arcs share.
WeakDropOwn(r) ==
  /\ ref[r] \in {"weak", "drop_weak"}
  /\ weak' = (IF ref[r] = "weak" THEN weak - 1 ELSE weak)
  /\ Becomes(r, IF weak = 1 /\ ref[r] = "weak" THEN "free" ELSE "none")
  /\ UNCHANGED <<strong, data, memory, denied>>

WeakDrop(r) ==
  /\ ref[r] \in {"weak", "drop_weak"}
  /\ weak' = weak - 1
  /\ Becomes(r, IF weak = 1 THEN "free" ELSE "none")
  /\ UNCHANGED <<strong, data, memory, denied>>

FreeMemory(r) ==
  /\ ref[r] = "free"
  /\ memory' = "freed" /\ Becomes(r, "none")
  /\ UNCHANGED <<strong, weak, data, denied>>

RefNext ==
  /\ memory # "undefined"
  /\ \/ \E r \in Ref : TryNew(r) \/ TryNewCyclic(r) \/ CyclicDone(r) \/ ArcDrop(r)
                       \/ UseGivenUp(r) \/ DropData(r) \/ WeakDrop(r) \/ FreeMemory(r)
     \/ \E r, s \in Ref :
           ArcClone(r, s) \/ Downgrade(r, s) \/ WeakClone(r, s) \/ Upgrade(r, s)

RefSpec == RefInit /\ [][RefNext]_refVars

-----------------------------------------------------------------------------
(* What the counting functions return *)

StrongCount == strong

WeakCount == IF strong = 0 THEN 0 ELSE weak - 1

-----------------------------------------------------------------------------
(* Properties *)

\* Every variable has its type.
RefTypeOK ==
  /\ ref \in [Ref -> {"none", "arc", "weak", "cyclic", "drop_data", "drop_weak", "free"}]
  /\ strong \in Nat /\ weak \in Nat
  /\ data \in {"none", "uninit", "alive", "dropped"}
  /\ memory \in {"none", "allocated", "freed", "undefined"}
  /\ denied \in {"no", "early", "late"}

\* Whoever holds an Arc, or is about to drop the data as the last one, finds the data
\* there, whatever upgrades, clones and drops the other threads make, as long as every
\* upgrade so far found an Arc.  (After one that returned None the next returns an Arc of
\* dropped or uninitialized data: RefCount_upgrade.cfg.)
ArcAlive ==
  /\ denied = "no"
  /\ In("arc") \cup In("drop_data") # {}
  => data = "alive" /\ memory = "allocated"

\* arc.rs: upgrade "Returns None if the inner value has since been dropped", so no one
\* gets to hold an Arc of a dropped value.
UpgradesAlive == In("arc") # {} => data # "dropped"

\* The memory is freed under no reference but an Arc that an upgrade made of dropped
\* data, and it is freed, once, when no reference is left, unless an upgrade in the
\* closure of try_new_cyclic left the strong count one too high for ever.
MemoryLife ==
  /\ memory = "freed" =>
        \A r \in Ref : ref[r] = "none" \/ (ref[r] = "arc" /\ denied = "late")
  /\ memory = "allocated" /\ (\A r \in Ref : ref[r] = "none") => denied = "early"

\* While there is an Arc the counting functions of Arc and Weak are exact: the Weak that
\* all Arcs share is not counted, and an upgrade that returned None is.
CountsExact ==
  In("arc") # {} /\ data = "alive" =>
    /\ StrongCount = Cardinality(In("arc")) + (IF denied = "no" THEN 0 ELSE 1)
    /\ WeakCount = Cardinality(In("weak"))
=============================================================================
