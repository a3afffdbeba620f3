--------------------------- MODULE DmTargetProofs ---------------------------
(***************************************************************************)
(* A target that failed to start, or was taken down, holds nothing, and    *)
(* no bio is freed early or leaked, whatever bios there are and whichever  *)
(* of the steps of ctr fail.                                               *)
(***************************************************************************)
EXTENDS DmTarget, TLAPS

\* What is held at each step of ctr and dtr: the device from the second step of ctr on,
\* and two references to the queue, one of which goes with the worker.
HeldAt ==
    /\ private <=> ctr_at \in {"ok", "dtr"}
    /\ device_ref <=> ctr_at \in {"key", "box", "join", "ok", "dtr"}
    /\ queue_refs = CASE ctr_at \in {"box", "ok"} -> 2
                      [] ctr_at = "join" -> 1
                      [] ctr_at = "dtr" -> IF kthread = "running" THEN 2 ELSE 1
                      [] OTHER -> 0
    /\ kthread \in CASE ctr_at \in {"box", "ok", "join"} -> {"running"}
                     [] ctr_at = "dtr" -> {"running", "stopped"}
                     [] OTHER -> {"none"}
    /\ stopping <=> ctr_at = "dtr"

TInv ==
    /\ ctr_at \in {"none", "failed", "args", "key", "box", "join", "ok", "dtr"}
    /\ private \in BOOLEAN /\ device_ref \in BOOLEAN /\ stopping \in BOOLEAN
    /\ bio_state \in [BioSet -> {"new", "queued", "ended", "killed"}]
    /\ bio_refs \in [BioSet -> Nat]
    /\ HeldAt /\ BiosBalanced

\* Nothing is held before the module is loaded.
LEMMA TargetStarts == TargetInit => TInv
<1> SUFFICES ASSUME TargetInit PROVE TInv
  OBVIOUS
<1>1. HeldAt
  BY DEF TargetInit, HeldAt
<1>2. BiosBalanced
  BY DEF TargetInit, BiosBalanced
<1>3. bio_state \in [BioSet -> {"new", "queued", "ended", "killed"}] /\ bio_refs \in [BioSet -> Nat]
  BY DEF TargetInit
<1> QED BY <1>1, <1>2, <1>3 DEF TargetInit, TInv

\* Every step of the module, of ctr, map and dtr, of the worker and of a submitter keeps
\* the invariant.
LEMMA TargetStep == TInv /\ [TargetNext]_targetVars => TInv'
<1> SUFFICES ASSUME TInv, [TargetNext]_targetVars PROVE TInv'
  OBVIOUS
<1> USE DEF TInv, bioStateVars, heldVars
<1>1. CASE ModuleInit \/ ModuleExit \/ CtrStart \/ CtrRefused
  BY <1>1 DEF ModuleInit, ModuleExit, CtrStart, CtrRefused, HeldAt, BiosBalanced
<1>2. CASE CtrDevice \/ CtrNoDisk \/ CtrSpawn
  <2>1. HeldAt'
    BY <1>2 DEF CtrDevice, CtrNoDisk, CtrSpawn, HeldAt
  <2> QED BY <1>2, <2>1 DEF CtrDevice, CtrNoDisk, CtrSpawn, BiosBalanced
<1>3. CASE CtrOk \/ CtrBox
  <2>1. HeldAt'
    BY <1>3 DEF CtrOk, CtrBox, HeldAt
  <2> QED BY <1>3, <2>1 DEF CtrOk, CtrBox, BiosBalanced
<1>4. CASE WorkerStop
  BY <1>4 DEF WorkerStop, HeldAt, BiosBalanced
<1>5. CASE DtrStop
  BY <1>5 DEF DtrStop, HeldAt, BiosBalanced
<1>6. CASE DtrDone
  <2>1. queue_refs = 1
    BY <1>6 DEF DtrDone, HeldAt
  <2>2. queue_refs' = 0 /\ (queue_refs - 1 > 0) = FALSE
    BY <1>6, <2>1 DEF DtrDone
  <2>3. device_ref' = FALSE
    BY <1>6, <2>2 DEF DtrDone
  <2>4. private' = FALSE /\ stopping' = FALSE /\ kthread' = "none" /\ ctr_at' = "none"
    BY <1>6 DEF DtrDone
  <2>5. HeldAt'
    BY <2>2, <2>3, <2>4 DEF HeldAt
  <2> QED BY <1>6, <2>3, <2>4, <2>5 DEF DtrDone, BiosBalanced
<1>7. ASSUME NEW b \in BioSet, MapQueue(b) \/ MapKill(b) \/ ProcessBio(b) \/ Resubmit(b)
      PROVE  TInv'
  <2>1. HeldAt'
    BY <1>7 DEF MapQueue, MapKill, ProcessBio, Resubmit, HeldAt
  <2>2. CASE MapQueue(b)
    BY <2>1, <2>2 DEF MapQueue, BiosBalanced
  <2>3. CASE MapKill(b)
    BY <2>1, <2>3 DEF MapKill, BiosBalanced
  <2>4. CASE ProcessBio(b)
    BY <2>1, <2>4 DEF ProcessBio, BiosBalanced
  <2>5. CASE Resubmit(b)
    BY <2>1, <2>5 DEF Resubmit, BiosBalanced
  <2> QED BY <1>7, <2>2, <2>3, <2>4, <2>5
<1>8. CASE UNCHANGED targetVars
  BY <1>8 DEF targetVars, HeldAt, BiosBalanced
<1> QED BY <1>1, <1>2, <1>3, <1>4, <1>5, <1>6, <1>7, <1>8 DEF TargetNext

\* Whichever of ctr's early returns was taken, and after every dtr (lib.rs), the device
\* is closed, the queue freed and the worker gone.
THEOREM TargetHoldsNothing == TargetSpec => []TargetReleases
<1>1. TInv => TargetReleases
  BY DEF TInv, HeldAt, TargetReleases
<1> QED BY <1>1, TargetStarts, TargetStep, PTL DEF TargetSpec

\* from_raw, map's results, process and Bio's drop (bio.rs) balance the references of
\* every bio.
THEOREM BioReferencesBalance == TargetSpec => []BiosBalanced
<1>1. TInv => BiosBalanced
  BY DEF TInv
<1> QED BY <1>1, TargetStarts, TargetStep, PTL DEF TargetSpec

=============================================================================
