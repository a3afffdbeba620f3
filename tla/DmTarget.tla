------------------------------ MODULE DmTarget ------------------------------
(***************************************************************************)
(* The life of the sworndisk device-mapper target: registration of the     *)
(* target type (lib.rs TargetManager, device_mapper.rs TargetType), ctr    *)
(* with every way it can fail, map, dtr, and the references it holds to    *)
(* the host device, the worker thread and the bios (bio.rs).  How bios run *)
(* through the queue is ReqQueue's; here a worker takes any of them.       *)
(*                                                                         *)
(* The device mapper (external) loads a table with ctr, maps bios while    *)
(* the table is there, unloads it with dtr when no bio is in flight, and   *)
(* keeps the module loaded as long as it has a target.                     *)
(***************************************************************************)
EXTENDS Naturals, FiniteSets

CONSTANTS
    BioSet,         \* the bios the users of the device submit
    BoxFails,       \* TRUE: the allocation at the end of ctr may fail
    IoFails         \* TRUE: reads and writes of the disk may fail

VARIABLES
    module,     \* "none", "loaded"
    ctr_at,     \* "none", the step of ctr, or the way it left: "ok", "failed"
    error,      \* dm_target's error string is set
    private,    \* dm_target.private is set
    device_ref, \* blkdev_get_by_path without its blkdev_put
    queue_refs, \* the strong references to the ReqQueue
    kthread,    \* "none", "running", "stopped"
    stopping,   \* should_stop
    bio_state,  \* per bio "new", "queued", "ended", "killed"
    bio_refs,   \* its reference count
    bio_ok      \* whether its transfer happened

targetVars == <<module, ctr_at, error, private, device_ref, queue_refs, kthread,
                stopping, bio_state, bio_refs, bio_ok>>
bioStateVars == <<bio_state, bio_refs, bio_ok>>
heldVars == <<device_ref, queue_refs, kthread, stopping>>

TargetInit ==
    /\ module = "none" /\ ctr_at = "none" /\ error = FALSE /\ private = FALSE
    /\ device_ref = FALSE /\ queue_refs = 0 /\ kthread = "none" /\ stopping = FALSE
    /\ bio_state = [b \in BioSet |-> "new"] /\ bio_refs = [b \in BioSet |-> 1]
    /\ bio_ok = [b \in BioSet |-> TRUE]

\* Module::init and TargetType::register; a failed registration loads nothing.
ModuleInit ==
    /\ module = "none" /\ module' = "loaded"
    /\ UNCHANGED <<ctr_at, error, private, heldVars, bioStateVars>>

\* TargetManager's drop unregisters the type.
ModuleExit ==
    /\ module = "loaded" /\ ctr_at \in {"none", "failed"}
    /\ module' = "none" /\ ctr_at' = "none" /\ error' = FALSE
    /\ UNCHANGED <<private, heldVars, bioStateVars>>

\* dm_ctr_fn and ctr: arguments, device, key, disk, queue and worker, box.
CtrStart ==
    /\ module = "loaded" /\ ctr_at \in {"none", "failed"}
    /\ ctr_at' = "args" /\ error' = FALSE
    /\ UNCHANGED <<module, private, heldVars, bioStateVars>>

\* The early returns before the device is open: set_error, and nothing to drop.
CtrRefused ==
    /\ ctr_at = "args"
    /\ ctr_at' = "failed" /\ error' = TRUE
    /\ UNCHANGED <<module, private, heldVars, bioStateVars>>

\* RawDisk::open and HostBlockDevice::open.
CtrDevice ==
    /\ ctr_at = "args" /\ device_ref' = TRUE /\ ctr_at' = "key"
    /\ UNCHANGED <<module, error, private, queue_refs, kthread, stopping, bioStateVars>>

\* An invalid key, or a disk that cannot be created or opened: raw_disk is dropped.
CtrNoDiskKept ==
    /\ ctr_at = "key" /\ ctr_at' = "failed" /\ error' = TRUE
    /\ UNCHANGED <<module, private, heldVars, bioStateVars>>
CtrNoDisk ==
    /\ ctr_at = "key" /\ ctr_at' = "failed" /\ error' = TRUE /\ device_ref' = FALSE
    /\ UNCHANGED <<module, private, queue_refs, kthread, stopping, bioStateVars>>

\* set_region, ReqQueue::new, spawn_req_worker: ctr and the closure hold the queue.
CtrSpawn ==
    /\ ctr_at = "key" /\ ctr_at' = "box"
    /\ queue_refs' = 2 /\ kthread' = "running" /\ stopping' = FALSE
    /\ UNCHANGED <<module, error, private, device_ref, bioStateVars>>

CtrOk ==
    /\ ctr_at = "box" /\ ctr_at' = "ok" /\ private' = TRUE
    /\ UNCHANGED <<module, error, heldVars, bioStateVars>>

\* Box::init fails: its initializer drops the queue, then the JoinHandle, whose drop
\* joins the worker.  Nobody has told it to stop: ctr stays in the join.
CtrBox ==
    /\ BoxFails /\ ctr_at = "box" /\ ctr_at' = "join"
    /\ queue_refs' = queue_refs - 1
    /\ UNCHANGED <<module, error, private, device_ref, kthread, stopping, bioStateVars>>

\* dm_map_fn and map: Bio::from_raw takes a reference; a read or write is queued,
\* anything else is dropped and killed by the device mapper.
MapQueue(b) ==
    /\ ctr_at = "ok" /\ bio_state[b] = "new"
    /\ bio_refs' = [bio_refs EXCEPT ![b] = @ + 1]
    /\ bio_state' = [bio_state EXCEPT ![b] = "queued"]
    /\ UNCHANGED <<module, ctr_at, error, private, heldVars, bio_ok>>
MapKill(b) ==
    /\ ctr_at = "ok" /\ bio_state[b] = "new"
    /\ bio_refs' = [bio_refs EXCEPT ![b] = @ + 1 - 1 - 1]
    /\ bio_state' = [bio_state EXCEPT ![b] = "killed"]
    /\ UNCHANGED <<module, ctr_at, error, private, heldVars, bio_ok>>

\* process: the disk's error is logged, bio.end() is called all the same, and the Bio
\* is dropped.  Ending drops the submitter's reference.
ProcessKept(b) ==
    /\ kthread = "running" /\ bio_state[b] = "queued"
    /\ \E ok \in {TRUE, ~IoFails} : bio_ok' = [bio_ok EXCEPT ![b] = ok]
    /\ bio_state' = [bio_state EXCEPT ![b] = "ended"]
    /\ bio_refs' = [bio_refs EXCEPT ![b] = @ - 1]
    /\ UNCHANGED <<module, ctr_at, error, private, heldVars>>
ProcessBio(b) ==
    /\ kthread = "running" /\ bio_state[b] = "queued"
    /\ \E ok \in {TRUE, ~IoFails} : bio_ok' = [bio_ok EXCEPT ![b] = ok]
    /\ bio_state' = [bio_state EXCEPT ![b] = "ended"]
    /\ bio_refs' = [bio_refs EXCEPT ![b] = @ - 1 - 1]
    /\ UNCHANGED <<module, ctr_at, error, private, heldVars>>

\* The worker leaves its loop when it is to stop, clears the queue and drops its
\* reference to it.
WorkerStop ==
    /\ kthread = "running" /\ stopping /\ \A b \in BioSet : bio_state[b] # "queued"
    /\ kthread' = "stopped" /\ queue_refs' = queue_refs - 1
    /\ UNCHANGED <<module, ctr_at, error, private, device_ref, stopping, bioStateVars>>

\* dtr: set_stopped, then join and sync; dm_dtr_fn drops private and with it the
\* queue, the disk and the device.
DtrStop ==
    /\ ctr_at = "ok" /\ ~stopping
    /\ stopping' = TRUE /\ ctr_at' = "dtr"
    /\ UNCHANGED <<module, error, private, device_ref, queue_refs, kthread, bioStateVars>>
DtrDone ==
    /\ ctr_at = "dtr" /\ kthread = "stopped"
    /\ kthread' = "none" /\ private' = FALSE
    /\ queue_refs' = queue_refs - 1 /\ device_ref' = (queue_refs - 1 > 0)
    /\ ctr_at' = "none" /\ stopping' = FALSE
    /\ UNCHANGED <<module, error, bioStateVars>>

\* The submitter issues a finished bio anew.
Resubmit(b) ==
    /\ bio_state[b] \in {"ended", "killed"}
    /\ bio_state' = [bio_state EXCEPT ![b] = "new"] /\ bio_refs' = [bio_refs EXCEPT ![b] = 1]
    /\ bio_ok' = [bio_ok EXCEPT ![b] = TRUE]
    /\ UNCHANGED <<module, ctr_at, error, private, heldVars>>

TargetNext ==
    \/ ModuleInit \/ ModuleExit \/ CtrStart \/ CtrRefused \/ CtrDevice \/ CtrNoDisk
    \/ CtrSpawn \/ CtrOk \/ CtrBox \/ WorkerStop \/ DtrStop \/ DtrDone
    \/ \E b \in BioSet : MapQueue(b) \/ MapKill(b) \/ ProcessBio(b) \/ Resubmit(b)

TargetSpec == TargetInit /\ [][TargetNext]_targetVars
TargetFair == WF_targetVars(CtrOk \/ CtrBox) /\ WF_targetVars(WorkerStop)

--------------------------------------------------------------------------
\* Whichever way ctr or dtr left, without a private nothing is held: no device, no
\* queue, no thread ("`Private` itself would be dropped automatically").
TargetReleases ==
    ctr_at \in {"none", "failed"} =>
        /\ ~private /\ ~device_ref /\ queue_refs = 0 /\ kthread = "none"

\* A bio is freed with its end and not before: from_raw's reference keeps it while it
\* is queued, and is put by then (bio.rs: "The last put of a `bio` will free it").
BiosBalanced ==
    \A b \in BioSet : bio_refs[b] = CASE bio_state[b] = "new" -> 1
                                      [] bio_state[b] = "queued" -> 2
                                      [] OTHER -> 0

\* A bio ended without an error has been transferred.
BiosHonest == \A b \in BioSet : bio_state[b] = "ended" => bio_ok[b]

\* ctr returns, with a private or without one.
CtrReturns == (ctr_at = "box") ~> (ctr_at \in {"ok", "failed"})
TargetFairSpec == TargetSpec /\ TargetFair
============================================================================
