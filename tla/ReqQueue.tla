------------------------------ MODULE ReqQueue ------------------------------
(***************************************************************************)
(* The dm-sworndisk target: map hands bios to a queue, a kernel thread     *)
(* takes them off and processes them, and dtr stops the thread, joins it   *)
(* and syncs the disk.                                                     *)
(*                                                                         *)
(* Each map call runs on a thread of its own, named by its bio.  A step is *)
(* what happens under one lock, or one access to shared memory.  A wait on *)
(* a condition variable gives up its lock and sleeps in one step; kernel   *)
(* threads take no signals, so it is left by a notification only.          *)
(***************************************************************************)
EXTENDS Naturals, Sequences, SequencesExt

CONSTANT Bios   \* the bios the device mapper hands to map

VARIABLES
  map,          \* per bio, where its map call is
  bios,         \* ReqQueue::bios
  locked,       \* the worker holds the lock of bios (others never keep it)
  should_stop,  \* ReqQueue::should_stop
  worker,       \* where the worker is
  bio,          \* the bio it processes, as a sequence of none or one
  dtr,          \* where the destructor is
  finished,     \* ThreadItem::value is set
  item,         \* the ThreadItem has not been dropped
  pushed,       \* history: bios in the order they were enqueued
  ended,        \* history: bios in the order they were ended
  synced        \* history: bios ended when the disk was last synced

vars == <<map, bios, locked, should_stop, worker, bio, dtr, finished, item, pushed,
          ended, synced>>

Init ==
  /\ map = [b \in Bios |-> "none"] /\ bios = <<>> /\ locked = FALSE
  /\ should_stop = FALSE /\ worker = "check" /\ bio = <<>>
  /\ dtr = "none" /\ finished = FALSE /\ item = TRUE
  /\ pushed = <<>> /\ ended = <<>> /\ synced = {}

-----------------------------------------------------------------------------
(* map: enqueue *)

\* A slip: the last bio is the first to be taken.
PushFront(b) ==
  /\ map[b] = "none" /\ dtr = "none" /\ ~locked
  /\ bios' = <<b>> \o bios /\ pushed' = Append(pushed, b)
  /\ map' = [map EXCEPT ![b] = "notify"]
  /\ UNCHANGED <<locked, should_stop, worker, bio, dtr, finished, item, ended, synced>>

\* The device mapper maps no bio once it destroys the target.
Push(b) ==
  /\ map[b] = "none" /\ dtr = "none" /\ ~locked
  /\ bios' = Append(bios, b) /\ pushed' = Append(pushed, b)
  /\ map' = [map EXCEPT ![b] = "notify"]
  /\ UNCHANGED <<locked, should_stop, worker, bio, dtr, finished, item, ended, synced>>

\* A slip: the notification is forgotten.
WokenNever == worker

\* CondVar::notify_one, notify_all: the worker is the only one that waits.
Woken == IF worker = "wait" THEN "relock" ELSE worker

NotifyOne(b) ==
  /\ map[b] = "notify"
  /\ map' = [map EXCEPT ![b] = "submitted"]
  /\ worker' = Woken
  /\ UNCHANGED <<bios, locked, should_stop, bio, dtr, finished, item, pushed, ended, synced>>

-----------------------------------------------------------------------------
(* The worker *)

Check ==
  /\ worker = "check"
  /\ worker' = IF should_stop THEN "clear" ELSE "lock"
  /\ UNCHANGED <<map, bios, locked, should_stop, bio, dtr, finished, item, pushed,
                 ended, synced>>

\* Under the lock: take a bio, or wait.
Pop ==
  /\ worker = "lock" /\ ~locked
  /\ IF bios = <<>> THEN worker' = "wait" /\ UNCHANGED <<bios, bio>>
     ELSE worker' = "process" /\ bio' = <<Head(bios)>> /\ bios' = Tail(bios)
  /\ UNCHANGED <<map, locked, should_stop, dtr, finished, item, pushed, ended, synced>>

\* wait takes the lock again; continue drops it.
Relock ==
  /\ worker = "relock" /\ ~locked
  /\ worker' = "check"
  /\ UNCHANGED <<map, bios, locked, should_stop, bio, dtr, finished, item, pushed,
                 ended, synced>>

\* process, up to bio.end.
Process ==
  /\ worker \in {"process", "process_clear"}
  /\ worker' = IF worker = "process" THEN "check" ELSE "clear"
  /\ ended' = ended \o bio /\ bio' = <<>> /\ locked' = FALSE
  /\ UNCHANGED <<map, bios, should_stop, dtr, finished, item, pushed, synced>>

\* A slip: the thread ends without clearing the queue.
ClearNothing ==
  /\ worker = "clear" /\ worker' = "value"
  /\ UNCHANGED <<map, bios, locked, bio, should_stop, dtr, finished, item, pushed, ended,
                 synced>>

\* clear: the guard in the loop's head lives through the body.
Clear ==
  /\ worker = "clear" /\ ~locked
  /\ IF bios = <<>> THEN worker' = "value" /\ UNCHANGED <<bios, bio, locked>>
     ELSE /\ worker' = "process_clear" /\ locked' = TRUE
          /\ bio' = <<Head(bios)>> /\ bios' = Tail(bios)
  /\ UNCHANGED <<map, should_stop, dtr, finished, item, pushed, ended, synced>>

\* ThreadItem::execute: the value is stored, and then the joiner notified.
SetValue ==
  /\ worker = "value"
  /\ finished' = TRUE /\ worker' = "notify"
  /\ UNCHANGED <<map, bios, locked, should_stop, bio, dtr, item, pushed, ended, synced>>

NotifyFinished ==
  /\ worker = "notify"
  /\ worker' = "done"
  /\ dtr' = IF dtr = "wait" THEN "join" ELSE dtr
  /\ UNCHANGED <<map, bios, locked, should_stop, bio, finished, item, pushed, ended, synced>>

-----------------------------------------------------------------------------
(* dtr: set_stopped, join, sync *)

Stop ==
  /\ dtr = "none" /\ \A b \in Bios : map[b] \in {"none", "submitted"}
  /\ should_stop' = TRUE /\ dtr' = "notify"
  /\ UNCHANGED <<map, bios, locked, worker, bio, finished, item, pushed, ended, synced>>

NotifyAll ==
  /\ dtr = "notify" /\ dtr' = "join"
  /\ worker' = Woken
  /\ UNCHANGED <<map, bios, locked, should_stop, bio, finished, item, pushed, ended, synced>>

\* wait_value; stop then drops the item.
Join ==
  /\ dtr = "join"
  /\ dtr' = (IF finished THEN "sync" ELSE "wait") /\ item' = ~finished
  /\ UNCHANGED <<map, bios, locked, should_stop, worker, bio, finished, pushed, ended, synced>>

\* ReqQueue::sync: the lock is taken and dropped at once, then the disk is synced.
SyncDisk ==
  /\ dtr = "sync" /\ ~locked
  /\ dtr' = "done" /\ synced' = ToSet(ended)
  /\ UNCHANGED <<map, bios, locked, should_stop, worker, bio, finished, item, pushed, ended>>

-----------------------------------------------------------------------------

Worker == Check \/ Pop \/ Relock \/ Process \/ Clear \/ SetValue \/ NotifyFinished
Dtr    == NotifyAll \/ Join \/ SyncDisk

Next == (\E b \in Bios : Push(b) \/ NotifyOne(b)) \/ Stop \/ Worker \/ Dtr

Spec == Init /\ [][Next]_vars

\* Threads that can run do; the device mapper need not map a bio nor stop.
FairSpec == Spec /\ WF_vars(Worker) /\ WF_vars(Dtr) /\ \A b \in Bios : WF_vars(NotifyOne(b))

-----------------------------------------------------------------------------
(* Properties *)

\* Every variable has its type.
TypeOK ==
  /\ map \in [Bios -> {"none", "notify", "submitted"}]
  /\ bios \in Seq(Bios) /\ bio \in Seq(Bios) /\ Len(bio) <= 1
  /\ locked \in BOOLEAN /\ should_stop \in BOOLEAN /\ finished \in BOOLEAN /\ item \in BOOLEAN
  /\ worker \in {"check", "lock", "wait", "relock", "process", "clear", "process_clear",
                 "value", "notify", "done"}
  /\ dtr \in {"none", "notify", "join", "wait", "sync", "done"}
  /\ pushed \in Seq(Bios) /\ ended \in Seq(Bios) /\ synced \subseteq Bios

\* Bios are ended in the order map enqueued them, each once and none is lost, also
\* when the queue is stopped in between: overlapping writes land in order.
InOrder == pushed = ended \o bio \o bios

\* When dtr returns, every bio that was handed over has been ended and is covered by
\* the sync ("clear all the pending bios").
StopsClean == dtr = "done" => synced = ToSet(pushed)

\* A bio that was handed over is ended.
BiosEnd == \A b \in Bios : map[b] = "notify" ~> Contains(ended, b)

\* The worker, told to stop, comes to its end, and dtr returns ("in order to tell the
\* ReqQueue worker thread to clear all the pending bios").
DtrReturns == dtr = "notify" ~> dtr = "done"

\* The thread uses its ThreadItem only while it exists ("Do not drop the item, until
\* the kthread stops").
ItemOutlivesThread == worker # "done" => item
=============================================================================
