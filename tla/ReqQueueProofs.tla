--------------------------- MODULE ReqQueueProofs ---------------------------
(***************************************************************************)
(* No bio is lost, ended twice or reordered, and dtr returns only when all *)
(* are ended and synced, whatever bios there are.                          *)
(***************************************************************************)
EXTENDS ReqQueue, SequenceTheorems, TLAPS

\* The inductive invariant: where the worker and the destructor are says what is left
\* to do.  A bio is held only while it is processed; the worker leaves its loop only
\* when told to stop, and ends only with an empty queue; map hands over nothing after
\* that.
QInv ==
  /\ TypeOK /\ InOrder
  /\ worker \notin {"process", "process_clear"} => bio = <<>>
  /\ should_stop <=> dtr # "none"
  /\ worker \in {"clear", "process_clear", "value", "notify", "done"} => should_stop
  /\ worker \in {"value", "notify", "done"} => bios = <<>>
  /\ finished => worker \in {"notify", "done"}
  /\ dtr \in {"sync", "done"} => finished
  /\ dtr = "done" => synced = ToSet(ended)

\* Moving the head of the queue into the worker's hands changes no order.
LEMMA TakeHead ==
  ASSUME NEW S, NEW s \in Seq(S), NEW t \in Seq(S), t # <<>>
  PROVE  /\ s \o <<>> \o t = s \o <<Head(t)>> \o Tail(t)
         /\ Head(t) \in S /\ Tail(t) \in Seq(S) /\ <<Head(t)>> \in Seq(S)
OBVIOUS

\* Ending the bio in hand changes no order.
LEMMA EndBio ==
  ASSUME NEW S, NEW s \in Seq(S), NEW t \in Seq(S), NEW u \in Seq(S)
  PROVE  (s \o t) \o <<>> \o u = s \o t \o u /\ s \o t \in Seq(S)
<1>1. s \o t \in Seq(S)
  OBVIOUS
<1>2. (s \o t) \o <<>> = s \o t
  BY <1>1
<1> QED BY <1>1, <1>2

\* The worker starts with an empty queue.
LEMMA InitQ == Init => QInv
<1> SUFFICES ASSUME Init PROVE QInv
  OBVIOUS
<1>1. TypeOK
  <2>1. <<>> \in Seq(Bios) /\ Len(<<>>) = 0
    BY EmptySeq
  <2>2. map \in [Bios -> {"none", "notify", "submitted"}]
    BY DEF Init
  <2>3. locked \in BOOLEAN /\ should_stop \in BOOLEAN /\ finished \in BOOLEAN /\ item \in BOOLEAN
    BY DEF Init
  <2>4. bios = <<>> /\ bio = <<>> /\ pushed = <<>> /\ ended = <<>> /\ synced = {}
        /\ worker = "check" /\ dtr = "none"
    BY DEF Init
  <2>5. Len(bio) <= 1
    BY <2>1, <2>4
  <2> QED BY <2>1, <2>2, <2>3, <2>4, <2>5 DEF TypeOK
<1>2. InOrder
  <2>1. <<>> \o <<>> = <<>>
    OBVIOUS
  <2> QED BY <2>1 DEF Init, InOrder
<1> QED BY <1>1, <1>2 DEF Init, QInv

\* map: a bio joins the queue and the history at their ends.
LEMMA MapQ == ASSUME QInv, NEW b \in Bios, Push(b) \/ NotifyOne(b) PROVE QInv'
<1>1. CASE Push(b)
  <2>1. TypeOK'
    BY <1>1, AppendProperties DEF Push, QInv, TypeOK
  <2>2. InOrder'
    <3>1. pushed' = Append(ended \o bio \o bios, b) /\ bios' = Append(bios, b)
      BY <1>1 DEF Push, QInv, InOrder
    <3>2. Append(ended \o bio \o bios, b) = ended \o bio \o Append(bios, b)
      <4>1. ended \in Seq(Bios) /\ bio \in Seq(Bios) /\ bios \in Seq(Bios)
        BY DEF QInv, TypeOK
      <4>2. ended \o bio \in Seq(Bios) /\ <<b>> \in Seq(Bios)
        BY <4>1, ConcatProperties
      <4>3. (ended \o bio) \o bios \in Seq(Bios)
        BY <4>1, <4>2, ConcatProperties
      <4>4. Append((ended \o bio) \o bios, b) = ((ended \o bio) \o bios) \o <<b>>
        BY <4>3, AppendIsConcat
      <4>5. ((ended \o bio) \o bios) \o <<b>> = (ended \o bio) \o (bios \o <<b>>)
        BY <4>1, <4>2, ConcatAssociative
      <4>6. bios \o <<b>> = Append(bios, b)
        BY <4>1, AppendIsConcat
      <4> QED BY <4>4, <4>5, <4>6
    <3> QED BY <1>1, <3>1, <3>2 DEF Push, InOrder
  <2> QED BY <1>1, <2>1, <2>2 DEF Push, QInv
<1>2. CASE NotifyOne(b)
  <2>1. TypeOK'
    BY <1>2 DEF NotifyOne, Woken, QInv, TypeOK
  <2> QED BY <1>2, <2>1 DEF NotifyOne, Woken, QInv, InOrder
<1> QED BY <1>1, <1>2

\* The worker: a bio goes from the queue to its hands, and from there to the ended
\* ones; it leaves its loop when told to, and ends with an empty queue.
LEMMA WorkerQ == ASSUME QInv, Worker PROVE QInv'
<1> USE DEF QInv
<1>1. CASE Check
  BY <1>1 DEF Check, TypeOK, InOrder
<1>2. CASE Pop
  <2>1. CASE bios = <<>>
    BY <1>2, <2>1 DEF Pop, TypeOK, InOrder
  <2>2. CASE bios # <<>>
    <3>1. bio = <<>> /\ bio' = <<Head(bios)>> /\ bios' = Tail(bios) /\ worker' = "process"
          /\ UNCHANGED <<map, locked, should_stop, dtr, finished, item, pushed, ended, synced>>
      BY <1>2, <2>2 DEF Pop
    <3>2. InOrder'
      BY <2>2, <3>1, TakeHead DEF TypeOK, InOrder
    <3>3. TypeOK'
      BY <2>2, <3>1, TakeHead DEF TypeOK
    <3> QED BY <1>2, <3>1, <3>2, <3>3 DEF Pop
  <2> QED BY <2>1, <2>2
<1>3. CASE Relock
  BY <1>3 DEF Relock, TypeOK, InOrder
<1>4. CASE Process
  <2>1. InOrder' /\ ended' \in Seq(Bios)
    <3>1. ended' = ended \o bio /\ bio' = <<>> /\ bios' = bios /\ pushed' = pushed
      BY <1>4 DEF Process
    <3>2. (ended \o bio) \o <<>> \o bios = ended \o bio \o bios /\ ended \o bio \in Seq(Bios)
      BY EndBio DEF TypeOK
    <3> QED BY <3>1, <3>2 DEF InOrder
  <2>2. TypeOK'
    <3>1. bio' \in Seq(Bios) /\ Len(bio') <= 1
      BY <1>4, EmptySeq DEF Process
    <3> QED BY <1>4, <2>1, <3>1 DEF Process, TypeOK
  <2>3. ~finished /\ dtr \notin {"sync", "done"}
    BY <1>4 DEF Process
  <2> QED BY <1>4, <2>1, <2>2, <2>3 DEF Process
<1>5. CASE Clear
  <2>1. CASE bios = <<>>
    BY <1>5, <2>1 DEF Clear, TypeOK, InOrder
  <2>2. CASE bios # <<>>
    <3>1. bio = <<>> /\ bio' = <<Head(bios)>> /\ bios' = Tail(bios)
          /\ worker' = "process_clear" /\ locked'
          /\ UNCHANGED <<map, should_stop, dtr, finished, item, pushed, ended, synced>>
      BY <1>5, <2>2 DEF Clear
    <3>2. InOrder'
      BY <2>2, <3>1, TakeHead DEF TypeOK, InOrder
    <3>3. TypeOK'
      BY <1>5, <2>2, <3>1, TakeHead DEF Clear, TypeOK
    <3> QED BY <1>5, <3>1, <3>2, <3>3 DEF Clear
  <2> QED BY <2>1, <2>2
<1>6. CASE SetValue
  BY <1>6 DEF SetValue, TypeOK, InOrder
<1>7. CASE NotifyFinished
  BY <1>7 DEF NotifyFinished, TypeOK, InOrder
<1> QED BY <1>1, <1>2, <1>3, <1>4, <1>5, <1>6, <1>7 DEF Worker

\* dtr: it stops the worker first, joins it only once it has finished, and syncs last.
LEMMA DtrQ == ASSUME QInv, Stop \/ Dtr PROVE QInv'
<1> USE DEF QInv
<1>1. CASE Stop
  BY <1>1 DEF Stop, TypeOK, InOrder
<1>2. CASE NotifyAll
  BY <1>2 DEF NotifyAll, Woken, TypeOK, InOrder
<1>3. CASE Join
  BY <1>3 DEF Join, TypeOK, InOrder
<1>4. CASE SyncDisk
  BY <1>4 DEF SyncDisk, TypeOK, InOrder, ToSet
<1> QED BY <1>1, <1>2, <1>3, <1>4 DEF Dtr

\* QInv holds whatever map, the worker and dtr do.
LEMMA InductiveQ == Spec => []QInv
<1>1. QInv /\ [Next]_vars => QInv'
  <2> SUFFICES ASSUME QInv, [Next]_vars PROVE QInv'
    OBVIOUS
  <2>1. CASE UNCHANGED vars
    BY <2>1 DEF vars, QInv, TypeOK, InOrder
  <2>2. CASE Next
    BY <2>2, MapQ, WorkerQ, DtrQ DEF Next
  <2> QED BY <2>1, <2>2
<1> QED BY <1>1, InitQ, PTL DEF Spec

-----------------------------------------------------------------------------

\* Type correctness of the queue, the worker and the destructor.
THEOREM QueueTypeCorrect == Spec => []TypeOK
<1>1. QInv => TypeOK
  BY DEF QInv
<1> QED BY <1>1, InductiveQ, PTL

\* process ends the bios in the order in which map enqueued them, each once, and none
\* is lost between the queue, the worker and the end.
THEOREM BiosInOrder == Spec => []InOrder
<1>1. QInv => InOrder
  BY DEF QInv
<1> QED BY <1>1, InductiveQ, PTL

\* When dtr returns, clear has ended every bio that map enqueued and the sync came
\* after all of them.
THEOREM DtrStopsClean == Spec => []StopsClean
<1>1. QInv => StopsClean
  <2> SUFFICES ASSUME QInv, dtr = "done" PROVE synced = ToSet(pushed)
    BY DEF StopsClean
  <2>1. bios = <<>> /\ bio = <<>> /\ synced = ToSet(ended)
    BY DEF QInv
  <2>2. pushed = ended
    BY <2>1, ConcatEmptySeq DEF QInv, TypeOK, InOrder
  <2> QED BY <2>1, <2>2
<1> QED BY <1>1, InductiveQ, PTL
=============================================================================
