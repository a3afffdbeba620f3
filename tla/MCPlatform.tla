------------------------------- MODULE MCPlatform -------------------------------
(***************************************************************************)
(* What the protected file stands on, in one instance: the request queue   *)
(* and the life of the device-mapper target, Arc and Weak, the reader-     *)
(* writer lock, the ciphers, the block sets of the host device, and core's *)
(* transactions, block request queue, block logs and bitmap.  A behaviour  *)
(* runs one part, chosen at the start; the others keep their initial       *)
(* states, so the state spaces add up and do not multiply.                 *)
(***************************************************************************)
EXTENDS ReqQueue, RefCount, RwLock, DmTarget, Cipher, BlockSets, TxProvider, BioReqQueue,
        BlockLogs, Bitmap, TLC

VARIABLE part

CONSTANTS t1, t2, x1, x2, x3

\* The thread that makes each transaction.
MCOwner == x1 :> t1 @@ x2 :> t1 @@ x3 :> t2
MCPlain == {<< <<"p">>, <<"q">> >>}
\* The tasks that use one handle: one of them, or both.
MCUsers == {{t1}, {t1, t2}}
\* Start sector and number of sectors: two whole devices, and a partition.
MCDevices == {<<0, 16>>, <<0, 33>>, <<3, 16>>}

allVars == <<vars, refVars, lockVars, targetVars, cipherVars, setVars, txVars, bioVars, logVars, bitVars, part>>

PlatformInit ==
    /\ part \in {"queue", "arc", "rwlock", "target", "cipher", "set", "tx", "request", "log", "bitmap"}
    /\ Init /\ RefInit /\ LockInit /\ TargetInit /\ CipherInit
    /\ SetInit /\ TxInit /\ BioInit /\ LogInit /\ BitInit
    /\ part # "cipher" => users = {t1}
    /\ part # "request" => ~debug
    /\ part # "log" => ~ring
    /\ part # "bitmap" => nbits = 0

QueuePart ==
    /\ part = "queue" /\ Next
    /\ UNCHANGED <<refVars, lockVars, targetVars, cipherVars, setVars, txVars, bioVars, logVars, bitVars, part>>
ArcPart ==
    /\ part = "arc" /\ RefNext
    /\ UNCHANGED <<vars, lockVars, targetVars, cipherVars, setVars, txVars, bioVars, logVars, bitVars, part>>
RwLockPart ==
    /\ part = "rwlock" /\ LockNext
    /\ UNCHANGED <<vars, refVars, targetVars, cipherVars, setVars, txVars, bioVars, logVars, bitVars, part>>
TargetPart ==
    /\ part = "target" /\ TargetNext
    /\ UNCHANGED <<vars, refVars, lockVars, cipherVars, setVars, txVars, bioVars, logVars, bitVars, part>>
CipherPart ==
    /\ part = "cipher" /\ CipherNext
    /\ UNCHANGED <<vars, refVars, lockVars, targetVars, setVars, txVars, bioVars, logVars, bitVars, part>>
SetPart ==
    /\ part = "set" /\ SetNext
    /\ UNCHANGED <<vars, refVars, lockVars, targetVars, cipherVars, txVars, bioVars, logVars, bitVars, part>>
TxPart ==
    /\ part = "tx" /\ TxNext
    /\ UNCHANGED <<vars, refVars, lockVars, targetVars, cipherVars, setVars, bioVars, logVars, bitVars, part>>
RequestPart ==
    /\ part = "request" /\ BioNext
    /\ UNCHANGED <<vars, refVars, lockVars, targetVars, cipherVars, setVars, txVars, logVars, bitVars, part>>
LogPart ==
    /\ part = "log" /\ LogNext
    /\ UNCHANGED <<vars, refVars, lockVars, targetVars, cipherVars, setVars, txVars, bioVars, bitVars, part>>
BitmapPart ==
    /\ part = "bitmap" /\ BitNext
    /\ UNCHANGED <<vars, refVars, lockVars, targetVars, cipherVars, setVars, txVars, bioVars, logVars, part>>

PlatformNext ==
    \/ QueuePart \/ ArcPart \/ RwLockPart \/ TargetPart \/ CipherPart \/ SetPart \/ TxPart \/ RequestPart \/ LogPart \/ BitmapPart

\* The fairness of the request queue's threads, as in FairSpec of ReqQueue.
PlatformSpec ==
    /\ PlatformInit /\ [][PlatformNext]_allVars
    /\ WF_allVars(QueuePart /\ Worker) /\ WF_allVars(QueuePart /\ Dtr)
    /\ \A b \in Bios : WF_allVars(QueuePart /\ NotifyOne(b))
=============================================================================
