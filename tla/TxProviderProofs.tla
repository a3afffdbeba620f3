-------------------------- MODULE TxProviderProofs --------------------------
(***************************************************************************)
(* Transactions do not get in each other's way, and a database of          *)
(* committed ones is what they inserted, for all threads, transactions,    *)
(* items and pre-commit handlers.                                          *)
(***************************************************************************)
EXTENDS TxProvider, TLAPS

InData == {"insert_data", "commit_data"}
Inserting == {"insert", "insert_data"}
Places == {"idle", "context", "precommit", "commit", "committed", "abort"} \cup InData \cup Inserting

\* The thread of x is in a context of x.
Runs(x) == step[Owner[x]].tx = x /\ step[Owner[x]].at # "idle"

\* x has gone into the database.
Landed(x) == status[x] = "Committed" \/ (Runs(x) /\ step[Owner[x]].at = "committed")

\* What x has for the database: its data, and the item an insert is about to add to it.
Held(x) == IF tx_data[x] = NoTx THEN {} ELSE tx_data[x]
InHand(x) == IF Runs(x) /\ step[Owner[x]].at \in Inserting THEN {step[Owner[x]].item} ELSE {}

StepType == [at : Places, tx : Tx \cup {NoTx}, item : Item \cup {NoTx}, left : Nat]

\* The table of current transactions says what the threads run; a context is one of an
\* ongoing transaction of the thread.
Contexts ==
  \A t \in TxThread :
    IF step[t].at = "idle" THEN tx_table[t] = NoTx
    ELSE /\ tx_table[t] = step[t].tx /\ step[t].tx \in Tx
         /\ Owner[step[t].tx] = t /\ status[step[t].tx] = "Ongoing"

\* is_accessing_data is set while a handler has the data, which then exists.
Accesses ==
  \A x \in Tx : /\ accessing[x] <=> Runs(x) /\ step[Owner[x]].at \in InData
                /\ accessing[x] => tx_data[x] # NoTx

\* An insert has the lock of all_items and an item.
Inserts ==
  \A t \in TxThread : step[t].at \in Inserting => items_lock = t /\ step[t].item \in Item

\* A transaction holds what it inserted and is not in the database yet.
Keeps ==
  \A x \in Tx : ~Landed(x) =>
    /\ Held(x) \subseteq inserted[x] /\ InHand(x) \subseteq inserted[x]
    /\ inserted[x] \subseteq all_items \cup Held(x) \cup InHand(x)

\* DbAtomic, item by item.
Database ==
  \A i \in Item : i \in all_items <=> \E x \in Tx : Landed(x) /\ i \in inserted[x]

TxInv ==
  /\ TxTypeOK /\ step \in [TxThread -> StepType]
  /\ Contexts /\ Accesses /\ Inserts /\ Keeps /\ Database

\* Nothing runs at first.
LEMMA TxStarts == TxInit => TxInv
<1> SUFFICES ASSUME TxInit PROVE TxInv
  OBVIOUS
<1>1. \A t \in TxThread : step[t] = Idle /\ step[t].at = "idle"
  BY DEF TxInit, Idle
<1>2. TxTypeOK
  BY DEF TxInit, TxTypeOK
<1>3. step \in [TxThread -> StepType]
  BY DEF TxInit, StepType, Idle, Places
<1>4. \A x \in Tx : ~Runs(x) /\ ~Landed(x) /\ Held(x) = {} /\ InHand(x) = {}
  BY <1>1, TxAssumption DEF TxInit, Runs, Landed, Held, InHand
<1>5. Contexts
  BY <1>1 DEF TxInit, Contexts
<1>6. Accesses
  BY <1>4 DEF TxInit, Accesses
<1>7. Inserts
  BY <1>1 DEF Inserts, Inserting
<1>8. Keeps /\ Database
  BY <1>4 DEF TxInit, Keeps, Database
<1> QED BY <1>2, <1>3, <1>5, <1>6, <1>7, <1>8 DEF TxInv

\* A step of thread t that ends at a place where it neither inserts, has data nor has
\* committed, and that leaves the data, the items and the lock alone.
LEMMA Moves ==
  ASSUME TxInv, NEW t \in TxThread,
         step[t].at \notin InData \cup Inserting \cup {"committed"},
         step'[t].at \notin InData \cup Inserting \cup {"committed"},
         \A u \in TxThread : u # t => step'[u] = step[u],
         \A x \in Tx : (status'[x] = "Committed") = (status[x] = "Committed"),
         UNCHANGED <<tx_data, accessing, items_lock, all_items, inserted>>
  PROVE  Accesses' /\ Inserts' /\ Keeps' /\ Database'
<1>1. \A x \in Tx : Owner[x] \in TxThread
  BY TxAssumption
<1>2. \A x \in Tx : Landed(x)' = Landed(x)
  BY <1>1 DEF Landed, Runs
<1>3. \A x \in Tx : InHand(x)' = InHand(x) /\ Held(x)' = Held(x)
  BY <1>1 DEF InHand, Runs, Held
<1>4. \A x \in Tx : (Runs(x) /\ step[Owner[x]].at \in InData)' = (Runs(x) /\ step[Owner[x]].at \in InData)
  BY <1>1 DEF Runs
<1>5. Accesses'
  BY <1>4 DEF TxInv, Accesses
<1>6. Inserts'
  BY DEF TxInv, Inserts
<1>7. Keeps'
  BY <1>2, <1>3 DEF TxInv, Keeps
<1>8. Database'
  BY <1>2 DEF TxInv, Database
<1> QED BY <1>5, <1>6, <1>7, <1>8

\* TxProvider::new_tx.
LEMMA TxMade ==
  ASSUME TxInv, NEW t \in TxThread, NEW x \in Tx, NewTx(t, x) PROVE TxInv'
<1>1. step' = step /\ status[x] = "new" /\ status' = [status EXCEPT ![x] = "Ongoing"]
      /\ step[t].at = "idle" /\ tx_table' = tx_table
  BY DEF NewTx
<1>2. TxTypeOK'
  BY DEF TxInv, TxTypeOK, NewTx
<1>3. Contexts'
  BY <1>1 DEF TxInv, Contexts, TxTypeOK
<1>4. \A y \in Tx : (status'[y] = "Committed") = (status[y] = "Committed")
  BY <1>1 DEF TxInv, TxTypeOK
<1>5. Accesses' /\ Inserts' /\ Keeps' /\ Database'
  BY <1>1, <1>4, Moves DEF NewTx, InData, Inserting
<1> QED BY <1>1, <1>2, <1>3, <1>5 DEF TxInv

\* A context begins: of the user, of commit or of abort.
LEMMA Entered ==
  ASSUME TxInv, NEW t \in TxThread, NEW x \in Tx, NEW at \in {"context", "precommit", "abort"},
         NEW left \in Nat, Enter(t, x, at, left)
  PROVE  TxInv'
<1>1. step[t].at = "idle" /\ Owner[x] = t /\ status[x] = "Ongoing" /\ tx_table[t] = NoTx
  BY DEF Enter, TxInv, Contexts
<1>2. step' = [step EXCEPT ![t] = [at |-> at, tx |-> x, item |-> NoTx, left |-> left]]
      /\ tx_table' = [tx_table EXCEPT ![t] = x]
  BY <1>1 DEF Enter
<1>3. /\ step'[t] = [at |-> at, tx |-> x, item |-> NoTx, left |-> left]
      /\ \A u \in TxThread : u # t => step'[u] = step[u]
      /\ step' \in [TxThread -> StepType]
  BY <1>2 DEF TxInv, StepType, Places
<1>4. TxTypeOK'
  BY <1>2 DEF TxInv, TxTypeOK, Enter
<1>5. Contexts'
  BY <1>1, <1>2, <1>3 DEF TxInv, TxTypeOK, Contexts, Enter
<1>6. Accesses' /\ Inserts' /\ Keeps' /\ Database'
  BY <1>1, <1>3, Moves DEF Enter, InData, Inserting
<1> QED BY <1>3, <1>4, <1>5, <1>6 DEF TxInv

\* A user's context ends.
LEMMA Left ==
  ASSUME TxInv, NEW t \in TxThread, Leave(t) PROVE TxInv'
<1>1. step[t].at = "context" /\ step' = [step EXCEPT ![t] = Idle]
      /\ tx_table' = [tx_table EXCEPT ![t] = NoTx]
  BY DEF Leave, Removed
<1>2. /\ step'[t].at = "idle"
      /\ \A u \in TxThread : u # t => step'[u] = step[u]
      /\ step' \in [TxThread -> StepType]
  BY <1>1 DEF TxInv, StepType, Places, Idle
<1>3. TxTypeOK'
  BY <1>1 DEF TxInv, TxTypeOK, Leave
<1>4. Contexts'
  BY <1>1, <1>2 DEF TxInv, TxTypeOK, Contexts, Leave
<1>5. Accesses' /\ Inserts' /\ Keeps' /\ Database'
  BY <1>1, <1>2, Moves DEF Leave, InData, Inserting
<1> QED BY <1>2, <1>3, <1>4, <1>5 DEF TxInv

\* A pre-commit handler succeeds or fails, or there is none left.
LEMMA Precommitted ==
  ASSUME TxInv, NEW t \in TxThread, Precommit(t) PROVE TxInv'
<1>1. step[t].at = "precommit" /\ step[t] \in StepType
  BY DEF Precommit, TxInv
<1>2. /\ step'[t].at \in {"precommit", "commit", "abort"} /\ step'[t].tx = step[t].tx
      /\ \A u \in TxThread : u # t => step'[u] = step[u]
      /\ step' \in [TxThread -> StepType]
  <2>1. CASE step[t].left = 0
    BY <2>1, <1>1 DEF TxInv, Precommit, Goes, StepType, Places
  <2>2. CASE step[t].left # 0
    <3>1. CASE step' = [step EXCEPT ![t].left = @ - 1]
      <4>1. step[t].left - 1 \in Nat
        BY <2>2, <1>1 DEF StepType
      <4> QED BY <3>1, <4>1, <1>1 DEF TxInv, StepType, Places
    <3>2. CASE Goes(t, "abort")
      BY <3>2, <1>1 DEF TxInv, Goes, StepType, Places
    <3> QED BY <2>2, <3>1, <3>2 DEF Precommit
  <2> QED BY <2>1, <2>2
<1>3. TxTypeOK'
  BY DEF TxInv, TxTypeOK, Precommit
<1>4. Contexts'
  BY <1>1, <1>2 DEF TxInv, Contexts, Precommit
<1>5. Accesses' /\ Inserts' /\ Keeps' /\ Database'
  BY <1>1, <1>2, Moves DEF Precommit, InData, Inserting
<1> QED BY <1>2, <1>3, <1>4, <1>5 DEF TxInv

\* A handler takes the data of its thread's transaction, which nobody else has.
LEMMA Accessed ==
  ASSUME TxInv, NEW t \in TxThread, InsertAccess(t) \/ CommitAccess(t) PROVE TxInv'
<1>1. PICK from \in {"insert", "commit"}, to \in InData :
        GetCurrent(t, from, to) /\ (from \in Inserting <=> to \in Inserting)
  BY DEF InsertAccess, CommitAccess, InData, Inserting
<1>2. step[t].at = from
  BY <1>1 DEF GetCurrent
<1>3. PICK x \in Tx : /\ x = tx_table[t] /\ x = step[t].tx /\ Owner[x] = t
                     /\ status[x] = "Ongoing" /\ x # NoTx
  BY <1>2, TxAssumption DEF TxInv, Contexts
<1>4. ~accessing[x]
  BY <1>2, <1>3 DEF TxInv, Accesses, InData
<1>5. /\ accessing' = [accessing EXCEPT ![x] = TRUE]
      /\ tx_data' = [tx_data EXCEPT ![x] = IF tx_data[x] = NoTx THEN {} ELSE tx_data[x]]
      /\ step' = [step EXCEPT ![t].at = to]
      /\ UNCHANGED <<tx_table, status, items_lock, all_items, inserted>>
  BY <1>1, <1>3, <1>4 DEF GetCurrent, Goes
<1>6. /\ step'[t].at = to /\ step'[t].tx = x /\ step'[t].item = step[t].item
      /\ \A u \in TxThread : u # t => step'[u] = step[u]
      /\ step' \in [TxThread -> StepType]
  BY <1>3, <1>5 DEF TxInv, StepType, Places
<1>7. /\ accessing'[x] /\ \A y \in Tx : y # x => accessing'[y] = accessing[y]
      /\ tx_data'[x] = Held(x) /\ \A y \in Tx : y # x => tx_data'[y] = tx_data[y]
  BY <1>3, <1>5 DEF TxInv, TxTypeOK, Held
<1>8. Held(x) \in SUBSET Item /\ Held(x) # NoTx
  BY <1>3, TxAssumption DEF Held, TxInv, TxTypeOK
<1>9. TxTypeOK'
  BY <1>3, <1>5, <1>8 DEF TxInv, TxTypeOK, Held
<1>10. \A y \in Tx : Owner[y] \in TxThread
  BY TxAssumption
<1>11. \A y \in Tx : Held(y)' = Held(y)
  BY <1>7, <1>8 DEF Held
<1>12. \A y \in Tx : Landed(y)' = Landed(y) /\ InHand(y)' = InHand(y)
  BY <1>1, <1>2, <1>3, <1>5, <1>6, <1>10 DEF Landed, Runs, InHand, InData, Inserting
<1>13. Contexts'
  BY <1>2, <1>3, <1>5, <1>6 DEF TxInv, Contexts, InData
<1>14. Accesses'
  <2>1. ASSUME NEW y \in Tx, y # x
        PROVE  (Runs(y) /\ step[Owner[y]].at \in InData)' = (Runs(y) /\ step[Owner[y]].at \in InData)
    BY <2>1, <1>2, <1>3, <1>6, <1>10 DEF Runs, InData
  <2>2. (Runs(x) /\ step[Owner[x]].at \in InData)'
    BY <1>3, <1>6 DEF Runs, InData
  <2> QED BY <2>1, <2>2, <1>7, <1>8 DEF TxInv, Accesses
<1>15. Inserts'
  BY <1>1, <1>2, <1>5, <1>6 DEF TxInv, Inserts
<1>16. Keeps' /\ Database'
  BY <1>5, <1>11, <1>12 DEF TxInv, Keeps, Database
<1> QED BY <1>6, <1>9, <1>13, <1>14, <1>15, <1>16 DEF TxInv

\* insert finds the item in the database, or takes the lock to put it into the data.
LEMMA InsertLocked ==
  ASSUME TxInv, NEW t \in TxThread, NEW i \in Item, InsertLock(t, i) PROVE TxInv'
<1>1. step[t].at = "context" /\ items_lock = NoTx
  BY DEF InsertLock
<1>2. PICK x \in Tx : x = step[t].tx /\ Owner[x] = t /\ status[x] = "Ongoing" /\ tx_table[t] = x
  BY <1>1 DEF TxInv, Contexts
<1>3. /\ inserted' = [inserted EXCEPT ![x] = inserted[x] \cup {i}]
      /\ UNCHANGED <<tx_table, status, tx_data, accessing, all_items>>
  BY <1>2 DEF InsertLock
<1>4. /\ inserted'[x] = inserted[x] \cup {i}
      /\ \A y \in Tx : y # x => inserted'[y] = inserted[y]
  BY <1>2, <1>3 DEF TxInv, TxTypeOK
<1>5. /\ step'[t].tx = x
      /\ \/ i \in all_items /\ step' = step /\ items_lock' = items_lock
         \/ step'[t].at = "insert" /\ step'[t].item = i /\ items_lock' = t
      /\ \A u \in TxThread : u # t => step'[u] = step[u]
      /\ step' \in [TxThread -> StepType]
  <2>1. CASE i \in all_items
    BY <1>2, <2>1 DEF InsertLock, TxInv
  <2>2. CASE i \notin all_items
    <3>1. step' = [step EXCEPT ![t].at = "insert", ![t].item = i] /\ items_lock' = t
      BY <2>2 DEF InsertLock
    <3>2. step[t] \in StepType /\ step \in [TxThread -> StepType]
      BY DEF TxInv
    <3>3. step' = [step EXCEPT ![t] = [step[t] EXCEPT !.at = "insert", !.item = i]]
      BY <3>1, <3>2 DEF StepType
    <3>4. [step[t] EXCEPT !.at = "insert", !.item = i] \in StepType
      BY <3>2 DEF StepType, Places, Inserting
    <3>5. step'[t] = [step[t] EXCEPT !.at = "insert", !.item = i]
      BY <3>2, <3>3
    <3>6. step'[t].tx = x /\ step'[t].at = "insert" /\ step'[t].item = i
      BY <1>2, <3>2, <3>5 DEF StepType
    <3>7. step' \in [TxThread -> StepType] /\ \A u \in TxThread : u # t => step'[u] = step[u]
      BY <3>2, <3>3, <3>4
    <3> QED BY <3>1, <3>6, <3>7
  <2> QED BY <2>1, <2>2
<1>6. TxTypeOK'
  BY <1>2, <1>3, <1>5 DEF TxInv, TxTypeOK
<1>7. \A y \in Tx : Owner[y] \in TxThread
  BY TxAssumption
<1>8. \A y \in Tx : Landed(y)' = Landed(y) /\ Held(y)' = Held(y)
  BY <1>1, <1>3, <1>5, <1>7 DEF Landed, Runs, Held
<1>9. ~Landed(x)
  BY <1>1, <1>2 DEF Landed, Runs
<1>10. \A y \in Tx : y # x => InHand(y)' = InHand(y)
  BY <1>1, <1>2, <1>5, <1>7 DEF InHand, Runs, Inserting
<1>11. InHand(x) = {} /\ InHand(x)' \subseteq {i} /\ (i \in all_items \/ InHand(x)' = {i})
  BY <1>1, <1>2, <1>5 DEF InHand, Runs, Inserting
<1>12. Contexts'
  BY <1>1, <1>2, <1>3, <1>5 DEF TxInv, Contexts
<1>13. Accesses'
  <2>1. ASSUME NEW y \in Tx
        PROVE  (Runs(y) /\ step[Owner[y]].at \in InData)' = (Runs(y) /\ step[Owner[y]].at \in InData)
    BY <1>1, <1>5, <1>7 DEF Runs, InData
  <2> QED BY <2>1, <1>3 DEF TxInv, Accesses
<1>14. Inserts'
  BY <1>1, <1>5, TxAssumption DEF TxInv, Inserts, Inserting
<1>15. Keeps'
  BY <1>3, <1>4, <1>8, <1>10, <1>11 DEF TxInv, Keeps
<1>16. Database'
  BY <1>3, <1>4, <1>8, <1>9 DEF TxInv, Database
<1> QED BY <1>5, <1>6, <1>12, <1>13, <1>14, <1>15, <1>16 DEF TxInv

\* insert adds its item to the data.
LEMMA DataInserted ==
  ASSUME TxInv, NEW t \in TxThread, InsertData(t) PROVE TxInv'
<1>1. step[t].at = "insert_data"
  BY DEF InsertData
<1>2. PICK x \in Tx, i \in Item : /\ x = tx_table[t] /\ x = step[t].tx /\ i = step[t].item
                                 /\ Owner[x] = t /\ status[x] = "Ongoing" /\ items_lock = t
  BY <1>1 DEF TxInv, Contexts, Inserts, Inserting
<1>3. tx_data[x] # NoTx /\ tx_data[x] \in SUBSET Item /\ accessing[x]
  BY <1>1, <1>2 DEF TxInv, TxTypeOK, Accesses, Runs, InData
<1>4. /\ tx_data' = [tx_data EXCEPT ![x] = tx_data[x] \cup {i}]
      /\ accessing' = [accessing EXCEPT ![x] = FALSE] /\ items_lock' = NoTx
      /\ step' = [step EXCEPT ![t].at = "context", ![t].item = NoTx]
      /\ UNCHANGED <<tx_table, status, all_items, inserted>>
  BY <1>2 DEF InsertData
<1>5. /\ step'[t].at = "context" /\ step'[t].tx = x
      /\ \A u \in TxThread : u # t => step'[u] = step[u]
      /\ step' \in [TxThread -> StepType]
  <2>1. step[t] \in StepType /\ step \in [TxThread -> StepType] /\ "context" \in Places
    BY DEF TxInv, Places
  <2>2. step'[t] = [at |-> "context", tx |-> step[t].tx, item |-> NoTx, left |-> step[t].left]
    BY <2>1, <1>4 DEF StepType
  <2>3. step'[t] \in StepType /\ step'[t].at = "context" /\ step'[t].tx = x
    BY <1>2, <2>1, <2>2 DEF StepType
  <2>4. step' = [u \in TxThread |-> IF u = t THEN step'[t] ELSE step[u]]
    BY <1>4, <2>1
  <2> QED BY <2>1, <2>3, <2>4
<1>6. /\ ~accessing'[x] /\ \A y \in Tx : y # x => accessing'[y] = accessing[y]
      /\ tx_data'[x] = tx_data[x] \cup {i} /\ \A y \in Tx : y # x => tx_data'[y] = tx_data[y]
  BY <1>2, <1>4 DEF TxInv, TxTypeOK
<1>7. TxTypeOK'
  BY <1>2, <1>3, <1>4 DEF TxInv, TxTypeOK
<1>8. InHand(x) = {i}
  BY <1>1, <1>2 DEF InHand, Runs, Inserting
<1>9. tx_data'[x] # NoTx
  BY <1>2, <1>3, <1>6, TxAssumption
<1>10. \A y \in Tx : Owner[y] \in TxThread
  BY TxAssumption
<1>11. Held(x)' = Held(x) \cup {i} /\ \A y \in Tx : y # x => Held(y)' = Held(y)
  BY <1>3, <1>6, <1>9 DEF Held
<1>12. \A y \in Tx : Landed(y)' = Landed(y)
  BY <1>1, <1>4, <1>5, <1>10 DEF Landed, Runs
<1>13. InHand(x)' = {} /\ \A y \in Tx : y # x => InHand(y)' = InHand(y)
  BY <1>1, <1>2, <1>5, <1>10 DEF InHand, Runs, Inserting
<1>14. Contexts'
  BY <1>1, <1>2, <1>4, <1>5 DEF TxInv, Contexts
<1>15. Accesses'
  <2>1. ASSUME NEW y \in Tx, y # x
        PROVE  (Runs(y) /\ step[Owner[y]].at \in InData)' = (Runs(y) /\ step[Owner[y]].at \in InData)
    BY <2>1, <1>2, <1>5, <1>10 DEF Runs, InData
  <2>2. ~(Runs(x) /\ step[Owner[x]].at \in InData)'
    BY <1>2, <1>5 DEF Runs, InData
  <2> QED BY <2>1, <2>2, <1>6 DEF TxInv, Accesses
<1>16. Inserts'
  BY <1>2, <1>5 DEF TxInv, Inserts, Inserting
<1>17. Keeps'
  BY <1>4, <1>8, <1>11, <1>12, <1>13 DEF TxInv, Keeps
<1>18. Database'
  BY <1>4, <1>12 DEF TxInv, Database
<1> QED BY <1>5, <1>7, <1>14, <1>15, <1>16, <1>17, <1>18 DEF TxInv

\* The commit handler moves the transaction's items to the database, at once.
LEMMA Landing ==
  ASSUME TxInv, NEW t \in TxThread, CommitHandler(t) PROVE TxInv'
<1>1. step[t].at = "commit_data"
  BY DEF CommitHandler
<1>2. PICK x \in Tx : x = tx_table[t] /\ x = step[t].tx /\ Owner[x] = t /\ status[x] = "Ongoing"
  BY <1>1 DEF TxInv, Contexts
<1>3. tx_data[x] # NoTx /\ tx_data[x] \in SUBSET Item
  BY <1>1, <1>2 DEF TxInv, TxTypeOK, Accesses, Runs, InData
<1>4. /\ all_items' = all_items \cup tx_data[x]
      /\ tx_data' = [tx_data EXCEPT ![x] = {}] /\ accessing' = [accessing EXCEPT ![x] = FALSE]
      /\ step' = [step EXCEPT ![t].at = "committed"]
      /\ UNCHANGED <<tx_table, status, items_lock, inserted>>
  BY <1>2 DEF CommitHandler, Goes
<1>5. /\ step'[t].at = "committed" /\ step'[t].tx = x
      /\ \A u \in TxThread : u # t => step'[u] = step[u]
      /\ step' \in [TxThread -> StepType]
  BY <1>2, <1>4 DEF TxInv, StepType, Places
<1>6. /\ ~accessing'[x] /\ \A y \in Tx : y # x => accessing'[y] = accessing[y]
      /\ \A y \in Tx : y # x => tx_data'[y] = tx_data[y]
  BY <1>2, <1>4 DEF TxInv, TxTypeOK
<1>7. TxTypeOK'
  BY <1>2, <1>3, <1>4 DEF TxInv, TxTypeOK
<1>8. \A y \in Tx : Owner[y] \in TxThread
  BY TxAssumption
<1>9. /\ ~Landed(x) /\ Landed(x)' /\ Held(x) = tx_data[x] /\ InHand(x) = {}
  BY <1>1, <1>2, <1>3, <1>5 DEF Landed, Runs, Held, InHand, Inserting
<1>10. \A y \in Tx : y # x => Landed(y)' = Landed(y) /\ Held(y)' = Held(y) /\ InHand(y)' = InHand(y)
  BY <1>1, <1>2, <1>4, <1>5, <1>6, <1>8 DEF Landed, Runs, Held, InHand, Inserting
<1>11. Contexts'
  BY <1>1, <1>2, <1>4, <1>5 DEF TxInv, Contexts
<1>12. Accesses'
  <2>1. ASSUME NEW y \in Tx, y # x
        PROVE  (Runs(y) /\ step[Owner[y]].at \in InData)' = (Runs(y) /\ step[Owner[y]].at \in InData)
    BY <2>1, <1>2, <1>5, <1>8 DEF Runs, InData
  <2>2. ~(Runs(x) /\ step[Owner[x]].at \in InData)'
    BY <1>2, <1>5 DEF Runs, InData
  <2> QED BY <2>1, <2>2, <1>6 DEF TxInv, Accesses
<1>13. Inserts'
  BY <1>4, <1>5 DEF TxInv, Inserts, Inserting
<1>14. Keeps'
  BY <1>4, <1>9, <1>10 DEF TxInv, Keeps
<1>15. Database'
  <2>1. tx_data[x] \subseteq inserted[x] /\ inserted[x] \subseteq all_items \cup tx_data[x]
    BY <1>9 DEF TxInv, Keeps
  <2>2. inserted[x] \subseteq all_items' /\ inserted' = inserted
    BY <2>1, <1>4
  <2>3. ASSUME NEW i \in Item, i \in all_items' PROVE \E y \in Tx : Landed(y)' /\ i \in inserted[y]
    <3>1. CASE i \in tx_data[x]
      BY <3>1, <2>1, <1>9
    <3>2. CASE i \in all_items
      BY <3>2, <1>9, <1>10 DEF TxInv, Database
    <3> QED BY <2>3, <3>1, <3>2, <1>4
  <2>4. ASSUME NEW i \in Item, NEW y \in Tx, Landed(y)', i \in inserted[y] PROVE i \in all_items'
    <3>1. CASE y = x
      BY <3>1, <2>2, <2>4
    <3>2. CASE y # x
      BY <3>2, <2>4, <1>4, <1>10 DEF TxInv, Database
    <3> QED BY <3>1, <3>2
  <2> QED BY <2>2, <2>3, <2>4 DEF Database
<1> QED BY <1>5, <1>7, <1>11, <1>12, <1>13, <1>14, <1>15 DEF TxInv

\* The end of commit or abort only records what happened.
LEMMA Ended ==
  ASSUME TxInv, NEW t \in TxThread, EndTx(t) PROVE TxInv'
<1>1. step[t].at \in {"committed", "abort"}
  BY DEF EndTx
<1>2. PICK x \in Tx : x = tx_table[t] /\ x = step[t].tx /\ Owner[x] = t /\ status[x] = "Ongoing"
  BY <1>1 DEF TxInv, Contexts
<1>3. PICK st \in {"Committed", "Aborted"} :
        /\ status' = [status EXCEPT ![x] = st] /\ (st = "Committed" <=> step[t].at = "committed")
        /\ tx_table' = [tx_table EXCEPT ![t] = NoTx] /\ step' = [step EXCEPT ![t] = Idle]
        /\ UNCHANGED <<tx_data, accessing, items_lock, all_items, inserted>>
  <2>1. CASE step[t].at = "committed"
    BY <2>1, <1>2 DEF EndTx, Removed
  <2>2. CASE step[t].at = "abort"
    BY <2>2, <1>2 DEF EndTx, Removed
  <2> QED BY <1>1, <2>1, <2>2
<1>4. /\ step'[t] = Idle /\ step'[t].at = "idle" /\ tx_table'[t] = NoTx
      /\ \A u \in TxThread : u # t => step'[u] = step[u] /\ tx_table'[u] = tx_table[u]
      /\ status'[x] = st /\ \A y \in Tx : y # x => status'[y] = status[y]
  BY <1>2, <1>3 DEF TxInv, TxTypeOK, Idle
<1>5. TxTypeOK' /\ step' \in [TxThread -> StepType]
  BY <1>2, <1>3 DEF TxInv, TxTypeOK, StepType, Idle, Places
<1>6. \A y \in Tx : Owner[y] \in TxThread
  BY TxAssumption
<1>7. \A y \in Tx : Held(y)' = Held(y) /\ InHand(y)' = InHand(y)
  BY <1>1, <1>2, <1>3, <1>4, <1>6 DEF Held, InHand, Runs, Inserting
<1>8. \A y \in Tx : Landed(y)' <=> Landed(y)
  <2>1. ASSUME NEW y \in Tx, y # x PROVE Landed(y)' <=> Landed(y)
    BY <2>1, <1>1, <1>2, <1>4, <1>6 DEF Landed, Runs
  <2>2. Landed(x)' <=> Landed(x)
    BY <1>1, <1>2, <1>3, <1>4 DEF Landed, Runs
  <2> QED BY <2>1, <2>2
<1>9. Contexts'
  <2>1. ASSUME NEW u \in TxThread, u # t, step[u].at # "idle"
        PROVE  step[u].tx \in Tx /\ step[u].tx # x /\ status'[step[u].tx] = "Ongoing"
    BY <2>1, <1>2, <1>4 DEF TxInv, Contexts
  <2> QED BY <2>1, <1>4 DEF TxInv, Contexts
<1>10. Accesses'
  <2>1. ASSUME NEW y \in Tx
        PROVE  (Runs(y) /\ step[Owner[y]].at \in InData)' = (Runs(y) /\ step[Owner[y]].at \in InData)
    BY <1>1, <1>2, <1>4, <1>6 DEF Runs, InData
  <2> QED BY <2>1, <1>3 DEF TxInv, Accesses
<1>11. Inserts'
  BY <1>3, <1>4 DEF TxInv, Inserts, Inserting
<1>12. Keeps' /\ Database'
  BY <1>3, <1>7, <1>8 DEF TxInv, Keeps, Database
<1> QED BY <1>5, <1>9, <1>10, <1>11, <1>12 DEF TxInv

\* Every step keeps the invariant.
LEMMA TxStep == TxInv /\ [TxNext]_txVars => TxInv'
<1> SUFFICES ASSUME TxInv, [TxNext]_txVars PROVE TxInv'
  OBVIOUS
<1>1. CASE UNCHANGED txVars
  BY <1>1 DEF txVars, TxInv, TxTypeOK, Contexts, Accesses, Inserts, Keeps, Database, Landed, Runs,
              Held, InHand
<1>2. ASSUME NEW t \in TxThread, NEW x \in Tx,
             NewTx(t, x) \/ Enter(t, x, "context", 0) \/ Commit(t, x) \/ Abort(t, x)
      PROVE  TxInv'
  <2>1. CASE NewTx(t, x)
    BY <2>1, TxMade
  <2>2. CASE Enter(t, x, "context", 0)
    BY <2>2, Entered
  <2>3. CASE Commit(t, x)
    BY <2>3, Entered, TxAssumption DEF Commit
  <2>4. CASE Abort(t, x)
    BY <2>4, Entered DEF Abort
  <2> QED BY <1>2, <2>1, <2>2, <2>3, <2>4
<1>3. ASSUME NEW t \in TxThread, NEW i \in Item, InsertLock(t, i) PROVE TxInv'
  BY <1>3, InsertLocked
<1>4. ASSUME NEW t \in TxThread,
             \/ Leave(t) \/ InsertAccess(t) \/ InsertData(t)
             \/ Precommit(t) \/ CommitAccess(t) \/ CommitHandler(t) \/ EndTx(t)
      PROVE  TxInv'
  BY <1>4, Left, Accessed, DataInserted, Precommitted, Landing, Ended
<1>5. CASE TxNext
  BY <1>5, <1>1, <1>2, <1>3, <1>4 DEF TxNext, TxDone
<1> QED BY <1>1, <1>5

\* The invariant holds in every reachable state.
LEMMA TxAlways == TxSpec => []TxInv
BY TxStarts, TxStep, PTL DEF TxSpec

\* Item by item or as sets, the database is what the landed transactions inserted.
LEMMA DatabaseIsUnion == TxInv => DbAtomic
<1> SUFFICES ASSUME TxInv PROVE DbAtomic
  OBVIOUS
<1> DEFINE done == {x \in Tx : \/ status[x] = "Committed"
                               \/ step[Owner[x]].at = "committed" /\ step[Owner[x]].tx = x}
<1>1. \A x \in Tx : x \in done <=> Landed(x)
  BY DEF Landed, Runs
<1>2. all_items \subseteq Item /\ \A x \in Tx : inserted[x] \subseteq Item
  BY DEF TxInv, TxTypeOK
<1>3. \A i : i \in UNION {inserted[x] : x \in done} <=> \E x \in Tx : Landed(x) /\ i \in inserted[x]
  BY <1>1
<1>4. \A i : i \in all_items <=> i \in UNION {inserted[x] : x \in done}
  BY <1>2, <1>3 DEF TxInv, Database
<1>5. all_items = UNION {inserted[x] : x \in done}
  BY <1>4, Zenon
<1> QED BY <1>5 DEF DbAtomic

\* However transactions of any threads interleave and whichever pre-commit handlers fail, the
\* Db of the tests holds what the committed ones inserted, and nothing of the others.
THEOREM DatabaseAtomic == TxSpec => []DbAtomic
BY TxAlways, DatabaseIsUnion, PTL

\* No panic of the provider is reached: set_and_exec_with finds no transaction of the thread in
\* the table, get_current_mut_with finds the thread's own, with is_accessing_data clear.
THEOREM ProviderNeverPanics == TxSpec => []NoPanic
<1>1. TxInv => NoPanic
  BY DEF TxInv, NoPanic, Contexts, StepType, Places, InData, Inserting
<1> QED BY <1>1, TxAlways, PTL
=============================================================================
