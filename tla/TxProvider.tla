----------------------------- MODULE TxProvider -----------------------------
(***************************************************************************)
(* Transactions (core/src/tx): threads run closures in the context of a    *)
(* transaction, which handlers reach through the provider's table of       *)
(* current transactions, and commit or abort it.  The client is the Db of  *)
(* the module's tests: items inserted in a transaction go to the database  *)
(* in a commit handler.                                                    *)
(*                                                                         *)
(* A Tx stays on the thread that made it; a thread may have several, and   *)
(* enter their contexts in turn.  A step is what happens under one lock,   *)
(* between taking and releasing is_accessing_data, or in one handler.      *)
(***************************************************************************)
EXTENDS Naturals, FiniteSets

CONSTANTS
  TxThread, Tx, Item,
  Owner,       \* the thread that makes each transaction
  Handlers,    \* how many pre-commit handlers are registered
  NoTx         \* no transaction

ASSUME TxAssumption ==
  /\ Owner \in [Tx -> TxThread] /\ Handlers \in Nat
  /\ NoTx \notin Tx /\ NoTx \notin TxThread /\ \A S \in SUBSET Item : S # NoTx

VARIABLES
  tx_table,    \* TxProvider::tx_table: per thread its current transaction
  status,      \* per transaction: new, Ongoing, Committed or Aborted
  tx_data,     \* per transaction its DbUpdate, or NoTx before the first access
  accessing,   \* per transaction is_accessing_data
  step,        \* per thread, what it is doing
  items_lock,  \* the thread that holds the lock of all_items, or NoTx
  all_items,   \* Db::all_items
  inserted     \* history: what was inserted in each transaction

txVars == <<tx_table, status, tx_data, accessing, step, items_lock, all_items, inserted>>

\* What a thread does: in which call, for which transaction and item, and where.
Idle == [at |-> "idle", tx |-> NoTx, item |-> NoTx, left |-> 0]

TxInit ==
  /\ tx_table = [t \in TxThread |-> NoTx] /\ status = [x \in Tx |-> "new"]
  /\ tx_data = [x \in Tx |-> NoTx] /\ accessing = [x \in Tx |-> FALSE]
  /\ step = [t \in TxThread |-> Idle]
  /\ items_lock = NoTx /\ all_items = {} /\ inserted = [x \in Tx |-> {}]

Goes(t, at) == step' = [step EXCEPT ![t].at = at]

-----------------------------------------------------------------------------
(* Contexts *)

NewTx(t, x) ==
  /\ step[t].at = "idle" /\ Owner[x] = t /\ status[x] = "new"
  /\ status' = [status EXCEPT ![x] = "Ongoing"]
  /\ UNCHANGED <<tx_table, tx_data, accessing, step, items_lock, all_items, inserted>>

\* set_and_exec_with, up to the closure, which starts at `at'.
Enter(t, x, at, left) ==
  /\ step[t].at = "idle" /\ Owner[x] = t /\ status[x] = "Ongoing"
  /\ tx_table' = [tx_table EXCEPT ![t] = x]
  /\ step' = [step EXCEPT ![t] = [at |-> IF tx_table[t] = NoTx THEN at ELSE "panic",
                                  tx |-> x, item |-> NoTx, left |-> left]]
  /\ UNCHANGED <<status, tx_data, accessing, items_lock, all_items, inserted>>

\* A slip: the transaction stays in the table.
RemovedLate(t) == tx_table

\* The table after set_and_exec_with has removed the thread's transaction.
Removed(t) == [tx_table EXCEPT ![t] = NoTx]

\* The closure of a user's context ends.
Leave(t) ==
  /\ step[t].at = "context"
  /\ tx_table' = Removed(t) /\ step' = [step EXCEPT ![t] = Idle]
  /\ UNCHANGED <<status, tx_data, accessing, items_lock, all_items, inserted>>

\* get_current_mut_with up to its closure: the thread's transaction, if it is not in use.
GetCurrent(t, from, to) ==
  /\ step[t].at = from
  /\ LET x == tx_table[t]
     IN IF x = NoTx \/ accessing[x] THEN Goes(t, "panic") /\ UNCHANGED <<accessing, tx_data>>
        ELSE /\ accessing' = [accessing EXCEPT ![x] = TRUE]
             /\ tx_data' = [tx_data EXCEPT ![x] = IF @ = NoTx THEN {} ELSE @]
             /\ Goes(t, to)
  /\ UNCHANGED <<tx_table, status, items_lock, all_items, inserted>>

-----------------------------------------------------------------------------
(* Db::insert, in a context *)

InsertLock(t, i) ==
  /\ step[t].at = "context" /\ items_lock = NoTx
  /\ IF i \in all_items THEN UNCHANGED <<items_lock, step>>
     ELSE items_lock' = t /\ step' = [step EXCEPT ![t].at = "insert", ![t].item = i]
  /\ inserted' = [inserted EXCEPT ![step[t].tx] = @ \cup {i}]
  /\ UNCHANGED <<tx_table, status, tx_data, accessing, all_items>>

InsertAccess(t) == GetCurrent(t, "insert", "insert_data")

InsertData(t) ==
  /\ step[t].at = "insert_data"
  /\ LET x == tx_table[t]
     IN /\ tx_data' = [tx_data EXCEPT ![x] = @ \cup {step[t].item}]
        /\ accessing' = [accessing EXCEPT ![x] = FALSE]
  /\ items_lock' = NoTx
  /\ step' = [step EXCEPT ![t].at = "context", ![t].item = NoTx]
  /\ UNCHANGED <<tx_table, status, all_items, inserted>>

-----------------------------------------------------------------------------
(* commit and abort *)

Commit(t, x) == Enter(t, x, "precommit", Handlers)

Abort(t, x) == Enter(t, x, "abort", 0)

\* One pre-commit handler, the last registered first; any may fail.
Precommit(t) ==
  /\ step[t].at = "precommit"
  /\ IF step[t].left = 0 THEN Goes(t, "commit")
     ELSE \/ step' = [step EXCEPT ![t].left = @ - 1]
          \/ Goes(t, "abort")
  /\ UNCHANGED <<tx_table, status, tx_data, accessing, items_lock, all_items, inserted>>

\* The Db's commit handler: under data_mut_with it locks all_items and appends.
CommitAccess(t) == GetCurrent(t, "commit", "commit_data")

\* A slip: all that is in the database is in the transaction after it, too.
CommitSwap(t) ==
  /\ step[t].at = "commit_data" /\ items_lock = NoTx
  /\ LET x == tx_table[t]
     IN /\ all_items' = tx_data[x]
        /\ tx_data' = [tx_data EXCEPT ![x] = {}]
        /\ accessing' = [accessing EXCEPT ![x] = FALSE]
  /\ Goes(t, "committed")
  /\ UNCHANGED <<tx_table, status, items_lock, inserted>>

CommitHandler(t) ==
  /\ step[t].at = "commit_data" /\ items_lock = NoTx
  /\ LET x == tx_table[t]
     IN /\ all_items' = all_items \cup tx_data[x]
        /\ tx_data' = [tx_data EXCEPT ![x] = {}]
        /\ accessing' = [accessing EXCEPT ![x] = FALSE]
  /\ Goes(t, "committed")
  /\ UNCHANGED <<tx_table, status, items_lock, inserted>>

\* The context of commit or abort ends, and the status is set.
EndTx(t) ==
  /\ step[t].at \in {"committed", "abort"}
  /\ tx_table' = Removed(t)
  /\ status' = [status EXCEPT ![step[t].tx] =
                  IF step[t].at = "committed" THEN "Committed" ELSE "Aborted"]
  /\ step' = [step EXCEPT ![t] = Idle]
  /\ UNCHANGED <<tx_data, accessing, items_lock, all_items, inserted>>

TxDone == (\A x \in Tx : status[x] \in {"Committed", "Aborted"}) /\ UNCHANGED txVars

TxNext ==
  \/ \E t \in TxThread :
       \/ \E x \in Tx : NewTx(t, x) \/ Enter(t, x, "context", 0) \/ Commit(t, x) \/ Abort(t, x)
       \/ \E i \in Item : InsertLock(t, i)
       \/ Leave(t) \/ InsertAccess(t) \/ InsertData(t)
       \/ Precommit(t) \/ CommitAccess(t) \/ CommitHandler(t) \/ EndTx(t)
  \/ TxDone

TxSpec == TxInit /\ [][TxNext]_txVars

-----------------------------------------------------------------------------
(* What the Db's queries return in a transaction *)

Collect(x) == all_items \cup (IF tx_data[x] = NoTx THEN {} ELSE tx_data[x])

DbLen(x) == Cardinality(all_items) + (IF tx_data[x] = NoTx THEN 0 ELSE Cardinality(tx_data[x]))

-----------------------------------------------------------------------------
(* Properties *)

\* Every variable has its type.
TxTypeOK ==
  /\ tx_table \in [TxThread -> Tx \cup {NoTx}]
  /\ status \in [Tx -> {"new", "Ongoing", "Committed", "Aborted"}]
  /\ tx_data \in [Tx -> (SUBSET Item) \cup {NoTx}] /\ accessing \in [Tx -> BOOLEAN]
  /\ items_lock \in TxThread \cup {NoTx} /\ all_items \subseteq Item
  /\ inserted \in [Tx -> SUBSET Item]

\* The database is what the committed transactions inserted, however they interleave: an
\* aborted one leaves nothing, and a committed one takes effect as a whole.
DbAtomic ==
  LET done == {x \in Tx : \/ status[x] = "Committed"
                          \/ step[Owner[x]].at = "committed" /\ step[Owner[x]].tx = x}
  IN all_items = UNION {inserted[x] : x \in done}

\* No call panics: contexts do not nest on a thread, a handler finds its own thread's
\* transaction in the table, and is_accessing_data is clear when it takes it.
NoPanic ==
  \A t \in TxThread : /\ step[t].at # "panic"
                      /\ step[t].at # "idle" => tx_table[t] = step[t].tx

\* len counts the items that collect returns ("Returns the number of items in the DB").
LenExact == \A x \in Tx : status[x] = "Ongoing" => DbLen(x) = Cardinality(Collect(x))
=============================================================================
