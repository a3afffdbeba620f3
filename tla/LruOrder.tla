------------------------------ MODULE LruOrder ------------------------------
(***************************************************************************)
(* What the LRU cache promises: a sequence of distinct keys, the most      *)
(* recently used first, with the operations that ProtectedFile uses on its *)
(* variable cache.  Every operation leaves its name and its argument or    *)
(* result in did, so that an implementation has to do the one it was asked *)
(* for.                                                                    *)
(***************************************************************************)
EXTENDS Integers, Sequences

CONSTANT Key

VARIABLES
  order,    \* the keys
  did       \* the last operation

Call(op, arg) == [op |-> op, arg |-> arg]

Has(k) == \E i \in 1..Len(order) : order[i] = k

Place(k) == CHOOSE i \in 1..Len(order) : order[i] = k

Without(k) == [i \in 1..Len(order) - 1 |-> IF i < Place(k) THEN order[i] ELSE order[i + 1]]

Init == order = <<>> /\ did = Call("new", 0)

\* The key becomes the first; a key that is there stays where it is.
Push(k) == did' = Call("push", k) /\ order' = IF Has(k) THEN order ELSE <<k>> \o order

MoveToHead(k) == Has(k) /\ did' = Call("move_to_head", k) /\ order' = <<k>> \o Without(k)
MoveToTail(k) == Has(k) /\ did' = Call("move_to_tail", k) /\ order' = Append(Without(k), k)

\* The first and the last key are taken out and returned.
PopFront == /\ order # <<>>
            /\ did' = Call("pop_front", order[1]) /\ order' = Tail(order)
PopBack == /\ order # <<>>
           /\ did' = Call("pop_back", order[Len(order)])
           /\ order' = SubSeq(order, 1, Len(order) - 1)

\* Keys are dropped from the back until n are left.
ChangeCapacity(n) ==
  n < Len(order) /\ did' = Call("change_capacity", n) /\ order' = SubSeq(order, 1, n)

Clear == did' = Call("clear", 0) /\ order' = <<>>

\* The keys of S are taken out, the others keep their order.
DrainFilter(S) ==
  did' = Call("drain_filter", S) /\ order' = SelectSeq(order, LAMBDA k : k \notin S)

Next ==
  \/ \E k \in Key : Push(k) \/ MoveToHead(k) \/ MoveToTail(k)
  \/ PopFront \/ PopBack \/ Clear
  \/ \E n \in 0..Len(order) : ChangeCapacity(n)
  \/ \E S \in SUBSET Key : DrainFilter(S)

Spec == Init /\ [][Next]_<<order, did>>
=============================================================================
