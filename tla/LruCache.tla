------------------------------ MODULE LruCache ------------------------------
(***************************************************************************)
(* LruCache and the list under it: boxed nodes linked by raw pointers, and *)
(* a map from keys to pointers into the list.  The list is a record with   *)
(* the pointers of all boxes; an operation of LinkedList is a function     *)
(* from list to list, one of LruCache an action.                           *)
(***************************************************************************)
EXTENDS Integers, Sequences, Functions, FiniteSets

CONSTANTS
  Key,        \* keys, block numbers in the code
  Box,        \* addresses a node may have, numbers
  Null        \* None

ASSUME LruAssumption == Box \subseteq Nat /\ IsFiniteSet(Box) /\ Null \notin Box

VARIABLES
  list,       \* LruCache::list
  entry,      \* LruCache::map: per key the node_ref of its entry, or Null
  freed,      \* addresses that no node has
  iter,       \* a running iterator with what it yielded, or Null
  did,        \* the last operation of the cache, with its argument or result
  cut         \* whether move_to_tail was called for the last key

lruVars == <<list, entry, freed, iter, did, cut>>

Did(op, arg) == did' = [op |-> op, arg |-> arg]

NewList == [head |-> Null, tail |-> Null, len |-> 0, next |-> [b \in Box |-> Null],
            prev |-> [b \in Box |-> Null], element |-> [b \in Box |-> Null]]

-----------------------------------------------------------------------------
(* LinkedList *)

\* A slip: a new node goes to the end.
PushLastNode(l, n, k) ==
  LET a == [l EXCEPT !.prev[n] = l.tail, !.next[n] = Null, !.element[n] = k]
      b == IF l.tail = Null THEN [a EXCEPT !.head = n] ELSE [a EXCEPT !.next[l.tail] = n]
  IN [b EXCEPT !.tail = n, !.len = @ + 1]

PushFrontNode(l, n, k) ==
  LET a == [l EXCEPT !.next[n] = l.head, !.prev[n] = Null, !.element[n] = k]
      b == IF l.head = Null THEN [a EXCEPT !.tail = n] ELSE [a EXCEPT !.prev[l.head] = n]
  IN [b EXCEPT !.head = n, !.len = @ + 1]

PopFrontNode(l) ==
  LET a == [l EXCEPT !.head = l.next[l.head], !.len = @ - 1]
  IN IF a.head = Null THEN [a EXCEPT !.tail = Null] ELSE [a EXCEPT !.prev[a.head] = Null]

PopBackNode(l) ==
  LET a == [l EXCEPT !.tail = l.prev[l.tail], !.len = @ - 1]
  IN IF a.tail = Null THEN [a EXCEPT !.head = Null] ELSE [a EXCEPT !.next[a.tail] = Null]

UnlinkNode(l, n) ==
  LET a == IF l.prev[n] = Null THEN [l EXCEPT !.head = l.next[n]]
           ELSE [l EXCEPT !.next[l.prev[n]] = l.next[n]]
      b == IF l.next[n] = Null THEN [a EXCEPT !.tail = l.prev[n]]
           ELSE [a EXCEPT !.prev[l.next[n]] = l.prev[n]]
  IN [b EXCEPT !.len = @ - 1]

\* A slip: the tail stays, also when the last node moves away.
MoveNodeKeepsTail(l, n) ==
  IF l.head = Null \/ l.prev[n] = Null THEN l
  ELSE LET a == [l EXCEPT !.next[l.prev[n]] = l.next[n]]
           b == IF a.next[n] = Null THEN a ELSE [a EXCEPT !.prev[a.next[n]] = a.prev[n]]
           c == [b EXCEPT !.next[n] = b.head, !.prev[n] = Null]
           d == IF c.head = Null THEN [c EXCEPT !.tail = n] ELSE [c EXCEPT !.prev[c.head] = n]
       IN [d EXCEPT !.head = n]

MoveNodeToHead(l, n) ==
  IF l.head = Null \/ l.prev[n] = Null THEN l
  ELSE LET a == [l EXCEPT !.next[l.prev[n]] = l.next[n]]
           b == IF a.next[n] = Null THEN [a EXCEPT !.tail = a.prev[n]]
                ELSE [a EXCEPT !.prev[a.next[n]] = a.prev[n]]
           c == [b EXCEPT !.next[n] = b.head, !.prev[n] = Null]
           d == IF c.head = Null THEN [c EXCEPT !.tail = n] ELSE [c EXCEPT !.prev[c.head] = n]
       IN [d EXCEPT !.head = n]

\* The early return, for the tail, comes when the node before it is already changed.
MoveNodeToTail(l, n) ==
  IF l.head = Null THEN l
  ELSE LET a == IF l.prev[n] = Null THEN [l EXCEPT !.head = l.next[n]]
                ELSE [l EXCEPT !.next[l.prev[n]] = l.next[n]]
           b == [a EXCEPT !.prev[a.next[n]] = a.prev[n]]
           c == [b EXCEPT !.next[n] = Null, !.prev[n] = b.tail]
           d == IF c.tail = Null THEN [c EXCEPT !.head = n] ELSE [c EXCEPT !.next[c.tail] = n]
       IN IF a.next[n] = Null THEN a ELSE [d EXCEPT !.tail = n]

\* Boxes are given back; a pointer to one is dangling.
Dealloc(l, gone) ==
  LET cleared(f) == [b \in Box |-> IF b \in gone THEN Null ELSE f[b]]
  IN [l EXCEPT !.next = cleared(@), !.prev = cleared(@), !.element = cleared(@)]

\* The nodes from pointer p on, in the direction of link, at most one more than there are.
Follow(link, q) == IF q = Null THEN Null ELSE link[q]

Walk(link, p) ==
  LET from[i \in 0..Cardinality(Box)] == IF i = 0 THEN p ELSE Follow(link, from[i - 1])
      steps == {i \in 0..Cardinality(Box) : from[i] # Null}
  IN [i \in 1..Cardinality(steps) |-> from[i - 1]]

Backwards(s) == [i \in 1..Len(s) |-> s[Len(s) - i + 1]]

ListNodes == Walk(list.next, list.head)

Elements(l) == LET w == Walk(l.next, l.head) IN [i \in DOMAIN w |-> l.element[w[i]]]

\* The list's Drop pops nodes from the front until there is none.
DropNodes(l) == Range(Walk(l.next, l.head))

-----------------------------------------------------------------------------
(* LruCache *)

LruInit ==
  /\ list = NewList /\ entry = [k \in Key |-> Null] /\ freed = Box /\ iter = Null
  /\ did = [op |-> "new", arg |-> 0] /\ cut = FALSE

\* The node in b is dropped, and the entry of its key with it.
Forget(b) == /\ freed' = freed \cup {b}
             /\ entry' = [entry EXCEPT ![list.element[b]] = Null]

Push(k) ==
  /\ iter = Null
  /\ IF entry[k] = Null
     THEN \E n \in freed :
            /\ \A b \in freed : n <= b
            /\ list' = PushFrontNode(list, n, k)
            /\ entry' = [entry EXCEPT ![k] = n] /\ freed' = freed \ {n}
     ELSE UNCHANGED <<list, entry, freed>>
  /\ Did("push", k) /\ UNCHANGED <<iter, cut>>

PopFront ==
  /\ iter = Null /\ list.head # Null
  /\ list' = Dealloc(PopFrontNode(list), {list.head}) /\ Forget(list.head)
  /\ Did("pop_front", list.element[list.head]) /\ UNCHANGED <<iter, cut>>

PopBack ==
  /\ iter = Null /\ list.tail # Null
  /\ list' = Dealloc(PopBackNode(list), {list.tail}) /\ Forget(list.tail)
  /\ Did("pop_back", list.element[list.tail]) /\ UNCHANGED <<iter, cut>>

MoveToHead(k) ==
  /\ iter = Null /\ entry[k] # Null
  /\ list' = MoveNodeToHead(list, entry[k])
  /\ Did("move_to_head", k) /\ UNCHANGED <<entry, freed, iter, cut>>

\* The library has no caller of it.  For the last key it cuts the list: see LruNext.
MoveToTail(k) ==
  /\ iter = Null /\ entry[k] # Null
  /\ list' = MoveNodeToTail(list, entry[k]) /\ cut' = (entry[k] = list.tail)
  /\ Did("move_to_tail", k) /\ UNCHANGED <<entry, freed, iter>>

\* pop_back as often as the length exceeds the capacity when the loop starts.
ChangeCapacity(capacity) ==
  /\ iter = Null /\ capacity < list.len
  /\ LET popped[n \in 0..list.len] == IF n = 0 THEN list ELSE PopBackNode(popped[n - 1])
         gone == {popped[n].tail : n \in 0..list.len - capacity - 1}
     IN /\ list' = Dealloc(popped[list.len - capacity], gone)
        /\ freed' = freed \cup gone
        /\ entry' = [k \in Key |-> IF entry[k] \in gone THEN Null ELSE entry[k]]
  /\ Did("change_capacity", capacity) /\ UNCHANGED <<iter, cut>>

ClearAll ==
  /\ iter = Null
  /\ list' = NewList
  /\ freed' = freed \cup DropNodes(list) /\ entry' = [k \in Key |-> Null]
  /\ Did("clear", 0) /\ UNCHANGED <<iter, cut>>

-----------------------------------------------------------------------------
(* Iterators borrow the cache until they are dropped *)

Iter ==
  /\ iter = Null
  /\ iter' = [head |-> list.head, tail |-> list.tail, len |-> list.len,
              front |-> <<>>, back |-> <<>>]
  /\ UNCHANGED <<list, entry, freed, did, cut>>

IterNext ==
  /\ iter # Null /\ iter.len # 0 /\ iter.head # Null
  /\ iter' = [iter EXCEPT !.len = @ - 1, !.head = list.next[iter.head],
                          !.front = Append(@, list.element[iter.head])]
  /\ UNCHANGED <<list, entry, freed, did, cut>>

IterNextBack ==
  /\ iter # Null /\ iter.len # 0 /\ iter.tail # Null
  /\ iter' = [iter EXCEPT !.len = @ - 1, !.tail = list.prev[iter.tail],
                          !.back = Append(@, list.element[iter.tail])]
  /\ UNCHANGED <<list, entry, freed, did, cut>>

IterDrop == iter # Null /\ iter' = Null /\ UNCHANGED <<list, entry, freed, did, cut>>

\* One step of DrainFilter::next, at node n.
DrainStep(S, l, n) == IF l.element[n] \in S THEN UnlinkNode(l, n) ELSE l

\* DrainFilter of the list, from its first step to its drop: each node the filter takes
\* is unlinked and freed.  The cache has no such call; its entries go with the nodes here.
DrainFilter(S) ==
  /\ iter = Null /\ S # {} /\ \A k \in S : entry[k] # Null
  /\ LET w == ListNodes
         left[i \in 0..Len(w)] == IF i = 0 THEN list ELSE DrainStep(S, left[i - 1], w[i])
     IN list' = Dealloc(left[Len(w)], {entry[k] : k \in S})
  /\ freed' = freed \cup {entry[k] : k \in S}
  /\ entry' = [k \in Key |-> IF k \in S THEN Null ELSE entry[k]]
  /\ Did("drain_filter", S) /\ UNCHANGED <<iter, cut>>

\* A list that was cut is not followed further.
LruNext ==
  /\ ~cut
  /\ \/ \E k \in Key : Push(k) \/ MoveToHead(k) \/ MoveToTail(k)
     \/ PopFront \/ PopBack \/ ClearAll
     \/ \E capacity \in 0..Cardinality(Key) : ChangeCapacity(capacity)
     \/ Iter \/ IterNext \/ IterNextBack \/ IterDrop
     \/ \E S \in SUBSET Key : DrainFilter(S)

LruSpec == LruInit /\ [][LruNext]_lruVars

-----------------------------------------------------------------------------
(* Properties *)

\* Every variable has its type.
LruTypeOK ==
  /\ list.head \in Box \cup {Null} /\ list.tail \in Box \cup {Null} /\ list.len \in Nat
  /\ list.next \in [Box -> Box \cup {Null}] /\ list.prev \in [Box -> Box \cup {Null}]
  /\ entry \in [Key -> Box \cup {Null}] /\ freed \subseteq Box

\* The pointers of the list and of the map agree: the backward chain is the forward one
\* reversed, len counts it, the nodes are exactly the ones not freed, and every entry's
\* node_ref points to the node of its key.  move_to_tail of the last key breaks it: the node
\* before is changed (list.rs:259-263) when the early return for the tail comes.
PointersAgree ==
  /\ Walk(list.prev, list.tail) = Backwards(ListNodes)
  /\ list.len = Len(ListNodes) /\ Range(ListNodes) = Box \ freed
  /\ \A k \in Key : entry[k] # Null <=> k \in Range(Elements(list))
  /\ \A k \in Key : entry[k] # Null => entry[k] \notin freed /\ list.element[entry[k]] = k

\* The pointers agree until move_to_tail is called for the last key, which nobody does.
ListLinked == ~cut => PointersAgree

\* An iterator that is advanced from both ends yields every element once: what came from
\* the front, what is left, and what came from the back make up the list.
IterYieldsAll ==
  iter # Null =>
    LET all == Elements(list)
    IN /\ iter.len = Len(all) - Len(iter.front) - Len(iter.back)
       /\ iter.front = SubSeq(all, 1, Len(iter.front))
       /\ Backwards(iter.back) = SubSeq(all, Len(all) - Len(iter.back) + 1, Len(all))

Abstract == INSTANCE LruOrder WITH order <- Elements(list)

\* The linked list implements the sequence of keys that ProtectedFile takes the cache for:
\* each operation, with its argument, changes the order as it says, returns what it says and
\* does nothing else, but for move_to_tail of the last key.
ImplementsLruOrder == Abstract!Init /\ [][UNCHANGED lruVars \/ Abstract!Next \/ cut']_<<Elements(list), did>>
=============================================================================
