----------------------------- MODULE LinkedList -----------------------------
(***************************************************************************)
(* List<T> (src/include/espbot_list.hpp): a doubly linked list with a      *)
(* cursor, in a heap whose memory may run out and is used again.           *)
(*                                                                         *)
(* The cursor is not initialised, and is left pointing at freed memory     *)
(* when its node goes: it is Dangling then, and next(), prev() and         *)
(* remove(), which would follow it, are not called.                        *)
(***************************************************************************)
EXTENDS Integers, FiniteSets

CONSTANTS
  MAX_SIZE,   \* m_max_size
  Nodes,      \* the places the heap has for a struct list_el
  Things      \* the contents

Null == "null"
Dangling == "dangling"

ASSUME ListAssumption ==
  MAX_SIZE \in Nat \ {0} /\ Nodes \cap {Null, Dangling} = {}

VARIABLES
  list,    \* the heap's nodes in use and the list's members
  answer   \* what the last call returned, and what it deleted

vars == <<list, answer>>

\* a node as new leaves it
Uninitialised == [content |-> "garbage", next |-> Dangling, prev |-> Dangling]

\* List(): the cursor is not initialised
New(heap, deletes) ==
  [heap |-> heap, size |-> 0, front |-> Null, back |-> Null,
   cursor |-> Dangling, deletes |-> deletes]

Says(value, deleted) == [value |-> value, deleted |-> deleted]

Without(heap, nodes) == [n \in DOMAIN heap \ nodes |-> heap[n]]

\* delete of a node; the cursor may point at it
Freed(l, n) == [l EXCEPT !.heap = Without(@, {n}),
                         !.cursor = IF @ = n THEN Dangling ELSE @]

\* writes to a member of a node, if there is a node
SetNext(heap, n, to) == IF n = Null THEN heap ELSE [heap EXCEPT ![n].next = to]
SetPrev(heap, n, to) == IF n = Null THEN heap ELSE [heap EXCEPT ![n].prev = to]

\* the contents deleted with a set of nodes
Deleted(l, nodes) == IF l.deletes THEN {l.heap[n].content : n \in nodes} ELSE {}

\* the list without its first node
PoppedFront(l) ==
  LET second == l.heap[l.front].next
  IN  Freed([l EXCEPT !.size = @ - 1,
                      !.front = second,
                      !.heap = SetPrev(@, second, Null),
                      !.back = IF l.size = 1 THEN Null ELSE @], l.front)

\* Mutant: the front of an emptied list still points at the node
PoppedBack_keepsFront(l) ==
  LET last == l.heap[l.back].prev
  IN  Freed([l EXCEPT !.size = @ - 1,
                      !.back = last,
                      !.heap = SetNext(@, last, Null)], l.back)

\* the list without its last node
PoppedBack(l) ==
  LET last == l.heap[l.back].prev
  IN  Freed([l EXCEPT !.size = @ - 1,
                      !.back = last,
                      !.heap = SetNext(@, last, Null),
                      !.front = IF l.size = 1 THEN Null ELSE @], l.back)

\* the list without a node between two others
Unlinked(l, n) ==
  LET heap == SetNext(l.heap, l.heap[n].prev, l.heap[n].next)
  IN  Freed([l EXCEPT !.size = @ - 1,
                      !.heap = SetPrev(heap, heap[n].next, heap[n].prev)], n)

\* new: a place n that is free
Allocated(l, n) ==
  [l EXCEPT !.heap = [m \in DOMAIN @ \cup {n} |->
                        IF m = n THEN Uninitialised ELSE @[m]]]

\* node n with content e before the first
LinkedAtFront(l, n, e) ==
  LET node == [content |-> e, next |-> l.front, prev |-> Null]
  IN  [l EXCEPT !.size = @ + 1,
                !.heap = [SetPrev(@, l.front, n) EXCEPT ![n] = node],
                !.front = n,
                !.back = IF @ = Null THEN n ELSE @]

\* node n with content e after the last
LinkedAtBack(l, n, e) ==
  LET node == [content |-> e, next |-> Null, prev |-> l.back]
  IN  [l EXCEPT !.size = @ + 1,
                !.heap = [SetNext(@, l.back, n) EXCEPT ![n] = node],
                !.back = n,
                !.front = IF @ = Null THEN n ELSE @]

\* the nodes on the way from the front
nth[i \in Nat \ {0}] ==
  IF i = 1 THEN list.front
  ELSE IF nth[i - 1] = Null THEN Null ELSE list.heap[nth[i - 1]].next

Listed == {nth[i] : i \in 1..Cardinality(DOMAIN list.heap)} \ {Null}

-----------------------------------------------------------------------------

Init == (\E d \in BOOLEAN : list = New(<<>>, d)) /\ answer = Says("ok", {})

Nothing(why) == answer' = Says(why, {}) /\ UNCHANGED list

\* the cursor goes to a node, whose content is the answer
Look(n) ==
  /\ list' = [list EXCEPT !.cursor = n]
  /\ answer' = Says(IF n = Null THEN "null" ELSE list.heap[n].content, {})

Front == Look(list.front)
Back == Look(list.back)

\* next() and prev() keep the cursor where there is no further node.
FollowTo(n) == IF n = Null THEN Nothing("null") ELSE Look(n)

NextNode ==
  /\ list.cursor # Dangling
  /\ FollowTo(IF list.cursor = Null THEN Null ELSE list.heap[list.cursor].next)

PrevNode ==
  /\ list.cursor # Dangling
  /\ FollowTo(IF list.cursor = Null THEN Null ELSE list.heap[list.cursor].prev)

\* a push links at one end and drops at the other
Linked(l, n, e, end) ==
  IF end = "front" THEN LinkedAtFront(l, n, e) ELSE LinkedAtBack(l, n, e)

Popped(l, end) == IF end = "front" THEN PoppedFront(l) ELSE PoppedBack(l)

\* A push takes memory first. A full list refuses the element, and keeps the
\* memory, or drops the node at the other end if the caller asks for that.
Push(e, override, end, other) ==
  \/ Nothing("alloc_fail")
  \/ \E n \in Nodes \ DOMAIN list.heap :
       LET taken == Allocated(list, n)
           dropped == IF other = "front" THEN list.front ELSE list.back
       IN  \/ /\ list.size < MAX_SIZE
              /\ list' = Linked(taken, n, e, end)
              /\ answer' = Says("ok", {})
           \/ /\ list.size = MAX_SIZE /\ ~override
              /\ list' = taken
              /\ answer' = Says("full", {})
           \/ /\ list.size = MAX_SIZE /\ override
              /\ list' = Linked(Popped(taken, other), n, e, end)
              /\ answer' = Says("ok", Deleted(list, {dropped}))

\* Mutant: the element that goes is the one at the same end
PushFront_dropsFirst(e, override) == Push(e, override, "front", "front")

PushFront(e, override) == Push(e, override, "front", "back")

PushBack(e, override) == Push(e, override, "back", "front")

\* remove(): the node under the cursor, which is left dangling
Remove ==
  LET n == list.cursor
  IN  \/ n = Null /\ Nothing("ok")
      \/ /\ n \notin {Null, Dangling}
         /\ answer' = Says("ok", Deleted(list, {n}))
         /\ list' = IF n = list.front THEN PoppedFront(list)
                    ELSE IF n = list.back THEN PoppedBack(list)
                    ELSE Unlinked(list, n)

PopFront ==
  IF list.front = Null THEN Nothing("empty")
  ELSE /\ list' = PoppedFront(list)
       /\ answer' = Says("ok", Deleted(list, {list.front}))

PopBack ==
  IF list.back = Null THEN Nothing("empty")
  ELSE /\ list' = PoppedBack(list)
       /\ answer' = Says("ok", Deleted(list, {list.back}))

\* Mutant: the destructor stops before the last node
Renew_butLast ==
  /\ \E d \in BOOLEAN :
       list' = New(Without(list.heap, Listed \ {list.back}), d)
  /\ answer' = Says("ok", Deleted(list, Listed))

\* ~List(), and List() again in the same heap
Renew ==
  /\ \E d \in BOOLEAN : list' = New(Without(list.heap, Listed), d)
  /\ answer' = Says("ok", Deleted(list, Listed))

Next ==
  \/ Front \/ Back \/ NextNode \/ PrevNode
  \/ \E e \in Things, override \in BOOLEAN : PushFront(e, override)
  \/ \E e \in Things, override \in BOOLEAN : PushBack(e, override)
  \/ Remove \/ PopFront \/ PopBack
  \/ Renew

Spec == Init /\ [][Next]_vars

-----------------------------------------------------------------------------
(* Properties                                                              *)

\* The links forward and back, the two ends and the size describe one list of
\* nodes in use, and the cursor is one of them, none, or known to be dangling.
LinksAgree ==
  /\ list.size \in 0..MAX_SIZE
  /\ Cardinality(Listed) = list.size
  /\ nth[list.size + 1] = Null
  /\ list.back = IF list.size = 0 THEN Null ELSE nth[list.size]
  /\ \A i \in 1..list.size :
       /\ list.heap[nth[i]].content \in Things
       /\ list.heap[nth[i]].prev = IF i = 1 THEN Null ELSE nth[i - 1]
  /\ list.cursor \in Listed \cup {Null, Dangling}

Position ==
  IF list.cursor = Dangling THEN -1
  ELSE IF list.cursor = Null THEN 0
  ELSE CHOOSE i \in 1..list.size : nth[i] = list.cursor

Abstract == INSTANCE CursorList WITH
  items <- [i \in 1..list.size |-> list.heap[nth[i]].content],
  position <- Position,
  deletes <- list.deletes

\* The nodes are a sequence with a position: each call adds, drops and deletes
\* the elements it should at the end it should, and the cursor stays with its
\* element through all that happens to others.
ImplementsCursorList == Abstract!Spec

\* Every node that leaves the list goes back to the heap: only a push that is
\* refused keeps memory, the node it took before it looked at the size.
NodesAreGivenBack ==
  [][LET leaked == DOMAIN list.heap \ Listed
     IN  leaked' # leaked => answer'.value = "full"]_vars
=============================================================================
