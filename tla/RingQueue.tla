----------------------------- MODULE RingQueue -----------------------------
(***************************************************************************)
(* Queue<T> (src/include/espbot_queue.hpp): pointers in a ring of cells,   *)
(* with a cursor to walk them. The HTTP library keeps its pending answers  *)
(* in one (espbot_http.hpp).                                               *)
(*                                                                         *)
(* A caller may start a walk with front() and go on with next(), and push  *)
(* and pop in between. A call of next() before any front() has found an    *)
(* element would use an uninitialised index: it is not made here.          *)
(***************************************************************************)
EXTENDS Integers, Sequences

CONSTANTS
  MAX_SIZE,   \* _max_size
  Elements    \* the pointers that are pushed

ASSUME QueueAssumption ==
  /\ MAX_SIZE \in Nat \ {0}
  /\ Elements \cap {"null", "garbage"} = {}

VARIABLES
  allocated,  \* whether new found memory for _content
  content,    \* _content
  size,       \* _size
  first,      \* _front
  back,       \* _back
  cursor,     \* _cursor, -1 while it is not initialised
  answer,     \* what the last call returned
  walk        \* the elements front() and next() gave and that are still kept,
              \* <<>> when no walk is under way

vars == <<allocated, content, size, first, back, cursor, answer, walk>>

Cells == 0..MAX_SIZE - 1

\* new does not clear the cells
Uninitialised == {"null", "garbage"}

Says(call, value) == [call |-> call, value |-> value]

\* Mutant: an index may reach the end of the array
Following_late(i) == IF i = MAX_SIZE THEN 0 ELSE i + 1

\* an index after ++ and the test for the end of the array
Following(i) == IF i + 1 = MAX_SIZE THEN 0 ELSE i + 1

Init ==
  /\ allocated \in BOOLEAN
  /\ content \in [Cells -> Uninitialised]
  /\ size = 0 /\ first = 0 /\ back = 0
  /\ cursor = -1
  /\ answer = Says("Queue", "ok")
  /\ walk = <<>>

\* Mutant: the index of the last element moves when the queue is empty, too
Push_always(e) ==
  /\ size # MAX_SIZE /\ allocated
  /\ back' = Following(back)
  /\ size' = size + 1
  /\ content' = [content EXCEPT ![back'] = e]
  /\ answer' = Says("push", "ok")
  /\ UNCHANGED <<allocated, first, cursor, walk>>

Push(e) ==
  \/ /\ size = MAX_SIZE \/ ~allocated
     /\ answer' = Says("push", "full")
     /\ UNCHANGED <<allocated, content, size, first, back, cursor, walk>>
  \/ /\ size # MAX_SIZE /\ allocated
     /\ back' = IF size > 0 THEN Following(back) ELSE back
     /\ size' = size + 1
     /\ content' = [content EXCEPT ![back'] = e]
     /\ answer' = Says("push", "ok")
     /\ UNCHANGED <<allocated, first, cursor, walk>>

\* Mutant: the cell is not cleared
Pop_keeps ==
  /\ size > 0
  /\ size' = size - 1
  /\ first' = Following(first)
  /\ back' = IF size' = 0 THEN first' ELSE back
  /\ answer' = Says("pop", "ok")
  /\ walk' = IF Len(walk) < 2 THEN <<>> ELSE Tail(walk)
  /\ UNCHANGED <<allocated, content, cursor>>

\* An element popped from under the cursor ends a walk: next() then takes the
\* cell it comes to for the start of the queue.
Pop ==
  \/ /\ size = 0
     /\ answer' = Says("pop", "empty")
     /\ UNCHANGED <<allocated, content, size, first, back, cursor, walk>>
  \/ /\ size > 0
     /\ size' = size - 1
     /\ content' = [content EXCEPT ![first] = "null"]
     /\ first' = Following(first)
     /\ back' = IF size' = 0 THEN first' ELSE back
     /\ answer' = Says("pop", "ok")
     /\ walk' = IF Len(walk) < 2 THEN <<>> ELSE Tail(walk)
     /\ UNCHANGED <<allocated, cursor>>

Front ==
  \/ /\ size = 0
     /\ answer' = Says("front", "null")
     /\ UNCHANGED <<allocated, content, size, first, back, cursor, walk>>
  \/ /\ size > 0
     /\ cursor' = first
     /\ answer' = Says("front", content[first])
     /\ walk' = <<content[first]>>
     /\ UNCHANGED <<allocated, content, size, first, back>>

\* Mutant: the way round the ring is not ended
NextElement_around ==
  /\ cursor \in Cells
  /\ cursor' = Following(cursor)
  /\ LET found == content[cursor']
     IN  /\ answer' = Says("next", found)
         /\ walk' = IF walk # <<>> /\ found \in Elements
                      THEN Append(walk, found) ELSE <<>>
  /\ UNCHANGED <<allocated, content, size, first, back>>

\* next()
NextElement ==
  /\ cursor \in Cells
  /\ cursor' = Following(cursor)
  /\ LET found == IF cursor' = first THEN "null" ELSE content[cursor']
     IN  /\ answer' = Says("next", found)
         /\ walk' = IF walk # <<>> /\ found \in Elements
                      THEN Append(walk, found) ELSE <<>>
  /\ UNCHANGED <<allocated, content, size, first, back>>

\* size(), and empty() and full(), which say no more
Size ==
  /\ answer' = Says("size", size)
  /\ UNCHANGED <<allocated, content, size, first, back, cursor, walk>>

Next ==
  \/ \E e \in Elements : Push(e)
  \/ Pop
  \/ Front
  \/ NextElement
  \/ Size

Spec == Init /\ [][Next]_vars

-----------------------------------------------------------------------------
(* Properties                                                              *)

\* the cell of the i-th element
CellOf(i) ==
  IF first + i - 1 < MAX_SIZE THEN first + i - 1 ELSE first + i - 1 - MAX_SIZE

Contents == [i \in 1..size |-> content[CellOf(i)]]

\* Every variable holds what its declaration allows, `back` is the cell of the
\* last element, and only the cells between hold elements.
RingOK ==
  /\ allocated \in BOOLEAN
  /\ content \in [Cells -> Elements \cup Uninitialised]
  /\ size \in 0..MAX_SIZE
  /\ size > 0 => allocated
  /\ first \in Cells
  /\ cursor \in Cells \cup {-1}
  /\ back = IF size = 0 THEN first ELSE CellOf(size)
  /\ \A c \in Cells :
       content[c] \in Elements <=> \E i \in 1..size : c = CellOf(i)

Fifo == INSTANCE BoundedFifo WITH
  queue <- Contents, capacity <- IF allocated THEN MAX_SIZE ELSE 0

\* The ring is a queue: elements leave it in the order they came, none is
\* lost or doubled where an index wraps, it refuses elements only when it is
\* full, and next() gives no pointer that has been popped.
ImplementsFifo == Fifo!Spec

\* A walk visits all elements in their order and then ends, also when elements
\* are pushed meanwhile, or popped behind the cursor.
WalksVisitTheQueue ==
  [][NextElement /\ walk # <<>> =>
       IF Len(walk) < size THEN answer' = Says("next", Contents[Len(walk) + 1])
       ELSE answer'.value \notin Elements]_vars
=============================================================================
