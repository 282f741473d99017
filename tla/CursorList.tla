----------------------------- MODULE CursorList -----------------------------
(***************************************************************************)
(* What List<T> promises: a sequence that grows and shrinks at both ends,  *)
(* and a position in it that stays with its element when others come or    *)
(* go. The position is lost when its element goes; until front() or back() *)
(* sets it again there is nothing a caller may do with it.                 *)
(***************************************************************************)
EXTENDS Integers, Sequences

CONSTANTS MAX_SIZE, Things

VARIABLES
  items,      \* the contents, from the front to the back
  position,   \* an index of items, 0 for no element, -1 for lost
  deletes,    \* whether the list owns its contents, as of the construction
  answer      \* what the last call returned, and what it deleted

vars == <<items, position, deletes, answer>>

NoPosition == 0
Lost == -1

Says(value, deleted) == [value |-> value, deleted |-> deleted]

Init ==
  /\ items = <<>>
  /\ position = Lost
  /\ deletes \in BOOLEAN
  /\ answer = Says("ok", {})

Look(i) ==
  /\ position' = i
  /\ answer' = Says(IF i = NoPosition THEN "null" ELSE items[i], {})
  /\ UNCHANGED <<items, deletes>>

Front == Look(IF items = <<>> THEN NoPosition ELSE 1)
Back == Look(Len(items))

\* Past an end a caller that moves on stays where it is.
Move(by) ==
  /\ position # Lost
  /\ IF position # NoPosition /\ position + by \in 1..Len(items)
       THEN Look(position + by)
       ELSE answer' = Says("null", {}) /\ UNCHANGED <<items, position, deletes>>

\* what is deleted when the i-th element goes
Deleted(i) == IF deletes THEN {items[i]} ELSE {}

\* the position when the i-th element goes
Without(i) ==
  IF position = i THEN Lost
  ELSE IF position > i THEN position - 1 ELSE position

\* the other elements than the i-th
Others(i) == SubSeq(items, 1, i - 1) \o SubSeq(items, i + 1, Len(items))

Drop(i) ==
  /\ items' = Others(i)
  /\ position' = Without(i)
  /\ answer' = Says("ok", Deleted(i))
  /\ UNCHANGED deletes

\* a call that finds nothing to do, or cannot do it
Nothing(why) == answer' = Says(why, {}) /\ UNCHANGED <<items, position, deletes>>

Remove ==
  \/ position = NoPosition /\ Nothing("ok")
  \/ position > NoPosition /\ Drop(position)

Pop(i) ==
  \/ items = <<>> /\ Nothing("empty")
  \/ items # <<>> /\ Drop(i)

\* A full list refuses an element, or drops the one at the other end for it.
Refuse == Nothing("alloc_fail") \/ (Len(items) = MAX_SIZE /\ Nothing("full"))

PushFront(e) ==
  LET full == Len(items) = MAX_SIZE
      at == IF full THEN Without(MAX_SIZE) ELSE position
  IN  /\ items' = <<e>> \o (IF full THEN Others(MAX_SIZE) ELSE items)
      /\ position' = IF at > NoPosition THEN at + 1 ELSE at
      /\ answer' = Says("ok", IF full THEN Deleted(MAX_SIZE) ELSE {})
      /\ UNCHANGED deletes

PushBack(e) ==
  LET full == Len(items) = MAX_SIZE
  IN  /\ items' = Append(IF full THEN Tail(items) ELSE items, e)
      /\ position' = IF full THEN Without(1) ELSE position
      /\ answer' = Says("ok", IF full THEN Deleted(1) ELSE {})
      /\ UNCHANGED deletes

\* the list is deleted and made again
Renew ==
  /\ items' = <<>> /\ position' = Lost
  /\ deletes' \in BOOLEAN
  /\ answer' = Says("ok", IF deletes THEN {items[i] : i \in 1..Len(items)} ELSE {})

Next ==
  \/ Front \/ Back \/ Move(1) \/ Move(-1)
  \/ Remove \/ Pop(1) \/ Pop(Len(items))
  \/ Refuse
  \/ \E e \in Things : PushFront(e) \/ PushBack(e)
  \/ Renew

Spec == Init /\ [][Next]_vars
=============================================================================
