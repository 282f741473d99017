---------------------------- MODULE BoundedFifo ----------------------------
(***************************************************************************)
(* What Queue<T> promises: elements come out in the order they went in, at *)
(* most `capacity` of them are kept, and a call that looks at the queue    *)
(* changes nothing.                                                        *)
(***************************************************************************)
EXTENDS Naturals, Sequences

CONSTANT Elements

VARIABLES
  queue,      \* the elements, the oldest first
  capacity,   \* how many may be kept, as of the construction
  answer      \* what the last call returned

vars == <<queue, capacity, answer>>

Says(call, value) == [call |-> call, value |-> value]

Init ==
  /\ queue = <<>>
  /\ capacity \in Nat
  /\ answer = Says("Queue", "ok")

Push(e) ==
  /\ \/ /\ Len(queue) < capacity
        /\ queue' = Append(queue, e)
        /\ answer' = Says("push", "ok")
     \/ /\ Len(queue) = capacity
        /\ answer' = Says("push", "full")
        /\ UNCHANGED queue
  /\ UNCHANGED capacity

Pop ==
  /\ \/ /\ queue # <<>>
        /\ queue' = Tail(queue)
        /\ answer' = Says("pop", "ok")
     \/ /\ queue = <<>>
        /\ answer' = Says("pop", "empty")
        /\ UNCHANGED queue
  /\ UNCHANGED capacity

Front ==
  /\ answer' = Says("front", IF queue = <<>> THEN "null" ELSE Head(queue))
  /\ UNCHANGED <<queue, capacity>>

\* an element on the way through the queue, or a sign of its end
Walk ==
  /\ answer'.call = "next"
  /\ \/ \E i \in 1..Len(queue) : answer' = Says("next", queue[i])
     \/ \E end \in {"null", "garbage"} : answer' = Says("next", end)
  /\ UNCHANGED <<queue, capacity>>

Size ==
  /\ answer'.call = "size"
  /\ answer' = Says("size", Len(queue))
  /\ UNCHANGED <<queue, capacity>>

Next == (\E e \in Elements : Push(e)) \/ Pop \/ Front \/ Walk \/ Size

Spec == Init /\ [][Next]_vars
=============================================================================
