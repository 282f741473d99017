-------------------------- MODULE LinkedListProofs --------------------------
(***************************************************************************)
(* Theorems about LinkedList, for any heap, any contents and any maximal   *)
(* size: the links of the nodes always describe one sequence, the list is  *)
(* the CursorList of the contents along it, and no node that leaves it is  *)
(* lost.                                                                   *)
(*                                                                         *)
(* That a list is a sequence s of nodes is Chained(list, s): all proofs    *)
(* are about what an operation does to s. The recursion of nth, and the    *)
(* uniqueness of s, come from the least number that would contradict them. *)
(***************************************************************************)
EXTENDS LinkedList, Sequences, FiniteSetTheorems, TLAPS

-----------------------------------------------------------------------------
(* The heap                                                                *)

\* What a pointer, a node, a heap and a list may be
Places == Nodes \cup {Null, Dangling}
Node == [content : Things \cup {"garbage"}, next : Places, prev : Places]
Heaps == UNION {[D -> Node] : D \in SUBSET Nodes}
Lists == [heap : Heaps, size : Int, front : Places, back : Places,
          cursor : Places, deletes : BOOLEAN]

\* A heap is a function from the nodes in use.
LEMMA HeapFacts ==
  ASSUME NEW heap \in Heaps
  PROVE  /\ DOMAIN heap \subseteq Nodes
         /\ heap = [n \in DOMAIN heap |-> heap[n]]
         /\ \A n \in DOMAIN heap : heap[n] \in Node
  BY DEF Heaps

\* A write to prev changes nothing else, and nothing if there is no node.
LEMMA SetPrevIs ==
  ASSUME NEW heap \in Heaps, NEW n \in DOMAIN heap \cup {Null}, NEW to \in Places
  PROVE  /\ SetPrev(heap, n, to) \in Heaps
         /\ DOMAIN SetPrev(heap, n, to) = DOMAIN heap
         /\ \A m \in DOMAIN heap :
              /\ SetPrev(heap, n, to)[m].content = heap[m].content
              /\ SetPrev(heap, n, to)[m].next = heap[m].next
              /\ SetPrev(heap, n, to)[m].prev = IF m = n THEN to ELSE heap[m].prev
<1>1. Null \notin DOMAIN heap
  BY ListAssumption, HeapFacts
<1>2. CASE n = Null
  BY <1>1, <1>2 DEF SetPrev
<1>3. CASE n # Null
  <2> DEFINE r == [heap[n] EXCEPT !.prev = to]
  <2>1. heap[n] \in Node
    BY <1>3, HeapFacts
  <2>2. r \in Node /\ r.content = heap[n].content /\ r.next = heap[n].next /\ r.prev = to
    BY <2>1 DEF Node
  <2>3. SetPrev(heap, n, to) = [heap EXCEPT ![n] = r]
    BY <1>3 DEF SetPrev
  <2> HIDE DEF r
  <2> QED
    BY <1>3, <2>2, <2>3, HeapFacts DEF Heaps
<1> QED
  BY <1>2, <1>3

\* The same for next.
LEMMA SetNextIs ==
  ASSUME NEW heap \in Heaps, NEW n \in DOMAIN heap \cup {Null}, NEW to \in Places
  PROVE  /\ SetNext(heap, n, to) \in Heaps
         /\ DOMAIN SetNext(heap, n, to) = DOMAIN heap
         /\ \A m \in DOMAIN heap :
              /\ SetNext(heap, n, to)[m].content = heap[m].content
              /\ SetNext(heap, n, to)[m].prev = heap[m].prev
              /\ SetNext(heap, n, to)[m].next = IF m = n THEN to ELSE heap[m].next
<1>1. Null \notin DOMAIN heap
  BY ListAssumption, HeapFacts
<1>2. CASE n = Null
  BY <1>1, <1>2 DEF SetNext
<1>3. CASE n # Null
  <2> DEFINE r == [heap[n] EXCEPT !.next = to]
  <2>1. heap[n] \in Node
    BY <1>3, HeapFacts
  <2>2. r \in Node /\ r.content = heap[n].content /\ r.prev = heap[n].prev /\ r.next = to
    BY <2>1 DEF Node
  <2>3. SetNext(heap, n, to) = [heap EXCEPT ![n] = r]
    BY <1>3 DEF SetNext
  <2> HIDE DEF r
  <2> QED
    BY <1>3, <2>2, <2>3, HeapFacts DEF Heaps
<1> QED
  BY <1>2, <1>3

\* What is left of a heap when nodes are freed
LEMMA WithoutIs ==
  ASSUME NEW heap \in Heaps, NEW nodes
  PROVE  /\ Without(heap, nodes) \in Heaps
         /\ DOMAIN Without(heap, nodes) = DOMAIN heap \ nodes
         /\ \A m \in DOMAIN heap \ nodes : Without(heap, nodes)[m] = heap[m]
<1> DEFINE w == Without(heap, nodes)
<1>1. w = [n \in DOMAIN heap \ nodes |-> heap[n]]
  BY DEF Without
<1> HIDE DEF w
<1>2. w \in [DOMAIN heap \ nodes -> Node]
  BY <1>1, HeapFacts
<1>3. DOMAIN heap \ nodes \in SUBSET Nodes
  BY HeapFacts
<1>4. w \in Heaps
  BY <1>2, <1>3 DEF Heaps
<1> QED
  BY <1>1, <1>4 DEF w

\* A node is freed: only the heap and a cursor at the node change.
LEMMA FreedIs ==
  ASSUME NEW l \in Lists, NEW n
  PROVE  /\ Freed(l, n).size = l.size
         /\ Freed(l, n).front = l.front /\ Freed(l, n).back = l.back
         /\ DOMAIN Freed(l, n).heap = DOMAIN l.heap \ {n}
         /\ \A m \in DOMAIN l.heap \ {n} : Freed(l, n).heap[m] = l.heap[m]
         /\ Freed(l, n).cursor = (IF l.cursor = n THEN Dangling ELSE l.cursor)
         /\ Freed(l, n).deletes = l.deletes
         /\ Freed(l, n) \in Lists
<1> DEFINE w == Without(l.heap, {n})
<1>1. l.heap \in Heaps
  BY DEF Lists
<1>2. /\ w \in Heaps /\ DOMAIN w = DOMAIN l.heap \ {n}
      /\ \A m \in DOMAIN l.heap \ {n} : w[m] = l.heap[m]
  BY <1>1, WithoutIs
<1>3. Freed(l, n) = [l EXCEPT !.heap = w,
                              !.cursor = IF l.cursor = n THEN Dangling ELSE l.cursor]
  BY DEF Freed
<1> HIDE DEF w
<1>4. Freed(l, n).heap = w
  BY <1>3 DEF Lists
<1> QED
  BY <1>2, <1>3, <1>4 DEF Lists, Places

-----------------------------------------------------------------------------
(* A sequence of nodes that is the list                                    *)

\* the place of the i-th node, or none
At(s, i) == IF i \in 1..Len(s) THEN s[i] ELSE Null

Chained(l, s) ==
  /\ s \in Seq(Nodes) /\ Len(s) = l.size
  /\ \A i \in 1..Len(s) : s[i] \in DOMAIN l.heap
  /\ \A i, j \in 1..Len(s) : s[i] = s[j] => i = j
  /\ l.front = At(s, 1) /\ l.back = At(s, Len(s))
  /\ \A i \in 1..Len(s) :
       /\ l.heap[s[i]].content \in Things
       /\ l.heap[s[i]].prev = At(s, i - 1)
       /\ l.heap[s[i]].next = At(s, i + 1)
  /\ l.cursor \in {Null, Dangling} \/ \E i \in 1..Len(s) : l.cursor = s[i]

\* What a list becomes when a node is unlinked ...
Unlinks(l, n, r) ==
  /\ r \in Lists
  /\ r.size = l.size - 1 /\ r.deletes = l.deletes
  /\ r.front = IF l.front = n THEN l.heap[n].next ELSE l.front
  /\ r.back = IF l.back = n THEN l.heap[n].prev ELSE l.back
  /\ \A m \in DOMAIN r.heap :
       /\ r.heap[m].content = l.heap[m].content
       /\ r.heap[m].next = IF m = l.heap[n].prev THEN l.heap[n].next
                           ELSE l.heap[m].next
       /\ r.heap[m].prev = IF m = l.heap[n].next THEN l.heap[n].prev
                           ELSE l.heap[m].prev

\* ... and freed
Drops(l, n, r) ==
  /\ Unlinks(l, n, r)
  /\ DOMAIN r.heap = DOMAIN l.heap \ {n}
  /\ r.cursor = IF l.cursor = n THEN Dangling ELSE l.cursor

\* Unlinking a node and freeing it drops it.
LEMMA FreedDrops ==
  ASSUME NEW l \in Lists, NEW n, NEW l1, Unlinks(l, n, l1),
         DOMAIN l1.heap = DOMAIN l.heap, l1.cursor = l.cursor
  PROVE  Drops(l, n, Freed(l1, n))
<1>1. l1 \in Lists /\ l1.heap \in Heaps
  BY DEF Unlinks, Lists
<1> DEFINE r == Freed(l1, n)
<1>2. /\ r \in Lists /\ r.size = l1.size /\ r.front = l1.front /\ r.back = l1.back
      /\ DOMAIN r.heap = DOMAIN l1.heap \ {n}
      /\ \A i \in DOMAIN l1.heap \ {n} : r.heap[i] = l1.heap[i]
      /\ r.deletes = l1.deletes
      /\ r.cursor = IF l1.cursor = n THEN Dangling ELSE l1.cursor
  BY <1>1, FreedIs
<1> HIDE DEF r
<1>3. Unlinks(l, n, r)
  BY <1>2 DEF Unlinks
<1> QED
  BY <1>2, <1>3 DEF Drops, r

\* the sequence without its k-th node
DropAt(s, k) == [i \in 1..Len(s) - 1 |-> IF i < k THEN s[i] ELSE s[i + 1]]

\* The nodes behind the k-th move one up.
LEMMA DropAtIs ==
  ASSUME NEW S, NEW s \in Seq(S), NEW k \in 1..Len(s)
  PROVE  /\ DropAt(s, k) \in Seq(S)
         /\ Len(DropAt(s, k)) = Len(s) - 1
         /\ \A i \in 1..Len(s) - 1 : DropAt(s, k)[i] = IF i < k THEN s[i] ELSE s[i + 1]
<1> DEFINE t == DropAt(s, k)
<1>1. t = [i \in 1..Len(s) - 1 |-> IF i < k THEN s[i] ELSE s[i + 1]]
  BY DEF DropAt
<1> HIDE DEF t
<1>2. Len(s) - 1 \in Nat /\ \A i \in 1..Len(s) - 1 : s[i] \in S /\ s[i + 1] \in S
  OBVIOUS
<1>3. t \in Seq(S)
  BY <1>1, <1>2
<1> QED
  BY <1>1, <1>2, <1>3 DEF t

\* A list that drops its k-th node is one along the others.
LEMMA DropsChained ==
  ASSUME NEW l \in Lists, NEW s, Chained(l, s), NEW k \in 1..Len(s), NEW r,
         Drops(l, s[k], r)
  PROVE  Chained(r, DropAt(s, k))
<1> DEFINE t == DropAt(s, k)
           N == Len(s)
<1>1. s \in Seq(Nodes) /\ N \in Nat /\ N = l.size /\ k \in 1..N
  BY DEF Chained
<1>2. /\ t \in Seq(Nodes) /\ Len(t) = N - 1
      /\ \A i \in 1..N - 1 : t[i] = IF i < k THEN s[i] ELSE s[i + 1]
  BY <1>1, DropAtIs
<1>3. /\ \A i \in 1..N : s[i] \in DOMAIN l.heap /\ s[i] \in Nodes /\ s[i] # Null
      /\ \A i, j \in 1..N : s[i] = s[j] => i = j
      /\ l.front = s[1] /\ l.back = s[N]
      /\ \A i \in 1..N :
           /\ l.heap[s[i]].content \in Things
           /\ l.heap[s[i]].prev = IF i = 1 THEN Null ELSE s[i - 1]
           /\ l.heap[s[i]].next = IF i = N THEN Null ELSE s[i + 1]
  BY <1>1, ListAssumption DEF Chained, At
<1>4. \A i : At(t, i) = IF i \in 1..N - 1 THEN t[i] ELSE Null
  BY <1>2 DEF At
<1>5. l.cursor \in {Null, Dangling} \/ \E i \in 1..N : l.cursor = s[i]
  BY DEF Chained
<1> HIDE DEF t, N
<1>6. /\ r.front = IF k = 1 THEN (IF k = N THEN Null ELSE s[2]) ELSE s[1]
      /\ r.back = IF k = N THEN (IF k = 1 THEN Null ELSE s[N - 1]) ELSE s[N]
  <2>1. (s[k] = s[1]) <=> (k = 1)
    BY <1>1, <1>3
  <2>2. (s[k] = s[N]) <=> (k = N)
    BY <1>1, <1>3
  <2>3. /\ l.heap[s[k]].prev = IF k = 1 THEN Null ELSE s[k - 1]
        /\ l.heap[s[k]].next = IF k = N THEN Null ELSE s[k + 1]
    BY <1>1, <1>3
  <2>4. /\ r.front = IF k = 1 THEN l.heap[s[k]].next ELSE l.front
        /\ r.back = IF k = N THEN l.heap[s[k]].prev ELSE l.back
    BY <1>3, <2>1, <2>2 DEF Drops, Unlinks
  <2>5. k = 1 => s[k + 1] = s[2]
    OBVIOUS
  <2>6. k = N => s[k - 1] = s[N - 1]
    OBVIOUS
  <2> QED
    BY <1>3, <2>3, <2>4, <2>5, <2>6
<1>7. r.front = At(t, 1)
  <2>1. CASE N = 1
    BY <1>1, <1>4, <1>6, <2>1
  <2>2. CASE N # 1
    <3>1. 1 \in 1..N - 1 /\ t[1] = IF k = 1 THEN s[2] ELSE s[1]
      BY <1>1, <1>2, <2>2
    <3> QED
      BY <1>1, <1>4, <1>6, <2>2, <3>1
  <2> QED
    BY <2>1, <2>2
<1>8. r.back = At(t, N - 1)
  BY <1>1, <1>2, <1>4, <1>6
<1>9. ASSUME NEW i \in 1..N - 1
      PROVE  \E h \in 1..N : h # k /\ t[i] = s[h] /\ h = IF i < k THEN i ELSE i + 1
  <2>1. CASE i < k
    BY <1>1, <1>2, <2>1
  <2>2. CASE ~(i < k)
    <3>1. i + 1 \in 1..N /\ i + 1 # k /\ t[i] = s[i + 1]
      BY <1>1, <1>2, <2>2
    <3> QED
      BY <2>2, <3>1
  <2> QED
    BY <2>1, <2>2
<1>10. \A i \in 1..N - 1 : t[i] \in DOMAIN r.heap
  BY <1>1, <1>3, <1>9 DEF Drops, Unlinks
<1>11. \A i, j \in 1..N - 1 : t[i] = t[j] => i = j
  <2> SUFFICES ASSUME NEW i \in 1..N - 1, NEW j \in 1..N - 1, t[i] = t[j]
               PROVE  i = j
    OBVIOUS
  <2>1. PICK h \in 1..N : t[i] = s[h] /\ h = IF i < k THEN i ELSE i + 1
    BY <1>9
  <2>2. PICK g \in 1..N : t[j] = s[g] /\ g = IF j < k THEN j ELSE j + 1
    BY <1>9
  <2>3. s[h] = s[g]
    BY <2>1, <2>2
  <2>4. h = g
    BY <1>3, <2>3
  <2> QED
    BY <1>1, <2>1, <2>2, <2>4
<1>12. ASSUME NEW i \in 1..N - 1
       PROVE  /\ r.heap[t[i]].content \in Things
              /\ r.heap[t[i]].prev = At(t, i - 1)
              /\ r.heap[t[i]].next = At(t, i + 1)
  <2>1. PICK h \in 1..N :
           h # k /\ t[i] = s[h] /\ h = IF i < k THEN i ELSE i + 1
    BY <1>9
  <2>2. /\ r.heap[s[h]].content = l.heap[s[h]].content
        /\ r.heap[s[h]].next = IF s[h] = l.heap[s[k]].prev THEN l.heap[s[k]].next
                               ELSE l.heap[s[h]].next
        /\ r.heap[s[h]].prev = IF s[h] = l.heap[s[k]].next THEN l.heap[s[k]].prev
                               ELSE l.heap[s[h]].prev
    BY <1>10, <2>1 DEF Drops, Unlinks
  <2>3. s[h] = l.heap[s[k]].prev <=> h = k - 1
    BY <1>1, <1>3, <2>1
  <2>4. s[h] = l.heap[s[k]].next <=> h = k + 1
    BY <1>1, <1>3, <2>1
  <2>5. r.heap[s[h]].prev = At(t, i - 1)
    <3>1. CASE h = k + 1
      <4>1. i = k /\ i - 1 \in 0..N - 2 /\ i - 1 = k - 1
        BY <1>1, <2>1, <3>1
      <4>2. r.heap[s[h]].prev = IF k = 1 THEN Null ELSE s[k - 1]
        BY <1>1, <1>3, <2>2, <2>4, <3>1
      <4>3. k # 1 => t[k - 1] = s[k - 1]
        BY <1>1, <1>2
      <4> QED
        BY <1>1, <1>4, <4>1, <4>2, <4>3
    <3>2. CASE h # k + 1
      <4>1. r.heap[s[h]].prev = IF h = 1 THEN Null ELSE s[h - 1]
        BY <1>3, <2>2, <2>4, <3>2
      <4>2. h = 1 <=> i = 1
        BY <1>1, <2>1, <3>2
      <4>3. i # 1 => i - 1 \in 1..N - 1 /\ t[i - 1] = s[h - 1]
        <5> SUFFICES ASSUME i # 1
                     PROVE  i - 1 \in 1..N - 1 /\ t[i - 1] = s[h - 1]
          OBVIOUS
        <5>1. i - 1 \in 1..N - 1
          BY <1>1
        <5>2. t[i - 1] = IF i - 1 < k THEN s[i - 1] ELSE s[(i - 1) + 1]
          BY <1>2, <5>1
        <5>3. h - 1 = IF i - 1 < k THEN i - 1 ELSE (i - 1) + 1
          BY <1>1, <2>1, <3>2
        <5> QED
          BY <5>1, <5>2, <5>3
      <4> QED
        BY <1>4, <4>1, <4>2, <4>3
    <3> QED
      BY <3>1, <3>2
  <2>6. r.heap[s[h]].next = At(t, i + 1)
    <3>1. CASE h = k - 1
      <4>1. i = k - 1
        BY <1>1, <2>1, <3>1
      <4>2. r.heap[s[h]].next = IF k = N THEN Null ELSE s[k + 1]
        BY <1>1, <1>3, <2>2, <2>3, <3>1
      <4>3. k # N => k \in 1..N - 1 /\ t[k] = s[k + 1]
        BY <1>1, <1>2
      <4>4. i + 1 = k
        BY <1>1, <4>1
      <4> QED
        BY <1>1, <1>4, <4>2, <4>3, <4>4
    <3>2. CASE h # k - 1
      <4>1. r.heap[s[h]].next = IF h = N THEN Null ELSE s[h + 1]
        BY <1>3, <2>2, <2>3, <3>2
      <4>2. h = N <=> i = N - 1
        BY <1>1, <2>1, <3>2
      <4>3. i # N - 1 => i + 1 \in 1..N - 1 /\ t[i + 1] = s[h + 1]
        BY <1>1, <1>2, <2>1, <3>2
      <4>4. i = N - 1 => i + 1 \notin 1..N - 1
        BY <1>1
      <4> QED
        BY <1>4, <4>1, <4>2, <4>3, <4>4
    <3> QED
      BY <3>1, <3>2
  <2> QED
    BY <1>3, <2>1, <2>2, <2>5, <2>6
<1>13. r.cursor \in {Null, Dangling} \/ \E i \in 1..N - 1 : r.cursor = t[i]
  <2>1. CASE l.cursor \in {Null, Dangling}
    BY <2>1 DEF Drops, Unlinks
  <2>2. ASSUME NEW i \in 1..N, l.cursor = s[i]
        PROVE  r.cursor \in {Null, Dangling} \/ \E j \in 1..N - 1 : r.cursor = t[j]
    <3>1. CASE i = k
      BY <2>2, <3>1 DEF Drops, Unlinks
    <3>2. CASE i # k
      <4>1. r.cursor = s[i]
        BY <1>1, <1>3, <2>2, <3>2 DEF Drops, Unlinks
      <4>2. i < k => i \in 1..N - 1 /\ t[i] = s[i]
        BY <1>1, <1>2
      <4>3. ASSUME i > k
            PROVE  i - 1 \in 1..N - 1 /\ t[i - 1] = s[i]
        <5>1. i - 1 \in 1..N - 1 /\ ~(i - 1 < k) /\ (i - 1) + 1 = i
          BY <1>1, <4>3
        <5> QED
          BY <1>2, <5>1
      <4> QED
        BY <1>1, <3>2, <4>1, <4>2, <4>3
    <3> QED
      BY <3>1, <3>2
  <2> QED
    BY <1>5, <2>1, <2>2
<1>14. Len(t) = r.size
  BY <1>1, <1>2 DEF Drops, Unlinks
<1>15. Chained(r, t)
  BY <1>2, <1>7, <1>8, <1>10, <1>11, <1>12, <1>13, <1>14 DEF Chained
<1> QED
  BY <1>15 DEF t

\* What is next to a node of the list
LEMMA Neighbours ==
  ASSUME NEW l \in Lists, NEW s, Chained(l, s), NEW k \in 1..Len(s)
  PROVE  /\ s[k] \in DOMAIN l.heap /\ s[k] # Null
         /\ l.front = s[1] /\ l.back = s[Len(s)]
         /\ l.front = s[k] <=> k = 1
         /\ l.back = s[k] <=> k = Len(s)
         /\ k = 1 => l.heap[s[k]].prev = Null
         /\ k = Len(s) => l.heap[s[k]].next = Null
         /\ k # 1 => /\ k - 1 \in 1..Len(s) /\ l.heap[s[k]].prev = s[k - 1]
                     /\ s[k - 1] \in DOMAIN l.heap /\ s[k - 1] # s[k]
         /\ k # Len(s) => /\ k + 1 \in 1..Len(s) /\ l.heap[s[k]].next = s[k + 1]
                          /\ s[k + 1] \in DOMAIN l.heap /\ s[k + 1] # s[k]
<1> DEFINE N == Len(s)
<1>1. s \in Seq(Nodes) /\ N \in Nat /\ k \in 1..N
  BY DEF Chained
<1>2. /\ \A i \in 1..N : s[i] \in DOMAIN l.heap /\ s[i] # Null
      /\ \A i, j \in 1..N : s[i] = s[j] => i = j
      /\ l.front = s[1] /\ l.back = s[N]
      /\ l.heap[s[k]].prev = IF k = 1 THEN Null ELSE s[k - 1]
      /\ l.heap[s[k]].next = IF k = N THEN Null ELSE s[k + 1]
  BY <1>1, ListAssumption DEF Chained, At
<1> HIDE DEF N
<1>3. 1 \in 1..N /\ N \in 1..N
  BY <1>1
<1>4. (k # 1 => k - 1 \in 1..N) /\ (k # N => k + 1 \in 1..N)
  BY <1>1
<1>5. k - 1 # k /\ k + 1 # k
  BY <1>1
<1> QED
  BY <1>1, <1>2, <1>3, <1>4, <1>5 DEF N

\* pop_front() drops the first node,
LEMMA PoppedFrontDrops ==
  ASSUME NEW l \in Lists, NEW s, Chained(l, s), Len(s) > 0
  PROVE  Drops(l, s[1], PoppedFront(l))
<1> DEFINE h == l.heap
           z == l.size - 1
           first == l.front
           second == h[first].next
           h1 == SetPrev(h, second, Null)
           l1 == [l EXCEPT !.size = z, !.front = second, !.heap = h1,
                           !.back = IF l.size = 1 THEN Null ELSE l.back]
           r == Freed(l1, first)
<1>1. s \in Seq(Nodes) /\ Len(s) \in Nat /\ 1 \in 1..Len(s) /\ Len(s) = l.size
  BY DEF Chained
<1>2. /\ first = s[1] /\ first \in DOMAIN h /\ first # Null
      /\ second \in DOMAIN h \cup {Null}
      /\ h[first].prev = Null
      /\ (l.back = first) <=> (l.size = 1)
  BY <1>1, Neighbours
<1>3. h \in Heaps /\ Null \in Places /\ z \in Int
  BY DEF Lists, Places
<1>4. DOMAIN h \subseteq Nodes /\ Null \notin DOMAIN h
  BY <1>3, HeapFacts, ListAssumption
<1>5. second \in Places
  BY <1>2, <1>4 DEF Places
<1>6. PoppedFront(l) = r /\ l.front = first /\ l.heap = h /\ h[first].next = second
  BY DEF PoppedFront
<1> HIDE DEF h1, second, first, h, z, r
<1>7. /\ h1 \in Heaps /\ DOMAIN h1 = DOMAIN h
      /\ \A i \in DOMAIN h :
           /\ h1[i].content = h[i].content
           /\ h1[i].next = h[i].next
           /\ h1[i].prev = IF i = second THEN Null ELSE h[i].prev
  BY <1>2, <1>3, SetPrevIs DEF h1
<1>8. /\ l1 \in Lists /\ l1.size = z /\ l1.front = second /\ l1.heap = h1
      /\ l1.back = (IF l.size = 1 THEN Null ELSE l.back)
      /\ l1.cursor = l.cursor /\ l1.deletes = l.deletes
  BY <1>3, <1>5, <1>7 DEF Lists
<1> HIDE DEF l1
<1>9. Unlinks(l, first, l1)
  BY <1>2, <1>4, <1>6, <1>7, <1>8 DEF Unlinks, z
<1>10. Drops(l, first, Freed(l1, first))
  BY <1>6, <1>7, <1>8, <1>9, FreedDrops
<1> QED
  BY <1>2, <1>6, <1>10 DEF r

\* pop_back() the last,
LEMMA PoppedBackDrops ==
  ASSUME NEW l \in Lists, NEW s, Chained(l, s), Len(s) > 0
  PROVE  Drops(l, s[Len(s)], PoppedBack(l))
<1> DEFINE h == l.heap
           z == l.size - 1
           final == l.back
           last == h[final].prev
           h1 == SetNext(h, last, Null)
           l1 == [l EXCEPT !.size = z, !.back = last, !.heap = h1,
                           !.front = IF l.size = 1 THEN Null ELSE l.front]
           r == Freed(l1, final)
<1>1. s \in Seq(Nodes) /\ Len(s) \in Nat /\ Len(s) \in 1..Len(s) /\ Len(s) = l.size
  BY DEF Chained
<1>2. /\ final = s[Len(s)] /\ final \in DOMAIN h /\ final # Null
      /\ last \in DOMAIN h \cup {Null}
      /\ h[final].next = Null
      /\ (l.front = final) <=> (l.size = 1)
  BY <1>1, Neighbours
<1>3. h \in Heaps /\ Null \in Places /\ z \in Int
  BY DEF Lists, Places
<1>4. DOMAIN h \subseteq Nodes /\ Null \notin DOMAIN h
  BY <1>3, HeapFacts, ListAssumption
<1>5. last \in Places
  BY <1>2, <1>4 DEF Places
<1>6. PoppedBack(l) = r /\ l.back = final /\ l.heap = h /\ h[final].prev = last
  BY DEF PoppedBack
<1> HIDE DEF h1, last, final, h, z, r
<1>7. /\ h1 \in Heaps /\ DOMAIN h1 = DOMAIN h
      /\ \A i \in DOMAIN h :
           /\ h1[i].content = h[i].content
           /\ h1[i].prev = h[i].prev
           /\ h1[i].next = IF i = last THEN Null ELSE h[i].next
  BY <1>2, <1>3, SetNextIs DEF h1
<1>8. /\ l1 \in Lists /\ l1.size = z /\ l1.back = last /\ l1.heap = h1
      /\ l1.front = (IF l.size = 1 THEN Null ELSE l.front)
      /\ l1.cursor = l.cursor /\ l1.deletes = l.deletes
  BY <1>3, <1>5, <1>7 DEF Lists
<1> HIDE DEF l1
<1>9. Unlinks(l, final, l1)
  BY <1>2, <1>4, <1>6, <1>7, <1>8 DEF Unlinks, z
<1>10. Drops(l, final, Freed(l1, final))
  BY <1>6, <1>7, <1>8, <1>9, FreedDrops
<1> QED
  BY <1>2, <1>6, <1>10 DEF r

\* and remove() one with two neighbours.
LEMMA UnlinkedDrops ==
  ASSUME NEW l \in Lists, NEW s, Chained(l, s), NEW k \in 1..Len(s),
         k # 1, k # Len(s)
  PROVE  Drops(l, s[k], Unlinked(l, s[k]))
<1> DEFINE h == l.heap
           z == l.size - 1
           this == s[k]
           before == h[this].prev
           after == h[this].next
           h1 == SetNext(h, before, after)
           h2 == SetPrev(h1, after, before)
           l1 == [l EXCEPT !.size = z, !.heap = h2]
           r == Freed(l1, this)
<1>1. /\ this \in DOMAIN h /\ this # Null /\ l.front # this /\ l.back # this
      /\ before \in DOMAIN h /\ before # this
      /\ after \in DOMAIN h /\ after # this
  BY Neighbours
<1>2. h \in Heaps /\ DOMAIN h \subseteq Nodes /\ z \in Int
  BY HeapFacts DEF Lists
<1>3. before \in Places /\ after \in Places
  BY <1>1, <1>2 DEF Places
<1>4. /\ l.heap = h /\ h[this].prev = before /\ h[this].next = after /\ s[k] = this
      /\ Unlinked(l, this) =
           Freed([l EXCEPT !.size = z,
                           !.heap = SetPrev(h1, h1[this].next, h1[this].prev)], this)
  BY DEF Unlinked
<1> HIDE DEF h2, h1, before, after, this, h, z
<1>5. /\ h1 \in Heaps /\ DOMAIN h1 = DOMAIN h
      /\ \A i \in DOMAIN h :
           /\ h1[i].content = h[i].content
           /\ h1[i].prev = h[i].prev
           /\ h1[i].next = IF i = before THEN after ELSE h[i].next
  BY <1>1, <1>2, <1>3, SetNextIs DEF h1
<1>6. h1[this].next = after /\ h1[this].prev = before
  BY <1>1, <1>4, <1>5
<1>7. Unlinked(l, this) = r
  BY <1>4, <1>6 DEF h2
<1>8. /\ h2 \in Heaps /\ DOMAIN h2 = DOMAIN h1
      /\ \A i \in DOMAIN h1 :
           /\ h2[i].content = h1[i].content
           /\ h2[i].next = h1[i].next
           /\ h2[i].prev = IF i = after THEN before ELSE h1[i].prev
  BY <1>1, <1>3, <1>5, SetPrevIs DEF h2
<1> HIDE DEF r
<1>9. /\ l1 \in Lists /\ l1.size = z /\ l1.back = l.back /\ l1.heap = h2
      /\ l1.front = l.front /\ l1.cursor = l.cursor /\ l1.deletes = l.deletes
  BY <1>2, <1>8 DEF Lists
<1> HIDE DEF l1
<1>10. Unlinks(l, this, l1)
  BY <1>1, <1>4, <1>5, <1>8, <1>9 DEF Unlinks, z
<1>11. Drops(l, this, Freed(l1, this))
  BY <1>4, <1>5, <1>8, <1>9, <1>10, FreedDrops
<1> QED
  BY <1>4, <1>7, <1>11 DEF r

-----------------------------------------------------------------------------
(* A node is taken and linked at an end                                    *)

\* Memory that is taken changes no node and no member of the list.
LEMMA AllocatedIs ==
  ASSUME NEW l \in Lists, NEW n \in Nodes \ DOMAIN l.heap
  PROVE  /\ Allocated(l, n) \in Lists
         /\ Allocated(l, n).size = l.size
         /\ Allocated(l, n).front = l.front /\ Allocated(l, n).back = l.back
         /\ Allocated(l, n).cursor = l.cursor
         /\ Allocated(l, n).deletes = l.deletes
         /\ DOMAIN Allocated(l, n).heap = DOMAIN l.heap \cup {n}
         /\ \A m \in DOMAIN l.heap : Allocated(l, n).heap[m] = l.heap[m]
<1> DEFINE h == [m \in DOMAIN l.heap \cup {n} |->
                   IF m = n THEN Uninitialised ELSE l.heap[m]]
<1>1. l.heap \in Heaps
  BY DEF Lists
<1>2. Uninitialised \in Node
  BY DEF Uninitialised, Node, Places
<1>3. h \in [DOMAIN l.heap \cup {n} -> Node]
  <2> SUFFICES ASSUME NEW m \in DOMAIN l.heap \cup {n}
               PROVE  (IF m = n THEN Uninitialised ELSE l.heap[m]) \in Node
    OBVIOUS
  <2> QED
    BY <1>1, <1>2, HeapFacts
<1>4. DOMAIN l.heap \cup {n} \in SUBSET Nodes
  BY <1>1, HeapFacts
<1>5. h \in Heaps
  BY <1>3, <1>4 DEF Heaps
<1>6. /\ DOMAIN h = DOMAIN l.heap \cup {n}
      /\ \A m \in DOMAIN l.heap : h[m] = l.heap[m]
  OBVIOUS
<1>7. Allocated(l, n) = [l EXCEPT !.heap = h]
  BY DEF Allocated
<1> HIDE DEF h
<1>8. Allocated(l, n).heap = h
  BY <1>7 DEF Lists
<1> QED
  BY <1>5, <1>6, <1>7, <1>8 DEF Lists

\* The node taken is none of the list.
LEMMA AllocatedChained ==
  ASSUME NEW l \in Lists, NEW s, Chained(l, s), NEW n \in Nodes \ DOMAIN l.heap
  PROVE  Chained(Allocated(l, n), s) /\ \A i \in 1..Len(s) : s[i] # n
<1> DEFINE a == Allocated(l, n)
<1>1. /\ a.size = l.size /\ a.front = l.front /\ a.back = l.back
      /\ a.cursor = l.cursor
      /\ DOMAIN a.heap = DOMAIN l.heap \cup {n}
      /\ \A m \in DOMAIN l.heap : a.heap[m] = l.heap[m]
  BY AllocatedIs
<1> HIDE DEF a
<1>2. Chained(a, s)
  BY <1>1 DEF Chained
<1> QED
  BY <1>2 DEF Chained, a

\* A push at the front, and at the back
Prepended(n, s) == [i \in 1..Len(s) + 1 |-> IF i = 1 THEN n ELSE s[i - 1]]

\* The nodes of a sequence with one more before the first
LEMMA PrependedIs ==
  ASSUME NEW s \in Seq(Nodes), NEW n \in Nodes
  PROVE  /\ Prepended(n, s) \in Seq(Nodes)
         /\ Len(Prepended(n, s)) = Len(s) + 1
         /\ \A i \in 1..Len(s) + 1 : Prepended(n, s)[i] = IF i = 1 THEN n ELSE s[i - 1]
<1> DEFINE t == Prepended(n, s)
<1>1. t = [i \in 1..Len(s) + 1 |-> IF i = 1 THEN n ELSE s[i - 1]]
  BY DEF Prepended
<1> HIDE DEF t
<1>2. Len(s) + 1 \in Nat /\ \A i \in 1..Len(s) + 1 : i # 1 => s[i - 1] \in Nodes
  OBVIOUS
<1>3. t \in Seq(Nodes)
  BY <1>1, <1>2
<1> QED
  BY <1>1, <1>2, <1>3 DEF t

\* What a list becomes when a node is linked at an end
Links(l, n, e, r) ==
  /\ r \in Lists
  /\ r.size = l.size + 1 /\ r.deletes = l.deletes /\ r.cursor = l.cursor
  /\ DOMAIN r.heap = DOMAIN l.heap
  /\ r.heap[n].content = e
  /\ \A m \in DOMAIN l.heap \ {n} : r.heap[m].content = l.heap[m].content

LinksFront(l, n, r) ==
  /\ r.front = n
  /\ r.back = IF l.back = Null THEN n ELSE l.back
  /\ r.heap[n].prev = Null /\ r.heap[n].next = l.front
  /\ \A m \in DOMAIN l.heap \ {n} :
       /\ r.heap[m].next = l.heap[m].next
       /\ r.heap[m].prev = IF m = l.front THEN n ELSE l.heap[m].prev

LinksBack(l, n, r) ==
  /\ r.back = n
  /\ r.front = IF l.front = Null THEN n ELSE l.front
  /\ r.heap[n].prev = l.back /\ r.heap[n].next = Null
  /\ \A m \in DOMAIN l.heap \ {n} :
       /\ r.heap[m].prev = l.heap[m].prev
       /\ r.heap[m].next = IF m = l.back THEN n ELSE l.heap[m].next

\* A push at the front links the node before the first,
LEMMA LinkedAtFrontLinks ==
  ASSUME NEW l \in Lists, l.front \in DOMAIN l.heap \cup {Null},
         NEW n \in DOMAIN l.heap, NEW e \in Things
  PROVE  /\ Links(l, n, e, LinkedAtFront(l, n, e))
         /\ LinksFront(l, n, LinkedAtFront(l, n, e))
<1> DEFINE h == l.heap
           first == l.front
           node == [content |-> e, next |-> first, prev |-> Null]
           h1 == SetPrev(h, first, n)
           h2 == [h1 EXCEPT ![n] = node]
           z == l.size + 1
           b == IF l.back = Null THEN n ELSE l.back
           r == [l EXCEPT !.size = z, !.heap = h2, !.front = n, !.back = b]
<1>1. LinkedAtFront(l, n, e) = r
  BY DEF LinkedAtFront
<1>2. h \in Heaps /\ first \in DOMAIN h \cup {Null} /\ n \in DOMAIN h /\ z \in Int
  BY DEF Lists
<1>3. DOMAIN h \subseteq Nodes
  BY <1>2, HeapFacts
<1>4. n \in Places /\ first \in Places /\ b \in Places
  BY <1>2, <1>3 DEF Lists, Places
<1>5. node \in Node /\ node.content = e /\ node.next = first /\ node.prev = Null
  BY <1>4 DEF Node, Places
<1>6. l.heap = h /\ l.front = first
  OBVIOUS
<1> HIDE DEF node, h1, first, h, z, b
<1>7. /\ h1 \in Heaps /\ DOMAIN h1 = DOMAIN h
      /\ \A i \in DOMAIN h :
           /\ h1[i].content = h[i].content
           /\ h1[i].next = h[i].next
           /\ h1[i].prev = IF i = first THEN n ELSE h[i].prev
  BY <1>2, <1>4, SetPrevIs DEF h1
<1>8. h2 \in Heaps
  <2>1. h1 \in [DOMAIN h -> Node]
    BY <1>7, HeapFacts
  <2>2. h2 \in [DOMAIN h -> Node]
    BY <1>5, <2>1
  <2> QED
    BY <1>3, <2>2 DEF Heaps
<1>9. DOMAIN h2 = DOMAIN h /\ h2[n] = node /\ \A m \in DOMAIN h \ {n} : h2[m] = h1[m]
  BY <1>2, <1>7
<1> HIDE DEF h2
<1>10. /\ r \in Lists /\ r.size = z /\ r.heap = h2 /\ r.front = n /\ r.back = b
       /\ r.cursor = l.cursor /\ r.deletes = l.deletes
  BY <1>2, <1>4, <1>8 DEF Lists
<1> HIDE DEF r
<1>11. Links(l, n, e, r)
  BY <1>5, <1>6, <1>7, <1>9, <1>10 DEF Links, z
<1>12. LinksFront(l, n, r)
  BY <1>5, <1>6, <1>7, <1>9, <1>10 DEF LinksFront, b
<1> QED
  BY <1>1, <1>11, <1>12

\* and one at the back behind the last.
LEMMA LinkedAtBackLinks ==
  ASSUME NEW l \in Lists, l.back \in DOMAIN l.heap \cup {Null},
         NEW n \in DOMAIN l.heap, NEW e \in Things
  PROVE  /\ Links(l, n, e, LinkedAtBack(l, n, e))
         /\ LinksBack(l, n, LinkedAtBack(l, n, e))
<1> DEFINE h == l.heap
           last == l.back
           node == [content |-> e, next |-> Null, prev |-> last]
           h1 == SetNext(h, last, n)
           h2 == [h1 EXCEPT ![n] = node]
           z == l.size + 1
           f == IF l.front = Null THEN n ELSE l.front
           r == [l EXCEPT !.size = z, !.heap = h2, !.back = n, !.front = f]
<1>1. LinkedAtBack(l, n, e) = r
  BY DEF LinkedAtBack
<1>2. h \in Heaps /\ last \in DOMAIN h \cup {Null} /\ n \in DOMAIN h /\ z \in Int
  BY DEF Lists
<1>3. DOMAIN h \subseteq Nodes
  BY <1>2, HeapFacts
<1>4. n \in Places /\ last \in Places /\ f \in Places
  BY <1>2, <1>3 DEF Lists, Places
<1>5. node \in Node /\ node.content = e /\ node.next = Null /\ node.prev = last
  BY <1>4 DEF Node, Places
<1>6. l.heap = h /\ l.back = last
  OBVIOUS
<1> HIDE DEF node, h1, last, h, z, f
<1>7. /\ h1 \in Heaps /\ DOMAIN h1 = DOMAIN h
      /\ \A i \in DOMAIN h :
           /\ h1[i].content = h[i].content
           /\ h1[i].prev = h[i].prev
           /\ h1[i].next = IF i = last THEN n ELSE h[i].next
  BY <1>2, <1>4, SetNextIs DEF h1
<1>8. h2 \in Heaps
  <2>1. h1 \in [DOMAIN h -> Node]
    BY <1>7, HeapFacts
  <2>2. h2 \in [DOMAIN h -> Node]
    BY <1>5, <2>1
  <2> QED
    BY <1>3, <2>2 DEF Heaps
<1>9. DOMAIN h2 = DOMAIN h /\ h2[n] = node /\ \A m \in DOMAIN h \ {n} : h2[m] = h1[m]
  BY <1>2, <1>7
<1> HIDE DEF h2
<1>10. /\ r \in Lists /\ r.size = z /\ r.heap = h2 /\ r.back = n /\ r.front = f
       /\ r.cursor = l.cursor /\ r.deletes = l.deletes
  BY <1>2, <1>4, <1>8 DEF Lists
<1> HIDE DEF r
<1>11. Links(l, n, e, r)
  BY <1>5, <1>6, <1>7, <1>9, <1>10 DEF Links, z
<1>12. LinksBack(l, n, r)
  BY <1>5, <1>6, <1>7, <1>9, <1>10 DEF LinksBack, f
<1> QED
  BY <1>1, <1>11, <1>12

\* What is at the ends of a list
LEMMA Ends ==
  ASSUME NEW l \in Lists, NEW s, Chained(l, s)
  PROVE  /\ l.front \in DOMAIN l.heap \cup {Null}
         /\ l.back \in DOMAIN l.heap \cup {Null}
         /\ (l.front = Null) <=> (Len(s) = 0)
         /\ (l.back = Null) <=> (Len(s) = 0)
         /\ Len(s) # 0 => 1 \in 1..Len(s) /\ l.front = s[1] /\ l.back = s[Len(s)]
<1>1. s \in Seq(Nodes) /\ Len(s) \in Nat
  BY DEF Chained
<1>2. CASE Len(s) = 0
  BY <1>1, <1>2 DEF Chained, At
<1>3. CASE Len(s) # 0
  <2>1. 1 \in 1..Len(s) /\ Len(s) \in 1..Len(s)
    BY <1>1, <1>3
  <2> QED
    BY <1>3, <2>1, Neighbours
<1> QED
  BY <1>2, <1>3

\* A list with a node linked at the front is one along the longer sequence.
LEMMA LinksFrontChained ==
  ASSUME NEW l \in Lists, NEW s, Chained(l, s), NEW n \in DOMAIN l.heap,
         n \in Nodes, \A i \in 1..Len(s) : s[i] # n,
         NEW e \in Things, NEW r, Links(l, n, e, r), LinksFront(l, n, r)
  PROVE  Chained(r, Prepended(n, s))
<1> DEFINE t == Prepended(n, s)
           N == Len(s)
<1>1. s \in Seq(Nodes) /\ N \in Nat /\ N = l.size
  BY DEF Chained
<1>2. /\ t \in Seq(Nodes) /\ Len(t) = N + 1
      /\ \A i \in 1..N + 1 : t[i] = IF i = 1 THEN n ELSE s[i - 1]
  BY <1>1, PrependedIs
<1>3. /\ \A i \in 1..N : s[i] \in DOMAIN l.heap /\ s[i] # n
      /\ \A i, j \in 1..N : s[i] = s[j] => i = j
      /\ \A i \in 1..N :
           /\ l.heap[s[i]].content \in Things
           /\ l.heap[s[i]].prev = IF i = 1 THEN Null ELSE s[i - 1]
           /\ l.heap[s[i]].next = IF i = N THEN Null ELSE s[i + 1]
  BY <1>1 DEF Chained, At
<1>4. \A i : At(t, i) = IF i \in 1..N + 1 THEN t[i] ELSE Null
  BY <1>2 DEF At
<1>5. l.cursor \in {Null, Dangling} \/ \E i \in 1..N : l.cursor = s[i]
  BY DEF Chained
<1>6. /\ (l.front = Null) <=> (N = 0)
      /\ (l.back = Null) <=> (N = 0)
      /\ N # 0 => l.front = s[1] /\ l.back = s[N]
  BY Ends
<1> HIDE DEF t, N
<1>7. 1 \in 1..N + 1 /\ N + 1 \in 1..N + 1 /\ t[1] = n
      /\ \A i \in 1..N : i + 1 \in 1..N + 1 /\ t[i + 1] = s[i]
  <2> SUFFICES ASSUME NEW i \in 1..N
               PROVE  i + 1 \in 1..N + 1 /\ t[i + 1] = s[i]
    BY <1>1, <1>2
  <2>1. i + 1 \in 1..N + 1 /\ i + 1 # 1 /\ (i + 1) - 1 = i
    BY <1>1
  <2> QED
    BY <1>2, <2>1
<1>8. r.front = At(t, 1)
  BY <1>4, <1>7 DEF LinksFront
<1>9. r.back = At(t, N + 1)
  <2>1. CASE N = 0
    BY <1>4, <1>6, <1>7, <2>1 DEF LinksFront
  <2>2. CASE N # 0
    <3>1. N \in 1..N
      BY <1>1, <2>2
    <3> QED
      BY <1>4, <1>6, <1>7, <2>2, <3>1 DEF LinksFront
  <2> QED
    BY <2>1, <2>2
\* A place of the longer sequence is the first, or one further than it was.
<1>10. ASSUME NEW i \in 1..N + 1
       PROVE  i = 1 \/ \E j \in 1..N : i = j + 1 /\ t[i] = s[j]
  <2>1. i # 1 => i - 1 \in 1..N /\ i = (i - 1) + 1
    BY <1>1
  <2> QED
    BY <1>2, <2>1
<1>11. \A i \in 1..N + 1 : t[i] \in DOMAIN r.heap
  BY <1>3, <1>7, <1>10 DEF Links
<1>12. \A i, j \in 1..N + 1 : t[i] = t[j] => i = j
  <2> SUFFICES ASSUME NEW i \in 1..N + 1, NEW j \in 1..N + 1, t[i] = t[j]
               PROVE  i = j
    OBVIOUS
  <2>1. CASE i = 1 \/ j = 1
    BY <1>3, <1>7, <1>10, <2>1
  <2>2. CASE i # 1 /\ j # 1
    <3>1. PICK g \in 1..N : i = g + 1 /\ t[i] = s[g]
      BY <1>10, <2>2
    <3>2. PICK h \in 1..N : j = h + 1 /\ t[j] = s[h]
      BY <1>10, <2>2
    <3>3. s[g] = s[h]
      BY <3>1, <3>2
    <3> QED
      BY <1>3, <3>1, <3>2, <3>3
  <2> QED
    BY <2>1, <2>2
<1>13. ASSUME NEW i \in 1..N + 1
       PROVE  /\ r.heap[t[i]].content \in Things
              /\ r.heap[t[i]].prev = At(t, i - 1)
              /\ r.heap[t[i]].next = At(t, i + 1)
  <2>1. CASE i = 1
    <3>1. /\ r.heap[n].content = e
          /\ r.heap[n].prev = Null /\ r.heap[n].next = l.front
      BY DEF Links, LinksFront
    <3>2. At(t, 1 - 1) = Null
      BY <1>1, <1>4
    <3>3. At(t, 1 + 1) = l.front
      <4>1. CASE N = 0
        BY <1>4, <1>6, <4>1
      <4>2. CASE N # 0
        <5>1. 1 \in 1..N
          BY <1>1, <4>2
        <5> QED
          BY <1>4, <1>6, <1>7, <4>2, <5>1
      <4> QED
        BY <4>1, <4>2
    <3> QED
      BY <1>7, <2>1, <3>1, <3>2, <3>3
  <2>2. ASSUME NEW j \in 1..N, i = j + 1, t[i] = s[j]
        PROVE  /\ r.heap[t[i]].content \in Things
               /\ r.heap[t[i]].prev = At(t, i - 1)
               /\ r.heap[t[i]].next = At(t, i + 1)
    <3>1. s[j] \in DOMAIN l.heap \ {n}
      BY <1>3
    <3>2. /\ r.heap[s[j]].content = l.heap[s[j]].content
          /\ r.heap[s[j]].next = l.heap[s[j]].next
          /\ r.heap[s[j]].prev = IF s[j] = l.front THEN n ELSE l.heap[s[j]].prev
      BY <3>1 DEF Links, LinksFront
    <3>3. 1 \in 1..N /\ N # 0
      BY <1>1
    <3>4. (s[j] = l.front) <=> (j = 1)
      BY <1>3, <1>6, <3>3
    <3>5. r.heap[s[j]].prev = At(t, j)
      <4>1. CASE j = 1
        BY <1>4, <1>7, <3>2, <3>4, <4>1
      <4>2. CASE j # 1
        <5>1. j - 1 \in 1..N /\ (j - 1) + 1 = j
          BY <1>1, <4>2
        <5>2. t[j] = s[j - 1] /\ j \in 1..N + 1
          BY <1>7, <5>1
        <5> QED
          BY <1>3, <1>4, <3>2, <3>4, <4>2, <5>2
      <4> QED
        BY <4>1, <4>2
    <3>6. r.heap[s[j]].next = At(t, (j + 1) + 1)
      <4>1. CASE j = N
        <5>1. (j + 1) + 1 \notin 1..N + 1
          BY <1>1, <4>1
        <5> QED
          BY <1>3, <1>4, <3>2, <4>1, <5>1
      <4>2. CASE j # N
        <5>1. j + 1 \in 1..N
          BY <1>1, <4>2
        <5>2. t[(j + 1) + 1] = s[j + 1] /\ (j + 1) + 1 \in 1..N + 1
          BY <1>7, <5>1
        <5> QED
          BY <1>3, <1>4, <3>2, <4>2, <5>2
      <4> QED
        BY <4>1, <4>2
    <3>7. (j + 1) - 1 = j
      BY <1>1
    <3> QED
      BY <1>3, <2>2, <3>2, <3>5, <3>6, <3>7
  <2> QED
    BY <1>10, <2>1, <2>2
<1>14. r.cursor \in {Null, Dangling} \/ \E i \in 1..N + 1 : r.cursor = t[i]
  BY <1>5, <1>7 DEF Links
<1>15. Len(t) = r.size
  BY <1>1, <1>2 DEF Links
<1>16. Chained(r, t)
  BY <1>2, <1>8, <1>9, <1>11, <1>12, <1>13, <1>14, <1>15 DEF Chained
<1> QED
  BY <1>16 DEF t

\* So is one with a node linked at the back.
LEMMA LinksBackChained ==
  ASSUME NEW l \in Lists, NEW s, Chained(l, s), NEW n \in DOMAIN l.heap,
         n \in Nodes, \A i \in 1..Len(s) : s[i] # n,
         NEW e \in Things, NEW r, Links(l, n, e, r), LinksBack(l, n, r)
  PROVE  Chained(r, Append(s, n))
<1> DEFINE t == Append(s, n)
           N == Len(s)
<1>1. s \in Seq(Nodes) /\ N \in Nat /\ N = l.size
  BY DEF Chained
<1>2. /\ t \in Seq(Nodes) /\ Len(t) = N + 1
      /\ \A i \in 1..N : t[i] = s[i]
      /\ t[N + 1] = n
  BY <1>1
<1>3. /\ \A i \in 1..N : s[i] \in DOMAIN l.heap /\ s[i] # n
      /\ \A i, j \in 1..N : s[i] = s[j] => i = j
      /\ \A i \in 1..N :
           /\ l.heap[s[i]].content \in Things
           /\ l.heap[s[i]].prev = IF i = 1 THEN Null ELSE s[i - 1]
           /\ l.heap[s[i]].next = IF i = N THEN Null ELSE s[i + 1]
  BY <1>1 DEF Chained, At
<1>4. \A i : At(t, i) = IF i \in 1..N + 1 THEN t[i] ELSE Null
  BY <1>2 DEF At
<1>5. l.cursor \in {Null, Dangling} \/ \E i \in 1..N : l.cursor = s[i]
  BY DEF Chained
<1>6. /\ (l.front = Null) <=> (N = 0)
      /\ (l.back = Null) <=> (N = 0)
      /\ N # 0 => l.front = s[1] /\ l.back = s[N]
  BY Ends
<1> HIDE DEF t, N
<1>7. 1 \in 1..N + 1 /\ N + 1 \in 1..N + 1 /\ \A i \in 1..N : i \in 1..N + 1
  BY <1>1
<1>8. r.back = At(t, N + 1)
  BY <1>2, <1>4, <1>7 DEF LinksBack
<1>9. r.front = At(t, 1)
  <2>1. CASE N = 0
    BY <1>2, <1>4, <1>6, <1>7, <2>1 DEF LinksBack
  <2>2. CASE N # 0
    <3>1. 1 \in 1..N
      BY <1>1, <2>2
    <3> QED
      BY <1>2, <1>4, <1>6, <1>7, <2>2, <3>1 DEF LinksBack
  <2> QED
    BY <2>1, <2>2
<1>10. \A i \in 1..N + 1 : i \in 1..N \/ i = N + 1
  BY <1>1
<1>11. \A i \in 1..N + 1 : t[i] \in DOMAIN r.heap
  BY <1>2, <1>3, <1>10 DEF Links
<1>12. \A i, j \in 1..N + 1 : t[i] = t[j] => i = j
  BY <1>2, <1>3, <1>10
<1>13. ASSUME NEW i \in 1..N + 1
       PROVE  /\ r.heap[t[i]].content \in Things
              /\ r.heap[t[i]].prev = At(t, i - 1)
              /\ r.heap[t[i]].next = At(t, i + 1)
  <2>1. CASE i = N + 1
    <3>1. /\ r.heap[n].content = e
          /\ r.heap[n].next = Null /\ r.heap[n].prev = l.back
      BY DEF Links, LinksBack
    <3>2. At(t, (N + 1) + 1) = Null
      BY <1>1, <1>4
    <3>3. At(t, N) = l.back
      <4>1. CASE N = 0
        BY <1>4, <1>6, <4>1
      <4>2. CASE N # 0
        <5>1. N \in 1..N
          BY <1>1, <4>2
        <5> QED
          BY <1>2, <1>4, <1>6, <1>7, <4>2, <5>1
      <4> QED
        BY <4>1, <4>2
    <3>4. (N + 1) - 1 = N
      BY <1>1
    <3> QED
      BY <1>2, <2>1, <3>1, <3>2, <3>3, <3>4
  <2>2. CASE i \in 1..N
    <3>1. s[i] \in DOMAIN l.heap \ {n} /\ t[i] = s[i]
      BY <1>2, <1>3, <2>2
    <3>2. /\ r.heap[s[i]].content = l.heap[s[i]].content
          /\ r.heap[s[i]].prev = l.heap[s[i]].prev
          /\ r.heap[s[i]].next = IF s[i] = l.back THEN n ELSE l.heap[s[i]].next
      BY <3>1 DEF Links, LinksBack
    <3>3. N \in 1..N /\ N # 0
      BY <1>1, <2>2
    <3>4. (s[i] = l.back) <=> (i = N)
      BY <1>3, <1>6, <2>2, <3>3
    <3>5. r.heap[s[i]].prev = At(t, i - 1)
      <4>1. CASE i = 1
        <5>1. i - 1 \notin 1..N + 1
          BY <4>1
        <5> QED
          BY <1>3, <1>4, <2>2, <3>2, <4>1, <5>1
      <4>2. CASE i # 1
        <5>1. i - 1 \in 1..N
          BY <1>1, <2>2, <4>2
        <5> QED
          BY <1>2, <1>3, <1>4, <1>7, <2>2, <3>2, <4>2, <5>1
      <4> QED
        BY <4>1, <4>2
    <3>6. r.heap[s[i]].next = At(t, i + 1)
      <4>1. CASE i = N
        BY <1>2, <1>4, <1>7, <3>2, <3>4, <4>1
      <4>2. CASE i # N
        <5>1. i + 1 \in 1..N
          BY <1>1, <2>2, <4>2
        <5> QED
          BY <1>2, <1>3, <1>4, <1>7, <2>2, <3>2, <3>4, <4>2, <5>1
      <4> QED
        BY <4>1, <4>2
    <3> QED
      BY <1>3, <2>2, <3>1, <3>2, <3>5, <3>6
  <2> QED
    BY <1>10, <2>1, <2>2
<1>14. r.cursor \in {Null, Dangling} \/ \E i \in 1..N + 1 : r.cursor = t[i]
  BY <1>2, <1>5, <1>7 DEF Links
<1>15. Len(t) = r.size
  BY <1>1, <1>2 DEF Links
<1>16. Chained(r, t)
  BY <1>2, <1>8, <1>9, <1>11, <1>12, <1>13, <1>14, <1>15 DEF Chained
<1> QED
  BY <1>16 DEF t

-----------------------------------------------------------------------------
(* The way from the front                                                  *)

\* A nonempty set of numbers has a least one: of the intervals up to its members
\* one holds no other.
LEMMA LeastNumber ==
  ASSUME NEW S \in SUBSET Nat, S # {}
  PROVE  \E x \in S : \A y \in S : x <= y
<1> DEFINE T == {1..x : x \in S}
<1>1. T \subseteq FiniteSubsetsOf(Nat)
  BY FS_Interval DEF FiniteSubsetsOf
<1>2. T # {}
  OBVIOUS
<1>3. PICK A \in T : \A B \in T : ~(<<B, A>> \in StrictSubsetOrdering(Nat))
  BY <1>1, <1>2, FS_StrictSubsetOrderingWellFounded, WFMin
<1>4. PICK x \in S : A = 1..x
  BY <1>3
<1>5. ASSUME NEW y \in S, y < x
      PROVE  FALSE
  <2>1. 1..y \in SUBSET Nat /\ 1..x \in SUBSET Nat
    OBVIOUS
  <2>2. x \in 1..x /\ x \notin 1..y /\ 1..y \subseteq 1..x
    BY <1>5
  <2>3. <<1..y, 1..x>> \in StrictSubsetOrdering(Nat)
    <3> DEFINE p == <<1..y, 1..x>>
    <3>1. p \in (SUBSET Nat) \X (SUBSET Nat)
      BY <2>1
    <3>2. p[1] = 1..y /\ p[2] = 1..x
      OBVIOUS
    <3>3. p[1] \subseteq p[2] /\ p[1] # p[2]
      BY <2>2, <3>2
    <3> HIDE DEF p
    <3>4. p \in StrictSubsetOrdering(Nat)
      BY <3>1, <3>3 DEF StrictSubsetOrdering
    <3> QED
      BY <3>4 DEF p
  <2> QED
    BY <1>3, <1>4, <2>3
<1> QED
  BY <1>5


\* A list is one sequence only.
LEMMA SameChain ==
  ASSUME NEW l \in Lists, NEW s, Chained(l, s), NEW t, Chained(l, t)
  PROVE  s = t
<1> DEFINE N == Len(s)
           bad == {i \in 1..N : s[i] # t[i]}
<1>1. /\ s \in Seq(Nodes) /\ t \in Seq(Nodes) /\ N \in Nat /\ Len(t) = N
      /\ s = [i \in 1..N |-> s[i]] /\ t = [i \in 1..N |-> t[i]]
  BY DEF Chained
<1>2. At(s, 1) = At(t, 1)
  BY DEF Chained
<1>3. \A i \in 1..N : l.heap[s[i]].next = At(s, i + 1)
                      /\ l.heap[t[i]].next = At(t, i + 1)
  BY <1>1 DEF Chained
<1>4. \A i \in 1..N : At(s, i) = s[i] /\ At(t, i) = t[i]
  BY <1>1 DEF At
<1> HIDE DEF N
<1>5. ASSUME bad # {}
      PROVE  FALSE
  <2>1. bad \in SUBSET Nat
    BY <1>1
  <2>2. PICK x \in bad : \A y \in bad : x <= y
    <3> HIDE DEF bad
    <3> QED
      BY <1>5, <2>1, LeastNumber
  <2>3. x \in 1..N /\ s[x] # t[x]
    BY <2>2
  <2>4. x # 1
    BY <1>2, <1>4, <2>3
  <2>5. x - 1 \in 1..N /\ (x - 1) + 1 = x /\ ~(x <= x - 1)
    BY <1>1, <2>3, <2>4
  <2>6. s[x - 1] = t[x - 1]
    BY <2>2, <2>5
  <2>7. At(s, x) = At(t, x)
    BY <1>3, <2>5, <2>6
  <2> QED
    BY <1>4, <2>3, <2>7
<1> QED
  BY <1>1, <1>5

Pos == Nat \ {0}

\* One step further from a node
After(i, f) ==
  IF i = 1 THEN list.front
  ELSE IF f[i - 1] = Null THEN Null ELSE list.heap[f[i - 1]].next

\* The way goes through the sequence and ends behind it.
LEMMA NthIs ==
  ASSUME list \in Lists, NEW s, Chained(list, s)
  PROVE  nth = [i \in Pos |-> At(s, i)]
<1> DEFINE g == [i \in Pos |-> At(s, i)]
           N == Len(s)
<1>1. s \in Seq(Nodes) /\ N \in Nat
  BY DEF Chained
<1>2. /\ list.front = At(s, 1)
      /\ \A i \in 1..N : list.heap[s[i]].next = At(s, i + 1)
      /\ \A i \in 1..N : At(s, i) = s[i] /\ s[i] # Null
      /\ \A i : i \notin 1..N => At(s, i) = Null
  BY <1>1, ListAssumption DEF Chained, At
<1> HIDE DEF N
<1>3. ASSUME NEW i \in Pos, i # 1
      PROVE  At(s, i) = IF At(s, i - 1) = Null THEN Null
                        ELSE list.heap[At(s, i - 1)].next
  <2>1. i - 1 \in Pos /\ (i - 1) + 1 = i
    BY <1>3 DEF Pos
  <2>2. CASE i - 1 \in 1..N
    BY <1>2, <2>1, <2>2
  <2>3. CASE i - 1 \notin 1..N
    <3>1. i \notin 1..N
      BY <1>1, <2>1, <2>3 DEF Pos
    <3> QED
      BY <1>2, <2>3, <3>1
  <2> QED
    BY <2>2, <2>3
<1>4. g = [i \in Pos |-> After(i, g)]
  <2> SUFFICES ASSUME NEW i \in Pos
               PROVE  g[i] = After(i, g)
    OBVIOUS
  <2>1. CASE i = 1
    BY <1>2, <2>1 DEF After
  <2>2. CASE i # 1
    <3>1. i - 1 \in Pos
      BY <2>2 DEF Pos
    <3>2. g[i] = At(s, i) /\ g[i - 1] = At(s, i - 1)
      BY <3>1
    <3> HIDE DEF g
    <3> QED
      BY <1>3, <2>2, <3>2 DEF After
  <2> QED
    BY <2>1, <2>2
<1>5. nth = CHOOSE f : f = [i \in Pos |-> After(i, f)]
  BY DEF nth, After, Pos
<1> HIDE DEF g
<1>6. nth = [i \in Pos |-> After(i, nth)]
  <2> HIDE DEF After
  <2>1. \E f : f = [i \in Pos |-> After(i, f)]
    BY <1>4
  <2> QED
    BY <1>5, <2>1
<1> DEFINE bad == {i \in Pos : nth[i] # g[i]}
<1>7. ASSUME bad # {}
      PROVE  FALSE
  <2>1. bad \in SUBSET Nat
    BY DEF Pos
  <2>2. PICK x \in bad : \A y \in bad : x <= y
    <3> HIDE DEF bad
    <3> QED
      BY <1>7, <2>1, LeastNumber
  <2>3. x \in Pos /\ nth[x] # g[x]
    BY <2>2
  <2>4. nth[x] = After(x, nth) /\ g[x] = After(x, g)
    BY <1>4, <1>6, <2>3
  <2>5. x # 1
    BY <2>3, <2>4 DEF After
  <2>6. x - 1 \in Pos /\ ~(x <= x - 1)
    BY <2>3, <2>5 DEF Pos
  <2>7. nth[x - 1] = g[x - 1]
    BY <2>2, <2>6
  <2> QED
    BY <2>3, <2>4, <2>5, <2>7 DEF After
<1>8. \A i \in Pos : nth[i] = g[i]
  BY <1>7
<1>9. nth = [i \in Pos |-> nth[i]] /\ g = [i \in Pos |-> g[i]]
  BY <1>4, <1>6
<1> QED
  BY <1>8, <1>9 DEF g

-----------------------------------------------------------------------------
(* The inductive invariant                                                 *)

ListOK(l) ==
  /\ l \in Lists
  /\ IsFiniteSet(DOMAIN l.heap)
  /\ l.size <= MAX_SIZE

ListInv == ListOK(list) /\ \E s : Chained(list, s)

\* What is drawn from a sequence: its nodes are no more than those in use.
Members(s) == {s[i] : i \in 1..Len(s)}

\* The members are as many as the sequence is long, and all in use.
LEMMA MembersAre ==
  ASSUME NEW l, ListOK(l), NEW s, Chained(l, s)
  PROVE  /\ Members(s) \subseteq DOMAIN l.heap
         /\ Cardinality(Members(s)) = Len(s)
         /\ Cardinality(DOMAIN l.heap) \in Nat
         /\ Len(s) <= Cardinality(DOMAIN l.heap)
<1> DEFINE N == Len(s)
           f == [i \in 1..N |-> s[i]]
<1>1. N \in Nat /\ Members(s) \subseteq DOMAIN l.heap
  BY DEF Chained, Members
<1>2. \A i, j \in 1..N : s[i] = s[j] => i = j
  BY DEF Chained
<1>3. f \in Bijection(1..N, Members(s))
  <2>1. f \in Injection(1..N, Members(s))
    BY <1>2 DEF Injection, IsInjective, Members
  <2>2. f \in Surjection(1..N, Members(s))
    BY DEF Surjection, Members
  <2> QED
    BY <2>1, <2>2 DEF Bijection
<1>4. ExistsBijection(1..N, Members(s))
  <2> HIDE DEF f
  <2> QED
    BY <1>3 DEF ExistsBijection
<1>5. Cardinality(Members(s)) = N
  BY <1>1, <1>4, FS_CountingElements
<1>6. IsFiniteSet(DOMAIN l.heap)
  BY DEF ListOK
<1>7. Cardinality(DOMAIN l.heap) \in Nat
  BY <1>6, FS_CardinalityType
<1>8. Cardinality(Members(s)) <= Cardinality(DOMAIN l.heap)
  BY <1>1, <1>6, FS_Subset
<1> QED
  BY <1>1, <1>5, <1>7, <1>8

\* The way from the front goes through the members and no other node.
LEMMA ListedIs ==
  ASSUME ListOK(list), NEW s, Chained(list, s)
  PROVE  Listed = Members(s)
<1> DEFINE C == Cardinality(DOMAIN list.heap)
           N == Len(s)
<1>1. N \in Nat /\ C \in Nat /\ N <= C
  BY MembersAre DEF Chained
<1>2. nth = [i \in Pos |-> At(s, i)]
  BY NthIs DEF ListOK
<1>3. \A i \in 1..N : s[i] # Null
  BY ListAssumption DEF Chained
<1>4. Listed = {nth[i] : i \in 1..C} \ {Null}
  BY DEF Listed
<1> HIDE DEF C
<1>5. \A i \in 1..C : nth[i] = At(s, i)
  BY <1>2 DEF Pos
<1>6. \A i \in 1..N : i \in 1..C
  BY <1>1
<1> QED
  BY <1>3, <1>4, <1>5, <1>6 DEF At, Members

\* A list along a sequence has the links, the ends and the size it should.
LEMMA InvLinksAgree == ListInv => LinksAgree
<1> SUFFICES ASSUME ListInv
             PROVE  LinksAgree
  OBVIOUS
<1>1. PICK s : Chained(list, s)
  BY DEF ListInv
<1> DEFINE N == Len(s)
<1>2. ListOK(list) /\ N \in Nat /\ list.size = N /\ s \in Seq(Nodes)
  BY <1>1 DEF ListInv, Chained
<1>3. Listed = Members(s) /\ Cardinality(Members(s)) = N
  BY <1>1, <1>2, ListedIs, MembersAre
<1>4. nth = [i \in Pos |-> At(s, i)]
  BY <1>1, <1>2, NthIs DEF ListOK
<1>5. N \in 0..MAX_SIZE
  BY <1>2, ListAssumption DEF ListOK
<1>6. nth[N + 1] = Null
  BY <1>2, <1>4 DEF Pos, At
<1>7. list.back = IF N = 0 THEN Null ELSE nth[N]
  BY <1>1, <1>2, <1>4 DEF Chained, Pos, At
<1>8. ASSUME NEW i \in 1..N
      PROVE  /\ list.heap[nth[i]].content \in Things
             /\ list.heap[nth[i]].prev = IF i = 1 THEN Null ELSE nth[i - 1]
  <2>1. nth[i] = s[i] /\ (i # 1 => nth[i - 1] = At(s, i - 1))
    BY <1>2, <1>4 DEF Pos, At
  <2>2. i = 1 => At(s, i - 1) = Null
    BY <1>2 DEF At
  <2> QED
    BY <1>1, <2>1, <2>2 DEF Chained
<1>9. list.cursor \in Members(s) \cup {Null, Dangling}
  BY <1>1 DEF Chained, Members
<1> QED
  BY <1>2, <1>3, <1>5, <1>6, <1>7, <1>8, <1>9 DEF LinksAgree

-----------------------------------------------------------------------------
(* What the operations do to the list and to its sequence                  *)

\* What is kept of a list: all contents but those of some nodes
KeepsBut(l, r, nodes) ==
  /\ r.deletes = l.deletes
  /\ \A m \in DOMAIN l.heap \ nodes : m \in DOMAIN r.heap
                                      /\ r.heap[m].content = l.heap[m].content

\* The nodes in use are the same, or one has come, or one has come and one gone.
SameHeap(l, r) == DOMAIN r.heap = DOMAIN l.heap
Takes(l, r, n) == DOMAIN r.heap = DOMAIN l.heap \cup {n}
Swaps(l, r, n, m) == DOMAIN r.heap = (DOMAIN l.heap \cup {n}) \ {m}

\* The cursor may go to any member, or to none.
LEMMA LookedAt ==
  ASSUME NEW l, ListOK(l), NEW s, Chained(l, s), NEW n \in Members(s) \cup {Null}
  PROVE  LET r == [l EXCEPT !.cursor = n]
         IN  /\ ListOK(r) /\ Chained(r, s) /\ r.cursor = n
             /\ r.heap = l.heap /\ r.deletes = l.deletes
<1> DEFINE r == [l EXCEPT !.cursor = n]
<1>1. l \in Lists /\ l.heap \in Heaps
  BY DEF ListOK, Lists
<1>2. n \in Places
  BY <1>1, MembersAre, HeapFacts DEF Places
<1>3. /\ r \in Lists /\ r.cursor = n /\ r.heap = l.heap /\ r.size = l.size
      /\ r.front = l.front /\ r.back = l.back /\ r.deletes = l.deletes
  BY <1>1, <1>2 DEF Lists
<1> HIDE DEF r
<1>4. ListOK(r)
  BY <1>3 DEF ListOK
<1>5. Chained(r, s)
  BY <1>3 DEF Chained, Members
<1> QED
  BY <1>3, <1>4, <1>5 DEF r

\* Only the content of the dropped node goes.
LEMMA Dropped ==
  ASSUME NEW l, ListOK(l), NEW s, Chained(l, s), NEW k \in 1..Len(s),
         NEW r, Drops(l, s[k], r)
  PROVE  ListOK(r) /\ Chained(r, DropAt(s, k)) /\ KeepsBut(l, r, {s[k]})
<1>1. l \in Lists /\ IsFiniteSet(DOMAIN l.heap) /\ l.size <= MAX_SIZE
  BY DEF ListOK
<1>2. Chained(r, DropAt(s, k))
  BY <1>1, DropsChained
<1>3. r \in Lists /\ r.size = l.size - 1 /\ DOMAIN r.heap = DOMAIN l.heap \ {s[k]}
  BY DEF Drops, Unlinks
<1>4. IsFiniteSet(DOMAIN r.heap)
  <2>1. DOMAIN r.heap \in SUBSET DOMAIN l.heap
    BY <1>3
  <2> QED
    BY <1>1, <2>1, FS_Subset
<1>5. l.size \in Int
  BY <1>1 DEF Lists
<1>6. r.size <= MAX_SIZE
  BY <1>1, <1>3, <1>5, ListAssumption
<1>7. KeepsBut(l, r, {s[k]})
  BY <1>3 DEF KeepsBut, Drops, Unlinks
<1> QED
  BY <1>2, <1>3, <1>4, <1>6, <1>7 DEF ListOK

\* the index of the node that is dropped at an end
EndOf(s, end) == IF end = "front" THEN 1 ELSE Len(s)

\* A pop drops the node at its end.
LEMMA PoppedIs ==
  ASSUME NEW l, ListOK(l), NEW s, Chained(l, s), Len(s) # 0, NEW end
  PROVE  /\ EndOf(s, end) \in 1..Len(s)
         /\ Drops(l, s[EndOf(s, end)], Popped(l, end))
<1>1. l \in Lists /\ Len(s) \in Nat /\ Len(s) > 0
  BY DEF ListOK, Chained
<1>2. Drops(l, s[1], PoppedFront(l)) /\ Drops(l, s[Len(s)], PoppedBack(l))
  BY <1>1, PoppedFrontDrops, PoppedBackDrops
<1> QED
  BY <1>1, <1>2 DEF EndOf, Popped

Joined(s, n, end) == IF end = "front" THEN Prepended(n, s) ELSE Append(s, n)

\* A node that is linked at an end joins the sequence there.
LEMMA LinkedIs ==
  ASSUME NEW l, ListOK(l), l.size < MAX_SIZE, NEW s, Chained(l, s),
         NEW n \in DOMAIN l.heap, n \in Nodes, \A i \in 1..Len(s) : s[i] # n,
         NEW e \in Things, NEW end
  PROVE  LET r == Linked(l, n, e, end)
         IN  /\ ListOK(r) /\ Chained(r, Joined(s, n, end))
             /\ KeepsBut(l, r, {n}) /\ r.heap[n].content = e /\ r.cursor = l.cursor
             /\ SameHeap(l, r)
<1> DEFINE r == Linked(l, n, e, end)
<1>1. /\ l \in Lists /\ IsFiniteSet(DOMAIN l.heap) /\ l.size \in Int
      /\ l.front \in DOMAIN l.heap \cup {Null} /\ l.back \in DOMAIN l.heap \cup {Null}
  BY Ends DEF ListOK, Lists
<1>2. Links(l, n, e, r) /\ Chained(r, Joined(s, n, end))
  <2>1. CASE end = "front"
    <3>1. r = LinkedAtFront(l, n, e) /\ Joined(s, n, end) = Prepended(n, s)
      BY <2>1 DEF Linked, Joined
    <3> HIDE DEF r
    <3>2. Links(l, n, e, r) /\ LinksFront(l, n, r)
      BY <1>1, <3>1, LinkedAtFrontLinks
    <3> QED
      BY <1>1, <3>1, <3>2, LinksFrontChained
  <2>2. CASE end # "front"
    <3>1. r = LinkedAtBack(l, n, e) /\ Joined(s, n, end) = Append(s, n)
      BY <2>2 DEF Linked, Joined
    <3> HIDE DEF r
    <3>2. Links(l, n, e, r) /\ LinksBack(l, n, r)
      BY <1>1, <3>1, LinkedAtBackLinks
    <3> QED
      BY <1>1, <3>1, <3>2, LinksBackChained
  <2> QED
    BY <2>1, <2>2
<1> HIDE DEF r
<1>3. /\ r \in Lists /\ r.size = l.size + 1 /\ DOMAIN r.heap = DOMAIN l.heap
      /\ r.cursor = l.cursor /\ r.heap[n].content = e
  BY <1>2 DEF Links
<1>4. r.size <= MAX_SIZE
  BY <1>1, <1>3, ListAssumption
<1>5. KeepsBut(l, r, {n})
  BY <1>2 DEF KeepsBut, Links
<1>6. ListOK(r)
  BY <1>1, <1>3, <1>4 DEF ListOK
<1>7. SameHeap(l, r)
  BY <1>3 DEF SameHeap
<1> QED
  BY <1>2, <1>3, <1>5, <1>6, <1>7 DEF r

\* Taking memory for a node keeps a list in order.
LEMMA AllocatedOK ==
  ASSUME NEW l, ListOK(l), NEW s, Chained(l, s), NEW n \in Nodes \ DOMAIN l.heap
  PROVE  LET a == Allocated(l, n)
         IN  /\ ListOK(a) /\ Chained(a, s) /\ \A i \in 1..Len(s) : s[i] # n
             /\ KeepsBut(l, a, {}) /\ a.cursor = l.cursor /\ a.size = l.size
             /\ DOMAIN a.heap = DOMAIN l.heap \cup {n}
<1> DEFINE a == Allocated(l, n)
<1>1. l \in Lists /\ IsFiniteSet(DOMAIN l.heap) /\ l.size <= MAX_SIZE
  BY DEF ListOK
<1>2. /\ a \in Lists /\ a.size = l.size /\ a.cursor = l.cursor
      /\ a.deletes = l.deletes
      /\ DOMAIN a.heap = DOMAIN l.heap \cup {n}
      /\ \A m \in DOMAIN l.heap : a.heap[m] = l.heap[m]
  BY <1>1, AllocatedIs
<1>3. Chained(a, s) /\ \A i \in 1..Len(s) : s[i] # n
  BY <1>1, AllocatedChained
<1> HIDE DEF a
<1>4. IsFiniteSet(DOMAIN a.heap)
  BY <1>1, <1>2, FS_AddElement
<1>5. ListOK(a)
  BY <1>1, <1>2, <1>4 DEF ListOK
<1>6. KeepsBut(l, a, {})
  BY <1>2 DEF KeepsBut
<1> QED
  BY <1>2, <1>3, <1>5, <1>6 DEF a

\* A push on a list that has room
LEMMA PushedIs ==
  ASSUME NEW l, ListOK(l), NEW s, Chained(l, s), NEW n \in Nodes \ DOMAIN l.heap,
         NEW e \in Things, NEW end, l.size < MAX_SIZE
  PROVE  LET r == Linked(Allocated(l, n), n, e, end)
         IN  /\ ListOK(r) /\ Chained(r, Joined(s, n, end))
             /\ KeepsBut(l, r, {}) /\ r.heap[n].content = e /\ r.cursor = l.cursor
             /\ Takes(l, r, n)
             /\ \A i \in 1..Len(s) : s[i] # n
<1> DEFINE a == Allocated(l, n)
           r == Linked(a, n, e, end)
<1>1. /\ ListOK(a) /\ Chained(a, s) /\ \A i \in 1..Len(s) : s[i] # n
      /\ KeepsBut(l, a, {}) /\ a.cursor = l.cursor /\ a.size = l.size
      /\ DOMAIN a.heap = DOMAIN l.heap \cup {n}
  BY AllocatedOK
<1> HIDE DEF a
<1>2. a.size < MAX_SIZE /\ n \in DOMAIN a.heap /\ n \in Nodes
  BY <1>1
<1>3. /\ ListOK(r) /\ Chained(r, Joined(s, n, end))
      /\ KeepsBut(a, r, {n}) /\ r.heap[n].content = e /\ r.cursor = a.cursor
      /\ SameHeap(a, r)
  BY <1>1, <1>2, LinkedIs
<1> HIDE DEF r
<1>4. KeepsBut(l, r, {})
  BY <1>1, <1>3 DEF KeepsBut
<1>5. Takes(l, r, n)
  BY <1>1, <1>3 DEF Takes, SameHeap
<1> QED
  BY <1>1, <1>3, <1>4, <1>5 DEF a, r

\* A node holds its content; a cursor is lost with its node.
Holds(r, n, e) == r.heap[n].content = e
Misses(l, r, n) == r.cursor = IF l.cursor = n THEN Dangling ELSE l.cursor

\* A push on a full list that drops the node at an end for it
LEMMA OverriddenIs ==
  ASSUME NEW l, ListOK(l), NEW s, Chained(l, s), NEW n \in Nodes \ DOMAIN l.heap,
         NEW e \in Things, NEW end, NEW other, l.size = MAX_SIZE
  PROVE  LET k == EndOf(s, other)
             r == Linked(Popped(Allocated(l, n), other), n, e, end)
         IN  /\ k \in 1..Len(s)
             /\ ListOK(r) /\ Chained(r, Joined(DropAt(s, k), n, end))
             /\ KeepsBut(l, r, {s[k]}) /\ Holds(r, n, e) /\ Misses(l, r, s[k])
             /\ Swaps(l, r, n, s[k])
             /\ \A i \in 1..Len(s) : s[i] # n
<1> DEFINE k == EndOf(s, other)
           a == Allocated(l, n)
           p == Popped(a, other)
           t == DropAt(s, k)
           r == Linked(p, n, e, end)
<1>1. /\ ListOK(a) /\ Chained(a, s) /\ \A i \in 1..Len(s) : s[i] # n
      /\ KeepsBut(l, a, {}) /\ a.cursor = l.cursor /\ a.size = l.size
      /\ DOMAIN a.heap = DOMAIN l.heap \cup {n}
  BY AllocatedOK
<1>2. Len(s) # 0 /\ s \in Seq(Nodes) /\ Len(s) = MAX_SIZE
  BY ListAssumption DEF Chained
<1> HIDE DEF a
<1>3. k \in 1..Len(s) /\ Drops(a, s[k], p)
  BY <1>1, <1>2, PoppedIs
<1> HIDE DEF k, p
<1>4. ListOK(p) /\ Chained(p, t) /\ KeepsBut(a, p, {s[k]})
  BY <1>1, <1>3, Dropped
<1>5. /\ p.size < MAX_SIZE /\ DOMAIN p.heap = DOMAIN a.heap \ {s[k]}
      /\ p.cursor = IF a.cursor = s[k] THEN Dangling ELSE a.cursor
  <2>1. p.size = a.size - 1 /\ a.size = MAX_SIZE
    BY <1>1, <1>3 DEF Drops, Unlinks
  <2>2. p.size < MAX_SIZE
    BY <2>1, ListAssumption
  <2> QED
    BY <1>3, <2>2 DEF Drops
<1>6. n \in DOMAIN p.heap /\ n \in Nodes
  BY <1>1, <1>3, <1>5
<1>7. \A i \in 1..Len(t) : t[i] # n
  <2>1. Len(t) = Len(s) - 1
        /\ \A i \in 1..Len(s) - 1 : t[i] = IF i < k THEN s[i] ELSE s[i + 1]
    BY <1>2, <1>3, DropAtIs
  <2>2. \A i \in 1..Len(s) - 1 : i \in 1..Len(s) /\ i + 1 \in 1..Len(s)
    BY <1>2, ListAssumption
  <2> QED
    BY <1>1, <2>1, <2>2
<1> HIDE DEF t
<1>8. /\ ListOK(r) /\ Chained(r, Joined(t, n, end))
      /\ KeepsBut(p, r, {n}) /\ r.heap[n].content = e /\ r.cursor = p.cursor
      /\ SameHeap(p, r)
  BY <1>4, <1>5, <1>6, <1>7, LinkedIs
<1> HIDE DEF r
<1>9. KeepsBut(l, r, {s[k]})
  BY <1>1, <1>4, <1>8 DEF KeepsBut
<1>10. Holds(r, n, e) /\ Misses(l, r, s[k])
  BY <1>1, <1>5, <1>8 DEF Holds, Misses
<1>11. Swaps(l, r, n, s[k])
  BY <1>1, <1>5, <1>8 DEF Swaps, SameHeap
<1> QED
  BY <1>1, <1>3, <1>8, <1>9, <1>10, <1>11 DEF a, p, k, t, r

\* A new list is one along no nodes.
LEMMA NewIs ==
  ASSUME NEW heap \in Heaps, IsFiniteSet(DOMAIN heap), NEW d \in BOOLEAN
  PROVE  ListOK(New(heap, d)) /\ Chained(New(heap, d), <<>>)
<1> DEFINE l == New(heap, d)
<1>1. /\ l \in Lists /\ l.size = 0 /\ l.front = Null /\ l.back = Null
      /\ l.cursor = Dangling /\ l.heap = heap
  BY DEF New, Lists, Places
<1> HIDE DEF l
<1>2. ListOK(l)
  BY <1>1, ListAssumption DEF ListOK
<1>3. <<>> \in Seq(Nodes) /\ Len(<<>>) = 0
  OBVIOUS
<1>4. Chained(l, <<>>)
  BY <1>1, <1>3 DEF Chained, At
<1> QED
  BY <1>2, <1>4 DEF l

\* One member less,
LEMMA DropAtMembers ==
  ASSUME NEW s \in Seq(Nodes), \A i, j \in 1..Len(s) : s[i] = s[j] => i = j,
         NEW k \in 1..Len(s)
  PROVE  Members(DropAt(s, k)) = Members(s) \ {s[k]}
<1> DEFINE N == Len(s)
           t == DropAt(s, k)
<1>1. /\ Len(t) = N - 1 /\ N \in Nat /\ k \in 1..N
      /\ \A i \in 1..N - 1 : t[i] = IF i < k THEN s[i] ELSE s[i + 1]
  BY DropAtIs
<1> HIDE DEF t, N
<1>2. ASSUME NEW i \in 1..N - 1
      PROVE  t[i] \in Members(s) \ {s[k]}
  <2>1. i \in 1..N /\ i + 1 \in 1..N
    BY <1>1
  <2>2. t[i] = IF i < k THEN s[i] ELSE s[i + 1]
    BY <1>1
  <2>3. CASE i < k
    <3>1. i # k
      BY <1>1, <2>3
    <3> QED
      BY <2>1, <2>2, <2>3, <3>1, <1>1 DEF Members, N
  <2>4. CASE ~(i < k)
    <3>1. i + 1 # k
      BY <1>1, <2>4
    <3> QED
      BY <2>1, <2>2, <2>4, <3>1, <1>1 DEF Members, N
  <2> QED
    BY <2>3, <2>4
<1>3. ASSUME NEW i \in 1..N, i # k
      PROVE  \E j \in 1..N - 1 : t[j] = s[i]
  <2>1. CASE i < k
    <3>1. i \in 1..N - 1
      BY <1>1, <2>1
    <3> QED
      BY <1>1, <2>1, <3>1
  <2>2. CASE ~(i < k)
    <3>1. i - 1 \in 1..N - 1 /\ ~(i - 1 < k) /\ (i - 1) + 1 = i
      BY <1>1, <1>3, <2>2
    <3> QED
      BY <1>1, <3>1
  <2> QED
    BY <2>1, <2>2
<1>4. Members(t) \subseteq Members(s) \ {s[k]}
  BY <1>1, <1>2 DEF Members
<1>5. Members(s) \ {s[k]} \subseteq Members(t)
  BY <1>1, <1>3 DEF Members, N
<1> QED
  BY <1>4, <1>5 DEF t

\* and one more
LEMMA JoinedMembers ==
  ASSUME NEW s \in Seq(Nodes), NEW n \in Nodes, NEW end
  PROVE  Members(Joined(s, n, end)) = Members(s) \cup {n}
<1> DEFINE N == Len(s)
<1>1. N \in Nat
  OBVIOUS
<1>2. CASE end = "front"
  <2> DEFINE t == Prepended(n, s)
  <2>1. /\ Joined(s, n, end) = t /\ Len(t) = N + 1
        /\ \A i \in 1..N + 1 : t[i] = IF i = 1 THEN n ELSE s[i - 1]
    BY <1>2, PrependedIs DEF Joined
  <2> HIDE DEF t
  <2>2. \A i \in 1..N + 1 : i # 1 => i - 1 \in 1..N
    BY <1>1
  <2>3. \A i \in 1..N : i + 1 \in 1..N + 1 /\ i + 1 # 1 /\ (i + 1) - 1 = i
    BY <1>1
  <2>4. 1 \in 1..N + 1
    BY <1>1
  <2>5. \A i \in 1..N : t[i + 1] = s[i]
    BY <2>1, <2>3
  <2> HIDE DEF N
  <2>6. {t[i] : i \in 1..N + 1} \subseteq {s[i] : i \in 1..N} \cup {n}
    BY <2>1, <2>2
  <2>7. {s[i] : i \in 1..N} \cup {n} \subseteq {t[i] : i \in 1..N + 1}
    BY <2>1, <2>3, <2>4, <2>5
  <2> QED
    BY <2>1, <2>6, <2>7 DEF Members, N
<1>3. CASE end # "front"
  <2> DEFINE t == Append(s, n)
  <2>1. /\ Joined(s, n, end) = t /\ Len(t) = N + 1
        /\ t[N + 1] = n /\ \A i \in 1..N : t[i] = s[i]
    BY <1>3 DEF Joined
  <2> HIDE DEF t
  <2>2. 1..N + 1 = 1..N \cup {N + 1}
    BY <1>1
  <2> HIDE DEF N
  <2> QED
    BY <2>1, <2>2 DEF Members, N
<1> QED
  BY <1>2, <1>3

\* From a list along s to one along t: memory was taken for the nodes that
\* joined and given back for those that went.
GivesBack(l, s, r, t) ==
  /\ ListOK(r) /\ Chained(r, t)
  /\ DOMAIN r.heap \ Members(t) = DOMAIN l.heap \ Members(s)

\* A drop gives the memory of the node back.
LEMMA DroppedGivesBack ==
  ASSUME NEW l, ListOK(l), NEW s, Chained(l, s), NEW k \in 1..Len(s),
         NEW r, Drops(l, s[k], r)
  PROVE  GivesBack(l, s, r, DropAt(s, k))
<1> DEFINE t == DropAt(s, k)
<1>1. ListOK(r) /\ Chained(r, t)
  BY Dropped
<1>2. Members(t) = Members(s) \ {s[k]}
  BY DropAtMembers DEF Chained
<1>3. DOMAIN r.heap = DOMAIN l.heap \ {s[k]} /\ s[k] \in Members(s)
  BY DEF Drops, Members
<1> HIDE DEF t
<1>4. DOMAIN r.heap \ Members(t) = DOMAIN l.heap \ Members(s)
  BY <1>2, <1>3
<1> QED
  BY <1>1, <1>4 DEF GivesBack, t

\* A push takes memory for the node it links,
LEMMA PushedGivesBack ==
  ASSUME NEW l, ListOK(l), NEW s, Chained(l, s), NEW n \in Nodes \ DOMAIN l.heap,
         NEW e \in Things, NEW end, l.size < MAX_SIZE
  PROVE  GivesBack(l, s, Linked(Allocated(l, n), n, e, end), Joined(s, n, end))
<1> DEFINE t == Joined(s, n, end)
           r == Linked(Allocated(l, n), n, e, end)
<1>1. ListOK(r) /\ Chained(r, t) /\ Takes(l, r, n)
  BY PushedIs
<1>2. Members(t) = Members(s) \cup {n}
  BY JoinedMembers DEF Chained
<1> HIDE DEF t, r
<1>3. DOMAIN r.heap \ Members(t) = DOMAIN l.heap \ Members(s)
  BY <1>1, <1>2 DEF Takes
<1> QED
  BY <1>1, <1>3 DEF GivesBack, t, r

\* and one that overrides gives that of the dropped node back.
LEMMA OverriddenGivesBack ==
  ASSUME NEW l, ListOK(l), NEW s, Chained(l, s), NEW n \in Nodes \ DOMAIN l.heap,
         NEW e \in Things, NEW end, NEW other, l.size = MAX_SIZE
  PROVE  GivesBack(l, s, Linked(Popped(Allocated(l, n), other), n, e, end),
                   Joined(DropAt(s, EndOf(s, other)), n, end))
<1> DEFINE k == EndOf(s, other)
           u == DropAt(s, k)
           t == Joined(u, n, end)
           r == Linked(Popped(Allocated(l, n), other), n, e, end)
<1> HIDE DEF k, r, t
<1>1. /\ k \in 1..Len(s) /\ ListOK(r) /\ Chained(r, t)
      /\ Swaps(l, r, n, s[k])
      /\ \A i \in 1..Len(s) : s[i] # n
  BY OverriddenIs DEF k, r, t
<1> USE DEF t
<1>2. u \in Seq(Nodes) /\ Members(u) = Members(s) \ {s[k]}
  BY <1>1, DropAtIs, DropAtMembers DEF Chained
<1> HIDE DEF u
<1>3. Members(t) = Members(u) \cup {n}
  BY <1>2, JoinedMembers
<1> HIDE DEF t
<1>4. s[k] \in Members(s) /\ n # s[k] /\ n \notin DOMAIN l.heap
  BY <1>1 DEF Members
<1>5. DOMAIN r.heap \ Members(t) = DOMAIN l.heap \ Members(s)
  BY <1>1, <1>2, <1>3, <1>4 DEF Swaps
<1> QED
  BY <1>1, <1>5 DEF GivesBack, k, u, t, r

-----------------------------------------------------------------------------
(* The actions                                                             *)

Leaked == DOMAIN list.heap \ Listed

\* every list is one sequence only, which Listed are the members of
ListedAlong == \A s : Chained(list, s) => Listed = Members(s)

\* The invariant fixes what is listed.
LEMMA InvListed == ListInv => ListedAlong
BY ListedIs DEF ListInv, ListedAlong

\* A step that keeps the list in order and no memory.
Tidy(s) == \E t : GivesBack(list, s, list', t)

\* Each action is tidy: one that changes nothing,
LEMMA SameTidy ==
  ASSUME ListOK(list), NEW s, Chained(list, s), UNCHANGED list
  PROVE  Tidy(s)
<1>1. GivesBack(list, s, list', s)
  BY DEF GivesBack
<1> QED
  BY <1>1 DEF Tidy

\* one that moves the cursor,
LEMMA LookTidy ==
  ASSUME ListOK(list), NEW s, Chained(list, s), NEW n \in Members(s) \cup {Null},
         Look(n)
  PROVE  Tidy(s)
<1>1. list' = [list EXCEPT !.cursor = n]
  BY DEF Look
<1>2. ListOK(list') /\ Chained(list', s) /\ list'.heap = list.heap
  BY <1>1, LookedAt
<1>3. GivesBack(list, s, list', s)
  BY <1>2 DEF GivesBack
<1> QED
  BY <1>3 DEF Tidy

\* or would if there were a node,
LEMMA FollowTidy ==
  ASSUME ListOK(list), NEW s, Chained(list, s), NEW n \in Members(s) \cup {Null},
         FollowTo(n)
  PROVE  Tidy(s)
<1>1. CASE n = Null
  BY <1>1, SameTidy DEF FollowTo, Nothing
<1>2. CASE n # Null
  BY <1>2, LookTidy DEF FollowTo
<1> QED
  BY <1>1, <1>2

\* The ends of the list and the neighbours of the cursor are members or none.
LEMMA Reached ==
  ASSUME ListOK(list), NEW s, Chained(list, s)
  PROVE  /\ {list.front, list.back} \subseteq Members(s) \cup {Null}
         /\ list.cursor \notin {Null, Dangling} =>
              {list.heap[list.cursor].next, list.heap[list.cursor].prev}
                \subseteq Members(s) \cup {Null}
<1>1. \A i : At(s, i) \in Members(s) \cup {Null}
  BY DEF At, Members
<1>2. list.front = At(s, 1) /\ list.back = At(s, Len(s))
  BY DEF Chained
<1>3. ASSUME list.cursor \notin {Null, Dangling}
      PROVE  {list.heap[list.cursor].next, list.heap[list.cursor].prev}
               \subseteq Members(s) \cup {Null}
  <2>1. PICK k \in 1..Len(s) : list.cursor = s[k]
    BY <1>3 DEF Chained
  <2>2. list.heap[s[k]].next = At(s, k + 1) /\ list.heap[s[k]].prev = At(s, k - 1)
    BY DEF Chained
  <2> QED
    BY <1>1, <2>1, <2>2
<1> QED
  BY <1>1, <1>2, <1>3

\* one that drops a node,
LEMMA DropTidy ==
  ASSUME ListOK(list), NEW s, Chained(list, s), NEW k \in 1..Len(s),
         Drops(list, s[k], list')
  PROVE  Tidy(s)
<1>1. GivesBack(list, s, list', DropAt(s, k))
  BY DroppedGivesBack
<1> QED
  BY <1>1 DEF Tidy

\* An end that has a node: it is the first or the last of the sequence.
LEMMA PopTidy ==
  ASSUME ListOK(list), NEW s, Chained(list, s), NEW end \in {"front", "back"},
         (IF end = "front" THEN list.front ELSE list.back) # Null,
         list' = Popped(list, end)
  PROVE  Tidy(s)
<1>1. Len(s) # 0
  BY DEF Chained, At
<1> DEFINE k == EndOf(s, end)
<1>2. k \in 1..Len(s) /\ Drops(list, s[k], list')
  BY <1>1, PoppedIs
<1> HIDE DEF k
<1> QED
  BY <1>2, DropTidy

\* remove() takes the node under the cursor out, wherever it is.
LEMMA RemovedDrops ==
  ASSUME ListOK(list), NEW s, Chained(list, s), NEW k \in 1..Len(s),
         list.cursor = s[k]
  PROVE  Drops(list, s[k], IF s[k] = list.front THEN PoppedFront(list)
                           ELSE IF s[k] = list.back THEN PoppedBack(list)
                           ELSE Unlinked(list, s[k]))
<1>1. list \in Lists /\ Len(s) \in Nat /\ Len(s) > 0
  BY DEF ListOK, Chained
<1>2. /\ list.front = s[1] /\ list.back = s[Len(s)]
      /\ (list.front = s[k]) <=> (k = 1)
      /\ (list.back = s[k]) <=> (k = Len(s))
  BY <1>1, Neighbours
<1>3. Drops(list, s[1], PoppedFront(list))
  BY <1>1, PoppedFrontDrops
<1>4. Drops(list, s[Len(s)], PoppedBack(list))
  BY <1>1, PoppedBackDrops
<1>5. k # 1 /\ k # Len(s) => Drops(list, s[k], Unlinked(list, s[k]))
  BY <1>1, UnlinkedDrops
<1> QED
  BY <1>2, <1>3, <1>4, <1>5

\* remove(), if it has one under the cursor,
LEMMA RemoveTidy ==
  ASSUME ListOK(list), NEW s, Chained(list, s), Remove
  PROVE  Tidy(s)
<1>1. CASE list.cursor = Null /\ Nothing("ok")
  BY <1>1, SameTidy DEF Nothing
<1>2. CASE /\ list.cursor \notin {Null, Dangling}
           /\ list' = IF list.cursor = list.front THEN PoppedFront(list)
                      ELSE IF list.cursor = list.back THEN PoppedBack(list)
                      ELSE Unlinked(list, list.cursor)
  <2>1. PICK k \in 1..Len(s) : list.cursor = s[k]
    BY <1>2 DEF Chained
  <2>2. Drops(list, s[k], list')
    BY <1>2, <2>1, RemovedDrops
  <2> QED
    BY <2>2, DropTidy
<1> QED
  BY <1>1, <1>2 DEF Remove

\* Only a push that is refused keeps the memory it took.
LEMMA PushTidy ==
  ASSUME ListOK(list), NEW s, Chained(list, s), NEW e \in Things,
         NEW override \in BOOLEAN, NEW end, NEW other, Push(e, override, end, other)
  PROVE  Tidy(s) \/ (answer'.value = "full" /\ ListOK(list') /\ Chained(list', s))
<1>1. CASE Nothing("alloc_fail")
  BY <1>1, SameTidy DEF Nothing
<1>2. ASSUME NEW n \in Nodes \ DOMAIN list.heap, list.size < MAX_SIZE,
             list' = Linked(Allocated(list, n), n, e, end)
      PROVE  Tidy(s)
  <2>1. GivesBack(list, s, list', Joined(s, n, end))
    BY <1>2, PushedGivesBack
  <2> QED
    BY <2>1 DEF Tidy
<1>3. ASSUME NEW n \in Nodes \ DOMAIN list.heap, list' = Allocated(list, n),
             answer' = Says("full", {})
      PROVE  answer'.value = "full" /\ ListOK(list') /\ Chained(list', s)
  BY <1>3, AllocatedOK DEF Says
<1>4. ASSUME NEW n \in Nodes \ DOMAIN list.heap, list.size = MAX_SIZE,
             list' = Linked(Popped(Allocated(list, n), other), n, e, end)
      PROVE  Tidy(s)
  <2>1. GivesBack(list, s, list', Joined(DropAt(s, EndOf(s, other)), n, end))
    BY <1>4, OverriddenGivesBack
  <2> QED
    BY <2>1 DEF Tidy
<1> QED
  BY <1>1, <1>2, <1>3, <1>4 DEF Push

\* and the destructor, which frees all it lists.
LEMMA RenewTidy ==
  ASSUME ListOK(list), NEW s, Chained(list, s), Renew
  PROVE  Tidy(s)
<1>1. Listed = Members(s)
  BY ListedIs
<1>2. PICK d \in BOOLEAN : list' = New(Without(list.heap, Members(s)), d)
  BY <1>1 DEF Renew
<1> DEFINE h == Without(list.heap, Members(s))
<1>3. list.heap \in Heaps /\ IsFiniteSet(DOMAIN list.heap)
  BY DEF ListOK, Lists
<1>4. h \in Heaps /\ DOMAIN h = DOMAIN list.heap \ Members(s)
  BY <1>3, WithoutIs
<1> HIDE DEF h
<1>5. IsFiniteSet(DOMAIN h)
  <2>1. DOMAIN h \in SUBSET DOMAIN list.heap
    BY <1>4
  <2> QED
    BY <1>3, <2>1, FS_Subset
<1>6. list' = New(h, d)
  BY <1>2 DEF h
<1>7. ListOK(list') /\ Chained(list', <<>>)
  BY <1>4, <1>5, <1>6, NewIs
<1>8. list'.heap = h
  BY <1>6 DEF New
<1>9. Members(<<>>) = {}
  BY DEF Members
<1>10. GivesBack(list, s, list', <<>>)
  BY <1>4, <1>7, <1>8, <1>9 DEF GivesBack
<1> QED
  BY <1>10 DEF Tidy

\* Together: every step is tidy, or a push that is refused.
LEMMA NextTidy ==
  ASSUME ListOK(list), NEW s, Chained(list, s), [Next]_vars
  PROVE  Tidy(s) \/ (answer'.value = "full" /\ ListOK(list') /\ Chained(list', s))
<1>1. CASE UNCHANGED vars
  BY <1>1, SameTidy DEF vars
<1>2. CASE Front
  BY <1>2, Reached, LookTidy DEF Front
<1>3. CASE Back
  BY <1>3, Reached, LookTidy DEF Back
<1>4. CASE NextNode
  <2>1. PICK n : /\ n = IF list.cursor = Null THEN Null ELSE list.heap[list.cursor].next
                 /\ list.cursor # Dangling /\ FollowTo(n)
    BY <1>4 DEF NextNode
  <2>2. n \in Members(s) \cup {Null}
    BY <2>1, Reached
  <2> QED
    BY <2>1, <2>2, FollowTidy
<1>5. CASE PrevNode
  <2>1. PICK n : /\ n = IF list.cursor = Null THEN Null ELSE list.heap[list.cursor].prev
                 /\ list.cursor # Dangling /\ FollowTo(n)
    BY <1>5 DEF PrevNode
  <2>2. n \in Members(s) \cup {Null}
    BY <2>1, Reached
  <2> QED
    BY <2>1, <2>2, FollowTidy
<1>6. ASSUME NEW e \in Things, NEW override \in BOOLEAN,
             PushFront(e, override) \/ PushBack(e, override)
      PROVE  Tidy(s) \/ (answer'.value = "full" /\ ListOK(list') /\ Chained(list', s))
  BY <1>6, PushTidy DEF PushFront, PushBack
<1>7. CASE Remove
  BY <1>7, RemoveTidy
<1>8. CASE PopFront
  <2>1. CASE list.front = Null
    BY <1>8, <2>1, SameTidy DEF PopFront, Nothing
  <2>2. CASE list.front # Null
    <3>1. list' = Popped(list, "front")
      BY <1>8, <2>2 DEF PopFront, Popped
    <3> QED
      BY <2>2, <3>1, PopTidy
  <2> QED
    BY <2>1, <2>2
<1>9. CASE PopBack
  <2>1. CASE list.back = Null
    BY <1>9, <2>1, SameTidy DEF PopBack, Nothing
  <2>2. CASE list.back # Null
    <3>1. list' = Popped(list, "back")
      BY <1>9, <2>2 DEF PopBack, Popped
    <3> QED
      BY <2>2, <3>1, PopTidy
  <2> QED
    BY <2>1, <2>2
<1>10. CASE Renew
  BY <1>10, RenewTidy
<1> QED
  BY <1>1, <1>2, <1>3, <1>4, <1>5, <1>6, <1>7, <1>8, <1>9, <1>10 DEF Next

\* The list starts along no nodes,
LEMMA InitInv == Init => ListInv
<1> SUFFICES ASSUME Init
             PROVE  ListInv
  OBVIOUS
<1>1. PICK d \in BOOLEAN : list = New(<<>>, d)
  BY DEF Init
<1>2. <<>> \in Heaps /\ DOMAIN <<>> = {}
  BY DEF Heaps
<1>3. IsFiniteSet(DOMAIN <<>>)
  BY <1>2, FS_EmptySet
<1> QED
  BY <1>1, <1>2, <1>3, NewIs DEF ListInv

\* stays along some sequence,
LEMMA NextInv == ListInv /\ [Next]_vars => ListInv'
<1> SUFFICES ASSUME ListInv, [Next]_vars
             PROVE  ListInv'
  OBVIOUS
<1>1. PICK s : Chained(list, s)
  BY DEF ListInv
<1>2. \E t : ListOK(list') /\ Chained(list', t)
  BY <1>1, NextTidy DEF ListInv, Tidy, GivesBack
<1> QED
  BY <1>2 DEF ListInv

\* and so always is along one.
LEMMA ListInvariant == Spec => []ListInv
BY InitInv, NextInv, PTL DEF Spec

\* The links forward and back, the ends, the size and the cursor of espbot_list.hpp
\* describe one list, whatever calls were made and whatever node is used again.
THEOREM TheLinksAgree == Spec => []LinksAgree
BY ListInvariant, InvLinksAgree, PTL

\* What is in use and not listed changes only when a push is refused.
LEMMA StepGivesBack ==
  ListInv /\ ListedAlong /\ ListedAlong' /\ [Next]_vars
    => (Leaked' # Leaked => answer'.value = "full")
<1> SUFFICES ASSUME ListInv, ListedAlong, ListedAlong', [Next]_vars,
                    answer'.value # "full"
             PROVE  Leaked' = Leaked
  OBVIOUS
<1>1. PICK s : Chained(list, s)
  BY DEF ListInv
<1>2. PICK t : GivesBack(list, s, list', t)
  BY <1>1, NextTidy DEF ListInv, Tidy
<1>3. Listed = Members(s) /\ Listed' = Members(t)
  BY <1>1, <1>2 DEF ListedAlong, GivesBack
<1> QED
  BY <1>2, <1>3 DEF Leaked, GivesBack

\* pop_front(), pop_back(), remove(), the overriding pushes and the destructor give
\* every node that leaves the list back; only a push that a full list refuses keeps
\* the node it took.
THEOREM EveryNodeIsGivenBack == Spec => NodesAreGivenBack
<1>1. ListInv /\ ListedAlong /\ ListedAlong' /\ [Next]_vars
        => [LET leaked == DOMAIN list.heap \ Listed
            IN  leaked' # leaked => answer'.value = "full"]_vars
  BY StepGivesBack DEF Leaked
<1> QED
  BY <1>1, ListInvariant, InvListed, PTL DEF Spec, NodesAreGivenBack

-----------------------------------------------------------------------------
(* The sequence of contents and the position that a list stands for        *)

Contents(l, s) == [i \in 1..Len(s) |-> l.heap[s[i]].content]

PlaceOf(c, s) ==
  IF c = Dangling THEN -1
  ELSE IF c = Null THEN 0
  ELSE CHOOSE i \in 1..Len(s) : s[i] = c

\* the nodes of a list: no node twice, and none that is no node
Distinct(s) == s \in Seq(Nodes) /\ \A i, j \in 1..Len(s) : s[i] = s[j] => i = j

\* where a cursor may point
Points(c, s) == c \in {Null, Dangling} \/ \E i \in 1..Len(s) : c = s[i]

\* The place of a node is its index.
LEMMA PlaceIs ==
  ASSUME NEW s, Distinct(s)
  PROVE  /\ PlaceOf(Dangling, s) = -1
         /\ PlaceOf(Null, s) = 0
         /\ \A k \in 1..Len(s) : PlaceOf(s[k], s) = k
<1>1. PlaceOf(Dangling, s) = -1 /\ PlaceOf(Null, s) = 0
  BY DEF PlaceOf, Null, Dangling
<1>2. ASSUME NEW k \in 1..Len(s)
      PROVE  PlaceOf(s[k], s) = k
  <2>1. s[k] \notin {Null, Dangling}
    BY ListAssumption DEF Distinct
  <2>2. PlaceOf(s[k], s) = CHOOSE i \in 1..Len(s) : s[i] = s[k]
    BY <2>1 DEF PlaceOf
  <2>3. \A i \in 1..Len(s) : s[i] = s[k] => i = k
    BY DEF Distinct
  <2> QED
    BY <2>2, <2>3
<1> QED
  BY <1>1, <1>2

\* The contents along a list are things, one for each node.
LEMMA ContentsIs ==
  ASSUME NEW l, NEW s, Chained(l, s)
  PROVE  /\ Contents(l, s) \in Seq(Things) /\ Len(Contents(l, s)) = Len(s)
         /\ \A i \in 1..Len(s) : Contents(l, s)[i] = l.heap[s[i]].content
         /\ Distinct(s) /\ Points(l.cursor, s)
<1>1. /\ Len(s) \in Nat /\ Distinct(s) /\ Points(l.cursor, s)
      /\ \A i \in 1..Len(s) : l.heap[s[i]].content \in Things
  BY DEF Chained, Distinct, Points
<1> QED
  BY <1>1 DEF Contents

\* A place after the k-th element has gone, and after one has come first
PlaceWithout(p, k) == IF p = k THEN -1 ELSE IF p > k THEN p - 1 ELSE p
PlaceBehind(p) == IF p > 0 THEN p + 1 ELSE p

\* A sequence without its k-th node has no node twice either.
LEMMA DropAtDistinct ==
  ASSUME NEW s, Distinct(s), NEW k \in 1..Len(s)
  PROVE  /\ Distinct(DropAt(s, k)) /\ Len(DropAt(s, k)) = Len(s) - 1
         /\ \A i \in 1..Len(s) - 1 : DropAt(s, k)[i] = IF i < k THEN s[i] ELSE s[i + 1]
<1> DEFINE N == Len(s)
           t == DropAt(s, k)
<1>1. s \in Seq(Nodes)
  BY DEF Distinct
<1>2. /\ t \in Seq(Nodes) /\ Len(t) = N - 1 /\ N \in Nat /\ k \in 1..N
      /\ \A i \in 1..N - 1 : t[i] = IF i < k THEN s[i] ELSE s[i + 1]
  BY <1>1, DropAtIs
<1>3. \A i, j \in 1..N : s[i] = s[j] => i = j
  BY DEF Distinct
<1> HIDE DEF t, N
<1>4. ASSUME NEW i \in 1..N - 1, NEW j \in 1..N - 1, t[i] = t[j]
      PROVE  i = j
  <2>1. PICK x \in 1..N : t[i] = s[x] /\ x = IF i < k THEN i ELSE i + 1
    BY <1>2
  <2>2. PICK y \in 1..N : t[j] = s[y] /\ y = IF j < k THEN j ELSE j + 1
    BY <1>2
  <2>3. x = y
    BY <1>3, <1>4, <2>1, <2>2
  <2> QED
    BY <1>2, <2>1, <2>2, <2>3
<1> QED
  BY <1>2, <1>4 DEF Distinct, t, N

\* A place moves up when a node before it goes, and is lost with its own.
LEMMA PlaceDropped ==
  ASSUME NEW s, Distinct(s), NEW k \in 1..Len(s), NEW c, Points(c, s)
  PROVE  PlaceOf(IF c = s[k] THEN Dangling ELSE c, DropAt(s, k))
           = PlaceWithout(PlaceOf(c, s), k)
<1> DEFINE N == Len(s)
           t == DropAt(s, k)
<1>1. /\ Distinct(t) /\ Len(t) = N - 1 /\ N \in Nat /\ k \in 1..N
      /\ \A i \in 1..N - 1 : t[i] = IF i < k THEN s[i] ELSE s[i + 1]
  BY DropAtDistinct DEF Distinct
<1>2. /\ PlaceOf(Dangling, t) = -1 /\ PlaceOf(Null, t) = 0
      /\ \A i \in 1..N - 1 : PlaceOf(t[i], t) = i
  BY <1>1, PlaceIs
<1>3. /\ PlaceOf(Dangling, s) = -1 /\ PlaceOf(Null, s) = 0
      /\ \A i \in 1..N : PlaceOf(s[i], s) = i
  BY PlaceIs
<1>4. \A i \in 1..N : s[i] \notin {Null, Dangling} /\ (s[i] = s[k] => i = k)
  BY ListAssumption DEF Distinct
<1>5. c \in {Null, Dangling} \/ \E i \in 1..N : c = s[i]
  BY DEF Points
<1> HIDE DEF t, N
<1>6. ASSUME c \in {Null, Dangling}
      PROVE  PlaceOf(IF c = s[k] THEN Dangling ELSE c, t) = PlaceWithout(PlaceOf(c, s), k)
  <2>1. c # s[k]
    BY <1>1, <1>4, <1>6
  <2>2. CASE c = Null
    <3>1. PlaceOf(c, t) = 0 /\ PlaceOf(c, s) = 0
      BY <1>2, <1>3, <2>2
    <3> QED
      BY <1>1, <2>1, <3>1 DEF PlaceWithout
  <2>3. CASE c = Dangling
    <3>1. PlaceOf(c, t) = -1 /\ PlaceOf(c, s) = -1
      BY <1>2, <1>3, <2>3
    <3> QED
      BY <1>1, <2>1, <3>1 DEF PlaceWithout
  <2> QED
    BY <1>6, <2>2, <2>3
<1>7. ASSUME NEW i \in 1..N, c = s[i]
      PROVE  PlaceOf(IF c = s[k] THEN Dangling ELSE c, t) = PlaceWithout(i, k)
  <2>1. CASE i = k
    BY <1>2, <1>7, <2>1 DEF PlaceWithout
  <2>2. CASE i < k
    <3>1. i \in 1..N - 1 /\ t[i] = s[i] /\ c # s[k]
      BY <1>1, <1>4, <1>7, <2>2
    <3>2. PlaceOf(c, t) = i
      BY <1>2, <1>7, <3>1
    <3> QED
      BY <1>1, <2>2, <3>1, <3>2 DEF PlaceWithout
  <2>3. CASE i > k
    <3>1. i - 1 \in 1..N - 1 /\ ~(i - 1 < k) /\ (i - 1) + 1 = i /\ i # k
      BY <1>1, <1>7, <2>3
    <3>2. t[i - 1] = s[i] /\ c # s[k]
      BY <1>1, <1>4, <1>7, <3>1
    <3>3. PlaceOf(c, t) = i - 1
      BY <1>2, <1>7, <3>1, <3>2
    <3> QED
      BY <1>1, <2>3, <3>1, <3>2, <3>3 DEF PlaceWithout
  <2> QED
    BY <1>1, <2>1, <2>2, <2>3
<1>8. PlaceOf(IF c = s[k] THEN Dangling ELSE c, t) = PlaceWithout(PlaceOf(c, s), k)
  BY <1>3, <1>5, <1>6, <1>7
<1> QED
  BY <1>8 DEF t

\* The cursor then points at one of the other nodes, or dangles.
LEMMA PointsDropped ==
  ASSUME NEW s, Distinct(s), NEW k \in 1..Len(s), NEW c, Points(c, s)
  PROVE  Points(IF c = s[k] THEN Dangling ELSE c, DropAt(s, k))
<1> DEFINE N == Len(s)
           t == DropAt(s, k)
           d == IF c = s[k] THEN Dangling ELSE c
<1>1. /\ Len(t) = N - 1 /\ N \in Nat /\ k \in 1..N
      /\ \A i \in 1..N - 1 : t[i] = IF i < k THEN s[i] ELSE s[i + 1]
  BY DropAtDistinct DEF Distinct
<1>2. c \in {Null, Dangling} \/ \E i \in 1..N : c = s[i]
  BY DEF Points
<1> HIDE DEF t, N
<1>3. ASSUME NEW i \in 1..N, c = s[i], c # s[k]
      PROVE  \E j \in 1..N - 1 : c = t[j]
  <2>1. CASE i < k
    <3>1. i \in 1..N - 1
      BY <1>1, <2>1
    <3> QED
      BY <1>1, <1>3, <2>1, <3>1
  <2>2. CASE ~(i < k)
    <3>1. i # k
      BY <1>3
    <3>2. i - 1 \in 1..N - 1 /\ ~(i - 1 < k) /\ (i - 1) + 1 = i
      BY <1>1, <2>2, <3>1
    <3> QED
      BY <1>1, <1>3, <3>2
  <2> QED
    BY <2>1, <2>2
<1>4. d \in {Null, Dangling} \/ \E j \in 1..N - 1 : d = t[j]
  BY <1>2, <1>3
<1> HIDE DEF d
<1>5. Points(d, t)
  BY <1>1, <1>4 DEF Points
<1> QED
  BY <1>5 DEF d, t

\* A place moves down when a node comes first, and stays otherwise.
LEMMA PlacePushed ==
  ASSUME NEW s, Distinct(s), NEW n \in Nodes, NEW end, Distinct(Joined(s, n, end)),
         NEW c, Points(c, s)
  PROVE  PlaceOf(c, Joined(s, n, end))
           = IF end = "front" THEN PlaceBehind(PlaceOf(c, s)) ELSE PlaceOf(c, s)
<1> DEFINE N == Len(s)
           t == Joined(s, n, end)
<1>1. N \in Nat /\ s \in Seq(Nodes)
  BY DEF Distinct
<1>2. /\ PlaceOf(Dangling, t) = -1 /\ PlaceOf(Null, t) = 0
      /\ \A i \in 1..Len(t) : PlaceOf(t[i], t) = i
  BY PlaceIs
<1>3. /\ PlaceOf(Dangling, s) = -1 /\ PlaceOf(Null, s) = 0
      /\ \A i \in 1..N : PlaceOf(s[i], s) = i
  BY PlaceIs
<1>4. c \in {Null, Dangling} \/ \E i \in 1..N : c = s[i]
  BY DEF Points
<1>5. end = "front" => /\ Len(t) = N + 1
                       /\ \A i \in 1..N + 1 : t[i] = IF i = 1 THEN n ELSE s[i - 1]
  BY <1>1, PrependedIs DEF Joined
<1>6. end # "front" => Len(t) = N + 1 /\ \A i \in 1..N : t[i] = s[i]
  BY <1>1 DEF Joined
<1> HIDE DEF t, N
<1>7. ASSUME c \in {Null, Dangling}
      PROVE  PlaceOf(c, t) = IF end = "front" THEN PlaceBehind(PlaceOf(c, s))
                             ELSE PlaceOf(c, s)
  <2>1. CASE c = Null
    <3>1. PlaceOf(c, t) = 0 /\ PlaceOf(c, s) = 0
      BY <1>2, <1>3, <2>1
    <3> QED
      BY <3>1 DEF PlaceBehind
  <2>2. CASE c = Dangling
    <3>1. PlaceOf(c, t) = -1 /\ PlaceOf(c, s) = -1
      BY <1>2, <1>3, <2>2
    <3> QED
      BY <3>1 DEF PlaceBehind
  <2> QED
    BY <1>7, <2>1, <2>2
<1>8. ASSUME NEW i \in 1..N, c = s[i]
      PROVE  PlaceOf(c, t) = IF end = "front" THEN PlaceBehind(i) ELSE i
  <2>1. CASE end = "front"
    <3>1. i + 1 \in 1..N + 1 /\ i + 1 # 1 /\ (i + 1) - 1 = i /\ i > 0
      BY <1>1
    <3>2. t[i + 1] = s[i]
      BY <1>5, <2>1, <3>1
    <3>3. PlaceOf(t[i + 1], t) = i + 1
      BY <1>2, <1>5, <2>1, <3>1
    <3> QED
      BY <1>8, <2>1, <3>1, <3>2, <3>3 DEF PlaceBehind
  <2>2. CASE end # "front"
    <3>1. i \in 1..N + 1
      BY <1>1
    <3> QED
      BY <1>2, <1>6, <1>8, <2>2, <3>1
  <2> QED
    BY <2>1, <2>2
<1>9. PlaceOf(c, t) = IF end = "front" THEN PlaceBehind(PlaceOf(c, s)) ELSE PlaceOf(c, s)
  BY <1>3, <1>4, <1>7, <1>8
<1> QED
  BY <1>9 DEF t

\* The contents without the k-th, along the nodes without the k-th
LEMMA ContentsDropped ==
  ASSUME NEW l, NEW r, NEW s, Chained(l, s), NEW k \in 1..Len(s),
         KeepsBut(l, r, {s[k]})
  PROVE  Contents(r, DropAt(s, k)) = DropAt(Contents(l, s), k)
<1> DEFINE N == Len(s)
           t == DropAt(s, k)
           c == Contents(l, s)
<1>1. /\ Distinct(s) /\ Len(c) = N
      /\ \A i \in 1..N : c[i] = l.heap[s[i]].content
  BY ContentsIs
<1>2. /\ Len(t) = N - 1 /\ N \in Nat /\ k \in 1..N
      /\ \A i \in 1..N - 1 : t[i] = IF i < k THEN s[i] ELSE s[i + 1]
  BY <1>1, DropAtDistinct DEF Distinct
<1>3. \A i \in 1..N : i # k => r.heap[s[i]].content = l.heap[s[i]].content
  BY DEF Chained, KeepsBut
<1>4. Contents(r, t) = [i \in 1..Len(t) |-> r.heap[t[i]].content]
  BY DEF Contents
<1>5. DropAt(c, k) = [i \in 1..Len(c) - 1 |-> IF i < k THEN c[i] ELSE c[i + 1]]
  BY DEF DropAt
<1> HIDE DEF t, c, N
<1>6. ASSUME NEW i \in 1..N - 1
      PROVE  r.heap[t[i]].content = IF i < k THEN c[i] ELSE c[i + 1]
  <2>1. i \in 1..N /\ i + 1 \in 1..N
    BY <1>2
  <2>2. i < k => i # k
    BY <1>2
  <2>3. ~(i < k) => i + 1 # k
    BY <1>2
  <2> QED
    BY <1>1, <1>2, <1>3, <2>1, <2>2, <2>3
<1>7. Contents(r, t) = DropAt(c, k)
  BY <1>1, <1>2, <1>4, <1>5, <1>6
<1> QED
  BY <1>7 DEF t, c

\* Contents that are not written stay.
LEMMA ContentsKept ==
  ASSUME NEW l, NEW r, NEW s, Chained(l, s), KeepsBut(l, r, {})
  PROVE  Contents(r, s) = Contents(l, s)
<1>1. \A i \in 1..Len(s) : r.heap[s[i]].content = l.heap[s[i]].content
  BY DEF Chained, KeepsBut
<1> QED
  BY <1>1 DEF Contents

\* The contents with the one that joins, along the nodes with its node
LEMMA ContentsJoined ==
  ASSUME NEW r, NEW s \in Seq(Nodes), NEW n \in Nodes, NEW end
  PROVE  Contents(r, Joined(s, n, end))
           = Joined(Contents(r, s), r.heap[n].content, end)
<1> DEFINE N == Len(s)
           t == Joined(s, n, end)
           c == Contents(r, s)
           e == r.heap[n].content
<1>1. N \in Nat /\ c = [i \in 1..N |-> r.heap[s[i]].content]
      /\ Contents(r, t) = [i \in 1..Len(t) |-> r.heap[t[i]].content]
  BY DEF Contents
<1>2. Len(c) = N /\ \A i \in 1..N : c[i] = r.heap[s[i]].content
  BY <1>1
<1>3. CASE end = "front"
  <2>1. /\ Len(t) = N + 1
        /\ \A i \in 1..N + 1 : t[i] = IF i = 1 THEN n ELSE s[i - 1]
    BY <1>3, PrependedIs DEF Joined
  <2>2. Joined(c, e, end) = [i \in 1..N + 1 |-> IF i = 1 THEN e ELSE c[i - 1]]
    BY <1>2, <1>3 DEF Joined, Prepended
  <2> HIDE DEF t, c, N
  <2>3. ASSUME NEW i \in 1..N + 1
        PROVE  r.heap[t[i]].content = IF i = 1 THEN e ELSE c[i - 1]
    <3>1. i # 1 => i - 1 \in 1..N
      BY <1>1
    <3> QED
      BY <1>2, <2>1, <3>1
  <2> HIDE DEF e
  <2>4. Contents(r, t) = Joined(c, e, end)
    BY <1>1, <2>1, <2>2, <2>3
  <2> QED
    BY <2>4 DEF t, c, e
<1>4. CASE end # "front"
  <2>1. Len(t) = N + 1 /\ t[N + 1] = n /\ \A i \in 1..N : t[i] = s[i]
    BY <1>4 DEF Joined
  <2>2. Joined(c, e, end) = [i \in 1..N + 1 |-> IF i = N + 1 THEN e ELSE c[i]]
    BY <1>1, <1>2, <1>4 DEF Joined
  <2> HIDE DEF t, c, N
  <2>3. ASSUME NEW i \in 1..N + 1
        PROVE  r.heap[t[i]].content = IF i = N + 1 THEN e ELSE c[i]
    <3>1. i # N + 1 => i \in 1..N
      BY <1>1
    <3> QED
      BY <1>2, <2>1, <3>1
  <2> HIDE DEF e
  <2>4. Contents(r, t) = Joined(c, e, end)
    BY <1>1, <2>1, <2>2, <2>3
  <2> QED
    BY <2>4 DEF t, c, e
<1> QED
  BY <1>3, <1>4

\* the same operations on sequences as CursorList writes them
LEMMA ConcatIs ==
  ASSUME NEW a \in Seq(Things), NEW b \in Seq(Things)
  PROVE  /\ a \o b \in Seq(Things) /\ Len(a \o b) = Len(a) + Len(b)
         /\ \A i \in 1..Len(a) + Len(b) :
              (a \o b)[i] = IF i <= Len(a) THEN a[i] ELSE b[i - Len(a)]
<1>1. a \o b \in Seq(Things)
  OBVIOUS
<1>2. Len(a \o b) = Len(a) + Len(b)
  OBVIOUS
<1>3. Len(a) \in Nat /\ Len(b) \in Nat
  OBVIOUS
<1>4. ASSUME NEW i \in 1..Len(a) + Len(b)
      PROVE  (a \o b)[i] = IF i <= Len(a) THEN a[i] ELSE b[i - Len(a)]
  <2>1. CASE i <= Len(a)
    BY <1>3, <2>1
  <2>2. CASE ~(i <= Len(a))
    BY <1>3, <2>2
  <2> QED
    BY <2>1, <2>2
<1> QED
  BY <1>1, <1>2, <1>4

LEMMA OthersIs ==
  ASSUME NEW q \in Seq(Things), NEW k \in 1..Len(q)
  PROVE  SubSeq(q, 1, k - 1) \o SubSeq(q, k + 1, Len(q)) = DropAt(q, k)
<1> DEFINE N == Len(q)
           a == SubSeq(q, 1, k - 1)
           b == SubSeq(q, k + 1, N)
           ab == a \o b
<1>1. N \in Nat /\ k \in 1..N
  OBVIOUS
<1>2. /\ a \in Seq(Things) /\ Len(a) = k - 1
      /\ \A i \in 1..k - 1 : a[i] = q[i]
  BY <1>1
<1>3. /\ b \in Seq(Things) /\ Len(b) = N - k
      /\ \A i \in 1..N - k : b[i] = q[k + i]
  BY <1>1
<1> HIDE DEF a, b
<1>4. /\ ab \in Seq(Things) /\ Len(ab) = Len(a) + Len(b)
      /\ \A i \in 1..Len(a) + Len(b) : ab[i] = IF i <= Len(a) THEN a[i] ELSE b[i - Len(a)]
  BY <1>2, <1>3, ConcatIs
<1> HIDE DEF ab
<1>5. Len(ab) = N - 1
  BY <1>1, <1>2, <1>3, <1>4
<1>6. /\ Len(ab) = N - 1
      /\ ab = [i \in 1..N - 1 |-> ab[i]]
      /\ \A i \in 1..N - 1 : ab[i] = IF i <= k - 1 THEN a[i] ELSE b[i - (k - 1)]
  BY <1>2, <1>4, <1>5
<1>7. ASSUME NEW i \in 1..N - 1
      PROVE  ab[i] = IF i < k THEN q[i] ELSE q[i + 1]
  <2>1. CASE i < k
    <3>1. i \in 1..k - 1 /\ i <= k - 1
      BY <1>1, <2>1
    <3> QED
      BY <1>2, <1>6, <2>1, <3>1
  <2>2. CASE ~(i < k)
    <3>1. ~(i <= k - 1) /\ i - (k - 1) \in 1..N - k /\ k + (i - (k - 1)) = i + 1
      BY <1>1, <2>2
    <3> QED
      BY <1>3, <1>6, <2>2, <3>1
  <2> QED
    BY <2>1, <2>2
<1>8. ab = DropAt(q, k)
  BY <1>6, <1>7 DEF DropAt
<1> QED
  BY <1>8 DEF ab, a, b

\* The tail is the sequence without its first element.
LEMMA TailIs ==
  ASSUME NEW q \in Seq(Things), Len(q) # 0
  PROVE  Tail(q) = DropAt(q, 1)
<1>1. \A i \in 1..Len(q) - 1 : ~(i < 1)
  OBVIOUS
<1> DEFINE u == Tail(q)
<1>2. /\ u \in Seq(Things) /\ Len(u) = Len(q) - 1
      /\ \A i \in 1..Len(q) - 1 : u[i] = q[i + 1]
  OBVIOUS
<1> HIDE DEF u
<1>3. u = [i \in 1..Len(q) - 1 |-> u[i]]
  BY <1>2
<1>4. u = DropAt(q, 1)
  BY <1>1, <1>2, <1>3 DEF DropAt
<1> QED
  BY <1>4 DEF u

\* An element and a sequence behind it
LEMMA BehindIs ==
  ASSUME NEW q \in Seq(Things), NEW e \in Things
  PROVE  <<e>> \o q = Joined(q, e, "front")
<1> DEFINE p == <<e>> \o q
<1>1. /\ Len(p) = Len(q) + 1 /\ p = [i \in 1..Len(q) + 1 |-> p[i]]
      /\ \A i \in 1..Len(q) + 1 : p[i] = IF i = 1 THEN e ELSE q[i - 1]
  OBVIOUS
<1> HIDE DEF p
<1>2. p = Joined(q, e, "front")
  BY <1>1 DEF Joined, Prepended
<1> QED
  BY <1>2 DEF p

\* What a list stands for, along whichever sequence it is one
Items == [i \in 1..list.size |-> list.heap[nth[i]].content]

Mapped ==
  \A s : Chained(list, s) => /\ Items = Contents(list, s)
                             /\ Position = PlaceOf(list.cursor, s)

\* Along the sequence of a list, nth and Position are what they should be.
LEMMA InvMapped == ListInv => Mapped
<1> SUFFICES ASSUME ListInv, NEW s, Chained(list, s)
             PROVE  Items = Contents(list, s) /\ Position = PlaceOf(list.cursor, s)
  BY DEF Mapped
<1>1. nth = [i \in Pos |-> At(s, i)]
  BY NthIs DEF ListInv, ListOK
<1>2. Len(s) \in Nat /\ list.size = Len(s)
  BY DEF Chained
<1>3. \A i \in 1..Len(s) : nth[i] = s[i]
  BY <1>1, <1>2 DEF Pos, At
<1>4. Items = Contents(list, s)
  BY <1>2, <1>3 DEF Items, Contents
<1>5. Position = PlaceOf(list.cursor, s)
  <2>1. \A i \in 1..Len(s) : nth[i] = list.cursor <=> s[i] = list.cursor
    BY <1>3
  <2>2. (CHOOSE i \in 1..Len(s) : nth[i] = list.cursor)
          = CHOOSE i \in 1..Len(s) : s[i] = list.cursor
    BY <2>1
  <2>3. CASE list.cursor = Dangling
    BY <2>3 DEF Position, PlaceOf
  <2>4. CASE list.cursor = Null
    BY <2>4 DEF Position, PlaceOf, Null, Dangling
  <2>5. CASE list.cursor \notin {Null, Dangling}
    <3>1. /\ Position = CHOOSE i \in 1..list.size : nth[i] = list.cursor
          /\ PlaceOf(list.cursor, s) = CHOOSE i \in 1..Len(s) : s[i] = list.cursor
      BY <2>5 DEF Position, PlaceOf
    <3> QED
      BY <1>2, <2>2, <3>1
  <2> QED
    BY <2>3, <2>4, <2>5
<1> QED
  BY <1>4, <1>5

-----------------------------------------------------------------------------
(* The refinement                                                          *)

\* The view of a list along a sequence: for a leaf, two values with these facts
\* replace the refinement mapping.
Sees(q, p) == Items = q /\ Position = p

\* What the mapping shows of a list along s
LEMMA Seen ==
  ASSUME ListOK(list), NEW s, Chained(list, s), Mapped
  PROVE  /\ Sees(Contents(list, s), PlaceOf(list.cursor, s))
         /\ Contents(list, s) \in Seq(Things) /\ Len(Contents(list, s)) = Len(s)
         /\ \A i \in 1..Len(s) : Contents(list, s)[i] = list.heap[s[i]].content
         /\ PlaceOf(Null, s) = 0 /\ PlaceOf(Dangling, s) = -1
         /\ \A k \in 1..Len(s) : PlaceOf(s[k], s) = k
         /\ Len(s) \in Nat /\ Len(s) = list.size
<1>1. Sees(Contents(list, s), PlaceOf(list.cursor, s))
  BY DEF Mapped, Sees
<1>2. Distinct(s)
  BY ContentsIs
<1>3. Len(s) \in Nat /\ Len(s) = list.size
  BY DEF Chained
<1> QED
  BY <1>1, <1>2, <1>3, ContentsIs, PlaceIs

\* What does not change the list does not change what it stands for.
LEMMA SameRefines ==
  ASSUME ListOK(list), NEW s, Chained(list, s), Mapped, Mapped', UNCHANGED list
  PROVE  Items' = Items /\ Position' = Position
<1>1. Chained(list', s)
  OBVIOUS
<1>2. Items = Contents(list, s) /\ Position = PlaceOf(list.cursor, s)
  BY DEF Mapped
<1>3. Items' = Contents(list', s) /\ Position' = PlaceOf(list'.cursor, s)
  BY <1>1 DEF Mapped
<1> QED
  BY <1>2, <1>3

\* A call that does nothing says why, as in CursorList.
LEMMA NothingRefines ==
  ASSUME ListOK(list), NEW s, Chained(list, s), Mapped, Mapped', NEW why, Nothing(why)
  PROVE  Abstract!Nothing(why)
<1>1. UNCHANGED list /\ answer' = Says(why, {})
  BY DEF Nothing
<1>2. Items' = Items /\ Position' = Position
  BY <1>1, SameRefines
<1>3. answer' = Abstract!Says(why, {}) /\ list'.deletes = list.deletes
  BY <1>1 DEF Says, Abstract!Says
<1> QED
  BY <1>2, <1>3 DEF Abstract!Nothing, Items

\* front(), back(), next() and prev() go to the node at index i, or to none.
LEMMA LookRefines ==
  ASSUME ListOK(list), NEW s, Chained(list, s), Mapped, Mapped',
         NEW i \in 0..Len(s), Look(At(s, i))
  PROVE  Abstract!Look(i)
<1> DEFINE n == At(s, i)
           q == Contents(list, s)
<1>1. n \in Members(s) \cup {Null}
  BY DEF At, Members
<1>2. /\ list' = [list EXCEPT !.cursor = n]
      /\ answer' = Says(IF n = Null THEN "null" ELSE list.heap[n].content, {})
  BY DEF Look
<1> HIDE DEF n
<1>3. /\ ListOK(list') /\ Chained(list', s) /\ list'.cursor = n
      /\ list'.heap = list.heap /\ list'.deletes = list.deletes
  BY <1>1, <1>2, LookedAt
<1>4. Contents(list', s) = q
  BY <1>3 DEF Contents
<1>5. /\ Items = q /\ Items' = q /\ Position' = PlaceOf(n, s)
      /\ \A k \in 1..Len(s) : q[k] = list.heap[s[k]].content
      /\ PlaceOf(Null, s) = 0 /\ \A k \in 1..Len(s) : PlaceOf(s[k], s) = k
      /\ Len(s) \in Nat
  BY <1>3, <1>4, Seen DEF Mapped, Sees
<1>6. /\ i = 0 => n = Null
      /\ i # 0 => i \in 1..Len(s) /\ n = s[i] /\ n # Null
  BY <1>5, ListAssumption DEF n, At, Chained
<1> HIDE DEF q
<1>7. Position' = i
  BY <1>5, <1>6
<1>8. answer' = Abstract!Says(IF i = 0 THEN "null" ELSE q[i], {})
  BY <1>2, <1>5, <1>6 DEF Says, Abstract!Says
<1> QED
  BY <1>3, <1>5, <1>7, <1>8 DEF Abstract!Look, Abstract!NoPosition, Items

\* front() and back() go to the first index and to the last.
LEMMA EndsRefine ==
  ASSUME ListOK(list), NEW s, Chained(list, s), Mapped, Mapped'
  PROVE  /\ Front => Abstract!Front
         /\ Back => Abstract!Back
<1>1. /\ Items \in Seq(Things) /\ Len(Items) = Len(s) /\ Len(s) \in Nat
      /\ list.front = At(s, 1) /\ list.back = At(s, Len(s))
  BY Seen DEF Sees, Chained
<1>2. ASSUME Back
      PROVE  Abstract!Back
  <2>1. Look(At(s, Len(s)))
    BY <1>1, <1>2 DEF Back
  <2>2. Abstract!Look(Len(s))
    BY <1>1, <2>1, LookRefines
  <2> QED
    BY <1>1, <2>2 DEF Abstract!Back, Items
<1>3. ASSUME Front
      PROVE  Abstract!Front
  <2>1. CASE Items = <<>>
    <3>1. Look(At(s, 0))
      BY <1>1, <1>3, <2>1 DEF Front, At
    <3>2. Abstract!Look(0)
      BY <1>1, <3>1, LookRefines
    <3> QED
      BY <2>1, <3>2 DEF Abstract!Front, Abstract!NoPosition, Items
  <2>2. CASE Items # <<>>
    <3>1. 1 \in 0..Len(s)
      BY <1>1, <2>2
    <3>2. Abstract!Look(1)
      BY <1>1, <1>3, <3>1, LookRefines DEF Front
    <3> QED
      BY <2>2, <3>2 DEF Abstract!Front, Items
  <2> QED
    BY <2>1, <2>2
<1> QED
  BY <1>2, <1>3

\* next() and prev() go one index on, or stay.
LEMMA MoveRefines ==
  ASSUME ListOK(list), NEW s, Chained(list, s), Mapped, Mapped',
         NEW by \in {1, -1}, list.cursor # Dangling,
         FollowTo(IF list.cursor = Null THEN Null
                  ELSE IF by = 1 THEN list.heap[list.cursor].next
                  ELSE list.heap[list.cursor].prev)
  PROVE  Abstract!Move(by)
<1>1. /\ Items \in Seq(Things) /\ Len(Items) = Len(s) /\ Len(s) \in Nat
      /\ Position = PlaceOf(list.cursor, s)
      /\ PlaceOf(Null, s) = 0 /\ \A k \in 1..Len(s) : PlaceOf(s[k], s) = k
  BY Seen DEF Sees
<1>2. ASSUME Abstract!Nothing("null"), Position # -1,
             ~(Position # 0 /\ Position + by \in 1..Len(s))
      PROVE  Abstract!Move(by)
  BY <1>1, <1>2
     DEF Abstract!Move, Abstract!Nothing, Abstract!Lost, Abstract!NoPosition, Items
<1>3. CASE list.cursor = Null
  <2>1. Position = 0
    BY <1>1, <1>3
  <2>2. Abstract!Nothing("null")
    BY <1>3, NothingRefines DEF FollowTo
  <2> QED
    BY <1>2, <2>1, <2>2
<1>4. CASE list.cursor # Null
  <2>1. PICK k \in 1..Len(s) : list.cursor = s[k]
    BY <1>4 DEF Chained
  <2>2. Position = k /\ k \in Nat /\ k # 0
    BY <1>1, <2>1
  <2>3. FollowTo(At(s, k + by))
    <3>1. /\ list.heap[list.cursor].next = At(s, k + 1)
          /\ list.heap[list.cursor].prev = At(s, k - 1)
      BY <2>1 DEF Chained
    <3>2. CASE by = 1
      BY <1>4, <3>1, <3>2
    <3>3. CASE by = -1
      <4>1. k + by = k - 1
        BY <2>2, <3>3
      <4> QED
        BY <1>4, <3>1, <3>3, <4>1
    <3> QED
      BY <3>2, <3>3
  <2>4. CASE k + by \in 1..Len(s)
    <3>1. At(s, k + by) # Null
      BY <2>4, ListAssumption DEF At, Chained
    <3>2. k + by \in 0..Len(s)
      BY <1>1, <2>4
    <3>3. Abstract!Look(k + by)
      BY <2>3, <3>1, <3>2, LookRefines DEF FollowTo
    <3>4. Abstract!Look(Position + by) /\ Position + by \in 1..Len(Items)
      BY <1>1, <2>2, <2>4, <3>3
    <3>5. Position # -1 /\ Position # 0
      BY <2>2
    <3> QED
      BY <3>4, <3>5 DEF Abstract!Move, Abstract!Lost, Abstract!NoPosition, Items
  <2>5. CASE k + by \notin 1..Len(s)
    <3>1. Abstract!Nothing("null")
      BY <2>3, <2>5, NothingRefines DEF FollowTo, At
    <3> QED
      BY <1>2, <2>2, <2>5, <3>1
  <2> QED
    BY <2>4, <2>5
<1> QED
  BY <1>3, <1>4

\* A node that is dropped is an element that goes.
LEMMA DropRefines ==
  ASSUME ListOK(list), NEW s, Chained(list, s), Mapped, Mapped',
         NEW k \in 1..Len(s), Drops(list, s[k], list'),
         answer' = Says("ok", Deleted(list, {s[k]}))
  PROVE  Abstract!Drop(k)
<1> DEFINE t == DropAt(s, k)
           q == Contents(list, s)
           p == PlaceOf(list.cursor, s)
<1>1. /\ Sees(q, p) /\ q \in Seq(Things) /\ Len(q) = Len(s)
      /\ q[k] = list.heap[s[k]].content
  BY Seen
<1>2. Chained(list', t) /\ KeepsBut(list, list', {s[k]})
  BY Dropped
<1>3. Items' = Contents(list', t) /\ Position' = PlaceOf(list'.cursor, t)
  BY <1>2 DEF Mapped
<1>4. Distinct(s) /\ Points(list.cursor, s)
  BY ContentsIs
<1>5. list'.cursor = IF list.cursor = s[k] THEN Dangling ELSE list.cursor
  BY DEF Drops
<1>6. PlaceOf(list'.cursor, t) = PlaceWithout(p, k)
  BY <1>4, <1>5, PlaceDropped
<1>7. Contents(list', t) = DropAt(q, k)
  BY <1>2, ContentsDropped
<1> HIDE DEF t, q, p
<1>8. Items' = SubSeq(q, 1, k - 1) \o SubSeq(q, k + 1, Len(q))
  BY <1>1, <1>3, <1>7, OthersIs
<1>9. Items' = Abstract!Others(k)
  BY <1>1, <1>8 DEF Sees, Abstract!Others, Items
<1>10. Position' = Abstract!Without(k)
  BY <1>1, <1>3, <1>6 DEF Sees, PlaceWithout, Abstract!Without, Abstract!Lost
<1>11. Deleted(list, {s[k]}) = Abstract!Deleted(k)
  BY <1>1 DEF Sees, Deleted, Abstract!Deleted, Items
<1>12. answer' = Abstract!Says("ok", Abstract!Deleted(k))
  BY <1>11 DEF Says, Abstract!Says
<1>13. list'.deletes = list.deletes
  BY <1>2 DEF KeepsBut
<1> QED
  BY <1>9, <1>10, <1>12, <1>13 DEF Abstract!Drop, Items

\* remove() drops the element at the position.
LEMMA RemoveRefines ==
  ASSUME ListOK(list), NEW s, Chained(list, s), Mapped, Mapped', Remove
  PROVE  Abstract!Remove
<1>1. /\ Position = PlaceOf(list.cursor, s) /\ PlaceOf(Null, s) = 0
      /\ \A k \in 1..Len(s) : PlaceOf(s[k], s) = k
  BY Seen DEF Sees
<1>2. CASE list.cursor = Null /\ Nothing("ok")
  <2>1. Abstract!Nothing("ok")
    BY <1>2, NothingRefines
  <2> QED
    BY <1>1, <1>2, <2>1 DEF Abstract!Remove, Abstract!NoPosition
<1>3. CASE /\ list.cursor \notin {Null, Dangling}
           /\ answer' = Says("ok", Deleted(list, {list.cursor}))
           /\ list' = IF list.cursor = list.front THEN PoppedFront(list)
                      ELSE IF list.cursor = list.back THEN PoppedBack(list)
                      ELSE Unlinked(list, list.cursor)
  <2>1. PICK k \in 1..Len(s) : list.cursor = s[k]
    BY <1>3 DEF Chained
  <2>2. Drops(list, s[k], list')
    BY <1>3, <2>1, RemovedDrops
  <2>3. Abstract!Drop(k)
    BY <1>3, <2>1, <2>2, DropRefines
  <2>4. Position = k /\ k > 0
    BY <1>1, <2>1
  <2>5. Abstract!Drop(Position)
    BY <2>3, <2>4
       DEF Abstract!Drop, Abstract!Others, Abstract!Without, Abstract!Deleted
  <2> QED
    BY <2>4, <2>5 DEF Abstract!Remove, Abstract!NoPosition
<1> QED
  BY <1>2, <1>3 DEF Remove

\* The pops drop the first element and the last, if there is one.
LEMMA PopsRefine ==
  ASSUME ListOK(list), NEW s, Chained(list, s), Mapped, Mapped'
  PROVE  /\ PopFront => Abstract!Pop(1)
         /\ PopBack => Abstract!Pop(Len(Items))
<1>1. /\ Items \in Seq(Things) /\ Len(Items) = Len(s) /\ Len(s) \in Nat
      /\ list.front = At(s, 1) /\ list.back = At(s, Len(s)) /\ list \in Lists
  BY Seen DEF Sees, Chained, ListOK
<1>2. CASE Len(s) = 0
  <2>1. list.front = Null /\ list.back = Null /\ Items = <<>>
    BY <1>1, <1>2 DEF At
  <2>2. PopFront \/ PopBack => Nothing("empty")
    BY <2>1 DEF PopFront, PopBack
  <2>3. PopFront \/ PopBack => Abstract!Nothing("empty")
    BY <2>2, NothingRefines
  <2> QED
    BY <2>1, <2>3 DEF Abstract!Pop, Items
<1>3. CASE Len(s) # 0
  <2>1. /\ 1 \in 1..Len(s) /\ Len(s) \in 1..Len(s) /\ Len(s) > 0 /\ Items # <<>>
    BY <1>1, <1>3
  <2>2. /\ list.front = s[1] /\ list.front # Null
        /\ list.back = s[Len(s)] /\ list.back # Null
    BY <1>1, <2>1, ListAssumption DEF At, Chained
  <2>3. /\ Drops(list, s[1], PoppedFront(list))
        /\ Drops(list, s[Len(s)], PoppedBack(list))
    BY <1>1, <2>1, PoppedFrontDrops, PoppedBackDrops
  <2>4. PopFront => Abstract!Drop(1)
    BY <2>1, <2>2, <2>3, DropRefines DEF PopFront
  <2>5. PopBack => Abstract!Drop(Len(s))
    BY <2>1, <2>2, <2>3, DropRefines DEF PopBack
  <2>6. PopBack => Abstract!Drop(Len(Items))
    BY <1>1, <2>5
       DEF Abstract!Drop, Abstract!Others, Abstract!Without, Abstract!Deleted
  <2> QED
    BY <2>1, <2>4, <2>6 DEF Abstract!Pop, Items
<1> QED
  BY <1>2, <1>3

\* A push that has room adds an element at its end.
LEMMA RoomRefines ==
  ASSUME ListOK(list), NEW s, Chained(list, s), Mapped, Mapped',
         NEW n \in Nodes \ DOMAIN list.heap, NEW e \in Things, NEW end,
         list.size < MAX_SIZE, list' = Linked(Allocated(list, n), n, e, end)
  PROVE  /\ Items' = Joined(Items, e, end) /\ list'.deletes = list.deletes
         /\ Position' = IF end = "front" THEN PlaceBehind(Position) ELSE Position
<1> DEFINE t == Joined(s, n, end)
<1>1. /\ Chained(list', t) /\ KeepsBut(list, list', {})
      /\ list'.heap[n].content = e /\ list'.cursor = list.cursor
  BY PushedIs
<1>2. Items = Contents(list, s) /\ Position = PlaceOf(list.cursor, s)
  BY DEF Mapped
<1>3. Items' = Contents(list', t) /\ Position' = PlaceOf(list'.cursor, t)
  BY <1>1 DEF Mapped
<1>4. Distinct(s) /\ Points(list.cursor, s) /\ Distinct(t) /\ s \in Seq(Nodes)
  BY <1>1, ContentsIs DEF Distinct
<1>5. Contents(list', t) = Joined(Contents(list', s), list'.heap[n].content, end)
  BY <1>4, ContentsJoined
<1>6. Contents(list', s) = Contents(list, s)
  BY <1>1, ContentsKept
<1>7. PlaceOf(list.cursor, t) = IF end = "front" THEN PlaceBehind(PlaceOf(list.cursor, s))
                                ELSE PlaceOf(list.cursor, s)
  BY <1>4, PlacePushed
<1> HIDE DEF t
<1> QED
  BY <1>1, <1>2, <1>3, <1>5, <1>6, <1>7 DEF KeepsBut

\* A push that overrides drops an element at an end, then adds.
LEMMA OverrideRefines ==
  ASSUME ListOK(list), NEW s, Chained(list, s), Mapped, Mapped',
         NEW n \in Nodes \ DOMAIN list.heap, NEW e \in Things, NEW end, NEW other,
         list.size = MAX_SIZE,
         list' = Linked(Popped(Allocated(list, n), other), n, e, end)
  PROVE  LET k == EndOf(s, other)
             p == PlaceWithout(Position, k)
         IN  /\ Items' = Joined(DropAt(Items, k), e, end)
             /\ list'.deletes = list.deletes
             /\ Position' = IF end = "front" THEN PlaceBehind(p) ELSE p
<1> DEFINE k == EndOf(s, other)
           u == DropAt(s, k)
           t == Joined(u, n, end)
           c == IF list.cursor = s[k] THEN Dangling ELSE list.cursor
           q == Contents(list, s)
           p == PlaceWithout(Position, k)
           r == Linked(Popped(Allocated(list, n), other), n, e, end)
<1> HIDE DEF t, k, r
<1>1. /\ k \in 1..Len(s) /\ Chained(r, t) /\ KeepsBut(list, r, {s[k]})
       /\ Holds(r, n, e) /\ Misses(list, r, s[k])
  BY OverriddenIs DEF t, k, r
<1>2. /\ k \in 1..Len(s) /\ Chained(list', t) /\ KeepsBut(list, list', {s[k]})
      /\ list'.heap[n].content = e /\ list'.cursor = c
  BY <1>1 DEF r, Holds, Misses
<1>3. Items = q /\ Position = PlaceOf(list.cursor, s)
  BY DEF Mapped
<1>4. Items' = Contents(list', t) /\ Position' = PlaceOf(list'.cursor, t)
  BY <1>2 DEF Mapped
<1>5. Distinct(s) /\ Points(list.cursor, s) /\ Distinct(t)
  BY <1>2, ContentsIs
<1>6. Distinct(u) /\ Points(c, u) /\ u \in Seq(Nodes)
  BY <1>2, <1>5, DropAtDistinct, PointsDropped DEF Distinct
<1>7. PlaceOf(c, u) = p
  BY <1>2, <1>3, <1>5, PlaceDropped
<1>8. Contents(list', u) = DropAt(q, k)
  BY <1>2, ContentsDropped
<1> HIDE DEF u, c
<1>9. Contents(list', t) = Joined(Contents(list', u), list'.heap[n].content, end)
  BY <1>6, ContentsJoined DEF t
<1>10. PlaceOf(c, t) = IF end = "front" THEN PlaceBehind(PlaceOf(c, u)) ELSE PlaceOf(c, u)
  BY <1>5, <1>6, PlacePushed DEF t
<1>11. list'.deletes = list.deletes
  BY <1>2 DEF KeepsBut
<1> HIDE DEF q, p
<1>12. Items' = Joined(DropAt(q, k), e, end)
  BY <1>2, <1>4, <1>8, <1>9
<1>13. Position' = IF end = "front" THEN PlaceBehind(p) ELSE p
  BY <1>2, <1>4, <1>7, <1>10
<1> QED
  BY <1>3, <1>11, <1>12, <1>13 DEF k, p

\* A full list that refuses has taken memory, which the sequence does not show.
LEMMA RefusedRefines ==
  ASSUME ListOK(list), NEW s, Chained(list, s), Mapped, Mapped',
         NEW n \in Nodes \ DOMAIN list.heap, list.size = MAX_SIZE,
         list' = Allocated(list, n), answer' = Says("full", {})
  PROVE  Abstract!Refuse
<1>1. /\ Chained(list', s) /\ KeepsBut(list, list', {})
      /\ list'.cursor = list.cursor
  BY AllocatedOK
<1>2. Contents(list', s) = Contents(list, s) /\ list'.deletes = list.deletes
  BY <1>1, ContentsKept DEF KeepsBut
<1>3. Items' = Items /\ Position' = Position
  BY <1>1, <1>2 DEF Mapped
<1>4. Len(Items) = MAX_SIZE
  BY Seen DEF Sees
<1>5. answer' = Abstract!Says("full", {})
  BY DEF Says, Abstract!Says
<1> QED
  BY <1>2, <1>3, <1>4, <1>5 DEF Abstract!Refuse, Abstract!Nothing, Items

\* push_front() refuses, or adds first and drops last,
LEMMA PushFrontRefines ==
  ASSUME ListOK(list), NEW s, Chained(list, s), Mapped, Mapped',
         NEW e \in Things, NEW override \in BOOLEAN, PushFront(e, override)
  PROVE  Abstract!Refuse \/ Abstract!PushFront(e)
<1>1. /\ Items \in Seq(Things) /\ Len(Items) = Len(s) /\ Len(s) = list.size
      /\ \A i \in 1..Len(s) : Items[i] = list.heap[s[i]].content
      /\ list.back = At(s, Len(s)) /\ Len(s) \in Nat /\ MAX_SIZE \in Nat \ {0}
  BY Seen, ListAssumption DEF Sees, Chained
<1>2. CASE Nothing("alloc_fail")
  BY <1>2, NothingRefines DEF Abstract!Refuse
<1>3. ASSUME NEW n \in Nodes \ DOMAIN list.heap, list.size < MAX_SIZE,
             list' = Linked(Allocated(list, n), n, e, "front"),
             answer' = Says("ok", {})
      PROVE  Abstract!PushFront(e)
  <2>1. /\ Items' = Joined(Items, e, "front") /\ list'.deletes = list.deletes
        /\ Position' = PlaceBehind(Position)
    BY <1>3, RoomRefines
  <2>2. Items' = <<e>> \o Items
    BY <1>1, <2>1, BehindIs
  <2>3. Len(Items) # MAX_SIZE
    BY <1>1, <1>3
  <2> QED
    BY <1>3, <2>1, <2>2, <2>3
       DEF Abstract!PushFront, Abstract!NoPosition, PlaceBehind, Says,
           Abstract!Says, Items
<1>4. ASSUME NEW n \in Nodes \ DOMAIN list.heap, list.size = MAX_SIZE,
             list' = Linked(Popped(Allocated(list, n), "back"), n, e, "front"),
             answer' = Says("ok", Deleted(list, {list.back}))
      PROVE  Abstract!PushFront(e)
  <2> DEFINE k == EndOf(s, "back")
             p == PlaceWithout(Position, k)
  <2>1. k = MAX_SIZE /\ Len(Items) = MAX_SIZE /\ k \in 1..Len(Items)
    BY <1>1, <1>4 DEF EndOf
  <2>2. /\ Items' = Joined(DropAt(Items, k), e, "front")
        /\ list'.deletes = list.deletes /\ Position' = PlaceBehind(p)
    BY <1>4, OverrideRefines
  <2> HIDE DEF k
  <2>3. DropAt(Items, k) \in Seq(Things)
    BY <1>1, <2>1, DropAtIs
  <2>4. Items' = <<e>> \o DropAt(Items, k)
    BY <2>2, <2>3, BehindIs
  <2>5. DropAt(Items, k) = Abstract!Others(MAX_SIZE)
    BY <1>1, <2>1, OthersIs DEF Abstract!Others, Items
  <2>6. p = Abstract!Without(MAX_SIZE)
    BY <2>1 DEF PlaceWithout, Abstract!Without, Abstract!Lost
  <2>7. Deleted(list, {list.back}) = Abstract!Deleted(MAX_SIZE)
    <3>1. list.back = s[MAX_SIZE] /\ Items[MAX_SIZE] = list.heap[s[MAX_SIZE]].content
      BY <1>1, <2>1 DEF At
    <3> QED
      BY <3>1 DEF Deleted, Abstract!Deleted, Items
  <2> HIDE DEF p
  <2> QED
    BY <1>4, <2>1, <2>2, <2>4, <2>5, <2>6, <2>7
       DEF Abstract!PushFront, Abstract!NoPosition, PlaceBehind, Says,
           Abstract!Says, Items
<1>5. ASSUME NEW n \in Nodes \ DOMAIN list.heap, list.size = MAX_SIZE,
             list' = Allocated(list, n), answer' = Says("full", {})
      PROVE  Abstract!Refuse
  BY <1>5, RefusedRefines
<1> QED
  BY <1>2, <1>3, <1>4, <1>5 DEF PushFront, Push

\* push_back() the other way round.
LEMMA PushBackRefines ==
  ASSUME ListOK(list), NEW s, Chained(list, s), Mapped, Mapped',
         NEW e \in Things, NEW override \in BOOLEAN, PushBack(e, override)
  PROVE  Abstract!Refuse \/ Abstract!PushBack(e)
<1>1. /\ Items \in Seq(Things) /\ Len(Items) = Len(s) /\ Len(s) = list.size
      /\ \A i \in 1..Len(s) : Items[i] = list.heap[s[i]].content
      /\ list.front = At(s, 1) /\ Len(s) \in Nat /\ MAX_SIZE \in Nat \ {0}
  BY Seen, ListAssumption DEF Sees, Chained
<1>2. CASE Nothing("alloc_fail")
  BY <1>2, NothingRefines DEF Abstract!Refuse
<1>3. ASSUME NEW n \in Nodes \ DOMAIN list.heap, list.size < MAX_SIZE,
             list' = Linked(Allocated(list, n), n, e, "back"),
             answer' = Says("ok", {})
      PROVE  Abstract!PushBack(e)
  <2>1. /\ Items' = Joined(Items, e, "back") /\ list'.deletes = list.deletes
        /\ Position' = Position
    BY <1>3, RoomRefines
  <2>2. Items' = Append(Items, e)
    BY <2>1 DEF Joined
  <2>3. Len(Items) # MAX_SIZE
    BY <1>1, <1>3
  <2> QED
    BY <1>3, <2>1, <2>2, <2>3
       DEF Abstract!PushBack, Says, Abstract!Says, Items
<1>4. ASSUME NEW n \in Nodes \ DOMAIN list.heap, list.size = MAX_SIZE,
             list' = Linked(Popped(Allocated(list, n), "front"), n, e, "back"),
             answer' = Says("ok", Deleted(list, {list.front}))
      PROVE  Abstract!PushBack(e)
  <2>1. Len(Items) = MAX_SIZE /\ Len(Items) # 0 /\ 1 \in 1..Len(s)
    BY <1>1, <1>4
  <2>2. EndOf(s, "front") = 1
    BY DEF EndOf
  <2>3. /\ Items' = Joined(DropAt(Items, 1), e, "back")
        /\ list'.deletes = list.deletes /\ Position' = PlaceWithout(Position, 1)
    BY <1>4, <2>2, OverrideRefines
  <2>4. Items' = Append(Tail(Items), e)
    BY <1>1, <2>1, <2>3, TailIs DEF Joined
  <2>5. Position' = Abstract!Without(1)
    BY <2>3 DEF PlaceWithout, Abstract!Without, Abstract!Lost
  <2>6. Deleted(list, {list.front}) = Abstract!Deleted(1)
    <3>1. list.front = s[1] /\ Items[1] = list.heap[s[1]].content
      BY <1>1, <2>1 DEF At
    <3> QED
      BY <3>1 DEF Deleted, Abstract!Deleted, Items
  <2> QED
    BY <1>4, <2>1, <2>3, <2>4, <2>5, <2>6
       DEF Abstract!PushBack, Says, Abstract!Says, Items
<1>5. ASSUME NEW n \in Nodes \ DOMAIN list.heap, list.size = MAX_SIZE,
             list' = Allocated(list, n), answer' = Says("full", {})
      PROVE  Abstract!Refuse
  BY <1>5, RefusedRefines
<1> QED
  BY <1>2, <1>3, <1>4, <1>5 DEF PushBack, Push

\* The destructor deletes all contents a list owns; a new list is empty.
LEMMA RenewRefines ==
  ASSUME ListOK(list), NEW s, Chained(list, s), Mapped, Mapped', Renew
  PROVE  Abstract!Renew
<1>1. /\ Items \in Seq(Things) /\ Len(Items) = Len(s) /\ Listed = Members(s)
      /\ \A i \in 1..Len(s) : Items[i] = list.heap[s[i]].content
  BY Seen, ListedIs DEF Sees
<1>2. PICK d \in BOOLEAN : list' = New(Without(list.heap, Members(s)), d)
  BY <1>1 DEF Renew
<1>3. list'.size = 0 /\ list'.cursor = Dangling /\ list'.deletes = d
  BY <1>2 DEF New
<1>4. Items' = <<>> /\ Position' = -1
  <2>1. Items' = [i \in 1..list'.size |-> list'.heap[nth'[i]].content]
    BY DEF Items
  <2>2. Items' = <<>>
    BY <1>3, <2>1
  <2>3. Position' = -1
    BY <1>3 DEF Position
  <2> QED
    BY <2>2, <2>3
<1>5. {list.heap[n].content : n \in Members(s)} = {Items[i] : i \in 1..Len(Items)}
  BY <1>1 DEF Members
<1>6. answer' = Abstract!Says("ok", IF list.deletes
                                    THEN {Items[i] : i \in 1..Len(Items)} ELSE {})
  BY <1>1, <1>5 DEF Renew, Says, Abstract!Says, Deleted
<1> QED
  BY <1>3, <1>4, <1>6 DEF Abstract!Renew, Abstract!Lost, Items

\* The list starts as an empty sequence with a lost position.
LEMMA InitRefines == Init => Abstract!Init
<1> SUFFICES ASSUME Init
             PROVE  Abstract!Init
  OBVIOUS
<1>1. PICK d \in BOOLEAN : list = New(<<>>, d)
  BY DEF Init
<1>2. list.size = 0 /\ list.cursor = Dangling /\ list.deletes = d
  BY <1>1 DEF New
<1>3. Items = <<>>
  BY <1>2 DEF Items
<1>4. Position = -1
  BY <1>2 DEF Position
<1>5. answer = Abstract!Says("ok", {})
  BY DEF Init, Says, Abstract!Says
<1> QED
  BY <1>2, <1>3, <1>4, <1>5 DEF Abstract!Init, Abstract!Lost, Items

\* Every step is one of CursorList, or none.
LEMMA NextRefines ==
  ListInv /\ Mapped /\ Mapped' /\ [Next]_vars => [Abstract!Next]_(Abstract!vars)
<1> SUFFICES ASSUME ListInv, Mapped, Mapped', [Next]_vars
             PROVE  [Abstract!Next]_(Abstract!vars)
  OBVIOUS
<1>1. PICK s : Chained(list, s)
  BY DEF ListInv
<1>2. ListOK(list)
  BY DEF ListInv
<1>3. CASE UNCHANGED vars
  <2>1. Items' = Items /\ Position' = Position
    BY <1>1, <1>2, <1>3, SameRefines DEF vars
  <2> QED
    BY <1>3, <2>1 DEF vars, Abstract!vars, Items
<1>4. CASE Front
  BY <1>1, <1>2, <1>4, EndsRefine DEF Abstract!Next
<1>5. CASE Back
  BY <1>1, <1>2, <1>5, EndsRefine DEF Abstract!Next
<1>6. CASE NextNode
  <2>1. Abstract!Move(1)
    BY <1>1, <1>2, <1>6, MoveRefines DEF NextNode
  <2> QED
    BY <2>1 DEF Abstract!Next
<1>7. CASE PrevNode
  <2>1. Abstract!Move(-1)
    BY <1>1, <1>2, <1>7, MoveRefines DEF PrevNode
  <2> QED
    BY <2>1 DEF Abstract!Next
<1>8. ASSUME NEW e \in Things, NEW override \in BOOLEAN, PushFront(e, override)
      PROVE  Abstract!Next
  BY <1>1, <1>2, <1>8, PushFrontRefines DEF Abstract!Next
<1>9. ASSUME NEW e \in Things, NEW override \in BOOLEAN, PushBack(e, override)
      PROVE  Abstract!Next
  BY <1>1, <1>2, <1>9, PushBackRefines DEF Abstract!Next
<1>10. CASE Remove
  BY <1>1, <1>2, <1>10, RemoveRefines DEF Abstract!Next
<1>11. CASE PopFront
  BY <1>1, <1>2, <1>11, PopsRefine DEF Abstract!Next
<1>12. CASE PopBack
  BY <1>1, <1>2, <1>12, PopsRefine DEF Abstract!Next, Items
<1>13. CASE Renew
  BY <1>1, <1>2, <1>13, RenewRefines DEF Abstract!Next
<1> QED
  BY <1>3, <1>4, <1>5, <1>6, <1>7, <1>8, <1>9, <1>10, <1>11, <1>12, <1>13 DEF Next

\* List<T>, whatever nodes the heap gives it and however full it is, is a sequence
\* with a position: each call adds, drops, deletes and answers what CursorList says.
THEOREM ListIsASequence == Spec => ImplementsCursorList
BY InitRefines, NextRefines, ListInvariant, InvMapped, PTL
   DEF Spec, ImplementsCursorList, Abstract!Spec

=============================================================================
