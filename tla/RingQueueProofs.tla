-------------------------- MODULE RingQueueProofs --------------------------
(***************************************************************************)
(* Theorems about RingQueue, for any number of cells and any elements: the *)
(* ring is a bounded queue, and a walk visits it.                          *)
(***************************************************************************)
EXTENDS RingQueue, SequenceTheorems, TLAPS

\* The last element a walk has visited is the one under the cursor.
WalkOK ==
  walk # <<>> => Len(walk) \in 1..size /\ cursor = CellOf(Len(walk))

IInv == RingOK /\ walk \in Seq(Elements) /\ WalkOK

-----------------------------------------------------------------------------
(* Indexes                                                                 *)

\* Going from cell to cell one stays in the ring.
LEMMA FollowingInRing ==
  ASSUME NEW c \in Cells PROVE Following(c) \in Cells
  BY QueueAssumption DEF Cells, Following

\* As many consecutive elements as there are cells have cells of their own,
\* each following the one before.
LEMMA CellsOfElements ==
  ASSUME first \in Cells
  PROVE  /\ \A i \in 1..MAX_SIZE : CellOf(i) \in Cells
         /\ \A i, j \in 1..MAX_SIZE : CellOf(i) = CellOf(j) => i = j
         /\ \A i \in 1..MAX_SIZE - 1 : CellOf(i + 1) = Following(CellOf(i))
         /\ CellOf(1) = first
         /\ Following(CellOf(MAX_SIZE)) = first
  BY QueueAssumption DEF Cells, CellOf, Following

\* When the first element goes, every other moves up and keeps its cell.
LEMMA CellsMoveUp ==
  ASSUME first \in Cells, first' = Following(first)
  PROVE  \A i \in 1..MAX_SIZE - 1 : CellOf(i)' = CellOf(i + 1)
  BY QueueAssumption DEF Cells, CellOf, Following

\* Between the last element and the first one no cell holds an element.
LEMMA OtherCellsAreFree ==
  ASSUME RingOK, size < MAX_SIZE
  PROVE  content[CellOf(size + 1)] \notin Elements
<1>1. first \in Cells /\ size \in 0..MAX_SIZE
  BY DEF RingOK
<1>2. size + 1 \in 1..MAX_SIZE /\ 1..size \subseteq 1..MAX_SIZE
  BY <1>1, QueueAssumption
<1>3. CellOf(size + 1) \in Cells
  BY <1>1, <1>2, CellsOfElements
<1>4. \A i \in 1..size : CellOf(size + 1) # CellOf(i)
  <2>1. \A i \in 1..size : i \in 1..MAX_SIZE /\ i # size + 1
    BY <1>1, <1>2
  <2> QED BY <1>1, <1>2, <2>1, CellsOfElements
<1> QED BY <1>3, <1>4 DEF RingOK

\* The contents of the ring are a sequence of elements.
LEMMA ContentsType ==
  RingOK => /\ Contents \in Seq(Elements)
            /\ Len(Contents) = size
            /\ \A i \in 1..size : Contents[i] = content[CellOf(i)]
<1> SUFFICES ASSUME RingOK
             PROVE  /\ Contents \in Seq(Elements)
                    /\ Len(Contents) = size
                    /\ \A i \in 1..size : Contents[i] = content[CellOf(i)]
  OBVIOUS
<1>1. first \in Cells /\ size \in 0..MAX_SIZE /\ size \in Nat
  BY QueueAssumption DEF RingOK
<1>2. \A i \in 1..size : CellOf(i) \in Cells
  BY <1>1, CellsOfElements, QueueAssumption
<1>3. \A i \in 1..size : content[CellOf(i)] \in Elements
  BY <1>2 DEF RingOK
<1>4. Contents \in [1..size -> Elements]
  BY <1>3 DEF Contents
<1>5. Contents \in Seq(Elements)
  BY <1>1, <1>4, SeqDef
<1>6. Len(Contents) = size
  BY <1>1, <1>4, <1>5, LenProperties
<1> QED BY <1>5, <1>6 DEF Contents

\* So are they after a step.
LEMMA ContentsTypeNext ==
  RingOK' => Contents' \in Seq(Elements) /\ Len(Contents') = size'
<1> DEFINE OK == Contents \in Seq(Elements) /\ Len(Contents) = size
<1>1. RingOK => OK
  BY ContentsType
<1> HIDE DEF OK
<1>2. RingOK' => OK'
  BY <1>1, PTL
<1> QED BY <1>2 DEF OK

-----------------------------------------------------------------------------
(* The ring after each call                                                *)

\* A new ring is in order.
LEMMA InitialRing ==
  ASSUME Init PROVE IInv
<1>1. RingOK
  BY QueueAssumption DEF Init, RingOK, Cells, Uninitialised
<1>2. walk \in Seq(Elements) /\ WalkOK
  BY EmptySeq DEF Init, WalkOK
<1> QED BY <1>1, <1>2 DEF IInv

\* What an accepted element does to the ring.
LEMMA PushFacts ==
  ASSUME IInv, NEW e \in Elements, Push(e), size # MAX_SIZE /\ allocated
  PROVE  /\ IInv'
         /\ size' = size + 1
         /\ content' = [content EXCEPT ![CellOf(size + 1)] = e]
         /\ UNCHANGED <<allocated, first, cursor, walk>>
         /\ answer' = Says("push", "ok")
<1>1. /\ back' = IF size > 0 THEN Following(back) ELSE back
      /\ size' = size + 1
      /\ content' = [content EXCEPT ![back'] = e]
      /\ UNCHANGED <<allocated, first, cursor, walk>>
      /\ answer' = Says("push", "ok")
  BY DEF Push
<1>2. first \in Cells /\ size \in 0..MAX_SIZE - 1 /\ size + 1 \in 1..MAX_SIZE
  BY QueueAssumption DEF IInv, RingOK
<1>3. back = IF size = 0 THEN first ELSE CellOf(size)
  BY DEF IInv, RingOK
<1>4. back' = CellOf(size + 1)
  <2>1. CASE size = 0
    BY <2>1, <1>1, <1>2, <1>3, CellsOfElements
  <2>2. CASE size > 0
    <3>1. size \in 1..MAX_SIZE - 1
      BY <2>2, <1>2
    <3> QED BY <2>2, <3>1, <1>1, <1>2, <1>3, CellsOfElements
  <2> QED BY <2>1, <2>2, <1>2
<1>5. \A i : CellOf(i)' = CellOf(i)
  BY <1>1 DEF CellOf
<1>6. CellOf(size + 1) \in Cells
  BY <1>2, CellsOfElements
<1>7. content' = [content EXCEPT ![CellOf(size + 1)] = e]
  BY <1>1, <1>4
<1>8. RingOK'
  <2>1. content' \in [Cells -> Elements \cup Uninitialised]
    BY <1>7 DEF IInv, RingOK
  <2>2. /\ allocated' \in BOOLEAN /\ size' \in 0..MAX_SIZE /\ first' \in Cells
        /\ cursor' \in Cells \cup {-1} /\ (size' > 0 => allocated')
    BY <1>1, <1>2 DEF IInv, RingOK
  <2>3. back' = IF size' = 0 THEN first' ELSE CellOf(size)'
    BY <1>1, <1>2, <1>4, <1>5
  <2>4. ASSUME NEW c \in Cells
        PROVE  content'[c] \in Elements
                 <=> \E i \in 1..size' : c = CellOf(i)'
    <3>1. content[c] \in Elements <=> \E i \in 1..size : c = CellOf(i)
      BY DEF IInv, RingOK
    <3>2. content \in [Cells -> Elements \cup Uninitialised]
      BY DEF IInv, RingOK
    <3>3. 1..size' = 1..size \cup {size + 1}
      BY <1>1, <1>2
    <3>4. CASE c = CellOf(size + 1)
      BY <3>2, <3>3, <3>4, <1>5, <1>7
    <3>5. CASE c # CellOf(size + 1)
      BY <3>1, <3>2, <3>3, <3>5, <1>5, <1>7
    <3> QED BY <3>4, <3>5
  <2>5. Cells' = Cells /\ Uninitialised' = Uninitialised
    BY DEF Cells, Uninitialised
  <2> QED BY <2>1, <2>2, <2>3, <2>4, <2>5 DEF RingOK
<1>9. walk' \in Seq(Elements) /\ WalkOK'
  BY <1>1, <1>2, <1>5 DEF IInv, WalkOK
<1> QED BY <1>1, <1>7, <1>8, <1>9 DEF IInv

\* What the removal of an element does to the ring.
LEMMA PopFacts ==
  ASSUME IInv, Pop, size > 0
  PROVE  /\ IInv'
         /\ size' = size - 1
         /\ content' = [content EXCEPT ![first] = "null"]
         /\ first' = Following(first)
         /\ answer' = Says("pop", "ok")
         /\ UNCHANGED allocated
<1>1. /\ size' = size - 1
      /\ content' = [content EXCEPT ![first] = "null"]
      /\ first' = Following(first)
      /\ back' = IF size' = 0 THEN first' ELSE back
      /\ answer' = Says("pop", "ok")
      /\ walk' = IF Len(walk) < 2 THEN <<>> ELSE Tail(walk)
      /\ UNCHANGED <<allocated, cursor>>
  <2>1. size # 0
    BY QueueAssumption DEF IInv, RingOK
  <2> QED BY <2>1, Zenon DEF Pop
<1>2. first \in Cells /\ size \in 1..MAX_SIZE /\ MAX_SIZE \in Nat
  BY QueueAssumption DEF IInv, RingOK
<1>3. first' \in Cells
  BY <1>1, <1>2, FollowingInRing
<1>4. \A i \in 1..size' : i + 1 \in 2..size /\ CellOf(i)' = CellOf(i + 1)
  <2>1. \A i \in 1..size' : i \in 1..MAX_SIZE - 1 /\ i + 1 \in 2..size
    BY <1>1, <1>2
  <2> QED BY <2>1, <1>1, <1>2, CellsMoveUp
<1>5. RingOK'
  <2>1. content' \in [Cells -> Elements \cup Uninitialised]
    BY <1>1 DEF IInv, RingOK, Uninitialised
  <2>2. /\ allocated' \in BOOLEAN /\ size' \in 0..MAX_SIZE
        /\ cursor' \in Cells \cup {-1} /\ (size' > 0 => allocated')
    BY <1>1, <1>2 DEF IInv, RingOK
  <2>3. back' = IF size' = 0 THEN first' ELSE CellOf(size)'
    <3>1. CASE size' = 0
      BY <3>1, <1>1
    <3>2. CASE size' # 0
      <4>1. back = CellOf(size)
        BY <1>2 DEF IInv, RingOK
      <4>2. size' \in 1..size' /\ size' + 1 = size
        BY <3>2, <1>1, <1>2
      <4> QED BY <3>2, <4>1, <4>2, <1>1, <1>4
    <3> QED BY <3>1, <3>2
  <2>4. ASSUME NEW c \in Cells
        PROVE  content'[c] \in Elements
                 <=> \E i \in 1..size' : c = CellOf(i)'
    <3>1. content[c] \in Elements <=> \E i \in 1..size : c = CellOf(i)
      BY DEF IInv, RingOK
    <3>2. content \in [Cells -> Elements \cup Uninitialised]
      BY DEF IInv, RingOK
    <3>3. CASE c = first
      <4>1. content'[c] \notin Elements
        BY <3>2, <3>3, <1>1, <1>2, QueueAssumption
      <4>2. \A i \in 2..size : CellOf(i) # first
        <5>1. \A i \in 2..size : i \in 1..MAX_SIZE /\ i # 1 /\ 1 \in 1..MAX_SIZE
          BY <1>2
        <5> QED BY <5>1, <1>2, CellsOfElements
      <4> QED BY <4>1, <4>2, <3>3, <1>4
    <3>4. CASE c # first
      <4>1. content'[c] = content[c]
        BY <3>2, <3>4, <1>1, <1>2
      <4>2. ASSUME NEW i \in 1..size, c = CellOf(i)
            PROVE  \E j \in 1..size' : c = CellOf(j)'
        <5>1. i # 1
          BY <4>2, <3>4, <1>2, CellsOfElements
        <5>2. i - 1 \in 1..size' /\ (i - 1) + 1 = i
          BY <5>1, <1>1, <1>2
        <5> QED BY <4>2, <5>2, <1>4
      <4>3. ASSUME NEW j \in 1..size', c = CellOf(j)'
            PROVE  \E i \in 1..size : c = CellOf(i)
        <5>1. j + 1 \in 1..size /\ c = CellOf(j + 1)
          BY <4>3, <1>2, <1>4
        <5> QED BY <5>1
      <4> QED BY <4>1, <4>2, <4>3, <3>1
    <3> QED BY <3>3, <3>4
  <2>5. Cells' = Cells /\ Uninitialised' = Uninitialised
    BY DEF Cells, Uninitialised
  <2> QED BY <2>1, <2>2, <2>3, <2>4, <2>5, <1>3 DEF RingOK
<1>6. walk' \in Seq(Elements) /\ WalkOK'
  <2>1. CASE Len(walk) < 2
    BY <2>1, <1>1, EmptySeq DEF WalkOK
  <2>2. CASE ~(Len(walk) < 2)
    <3>1. walk \in Seq(Elements) /\ Len(walk) \in Nat
      BY LenProperties DEF IInv
    <3>2. walk # <<>>
      BY <2>2, EmptySeq
    <3>3. walk' \in Seq(Elements) /\ Len(walk') = Len(walk) - 1
      BY <2>2, <3>1, <3>2, <1>1, HeadTailProperties
    <3>4. Len(walk) \in 1..size /\ cursor = CellOf(Len(walk))
      BY <3>2 DEF IInv, WalkOK
    <3>5. PICK n \in 1..size' : n = Len(walk') /\ n + 1 = Len(walk)
      <4>1. Len(walk) - 1 \in 1..size'
        BY <2>2, <3>1, <3>4, <1>1, <1>2
      <4> QED BY <4>1, <3>1, <3>3
    <3>6. cursor' = CellOf(n)'
      BY <3>4, <3>5, <1>1, <1>4
    <3> QED BY <3>3, <3>5, <3>6 DEF WalkOK
  <2> QED BY <2>1, <2>2
<1> QED BY <1>1, <1>5, <1>6 DEF IInv

\* next() gives the element after the one last visited, if there is one.
LEMMA NextElementFacts ==
  ASSUME IInv, NextElement
  PROVE  /\ IInv'
         /\ UNCHANGED <<allocated, content, size, first, back>>
         /\ \E found : /\ answer' = Says("next", found)
                       /\ found \in Elements \cup Uninitialised
                       /\ walk # <<>> =>
                            IF Len(walk) < size
                              THEN found = content[CellOf(Len(walk) + 1)]
                              ELSE found \notin Elements
<1> DEFINE found == IF cursor' = first THEN "null" ELSE content[cursor']
<1>1. /\ cursor' = Following(cursor)
      /\ answer' = Says("next", found)
      /\ walk' = IF walk # <<>> /\ found \in Elements
                   THEN Append(walk, found) ELSE <<>>
      /\ UNCHANGED <<allocated, content, size, first, back>>
      /\ cursor \in Cells
  BY DEF NextElement
<1>2. first \in Cells /\ size \in 0..MAX_SIZE /\ MAX_SIZE \in Nat
  BY QueueAssumption DEF IInv, RingOK
<1>3. cursor' \in Cells
  BY <1>1, FollowingInRing
<1>4. found \in Elements \cup Uninitialised
  BY <1>3 DEF IInv, RingOK, Uninitialised
<1>5. \A i : CellOf(i)' = CellOf(i)
  BY <1>1 DEF CellOf
<1>6. RingOK'
  BY <1>1, <1>3, <1>5 DEF IInv, RingOK, Cells, Uninitialised
<1>7. ASSUME walk # <<>>, Len(walk) < size
      PROVE  /\ cursor' = CellOf(Len(walk) + 1)
             /\ Len(walk) + 1 \in 1..size
             /\ found = content[CellOf(Len(walk) + 1)]
             /\ found \in Elements
  <2>1. Len(walk) \in 1..MAX_SIZE - 1 /\ cursor = CellOf(Len(walk))
    BY <1>2, <1>7 DEF IInv, WalkOK
  <2>2. Len(walk) + 1 \in 1..size /\ Len(walk) + 1 \in 2..MAX_SIZE
    BY <1>2, <1>7, <2>1
  <2>3. cursor' = CellOf(Len(walk) + 1)
    BY <2>1, <1>1, <1>2, CellsOfElements
  <2>4. cursor' # first
    <3>1. 1 \in 1..MAX_SIZE /\ Len(walk) + 1 \in 1..MAX_SIZE /\ Len(walk) + 1 # 1
      BY <2>2, <1>2
    <3> QED BY <3>1, <2>3, <1>2, CellsOfElements
  <2>5. content[cursor'] \in Elements
    BY <1>3, <2>2, <2>3 DEF IInv, RingOK
  <2> QED BY <2>2, <2>3, <2>4, <2>5
<1>8. ASSUME walk # <<>>, ~(Len(walk) < size)
      PROVE  found \notin Elements
  <2>1. Len(walk) = size /\ size \in 1..MAX_SIZE /\ cursor = CellOf(size)
    <3>1. Len(walk) \in 1..size /\ cursor = CellOf(Len(walk))
      BY <1>8 DEF IInv, WalkOK
    <3>2. Len(walk) = size /\ size \in 1..MAX_SIZE
      BY <3>1, <1>2, <1>8
    <3> QED BY <3>1, <3>2
  <2>2. CASE size = MAX_SIZE
    <3>1. cursor' = first
      BY <2>1, <2>2, <1>1, <1>2, CellsOfElements
    <3> QED BY <3>1, QueueAssumption
  <2>3. CASE size < MAX_SIZE
    <3>1. size \in 1..MAX_SIZE - 1
      BY <2>1, <2>3, <1>2
    <3>2. cursor' = CellOf(size + 1)
      BY <2>1, <3>1, <1>1, <1>2, CellsOfElements
    <3>3. content[cursor'] \notin Elements
      BY <2>3, <3>2, OtherCellsAreFree DEF IInv
    <3>4. "null" \notin Elements
      BY QueueAssumption
    <3> QED BY <3>3, <3>4
  <2> QED BY <2>1, <2>2, <2>3, <1>2
<1>9. walk' \in Seq(Elements) /\ WalkOK'
  <2>1. CASE walk # <<>> /\ found \in Elements
    <3>1. walk \in Seq(Elements) /\ walk' = Append(walk, found)
      BY <2>1, <1>1 DEF IInv
    <3>2. walk' \in Seq(Elements) /\ Len(walk') = Len(walk) + 1
      BY <2>1, <3>1
    <3>3. Len(walk) < size
      BY <2>1, <1>8
    <3> QED BY <2>1, <3>2, <3>3, <1>1, <1>5, <1>7 DEF WalkOK
  <2>2. CASE ~(walk # <<>> /\ found \in Elements)
    BY <2>2, <1>1, EmptySeq DEF WalkOK
  <2> QED BY <2>1, <2>2
<1> QED BY <1>1, <1>4, <1>6, <1>7, <1>8, <1>9 DEF IInv

\* front() starts a walk at the oldest element.
LEMMA FrontFacts ==
  ASSUME IInv, Front
  PROVE  /\ IInv'
         /\ UNCHANGED <<allocated, content, size, first, back>>
         /\ answer' = Says("front", IF size = 0 THEN "null" ELSE content[first])
<1>1. size \in 0..MAX_SIZE /\ MAX_SIZE \in Nat /\ first \in Cells
  BY QueueAssumption DEF IInv, RingOK
<1>2. CASE size = 0
  <2>1. /\ UNCHANGED <<allocated, content, size, first, back, cursor, walk>>
        /\ answer' = Says("front", "null")
    BY <1>1, <1>2 DEF Front
  <2> QED BY <1>2, <2>1
      DEF IInv, RingOK, WalkOK, CellOf, Cells, Uninitialised
<1>3. CASE size > 0
  <2>1. /\ cursor' = first
        /\ answer' = Says("front", content[first])
        /\ walk' = <<content[first]>>
        /\ UNCHANGED <<allocated, content, size, first, back>>
    BY <1>3 DEF Front
  <2>2. RingOK'
    BY <1>1, <2>1 DEF IInv, RingOK, CellOf, Cells, Uninitialised
  <2>3. 1 \in 1..size /\ CellOf(1) = first
    BY <1>1, <1>3, CellsOfElements
  <2>4. content[first] \in Elements
    BY <1>1, <2>3 DEF IInv, RingOK
  <2>5. walk' \in Seq(Elements) /\ Len(walk') = 1
    BY <2>1, <2>4
  <2>6. CellOf(1)' = CellOf(1)
    BY <2>1 DEF CellOf
  <2>7. WalkOK'
    BY <2>1, <2>3, <2>5, <2>6 DEF WalkOK
  <2> QED BY <1>3, <2>1, <2>2, <2>5, <2>7 DEF IInv
<1> QED BY <1>1, <1>2, <1>3

\* A call that changes neither the ring nor a walk keeps both in order.
LEMMA LookingChangesNothing ==
  ASSUME IInv, UNCHANGED <<allocated, content, size, first, back, cursor, walk>>
  PROVE  IInv'
  BY DEF IInv, RingOK, WalkOK, CellOf, Cells, Uninitialised

\* Every call keeps the ring and the walk in order.
LEMMA RingStep ==
  ASSUME IInv, [Next]_vars PROVE IInv'
<1>1. ASSUME NEW e \in Elements, Push(e) PROVE IInv'
  <2>1. CASE size # MAX_SIZE /\ allocated
    BY <1>1, <2>1, PushFacts
  <2>2. CASE size = MAX_SIZE \/ ~allocated
    BY <1>1, <2>2, LookingChangesNothing DEF Push
  <2> QED BY <2>1, <2>2
<1>2. CASE Pop
  <2>1. CASE size > 0
    BY <1>2, <2>1, PopFacts
  <2>2. CASE size = 0
    BY <1>2, <2>2, LookingChangesNothing DEF Pop
  <2> QED BY <1>2, <2>1, <2>2 DEF Pop
<1>3. CASE Front
  BY <1>3, FrontFacts
<1>4. CASE NextElement
  BY <1>4, NextElementFacts
<1>5. CASE Size
  BY <1>5, LookingChangesNothing DEF Size
<1>6. CASE UNCHANGED vars
  BY <1>6, LookingChangesNothing DEF vars
<1> QED BY <1>1, <1>2, <1>3, <1>4, <1>5, <1>6 DEF Next

\* The ring and the walk are in order for ever.
LEMMA Invariance == Spec => []IInv
<1>1. Init => IInv
  BY InitialRing
<1>2. IInv /\ [Next]_vars => IInv'
  BY RingStep
<1> QED BY <1>1, <1>2, PTL DEF Spec

\* The indexes and the cells of the ring agree after any calls.
THEOREM RingStaysInOrder == Spec => []RingOK
<1>1. IInv => RingOK
  BY DEF IInv
<1> QED BY <1>1, Invariance, PTL

\* front() and next() visit all elements, in their order, and stop after the
\* last, whatever is pushed or popped meanwhile.
THEOREM WalksAreComplete == Spec => WalksVisitTheQueue
<1>1. ASSUME IInv, NextElement, walk # <<>>
      PROVE  IF Len(walk) < size
               THEN answer' = Says("next", Contents[Len(walk) + 1])
               ELSE answer'.value \notin Elements
  <2>1. PICK found : /\ answer' = Says("next", found)
                     /\ IF Len(walk) < size
                          THEN found = content[CellOf(Len(walk) + 1)]
                          ELSE found \notin Elements
    BY <1>1, NextElementFacts
  <2>2. CASE Len(walk) < size
    <3>1. Len(walk) \in 1..size /\ size \in Nat
      BY <1>1, QueueAssumption DEF IInv, WalkOK, RingOK
    <3>2. Len(walk) + 1 \in 1..size
      BY <2>2, <3>1
    <3> QED BY <2>1, <2>2, <3>2 DEF Contents
  <2>3. CASE ~(Len(walk) < size)
    BY <2>1, <2>3 DEF Says
  <2> QED BY <2>2, <2>3
<1>2. IInv /\ [Next]_vars =>
        [NextElement /\ walk # <<>> =>
           IF Len(walk) < size
             THEN answer' = Says("next", Contents[Len(walk) + 1])
             ELSE answer'.value \notin Elements]_vars
  BY <1>1
<1> QED BY <1>2, Invariance, PTL DEF Spec, WalksVisitTheQueue

-----------------------------------------------------------------------------
(* The ring is a queue                                                     *)

\* A push appends.
LEMMA PushAppends ==
  ASSUME IInv, NEW e \in Elements, Push(e), size # MAX_SIZE /\ allocated
  PROVE  Contents' = Append(Contents, e)
<1>1. /\ IInv' /\ size' = size + 1 /\ UNCHANGED first
      /\ content' = [content EXCEPT ![CellOf(size + 1)] = e]
  BY PushFacts
<1>2. first \in Cells /\ size \in 0..MAX_SIZE - 1 /\ MAX_SIZE \in Nat
  BY QueueAssumption DEF IInv, RingOK
<1>3. content \in [Cells -> Elements \cup Uninitialised]
  BY DEF IInv, RingOK
<1>4. \A i : CellOf(i)' = CellOf(i)
  BY <1>1 DEF CellOf
<1>5. Contents \in Seq(Elements) /\ Len(Contents) = size
  BY ContentsType DEF IInv
<1>6. Contents' \in Seq(Elements) /\ Len(Contents') = size'
  BY <1>1, ContentsTypeNext DEF IInv
<1>7. /\ Append(Contents, e) \in Seq(Elements)
      /\ Len(Append(Contents, e)) = size + 1
      /\ \A i \in 1..size : Append(Contents, e)[i] = Contents[i]
      /\ Append(Contents, e)[size + 1] = e
  BY <1>2, <1>5
<1>8. \A i \in 1..size + 1 : Contents'[i] = Append(Contents, e)[i]
  <2>1. ASSUME NEW i \in 1..size
        PROVE  Contents'[i] = Contents[i]
    <3>1. i \in 1..MAX_SIZE /\ size + 1 \in 1..MAX_SIZE /\ i # size + 1
      BY <1>2
    <3>2. CellOf(i) \in Cells /\ CellOf(i) # CellOf(size + 1)
      BY <3>1, <1>2, CellsOfElements
    <3>3. i \in 1..size'
      BY <1>1, <1>2
    <3> QED BY <3>2, <3>3, <1>1, <1>3, <1>4 DEF Contents
  <2>2. Contents'[size + 1] = e
    <3>1. size + 1 \in 1..size' /\ size + 1 \in 1..MAX_SIZE
      BY <1>1, <1>2
    <3>2. CellOf(size + 1) \in Cells
      BY <3>1, <1>2, CellsOfElements
    <3> QED BY <3>1, <3>2, <1>1, <1>3, <1>4 DEF Contents
  <2> QED BY <2>1, <2>2, <1>2, <1>7
<1> QED BY <1>1, <1>6, <1>7, <1>8, SeqEqual

\* A pop takes the oldest element.
LEMMA PopTakesTheFirst ==
  ASSUME IInv, Pop, size > 0
  PROVE  Contents # <<>> /\ Contents' = Tail(Contents)
<1>1. /\ IInv' /\ size' = size - 1 /\ first' = Following(first)
      /\ content' = [content EXCEPT ![first] = "null"]
  BY PopFacts
<1>2. first \in Cells /\ size \in 1..MAX_SIZE /\ MAX_SIZE \in Nat
  BY QueueAssumption DEF IInv, RingOK
<1>3. content \in [Cells -> Elements \cup Uninitialised]
  BY DEF IInv, RingOK
<1>4. Contents \in Seq(Elements) /\ Len(Contents) = size
  BY ContentsType DEF IInv
<1>5. Contents' \in Seq(Elements) /\ Len(Contents') = size'
  BY <1>1, ContentsTypeNext DEF IInv
<1>6. Contents # <<>>
  BY <1>2, <1>4, EmptySeq
<1>7. /\ Tail(Contents) \in Seq(Elements)
      /\ Len(Tail(Contents)) = size - 1
      /\ \A i \in 1..size - 1 : Tail(Contents)[i] = Contents[i + 1]
  BY <1>4, <1>6, HeadTailProperties
<1>8. ASSUME NEW i \in 1..size - 1
      PROVE  Contents'[i] = Contents[i + 1]
  <2>1. /\ i \in 1..size' /\ i \in 1..MAX_SIZE - 1
        /\ i + 1 \in 1..size /\ i + 1 \in 1..MAX_SIZE /\ 1 \in 1..MAX_SIZE
        /\ i + 1 # 1
    BY <1>1, <1>2
  <2>2. CellOf(i)' = CellOf(i + 1)
    BY <2>1, <1>1, <1>2, CellsMoveUp
  <2>3. CellOf(i + 1) \in Cells /\ CellOf(i + 1) # first
    BY <2>1, <1>2, CellsOfElements
  <2> QED BY <2>1, <2>2, <2>3, <1>1, <1>3 DEF Contents
<1> QED BY <1>1, <1>5, <1>6, <1>7, <1>8, SeqEqual

\* Every call is one a queue could make.
LEMMA StepsRefine ==
  ASSUME IInv, [Next]_vars PROVE [Fifo!Next]_(Fifo!vars)
<1> DEFINE Room == IF allocated THEN MAX_SIZE ELSE 0
<1>0. /\ Contents \in Seq(Elements) /\ Len(Contents) = size
      /\ \A i \in 1..size : Contents[i] = content[CellOf(i)]
      /\ size \in 0..MAX_SIZE /\ MAX_SIZE \in Nat /\ first \in Cells
      /\ (size > 0 => allocated) /\ allocated \in BOOLEAN
  BY ContentsType, QueueAssumption DEF IInv, RingOK
<1>1. ASSUME UNCHANGED <<content, size, first>> PROVE UNCHANGED Contents
  BY <1>1 DEF Contents, CellOf
<1>2. ASSUME NEW e \in Elements, Push(e) PROVE Fifo!Push(e)
  <2>1. CASE size # MAX_SIZE /\ allocated
    <3>1. Contents' = Append(Contents, e)
      BY <1>2, <2>1, PushAppends
    <3>2. UNCHANGED allocated /\ answer' = Says("push", "ok")
      BY <1>2, <2>1, PushFacts
    <3>3. Len(Contents) < Room
      BY <2>1, <1>0
    <3> QED BY <3>1, <3>2, <3>3 DEF Fifo!Push, Fifo!Says, Says
  <2>2. CASE size = MAX_SIZE \/ ~allocated
    <3>1. /\ answer' = Says("push", "full")
          /\ UNCHANGED <<allocated, content, size, first>>
      BY <1>2, <2>2 DEF Push
    <3>2. Len(Contents) = Room
      BY <2>2, <1>0
    <3> QED BY <3>1, <3>2, <1>1 DEF Fifo!Push, Fifo!Says, Says
  <2> QED BY <2>1, <2>2
<1>3. CASE Pop
  <2>1. CASE size > 0
    <3>1. Contents # <<>> /\ Contents' = Tail(Contents)
      BY <1>3, <2>1, PopTakesTheFirst
    <3>2. UNCHANGED allocated /\ answer' = Says("pop", "ok")
      BY <1>3, <2>1, PopFacts
    <3> QED BY <3>1, <3>2 DEF Fifo!Next, Fifo!Pop, Fifo!Says, Says
  <2>2. CASE size = 0
    <3>1. /\ answer' = Says("pop", "empty")
          /\ UNCHANGED <<allocated, content, size, first>>
      BY <1>3, <2>2 DEF Pop
    <3>2. Contents = <<>>
      BY <2>2, <1>0, EmptySeq
    <3> QED BY <3>1, <3>2, <1>1 DEF Fifo!Next, Fifo!Pop, Fifo!Says, Says
  <2> QED BY <1>0, <2>1, <2>2
<1>4. CASE Front
  <2>1. /\ UNCHANGED <<allocated, content, size, first>>
        /\ answer' = Says("front", IF size = 0 THEN "null" ELSE content[first])
    BY <1>4, FrontFacts
  <2>2. CASE size = 0
    BY <2>1, <2>2, <1>0, <1>1, EmptySeq
    DEF Fifo!Next, Fifo!Front, Fifo!Says, Says
  <2>3. CASE size > 0
    <3>1. CellOf(1) = first /\ 1 \in 1..size
      BY <2>3, <1>0, CellsOfElements
    <3>2. Contents # <<>> /\ Head(Contents) = content[first]
      BY <2>3, <3>1, <1>0, EmptySeq
    <3> QED BY <2>1, <2>3, <3>2, <1>1
        DEF Fifo!Next, Fifo!Front, Fifo!Says, Says
  <2> QED BY <1>0, <2>2, <2>3
<1>5. CASE NextElement
  <2>1. PICK found : /\ answer' = Says("next", found)
                     /\ found \in Elements \cup Uninitialised
    BY <1>5, NextElementFacts
  <2>2. /\ cursor' = Following(cursor) /\ cursor \in Cells
        /\ UNCHANGED <<allocated, content, size, first>>
        /\ answer' = Says("next", IF cursor' = first THEN "null"
                                  ELSE content[cursor'])
    BY <1>5 DEF NextElement
  <2>3. cursor' \in Cells
    BY <2>2, FollowingInRing
  <2>4. found = IF cursor' = first THEN "null" ELSE content[cursor']
    BY <2>1, <2>2 DEF Says
  <2>5. \/ \E i \in 1..Len(Contents) : found = Contents[i]
        \/ found \in {"null", "garbage"}
    <3>1. CASE found \in Elements
      <4>1. content[cursor'] \in Elements /\ found = content[cursor']
        BY <3>1, <2>4, QueueAssumption
      <4>2. PICK i \in 1..size : cursor' = CellOf(i)
        BY <4>1, <2>3 DEF IInv, RingOK
      <4> QED BY <4>1, <4>2, <1>0
    <3> QED BY <3>1, <2>1 DEF Uninitialised
  <2>6. Fifo!Walk
    BY <2>1, <2>2, <2>5, <1>1 DEF Fifo!Walk, Fifo!Says, Says
  <2> QED BY <2>6 DEF Fifo!Next
<1>6. CASE Size
  <2>1. answer' = Says("size", size) /\ UNCHANGED <<allocated, content, size, first>>
    BY <1>6 DEF Size
  <2> QED BY <2>1, <1>0, <1>1 DEF Fifo!Next, Fifo!Size, Fifo!Says, Says
<1>7. CASE UNCHANGED vars
  BY <1>7, <1>1 DEF vars, Fifo!vars
<1> QED BY <1>2, <1>3, <1>4, <1>5, <1>6, <1>7 DEF Next, Fifo!Next

\* The ring is a queue of bounded capacity: what leaves it left in the order
\* it came, and it refuses elements only when it is full.
THEOREM RingIsAQueue == Spec => ImplementsFifo
<1>1. Init => Fifo!Init
  <2> SUFFICES ASSUME Init PROVE Fifo!Init
    OBVIOUS
  <2>1. IInv
    BY InitialRing
  <2>2. Contents = <<>>
    <3>1. Contents \in Seq(Elements) /\ Len(Contents) = 0
      BY <2>1, ContentsType DEF IInv, Init
    <3> QED BY <3>1, EmptySeq
  <2> QED BY <2>2, QueueAssumption DEF Init, Fifo!Init, Fifo!Says, Says
<1>2. IInv /\ [Next]_vars => [Fifo!Next]_(Fifo!vars)
  BY StepsRefine
<1> QED BY <1>1, <1>2, Invariance, PTL DEF Spec, ImplementsFifo, Fifo!Spec
=============================================================================
