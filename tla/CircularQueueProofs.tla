------------------------- MODULE CircularQueueProofs -------------------------
(***************************************************************************)
(* For a queue of any size and any data: the occupied slots are the ones   *)
(* from front to rear, so full and empty are exact; and the queue is a     *)
(* bounded first-in first-out queue.                                       *)
(***************************************************************************)
EXTENDS CircularQueue, SequenceTheorems, TLAPS

QueueInv == TypeOK /\ Contiguous

\* Distances around the queue.
LEMMA DistRange ==
  ASSUME NEW a \in Slots, NEW b \in Slots
  PROVE  /\ Dist(a, b) \in 0 .. Size - 1
         /\ (Dist(a, b) = 0) <=> (a = b)
  BY SizeAssumption DEF Slots, Dist

\* A pointer stays in the queue.
LEMMA SuccInSlots == ASSUME NEW p \in Slots PROVE Succ(p) \in Slots
  BY SizeAssumption DEF Slots, Succ

\* The number of elements is a number of slots.
LEMMA CountRange == ASSUME TypeOK PROVE Count \in 0 .. Size
  BY DistRange, SizeAssumption DEF TypeOK, Count

\* The wires are exact: full when every slot counts, empty when none does.
LEMMA WiresExact ==
  ASSUME QueueInv
  PROVE  /\ full <=> Count = Size
         /\ empty <=> Count = 0
<1>1. Count \in 0 .. Size
  BY CountRange DEF QueueInv
<1>2. \A i \in Slots : queue[i].valid <=> Dist(front, i) < Count
  BY DEF QueueInv, Contiguous
<1>3. ASSUME Count < Size PROVE rear \in Slots /\ Dist(front, rear) = Count
  BY <1>1, <1>3, DistRange, SizeAssumption DEF Count, QueueInv, TypeOK
<1>4. full <=> Count = Size
  <2>1. Count = Size => full
    BY <1>2, DistRange, SizeAssumption DEF full, QueueInv, TypeOK
  <2>2. Count # Size => ~full
    BY <1>1, <1>2, <1>3, SizeAssumption DEF full
  <2> QED BY <2>1, <2>2
<1>5. empty <=> Count = 0
  <2>1. Count = 0 => empty
    BY <1>2, DistRange, SizeAssumption DEF empty, QueueInv, TypeOK
  <2>2. Count # 0 => ~empty
    BY <1>1, <1>2, DistRange, SizeAssumption DEF empty, QueueInv, TypeOK
  <2> QED BY <2>1, <2>2
<1> QED BY <1>4, <1>5

\* The queue is empty at first.
LEMMA InitQueue == Init => QueueInv /\ Count = 0
  BY ZeroAssumption, SizeAssumption
     DEF QueueInv, Init, TypeOK, Contiguous, Count, Dist, Slots, EmptySlot

\* Clearing empties the queue.
LEMMA ClearPreserves == ASSUME QueueInv, Clear PROVE QueueInv' /\ Count' = 0
  BY ZeroAssumption, SizeAssumption
     DEF QueueInv, Clear, TypeOK, Contiguous, Count, Dist, Slots, EmptySlot

\* An enqueue into a queue that is not full takes the slot after the last.
LEMMA EnqPreserves ==
  ASSUME QueueInv, NEW d \in Data, ~full, Enq(d)
  PROVE  QueueInv' /\ Count' = Count + 1
<1>1. TypeOK'
  BY SuccInSlots DEF QueueInv, TypeOK, Enq
<1>2. Count \in 0 .. Size - 1 /\ Dist(front, rear) = Count
  BY WiresExact, CountRange, DistRange, SizeAssumption DEF Count, QueueInv, TypeOK
<1>3. Count' = Count + 1
  <2>1. rear' = Succ(rear) /\ front' = front
    BY DEF Enq
  <2>2. CASE Succ(rear) = front
    <3>1. Count = Size - 1
      BY <1>2, <2>2, SizeAssumption DEF Dist, Succ, QueueInv, TypeOK, Slots
    <3>2. queue[front].valid \/ front = rear
      BY <1>2, DistRange DEF QueueInv, TypeOK, Contiguous
    <3>3. queue'[front].valid
      BY <3>2 DEF Enq, QueueInv, TypeOK
    <3> QED BY <2>1, <2>2, <3>1, <3>3, SizeAssumption DEF Count
  <2>3. CASE Succ(rear) # front
    <3>1. Dist(front, Succ(rear)) = Dist(front, rear) + 1
      BY <2>3, SizeAssumption DEF Dist, Succ, QueueInv, TypeOK, Slots
    <3> QED BY <1>2, <2>1, <2>3, <3>1 DEF Count, Dist
  <2> QED BY <2>2, <2>3
<1>4. ASSUME NEW i \in Slots
      PROVE  queue'[i].valid <=> Dist(front', i) < Count'
  <2>1. i = rear <=> Dist(front, i) = Count
    BY <1>2, SizeAssumption DEF Dist, Slots, QueueInv, TypeOK
  <2>2. queue'[i].valid <=> (i = rear \/ queue[i].valid)
    BY DEF Enq, QueueInv, TypeOK
  <2>3. queue[i].valid <=> Dist(front, i) < Count
    BY DEF QueueInv, Contiguous
  <2>4. front' = front /\ Dist(front, i) \in 0 .. Size - 1
    BY DistRange DEF Enq, QueueInv, TypeOK
  <2> QED BY <1>2, <1>3, <2>1, <2>2, <2>3, <2>4, SizeAssumption
<1> QED BY <1>1, <1>3, <1>4 DEF QueueInv, Contiguous

\* A dequeue from a queue that is not empty frees the first slot.
LEMMA DeqPreserves ==
  ASSUME QueueInv, ~empty, Deq PROVE QueueInv' /\ Count' = Count - 1
<1>1. TypeOK'
  BY SuccInSlots DEF QueueInv, TypeOK, Deq
<1>2. Count \in 1 .. Size
  BY WiresExact, CountRange, SizeAssumption DEF QueueInv
<1>3. ASSUME NEW i \in Slots
      PROVE  Dist(Succ(front), i) = IF i = front THEN Size - 1
                                                 ELSE Dist(front, i) - 1
  BY SizeAssumption DEF Dist, Succ, Slots, QueueInv, TypeOK
<1>4. queue[front].valid
  BY <1>2, DistRange DEF QueueInv, Contiguous, TypeOK
<1>5. Count' = Count - 1
  <2>1. CASE rear = front
    <3>1. Count = Size
      BY <1>4, <2>1 DEF Count
    <3>2. CASE Size = 1
      BY <3>1, <3>2, <2>1 DEF Count, Deq, Succ, QueueInv, TypeOK, Slots
    <3>3. CASE Size # 1
      <4>1. rear' = rear /\ front' = Succ(front) /\ front' # rear'
        BY <2>1, <3>3, SizeAssumption DEF Deq, Succ, QueueInv, TypeOK, Slots
      <4>2. Dist(front', rear') = Size - 1
        BY <1>3, <2>1, <4>1 DEF QueueInv, TypeOK
      <4> QED BY <3>1, <4>1, <4>2 DEF Count
    <3> QED BY <3>2, <3>3
  <2>2. CASE rear # front
    <3>1. Count = Dist(front, rear)
      BY <2>2 DEF Count
    <3>2. Dist(front', rear') = Count - 1
      BY <1>3, <2>2, <3>1 DEF Deq, QueueInv, TypeOK
    <3>3. CASE front' = rear'
      <4>1. Count = 1
        BY <1>1, <1>2, <3>2, <3>3, DistRange DEF TypeOK
      <4>2. ~queue[rear].valid
        BY <3>1, DistRange DEF QueueInv, Contiguous, TypeOK
      <4>3. ~queue'[front'].valid
        BY <2>2, <3>3, <4>2 DEF Deq, QueueInv, TypeOK
      <4> QED BY <3>3, <4>1, <4>3 DEF Count
    <3>4. CASE front' # rear'
      BY <3>2, <3>4 DEF Count
    <3> QED BY <3>3, <3>4
  <2> QED BY <2>1, <2>2
<1>6. ASSUME NEW i \in Slots
      PROVE  queue'[i].valid <=> Dist(front', i) < Count'
  <2>1. queue'[i].valid <=> (queue[i].valid /\ i # front)
    BY DEF Deq, QueueInv, TypeOK
  <2>2. queue[i].valid <=> Dist(front, i) < Count
    BY DEF QueueInv, Contiguous
  <2>3. /\ Dist(front, i) \in 0 .. Size - 1
        /\ Dist(front, i) = 0 <=> i = front
    BY DistRange DEF QueueInv, TypeOK
  <2>4. front' = Succ(front)
    BY DEF Deq
  <2> QED BY <1>2, <1>3, <1>5, <2>1, <2>2, <2>3, <2>4, SizeAssumption
<1> QED BY <1>1, <1>5, <1>6 DEF QueueInv, Contiguous

\* Both at once keep the number of elements.
LEMMA EnqDeqPreserves ==
  ASSUME QueueInv, NEW d \in Data, ~full, ~empty, EnqDeq(d)
  PROVE  QueueInv' /\ Count' = Count
<1>1. TypeOK'
  BY SuccInSlots DEF QueueInv, TypeOK, EnqDeq
<1>2. Count \in 1 .. Size - 1 /\ Dist(front, rear) = Count /\ rear # front
  BY WiresExact, CountRange, DistRange, SizeAssumption DEF Count, QueueInv, TypeOK
<1>3. ASSUME NEW i \in Slots
      PROVE  Dist(Succ(front), i) = IF i = front THEN Size - 1
                                                 ELSE Dist(front, i) - 1
  BY SizeAssumption DEF Dist, Succ, Slots, QueueInv, TypeOK
<1>4. Dist(Succ(front), Succ(rear)) = Count /\ Succ(front) # Succ(rear)
  BY <1>2, SizeAssumption DEF Dist, Succ, Slots, QueueInv, TypeOK
<1>5. Count' = Count
  BY <1>4 DEF Count, EnqDeq
<1>6. ASSUME NEW i \in Slots
      PROVE  queue'[i].valid <=> Dist(front', i) < Count'
  <2>1. queue'[i].valid <=> (i = rear \/ (queue[i].valid /\ i # front))
    BY <1>2 DEF EnqDeq, QueueInv, TypeOK
  <2>2. queue[i].valid <=> Dist(front, i) < Count
    BY DEF QueueInv, Contiguous
  <2>3. /\ Dist(front, i) \in 0 .. Size - 1
        /\ Dist(front, i) = 0 <=> i = front
    BY DistRange DEF QueueInv, TypeOK
  <2>4. i = rear <=> Dist(front, i) = Count
    BY <1>2, SizeAssumption DEF Dist, Slots, QueueInv, TypeOK
  <2>5. front' = Succ(front)
    BY DEF EnqDeq
  <2> QED BY <1>2, <1>3, <1>5, <2>1, <2>2, <2>3, <2>4, <2>5, SizeAssumption
<1> QED BY <1>1, <1>5, <1>6 DEF QueueInv, Contiguous

\* The occupied slots are always the ones from front on, as many as the
\* pointers say.
THEOREM QueueInvariant == Spec => []QueueInv
<1>1. Init => QueueInv
  BY InitQueue
<1>2. QueueInv /\ [Next]_vars => QueueInv'
  <2>1. SUFFICES ASSUME QueueInv, [Next]_vars PROVE QueueInv'
    OBVIOUS
  <2>2. CASE UNCHANGED vars
    BY <2>1, <2>2 DEF vars, QueueInv, TypeOK, Contiguous, Count
  <2>3. CASE Next
    BY <2>1, <2>3, ClearPreserves, EnqPreserves, DeqPreserves, EnqDeqPreserves
       DEF Next
  <2> QED BY <2>1, <2>2, <2>3
<1> QED BY <1>1, <1>2, PTL DEF Spec

\* So the wires tell the truth, and the queue never loses an element.
THEOREM ContiguousHolds == Spec => []Contiguous
  BY QueueInvariant, PTL DEF QueueInv

-----------------------------------------------------------------------------
(* The refinement of Fifo                                                  *)

\* The slot of the element that is i places behind the front.
Place(f, i) == IF f + i >= Size THEN f + i - Size ELSE f + i

\* Places and distances are inverses.
LEMMA PlaceDist ==
  ASSUME NEW f \in Slots, NEW i \in 0 .. Size - 1
  PROVE  Place(f, i) \in Slots /\ Dist(f, Place(f, i)) = i
  BY SizeAssumption DEF Place, Dist, Slots

\* Seen from the next slot, everything is one place nearer.
LEMMA PlaceSucc ==
  ASSUME NEW f \in Slots, NEW i \in 0 .. Size - 2
  PROVE  Place(Succ(f), i) = Place(f, i + 1)
  BY SizeAssumption DEF Place, Succ, Slots

\* An element that is as far behind the front as the rear is at the rear.
LEMMA PlaceRear ==
  ASSUME NEW f \in Slots, NEW r \in Slots
  PROVE  Place(f, Dist(f, r)) = r
  BY SizeAssumption DEF Place, Dist, Slots

ContentsAreSeq ==
  /\ Contents \in Seq(Data)
  /\ Len(Contents) = Count
  /\ \A k \in 1 .. Count : Contents[k] = queue[Place(front, k - 1)].bits

\* The contents are a sequence of Count elements, found at their places.
LEMMA ContentsSeq == QueueInv => ContentsAreSeq
<1> SUFFICES ASSUME QueueInv PROVE ContentsAreSeq
  OBVIOUS
<1>1. Count \in 0 .. Size /\ Count \in Nat
  BY CountRange, SizeAssumption DEF QueueInv
<1>2. ASSUME NEW k \in 1 .. Count
      PROVE  /\ element_vec[k - 1].bits = queue[Place(front, k - 1)].bits
             /\ queue[Place(front, k - 1)].bits \in Data
  <2>1. k - 1 \in Slots
    BY <1>1, SizeAssumption DEF Slots
  <2>2. element_vec[k - 1] = queue[Place(front, k - 1)]
    BY <2>1 DEF element_vec, Place
  <2>3. Place(front, k - 1) \in Slots
    BY <2>1, PlaceDist DEF QueueInv, TypeOK, Slots
  <2> QED BY <2>2, <2>3 DEF QueueInv, TypeOK
<1>3. Contents \in [1 .. Count -> Data]
  BY <1>2 DEF Contents
<1>4. Contents \in Seq(Data) /\ Len(Contents) = Count
  BY <1>1, <1>3
<1> QED BY <1>2, <1>4 DEF ContentsAreSeq, Contents

\* A clear leaves no contents.
LEMMA ClearContents ==
  ASSUME ContentsAreSeq', Count' = 0
  PROVE  Contents' = <<>>
  BY EmptySeq DEF ContentsAreSeq

\* An enqueue appends its element.
LEMMA EnqContents ==
  ASSUME QueueInv, ContentsAreSeq, ContentsAreSeq',
         NEW d \in Data, ~full, Enq(d), Count' = Count + 1
  PROVE  Contents' = Append(Contents, d)
<1>1. Count \in 0 .. Size - 1 /\ Dist(front, rear) = Count
  BY WiresExact, CountRange, DistRange, SizeAssumption DEF Count, QueueInv, TypeOK
<1>2. Place(front, Count) = rear
  BY <1>1, PlaceRear DEF QueueInv, TypeOK
<1>3. ASSUME NEW k \in 1 .. Count
      PROVE  queue'[Place(front, k - 1)].bits = queue[Place(front, k - 1)].bits
  <2>1. Place(front, k - 1) \in Slots /\ Dist(front, Place(front, k - 1)) = k - 1
    BY <1>1, PlaceDist, SizeAssumption DEF QueueInv, TypeOK
  <2>2. Place(front, k - 1) # rear
    BY <1>1, <2>1
  <2> QED BY <2>1, <2>2 DEF Enq, QueueInv, TypeOK
<1>4. queue'[rear].bits = d /\ front' = front
  BY DEF Enq, QueueInv, TypeOK
<1>5. ASSUME NEW k \in 1 .. Count + 1
      PROVE  Contents'[k] = IF k = Count + 1 THEN d ELSE Contents[k]
  BY <1>1, <1>2, <1>3, <1>4 DEF ContentsAreSeq
<1>6. Append(Contents, d) \in Seq(Data) /\ Len(Append(Contents, d)) = Count + 1
  BY AppendProperties DEF ContentsAreSeq
<1>7. \A k \in 1 .. Count + 1 : Append(Contents, d)[k] = IF k = Count + 1 THEN d ELSE Contents[k]
  BY <1>1, AppendProperties DEF ContentsAreSeq
<1>8. \A k \in 1 .. Len(Contents') : Contents'[k] = Append(Contents, d)[k]
  BY <1>5, <1>7 DEF ContentsAreSeq
<1> QED BY <1>6, <1>8, SeqEqual DEF ContentsAreSeq

\* A dequeue takes the first element away.
LEMMA DeqContents ==
  ASSUME QueueInv, ContentsAreSeq, ContentsAreSeq', ~empty, Deq, Count' = Count - 1
  PROVE  Contents # <<>> /\ Contents' = Tail(Contents)
<1>1. Count \in 1 .. Size
  BY WiresExact, CountRange, SizeAssumption DEF QueueInv
<1>2. Contents # <<>>
  BY <1>1, EmptySeq DEF ContentsAreSeq
<1>3. ASSUME NEW k \in 1 .. Count - 1
      PROVE  Contents'[k] = Contents[k + 1]
  <2>1. Place(front', k - 1) = Place(front, k)
    BY <1>1, PlaceSucc, SizeAssumption DEF Deq, QueueInv, TypeOK
  <2>2. Place(front, k) \in Slots
    BY <1>1, PlaceDist, SizeAssumption DEF QueueInv, TypeOK
  <2>3. queue'[Place(front, k)].bits = queue[Place(front, k)].bits
    BY <2>2 DEF Deq, QueueInv, TypeOK
  <2> QED BY <1>1, <2>1, <2>3 DEF ContentsAreSeq
<1>4. /\ Tail(Contents) \in Seq(Data)
      /\ Len(Tail(Contents)) = Count - 1
      /\ \A k \in 1 .. Count - 1 : Tail(Contents)[k] = Contents[k + 1]
  BY <1>2, HeadTailProperties DEF ContentsAreSeq
<1>5. \A k \in 1 .. Len(Contents') : Contents'[k] = Tail(Contents)[k]
  BY <1>3, <1>4 DEF ContentsAreSeq
<1> QED BY <1>2, <1>4, <1>5, SeqEqual DEF ContentsAreSeq

\* Both in one cycle: the first element leaves, the new one is the last.
LEMMA EnqDeqContents ==
  ASSUME QueueInv, ContentsAreSeq, ContentsAreSeq',
         NEW d \in Data, ~full, ~empty, EnqDeq(d), Count' = Count
  PROVE  Contents # <<>> /\ Contents' = Append(Tail(Contents), d)
<1>1. Count \in 1 .. Size - 1 /\ Dist(front, rear) = Count
  BY WiresExact, CountRange, DistRange, SizeAssumption DEF Count, QueueInv, TypeOK
<1>2. Contents # <<>>
  BY <1>1, EmptySeq DEF ContentsAreSeq
<1>3. /\ Tail(Contents) \in Seq(Data)
      /\ Len(Tail(Contents)) = Count - 1
      /\ \A k \in 1 .. Count - 1 : Tail(Contents)[k] = Contents[k + 1]
  BY <1>2, HeadTailProperties DEF ContentsAreSeq
<1>4. Place(front, Count) = rear
  BY <1>1, PlaceRear DEF QueueInv, TypeOK
<1>5. ASSUME NEW k \in 1 .. Count
      PROVE  Contents'[k] = IF k = Count THEN d ELSE Contents[k + 1]
  <2>1. Place(front', k - 1) = Place(front, k)
    <3>1. k - 1 \in 0 .. Size - 2 /\ (k - 1) + 1 = k
      BY <1>1, SizeAssumption
    <3>2. front' = Succ(front) /\ front \in Slots
      BY DEF EnqDeq, QueueInv, TypeOK
    <3> QED BY <3>1, <3>2, PlaceSucc
  <2>2. Place(front, k) \in Slots /\ Dist(front, Place(front, k)) = k
    BY <1>1, PlaceDist, SizeAssumption DEF QueueInv, TypeOK
  <2>3. queue'[Place(front, k)].bits =
          IF Place(front, k) = rear THEN d ELSE queue[Place(front, k)].bits
    BY <2>2 DEF EnqDeq, QueueInv, TypeOK
  <2>4. Place(front, k) = rear <=> k = Count
    BY <1>1, <1>4, <2>2
  <2>5. Contents'[k] = queue'[Place(front', k - 1)].bits
    BY DEF ContentsAreSeq
  <2>6. k # Count => Contents[k + 1] = queue[Place(front, k)].bits
    BY <1>1 DEF ContentsAreSeq
  <2> QED BY <2>1, <2>3, <2>4, <2>5, <2>6
<1>6. Append(Tail(Contents), d) \in Seq(Data) /\ Len(Append(Tail(Contents), d)) = Count
  BY <1>1, <1>3, AppendProperties
<1>7. \A k \in 1 .. Count : Append(Tail(Contents), d)[k] = IF k = Count THEN d ELSE Contents[k + 1]
  BY <1>1, <1>3, AppendProperties
<1>8. \A k \in 1 .. Len(Contents') : Contents'[k] = Append(Tail(Contents), d)[k]
  BY <1>5, <1>7 DEF ContentsAreSeq
<1> QED BY <1>2, <1>6, <1>8, SeqEqual DEF ContentsAreSeq

\* Whatever the users of the queue do that its contract allows, its contents change as those
\* of a first-in first-out queue of Size elements do: no element is lost, doubled or
\* overtaken when the pointers wrap.
THEOREM RefinesFifoHolds == Spec => RefinesFifo
<1>1. QueueInv => ContentsAreSeq
  BY ContentsSeq
<1>2. QueueInv' => ContentsAreSeq'
  BY <1>1, PTL
<1>3. Init => Abstract!Init
  <2> SUFFICES ASSUME Init PROVE Contents = <<>>
    BY DEF Abstract!Init
  <2>1. Count = 0
    BY InitQueue
  <2> QED BY <2>1 DEF Contents
<1>4. QueueInv /\ QueueInv' /\ [Next]_vars => [Abstract!Next]_Contents
  <2> SUFFICES ASSUME QueueInv, QueueInv', [Next]_vars
               PROVE  Abstract!Next \/ Contents' = Contents
    OBVIOUS
  <2>1. ContentsAreSeq /\ ContentsAreSeq'
    BY <1>1, <1>2
  <2>2. ~full => Len(Contents) < Size
    BY <2>1, WiresExact, CountRange, SizeAssumption DEF ContentsAreSeq, QueueInv
  <2>3. CASE Clear
    BY <2>1, <2>3, ClearPreserves, ClearContents DEF Abstract!Next, Abstract!Clear
  <2>4. CASE ~empty /\ Deq
    BY <2>1, <2>4, DeqPreserves, DeqContents DEF Abstract!Next, Abstract!Get
  <2>5. ASSUME NEW d \in Data, ~full, Enq(d) PROVE Abstract!Next
    <3>1. Contents' = Append(Contents, d)
      BY <2>1, <2>5, EnqPreserves, EnqContents
    <3> QED BY <2>2, <2>5, <3>1 DEF Abstract!Next, Abstract!Put
  <2>6. ASSUME NEW d \in Data, ~full, ~empty, EnqDeq(d) PROVE Abstract!Next
    <3>1. Contents # <<>> /\ Contents' = Append(Tail(Contents), d)
      BY <2>1, <2>6, EnqDeqPreserves, EnqDeqContents
    <3> QED BY <2>2, <2>6, <3>1 DEF Abstract!Next, Abstract!PutGet
  <2>7. CASE UNCHANGED vars
    BY <2>7 DEF vars, Contents, Count, element_vec, Dist
  <2> QED BY <2>3, <2>4, <2>5, <2>6, <2>7 DEF Next
<1> QED BY <1>3, <1>4, QueueInvariant, PTL DEF Spec, RefinesFifo, Abstract!Spec
=============================================================================
