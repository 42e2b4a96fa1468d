---------------------------- MODULE CircularQueue ----------------------------
(***************************************************************************)
(* The circular queue of src/playground/src/utils/Queue.scala, which holds *)
(* the instruction queue of the decoder (32 entries), the store queue of   *)
(* the LSU (8) and the pending redirect of the fetch unit (1).  Each slot  *)
(* has a valid bit; the queue is full when all are set and empty when none *)
(* is.  The module guards neither an enqueue when full nor a dequeue when  *)
(* empty: its users do, and that is the contract of Next.                  *)
(***************************************************************************)
EXTENDS Integers, FiniteSets, Sequences

CONSTANTS
  Size,   \* the number of slots
  Data,   \* what a slot can hold
  Zero    \* the cleared slot's data

ASSUME SizeAssumption == Size \in Nat \ {0}
ASSUME ZeroAssumption == Zero \in Data

Slots == 0 .. Size - 1

VARIABLES
  queue,   \* the slots, each with a valid bit
  rear,    \* where the next element goes
  front    \* the oldest element

vars == <<queue, rear, front>>

EmptySlot == [valid |-> FALSE, bits |-> Zero]

Succ(p) == IF p = Size - 1 THEN 0 ELSE p + 1

full  == \A i \in Slots : queue[i].valid
empty == \A i \in Slots : ~queue[i].valid
front_data == queue[front].bits

\* Mutant: the elements are given by slot, not from the front.
element_vec_slots == [i \in Slots |-> queue[i]]

\* The elements in order from the front, with their valid bits.
element_vec == [i \in Slots |->
                  queue[IF front + i >= Size THEN front + i - Size ELSE front + i]]

Init == /\ queue = [i \in Slots |-> EmptySlot]
        /\ rear = 0 /\ front = 0

\* Mutant: a clear forgets the front pointer.
Clear_rear == /\ queue' = [i \in Slots |-> EmptySlot]
              /\ rear' = 0 /\ UNCHANGED front

Clear == /\ queue' = [i \in Slots |-> EmptySlot]
         /\ rear' = 0 /\ front' = 0

Enq(d) == /\ queue' = [queue EXCEPT ![rear] = [valid |-> TRUE, bits |-> d]]
          /\ rear' = Succ(rear)
          /\ UNCHANGED front

Deq == /\ queue' = [queue EXCEPT ![front].valid = FALSE]
       /\ front' = Succ(front)
       /\ UNCHANGED rear

\* Both in one cycle; the dequeue's assignment of the valid bit is the later.
EnqDeq(d) ==
  /\ queue' = [ [queue EXCEPT ![rear] = [valid |-> TRUE, bits |-> d]]
                EXCEPT ![front].valid = FALSE ]
  /\ rear' = Succ(rear)
  /\ front' = Succ(front)

Next == \/ Clear
        \/ ~empty /\ Deq
        \/ \E d \in Data : ~full /\ Enq(d)
        \/ \E d \in Data : ~full /\ ~empty /\ EnqDeq(d)

Spec == Init /\ [][Next]_vars

-----------------------------------------------------------------------------
Dist(a, b) == IF b >= a THEN b - a ELSE b - a + Size

\* The number of elements, from the pointers: equal pointers mean full when
\* the slot they point at is occupied.
Count == IF rear = front THEN (IF queue[front].valid THEN Size ELSE 0)
                         ELSE Dist(front, rear)

TypeOK == /\ queue \in [Slots -> [valid: BOOLEAN, bits: Data]]
          /\ rear \in Slots
          /\ front \in Slots

\* The occupied slots are the Count slots from the front: so full and empty,
\* which look at the valid bits, agree with the pointers, and the front is
\* occupied whenever any slot is.
Contiguous ==
  \A i \in Slots : queue[i].valid <=> Dist(front, i) < Count

\* The queue's contents, oldest first.
Contents == [k \in 1 .. Count |-> element_vec[k - 1].bits]

\* The queue is a bounded FIFO.
Abstract == INSTANCE Fifo WITH contents <- Contents
RefinesFifo == Abstract!Spec
=============================================================================
