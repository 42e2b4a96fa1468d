-------------------------------- MODULE Fifo --------------------------------
(***************************************************************************)
(* What the users of a CircularQueue rely on: a bounded first-in first-out *)
(* queue that can be emptied at once, and that can take an element and     *)
(* give one up in the same cycle.                                          *)
(***************************************************************************)
EXTENDS Naturals, Sequences

CONSTANTS Size, Data

VARIABLE contents

Init == contents = <<>>

Clear == contents' = <<>>
Put(d) == Len(contents) < Size /\ contents' = Append(contents, d)
Get == contents # <<>> /\ contents' = Tail(contents)
PutGet(d) == contents # <<>> /\ Len(contents) < Size
             /\ contents' = Append(Tail(contents), d)

Next == Clear \/ Get \/ \E d \in Data : Put(d) \/ PutGet(d)

Spec == Init /\ [][Next]_contents
=============================================================================
