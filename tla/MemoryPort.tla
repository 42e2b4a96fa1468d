----------------------------- MODULE MemoryPort -----------------------------
(***************************************************************************)
(* What the load/store unit relies on when it talks to the data cache: a   *)
(* memory that works on one request at a time, at which a write takes      *)
(* effect when it is taken, and that can take the next request in the      *)
(* cycle in which it answers the last one.                                 *)
(***************************************************************************)
EXTENDS Naturals

CONSTANT Addrs

VARIABLES
  m,       \* the memory
  pending  \* the request that was taken and is not answered yet: a set of one

After(r) == IF r.wr THEN [m EXCEPT ![r.addr] = r.data] ELSE m

Init == m = [a \in Addrs |-> 0] /\ pending = {}

Take          == pending = {} /\ \E r \in pending' : pending' = {r} /\ m' = After(r)
Answer        == pending # {} /\ pending' = {} /\ UNCHANGED m
AnswerAndTake == pending # {} /\ \E r \in pending' : pending' = {r} /\ m' = After(r)

Next == Take \/ Answer \/ AnswerAndTake

Spec == Init /\ [][Next]_<<m, pending>>
=============================================================================
