----------------------------- MODULE LSUControl -----------------------------
(***************************************************************************)
(* What the rest of the back end sees of the load/store unit: when it      *)
(* takes an operation, what it writes back, and whose store it commits.    *)
(* Addresses and data are left out and the store queue is the sequence of  *)
(* the ids in it.  LSUSystem shows that the unit of module LSU implements  *)
(* this one; module Backend uses it.                                       *)
(***************************************************************************)
EXTENDS Naturals, Sequences

CONSTANTS
  Ids,     \* the names of instructions in flight
  QSize    \* the entries of the store queue

VARIABLES
  lstate,    \* the load state machine
  lreq_r,    \* RegNext(lstate) was lReq
  load_id,   \* the load in progress, and whether it raised an exception
  load_excp,
  store_d,   \* <<id>> of the store accepted in the previous cycle, or <<>>
  stores     \* the ids of the queued stores, oldest first

lsuVars == <<lstate, lreq_r, load_id, load_excp, store_d, stores>>

Kinds == {"load", "store"}

\* req_ready and resp are the data cache's; store_req says that the committing
\* store asks for it, and excp that the access in its translation cycle faults.
Input == [valid: BOOLEAN, id: Ids, kind: Kinds, flush: BOOLEAN,
          store_commit: BOOLEAN, store_req: BOOLEAN, tlb_busy: BOOLEAN,
          excp: BOOLEAN, req_ready: BOOLEAN, resp: BOOLEAN]

InReady(kind, tlb_busy) ==
  /\ ~tlb_busy
  /\ IF kind = "load" THEN lstate = "lIdle" ELSE Len(stores) < QSize

LoadAccepted(in)  == in.valid /\ in.kind = "load" /\ InReady("load", in.tlb_busy)

\* Mutant: a flush does not stop the store that is being accepted.
StoreAccepted_flush(in) ==
  in.valid /\ in.kind = "store" /\ InReady("store", in.tlb_busy)

StoreAccepted(in) == in.valid /\ in.kind = "store" /\ InReady("store", in.tlb_busy)
                     /\ ~in.flush

LoadReqReady(in)   == in.req_ready /\ ~in.store_req
StoreCommitAck(in) == in.store_commit /\ in.req_ready
LoadExcp(in)       == lstate = "lReq" /\ ~lreq_r /\ in.excp

WbValid  == store_d # <<>> \/ lstate = "lWriteback"
WbIsLoad == store_d = <<>> /\ lstate = "lWriteback"
WbId     == IF WbIsLoad THEN load_id ELSE store_d[1]

\* Mutant: an answer that comes in a flush cycle is not taken.
NextLstate_flush(in) ==
  CASE LoadAccepted(in)                                -> "lReq"
    [] LoadExcp(in)                                    -> "lWriteback"
    [] lstate = "lReq" /\ ~LoadExcp(in) /\ LoadReqReady(in) -> "lWait"
    [] lstate = "lWait" /\ in.resp /\ ~in.flush        -> "lWriteback"
    [] WbIsLoad                                        -> "lIdle"
    [] OTHER                                           -> lstate

NextLstate(in) ==
  CASE LoadAccepted(in)                                -> "lReq"
    [] LoadExcp(in)                                    -> "lWriteback"
    [] lstate = "lReq" /\ ~LoadExcp(in) /\ LoadReqReady(in) -> "lWait"
    [] lstate = "lWait" /\ in.resp                     -> "lWriteback"
    [] WbIsLoad                                        -> "lIdle"
    [] OTHER                                           -> lstate

NextStores(in) ==
  IF in.flush THEN <<>>
  ELSE (IF StoreCommitAck(in) THEN Tail(stores) ELSE stores) \o store_d

Init == /\ lstate = "lIdle" /\ lreq_r = FALSE
        /\ load_id \in Ids /\ load_excp = FALSE
        /\ store_d = <<>> /\ stores = <<>>

Clock(in) ==
  /\ lstate' = NextLstate(in)
  /\ lreq_r' = (lstate = "lReq")
  /\ load_id' = IF LoadAccepted(in) THEN in.id ELSE load_id
  /\ load_excp' = CASE LoadAccepted(in) -> FALSE
                    [] LoadExcp(in)     -> TRUE
                    [] OTHER            -> load_excp
  /\ store_d' = IF StoreAccepted(in) THEN <<in.id>> ELSE <<>>
  /\ stores' = NextStores(in)

\* The users commit only a queued store.
Contract(in) == in.store_commit => stores # <<>>

Next == \E in \in Input : Contract(in) /\ Clock(in)

Spec == Init /\ [][Next]_lsuVars
=============================================================================
