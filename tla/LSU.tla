-------------------------------- MODULE LSU --------------------------------
(***************************************************************************)
(* The load/store unit (src/playground/src/backend/LSU/LSU.scala with      *)
(* ISA/la32/LSU.scala) as seen from its ports: the operand register that   *)
(* feeds it, the commit of stores, the data cache.  Loads go one at a time *)
(* through a buffer with four states; stores wait in a queue until their   *)
(* commit sends them to the cache; a load looks the queue up once, in the  *)
(* cycle its physical address arrives, and lays what it found over the     *)
(* word the cache returns.                                                 *)
(*                                                                         *)
(* This module has the registers, the wires and the next value of every    *)
(* register, as functions of the inputs "in" of a cycle; LSUSystem and     *)
(* Backend put it between its neighbours.  A word is a function from its   *)
(* byte lanes to values.                                                   *)
(***************************************************************************)
EXTENDS Integers, FiniteSets, Sequences

CONSTANTS
  Ids,      \* the names of instructions in flight
  Words,    \* the physical word addresses
  Lanes,    \* the bytes of a word
  Values,   \* what a byte can hold
  QSize     \* the entries of the store queue

ASSUME LSUAssumption == /\ Ids # {} /\ Words # {} /\ Lanes # {} /\ Values # {}
                        /\ QSize \in 1 .. 8

VARIABLES
  lstate,    \* the load state machine
  lreq_r,    \* RegNext(lstate) was lReq
  load_buf,  \* the load in progress: its id, address, data and exception
  stq_hit,   \* the queue entry the load found, or NoHit
  store_d,   \* the store accepted in the previous cycle
  stq, stq_rear, stq_front   \* the store queue

lsuVars == <<lstate, lreq_r, load_buf, stq_hit, store_d, stq, stq_rear, stq_front>>

Kinds  == {"load", "store", "sc"}
Word   == [Lanes -> Values]
LStates == {"lIdle", "lReq", "lWait", "lWriteback"}
LoadExcps == {"none", "unalign", "tlb"}

\* An operation in the operand register.
Op == [id: Ids, kind: Kinds, addr: Words, lanes: SUBSET Lanes, data: Values]

StoreEntry == [id: Ids, addr: Words, lanes: SUBSET Lanes, data: Values, sc: BOOLEAN]
ZeroWord   == [l \in Lanes |-> CHOOSE v \in Values : TRUE]
NoStore    == [id |-> CHOOSE i \in Ids : TRUE, addr |-> CHOOSE w \in Words : TRUE,
               lanes |-> {}, data |-> CHOOSE v \in Values : TRUE, sc |-> FALSE]
NoHit == [hit |-> FALSE, item |-> NoStore]
NoLoad == [id |-> CHOOSE i \in Ids : TRUE, addr |-> CHOOSE w \in Words : TRUE,
           rdata |-> ZeroWord, exception |-> "none"]

Q == INSTANCE CircularQueue WITH
       queue <- stq, rear <- stq_rear, front <- stq_front,
       Size <- QSize, Data <- StoreEntry, Zero <- NoStore

\* What the unit sees in a cycle: the operand register (valid and op), the
\* scoreboard's flush, the commit of the oldest instruction when it is a
\* store, the link bit, the stall while the TLB is being written, the
\* translation's verdict, and the cache's answers.
LSUInput == [valid: BOOLEAN, op: Op, flush: BOOLEAN, store_commit: BOOLEAN,
             llbit: BOOLEAN, tlb_busy: BOOLEAN, load_excp: LoadExcps,
             store_excp: BOOLEAN, req_ready: BOOLEAN, resp: BOOLEAN, rdata: Word]

-----------------------------------------------------------------------------
(* Wires.                                                                  *)

LoadReady(in)  == lstate = "lIdle" /\ ~in.tlb_busy
StoreReady(in) == ~Q!full /\ ~in.tlb_busy
InReady(in)    == IF in.op.kind = "load" THEN LoadReady(in) ELSE StoreReady(in)

LoadAccepted(in)  == in.valid /\ in.op.kind = "load" /\ LoadReady(in)

\* Mutant: a flush does not stop the store that is being accepted.
StoreAccepted_flush(in) == in.valid /\ in.op.kind # "load" /\ StoreReady(in)

\* store_en: a flush in the same cycle drops the store.
StoreAccepted(in) == in.valid /\ in.op.kind # "load" /\ StoreReady(in) /\ ~in.flush

\* Mutant: a store-conditional asks for the cache whatever the link bit says.
StoreReqValid_sc(in) == in.store_commit

\* The cache's request port serves the committing store before the load.  A
\* store-conditional asks for it only when the link bit is set.
StoreReqValid(in) == in.store_commit /\ (Q!front_data.sc => in.llbit)
LoadReqReady(in)  == in.req_ready /\ ~StoreReqValid(in)
LoadReqValid(in)  == lstate = "lReq" /\ in.load_excp # "unalign"

StoreReqFires(in) == in.req_ready /\ StoreReqValid(in)
LoadReqFires(in)  == LoadReqReady(in) /\ LoadReqValid(in)

\* The commit of a store is ready when the cache's port is.
StoreCommitAck(in) == in.store_commit /\ in.req_ready

\* The first cycle in lReq: the translation has answered.
paddr_v  == lstate = "lReq" /\ ~lreq_r
LoadExcp(in) == paddr_v /\ in.load_excp # "none"

\* The write-back port serves the store of the previous cycle before the load.
StoreWbValid == store_d.valid
LoadWbValid  == lstate = "lWriteback"

\* Mutant: the load takes the write-back port for granted.
LoadWbFires_always == LoadWbValid

LoadWbFires  == LoadWbValid /\ ~StoreWbValid
WbValid      == StoreWbValid \/ LoadWbValid
WbId         == IF StoreWbValid THEN store_d.entry.id ELSE load_buf.id
WbExcp(in)   == IF StoreWbValid THEN in.store_excp ELSE load_buf.exception # "none"

-----------------------------------------------------------------------------
(* The search of the store queue.  Position 0 is the oldest entry.         *)

Positions == 0 .. QSize - 1

stq_total_hits == { i \in Positions : /\ Q!element_vec[i].valid
                                      /\ Q!element_vec[i].bits.addr = load_buf.addr }

HasBit(i, w) == (i \div w) % 2 = 1
\* OHToUInt gives the position of a single hit; of several hits, the bitwise
\* or of their positions.  Positions have at most three bits.
OHToUInt(S) ==
  LET or(w) == IF \E i \in S : HasBit(i, w) THEN w ELSE 0
  IN  (or(1) + or(2) + or(4)) % QSize

\* Mutant: the whole word found replaces the one the cache returned.
RealRdata_word(rdata) ==
  [l \in Lanes |-> IF stq_hit.hit THEN stq_hit.item.data ELSE rdata[l]]

\* The bytes of the entry found, over the word the cache returned.  The type
\* of a queued store-conditional stands for no byte; only its commit makes it
\* that of a word.
HitLanes(entry) == IF entry.sc THEN {} ELSE entry.lanes
RealRdata(rdata) ==
  [l \in Lanes |-> IF stq_hit.hit /\ l \in HitLanes(stq_hit.item)
                   THEN stq_hit.item.data ELSE rdata[l]]

-----------------------------------------------------------------------------
(* The registers after a cycle.  None of the load's is touched by a flush. *)

NextLstate(in) ==
  CASE LoadAccepted(in)                               -> "lReq"
    [] LoadExcp(in)                                   -> "lWriteback"
    [] lstate = "lReq" /\ ~LoadExcp(in) /\ LoadReqReady(in) -> "lWait"
    [] lstate = "lWait" /\ in.resp                    -> "lWriteback"
    [] LoadWbFires                                    -> "lIdle"
    [] OTHER                                          -> lstate

\* Mutant: an accepted load keeps the exception of the load before it.
NextLoadBuf_excp(in) ==
  CASE LoadAccepted(in) -> [load_buf EXCEPT !.id = in.op.id, !.addr = in.op.addr]
    [] LoadExcp(in)     -> [load_buf EXCEPT !.exception = in.load_excp]
    [] lstate = "lWait" /\ in.resp -> [load_buf EXCEPT !.rdata = RealRdata(in.rdata)]
    [] OTHER            -> load_buf

NextLoadBuf(in) ==
  CASE LoadAccepted(in) -> [load_buf EXCEPT !.id = in.op.id, !.addr = in.op.addr,
                                            !.exception = "none"]
    [] LoadExcp(in)     -> [load_buf EXCEPT !.exception = in.load_excp]
    [] lstate = "lWait" /\ in.resp -> [load_buf EXCEPT !.rdata = RealRdata(in.rdata)]
    [] OTHER            -> load_buf

NextStqHit ==
  CASE ~paddr_v -> stq_hit
    [] paddr_v /\ stq_total_hits = {} -> NoHit
    [] paddr_v /\ stq_total_hits # {} ->
         [hit |-> TRUE, item |-> Q!element_vec[OHToUInt(stq_total_hits)].bits]

NextStoreD(in) ==
  IF StoreAccepted(in)
  THEN [valid |-> TRUE,
        entry |-> [id |-> in.op.id, addr |-> in.op.addr, lanes |-> in.op.lanes,
                   data |-> in.op.data, sc |-> in.op.kind = "sc"]]
  ELSE [valid |-> FALSE, entry |-> NoStore]

\* A store enters the queue in the cycle after its acceptance and leaves it
\* when its commit is acknowledged; a flush empties the queue and wins over both.
StoreQueueStep(in) ==
  CASE in.flush -> Q!Clear
    [] ~in.flush /\ store_d.valid /\ StoreCommitAck(in)   -> Q!EnqDeq(store_d.entry)
    [] ~in.flush /\ store_d.valid /\ ~StoreCommitAck(in)  -> Q!Enq(store_d.entry)
    [] ~in.flush /\ ~store_d.valid /\ StoreCommitAck(in)  -> Q!Deq
    [] OTHER -> UNCHANGED <<stq, stq_rear, stq_front>>

LSUInit ==
  /\ lstate = "lIdle" /\ lreq_r = FALSE
  /\ load_buf = NoLoad /\ stq_hit = NoHit
  /\ store_d = [valid |-> FALSE, entry |-> NoStore]
  /\ Q!Init

LSUClock(in) ==
  /\ lstate'   = NextLstate(in)
  /\ lreq_r'   = (lstate = "lReq")
  /\ load_buf' = NextLoadBuf(in)
  /\ stq_hit'  = NextStqHit
  /\ store_d'  = NextStoreD(in)
  /\ StoreQueueStep(in)

=============================================================================
