------------------------------- MODULE Cache -------------------------------
(***************************************************************************)
(* The write-back, write-allocate cache of Cache.scala (MkCache with its   *)
(* two ways and readOnly = false): the main state machine that looks up,   *)
(* misses, receives and refills, the one-entry buffer that writes a hit    *)
(* into the data memory a cycle later, and the state machine that sends a  *)
(* dirty line or an uncached word to the bus.  The three run concurrently. *)
(*                                                                         *)
(* A memory (SRAM.scala) answers a cycle after it got an address, with     *)
(* what it holds by then: the Verilog that is built registers the address. *)
(* All tag memories get the same address; so do the data banks, but for    *)
(* the one the write buffer writes, which gets the buffer's.               *)
(*                                                                         *)
(* An address is a tag, a set and a word of the line; the tag of a request *)
(* is the physical one, which the requester puts on the wire one cycle     *)
(* after the rest.                                                         *)
(***************************************************************************)
EXTENDS Integers, FiniteSets

CONSTANTS
  Tags, Sets,
  LineWords,  \* WORDS_PER_LINE
  Values      \* what a word can hold; 0 is the initial contents

ASSUME CacheAssumption == /\ LineWords \in Nat \ {0} /\ 0 \in Values
                          /\ Tags # {} /\ Sets # {}

VARIABLES
  tagv, data, dirty,  \* tagv_ram, data_ram and dirty_bits, by way and set
  state, req,         \* the main state machine and the request it works on
  replace_way, recv_data, recv_cnt,
  wreq,               \* wstate = wsWrite, and what it writes
  wreq_r,             \* the same, a cycle ago
  dstate, dreq, send_cnt

cacheVars == <<tagv, data, dirty, state, req, replace_way, recv_data,
               recv_cnt, wreq, wreq_r, dstate, dreq, send_cnt>>

Ways    == {0, 1}
Offs    == 0 .. LineWords - 1
Addr    == [tag: Tags, set: Sets, off: Offs]
Line    == [Offs -> Values]
Request == [addr: Addr, wr: BOOLEAN, uncached: BOOLEAN, data: Values,
            cacop: {"none", "idx_inv", "hit_inv"}, way: Ways, word: BOOLEAN]

ZeroLine == [o \in Offs |-> 0]
ZeroAddr == [tag |-> CHOOSE t \in Tags : TRUE, set |-> CHOOSE s \in Sets : TRUE, off |-> 0]
NoReq    == [addr |-> ZeroAddr, wr |-> FALSE, uncached |-> FALSE, data |-> 0,
             cacop |-> "none", way |-> 0, word |-> TRUE]
NoWrite  == [on |-> FALSE, way |-> 0, addr |-> ZeroAddr, data |-> 0]
NoLine   == [addr |-> ZeroAddr, line |-> ZeroLine, uncached |-> FALSE]

\* The inputs of a cycle: the request on the port, if any; the random way;
\* and the bus: the handshakes of the address and data channels and what a
\* read returns.
Input == [valid: BOOLEAN, req: Request, lfsr: Ways, ar_ready: BOOLEAN,
          rvalid: BOOLEAN, rlast: BOOLEAN, rdata: Values,
          aw_ready: BOOLEAN, w_ready: BOOLEAN]

-----------------------------------------------------------------------------
(* Lookup.                                                                 *)

set == req.addr.set

\* What the memories answer: they were addressed with the set of the request,
\* except the bank that the write buffer wrote a cycle ago.
tagv_out(w) == tagv[w][set]
DataOut(w, o) ==
  IF wreq_r.on /\ wreq_r.way = w /\ wreq_r.addr.off = o
  THEN data[w][wreq_r.addr.set][o] ELSE data[w][set][o]
LineOut(w) == [o \in Offs |-> DataOut(w, o)]

total_hits == {w \in Ways : tagv_out(w).valid /\ tagv_out(w).tag = req.addr.tag}
hit == total_hits # {} /\ state = "sLookup" /\ req.cacop = "none" /\ ~req.uncached

\* OHToUInt of two hit bits.
hit_way == IF 1 \in total_hits THEN 1 ELSE 0

\* Mutant: the bank that is still being written is read at once.
war_stall_1 == /\ wreq_r.on /\ wreq_r.way = hit_way /\ wreq_r.addr.off = req.addr.off
               /\ ~req.wr /\ ~req.uncached

\* A load waits while the bank it reads is written, and one cycle longer.
war_stall == /\ \E w \in {wreq, wreq_r} :
                  w.on /\ w.way = hit_way /\ w.addr.off = req.addr.off
             /\ ~req.wr /\ ~req.uncached

cache_ready == state = "sIdle" \/ (hit /\ ~war_stall)

-----------------------------------------------------------------------------
(* The bus side.                                                           *)

dstate_idle == dstate = "dsIdle"

UncachedWrite == req.uncached /\ req.wr
ar_valid == state = "sMiss" /\ ~UncachedWrite /\ req.cacop = "none"
aw_valid == dstate = "dsReq"
w_valid  == dstate = "dsWrite"
r_ready  == state = "sReplace" /\ req.cacop = "none"
ar_addr  == IF req.uncached THEN req.addr ELSE [req.addr EXCEPT !.off = 0]
aw_addr  == IF dreq.uncached THEN dreq.addr ELSE [dreq.addr EXCEPT !.off = 0]
w_data   == IF dreq.uncached THEN dreq.line[0] ELSE dreq.line[send_cnt]
w_last   == dreq.uncached \/ send_cnt = LineWords - 1

\* Mutant: the last word must come in this very cycle.
Received_last(in) == in.rvalid /\ in.rlast

Received(in) == (in.rvalid /\ in.rlast) \/ recv_cnt = LineWords

\* The way whose line must leave: the one to be refilled or the one a cache
\* instruction names.
dirty_way == CASE req.cacop = "hit_inv" -> hit_way
               [] req.cacop = "idx_inv" -> req.way
               [] OTHER                 -> replace_way
cacheline_wr_en == /\ state = "sReplace" /\ ~req.uncached
                   /\ dirty[dirty_way][set] /\ tagv_out(dirty_way).valid
uncached_wr_en == state = "sMiss" /\ UncachedWrite /\ dstate_idle
SendsLine == cacheline_wr_en /\ dstate_idle

-----------------------------------------------------------------------------
(* The answer.                                                             *)

RespCached   == state = "sLookup" /\ hit /\ ~war_stall
RespUncachedRead(in) == state = "sReplace" /\ req.uncached /\ ~req.wr
                        /\ in.rvalid /\ in.rlast
resp_valid(in) == RespCached \/ uncached_wr_en \/ RespUncachedRead(in)
resp_rdata(in) == IF state = "sLookup" THEN DataOut(hit_way, req.addr.off) ELSE in.rdata

-----------------------------------------------------------------------------
(* The registers after a cycle.                                            *)

Accepted(in) == in.valid /\ cache_ready

\* All words are there, and the dirty line they replace has gone into dreq.
ReplaceDone(in) == Received(in) /\ (dirty[replace_way][set] => dstate_idle)

NextState(in) ==
  CASE state = "sIdle" -> IF in.valid THEN "sLookup" ELSE "sIdle"
    [] state = "sLookup" ->
         CASE req.uncached \/ req.cacop # "none" -> "sMiss"
           [] hit /\ (war_stall \/ in.valid)     -> "sLookup"
           [] hit /\ ~(war_stall \/ in.valid)    -> "sIdle"
           [] OTHER                              -> "sMiss"
    [] state = "sMiss" ->
         CASE UncachedWrite       -> IF dstate_idle THEN "sIdle" ELSE "sMiss"
           [] req.cacop # "none"  -> "sReplace"
           [] OTHER               -> IF in.ar_ready THEN "sReplace" ELSE "sMiss"
    [] state = "sReplace" ->
         CASE req.cacop # "none"  -> "sRefill"
           [] req.uncached        -> IF in.rvalid /\ in.rlast THEN "sIdle" ELSE "sReplace"
           [] OTHER               -> IF ReplaceDone(in) THEN "sRefill" ELSE "sReplace"
    [] state = "sRefill" -> IF req.cacop = "none" THEN "sLookup" ELSE "sIdle"

\* idle_way is PriorityEncoder of the valid bits: the first way that is valid,
\* or else the last.  The register keeps the way; it is looked at again only
\* while the miss is handled.
ValidWays == {w \in Ways : tagv_out(w).valid}
NextReplaceWay(in) ==
  CASE NextState(in) \in {"sIdle", "sLookup"} -> 0
    [] state = "sLookup" /\ NextState(in) = "sMiss" /\ ~req.uncached ->
         CASE ValidWays = Ways -> in.lfsr
           [] ValidWays = {0}  -> 0
           [] OTHER            -> 1
    [] OTHER -> replace_way

\* The request register keeps what it held; what is not looked at again is
\* forgotten here.
NextReq(in) == IF Accepted(in) THEN in.req
               ELSE IF NextState(in) = "sIdle" THEN NoReq ELSE req

\* A beat of the read burst.
ReceiveStep(in) ==
  LET beat == r_ready /\ in.rvalid /\ ~req.uncached
  IN  /\ recv_data' = IF beat THEN [recv_data EXCEPT ![recv_cnt] = in.rdata]
                      ELSE IF state = "sRefill" THEN ZeroLine ELSE recv_data
      /\ recv_cnt' = IF beat THEN recv_cnt + 1
                     ELSE IF state = "sReplace" THEN recv_cnt ELSE 0

\* The way a cache instruction invalidates.
Invalidated == IF req.cacop = "idx_inv" THEN req.way ELSE hit_way

TagStep ==
  tagv' = CASE state = "sRefill" /\ req.cacop = "none" ->
                 [tagv EXCEPT ![replace_way][set] = [valid |-> TRUE, tag |-> req.addr.tag]]
            [] state = "sRefill" /\ req.cacop # "none" ->
                 [tagv EXCEPT ![Invalidated][set].valid = FALSE]
            [] OTHER -> tagv

DataStep ==
  data' = CASE wreq.on -> [data EXCEPT ![wreq.way][wreq.addr.set][wreq.addr.off] = wreq.data]
            [] ~wreq.on /\ state = "sRefill" /\ req.cacop = "none" ->
                 [data EXCEPT ![replace_way][set] = recv_data]
            [] OTHER -> data

\* A write hit marks its line; a line that is sent is clean.
DirtyStep ==
  LET marked == IF wreq.on THEN [dirty EXCEPT ![wreq.way][wreq.addr.set] = TRUE] ELSE dirty
  IN  dirty' = IF SendsLine THEN [marked EXCEPT ![dirty_way][set] = FALSE] ELSE marked

\* A write that hits goes to the data memory in the next cycle.
WriteHitStep ==
  /\ wreq' = IF hit /\ req.wr
             THEN [on |-> TRUE, way |-> hit_way, addr |-> req.addr, data |-> req.data]
             ELSE NoWrite
  /\ wreq_r' = wreq

\* A dirty line or an uncached word goes to the bus.
WriteBackStep(in) ==
  /\ dstate' = CASE dstate = "dsIdle" ->
                      IF SendsLine \/ uncached_wr_en THEN "dsReq" ELSE "dsIdle"
                 [] dstate = "dsReq" -> IF in.aw_ready THEN "dsWrite" ELSE "dsReq"
                 [] dstate = "dsWrite" -> IF in.w_ready /\ w_last THEN "dsIdle" ELSE "dsWrite"
  /\ dreq' = CASE SendsLine ->
                    [addr |-> [tag |-> tagv_out(dirty_way).tag, set |-> set, off |-> 0],
                     line |-> LineOut(dirty_way), uncached |-> FALSE]
               [] uncached_wr_en ->
                    [addr |-> req.addr, line |-> [ZeroLine EXCEPT ![0] = req.data],
                     uncached |-> TRUE]
               [] OTHER -> IF dstate' = "dsIdle" THEN NoLine ELSE dreq
  /\ send_cnt' = IF w_valid /\ in.w_ready /\ ~w_last THEN send_cnt + 1
                 ELSE IF w_valid /\ ~in.w_ready THEN send_cnt ELSE 0

CacheInit ==
  /\ tagv  = [w \in Ways |-> [s \in Sets |-> [valid |-> FALSE, tag |-> ZeroAddr.tag]]]
  /\ data  = [w \in Ways |-> [s \in Sets |-> ZeroLine]]
  /\ dirty = [w \in Ways |-> [s \in Sets |-> FALSE]]
  /\ state = "sIdle" /\ req = NoReq
  /\ replace_way = 0 /\ recv_data = ZeroLine /\ recv_cnt = 0
  /\ wreq = NoWrite /\ wreq_r = NoWrite
  /\ dstate = "dsIdle" /\ dreq = NoLine /\ send_cnt = 0

CacheClock(in) ==
  /\ state' = NextState(in) /\ req' = NextReq(in)
  /\ replace_way' = NextReplaceWay(in)
  /\ ReceiveStep(in) /\ TagStep /\ DataStep /\ DirtyStep
  /\ WriteHitStep /\ WriteBackStep(in)

=============================================================================
