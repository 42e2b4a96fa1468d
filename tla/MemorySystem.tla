---------------------------- MODULE MemorySystem ----------------------------
(***************************************************************************)
(* The data cache behind the bus arbiter, with the load/store unit's (and  *)
(* the cache instructions') requests on one side and, on the other, a bus  *)
(* memory that answers when it likes, and the reads of the instruction     *)
(* cache, which compete for it.  A step is one clock cycle.                *)
(*                                                                         *)
(* The bus memory is one that orders by acceptance: it writes a word when  *)
(* it takes it and reads a word when it returns it (as the simulator's     *)
(* does), and it works on one read and one write burst at a time.          *)
(***************************************************************************)
EXTENDS Cache

CONSTANTS
  Requests,      \* what the load/store unit and the cache instructions ask for
  CacopAnyTime,  \* a cache instruction also while a line is sent to the bus
  CodeAddr       \* the line the instruction cache reads

ASSUME MemorySystemAssumption ==
  /\ Requests \subseteq Request /\ CodeAddr \in Addr /\ CacopAnyTime \in BOOLEAN
  /\ \A p, q \in Requests : p.addr.tag = q.addr.tag => p.uncached = q.uncached

VARIABLES
  rreq_ongoing, rreq_idx_src2, wreq_ongoing, wreq_idx_src2, wreq_addr, aw_valid_r,
  fetch,  \* the instruction cache: "sIdle", "sMiss" or "sReplace"
  mem,    \* the bus memory
  rd, wr  \* the read and the write burst it works on

arbVars == <<rreq_ongoing, rreq_idx_src2, wreq_ongoing, wreq_idx_src2, wreq_addr, aw_valid_r>>
vars == <<cacheVars, arbVars, fetch, mem, rd, wr>>

Arb == INSTANCE AXIArbiter

NoRead  == [on |-> FALSE, who |-> 0, addr |-> ZeroAddr, cnt |-> 0, len |-> 1, word |-> TRUE]
NoBurst == [on |-> FALSE, addr |-> ZeroAddr]

Offered == IF ~cache_ready THEN {}
           ELSE { r \in Requests : r.cacop = "none" \/ CacopAnyTime \/ dstate_idle }

\* The word the bus memory returns next.  A burst advances by the size of its
\* beats (the request's wtype): one of bytes or half-words does not carry the
\* words of the line.
NextWord == [rd.addr EXCEPT !.off = @ + rd.cnt]
NextBeat == IF rd.len > 1 /\ ~rd.word THEN 0 ELSE mem[NextWord]

AR == [i \in {0, 1} |-> IF i = 0 THEN [valid |-> ar_valid, addr |-> ar_addr]
                                 ELSE [valid |-> fetch = "sMiss", addr |-> CodeAddr]]
AW == [i \in {0, 1} |-> [valid |-> i = 0 /\ aw_valid, addr |-> aw_addr]]

\* The wires of a cycle.  A request on the port, what the bus memory does (it
\* takes addresses when it works on no burst), and a miss of the fetch.
RawInputs ==
  [valid : IF Offered = {} THEN {FALSE} ELSE BOOLEAN,
   req   : IF Offered = {} THEN {NoReq} ELSE Offered,
   lfsr  : IF state = "sLookup" /\ ValidWays = Ways THEN Ways ELSE {0},
   sl_ar : IF ~rd.on /\ (ar_valid \/ fetch = "sMiss") THEN BOOLEAN ELSE {FALSE},
   sl_r  : IF rd.on THEN BOOLEAN ELSE {FALSE},
   sl_aw : IF ~wr.on /\ aw_valid THEN BOOLEAN ELSE {FALSE},
   sl_w  : IF wr.on THEN BOOLEAN ELSE {FALSE},
   miss  : IF fetch = "sIdle" THEN BOOLEAN ELSE {FALSE}]

ArbWires(in) ==
  [ar |-> AR, aw |-> AW, wlast |-> in.sl_w /\ w_last,
   rlast |-> in.sl_r /\ rd.cnt = rd.len - 1, ar_ready |-> in.sl_ar, aw_ready |-> in.sl_aw]

\* What the cache sees of them.
CacheInput(in, w) ==
  LET to_dcache == Arb!selected_rreq_idx(w) = 0
  IN  [valid |-> in.valid, req |-> in.req, lfsr |-> in.lfsr,
       ar_ready |-> to_dcache /\ Arb!ArFires(w),
       rvalid |-> to_dcache /\ in.sl_r, rlast |-> rd.cnt = rd.len - 1,
       rdata |-> IF rd.on THEN NextBeat ELSE 0,
       aw_ready |-> Arb!AwFires(w), w_ready |-> in.sl_w /\ w_valid]

-----------------------------------------------------------------------------
(* A clock cycle.                                                          *)

\* The instruction cache, as far as the bus sees it; mine: the arbiter connects
\* its read channel.
FetchStep(in, mine, fires, last) ==
  fetch' = CASE fetch = "sIdle"    -> IF in.miss THEN "sMiss" ELSE "sIdle"
             [] fetch = "sMiss"    -> IF mine /\ fires THEN "sReplace" ELSE "sMiss"
             [] fetch = "sReplace" -> IF mine /\ last THEN "sIdle" ELSE "sReplace"

ReadStep(in, who, fires, last) ==
  rd' = CASE fires -> [on |-> TRUE, who |-> who, addr |-> AR[who].addr, cnt |-> 0,
                       len |-> IF who = 0 /\ req.uncached THEN 1 ELSE LineWords,
                       word |-> who = 1 \/ req.word]
          [] in.sl_r -> IF last THEN NoRead ELSE [rd EXCEPT !.cnt = @ + 1]
          [] OTHER -> rd

WriteStep(in, fires) ==
  /\ wr' = CASE fires -> [on |-> TRUE, addr |-> aw_addr]
             [] in.sl_w -> IF w_last THEN NoBurst ELSE [wr EXCEPT !.addr.off = @ + 1]
             [] OTHER -> wr
  /\ mem' = IF in.sl_w THEN [mem EXCEPT ![wr.addr] = w_data] ELSE mem

Init ==
  /\ CacheInit /\ Arb!ArbiterInit
  /\ fetch = "sIdle" /\ mem = [a \in Addr |-> 0] /\ rd = NoRead /\ wr = NoBurst

Clock(in) ==
  LET w     == ArbWires(in)
      who   == Arb!selected_rreq_idx(w)
      fires == Arb!ArFires(w)
  IN  /\ CacheClock(CacheInput(in, w)) /\ Arb!ArbiterClock(w)
      /\ FetchStep(in, who = 1, fires, w.rlast)
      /\ ReadStep(in, who, fires, w.rlast) /\ WriteStep(in, Arb!AwFires(w))

\* A cycle in which the cache takes a request, and one in which it does not.
Take(in) == in.valid /\ Clock(in)
Work(in) == ~in.valid /\ Clock(in)

Next == \E in \in RawInputs : Take(in) \/ Work(in)

Spec == Init /\ [][Next]_vars

\* The bus memory takes and moves what it can.
Serving ==
  { [valid |-> FALSE, req |-> NoReq, lfsr |-> 0, sl_ar |-> ~rd.on /\ (ar_valid \/ fetch = "sMiss"),
     sl_r |-> rd.on, sl_aw |-> ~wr.on /\ aw_valid, sl_w |-> wr.on, miss |-> f] : f \in BOOLEAN }

\* The clock does not stop and the bus memory serves what it is asked, again
\* and again.
FairSpec == Spec /\ WF_vars(\E in \in Serving : ~cache_ready /\ Clock(in))

-----------------------------------------------------------------------------
(* Correctness.                                                            *)

\* Where the current value of a word is: in the request the cache works on, in
\* the write buffer, in a valid line, on its way to the bus, or in memory.
Busy == state # "sIdle" /\ req.cacop = "none"
Cached(a) == {w \in Ways : tagv[w][a.set] = [valid |-> TRUE, tag |-> a.tag]}
OnTheWay(a) ==
  /\ dstate # "dsIdle"
  /\ IF dreq.uncached THEN dreq.addr = a
     ELSE dreq.addr.tag = a.tag /\ dreq.addr.set = a.set /\ a.off >= send_cnt
Behind(a) == IF OnTheWay(a) THEN dreq.line[IF dreq.uncached THEN 0 ELSE a.off] ELSE mem[a]
Current(a) ==
  CASE Busy /\ req.wr /\ req.addr = a -> req.data
    [] ~(Busy /\ req.wr /\ req.addr = a) /\ wreq.on /\ wreq.addr = a -> wreq.data
    [] OTHER -> IF Cached(a) # {} THEN data[CHOOSE w \in Cached(a) : TRUE][a.set][a.off]
                ELSE Behind(a)

\* The cache and the memory behind it are one memory at which requests take
\* effect in the order in which they are taken: no write is lost in an eviction
\* or a write-back, applied twice, or overtaken by a refill.
RequestedAddrs == {r.addr : r \in Requests}
Port == INSTANCE MemoryPort WITH
  Addrs <- RequestedAddrs, m <- [a \in RequestedAddrs |-> Current(a)],
  pending <- IF Busy THEN {[addr |-> req.addr, wr |-> req.wr, data |-> req.data]} ELSE {}
RefinesMemoryPort == Port!Spec

\* A load is answered with the current value of its word.
LoadsReadCurrent ==
  /\ RespCached /\ ~req.wr => DataOut(hit_way, req.addr.off) = Current(req.addr)
  /\ rd.on /\ rd.who = 0 /\ req.uncached => NextBeat = Current(req.addr)

\* The cache always becomes ready again: its state machines, the hazard check
\* of the arbiter and the fetch do not wait for each other in a circle.
CacheBecomesReady == []<>cache_ready
=============================================================================
