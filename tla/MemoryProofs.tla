----------------------------- MODULE MemoryProofs -----------------------------
(***************************************************************************)
(* For any sets, tags, line length and requests, and any timing of the bus *)
(* and of the fetch: the data cache, the arbiter and the bus memory are    *)
(* one memory at which requests take effect in the order they are taken,   *)
(* and a load is answered with the current value of its word; as long as   *)
(* cached words are read with the size of a word, and cache instructions   *)
(* come while no line is being sent.                                       *)
(***************************************************************************)
EXTENDS MemorySystem, TLAPS

-----------------------------------------------------------------------------
(* The inductive invariant.                                                *)

TypeInv ==
  /\ tagv \in [Ways -> [Sets -> [valid: BOOLEAN, tag: Tags]]]
  /\ data \in [Ways -> [Sets -> Line]] /\ dirty \in [Ways -> [Sets -> BOOLEAN]]
  /\ state \in {"sIdle", "sLookup", "sMiss", "sReplace", "sRefill"} /\ req \in Request
  /\ replace_way \in Ways /\ recv_data \in Line /\ recv_cnt \in 0 .. LineWords
  /\ wreq \in [on: BOOLEAN, way: Ways, addr: Addr, data: Values]
  /\ wreq_r \in [on: BOOLEAN, way: Ways, addr: Addr, data: Values]
  /\ dstate \in {"dsIdle", "dsReq", "dsWrite"}
  /\ dreq \in [addr: Addr, line: Line, uncached: BOOLEAN] /\ send_cnt \in Offs
  /\ rreq_ongoing \in BOOLEAN /\ rreq_idx_src2 \in {0, 1}
  /\ wreq_ongoing \in BOOLEAN /\ wreq_idx_src2 \in {0, 1}
  /\ wreq_addr \in Addr /\ aw_valid_r \in BOOLEAN
  /\ fetch \in {"sIdle", "sMiss", "sReplace"} /\ mem \in [Addr -> Values]
  /\ rd \in [on: BOOLEAN, who: {0, 1}, addr: Addr, cnt: Nat, len: Nat, word: BOOLEAN]
  /\ wr \in [on: BOOLEAN, addr: Addr]

\* A tag stands for cached or for uncached words, never for both.
UncachedTags == {r.addr.tag : r \in {q \in Requests : q.uncached}}
InLine(a, b) == a.tag = b.tag /\ a.set = b.set

\* The request in progress is one that was made; an uncached one is never
\* refilled, and an uncached write never reads the bus.
RequestInv ==
  /\ state # "sIdle" => req \in Requests
  /\ state \in {"sReplace", "sRefill"} => ~UncachedWrite
  /\ state = "sRefill" => ~req.uncached

\* A write that hit waits for its line, which stays where it is, and is in the
\* memories before a line leaves them.
WriteHitInv ==
  /\ wreq.on => /\ state \in {"sIdle", "sLookup"}
                /\ tagv[wreq.way][wreq.addr.set] = [valid |-> TRUE, tag |-> wreq.addr.tag]
  /\ wreq_r.on => state \in {"sIdle", "sLookup", "sMiss"}

\* A word is in one way at most, and only a cached word; it is in none while it
\* is fetched.
TagInv ==
  /\ \A s \in Sets : tagv[0][s].valid /\ tagv[1][s].valid => tagv[0][s].tag # tagv[1][s].tag
  /\ \A w \in Ways, s \in Sets : tagv[w][s].valid => tagv[w][s].tag \notin UncachedTags
  /\ state \in {"sMiss", "sReplace", "sRefill"} /\ req.cacop = "none" => total_hits = {}

\* What a line must be to be dropped: it is dirty, or the memory behind the
\* cache has the same words.
CleanInv ==
  /\ \A a \in Addr : \A w \in Cached(a) : ~dirty[w][a.set] => data[w][a.set][a.off] = Behind(a)
  /\ state = "sRefill" =>
       LET w == IF req.cacop = "none" THEN replace_way ELSE Invalidated
       IN  tagv[w][set].valid => ~dirty[w][set]

\* The write-back unit, the arbiter and the bus memory work on the same words;
\* a write whose address is not accepted yet is known to the arbiter before the
\* next read.
WriteBusInv ==
  /\ dstate # "dsIdle" => (dreq.uncached <=> dreq.addr.tag \in UncachedTags)
  /\ (wreq_ongoing <=> dstate = "dsWrite") /\ (wr.on <=> dstate = "dsWrite")
  /\ dstate = "dsWrite" =>
       /\ wreq_addr = aw_addr /\ wreq_idx_src2 = 0
       /\ wr.addr = IF dreq.uncached THEN dreq.addr ELSE [dreq.addr EXCEPT !.off = send_cnt]
  /\ dstate # "dsWrite" => send_cnt = 0
  /\ dstate = "dsReq" /\ state \in {"sLookup", "sMiss"} => aw_valid_r /\ wreq_addr = aw_addr
  /\ state \in {"sLookup", "sMiss", "sReplace"} /\ req.cacop # "none" => dstate = "dsIdle"

\* A read burst for the cache carries the words of its request, none of which
\* is on its way to the bus.
ReadsForCache == rd.on /\ rd.who = 0
ReadBusInv ==
  /\ (rd.on <=> rreq_ongoing) /\ (rd.on => rd.who = rreq_idx_src2)
  /\ ReadsForCache =>
       /\ state = "sReplace" /\ req.cacop = "none"
       /\ rd.addr = ar_addr /\ rd.len = (IF req.uncached THEN 1 ELSE LineWords)
       /\ rd.cnt = recv_cnt /\ rd.cnt < rd.len /\ (rd.len > 1 => rd.word)
       /\ dstate # "dsIdle" =>
            IF dreq.uncached THEN dreq.addr # req.addr ELSE ~InLine(dreq.addr, req.addr)
  /\ state = "sReplace" /\ req.cacop = "none" /\ ~req.uncached =>
       ReadsForCache \/ recv_cnt = LineWords
  /\ state = "sRefill" /\ req.cacop = "none" => recv_cnt = LineWords
  /\ state \in {"sIdle", "sLookup", "sMiss"} => recv_cnt = 0

\* The words that were received are those of the memory behind the cache.
FillInv ==
  state \in {"sReplace", "sRefill"} /\ req.cacop = "none" /\ ~req.uncached =>
    \A a \in Addr : InLine(a, req.addr) /\ a.off < recv_cnt => recv_data[a.off] = Behind(a)

\* Cached words are read with the size of a word (a fill has the beats of the
\* request that missed), and a cache instruction neither writes nor is uncached
\* (MiscFu.scala:36-42 leaves these bits of its request off).
WordRequests == \A r \in Requests : /\ r.uncached \/ r.word
                                    /\ r.cacop # "none" => ~r.wr /\ ~r.uncached

IInv == /\ TypeInv /\ RequestInv /\ WriteHitInv /\ TagInv /\ CleanInv
        /\ WriteBusInv /\ ReadBusInv /\ FillInv

-----------------------------------------------------------------------------
(* The wires of a cycle.                                                   *)

\* The cache's input, the read channel's master and its handshake, the word the
\* cache receives, and the handshake of the write address.
CacheIn(in)  == CacheInput(in, ArbWires(in))
Who(in)      == Arb!selected_rreq_idx(ArbWires(in))
Fires(in)    == Arb!ArFires(ArbWires(in))
ReadFires(in) == Fires(in) /\ Who(in) = 0
Beat(in)     == in.sl_r /\ rd.who = 0
LastBeat     == rd.cnt = rd.len - 1
WriteFires(in) == Arb!AwFires(ArbWires(in))

InputFacts(in) ==
  /\ in.valid \in BOOLEAN /\ in.req \in Request /\ in.lfsr \in Ways /\ in.miss \in BOOLEAN
  /\ in.sl_ar \in BOOLEAN /\ in.sl_r \in BOOLEAN /\ in.sl_aw \in BOOLEAN /\ in.sl_w \in BOOLEAN
  /\ in.valid => /\ cache_ready /\ in.req \in Requests
                 /\ in.req.cacop = "none" \/ dstate = "dsIdle"
  /\ in.sl_ar => ~rd.on
  /\ in.sl_r => rd.on
  /\ in.sl_aw => dstate = "dsReq"
  /\ in.sl_w => wr.on

\* What can be on the wires.
LEMMA InputsKnown ==
  ASSUME CacopAnyTime = FALSE, TypeInv, NEW in \in RawInputs
  PROVE  InputFacts(in)
<1>1. NoReq \in Request
  BY CacheAssumption DEF NoReq, Request, ZeroAddr, Addr, Offs, Ways
<1>2. Offered \subseteq Requests /\ (Offered # {} => cache_ready)
      /\ \A r \in Offered : r.cacop = "none" \/ dstate = "dsIdle"
  BY DEF Offered, dstate_idle
<1>3. in.valid \in BOOLEAN /\ in.req \in Request /\ in.lfsr \in Ways /\ in.miss \in BOOLEAN
  <2>1. in.valid \in BOOLEAN /\ in.miss \in BOOLEAN
    BY DEF RawInputs
  <2>2. in.req \in Request
    BY <1>1, <1>2, MemorySystemAssumption DEF RawInputs
  <2>3. in.lfsr \in Ways
    BY DEF RawInputs, Ways
  <2> QED BY <2>1, <2>2, <2>3
<1>4. /\ in.sl_ar \in BOOLEAN /\ in.sl_r \in BOOLEAN
      /\ in.sl_aw \in BOOLEAN /\ in.sl_w \in BOOLEAN
  BY DEF RawInputs
<1>5. in.valid => /\ cache_ready /\ in.req \in Requests
                  /\ in.req.cacop = "none" \/ dstate = "dsIdle"
  BY <1>2 DEF RawInputs
<1>6. /\ in.sl_ar => ~rd.on
      /\ in.sl_r => rd.on
      /\ in.sl_aw => dstate = "dsReq"
      /\ in.sl_w => wr.on
  BY DEF RawInputs, aw_valid
<1> QED BY <1>3, <1>4, <1>5, <1>6 DEF InputFacts

\* What the arbiter makes of them.
ArbiterFacts(in) ==
  /\ Who(in) \in {0, 1} /\ (rd.on => Who(in) = rd.who)
  /\ Fires(in) => ~rd.on
  /\ ReadFires(in) =>
       /\ state = "sMiss" /\ ~UncachedWrite /\ req.cacop = "none"
       /\ wreq_ongoing \/ aw_valid_r => wreq_addr # ar_addr
  /\ WriteFires(in) <=> dstate = "dsReq" /\ in.sl_aw

LEMMA ArbiterKnown ==
  ASSUME TypeInv, WriteBusInv, ReadBusInv, NEW in, InputFacts(in)
  PROVE  ArbiterFacts(in)
<1> DEFINE w == ArbWires(in)
<1>1. /\ (w.ar[0].valid <=> ar_valid) /\ w.ar[0].addr = ar_addr
      /\ (w.aw[0].valid <=> aw_valid) /\ w.aw[0].addr = aw_addr /\ ~w.aw[1].valid
      /\ (w.ar_ready <=> in.sl_ar) /\ (w.aw_ready <=> in.sl_aw)
  <2>1. w.ar = AR /\ w.aw = AW /\ w.ar_ready = in.sl_ar /\ w.aw_ready = in.sl_aw
    BY DEF ArbWires
  <2>2. AR[0] = [valid |-> ar_valid, addr |-> ar_addr]
    BY DEF AR
  <2>3. AW[0] = [valid |-> 0 = 0 /\ aw_valid, addr |-> aw_addr]
    BY DEF AW
  <2>4. AW[1] = [valid |-> 1 = 0 /\ aw_valid, addr |-> aw_addr]
    BY DEF AW
  <2> HIDE DEF w
  <2>5. ar_valid \in BOOLEAN /\ aw_valid \in BOOLEAN
    BY DEF ar_valid, aw_valid
  <2> QED BY <2>1, <2>2, <2>3, <2>4, <2>5 DEF InputFacts
<1>2. Who(in) \in {0, 1} /\ (rd.on => Who(in) = rd.who)
  BY DEF Who, Arb!selected_rreq_idx, Arb!rreq_idx_src1, Arb!First, TypeInv, ReadBusInv
<1>3. Fires(in) => Arb!out_ar(w).valid /\ ~Arb!raw_hazard(w) /\ in.sl_ar
  BY <1>1 DEF Fires, Arb!ArFires, w
<1>4. Who(in) = 0 => /\ Arb!out_ar(w).valid <=> ar_valid
                     /\ Arb!out_ar(w).addr = ar_addr
  BY <1>1 DEF Who, Arb!out_ar, w
<1>5. Fires(in) => ~rd.on
  BY <1>3 DEF InputFacts
<1>6. ReadFires(in) =>
       /\ state = "sMiss" /\ ~UncachedWrite /\ req.cacop = "none"
       /\ wreq_ongoing \/ aw_valid_r => wreq_addr # ar_addr
  BY <1>3, <1>4 DEF ReadFires, Arb!raw_hazard, ar_valid
<1>7. WriteFires(in) <=> dstate = "dsReq" /\ in.sl_aw
  <2>1. CASE dstate = "dsReq"
    <3>1. Arb!wreq_idx_src1(w) = 0
      BY <1>1, <2>1 DEF Arb!wreq_idx_src1, Arb!First, Arb!Masters, aw_valid
    <3>2. Arb!selected_wreq_idx(w) = 0
      BY <2>1, <3>1 DEF Arb!selected_wreq_idx, WriteBusInv
    <3> QED BY <1>1, <2>1, <3>2 DEF WriteFires, Arb!AwFires, Arb!out_aw, aw_valid, w, InputFacts
  <2>2. CASE dstate # "dsReq"
    BY <1>1, <2>2 DEF WriteFires, Arb!AwFires, w, InputFacts
  <2> QED BY <2>1, <2>2
<1> QED BY <1>2, <1>5, <1>6, <1>7 DEF ArbiterFacts

\* What the cache sees.
LEMMA CacheSees ==
  ASSUME TypeInv, ReadBusInv, WriteBusInv, NEW in, InputFacts(in), ArbiterFacts(in)
  PROVE  LET c == CacheIn(in)
         IN  /\ c.valid = in.valid /\ c.req = in.req /\ c.lfsr = in.lfsr
             /\ c.ar_ready <=> ReadFires(in)
             /\ c.rvalid <=> Beat(in)
             /\ c.rlast <=> LastBeat
             /\ c.rdata = IF rd.on THEN NextBeat ELSE 0
             /\ c.aw_ready <=> WriteFires(in)
             /\ c.w_ready <=> in.sl_w
<1>1. in.sl_r => Who(in) = rd.who
  BY DEF InputFacts, ArbiterFacts
<1>2. in.sl_w => w_valid
  BY DEF InputFacts, WriteBusInv, w_valid
<1> QED BY <1>1, <1>2 DEF CacheIn, CacheInput, ReadFires, Fires, Who, Beat, LastBeat, WriteFires, InputFacts

-----------------------------------------------------------------------------
(* The registers after a cycle.                                            *)

\* A cycle and what is on its wires.
Step(in) == InputFacts(in) /\ ArbiterFacts(in) /\ Clock(in)

FillDone(in) == /\ (Beat(in) /\ LastBeat) \/ recv_cnt = LineWords
                /\ dirty[replace_way][set] => dstate = "dsIdle"

\* A cache instruction neither writes nor is uncached.
LEMMA CacopReads ==
  ASSUME WordRequests, IInv, state # "sIdle", req.cacop # "none"
  PROVE  ~req.wr /\ ~req.uncached
  BY DEF WordRequests, IInv, RequestInv

\* The main state machine.
LEMMA Moves ==
  ASSUME WordRequests, IInv, NEW in, Step(in)
  PROVE  /\ state' \in {"sIdle", "sLookup", "sMiss", "sReplace", "sRefill"}
         /\ state' = "sLookup" <=>
              \/ in.valid
              \/ state = "sLookup" /\ hit /\ war_stall
              \/ state = "sRefill" /\ req.cacop = "none"
         /\ state' = "sMiss" <=>
              \/ state = "sLookup" /\ ~hit
              \/ state = "sMiss" /\ UncachedWrite /\ dstate # "dsIdle"
              \/ state = "sMiss" /\ ~UncachedWrite /\ req.cacop = "none" /\ ~ReadFires(in)
         /\ state' = "sReplace" <=>
              \/ state = "sMiss" /\ ~UncachedWrite /\ req.cacop # "none"
              \/ ReadFires(in)
              \/ /\ state = "sReplace" /\ req.cacop = "none"
                 /\ IF req.uncached THEN ~(Beat(in) /\ LastBeat) ELSE ~FillDone(in)
         /\ state' = "sRefill" <=>
              /\ state = "sReplace"
              /\ req.cacop # "none" \/ (~req.uncached /\ FillDone(in))
         /\ req' = IF in.valid THEN in.req ELSE IF state' = "sIdle" THEN NoReq ELSE req
<1> DEFINE c == CacheIn(in)
<1>1. /\ (c.valid <=> in.valid) /\ c.req = in.req
      /\ (c.ar_ready <=> ReadFires(in)) /\ (c.rvalid <=> Beat(in)) /\ (c.rlast <=> LastBeat)
  BY CacheSees DEF Step, IInv, InputFacts
<1>2. state' = NextState(c) /\ req' = NextReq(c)
  BY DEF Step, Clock, CacheClock, CacheIn, c
<1> HIDE DEF c
<1>3. state \in {"sIdle", "sLookup", "sMiss", "sReplace", "sRefill"}
  BY DEF IInv, TypeInv
<1>4. in.valid => state = "sIdle" \/ (state = "sLookup" /\ hit /\ ~war_stall)
  BY DEF Step, InputFacts, cache_ready, hit
<1>5. hit => state = "sLookup" /\ ~req.uncached /\ req.cacop = "none"
  BY DEF hit
<1>6. ReadFires(in) => state = "sMiss" /\ ~UncachedWrite /\ req.cacop = "none"
  BY DEF Step, ArbiterFacts
<1>7. ReplaceDone(c) <=> FillDone(in)
  BY <1>1 DEF ReplaceDone, Received, FillDone, dstate_idle
<1>8. CASE state = "sIdle"
  BY <1>1, <1>2, <1>4, <1>5, <1>6, <1>8 DEF NextState, NextReq, Accepted, cache_ready
<1>9. CASE state = "sLookup"
  BY <1>1, <1>2, <1>4, <1>5, <1>6, <1>9 DEF NextState, NextReq, Accepted, cache_ready
<1>10. CASE state = "sMiss"
  <2>1. UncachedWrite => req.cacop = "none"
    BY <1>10, CacopReads DEF UncachedWrite
  <2> QED BY <1>1, <1>2, <1>4, <1>5, <1>6, <1>10, <2>1 DEF NextState, NextReq, Accepted, cache_ready, dstate_idle
<1>11. CASE state = "sReplace"
  <2>1. ~UncachedWrite /\ (req.cacop # "none" => ~req.uncached)
    BY <1>11, CacopReads DEF IInv, RequestInv
  <2> QED BY <1>1, <1>2, <1>4, <1>5, <1>6, <1>7, <1>11, <2>1
             DEF NextState, NextReq, Accepted, cache_ready
<1>12. CASE state = "sRefill"
  BY <1>1, <1>2, <1>4, <1>5, <1>6, <1>12 DEF NextState, NextReq, Accepted, cache_ready
<1> QED BY <1>3, <1>8, <1>9, <1>10, <1>11, <1>12

\* What the cache has received.
LEMMA Receives ==
  ASSUME IInv, NEW in, Step(in)
  PROVE  LET beat == Beat(in) /\ ~req.uncached
         IN  /\ recv_cnt' = IF beat THEN recv_cnt + 1
                            ELSE IF state = "sReplace" THEN recv_cnt ELSE 0
             /\ recv_data' = IF beat THEN [recv_data EXCEPT ![recv_cnt] = NextBeat]
                             ELSE IF state = "sRefill" THEN ZeroLine ELSE recv_data
             /\ Beat(in) => ReadsForCache
<1> DEFINE c == CacheIn(in)
<1>1. (c.rvalid <=> Beat(in)) /\ c.rdata = (IF rd.on THEN NextBeat ELSE 0)
  BY CacheSees DEF Step, IInv, InputFacts
<1>2. ReceiveStep(c)
  BY DEF Step, Clock, CacheClock, CacheIn, c
<1>3. Beat(in) => ReadsForCache /\ r_ready
  BY DEF Beat, Step, InputFacts, IInv, ReadBusInv, ReadsForCache, r_ready
<1> HIDE DEF c
<1> QED BY <1>1, <1>2, <1>3 DEF ReceiveStep, ReadsForCache

\* The write-back unit.
LEMMA WritesBack ==
  ASSUME IInv, NEW in, Step(in)
  PROVE  /\ dstate = "dsIdle" => dstate' = IF SendsLine \/ uncached_wr_en THEN "dsReq" ELSE "dsIdle"
         /\ dstate = "dsReq" => dstate' = IF in.sl_aw THEN "dsWrite" ELSE "dsReq"
         /\ dstate = "dsWrite" => dstate' = IF in.sl_w /\ w_last THEN "dsIdle" ELSE "dsWrite"
         /\ SendsLine \/ uncached_wr_en => dstate = "dsIdle"
         /\ SendsLine => dreq' = [addr |-> [tag |-> tagv_out(dirty_way).tag, set |-> set, off |-> 0],
                                  line |-> LineOut(dirty_way), uncached |-> FALSE]
         /\ ~SendsLine /\ uncached_wr_en =>
              dreq' = [addr |-> req.addr, line |-> [ZeroLine EXCEPT ![0] = req.data],
                       uncached |-> TRUE]
         /\ ~SendsLine /\ ~uncached_wr_en => dreq' = IF dstate' = "dsIdle" THEN NoLine ELSE dreq
         /\ send_cnt' = IF dstate = "dsWrite" /\ in.sl_w /\ ~w_last THEN send_cnt + 1
                        ELSE IF dstate = "dsWrite" /\ ~in.sl_w THEN send_cnt ELSE 0
<1> DEFINE c == CacheIn(in)
<1>1. /\ c.w_ready <=> in.sl_w
      /\ c.aw_ready <=> (dstate = "dsReq" /\ in.sl_aw)
  BY CacheSees DEF Step, IInv, InputFacts, ArbiterFacts
<1>2. WriteBackStep(c)
  BY DEF Step, Clock, CacheClock, CacheIn, c
<1>3. dstate \in {"dsIdle", "dsReq", "dsWrite"}
  BY DEF IInv, TypeInv
<1>4. SendsLine \/ uncached_wr_en => dstate = "dsIdle"
  BY DEF SendsLine, uncached_wr_en, dstate_idle
<1> HIDE DEF c
<1>5. dstate' = CASE dstate = "dsIdle" ->
                      IF SendsLine \/ uncached_wr_en THEN "dsReq" ELSE "dsIdle"
                 [] dstate = "dsReq" -> IF c.aw_ready THEN "dsWrite" ELSE "dsReq"
                 [] dstate = "dsWrite" -> IF c.w_ready /\ w_last THEN "dsIdle" ELSE "dsWrite"
  BY <1>2 DEF WriteBackStep
<1>6. dreq' = CASE SendsLine ->
                    [addr |-> [tag |-> tagv_out(dirty_way).tag, set |-> set, off |-> 0],
                     line |-> LineOut(dirty_way), uncached |-> FALSE]
               [] uncached_wr_en ->
                    [addr |-> req.addr, line |-> [ZeroLine EXCEPT ![0] = req.data],
                     uncached |-> TRUE]
               [] OTHER -> IF dstate' = "dsIdle" THEN NoLine ELSE dreq
  BY <1>2 DEF WriteBackStep
<1>7. send_cnt' = IF w_valid /\ c.w_ready /\ ~w_last THEN send_cnt + 1
                 ELSE IF w_valid /\ ~c.w_ready THEN send_cnt ELSE 0
  BY <1>2 DEF WriteBackStep
<1>8. /\ dstate = "dsIdle" => dstate' = IF SendsLine \/ uncached_wr_en THEN "dsReq" ELSE "dsIdle"
      /\ dstate = "dsReq" => dstate' = IF in.sl_aw THEN "dsWrite" ELSE "dsReq"
      /\ dstate = "dsWrite" => dstate' = IF in.sl_w /\ w_last THEN "dsIdle" ELSE "dsWrite"
  BY <1>1, <1>3, <1>5
<1>9. /\ SendsLine => dreq' = [addr |-> [tag |-> tagv_out(dirty_way).tag, set |-> set, off |-> 0],
                               line |-> LineOut(dirty_way), uncached |-> FALSE]
      /\ ~SendsLine /\ uncached_wr_en =>
           dreq' = [addr |-> req.addr, line |-> [ZeroLine EXCEPT ![0] = req.data],
                    uncached |-> TRUE]
      /\ ~SendsLine /\ ~uncached_wr_en => dreq' = IF dstate' = "dsIdle" THEN NoLine ELSE dreq
  <2>1. SendsLine /\ uncached_wr_en => FALSE
    BY DEF SendsLine, cacheline_wr_en, uncached_wr_en
  <2> QED BY <1>6, <2>1
<1> QED BY <1>1, <1>4, <1>7, <1>8, <1>9 DEF w_valid

\* The arbiter and the bus memory.
LEMMA BusMoves ==
  ASSUME IInv, NEW in, Step(in)
  PROVE  /\ rd' = IF Fires(in)
                  THEN [on |-> TRUE, who |-> Who(in), addr |-> AR[Who(in)].addr, cnt |-> 0,
                        len |-> IF Who(in) = 0 /\ req.uncached THEN 1 ELSE LineWords,
                        word |-> Who(in) = 1 \/ req.word]
                  ELSE IF in.sl_r THEN (IF LastBeat THEN NoRead ELSE [rd EXCEPT !.cnt = @ + 1])
                  ELSE rd
         /\ wr' = IF dstate = "dsReq" /\ in.sl_aw THEN [on |-> TRUE, addr |-> aw_addr]
                  ELSE IF in.sl_w THEN (IF w_last THEN NoBurst ELSE [wr EXCEPT !.addr.off = @ + 1])
                  ELSE wr
         /\ mem' = IF in.sl_w THEN [mem EXCEPT ![wr.addr] = w_data] ELSE mem
         /\ (rreq_ongoing' <=> rd'.on) /\ (rd'.on => rd'.who = rreq_idx_src2')
         /\ rreq_idx_src2' \in {0, 1} /\ rreq_ongoing' \in BOOLEAN
         /\ wreq_ongoing' <=> (dstate = "dsReq" /\ in.sl_aw) \/ (wreq_ongoing /\ ~(in.sl_w /\ w_last))
         /\ wreq_ongoing' \in BOOLEAN
         /\ wreq_idx_src2' \in {0, 1}
         /\ dstate = "dsReq" \/ dstate = "dsWrite" => (wreq_ongoing' => wreq_idx_src2' = 0)
         /\ dstate = "dsReq" => wreq_addr' = aw_addr /\ aw_valid_r'
         /\ dstate = "dsWrite" => (wreq_ongoing' => wreq_addr' = wreq_addr)
         /\ wreq_addr' \in Addr /\ aw_valid_r' \in BOOLEAN
         /\ fetch' \in {"sIdle", "sMiss", "sReplace"}
<1> DEFINE w == ArbWires(in)
<1>1. /\ rd' = IF Fires(in)
               THEN [on |-> TRUE, who |-> Who(in), addr |-> AR[Who(in)].addr, cnt |-> 0,
                     len |-> IF Who(in) = 0 /\ req.uncached THEN 1 ELSE LineWords,
                     word |-> Who(in) = 1 \/ req.word]
               ELSE IF in.sl_r THEN (IF LastBeat THEN NoRead ELSE [rd EXCEPT !.cnt = @ + 1])
               ELSE rd
  <2>1. ReadStep(in, Who(in), Fires(in), in.sl_r /\ LastBeat)
    BY DEF Step, Clock, Fires, Who, ArbWires, LastBeat
  <2>2. ~(Fires(in) /\ in.sl_r)
    BY DEF Step, ArbiterFacts, InputFacts
  <2> QED BY <2>1, <2>2 DEF ReadStep, Step, InputFacts
<1>2. WriteFires(in) <=> dstate = "dsReq" /\ in.sl_aw
  BY DEF Step, ArbiterFacts
<1>3. /\ wr' = IF dstate = "dsReq" /\ in.sl_aw THEN [on |-> TRUE, addr |-> aw_addr]
               ELSE IF in.sl_w THEN (IF w_last THEN NoBurst ELSE [wr EXCEPT !.addr.off = @ + 1])
               ELSE wr
      /\ mem' = IF in.sl_w THEN [mem EXCEPT ![wr.addr] = w_data] ELSE mem
  <2>1. WriteStep(in, WriteFires(in))
    BY DEF Step, Clock, WriteFires
  <2>2. ~(WriteFires(in) /\ in.sl_w)
    BY <1>2 DEF Step, InputFacts, IInv, WriteBusInv
  <2> QED BY <1>2, <2>1, <2>2 DEF WriteStep, Step, InputFacts
<1>4. Arb!ArbiterClock(w) /\ (w.rlast <=> in.sl_r /\ LastBeat) /\ (w.wlast <=> in.sl_w /\ w_last)
  BY DEF Step, Clock, ArbWires, LastBeat, InputFacts, w_last
<1>5. rreq_ongoing' <=> Fires(in) \/ (rreq_ongoing /\ ~(in.sl_r /\ LastBeat))
  BY <1>4 DEF Arb!ArbiterClock, Fires
<1>6. rreq_idx_src2' = CASE ~rreq_ongoing' -> 0
                        [] Fires(in) /\ ~rreq_ongoing -> Arb!rreq_idx_src1(w)
                        [] OTHER -> rreq_idx_src2
  BY <1>4 DEF Arb!ArbiterClock, Fires
<1>7. (rreq_ongoing' <=> rd'.on) /\ rreq_ongoing' \in BOOLEAN
  <2>1. (rreq_ongoing <=> rd.on) /\ (Fires(in) => ~rd.on) /\ (in.sl_r => rd.on)
    BY DEF IInv, ReadBusInv, Step, ArbiterFacts, InputFacts
  <2>2. rreq_ongoing' \in BOOLEAN
    BY <1>4 DEF Arb!ArbiterClock
  <2>3. [rd EXCEPT !.cnt = @ + 1].on = rd.on
    BY DEF IInv, TypeInv
  <2> QED BY <1>1, <1>5, <2>1, <2>2, <2>3 DEF NoRead
<1>8. rd'.on => rd'.who = rreq_idx_src2'
  <2>1. CASE Fires(in)
    <3>1. ~rreq_ongoing
      BY <2>1 DEF IInv, ReadBusInv, Step, ArbiterFacts
    <3>2. Who(in) = Arb!rreq_idx_src1(w)
      BY <3>1 DEF Who, Arb!selected_rreq_idx
    <3>3. rd'.who = Who(in)
      BY <1>1, <2>1
    <3> HIDE DEF w
    <3> QED BY <1>5, <1>6, <2>1, <3>1, <3>2, <3>3
  <2>2. CASE ~Fires(in)
    <3>1. rd'.on => rd.on /\ rd'.who = rd.who
      BY <1>1, <2>2 DEF NoRead, Step, InputFacts, IInv, TypeInv
    <3>2. rd.on => rd.who = rreq_idx_src2
      BY DEF IInv, ReadBusInv
    <3> HIDE DEF w
    <3> QED BY <1>6, <1>7, <2>2, <3>1, <3>2
  <2> QED BY <2>1, <2>2
<1>9. rreq_idx_src2' \in {0, 1}
  <2>1. Arb!rreq_idx_src1(w) \in {0, 1} /\ rreq_idx_src2 \in {0, 1}
    BY DEF Arb!rreq_idx_src1, Arb!First, IInv, TypeInv
  <2> HIDE DEF w
  <2> QED BY <1>6, <2>1
<1>10. /\ (w.aw[0].valid <=> dstate = "dsReq") /\ ~w.aw[1].valid
       /\ \A i \in {0, 1} : w.aw[i].addr = aw_addr
  <2>1. w.aw = AW
    BY DEF ArbWires
  <2>2. AW[0] = [valid |-> 0 = 0 /\ aw_valid, addr |-> aw_addr]
    BY DEF AW
  <2>3. AW[1] = [valid |-> 1 = 0 /\ aw_valid, addr |-> aw_addr]
    BY DEF AW
  <2> HIDE DEF w
  <2>4. aw_valid \in BOOLEAN /\ (aw_valid <=> dstate = "dsReq")
    BY DEF aw_valid
  <2>5. (AW[0].valid <=> aw_valid) /\ ~AW[1].valid /\ AW[0].addr = aw_addr /\ AW[1].addr = aw_addr
    <3>1. AW[0].valid = (0 = 0 /\ aw_valid) /\ AW[1].valid = (1 = 0 /\ aw_valid)
      BY <2>2, <2>3
    <3>2. (0 = 0 /\ aw_valid) = aw_valid /\ ~(1 = 0 /\ aw_valid)
      BY <2>4
    <3>3. AW[0].addr = aw_addr /\ AW[1].addr = aw_addr
      BY <2>2, <2>3
    <3> QED BY <3>1, <3>2, <3>3
  <2> QED BY <2>1, <2>4, <2>5
<1>11. aw_addr \in Addr /\ wreq_addr \in Addr /\ Arb!NoAddr \in Addr
  <2>1. Addr # {}
    <3>1. PICK t \in Tags, z \in Sets : TRUE
      BY CacheAssumption
    <3>2. [tag |-> t, set |-> z, off |-> 0] \in Addr
      BY CacheAssumption DEF Addr, Offs
    <3> QED BY <3>2
  <2>2. aw_addr \in Addr
    <3>1. dreq.addr \in Addr /\ 0 \in Offs
      BY CacheAssumption DEF IInv, TypeInv, Offs
    <3>2. [dreq.addr EXCEPT !.off = 0] \in Addr
      BY <3>1 DEF Addr
    <3> QED BY <3>1, <3>2 DEF aw_addr
  <2> QED BY <2>1, <2>2 DEF Arb!NoAddr, IInv, TypeInv
<1>12. Arb!wreq_idx_src1(w) \in {0, 1} /\ wreq_idx_src2 \in {0, 1}
       /\ (dstate = "dsReq" => Arb!wreq_idx_src1(w) = 0)
  BY <1>10 DEF Arb!wreq_idx_src1, Arb!First, Arb!Masters, IInv, TypeInv
<1>13. /\ (dstate = "dsWrite" => wreq_ongoing /\ wreq_idx_src2 = 0)
       /\ (dstate # "dsWrite" => ~wreq_ongoing) /\ wreq_ongoing \in BOOLEAN
  BY DEF IInv, WriteBusInv, TypeInv
<1> HIDE DEF w
<1>14. /\ Arb!selected_wreq_idx(w) \in {0, 1}
       /\ dstate \in {"dsReq", "dsWrite"} => Arb!selected_wreq_idx(w) = 0
  BY <1>12, <1>13 DEF Arb!selected_wreq_idx
<1>15. Arb!out_aw(w).addr = aw_addr /\ (Arb!out_aw(w).valid <=> dstate = "dsReq")
  <2>1. \A i \in {0, 1} : w.aw[i].valid => i = 0 /\ dstate = "dsReq"
    BY <1>10
  <2> QED BY <1>10, <1>14, <2>1 DEF Arb!out_aw
<1>16. Arb!AwFires(w) <=> dstate = "dsReq" /\ in.sl_aw
  BY <1>2 DEF WriteFires, w
<1>17. /\ wreq_ongoing' <=> (dstate = "dsReq" /\ in.sl_aw) \/ (wreq_ongoing /\ ~(in.sl_w /\ w_last))
       /\ wreq_ongoing' \in BOOLEAN
  BY <1>4, <1>16 DEF Arb!ArbiterClock
<1>18. /\ wreq_idx_src2' \in {0, 1}
       /\ dstate = "dsReq" \/ dstate = "dsWrite" => (wreq_ongoing' => wreq_idx_src2' = 0)
  <2>1. wreq_idx_src2' = CASE ~wreq_ongoing' -> 0
                           [] Arb!AwFires(w) /\ ~wreq_ongoing -> Arb!wreq_idx_src1(w)
                           [] OTHER -> wreq_idx_src2
    BY <1>4 DEF Arb!ArbiterClock
  <2>2. CASE ~wreq_ongoing'
    <3>1. wreq_idx_src2' = 0
      BY <1>12, <1>13, <1>16, <1>17, <2>1, <2>2
    <3> QED BY <2>2, <3>1
  <2>3. CASE wreq_ongoing' /\ ~wreq_ongoing
    BY <1>12, <1>13, <1>16, <1>17, <2>1, <2>3
  <2>4. CASE wreq_ongoing' /\ wreq_ongoing
    BY <1>12, <1>13, <1>16, <1>17, <2>1, <2>4
  <2>5. wreq_idx_src2' \in {0, 1}
    BY <2>2, <2>3, <2>4
  <2>6. dstate = "dsReq" \/ dstate = "dsWrite" => (wreq_ongoing' => wreq_idx_src2' = 0)
    BY <2>2, <2>3, <2>4
  <2> QED BY <2>5, <2>6
<1>19. /\ dstate = "dsReq" => wreq_addr' = aw_addr /\ aw_valid_r'
       /\ dstate = "dsWrite" => (wreq_ongoing' => wreq_addr' = wreq_addr)
       /\ wreq_addr' \in Addr /\ aw_valid_r' \in BOOLEAN
  <2>1. (aw_valid_r' <=> dstate = "dsReq") /\ aw_valid_r' \in BOOLEAN
    <3>1. aw_valid_r' = Arb!out_aw(w).valid
      BY <1>4 DEF Arb!ArbiterClock
    <3>2. Arb!out_aw(w).valid \in BOOLEAN
      <4>1. w.aw = AW
        BY DEF w, ArbWires
      <4>2. ASSUME NEW i \in {0, 1}
            PROVE  AW[i].valid \in BOOLEAN
        <5>1. AW[i].valid = (i = 0 /\ aw_valid)
          BY DEF AW
        <5>2. (i = 0 /\ aw_valid) \in BOOLEAN
          OBVIOUS
        <5> QED BY <5>1, <5>2
      <4> QED BY <1>14, <4>1, <4>2 DEF Arb!out_aw
    <3> QED BY <1>15, <3>1, <3>2
  <2>2. wreq_addr' = CASE Arb!out_aw(w).valid -> Arb!out_aw(w).addr
                       [] ~Arb!out_aw(w).valid /\ wreq_ongoing' -> wreq_addr
                       [] OTHER -> Arb!NoAddr
    BY <1>4 DEF Arb!ArbiterClock
  <2>3. CASE dstate = "dsReq"
    BY <1>11, <1>15, <2>1, <2>2, <2>3
  <2>4. CASE dstate # "dsReq" /\ wreq_ongoing'
    BY <1>11, <1>15, <2>1, <2>2, <2>4
  <2>5. CASE dstate # "dsReq" /\ ~wreq_ongoing'
    BY <1>11, <1>15, <1>17, <2>1, <2>2, <2>5
  <2> QED BY <1>17, <2>3, <2>4, <2>5
<1>20. fetch' \in {"sIdle", "sMiss", "sReplace"}
  <2>1. FetchStep(in, Who(in) = 1, Fires(in), in.sl_r /\ LastBeat)
    BY DEF Step, Clock, Fires, Who, ArbWires, LastBeat
  <2>2. fetch \in {"sIdle", "sMiss", "sReplace"}
    BY DEF IInv, TypeInv
  <2>3. CASE fetch = "sIdle"
    BY <2>1, <2>3 DEF FetchStep
  <2>4. CASE fetch = "sMiss"
    BY <2>1, <2>4 DEF FetchStep
  <2>5. CASE fetch = "sReplace"
    BY <2>1, <2>5 DEF FetchStep
  <2> QED BY <2>2, <2>3, <2>4, <2>5
<1> QED BY <1>1, <1>3, <1>7, <1>8, <1>9, <1>17, <1>18, <1>19, <1>20

\* The sets and ways that are looked at.
LEMMA WaysKnown ==
  ASSUME TypeInv
  PROVE  /\ set \in Sets /\ hit_way \in Ways /\ dirty_way \in Ways /\ Invalidated \in Ways
         /\ req.addr \in Addr /\ req.addr.tag \in Tags /\ req.addr.off \in Offs /\ req.data \in Values
         /\ \A w \in Ways : tagv[w] \in [Sets -> [valid: BOOLEAN, tag: Tags]]
         /\ \A w \in Ways : tagv_out(w).valid \in BOOLEAN /\ tagv_out(w).tag \in Tags
         /\ \A w \in Ways, o \in Offs : DataOut(w, o) \in Values
         /\ \A w \in Ways : LineOut(w) \in Line
         /\ total_hits \subseteq Ways
         /\ LineWords \in Nat /\ LineWords > 0 /\ 0 \in Offs
<1>1. /\ req.addr \in Addr /\ req.addr.tag \in Tags /\ req.addr.off \in Offs /\ req.data \in Values
      /\ set \in Sets /\ req.way \in Ways
  BY DEF TypeInv, Request, Addr, set
<1>2. hit_way \in Ways /\ dirty_way \in Ways /\ Invalidated \in Ways
  BY <1>1 DEF hit_way, dirty_way, Invalidated, Ways, TypeInv
<1>3. \A w \in Ways : tagv[w] \in [Sets -> [valid: BOOLEAN, tag: Tags]]
  BY DEF TypeInv
<1>4. \A w \in Ways : tagv_out(w).valid \in BOOLEAN /\ tagv_out(w).tag \in Tags
  BY <1>1, <1>3 DEF tagv_out
<1>5. \A w \in Ways, o \in Offs : DataOut(w, o) \in Values
  <2>1. wreq_r.addr.set \in Sets
    BY DEF TypeInv, Addr
  <2>2. \A w \in Ways, s \in Sets, o \in Offs : data[w][s][o] \in Values
    BY DEF TypeInv, Line
  <2> QED BY <1>1, <2>1, <2>2 DEF DataOut
<1>6. \A w \in Ways : LineOut(w) \in Line
  BY <1>5 DEF LineOut, Line
<1>7. total_hits \subseteq Ways
  BY DEF total_hits
<1>8. LineWords \in Nat /\ LineWords > 0 /\ 0 \in Offs
  BY CacheAssumption DEF Offs
<1> QED BY <1>1, <1>2, <1>3, <1>4, <1>5, <1>6, <1>7, <1>8

\* The memories of the cache and the buffer of a write that hit.
LEMMA MemoriesMove ==
  ASSUME IInv, NEW in, Step(in)
  PROVE  /\ TagStep /\ DataStep /\ DirtyStep /\ WriteHitStep
         /\ replace_way' \in Ways
         /\ state \in {"sMiss", "sReplace"} /\ state' \notin {"sIdle", "sLookup"} =>
              replace_way' = replace_way
<1> DEFINE c == CacheIn(in)
<1>1. /\ TagStep /\ DataStep /\ DirtyStep /\ WriteHitStep
      /\ replace_way' = NextReplaceWay(c) /\ state' = NextState(c)
  BY DEF Step, Clock, CacheClock, CacheIn, c
<1>2. c.lfsr \in Ways
  BY CacheSees DEF Step, IInv, InputFacts
<1> HIDE DEF c
<1>3. replace_way' \in Ways
  BY <1>1, <1>2 DEF NextReplaceWay, Ways, IInv, TypeInv
<1>4. state \in {"sMiss", "sReplace"} /\ state' \notin {"sIdle", "sLookup"} =>
        replace_way' = replace_way
  BY <1>1 DEF NextReplaceWay
<1> QED BY <1>1, <1>3, <1>4

\* A write that hit and is not in the memories yet.
LEMMA WriteHits ==
  ASSUME IInv, NEW in, Step(in)
  PROVE  /\ hit /\ req.wr =>
              wreq' = [on |-> TRUE, way |-> hit_way, addr |-> req.addr, data |-> req.data]
         /\ ~(hit /\ req.wr) => wreq' = NoWrite
         /\ wreq_r' = wreq
         /\ hit => /\ state = "sLookup" /\ req.cacop = "none" /\ ~req.uncached
                   /\ hit_way \in total_hits
                   /\ tagv[hit_way][set] = [valid |-> TRUE, tag |-> req.addr.tag]
                   /\ state' \in {"sIdle", "sLookup"}
<1>1. /\ hit /\ req.wr =>
           wreq' = [on |-> TRUE, way |-> hit_way, addr |-> req.addr, data |-> req.data]
      /\ ~(hit /\ req.wr) => wreq' = NoWrite
      /\ wreq_r' = wreq
  BY MemoriesMove DEF WriteHitStep
<1>2. ASSUME hit
      PROVE  /\ state = "sLookup" /\ req.cacop = "none" /\ ~req.uncached
             /\ hit_way \in total_hits
             /\ tagv[hit_way][set] = [valid |-> TRUE, tag |-> req.addr.tag]
             /\ state' \in {"sIdle", "sLookup"}
  <2>1. state = "sLookup" /\ req.cacop = "none" /\ ~req.uncached /\ total_hits # {}
    BY <1>2 DEF hit
  <2>2. hit_way \in total_hits
    BY <2>1, WaysKnown DEF hit_way, IInv, Ways
  <2>3. tagv[hit_way][set] \in [valid: BOOLEAN, tag: Tags]
    BY WaysKnown DEF IInv
  <2>4. tagv[hit_way][set].valid /\ tagv[hit_way][set].tag = req.addr.tag
    BY <2>2 DEF total_hits, tagv_out
  <2>5. tagv[hit_way][set] = [valid |-> TRUE, tag |-> req.addr.tag]
    BY <2>3, <2>4
  <2>6. state' \in {"sIdle", "sLookup"}
    <3>1. state' = NextState(CacheIn(in))
      BY DEF Step, Clock, CacheClock, CacheIn
    <3> QED BY <1>2, <2>1, <3>1 DEF NextState
  <2> QED BY <2>1, <2>2, <2>5, <2>6
<1> QED BY <1>1, <1>2

\* What a word of a burst for the cache is.
LEMMA BeatIs ==
  ASSUME TypeInv, ReadBusInv, ReadsForCache
  PROVE  /\ req.uncached => NextBeat = mem[req.addr]
         /\ ~req.uncached => /\ recv_cnt \in Offs
                             /\ NextBeat = mem[[req.addr EXCEPT !.off = recv_cnt]]
                             /\ (LastBeat <=> recv_cnt + 1 = LineWords)
         /\ NextBeat \in Values
<1>1. /\ rd.addr = ar_addr /\ rd.len = (IF req.uncached THEN 1 ELSE LineWords)
      /\ rd.cnt = recv_cnt /\ rd.cnt < rd.len /\ (rd.len > 1 => rd.word)
  BY DEF ReadBusInv
<1>2. recv_cnt \in Nat /\ LineWords \in Nat /\ req.addr \in Addr
  BY WaysKnown DEF TypeInv
<1>3. NextBeat = mem[NextWord]
  BY <1>1 DEF NextBeat
<1>4. CASE req.uncached
  <2>1. rd.addr = req.addr /\ rd.cnt = 0
    BY <1>1, <1>2, <1>4 DEF ar_addr
  <2>2. NextWord = req.addr
    BY <1>2, <2>1 DEF NextWord, Addr, Offs
  <2> QED BY <1>2, <1>3, <1>4, <2>2 DEF TypeInv
<1>5. CASE ~req.uncached
  <2>1. recv_cnt \in Offs
    BY <1>1, <1>2, <1>5 DEF Offs
  <2>2. NextWord = [[req.addr EXCEPT !.off = 0] EXCEPT !.off = @ + recv_cnt]
    BY <1>1, <1>5 DEF NextWord, ar_addr
  <2>3. [[req.addr EXCEPT !.off = 0] EXCEPT !.off = @ + recv_cnt] = [req.addr EXCEPT !.off = recv_cnt]
    <3>1. [req.addr EXCEPT !.off = 0] = [tag |-> req.addr.tag, set |-> req.addr.set, off |-> 0]
      BY <1>2 DEF Addr
    <3>2. [req.addr EXCEPT !.off = recv_cnt] =
            [tag |-> req.addr.tag, set |-> req.addr.set, off |-> recv_cnt]
      BY <1>2 DEF Addr
    <3>3. 0 + recv_cnt = recv_cnt
      BY <1>2
    <3> QED BY <3>1, <3>2, <3>3
  <2>4. [req.addr EXCEPT !.off = recv_cnt] \in Addr
    BY <1>2, <2>1 DEF Addr
  <2>5. LastBeat <=> recv_cnt + 1 = LineWords
    BY <1>1, <1>2, <1>5 DEF LastBeat
  <2> QED BY <1>3, <1>5, <2>1, <2>2, <2>3, <2>4, <2>5 DEF TypeInv
<1> QED BY <1>4, <1>5

\* What the write burst writes.
LEMMA WordOut ==
  ASSUME TypeInv, WriteBusInv, dstate = "dsWrite"
  PROVE  /\ wr.addr \in Addr /\ w_data \in Values /\ send_cnt \in Offs
         /\ dreq.uncached => wr.addr = dreq.addr /\ w_data = dreq.line[0] /\ w_last
         /\ ~dreq.uncached =>
              /\ wr.addr = [dreq.addr EXCEPT !.off = send_cnt] /\ w_data = dreq.line[send_cnt]
              /\ w_last <=> send_cnt + 1 = LineWords
              /\ ~w_last => send_cnt + 1 \in Offs
<1>1. send_cnt \in Offs /\ wr.addr \in Addr /\ dreq.line \in Line /\ 0 \in Offs
  BY WaysKnown DEF TypeInv
<1>2. w_data \in Values
  BY <1>1 DEF w_data, Line
<1>3. dreq.uncached => wr.addr = dreq.addr /\ w_data = dreq.line[0] /\ w_last
  BY DEF WriteBusInv, w_data, w_last
<1>4. ~dreq.uncached => wr.addr = [dreq.addr EXCEPT !.off = send_cnt] /\ w_data = dreq.line[send_cnt]
  BY DEF WriteBusInv, w_data
<1>5. ~dreq.uncached => /\ w_last <=> send_cnt + 1 = LineWords
                        /\ ~w_last => send_cnt + 1 \in Offs
  <2>1. LineWords \in Nat /\ send_cnt \in 0 .. LineWords - 1
    BY <1>1, CacheAssumption DEF Offs
  <2>2. ~dreq.uncached => (w_last <=> send_cnt = LineWords - 1)
    BY DEF w_last
  <2> QED BY <2>1, <2>2 DEF Offs
<1> QED BY <1>1, <1>2, <1>3, <1>4, <1>5

-----------------------------------------------------------------------------
(* The invariant is inductive, part by part.                               *)

\* Every register and memory keeps its type: the words of a burst fit in the line.
LEMMA TypeStep ==
  ASSUME WordRequests, IInv, NEW in, Step(in)
  PROVE  TypeInv'
<1>1. TypeInv
  BY DEF IInv
<1>2. /\ tagv' \in [Ways -> [Sets -> [valid: BOOLEAN, tag: Tags]]]
      /\ data' \in [Ways -> [Sets -> Line]] /\ dirty' \in [Ways -> [Sets -> BOOLEAN]]
  <2>1. tagv' \in [Ways -> [Sets -> [valid: BOOLEAN, tag: Tags]]]
    <3>1. TagStep
      BY MemoriesMove
    <3>2. /\ tagv \in [Ways -> [Sets -> [valid: BOOLEAN, tag: Tags]]]
          /\ replace_way \in Ways /\ Invalidated \in Ways /\ set \in Sets /\ req.addr.tag \in Tags
      BY <1>1, WaysKnown DEF TypeInv
    <3>3. CASE state = "sRefill" /\ req.cacop = "none"
      BY <3>1, <3>2, <3>3 DEF TagStep
    <3>4. CASE state = "sRefill" /\ req.cacop # "none"
      <4>1. tagv' = [tagv EXCEPT ![Invalidated][set].valid = FALSE]
        BY <3>1, <3>4 DEF TagStep
      <4>2. [tagv[Invalidated][set] EXCEPT !.valid = FALSE] \in [valid: BOOLEAN, tag: Tags]
        <5>1. tagv[Invalidated][set] \in [valid: BOOLEAN, tag: Tags]
          BY <3>2
        <5> QED BY <5>1
      <4> QED BY <3>2, <4>1, <4>2
    <3>5. CASE state # "sRefill"
      BY <3>1, <3>2, <3>5 DEF TagStep
    <3> QED BY <3>3, <3>4, <3>5
  <2>2. data' \in [Ways -> [Sets -> Line]]
    <3>1. CASE wreq.on
      <4>1. wreq.way \in Ways /\ wreq.addr.set \in Sets /\ wreq.addr.off \in Offs /\ wreq.data \in Values
        BY <1>1 DEF TypeInv, Addr
      <4>2. data' = [data EXCEPT ![wreq.way][wreq.addr.set][wreq.addr.off] = wreq.data]
        BY <3>1, MemoriesMove DEF DataStep
      <4> QED BY <1>1, <4>1, <4>2 DEF TypeInv, Line
    <3>2. CASE ~wreq.on
      <4>1. DataStep
        BY MemoriesMove
      <4>2. /\ data \in [Ways -> [Sets -> Line]] /\ recv_data \in Line
            /\ replace_way \in Ways /\ set \in Sets
        BY <1>1, WaysKnown DEF TypeInv
      <4> QED BY <3>2, <4>1, <4>2 DEF DataStep
    <3> QED BY <3>1, <3>2
  <2>3. dirty' \in [Ways -> [Sets -> BOOLEAN]]
    <3>1. wreq.way \in Ways /\ wreq.addr.set \in Sets
      BY <1>1 DEF TypeInv, Addr
    <3>2. DirtyStep
      BY MemoriesMove
    <3>3. dirty \in [Ways -> [Sets -> BOOLEAN]] /\ dirty_way \in Ways /\ set \in Sets
      BY <1>1, WaysKnown DEF TypeInv
    <3> QED BY <3>1, <3>2, <3>3 DEF DirtyStep
  <2> QED BY <2>1, <2>2, <2>3
<1>3. state' \in {"sIdle", "sLookup", "sMiss", "sReplace", "sRefill"} /\ req' \in Request
  <2>1. NoReq \in Request
    BY CacheAssumption DEF NoReq, Request, ZeroAddr, Addr, Offs, Ways
  <2> QED BY <1>1, <2>1, Moves DEF TypeInv, Step, InputFacts
<1>4. replace_way' \in Ways
  BY MemoriesMove
<1>5. recv_data' \in Line /\ recv_cnt' \in 0 .. LineWords
  <2>1. ZeroLine \in Line
    BY CacheAssumption DEF ZeroLine, Line
  <2>2. Beat(in) /\ ~req.uncached => recv_cnt \in Offs /\ NextBeat \in Values
    BY <1>1, Receives, BeatIs DEF IInv
  <2>3. /\ recv_cnt' = IF Beat(in) /\ ~req.uncached THEN recv_cnt + 1
                      ELSE IF state = "sReplace" THEN recv_cnt ELSE 0
        /\ recv_data' = IF Beat(in) /\ ~req.uncached THEN [recv_data EXCEPT ![recv_cnt] = NextBeat]
                       ELSE IF state = "sRefill" THEN ZeroLine ELSE recv_data
    BY Receives
  <2>4. recv_data \in Line /\ recv_cnt \in 0 .. LineWords /\ LineWords \in Nat
    BY <1>1, CacheAssumption DEF TypeInv
  <2>5. recv_data' \in Line
    BY <2>1, <2>2, <2>3, <2>4 DEF Line
  <2>6. recv_cnt' \in 0 .. LineWords
    BY <2>2, <2>3, <2>4 DEF Offs
  <2> QED BY <2>5, <2>6
<1>6. /\ wreq' \in [on: BOOLEAN, way: Ways, addr: Addr, data: Values]
      /\ wreq_r' \in [on: BOOLEAN, way: Ways, addr: Addr, data: Values]
  <2>1. NoWrite \in [on: BOOLEAN, way: Ways, addr: Addr, data: Values]
    BY CacheAssumption DEF NoWrite, ZeroAddr, Addr, Offs, Ways
  <2>2. hit_way \in Ways /\ req.addr \in Addr /\ req.data \in Values
    BY <1>1, WaysKnown
  <2>3. /\ hit /\ req.wr =>
             wreq' = [on |-> TRUE, way |-> hit_way, addr |-> req.addr, data |-> req.data]
        /\ ~(hit /\ req.wr) => wreq' = NoWrite
        /\ wreq_r' = wreq
    BY WriteHits
  <2>4. wreq \in [on: BOOLEAN, way: Ways, addr: Addr, data: Values]
    BY <1>1 DEF TypeInv
  <2>5. wreq' \in [on: BOOLEAN, way: Ways, addr: Addr, data: Values]
    <3>1. CASE hit /\ req.wr
      <4>1. wreq' = [on |-> TRUE, way |-> hit_way, addr |-> req.addr, data |-> req.data]
        BY <2>3, <3>1
      <4> QED BY <2>2, <4>1
    <3>2. CASE ~(hit /\ req.wr)
      BY <2>1, <2>3, <3>2
    <3> QED BY <3>1, <3>2
  <2> QED BY <2>3, <2>4, <2>5
<1>7. /\ dstate' \in {"dsIdle", "dsReq", "dsWrite"}
      /\ dreq' \in [addr: Addr, line: Line, uncached: BOOLEAN] /\ send_cnt' \in Offs
  <2>1. dstate' \in {"dsIdle", "dsReq", "dsWrite"}
    BY <1>1, WritesBack DEF TypeInv
  <2>2. dreq' \in [addr: Addr, line: Line, uncached: BOOLEAN]
    <3>1. NoLine \in [addr: Addr, line: Line, uncached: BOOLEAN]
      BY CacheAssumption DEF NoLine, ZeroLine, ZeroAddr, Line, Addr, Offs
    <3>2. [ZeroLine EXCEPT ![0] = req.data] \in Line
      BY <1>1, CacheAssumption, WaysKnown DEF ZeroLine, Line
    <3>3. [tag |-> tagv_out(dirty_way).tag, set |-> set, off |-> 0] \in Addr
      BY <1>1, WaysKnown DEF Addr
    <3>4. CASE SendsLine
      <4>1. dreq' = [addr |-> [tag |-> tagv_out(dirty_way).tag, set |-> set, off |-> 0],
                     line |-> LineOut(dirty_way), uncached |-> FALSE]
        BY <3>4, WritesBack
      <4>2. LineOut(dirty_way) \in Line
        BY <1>1, WaysKnown
      <4> QED BY <3>3, <4>1, <4>2
    <3>5. CASE ~SendsLine /\ uncached_wr_en
      <4>1. dreq' = [addr |-> req.addr, line |-> [ZeroLine EXCEPT ![0] = req.data],
                     uncached |-> TRUE]
        BY <3>5, WritesBack
      <4>2. req.addr \in Addr
        BY <1>1, WaysKnown
      <4> QED BY <3>2, <4>1, <4>2
    <3>6. CASE ~SendsLine /\ ~uncached_wr_en
      BY <1>1, <3>1, <3>6, WritesBack DEF TypeInv
    <3> QED BY <3>4, <3>5, <3>6
  <2>3. send_cnt' \in Offs
    <3>1. dstate = "dsWrite" /\ ~w_last => send_cnt + 1 \in Offs
      BY <1>1, WordOut DEF IInv
    <3> QED BY <1>1, <3>1, WritesBack, WaysKnown DEF TypeInv
  <2> QED BY <2>1, <2>2, <2>3
<1>8. /\ rreq_ongoing' \in BOOLEAN /\ rreq_idx_src2' \in {0, 1}
      /\ wreq_ongoing' \in BOOLEAN /\ wreq_idx_src2' \in {0, 1}
      /\ wreq_addr' \in Addr /\ aw_valid_r' \in BOOLEAN
      /\ fetch' \in {"sIdle", "sMiss", "sReplace"}
  BY BusMoves
<1>9. mem' \in [Addr -> Values]
  <2>1. in.sl_w => dstate = "dsWrite"
    BY DEF Step, InputFacts, IInv, WriteBusInv
  <2>2. in.sl_w => wr.addr \in Addr /\ w_data \in Values
    BY <1>1, <2>1, WordOut DEF IInv
  <2> QED BY <1>1, <2>2, BusMoves DEF TypeInv
<1>10. rd' \in [on: BOOLEAN, who: {0, 1}, addr: Addr, cnt: Nat, len: Nat, word: BOOLEAN]
  <2>1. Who(in) \in {0, 1} /\ LineWords \in Nat
    BY <1>1, WaysKnown DEF Step, ArbiterFacts
  <2>2. AR[Who(in)].addr \in Addr
    <3>1. ar_addr \in Addr
      <4>1. req.addr \in Addr /\ [req.addr EXCEPT !.off = 0] \in Addr
        BY <1>1, WaysKnown DEF Addr
      <4> QED BY <4>1 DEF ar_addr
    <3> QED BY <2>1, <3>1, MemorySystemAssumption DEF AR
  <2>3. (Who(in) = 1 \/ req.word) \in BOOLEAN
    OBVIOUS
  <2>4. NoRead \in [on: BOOLEAN, who: {0, 1}, addr: Addr, cnt: Nat, len: Nat, word: BOOLEAN]
    BY CacheAssumption DEF NoRead, ZeroAddr, Addr, Offs
  <2>5. [rd EXCEPT !.cnt = @ + 1] \in
          [on: BOOLEAN, who: {0, 1}, addr: Addr, cnt: Nat, len: Nat, word: BOOLEAN]
    <3>1. rd \in [on: BOOLEAN, who: {0, 1}, addr: Addr, cnt: Nat, len: Nat, word: BOOLEAN]
      BY <1>1 DEF TypeInv
    <3>2. rd.cnt + 1 \in Nat
      BY <3>1
    <3> QED BY <3>1, <3>2
  <2>6. CASE Fires(in)
    <3>1. rd' = [on |-> TRUE, who |-> Who(in), addr |-> AR[Who(in)].addr, cnt |-> 0,
                 len |-> IF Who(in) = 0 /\ req.uncached THEN 1 ELSE LineWords,
                 word |-> Who(in) = 1 \/ req.word]
      BY <2>6, BusMoves
    <3>2. (IF Who(in) = 0 /\ req.uncached THEN 1 ELSE LineWords) \in Nat
      BY <2>1
    <3> QED BY <2>1, <2>2, <2>3, <3>1, <3>2
  <2>7. CASE ~Fires(in)
    BY <1>1, <2>4, <2>5, <2>7, BusMoves DEF TypeInv
  <2> QED BY <2>6, <2>7
<1>11. wr' \in [on: BOOLEAN, addr: Addr]
  <2>1. aw_addr \in Addr
    <3>1. dreq.addr \in Addr /\ [dreq.addr EXCEPT !.off = 0] \in Addr
      BY <1>1, WaysKnown DEF TypeInv, Addr
    <3> QED BY <3>1 DEF aw_addr
  <2>2. NoBurst \in [on: BOOLEAN, addr: Addr]
    BY CacheAssumption DEF NoBurst, ZeroAddr, Addr, Offs
  <2>3. in.sl_w /\ ~w_last => [wr EXCEPT !.addr.off = @ + 1] \in [on: BOOLEAN, addr: Addr]
    <3> SUFFICES ASSUME in.sl_w, ~w_last
                 PROVE  [wr EXCEPT !.addr.off = @ + 1] \in [on: BOOLEAN, addr: Addr]
      OBVIOUS
    <3>1. dstate = "dsWrite"
      BY DEF Step, InputFacts, IInv, WriteBusInv
    <3>2. /\ wr.addr \in Addr /\ ~dreq.uncached
          /\ wr.addr = [dreq.addr EXCEPT !.off = send_cnt] /\ send_cnt + 1 \in Offs
      BY <1>1, <3>1, WordOut DEF IInv
    <3>3. wr.addr.off + 1 \in Offs
      BY <1>1, <3>2 DEF TypeInv, Addr
    <3> QED BY <1>1, <3>3 DEF TypeInv, Addr
  <2>4. wr' = IF dstate = "dsReq" /\ in.sl_aw THEN [on |-> TRUE, addr |-> aw_addr]
              ELSE IF in.sl_w THEN (IF w_last THEN NoBurst ELSE [wr EXCEPT !.addr.off = @ + 1])
              ELSE wr
    BY BusMoves
  <2>5. wr \in [on: BOOLEAN, addr: Addr]
    BY <1>1 DEF TypeInv
  <2> QED BY <2>1, <2>2, <2>3, <2>4, <2>5
<1> QED BY <1>2, <1>3, <1>4, <1>5, <1>6, <1>7, <1>8, <1>9, <1>10, <1>11
       DEF TypeInv, Ways, Line, Offs, Addr, Request

\* A request that was not just taken is the one of the cycle before.
LEMMA SameRequest ==
  ASSUME WordRequests, IInv, NEW in, Step(in)
  PROVE  /\ in.valid => /\ state' = "sLookup" /\ req' = in.req /\ in.req \in Requests
                        /\ state = "sIdle" \/ (state = "sLookup" /\ hit /\ ~war_stall)
                        /\ in.req.cacop = "none" \/ dstate = "dsIdle"
         /\ ~in.valid /\ state' # "sIdle" => req' = req /\ state # "sIdle"
         /\ state' \in {"sMiss", "sReplace", "sRefill"} => ~in.valid /\ state # "sRefill"
         /\ state # "sIdle" => (req.uncached <=> req.addr.tag \in UncachedTags)
<1>1. in.valid => /\ cache_ready /\ in.req \in Requests
                  /\ in.req.cacop = "none" \/ dstate = "dsIdle"
  BY DEF Step, InputFacts
<1>2. in.valid => state = "sIdle" \/ (state = "sLookup" /\ hit /\ ~war_stall)
  BY <1>1 DEF cache_ready, hit
<1>3. ReadFires(in) => state = "sMiss"
  BY DEF Step, ArbiterFacts
<1>4. state # "sIdle" => (req.uncached <=> req.addr.tag \in UncachedTags)
  <2> SUFFICES ASSUME state # "sIdle"
               PROVE  req.uncached <=> req.addr.tag \in UncachedTags
    OBVIOUS
  <2>1. req \in Requests
    BY DEF IInv, RequestInv
  <2>2. req.uncached => req.addr.tag \in UncachedTags
    BY <2>1 DEF UncachedTags
  <2>3. ASSUME req.addr.tag \in UncachedTags
        PROVE  req.uncached
    <3>1. PICK r \in Requests : r.uncached /\ r.addr.tag = req.addr.tag
      BY <2>3 DEF UncachedTags
    <3> QED BY <2>1, <3>1, MemorySystemAssumption
  <2> QED BY <2>2, <2>3
<1>5. ~in.valid /\ state' # "sIdle" => req' = req /\ state # "sIdle"
  BY <1>3, Moves
<1>6. in.valid => state' = "sLookup" /\ req' = in.req
  BY Moves
<1>7. state' \in {"sMiss", "sReplace", "sRefill"} => ~in.valid /\ state # "sRefill"
  BY <1>3, <1>6, Moves
<1> QED BY <1>1, <1>2, <1>4, <1>5, <1>6, <1>7

\* A request stays what it was until the next one is taken.
LEMMA RequestStep ==
  ASSUME WordRequests, IInv, NEW in, Step(in)
  PROVE  RequestInv'
<1>1. state' # "sIdle" => req' \in Requests
  <2>1. state # "sIdle" => req \in Requests
    BY DEF IInv, RequestInv
  <2> QED BY <2>1, SameRequest
<1>2. ASSUME state' \in {"sReplace", "sRefill"}
      PROVE  req' = req /\ ~UncachedWrite /\ (state' = "sRefill" => ~req.uncached)
  <2>1. req' = req /\ state # "sIdle"
    BY <1>2, SameRequest
  <2>2. req.cacop # "none" => ~req.wr /\ ~req.uncached
    BY <2>1, CacopReads
  <2>3. ReadFires(in) => ~UncachedWrite
    BY DEF Step, ArbiterFacts
  <2>4. state = "sReplace" => ~UncachedWrite
    BY DEF IInv, RequestInv
  <2>5. ~UncachedWrite
    BY <1>2, <2>2, <2>3, <2>4, Moves DEF UncachedWrite
  <2>6. state' = "sRefill" => ~req.uncached
    BY <2>2, Moves
  <2> QED BY <2>1, <2>5, <2>6
<1> QED BY <1>1, <1>2 DEF RequestInv, UncachedWrite

\* A write that hits leaves the lookup with its line in place.
LEMMA WriteHitInvStep ==
  ASSUME WordRequests, IInv, NEW in, Step(in)
  PROVE  WriteHitInv'
<1>1. ASSUME wreq'.on
      PROVE  /\ state' \in {"sIdle", "sLookup"}
             /\ tagv'[wreq'.way][wreq'.addr.set] = [valid |-> TRUE, tag |-> wreq'.addr.tag]
  <2>1. hit /\ req.wr
    BY <1>1, WriteHits DEF NoWrite
  <2>2. /\ wreq' = [on |-> TRUE, way |-> hit_way, addr |-> req.addr, data |-> req.data]
        /\ state = "sLookup" /\ tagv[hit_way][set] = [valid |-> TRUE, tag |-> req.addr.tag]
        /\ state' \in {"sIdle", "sLookup"}
    BY <2>1, WriteHits
  <2>3. tagv' = tagv
    BY <2>2, MemoriesMove DEF TagStep
  <2> QED BY <2>2, <2>3 DEF set
<1>2. wreq_r'.on => state' \in {"sIdle", "sLookup", "sMiss"}
  <2>1. wreq_r'.on => state \in {"sIdle", "sLookup"}
    BY WriteHits DEF IInv, WriteHitInv
  <2>2. ReadFires(in) => state = "sMiss"
    BY DEF Step, ArbiterFacts
  <2> QED BY <2>1, <2>2, Moves
<1> QED BY <1>1, <1>2 DEF WriteHitInv

\* A refill puts the word where no way had it.
LEMMA TagInvStep ==
  ASSUME WordRequests, IInv, NEW in, Step(in)
  PROVE  TagInv'
<1>1. \A s \in Sets : tagv[0][s].valid /\ tagv[1][s].valid => tagv[0][s].tag # tagv[1][s].tag
  BY DEF IInv, TagInv
<1>2. \A w \in Ways, s \in Sets : tagv[w][s].valid => tagv[w][s].tag \notin UncachedTags
  BY DEF IInv, TagInv
<1>3. tagv \in [Ways -> [Sets -> [valid: BOOLEAN, tag: Tags]]] /\ set \in Sets
      /\ replace_way \in Ways /\ Invalidated \in Ways
  BY WaysKnown DEF IInv, TypeInv
<1>4. CASE state = "sRefill" /\ req.cacop = "none"
  <2>1. tagv' = [tagv EXCEPT ![replace_way][set] = [valid |-> TRUE, tag |-> req.addr.tag]]
    BY <1>4, MemoriesMove DEF TagStep
  <2>2. req.addr.tag \notin UncachedTags
    BY <1>4, SameRequest DEF IInv, RequestInv
  <2>3. \A w \in Ways : ~(tagv[w][set].valid /\ tagv[w][set].tag = req.addr.tag)
    BY <1>4 DEF IInv, TagInv, total_hits, tagv_out
  <2>4. state' \notin {"sMiss", "sReplace", "sRefill"}
    BY <1>4, SameRequest
  <2>5. \A w \in Ways, s \in Sets :
          tagv'[w][s] = IF w = replace_way /\ s = set THEN [valid |-> TRUE, tag |-> req.addr.tag]
                        ELSE tagv[w][s]
    BY <1>3, <2>1
  <2>6. \A s \in Sets : tagv'[0][s].valid /\ tagv'[1][s].valid => tagv'[0][s].tag # tagv'[1][s].tag
    BY <1>1, <1>3, <2>3, <2>5 DEF Ways
  <2>7. \A w \in Ways, s \in Sets : tagv'[w][s].valid => tagv'[w][s].tag \notin UncachedTags
    BY <1>2, <2>2, <2>5
  <2> QED BY <2>4, <2>6, <2>7 DEF TagInv, Ways, UncachedTags
<1>5. CASE state = "sRefill" /\ req.cacop # "none"
  <2>1. tagv' = [tagv EXCEPT ![Invalidated][set].valid = FALSE]
    BY <1>5, MemoriesMove DEF TagStep
  <2>2. state' \notin {"sMiss", "sReplace", "sRefill"}
    BY <1>5, SameRequest
  <2>3. \A w \in Ways, s \in Sets : tagv'[w][s].valid => tagv'[w][s] = tagv[w][s]
    <3>1. \A w \in Ways, s \in Sets :
            tagv'[w][s] = IF w = Invalidated /\ s = set THEN [tagv[w][s] EXCEPT !.valid = FALSE]
                          ELSE tagv[w][s]
      BY <1>3, <2>1
    <3>2. \A w \in Ways, s \in Sets : ~[tagv[w][s] EXCEPT !.valid = FALSE].valid
      BY <1>3
    <3> QED BY <3>1, <3>2
  <2> QED BY <1>1, <1>2, <2>2, <2>3 DEF TagInv, Ways, UncachedTags
<1>6. CASE state # "sRefill"
  <2>1. tagv' = tagv
    BY <1>6, MemoriesMove DEF TagStep
  <2>2. ASSUME state' \in {"sMiss", "sReplace", "sRefill"}, req'.cacop = "none"
        PROVE  total_hits' = {}
    <3>1. req' = req /\ state # "sIdle"
      BY <2>2, SameRequest
    <3>2. total_hits = {}
      <4>1. CASE state = "sLookup"
        <5>1. ~hit
          BY <2>2, <4>1, WriteHits
        <5>2. req.uncached => total_hits = {}
          BY <1>2, <1>3, <3>1, SameRequest DEF total_hits, tagv_out
        <5> QED BY <2>2, <3>1, <4>1, <5>1, <5>2 DEF hit
      <4>2. CASE state \in {"sMiss", "sReplace"}
        BY <2>2, <3>1, <4>2 DEF IInv, TagInv
      <4> QED BY <1>6, <3>1, <4>1, <4>2 DEF IInv, TypeInv
    <3> QED BY <2>1, <3>1, <3>2 DEF total_hits, tagv_out, set, Ways
  <2> QED BY <1>1, <1>2, <2>1, <2>2 DEF TagInv, Ways, UncachedTags
<1> QED BY <1>4, <1>5, <1>6

\* What starts and what keeps the write-back unit busy.
LEMMA Sends ==
  ASSUME WordRequests, IInv, NEW in, Step(in)
  PROVE  /\ SendsLine => /\ dstate = "dsIdle" /\ dstate' = "dsReq" /\ send_cnt' = 0
                         /\ state = "sReplace" /\ ~req.uncached /\ tagv_out(dirty_way).valid
                         /\ state' \in {"sReplace", "sRefill"} /\ ~uncached_wr_en
                         /\ dreq'.addr.tag = tagv_out(dirty_way).tag /\ dreq'.addr.set = set
                         /\ dreq'.line = LineOut(dirty_way) /\ ~dreq'.uncached
         /\ uncached_wr_en => /\ dstate = "dsIdle" /\ dstate' = "dsReq" /\ send_cnt' = 0
                              /\ state = "sMiss" /\ req.uncached /\ req.wr /\ req.cacop = "none"
                              /\ state' = "sIdle" /\ ~SendsLine
                              /\ dreq'.addr = req.addr /\ dreq'.line[0] = req.data /\ dreq'.uncached
         /\ ~SendsLine /\ ~uncached_wr_en /\ dstate = "dsIdle" => dstate' = "dsIdle"
         /\ dstate # "dsIdle" /\ dstate' # "dsIdle" => dreq' = dreq
<1>1. SendsLine =>
        /\ dstate = "dsIdle" /\ dstate' = "dsReq" /\ send_cnt' = 0
        /\ state = "sReplace" /\ ~req.uncached /\ tagv_out(dirty_way).valid
        /\ state' \in {"sReplace", "sRefill"} /\ ~uncached_wr_en
        /\ dreq'.addr.tag = tagv_out(dirty_way).tag /\ dreq'.addr.set = set
        /\ dreq'.line = LineOut(dirty_way) /\ ~dreq'.uncached
  <2> SUFFICES ASSUME SendsLine
               PROVE  /\ dstate = "dsIdle" /\ dstate' = "dsReq" /\ send_cnt' = 0
                      /\ state = "sReplace" /\ ~req.uncached /\ tagv_out(dirty_way).valid
                      /\ state' \in {"sReplace", "sRefill"} /\ ~uncached_wr_en
                      /\ dreq'.addr.tag = tagv_out(dirty_way).tag /\ dreq'.addr.set = set
                      /\ dreq'.line = LineOut(dirty_way) /\ ~dreq'.uncached
    OBVIOUS
  <2>1. dstate = "dsIdle" /\ state = "sReplace" /\ ~req.uncached /\ tagv_out(dirty_way).valid
    BY DEF SendsLine, cacheline_wr_en, dstate_idle
  <2>2. state' \in {"sReplace", "sRefill"}
    BY <2>1, Moves
  <2>3. dreq' = [addr |-> [tag |-> tagv_out(dirty_way).tag, set |-> set, off |-> 0],
                 line |-> LineOut(dirty_way), uncached |-> FALSE]
    BY WritesBack
  <2>4. dstate' = "dsReq" /\ send_cnt' = 0
    BY <2>1, WritesBack
  <2> QED BY <2>1, <2>2, <2>3, <2>4 DEF uncached_wr_en
<1>2. uncached_wr_en =>
        /\ dstate = "dsIdle" /\ dstate' = "dsReq" /\ send_cnt' = 0
        /\ state = "sMiss" /\ req.uncached /\ req.wr /\ req.cacop = "none"
        /\ state' = "sIdle" /\ ~SendsLine
        /\ dreq'.addr = req.addr /\ dreq'.line[0] = req.data /\ dreq'.uncached
  <2> SUFFICES ASSUME uncached_wr_en
               PROVE  /\ dstate = "dsIdle" /\ dstate' = "dsReq" /\ send_cnt' = 0
                      /\ state = "sMiss" /\ req.uncached /\ req.wr /\ req.cacop = "none"
                      /\ state' = "sIdle" /\ ~SendsLine
                      /\ dreq'.addr = req.addr /\ dreq'.line[0] = req.data /\ dreq'.uncached
    OBVIOUS
  <2>1. dstate = "dsIdle" /\ state = "sMiss" /\ req.uncached /\ req.wr /\ UncachedWrite
    BY DEF uncached_wr_en, UncachedWrite, dstate_idle
  <2>2. req.cacop = "none"
    BY <2>1, CacopReads
  <2>3. ~SendsLine
    BY <1>1, <2>1
  <2>4. dreq' = [addr |-> req.addr, line |-> [ZeroLine EXCEPT ![0] = req.data], uncached |-> TRUE]
    BY <2>3, WritesBack
  <2>5. [ZeroLine EXCEPT ![0] = req.data][0] = req.data
    BY CacheAssumption DEF ZeroLine, Offs
  <2>6. dstate' = "dsReq" /\ send_cnt' = 0
    BY <2>1, WritesBack
  <2>7. ~ReadFires(in)
    BY <2>1 DEF Step, ArbiterFacts
  <2>8. state' = "sIdle"
    <3>1. ~in.valid
      BY <2>1, SameRequest
    <3> QED BY <2>1, <2>2, <2>7, <3>1, Moves
  <2> QED BY <2>1, <2>2, <2>3, <2>4, <2>5, <2>6, <2>8
<1>3. ~SendsLine /\ ~uncached_wr_en /\ dstate = "dsIdle" => dstate' = "dsIdle"
  BY WritesBack
<1>4. dstate # "dsIdle" /\ dstate' # "dsIdle" => dreq' = dreq
  BY <1>1, <1>2, WritesBack
<1> QED BY <1>1, <1>2, <1>3, <1>4

\* The write-back unit, the arbiter and the write burst move together.
LEMMA WriteBusStep ==
  ASSUME WordRequests, IInv, NEW in, Step(in)
  PROVE  WriteBusInv'
<1>1. /\ dstate \in {"dsIdle", "dsReq", "dsWrite"} /\ (wr.on <=> dstate = "dsWrite")
      /\ (wreq_ongoing <=> dstate = "dsWrite") /\ (dstate # "dsWrite" => send_cnt = 0)
      /\ (in.sl_w => wr.on)
  BY DEF IInv, TypeInv, WriteBusInv, Step, InputFacts
<1>2. ASSUME dstate' # "dsIdle"
      PROVE  dreq'.uncached <=> dreq'.addr.tag \in UncachedTags
  <2>1. CASE SendsLine
    <3>1. tagv_out(dirty_way).tag \notin UncachedTags
      BY <2>1, Sends, WaysKnown DEF IInv, TagInv, tagv_out
    <3> QED BY <2>1, <3>1, Sends
  <2>2. CASE uncached_wr_en
    <3>1. req.addr.tag \in UncachedTags
      BY <2>2, Sends, SameRequest
    <3> QED BY <2>2, <3>1, Sends
  <2>3. CASE ~SendsLine /\ ~uncached_wr_en
    BY <1>2, <2>3, Sends DEF IInv, WriteBusInv
  <2> QED BY <2>1, <2>2, <2>3
<1>3. /\ dstate' = "dsWrite" <=> \/ dstate = "dsReq" /\ in.sl_aw
                                 \/ dstate = "dsWrite" /\ ~(in.sl_w /\ w_last)
      /\ dstate' = "dsReq" => dstate = "dsReq" \/ SendsLine \/ uncached_wr_en
  <2>1. SendsLine \/ uncached_wr_en => dstate = "dsIdle" /\ dstate' = "dsReq"
    BY Sends
  <2> QED BY <1>1, <2>1, WritesBack
<1>4. wreq_ongoing' <=> dstate' = "dsWrite"
  <2>1. wreq_ongoing' <=> (dstate = "dsReq" /\ in.sl_aw) \/ (wreq_ongoing /\ ~(in.sl_w /\ w_last))
    BY BusMoves
  <2> QED BY <1>1, <1>3, <2>1
<1>5. wr' = IF dstate = "dsReq" /\ in.sl_aw THEN [on |-> TRUE, addr |-> aw_addr]
            ELSE IF in.sl_w THEN (IF w_last THEN NoBurst ELSE [wr EXCEPT !.addr.off = @ + 1])
            ELSE wr
  BY BusMoves
<1>6. wr \in [on: BOOLEAN, addr: Addr] /\ dreq.addr \in Addr
  BY DEF IInv, TypeInv
<1>7. wr'.on <=> dstate' = "dsWrite"
  <2>1. ~NoBurst.on /\ [wr EXCEPT !.addr.off = @ + 1].on = wr.on
    BY <1>6 DEF NoBurst
  <2> QED BY <1>1, <1>3, <1>5, <2>1
<1>8. send_cnt' = IF dstate = "dsWrite" /\ in.sl_w /\ ~w_last THEN send_cnt + 1
                  ELSE IF dstate = "dsWrite" /\ ~in.sl_w THEN send_cnt ELSE 0
  BY WritesBack
<1>9. dstate' # "dsWrite" => send_cnt' = 0
  BY <1>3, <1>8
<1>10. ASSUME dstate' = "dsWrite"
       PROVE  /\ wreq_addr' = aw_addr' /\ wreq_idx_src2' = 0
              /\ wr'.addr = IF dreq'.uncached THEN dreq'.addr
                            ELSE [dreq'.addr EXCEPT !.off = send_cnt']
  <2>1. dstate # "dsIdle" /\ dreq' = dreq /\ wreq_ongoing'
    BY <1>3, <1>4, <1>10, Sends
  <2>2. aw_addr' = aw_addr
    BY <2>1 DEF aw_addr
  <2>3. wreq_idx_src2' = 0
    BY <1>1, <2>1, BusMoves
  <2>4. CASE dstate = "dsReq"
    <3>1. wreq_addr' = aw_addr
      BY <2>4, BusMoves
    <3>2. wr'.addr = aw_addr /\ send_cnt' = 0
      BY <1>3, <1>5, <1>8, <1>10, <2>4
    <3> QED BY <2>1, <2>2, <2>3, <3>1, <3>2 DEF aw_addr
  <2>5. CASE dstate = "dsWrite"
    <3>1. wreq_addr' = aw_addr
      BY <2>1, <2>5, BusMoves DEF IInv, WriteBusInv
    <3>2. wr.addr = IF dreq.uncached THEN dreq.addr ELSE [dreq.addr EXCEPT !.off = send_cnt]
      BY <2>5 DEF IInv, WriteBusInv
    <3>3. CASE ~in.sl_w
      <4>1. wr' = wr /\ send_cnt' = send_cnt
        BY <1>5, <1>8, <2>5, <3>3
      <4> QED BY <2>1, <2>2, <2>3, <3>1, <3>2, <4>1
    <3>4. CASE in.sl_w
      <4>1. ~w_last /\ ~dreq.uncached
        BY <1>3, <1>10, <2>5, <3>4 DEF w_last
      <4>2. wr' = [wr EXCEPT !.addr.off = @ + 1] /\ send_cnt' = send_cnt + 1
        BY <1>5, <1>8, <2>5, <3>4, <4>1
      <4>3. wr'.addr = [wr.addr EXCEPT !.off = @ + 1]
        BY <1>6, <4>2
      <4>4. wr.addr = [dreq.addr EXCEPT !.off = send_cnt]
        BY <3>2, <4>1
      <4>5. wr'.addr = [dreq.addr EXCEPT !.off = send_cnt + 1]
        BY <1>6, <4>3, <4>4 DEF Addr
      <4> QED BY <2>1, <2>2, <2>3, <3>1, <4>1, <4>2, <4>5
    <3> QED BY <3>3, <3>4
  <2> QED BY <1>1, <2>1, <2>4, <2>5
<1>11. ASSUME dstate' = "dsReq", state' \in {"sLookup", "sMiss"}
       PROVE  aw_valid_r' /\ wreq_addr' = aw_addr'
  <2>1. dstate = "dsReq"
    BY <1>3, <1>11, Sends
  <2>2. dreq' = dreq
    BY <1>11, <2>1, Sends
  <2>3. wreq_addr' = aw_addr /\ aw_valid_r'
    BY <2>1, BusMoves
  <2> QED BY <2>2, <2>3 DEF aw_addr
<1>12. ASSUME state' \in {"sLookup", "sMiss", "sReplace"}, req'.cacop # "none"
       PROVE  dstate' = "dsIdle"
  <2>1. CASE in.valid
    <3>1. dstate = "dsIdle" /\ ~SendsLine /\ ~uncached_wr_en
      BY <1>12, <2>1, SameRequest, Sends
    <3> QED BY <3>1, Sends
  <2>2. CASE ~in.valid
    <3>1. req' = req /\ req.cacop # "none" /\ state # "sIdle"
      BY <1>12, <2>2, SameRequest
    <3>2. state \in {"sLookup", "sMiss"}
      <4>1. state \in {"sIdle", "sLookup", "sMiss", "sReplace", "sRefill"}
        BY DEF IInv, TypeInv
      <4>2. ReadFires(in) => req.cacop = "none"
        BY DEF Step, ArbiterFacts
      <4> QED BY <1>12, <2>2, <3>1, <4>1, <4>2, Moves
    <3>3. dstate = "dsIdle"
      BY <3>1, <3>2 DEF IInv, WriteBusInv
    <3> QED BY <3>1, <3>2, <3>3, Sends
  <2> QED BY <2>1, <2>2
<1> QED BY <1>2, <1>4, <1>7, <1>9, <1>10, <1>11, <1>12 DEF WriteBusInv, UncachedTags

\* The arbiter lets a read pass only when its words are not on their way to the bus.
LEMMA ReadBusStep ==
  ASSUME WordRequests, IInv, NEW in, Step(in)
  PROVE  ReadBusInv'
<1>1. (rreq_ongoing' <=> rd'.on) /\ (rd'.on => rd'.who = rreq_idx_src2')
  BY BusMoves
<1>2. /\ rd \in [on: BOOLEAN, who: {0, 1}, addr: Addr, cnt: Nat, len: Nat, word: BOOLEAN]
      /\ req.addr \in Addr /\ recv_cnt \in 0 .. LineWords /\ LineWords \in Nat \ {0}
      /\ (in.sl_r => rd.on) /\ (Fires(in) => ~rd.on)
      /\ state \in {"sIdle", "sLookup", "sMiss", "sReplace", "sRefill"}
  BY CacheAssumption, WaysKnown DEF IInv, TypeInv, Step, InputFacts, ArbiterFacts
<1>3. ReadsForCache =>
        /\ state = "sReplace" /\ req.cacop = "none"
        /\ rd.addr = ar_addr /\ rd.len = (IF req.uncached THEN 1 ELSE LineWords)
        /\ rd.cnt = recv_cnt /\ rd.cnt < rd.len /\ (rd.len > 1 => rd.word)
        /\ dstate # "dsIdle" =>
             IF dreq.uncached THEN dreq.addr # req.addr ELSE ~InLine(dreq.addr, req.addr)
  BY DEF IInv, ReadBusInv
<1>4. recv_cnt' = IF Beat(in) /\ ~req.uncached THEN recv_cnt + 1
                  ELSE IF state = "sReplace" THEN recv_cnt ELSE 0
  BY Receives
<1>5. Beat(in) => ReadsForCache
  BY Receives
<1>6. rd' = IF Fires(in)
            THEN [on |-> TRUE, who |-> Who(in), addr |-> AR[Who(in)].addr, cnt |-> 0,
                  len |-> IF Who(in) = 0 /\ req.uncached THEN 1 ELSE LineWords,
                  word |-> Who(in) = 1 \/ req.word]
            ELSE IF in.sl_r THEN (IF LastBeat THEN NoRead ELSE [rd EXCEPT !.cnt = @ + 1])
            ELSE rd
  BY BusMoves
\* A read for the cache is the one just accepted, or the one of the cycle before.
<1>7. ASSUME ReadsForCache', Fires(in)
      PROVE  ReadFires(in)
  BY <1>6, <1>7 DEF ReadsForCache, ReadFires
<1>8. ASSUME ReadsForCache', ~Fires(in)
      PROVE  /\ ReadsForCache /\ ~(Beat(in) /\ LastBeat)
             /\ rd' = IF Beat(in) THEN [rd EXCEPT !.cnt = @ + 1] ELSE rd
  <2>1. rd' = IF in.sl_r THEN (IF LastBeat THEN NoRead ELSE [rd EXCEPT !.cnt = @ + 1]) ELSE rd
    BY <1>6, <1>8
  <2>2. ~(in.sl_r /\ LastBeat)
    BY <1>8, <2>1 DEF ReadsForCache, NoRead
  <2>3. rd' = IF in.sl_r THEN [rd EXCEPT !.cnt = @ + 1] ELSE rd
    BY <2>1, <2>2
  <2>4. [rd EXCEPT !.cnt = @ + 1].on = rd.on /\ [rd EXCEPT !.cnt = @ + 1].who = rd.who
    BY <1>2
  <2>5. rd.on /\ rd.who = 0
    BY <1>8, <2>3, <2>4 DEF ReadsForCache
  <2> QED BY <2>2, <2>3, <2>5 DEF ReadsForCache, Beat
<1>9. ReadFires(in) => /\ state = "sMiss" /\ ~UncachedWrite /\ req.cacop = "none" /\ ~in.valid
                       /\ state' = "sReplace" /\ req' = req /\ ~rd.on
  <2>1. ReadFires(in) => state = "sMiss" /\ ~UncachedWrite /\ req.cacop = "none"
    BY DEF Step, ArbiterFacts
  <2>2. ReadFires(in) => state' = "sReplace"
    BY Moves
  <2> QED BY <1>2, <2>1, <2>2, SameRequest DEF ReadFires
<1>10. ASSUME ReadFires(in), dstate' # "dsIdle"
       PROVE  IF dreq'.uncached THEN dreq'.addr # req.addr ELSE ~InLine(dreq'.addr, req.addr)
  <2>1. dstate # "dsIdle" /\ dreq' = dreq
    <3>1. ~SendsLine
      BY <1>9, <1>10, Sends
    <3>2. ~uncached_wr_en
      BY <1>9, <1>10 DEF uncached_wr_en
    <3> QED BY <1>10, <3>1, <3>2, Sends
  <2>2. wreq_ongoing \/ aw_valid_r => wreq_addr # ar_addr
    BY <1>10 DEF Step, ArbiterFacts
  <2>3. aw_addr # ar_addr
    BY <1>2, <1>9, <1>10, <2>1, <2>2 DEF IInv, TypeInv, WriteBusInv
  <2>4. /\ dreq.uncached <=> dreq.addr.tag \in UncachedTags
        /\ req.uncached <=> req.addr.tag \in UncachedTags
    BY <1>9, <1>10, <2>1, SameRequest DEF IInv, WriteBusInv
  <2>5. dreq.addr \in Addr
    BY DEF IInv, TypeInv
  <2>6. CASE dreq.uncached /\ req.uncached
    BY <2>1, <2>3, <2>6 DEF aw_addr, ar_addr
  <2>7. CASE ~(dreq.uncached <=> req.uncached)
    <3>1. dreq.addr.tag # req.addr.tag
      BY <2>4, <2>7
    <3> QED BY <2>1, <3>1 DEF InLine
  <2>8. CASE ~dreq.uncached /\ ~req.uncached
    <3>1. [dreq.addr EXCEPT !.off = 0] # [req.addr EXCEPT !.off = 0]
      BY <2>3, <2>8 DEF aw_addr, ar_addr
    <3>2. ~InLine(dreq.addr, req.addr)
      BY <1>2, <2>5, <3>1 DEF InLine, Addr
    <3> QED BY <2>1, <2>8, <3>2
  <2> QED BY <2>6, <2>7, <2>8
<1>11. ASSUME ReadFires(in), ReadsForCache'
       PROVE  /\ state' = "sReplace" /\ req'.cacop = "none"
              /\ rd'.addr = ar_addr' /\ rd'.len = (IF req'.uncached THEN 1 ELSE LineWords)
              /\ rd'.cnt = recv_cnt' /\ rd'.cnt < rd'.len /\ (rd'.len > 1 => rd'.word)
  <2>1. Who(in) = 0 /\ Fires(in)
    BY <1>11 DEF ReadFires
  <2>2. rd' = [on |-> TRUE, who |-> 0, addr |-> AR[0].addr, cnt |-> 0,
               len |-> IF req.uncached THEN 1 ELSE LineWords, word |-> 0 = 1 \/ req.word]
    BY <1>6, <2>1
  <2>3. AR[0].addr = ar_addr
    BY DEF AR
  <2>4. ar_addr' = ar_addr
    BY <1>9, <1>11 DEF ar_addr
  <2>5. recv_cnt' = 0
    BY <1>3, <1>4, <1>5, <1>9, <1>11
  <2>6. req.uncached \/ req.word
    BY <1>9, <1>11 DEF WordRequests, IInv, RequestInv
  <2>7. rd'.word <=> req.word
    <3>1. (0 = 1 \/ req.word) <=> req.word
      OBVIOUS
    <3> QED BY <2>2, <3>1
  <2>8. rd'.len > 1 => rd'.word
    BY <2>2, <2>6, <2>7
  <2>9. rd'.addr = ar_addr' /\ rd'.len = (IF req'.uncached THEN 1 ELSE LineWords)
        /\ rd'.cnt = recv_cnt' /\ rd'.cnt < rd'.len
    BY <1>2, <1>9, <1>11, <2>2, <2>3, <2>4, <2>5
  <2> QED BY <1>9, <1>11, <2>8, <2>9
<1>12. ASSUME ReadsForCache', ~Fires(in)
       PROVE  /\ state' = "sReplace" /\ req' = req
              /\ rd'.addr = rd.addr /\ rd'.len = rd.len /\ rd'.word = rd.word
              /\ rd'.cnt = recv_cnt' /\ rd'.cnt < rd.len
  <2>1. ReadsForCache /\ ~(Beat(in) /\ LastBeat)
    BY <1>8, <1>12
  <2>2. state' = "sReplace"
    <3>1. req.uncached => state' = "sReplace"
      BY <1>3, <2>1, Moves
    <3>2. ~req.uncached => ~FillDone(in)
      BY <1>2, <1>3, <2>1 DEF FillDone
    <3> QED BY <1>3, <2>1, <3>1, <3>2, Moves
  <2>3. req' = req
    BY <2>2, SameRequest
  <2>4. CASE Beat(in)
    <3>1. rd' = [rd EXCEPT !.cnt = @ + 1] /\ ~LastBeat
      BY <1>8, <1>12, <2>1, <2>4
    <3>2. rd'.addr = rd.addr /\ rd'.len = rd.len /\ rd'.word = rd.word /\ rd'.cnt = rd.cnt + 1
      BY <1>2, <3>1
    <3>3. rd.cnt + 1 < rd.len
      BY <1>2, <1>3, <2>1, <3>1 DEF LastBeat
    <3>4. ~req.uncached
      BY <1>2, <1>3, <2>1, <3>3
    <3>5. recv_cnt' = rd.cnt + 1
      BY <1>3, <1>4, <2>1, <2>4, <3>4
    <3> QED BY <2>2, <2>3, <3>2, <3>3, <3>5
  <2>5. CASE ~Beat(in)
    <3>1. rd' = rd
      BY <1>8, <1>12, <2>5
    <3>2. recv_cnt' = recv_cnt
      BY <1>3, <1>4, <2>1, <2>5
    <3> QED BY <1>3, <2>1, <2>2, <2>3, <3>1, <3>2
  <2> QED BY <2>4, <2>5
<1>13. ASSUME ReadsForCache, dstate' # "dsIdle"
       PROVE  IF dreq'.uncached THEN dreq'.addr # req.addr ELSE ~InLine(dreq'.addr, req.addr)
  <2>1. state = "sReplace" /\ req.cacop = "none"
    BY <1>3, <1>13
  <2>2. CASE SendsLine
    <3>1. tagv_out(dirty_way).tag # req.addr.tag
      <4>1. total_hits = {}
        BY <2>1 DEF IInv, TagInv
      <4> QED BY <2>2, <4>1, Sends, WaysKnown DEF total_hits, IInv
    <3> QED BY <2>2, <3>1, Sends DEF InLine
  <2>3. CASE ~SendsLine
    <3>1. dstate # "dsIdle" /\ dreq' = dreq
      BY <1>13, <2>1, <2>3, Sends
    <3> QED BY <1>3, <1>13, <3>1
  <2> QED BY <2>2, <2>3
<1>14. ReadsForCache' =>
        /\ state' = "sReplace" /\ req'.cacop = "none"
        /\ rd'.addr = ar_addr' /\ rd'.len = (IF req'.uncached THEN 1 ELSE LineWords)
        /\ rd'.cnt = recv_cnt' /\ rd'.cnt < rd'.len /\ (rd'.len > 1 => rd'.word)
        /\ dstate' # "dsIdle" =>
             IF dreq'.uncached THEN dreq'.addr # req'.addr ELSE ~InLine(dreq'.addr, req'.addr)
  <2>1. CASE Fires(in)
    BY <1>7, <1>9, <1>10, <1>11, <2>1
  <2>2. CASE ~Fires(in)
    <3> SUFFICES ASSUME ReadsForCache'
                 PROVE  /\ state' = "sReplace" /\ req'.cacop = "none"
                        /\ rd'.addr = ar_addr' /\ rd'.len = (IF req'.uncached THEN 1 ELSE LineWords)
                        /\ rd'.cnt = recv_cnt' /\ rd'.cnt < rd'.len /\ (rd'.len > 1 => rd'.word)
                        /\ dstate' # "dsIdle" =>
                             IF dreq'.uncached THEN dreq'.addr # req'.addr
                             ELSE ~InLine(dreq'.addr, req'.addr)
      OBVIOUS
    <3>1. ReadsForCache
      BY <1>8, <2>2
    <3>2. /\ state' = "sReplace" /\ req' = req
          /\ rd'.addr = rd.addr /\ rd'.len = rd.len /\ rd'.word = rd.word
          /\ rd'.cnt = recv_cnt' /\ rd'.cnt < rd.len
      BY <1>12, <2>2
    <3>3. ar_addr' = ar_addr
      BY <3>2 DEF ar_addr
    <3> QED BY <1>3, <1>13, <3>1, <3>2, <3>3
  <2> QED BY <2>1, <2>2
<1>15. ASSUME state' = "sReplace", req'.cacop = "none", ~req'.uncached
       PROVE  ReadsForCache' \/ recv_cnt' = LineWords
  <2>1. req' = req /\ ~in.valid
    BY <1>15, SameRequest
  <2>2. CASE ReadFires(in)
    BY <1>6, <2>2 DEF ReadFires, ReadsForCache
  <2>3. CASE ~ReadFires(in)
    <3>1. state = "sReplace" /\ ~FillDone(in)
      BY <1>15, <2>1, <2>3, Moves
    <3>2. ReadsForCache \/ recv_cnt = LineWords
      BY <1>15, <2>1, <3>1 DEF IInv, ReadBusInv
    <3>3. CASE ~Beat(in)
      <4>1. recv_cnt' = recv_cnt
        BY <1>4, <3>1, <3>3
      <4>2. ReadsForCache => rd' = rd
        BY <1>2, <1>6, <3>3 DEF ReadsForCache, Beat
      <4> QED BY <3>2, <4>1, <4>2 DEF ReadsForCache
    <3>4. CASE Beat(in) /\ LastBeat
      <4>1. recv_cnt + 1 = LineWords
        BY <1>2, <1>3, <1>5, <1>15, <2>1, <3>4 DEF LastBeat
      <4> QED BY <1>4, <1>15, <2>1, <3>4, <4>1
    <3>5. CASE Beat(in) /\ ~LastBeat
      <4>1. rd.on /\ rd.who = 0 /\ in.sl_r
        BY <1>5, <3>5 DEF ReadsForCache, Beat
      <4>2. rd' = [rd EXCEPT !.cnt = @ + 1]
        BY <1>2, <1>6, <3>5, <4>1
      <4> QED BY <1>2, <4>1, <4>2 DEF ReadsForCache
    <3> QED BY <3>3, <3>4, <3>5
  <2> QED BY <2>2, <2>3
<1>16. ASSUME state' = "sRefill", req'.cacop = "none"
       PROVE  recv_cnt' = LineWords
  <2>1. req' = req
    BY <1>16, SameRequest
  <2>2. state = "sReplace" /\ ~req.uncached /\ FillDone(in)
    BY <1>16, <2>1, Moves
  <2>3. CASE Beat(in)
    <3>1. recv_cnt + 1 = LineWords
      BY <1>2, <1>3, <1>5, <2>2, <2>3 DEF LastBeat, FillDone
    <3> QED BY <1>4, <2>2, <2>3, <3>1
  <2>4. CASE ~Beat(in)
    BY <1>4, <2>2, <2>4 DEF FillDone
  <2> QED BY <2>3, <2>4
<1>17. ASSUME state' \in {"sIdle", "sLookup", "sMiss"}
       PROVE  recv_cnt' = 0
  <2>1. CASE state # "sReplace"
    BY <1>3, <1>4, <1>5, <2>1
  <2>2. CASE state = "sReplace"
    <3>1. req.uncached /\ req.cacop = "none" /\ Beat(in)
      <4>1. ~in.valid /\ ~ReadFires(in)
        BY <1>9, <2>2, SameRequest
      <4> QED BY <1>17, <2>2, <4>1, Moves
    <3>2. recv_cnt = 0
      BY <1>2, <1>3, <1>5, <3>1
    <3> QED BY <1>4, <2>2, <3>1, <3>2
  <2> QED BY <2>1, <2>2
<1> QED BY <1>1, <1>14, <1>15, <1>16, <1>17 DEF ReadBusInv, InLine

-----------------------------------------------------------------------------
(* What is behind the cache.                                               *)

\* Behind the cache, a word changes only when its line is sent or when an
\* uncached write is; what the bus does does not change it.
LEMMA BehindStep ==
  ASSUME WordRequests, IInv, NEW in, Step(in), NEW a \in Addr
  PROVE  /\ SendsLine /\ a.tag = tagv_out(dirty_way).tag /\ a.set = set =>
              Behind(a)' = data[dirty_way][set][a.off]
         /\ uncached_wr_en /\ a = req.addr => Behind(a)' = req.data
         /\ ~(SendsLine /\ a.tag = tagv_out(dirty_way).tag /\ a.set = set)
            /\ ~(uncached_wr_en /\ a = req.addr) => Behind(a)' = Behind(a)
<1>1. /\ dstate \in {"dsIdle", "dsReq", "dsWrite"} /\ (wr.on <=> dstate = "dsWrite")
      /\ (dstate # "dsWrite" => send_cnt = 0) /\ (in.sl_w => wr.on)
      /\ mem \in [Addr -> Values] /\ dreq \in [addr: Addr, line: Line, uncached: BOOLEAN]
      /\ send_cnt \in Offs /\ LineWords \in Nat
  BY CacheAssumption DEF IInv, TypeInv, WriteBusInv, Step, InputFacts
<1>2. a.off \in Offs /\ a = [tag |-> a.tag, set |-> a.set, off |-> a.off]
  BY DEF Addr
<1>3. mem' = IF in.sl_w THEN [mem EXCEPT ![wr.addr] = w_data] ELSE mem
  BY BusMoves
<1>4. Behind(a)' = IF dstate' # "dsIdle" /\ (IF dreq'.uncached THEN dreq'.addr = a
                                  ELSE dreq'.addr.tag = a.tag /\ dreq'.addr.set = a.set /\ a.off >= send_cnt')
                   THEN dreq'.line[IF dreq'.uncached THEN 0 ELSE a.off] ELSE mem'[a]
  BY DEF Behind, OnTheWay
<1>5. Behind(a) = IF dstate # "dsIdle" /\ (IF dreq.uncached THEN dreq.addr = a
                                ELSE dreq.addr.tag = a.tag /\ dreq.addr.set = a.set /\ a.off >= send_cnt)
                  THEN dreq.line[IF dreq.uncached THEN 0 ELSE a.off] ELSE mem[a]
  BY DEF Behind, OnTheWay
<1>6. CASE SendsLine
  <2>1. /\ dstate = "dsIdle" /\ dstate' = "dsReq" /\ send_cnt' = 0 /\ state = "sReplace"
        /\ dreq'.addr.tag = tagv_out(dirty_way).tag /\ dreq'.addr.set = set
        /\ dreq'.line = LineOut(dirty_way) /\ ~dreq'.uncached /\ ~uncached_wr_en
    BY <1>6, Sends
  <2>2. LineOut(dirty_way)[a.off] = data[dirty_way][set][a.off]
    BY <1>2, <2>1 DEF LineOut, DataOut, IInv, WriteHitInv
  <2>3. mem' = mem
    BY <1>1, <1>3, <2>1
  <2>4. a.off >= 0
    BY <1>2 DEF Offs
  <2> QED BY <1>4, <1>5, <1>6, <2>1, <2>2, <2>3, <2>4
<1>7. CASE uncached_wr_en
  <2>1. /\ dstate = "dsIdle" /\ dstate' = "dsReq" /\ ~SendsLine
        /\ dreq'.addr = req.addr /\ dreq'.line[0] = req.data /\ dreq'.uncached
    BY <1>7, Sends
  <2>2. mem' = mem
    BY <1>1, <1>3, <2>1
  <2> QED BY <1>4, <1>5, <1>7, <2>1, <2>2
<1>8. ASSUME ~SendsLine, ~uncached_wr_en
      PROVE  Behind(a)' = Behind(a)
  <2>1. CASE dstate = "dsIdle"
    <3>1. dstate' = "dsIdle" /\ mem' = mem
      BY <1>1, <1>3, <1>8, <2>1, Sends
    <3> QED BY <1>4, <1>5, <2>1, <3>1
  <2>2. CASE dstate = "dsReq"
    <3>1. dstate' # "dsIdle" /\ mem' = mem /\ send_cnt' = send_cnt
      BY <1>1, <1>3, <2>2, WritesBack
    <3>2. dreq' = dreq
      BY <2>2, <3>1, Sends
    <3> QED BY <1>4, <1>5, <2>2, <3>1, <3>2
  <2>3. CASE dstate = "dsWrite"
    <3>1. /\ dreq.uncached => wr.addr = dreq.addr /\ w_data = dreq.line[0] /\ w_last
          /\ ~dreq.uncached => /\ wr.addr = [dreq.addr EXCEPT !.off = send_cnt]
                               /\ w_data = dreq.line[send_cnt]
                               /\ w_last <=> send_cnt + 1 = LineWords
          /\ wr.addr \in Addr
      BY <2>3, WordOut DEF IInv
    <3>2. ~dreq.uncached => (wr.addr = a <=> /\ dreq.addr.tag = a.tag /\ dreq.addr.set = a.set
                                             /\ a.off = send_cnt)
      <4>1. dreq.addr \in Addr
        BY <1>1
      <4>2. [dreq.addr EXCEPT !.off = send_cnt] =
              [tag |-> dreq.addr.tag, set |-> dreq.addr.set, off |-> send_cnt]
        BY <4>1 DEF Addr
      <4> QED BY <1>2, <3>1, <4>2
    <3>3. /\ dstate' = IF in.sl_w /\ w_last THEN "dsIdle" ELSE "dsWrite"
          /\ send_cnt' = IF in.sl_w /\ ~w_last THEN send_cnt + 1
                         ELSE IF ~in.sl_w THEN send_cnt ELSE 0
      BY <2>3, WritesBack
    <3>4. dstate' # "dsIdle" => dreq' = dreq
      BY <2>3, Sends
    <3>5. a.off \in Nat /\ send_cnt \in Nat /\ a.off < LineWords
      BY <1>1, <1>2 DEF Offs
    <3>6. CASE ~in.sl_w
      BY <1>3, <1>4, <1>5, <2>3, <3>3, <3>4, <3>6
    <3>7. CASE in.sl_w
      <4>1. mem'[a] = IF wr.addr = a THEN w_data ELSE mem[a]
        BY <1>1, <1>3, <3>1, <3>7
      <4>2. CASE dreq.uncached
        BY <1>4, <1>5, <2>3, <3>1, <3>3, <3>7, <4>1, <4>2
      <4>3. CASE ~dreq.uncached /\ w_last
        <5>1. dstate' = "dsIdle" /\ send_cnt + 1 = LineWords
          BY <3>1, <3>3, <3>7, <4>3
        <5>2. a.off >= send_cnt <=> a.off = send_cnt
          BY <1>1, <3>5, <5>1
        <5> QED BY <1>4, <1>5, <2>3, <3>1, <3>2, <4>1, <4>3, <5>1, <5>2
      <4>4. CASE ~dreq.uncached /\ ~w_last
        <5>1. dstate' = "dsWrite" /\ send_cnt' = send_cnt + 1 /\ dreq' = dreq
          BY <3>3, <3>4, <3>7, <4>4
        <5>2. a.off >= send_cnt <=> a.off = send_cnt \/ a.off >= send_cnt + 1
          BY <3>5
        <5>3. ~(a.off = send_cnt /\ a.off >= send_cnt + 1)
          BY <3>5
        <5> QED BY <1>4, <1>5, <2>3, <3>1, <3>2, <4>1, <4>4, <5>1, <5>2, <5>3
      <4> QED BY <4>2, <4>3, <4>4
    <3> QED BY <3>6, <3>7
  <2> QED BY <1>1, <2>1, <2>2, <2>3
<1> QED BY <1>6, <1>7, <1>8

\* A word is in one way.
LEMMA CachedOnce ==
  ASSUME TypeInv, TagInv, NEW a \in Addr, NEW w \in Cached(a)
  PROVE  Cached(a) = {w} /\ w \in Ways /\ tagv[w][a.set].valid /\ tagv[w][a.set].tag = a.tag
<1>1. w \in Ways /\ tagv[w][a.set].valid /\ tagv[w][a.set].tag = a.tag /\ a.set \in Sets
  BY DEF Cached, Addr
<1>2. ASSUME NEW v \in Cached(a)
      PROVE  v = w
  <2>1. v \in Ways /\ tagv[v][a.set].valid /\ tagv[v][a.set].tag = a.tag
    BY <1>2 DEF Cached
  <2> QED BY <1>1, <2>1 DEF TagInv, Ways
<1> QED BY <1>1, <1>2

\* What it is to be cached.
LEMMA CachedIs ==
  ASSUME TypeInv, NEW a \in Addr, NEW w \in Ways
  PROVE  w \in Cached(a) <=> tagv[w][a.set].valid /\ tagv[w][a.set].tag = a.tag
<1>1. tagv[w][a.set] \in [valid: BOOLEAN, tag: Tags]
  BY WaysKnown DEF Addr
<1>2. tagv[w][a.set] = [valid |-> tagv[w][a.set].valid, tag |-> tagv[w][a.set].tag]
  BY <1>1
<1>3. CASE tagv[w][a.set].valid
  <2>1. tagv[w][a.set].valid = TRUE
    BY <1>1, <1>3
  <2>2. tagv[w][a.set] = [valid |-> TRUE, tag |-> a.tag] <=> tagv[w][a.set].tag = a.tag
    <3>1. tagv[w][a.set].tag = a.tag => tagv[w][a.set] = [valid |-> TRUE, tag |-> a.tag]
      BY <1>2, <2>1, Zenon
    <3>2. [valid |-> TRUE, tag |-> a.tag].tag = a.tag
      OBVIOUS
    <3> QED BY <3>1, <3>2, Zenon
  <2> QED BY <1>3, <2>2 DEF Cached
<1>4. CASE ~tagv[w][a.set].valid
  BY <1>4 DEF Cached
<1> QED BY <1>3, <1>4

\* An uncached word is not in the cache.
LEMMA UncachedNotCached ==
  ASSUME TypeInv, TagInv, NEW a \in Addr, a.tag \in UncachedTags
  PROVE  Cached(a) = {}
<1> SUFFICES ASSUME NEW w \in Cached(a)
             PROVE  FALSE
  OBVIOUS
<1> QED BY CachedOnce DEF TagInv, Addr

\* Which words are cached after a cycle.
LEMMA CachedStep ==
  ASSUME IInv, NEW in, Step(in), NEW a \in Addr
  PROVE  /\ state # "sRefill" => Cached(a)' = Cached(a)
         /\ state = "sRefill" /\ req.cacop = "none" =>
              Cached(a)' = IF a.set # set THEN Cached(a)
                           ELSE IF a.tag = req.addr.tag THEN {replace_way}
                           ELSE Cached(a) \ {replace_way}
         /\ state = "sRefill" /\ req.cacop # "none" =>
              Cached(a)' = IF a.set # set THEN Cached(a) ELSE Cached(a) \ {Invalidated}
<1>1. TypeInv /\ TagStep /\ a.set \in Sets
  BY MemoriesMove DEF IInv, Addr
<1>2. /\ tagv \in [Ways -> [Sets -> [valid: BOOLEAN, tag: Tags]]]
      /\ replace_way \in Ways /\ Invalidated \in Ways /\ set \in Sets
  BY <1>1, WaysKnown DEF TypeInv
<1>3. Cached(a)' = {w \in Ways : tagv'[w][a.set] = [valid |-> TRUE, tag |-> a.tag]}
  BY DEF Cached, Ways
<1>4. CASE state # "sRefill"
  BY <1>1, <1>3, <1>4 DEF TagStep, Cached
<1>5. CASE state = "sRefill" /\ req.cacop = "none"
  <2>1. tagv' = [tagv EXCEPT ![replace_way][set] = [valid |-> TRUE, tag |-> req.addr.tag]]
    BY <1>1, <1>5 DEF TagStep
  <2>2. \A w \in Ways : tagv'[w][a.set] = IF w = replace_way /\ a.set = set
                                          THEN [valid |-> TRUE, tag |-> req.addr.tag] ELSE tagv[w][a.set]
    BY <1>1, <1>2, <2>1
  <2>3. CASE a.set # set
    BY <1>3, <1>5, <2>2, <2>3 DEF Cached
  <2>4. CASE a.set = set /\ a.tag # req.addr.tag
    BY <1>2, <1>3, <1>5, <2>2, <2>4 DEF Cached
  <2>5. CASE a.set = set /\ a.tag = req.addr.tag
    <3>1. total_hits = {}
      BY <1>5 DEF IInv, TagInv
    <3>2. \A w \in Ways : tagv[w][a.set] # [valid |-> TRUE, tag |-> a.tag]
      BY <2>5, <3>1 DEF total_hits, tagv_out
    <3>3. Cached(a)' = {replace_way}
      BY <1>2, <1>3, <2>2, <2>5, <3>2
    <3> QED BY <1>5, <2>5, <3>3
  <2> QED BY <2>3, <2>4, <2>5
<1>6. CASE state = "sRefill" /\ req.cacop # "none"
  <2>1. tagv' = [tagv EXCEPT ![Invalidated][set].valid = FALSE]
    BY <1>1, <1>6 DEF TagStep
  <2>2. \A w \in Ways : tagv'[w][a.set] = IF w = Invalidated /\ a.set = set
                                          THEN [tagv[w][a.set] EXCEPT !.valid = FALSE] ELSE tagv[w][a.set]
    BY <1>1, <1>2, <2>1
  <2>3. \A w \in Ways : [tagv[w][a.set] EXCEPT !.valid = FALSE] # [valid |-> TRUE, tag |-> a.tag]
    BY <1>1, <1>2
  <2>4. CASE a.set # set
    BY <1>3, <1>6, <2>2, <2>4 DEF Cached
  <2>5. CASE a.set = set
    BY <1>2, <1>3, <1>6, <2>2, <2>3, <2>5 DEF Cached
  <2> QED BY <2>4, <2>5
<1> QED BY <1>4, <1>5, <1>6

\* A line that is not marked dirty agrees with what is behind the cache, and the line
\* a refill or an invalidation drops has been sent if it did not.
LEMMA CleanStep ==
  ASSUME WordRequests, IInv, NEW in, Step(in)
  PROVE  CleanInv'
<1>1. /\ TypeInv /\ TagInv /\ set \in Sets /\ dirty_way \in Ways /\ Invalidated \in Ways
      /\ replace_way \in Ways /\ req.addr.tag \in Tags
  BY WaysKnown DEF IInv, TypeInv
<1>2. TagStep /\ DataStep /\ DirtyStep
  BY MemoriesMove
<1>3. /\ data \in [Ways -> [Sets -> Line]] /\ dirty \in [Ways -> [Sets -> BOOLEAN]]
      /\ wreq.way \in Ways /\ wreq.addr \in Addr /\ wreq.addr.set \in Sets
  BY <1>1 DEF TypeInv, Addr
<1>4. ASSUME NEW a \in Addr, NEW w \in Cached(a)', ~dirty'[w][a.set]
      PROVE  data'[w][a.set][a.off] = Behind(a)'
  <2>1. w \in Ways /\ a.set \in Sets /\ a.off \in Offs
    BY DEF Cached, Ways, Addr
  <2>2. w \in Cached(a) /\ ~dirty[w][a.set] => data[w][a.set][a.off] = Behind(a)
    BY DEF IInv, CleanInv
  <2>3. CASE state = "sRefill"
    <3>1. ~wreq.on /\ ~SendsLine /\ ~uncached_wr_en
      BY <2>3 DEF IInv, WriteHitInv, SendsLine, cacheline_wr_en, uncached_wr_en
    <3>2. dirty' = dirty /\ Behind(a)' = Behind(a)
      BY <1>2, <3>1, BehindStep DEF DirtyStep
    <3>3. CASE req.cacop = "none" /\ w = replace_way /\ a.set = set
      <4>1. a.tag = req.addr.tag
        BY <2>3, <3>3, CachedStep
      <4>2. /\ data' = [data EXCEPT ![replace_way][set] = recv_data]
            /\ recv_cnt = LineWords /\ ~req.uncached
        BY <1>2, <2>3, <3>1, <3>3 DEF DataStep, IInv, ReadBusInv, RequestInv
      <4>3. data'[w][a.set][a.off] = recv_data[a.off]
        BY <1>1, <1>3, <3>3, <4>2
      <4>4. a.off < recv_cnt
        BY <2>1, <4>2, CacheAssumption DEF Offs
      <4>5. recv_data[a.off] = Behind(a)
        BY <2>3, <3>3, <4>1, <4>2, <4>4 DEF IInv, FillInv, InLine, set
      <4> QED BY <3>2, <4>3, <4>5
    <3>4. CASE req.cacop = "none" /\ ~(w = replace_way /\ a.set = set)
      <4>1. w \in Cached(a)
        BY <2>3, <3>4, CachedStep
      <4>2. data' = [data EXCEPT ![replace_way][set] = recv_data]
        BY <1>2, <2>3, <3>1, <3>4 DEF DataStep
      <4>3. data'[w][a.set] = data[w][a.set]
        BY <1>1, <1>3, <2>1, <3>4, <4>2
      <4> QED BY <1>4, <2>2, <3>2, <4>1, <4>3
    <3>5. CASE req.cacop # "none"
      <4>1. w \in Cached(a)
        BY <2>3, <3>5, CachedStep
      <4>2. data' = data
        BY <1>2, <3>1, <3>5 DEF DataStep
      <4> QED BY <1>4, <2>2, <3>2, <4>1, <4>2
    <3> QED BY <3>3, <3>4, <3>5
  <2>4. CASE state # "sRefill"
    <3>1. w \in Cached(a)
      BY <2>4, CachedStep
    <3>2. /\ tagv[w][a.set].valid /\ tagv[w][a.set].tag = a.tag
      BY <1>1, <3>1, CachedOnce
    <3>3. ~(uncached_wr_en /\ a = req.addr)
      <4>1. a.tag \notin UncachedTags
        BY <1>1, <2>1, <3>2 DEF TagInv
      <4> QED BY <4>1, Sends, SameRequest
    <3>4. CASE wreq.on
      <4>1. ~SendsLine
        BY <3>4, Sends DEF IInv, WriteHitInv
      <4>2. /\ dirty' = [dirty EXCEPT ![wreq.way][wreq.addr.set] = TRUE]
            /\ data' = [data EXCEPT ![wreq.way][wreq.addr.set][wreq.addr.off] = wreq.data]
        BY <1>2, <3>4, <4>1 DEF DirtyStep, DataStep
      <4>3. ~(w = wreq.way /\ a.set = wreq.addr.set)
        BY <1>3, <1>4, <2>1, <4>2
      <4>4. dirty'[w][a.set] = dirty[w][a.set] /\ data'[w][a.set] = data[w][a.set]
        BY <1>3, <2>1, <4>2, <4>3
      <4>5. Behind(a)' = Behind(a)
        BY <3>3, <4>1, BehindStep
      <4> QED BY <1>4, <2>2, <3>1, <4>4, <4>5
    <3>5. CASE ~wreq.on /\ SendsLine /\ w = dirty_way /\ a.set = set
      <4>1. Behind(a)' = data[dirty_way][set][a.off]
        BY <3>2, <3>5, BehindStep DEF tagv_out
      <4>2. data' = data
        BY <1>2, <2>4, <3>5 DEF DataStep
      <4> QED BY <3>5, <4>1, <4>2
    <3>6. CASE ~wreq.on /\ ~(SendsLine /\ w = dirty_way /\ a.set = set)
      <4>1. data' = data
        BY <1>2, <2>4, <3>6 DEF DataStep
      <4>2. dirty'[w][a.set] = dirty[w][a.set]
        BY <1>1, <1>2, <1>3, <2>1, <3>6 DEF DirtyStep
      <4>3. ~(SendsLine /\ a.tag = tagv_out(dirty_way).tag /\ a.set = set)
        <5> SUFFICES ASSUME SendsLine, a.tag = tagv_out(dirty_way).tag, a.set = set
                     PROVE  FALSE
          OBVIOUS
        <5>1. tagv[dirty_way][a.set].valid /\ tagv[dirty_way][a.set].tag = a.tag
          BY Sends DEF tagv_out
        <5>2. dirty_way \in Cached(a)
          BY <1>1, <5>1, CachedIs
        <5> QED BY <1>1, <3>1, <3>6, <5>2, CachedOnce
      <4>4. Behind(a)' = Behind(a)
        BY <3>3, <4>3, BehindStep
      <4> QED BY <1>4, <2>2, <3>1, <4>1, <4>2, <4>4
    <3> QED BY <3>4, <3>5, <3>6
  <2> QED BY <2>3, <2>4
<1>5. ASSUME state' = "sRefill"
      PROVE  LET w == IF req'.cacop = "none" THEN replace_way' ELSE Invalidated'
             IN  tagv'[w][set'].valid => ~dirty'[w][set']
  <2>1. req' = req /\ state = "sReplace" /\ ~wreq.on
    BY <1>5, SameRequest, Moves DEF IInv, WriteHitInv
  <2>2. tagv' = tagv /\ replace_way' = replace_way /\ set' = set
    BY <1>2, <1>5, <2>1, MemoriesMove DEF TagStep, set
  <2>3. Invalidated' = Invalidated
    BY <2>1, <2>2 DEF Invalidated, hit_way, total_hits, tagv_out, Ways
  <2> DEFINE w == IF req.cacop = "none" THEN replace_way ELSE Invalidated
  <2>4. w = dirty_way /\ w \in Ways
    <3>1. req.cacop \in {"none", "idx_inv", "hit_inv"}
      BY <1>1 DEF TypeInv, Request
    <3> QED BY <1>1, <3>1 DEF dirty_way, Invalidated
  <2> HIDE DEF w
  <2>5. dirty' = IF SendsLine THEN [dirty EXCEPT ![dirty_way][set] = FALSE] ELSE dirty
    BY <1>2, <2>1 DEF DirtyStep
  <2>6. ASSUME tagv[w][set].valid, dirty[w][set]
        PROVE  SendsLine
    <3>1. ~req.uncached
      BY <1>5, <2>1, CacopReads, Moves
    <3>2. dstate = "dsIdle"
      <4>1. CASE req.cacop = "none"
        BY <1>5, <2>1, <2>6, <4>1, Moves DEF FillDone, w
      <4>2. CASE req.cacop # "none"
        BY <2>1, <4>2 DEF IInv, WriteBusInv
      <4> QED BY <4>1, <4>2
    <3> QED BY <2>1, <2>4, <2>6, <3>1, <3>2 DEF SendsLine, cacheline_wr_en, dstate_idle, tagv_out
  <2>7. tagv[w][set].valid => ~dirty'[w][set]
    <3>1. CASE SendsLine
      BY <1>1, <1>3, <2>4, <2>5, <3>1
    <3>2. CASE ~SendsLine
      BY <2>5, <2>6, <3>2
    <3> QED BY <3>1, <3>2
  <2> QED BY <2>1, <2>2, <2>3, <2>7 DEF w
<1> QED BY <1>4, <1>5 DEF CleanInv, Addr, Offs

\* A word that arrives is the one behind the cache.
LEMMA FillStep ==
  ASSUME WordRequests, IInv, NEW in, Step(in)
  PROVE  FillInv'
<1> SUFFICES ASSUME state' \in {"sReplace", "sRefill"}, req'.cacop = "none", ~req'.uncached,
                    NEW a \in Addr, InLine(a, req'.addr), a.off < recv_cnt'
             PROVE  recv_data'[a.off] = Behind(a)'
  BY DEF FillInv, Addr, Offs, InLine
<1>1. req' = req /\ ~in.valid
  BY SameRequest
<1>2. TypeInv /\ req.addr \in Addr /\ recv_cnt \in 0 .. LineWords /\ LineWords \in Nat /\ a.off \in Offs
  BY WaysKnown DEF IInv, TypeInv, Addr
<1>3. Beat(in) => ReadsForCache
  BY Receives
<1>4. state = "sReplace"
  <2>1. ReadFires(in) => recv_cnt' = 0
    <3>1. ReadFires(in) => state = "sMiss"
      BY DEF Step, ArbiterFacts
    <3> QED BY <1>3, <3>1, Receives DEF IInv, ReadBusInv
  <2>2. ~ReadFires(in)
    BY <1>2, <2>1 DEF Offs
  <2> QED BY <1>1, <2>2, Moves
<1>5. Behind(a)' = Behind(a)
  <2>1. ~uncached_wr_en
    BY <1>4 DEF uncached_wr_en
  <2>2. ~(SendsLine /\ a.tag = tagv_out(dirty_way).tag /\ a.set = set)
    <3>1. total_hits = {}
      BY <1>1, <1>4 DEF IInv, TagInv
    <3> QED BY <1>1, <1>2, <3>1, Sends, WaysKnown DEF total_hits, InLine
  <2> QED BY <2>1, <2>2, BehindStep
<1>6. CASE Beat(in) /\ a.off = recv_cnt
  <2>1. recv_cnt \in Offs /\ NextBeat = mem[[req.addr EXCEPT !.off = recv_cnt]]
    BY <1>1, <1>2, <1>3, <1>6, BeatIs DEF IInv
  <2>2. [req.addr EXCEPT !.off = recv_cnt] = a
    BY <1>1, <1>2, <1>6 DEF InLine, Addr
  <2>3. recv_data' = [recv_data EXCEPT ![recv_cnt] = NextBeat]
    BY <1>1, <1>6, Receives
  <2>4. recv_data'[a.off] = mem[a]
    BY <1>2, <1>6, <2>1, <2>2, <2>3 DEF TypeInv, Line
  <2>5. ~OnTheWay(a)
    <3> SUFFICES ASSUME dstate # "dsIdle"
                 PROVE  ~OnTheWay(a)
      BY DEF OnTheWay
    <3>1. IF dreq.uncached THEN dreq.addr # req.addr ELSE ~InLine(dreq.addr, req.addr)
      BY <1>3, <1>6 DEF IInv, ReadBusInv
    <3>2. dreq.uncached => dreq.addr.tag # req.addr.tag
      BY <1>1, <1>4, SameRequest DEF IInv, WriteBusInv
    <3> QED BY <1>1, <3>1, <3>2 DEF OnTheWay, InLine
  <2> QED BY <1>5, <2>4, <2>5 DEF Behind
<1>7. CASE ~(Beat(in) /\ a.off = recv_cnt)
  <2>1. /\ recv_cnt' = IF Beat(in) THEN recv_cnt + 1 ELSE recv_cnt
        /\ recv_data' = IF Beat(in) THEN [recv_data EXCEPT ![recv_cnt] = NextBeat] ELSE recv_data
    BY <1>1, <1>4, Receives
  <2>2. a.off < recv_cnt
    BY <1>2, <1>7, <2>1 DEF Offs
  <2>3. recv_data'[a.off] = recv_data[a.off]
    BY <1>2, <1>7, <2>1 DEF TypeInv, Line
  <2>4. recv_data[a.off] = Behind(a)
    BY <1>1, <1>4, <2>2 DEF IInv, FillInv
  <2> QED BY <1>5, <2>3, <2>4
<1> QED BY <1>6, <1>7

\* It holds at first.
LEMMA InvariantInit == Init => IInv
<1> SUFFICES ASSUME Init
             PROVE  IInv
  OBVIOUS
<1>1. ZeroAddr \in Addr /\ ZeroLine \in Line /\ 0 \in Values /\ LineWords \in Nat \ {0} /\ 0 \in Offs
  BY CacheAssumption DEF ZeroAddr, ZeroLine, Addr, Line, Offs
<1>2. ZeroAddr.tag \in Tags
  BY <1>1 DEF Addr
<1>3. TypeInv
  <2>1. /\ tagv \in [Ways -> [Sets -> [valid: BOOLEAN, tag: Tags]]]
        /\ data \in [Ways -> [Sets -> Line]] /\ dirty \in [Ways -> [Sets -> BOOLEAN]]
    BY <1>1, <1>2 DEF Init, CacheInit
  <2>2. /\ state \in {"sIdle", "sLookup", "sMiss", "sReplace", "sRefill"} /\ req \in Request
        /\ replace_way \in Ways /\ recv_data \in Line /\ recv_cnt \in 0 .. LineWords
    BY <1>1 DEF Init, CacheInit, NoReq, Request, Ways
  <2>3. /\ wreq \in [on: BOOLEAN, way: Ways, addr: Addr, data: Values]
        /\ wreq_r \in [on: BOOLEAN, way: Ways, addr: Addr, data: Values]
    BY <1>1 DEF Init, CacheInit, NoWrite, Ways
  <2>4. /\ dstate \in {"dsIdle", "dsReq", "dsWrite"}
        /\ dreq \in [addr: Addr, line: Line, uncached: BOOLEAN] /\ send_cnt \in Offs
    BY <1>1 DEF Init, CacheInit, NoLine
  <2>5. /\ rreq_ongoing \in BOOLEAN /\ rreq_idx_src2 \in {0, 1}
        /\ wreq_ongoing \in BOOLEAN /\ wreq_idx_src2 \in {0, 1}
        /\ wreq_addr \in Addr /\ aw_valid_r \in BOOLEAN
    <3>1. Arb!NoAddr \in Addr
      BY <1>1 DEF Arb!NoAddr
    <3> QED BY <3>1 DEF Init, Arb!ArbiterInit
  <2>6. /\ fetch \in {"sIdle", "sMiss", "sReplace"} /\ mem \in [Addr -> Values]
        /\ rd \in [on: BOOLEAN, who: {0, 1}, addr: Addr, cnt: Nat, len: Nat, word: BOOLEAN]
        /\ wr \in [on: BOOLEAN, addr: Addr]
    BY <1>1 DEF Init, NoRead, NoBurst
  <2> QED BY <2>1, <2>2, <2>3, <2>4, <2>5, <2>6 DEF TypeInv
<1>4. RequestInv /\ WriteHitInv /\ FillInv
  BY DEF Init, CacheInit, RequestInv, WriteHitInv, FillInv, NoWrite
<1>5. \A w \in Ways, s \in Sets : ~tagv[w][s].valid
  BY DEF Init, CacheInit
<1>6. TagInv
  BY <1>5 DEF TagInv, Ways, Init, CacheInit
<1>7. CleanInv
  <2>1. \A a \in Addr : Cached(a) = {}
    BY <1>3, <1>5, CachedIs DEF Cached, Addr
  <2> QED BY <2>1 DEF CleanInv, Init, CacheInit
<1>8. WriteBusInv
  BY DEF WriteBusInv, Init, CacheInit, Arb!ArbiterInit, NoBurst
<1>9. ReadBusInv
  BY DEF ReadBusInv, ReadsForCache, Init, CacheInit, Arb!ArbiterInit, NoRead
<1> QED BY <1>3, <1>4, <1>6, <1>7, <1>8, <1>9 DEF IInv

\* A step of the specification is a clock cycle.
LEMMA StepIsClock ==
  ASSUME CacopAnyTime = FALSE, IInv, Next
  PROVE  \E in \in RawInputs : Step(in)
<1>1. PICK in \in RawInputs : Clock(in)
  BY DEF Next, Take, Work
<1>2. InputFacts(in)
  BY InputsKnown DEF IInv
<1>3. ArbiterFacts(in)
  BY <1>2, ArbiterKnown DEF IInv
<1> QED BY <1>1, <1>2, <1>3 DEF Step

\* Every step of the specification keeps the invariant.
LEMMA InvariantStep ==
  ASSUME WordRequests, CacopAnyTime = FALSE, IInv, [Next]_vars
  PROVE  IInv'
<1>1. CASE Next
  <2>1. PICK in \in RawInputs : Step(in)
    BY <1>1, StepIsClock
  <2>2. TypeInv' /\ RequestInv' /\ WriteHitInv' /\ TagInv'
    BY <2>1, TypeStep, RequestStep, WriteHitInvStep, TagInvStep
  <2>3. CleanInv' /\ WriteBusInv' /\ ReadBusInv' /\ FillInv'
    BY <2>1, CleanStep, WriteBusStep, ReadBusStep, FillStep
  <2> QED BY <2>2, <2>3 DEF IInv
<1>2. CASE UNCHANGED vars
  <2>1. TypeInv'
    BY <1>2 DEF IInv, TypeInv, vars, cacheVars, arbVars, Request, Line, Addr, Offs, Ways
  <2>2. RequestInv'
    BY <1>2 DEF IInv, RequestInv, vars, cacheVars, UncachedWrite
  <2>3. WriteHitInv'
    BY <1>2 DEF IInv, WriteHitInv, vars, cacheVars
  <2>4. TagInv'
    BY <1>2 DEF IInv, TagInv, vars, cacheVars, UncachedTags, total_hits, tagv_out, set, Ways
  <2>5. CleanInv'
    <3>1. \A a \in Addr : Cached(a)' = Cached(a) /\ Behind(a)' = Behind(a)
      BY <1>2 DEF vars, cacheVars, Cached, Behind, OnTheWay, Ways
    <3>2. Invalidated' = Invalidated /\ set' = set
      BY <1>2 DEF vars, cacheVars, Invalidated, hit_way, total_hits, tagv_out, set, Ways
    <3> QED BY <1>2, <3>1, <3>2 DEF IInv, CleanInv, vars, cacheVars, Addr, Offs
  <2>6. WriteBusInv'
    BY <1>2 DEF IInv, WriteBusInv, vars, cacheVars, arbVars, UncachedTags, aw_addr
  <2>7. ReadBusInv'
    BY <1>2 DEF IInv, ReadBusInv, ReadsForCache, vars, cacheVars, arbVars, ar_addr, InLine
  <2>8. FillInv'
    BY <1>2 DEF IInv, FillInv, vars, cacheVars, Behind, OnTheWay, InLine, Addr, Offs
  <2> QED BY <2>1, <2>2, <2>3, <2>4, <2>5, <2>6, <2>7, <2>8 DEF IInv
<1> QED BY <1>1, <1>2

-----------------------------------------------------------------------------
(* The theorems.                                                           *)

\* The cache's state machines, the arbiter and the bus memory keep what they
\* know of each other: IInv, part by part, in every state.
THEOREM Invariant ==
  ASSUME WordRequests, CacopAnyTime = FALSE
  PROVE  Spec => []IInv
<1>1. Init => IInv
  BY InvariantInit
<1>2. IInv /\ [Next]_vars => IInv'
  BY InvariantStep
<1> QED BY <1>1, <1>2, PTL DEF Spec

-----------------------------------------------------------------------------
(* The current value of a word.                                            *)

\* In the cache, or else behind it; and with the write that hit and is not in
\* the memories yet.
Held(a)   == IF Cached(a) # {} THEN data[CHOOSE w \in Cached(a) : TRUE][a.set][a.off] ELSE Behind(a)
Stored(a) == IF wreq.on /\ wreq.addr = a THEN wreq.data ELSE Held(a)

\* The current value, by where it is.
LEMMA CurrentIs ==
  ASSUME NEW a \in Addr
  PROVE  Current(a) = IF Busy /\ req.wr /\ req.addr = a THEN req.data ELSE Stored(a)
BY DEF Current, Stored, Held

\* The value the cache and what is behind it hold, now and a cycle later.
LEMMA HeldIs ==
  ASSUME TypeInv, TagInv, NEW a \in Addr
  PROVE  /\ \A w \in Cached(a) : Held(a) = data[w][a.set][a.off]
         /\ Cached(a) = {} => Held(a) = Behind(a)
<1>1. ASSUME NEW w \in Cached(a)
      PROVE  Held(a) = data[w][a.set][a.off]
  <2>1. Cached(a) = {w}
    BY CachedOnce
  <2>2. (CHOOSE v \in Cached(a) : TRUE) = w
    BY <2>1
  <2> QED BY <2>1, <2>2 DEF Held
<1> QED BY <1>1 DEF Held

LEMMA HeldNext ==
  ASSUME TagInv', NEW a \in Addr
  PROVE  /\ \A w \in Cached(a)' : Held(a)' = data'[w][a.set][a.off]
         /\ Cached(a)' = {} => Held(a)' = Behind(a)'
<1>1. ASSUME NEW w \in Cached(a)'
      PROVE  Held(a)' = data'[w][a.set][a.off]
  <2>1. ASSUME NEW v \in Cached(a)'
        PROVE  v = w
    <3>1. /\ v \in Ways /\ tagv'[v][a.set].valid /\ tagv'[v][a.set].tag = a.tag
          /\ w \in Ways /\ tagv'[w][a.set].valid /\ tagv'[w][a.set].tag = a.tag
      BY DEF Cached, Ways
    <3>2. a.set \in Sets
      BY DEF Addr
    <3> QED BY <3>1, <3>2 DEF TagInv, Ways
  <2>2. Cached(a)' = {w}
    BY <2>1
  <2>3. (CHOOSE v \in Cached(a)' : TRUE) = w
    BY <2>2
  <2> QED BY <2>2, <2>3 DEF Held
<1> QED BY <1>1 DEF Held

\* A request takes effect when it hits or leaves for the bus.
TakesEffect == (hit /\ req.wr) \/ uncached_wr_en

\* A refill and an invalidation keep every value.
LEMMA RefillKeeps ==
  ASSUME WordRequests, IInv, NEW in, Step(in), NEW a \in Addr, state = "sRefill"
  PROVE  Stored(a)' = Stored(a)
<1>1. /\ TypeInv /\ TagInv /\ TypeInv' /\ TagInv' /\ a.set \in Sets /\ a.off \in Offs
  BY TypeStep, TagInvStep DEF IInv, Addr
<1>2. /\ ~wreq.on /\ ~wreq'.on /\ ~SendsLine /\ ~uncached_wr_en
  BY WriteHits DEF IInv, WriteHitInv, SendsLine, cacheline_wr_en, uncached_wr_en, NoWrite
<1>3. Stored(a) = Held(a) /\ Stored(a)' = Held(a)'
  BY <1>2 DEF Stored
<1>4. Behind(a)' = Behind(a)
  BY <1>2, BehindStep
<1>5. /\ \A w \in Cached(a) : Held(a) = data[w][a.set][a.off]
      /\ Cached(a) = {} => Held(a) = Behind(a)
  BY <1>1, HeldIs
<1>6. /\ \A w \in Cached(a)' : Held(a)' = data'[w][a.set][a.off]
      /\ Cached(a)' = {} => Held(a)' = Behind(a)'
  BY <1>1, HeldNext
<1>7. data \in [Ways -> [Sets -> Line]] /\ replace_way \in Ways /\ Invalidated \in Ways /\ set \in Sets
  BY <1>1, WaysKnown DEF TypeInv
<1>8. \A w \in Cached(a) : ~dirty[w][a.set] => data[w][a.set][a.off] = Behind(a)
  BY DEF IInv, CleanInv
<1>9. CASE req.cacop = "none"
  <2>1. data' = [data EXCEPT ![replace_way][set] = recv_data]
    BY <1>2, <1>9, MemoriesMove DEF DataStep
  <2>2. tagv[replace_way][set].valid => ~dirty[replace_way][set]
    BY <1>9 DEF IInv, CleanInv
  <2>3. CASE a.set # set
    <3>1. Cached(a)' = Cached(a)
      BY <1>9, <2>3, CachedStep
    <3>2. \A w \in Cached(a) : data'[w][a.set] = data[w][a.set]
      BY <1>1, <1>7, <2>1, <2>3 DEF Cached
    <3> QED BY <1>3, <1>4, <1>5, <1>6, <3>1, <3>2
  <2>4. CASE a.set = set /\ a.tag = req.addr.tag
    <3>1. Cached(a)' = {replace_way}
      BY <1>9, <2>4, CachedStep
    <3>2. Held(a)' = recv_data[a.off]
      BY <1>6, <1>7, <2>1, <2>4, <3>1
    <3>3. recv_data[a.off] = Behind(a)
      <4>1. ~req.uncached /\ recv_cnt = LineWords
        BY <1>9 DEF IInv, RequestInv, ReadBusInv
      <4>2. a.off < recv_cnt
        BY <1>1, <4>1, CacheAssumption DEF Offs
      <4> QED BY <1>9, <2>4, <4>1, <4>2 DEF IInv, FillInv, InLine, set
    <3>4. Cached(a) = {}
      <4>1. total_hits = {}
        BY <1>9 DEF IInv, TagInv
      <4> QED BY <2>4, <4>1 DEF Cached, total_hits, tagv_out
    <3> QED BY <1>3, <1>5, <3>2, <3>3, <3>4
  <2>5. CASE a.set = set /\ a.tag # req.addr.tag
    <3>1. Cached(a)' = Cached(a) \ {replace_way}
      BY <1>9, <2>5, CachedStep
    <3>2. CASE replace_way \in Cached(a)
      <4>1. Cached(a) = {replace_way}
        BY <1>1, <3>2, CachedOnce
      <4>2. Held(a)' = Behind(a)
        BY <1>4, <1>6, <3>1, <4>1
      <4>3. tagv[replace_way][set].valid
        BY <1>1, <2>5, <3>2, CachedOnce
      <4>4. Held(a) = Behind(a)
        BY <1>5, <1>8, <2>2, <2>5, <3>2, <4>3
      <4> QED BY <1>3, <4>2, <4>4
    <3>3. CASE replace_way \notin Cached(a)
      <4>1. Cached(a)' = Cached(a)
        BY <3>1, <3>3
      <4>2. \A w \in Cached(a) : data'[w][a.set] = data[w][a.set]
        BY <1>1, <1>7, <2>1, <3>3 DEF Cached
      <4> QED BY <1>3, <1>4, <1>5, <1>6, <4>1, <4>2
    <3> QED BY <3>2, <3>3
  <2> QED BY <2>3, <2>4, <2>5
<1>10. CASE req.cacop # "none"
  <2>1. data' = data
    BY <1>2, <1>10, MemoriesMove DEF DataStep
  <2>2. tagv[Invalidated][set].valid => ~dirty[Invalidated][set]
    BY <1>10 DEF IInv, CleanInv
  <2>3. CASE a.set # set \/ Invalidated \notin Cached(a)
    <3>1. Cached(a)' = Cached(a)
      BY <1>10, <2>3, CachedStep
    <3> QED BY <1>3, <1>4, <1>5, <1>6, <2>1, <3>1
  <2>4. CASE a.set = set /\ Invalidated \in Cached(a)
    <3>1. Cached(a) = {Invalidated} /\ tagv[Invalidated][a.set].valid
      BY <1>1, <2>4, CachedOnce
    <3>2. Cached(a)' = {}
      BY <1>10, <2>4, <3>1, CachedStep
    <3>3. Held(a) = Behind(a)
      BY <1>5, <1>8, <2>2, <2>4, <3>1
    <3> QED BY <1>3, <1>4, <1>6, <3>2, <3>3
  <2> QED BY <2>3, <2>4
<1> QED BY <1>9, <1>10

\* So does every other cycle, but for the request that takes effect in it.
LEMMA StoredStep ==
  ASSUME WordRequests, IInv, NEW in, Step(in), NEW a \in Addr
  PROVE  Stored(a)' = IF TakesEffect /\ req.addr = a THEN req.data ELSE Stored(a)
<1>1. /\ TypeInv /\ TagInv /\ TagInv' /\ a.set \in Sets /\ a.off \in Offs
  BY TagInvStep DEF IInv, Addr
<1>2. CASE state = "sRefill"
  <2>1. ~TakesEffect
    BY <1>2 DEF TakesEffect, hit, uncached_wr_en
  <2> QED BY <1>2, <2>1, RefillKeeps
<1>3. CASE state # "sRefill"
  <2>1. Cached(a)' = Cached(a)
    BY <1>3, CachedStep
  <2>2. /\ \A w \in Cached(a) : Held(a) = data[w][a.set][a.off]
        /\ Cached(a) = {} => Held(a) = Behind(a)
    BY <1>1, HeldIs
  <2>3. /\ \A w \in Cached(a)' : Held(a)' = data'[w][a.set][a.off]
        /\ Cached(a)' = {} => Held(a)' = Behind(a)'
    BY <1>1, HeldNext
  <2>4. /\ hit /\ req.wr => wreq'.on /\ wreq'.addr = req.addr /\ wreq'.data = req.data
        /\ ~(hit /\ req.wr) => ~wreq'.on
    BY WriteHits DEF NoWrite
  <2>5. /\ data \in [Ways -> [Sets -> Line]]
        /\ wreq.way \in Ways /\ wreq.addr \in Addr /\ wreq.addr.set \in Sets /\ wreq.addr.off \in Offs
    BY <1>1 DEF TypeInv, Addr
  <2>6. DataStep
    BY MemoriesMove
  \* The write that hit a cycle ago is in the memories now.
  <2>7. CASE wreq.on /\ wreq.addr = a
    <3>1. Stored(a) = wreq.data
      BY <2>7 DEF Stored
    <3>2. data' = [data EXCEPT ![wreq.way][wreq.addr.set][wreq.addr.off] = wreq.data]
      BY <2>6, <2>7 DEF DataStep
    <3>3. wreq.way \in Cached(a)
      BY <2>5, <2>7 DEF Cached, IInv, WriteHitInv
    <3>4. data'[wreq.way][a.set][a.off] = wreq.data
      <4>1. data[wreq.way][a.set] \in [Offs -> Values]
        BY <1>1, <2>5 DEF Line
      <4> QED BY <1>1, <2>5, <2>7, <3>2, <4>1
    <3>5. Held(a)' = wreq.data
      BY <2>1, <2>3, <3>3, <3>4
    <3>6. ~uncached_wr_en
      BY <2>7 DEF uncached_wr_en, IInv, WriteHitInv
    <3> QED BY <2>4, <3>1, <3>5, <3>6 DEF Stored, TakesEffect
  <2>8. CASE ~(wreq.on /\ wreq.addr = a)
    <3>1. Stored(a) = Held(a)
      BY <2>8 DEF Stored
    <3>2. \A w \in Cached(a) : data'[w][a.set][a.off] = data[w][a.set][a.off]
      <4> SUFFICES ASSUME NEW w \in Cached(a)
                   PROVE  data'[w][a.set][a.off] = data[w][a.set][a.off]
        OBVIOUS
      <4>1. w \in Ways /\ tagv[w][a.set].tag = a.tag
        BY <1>1, CachedOnce
      <4>2. CASE wreq.on
        <5>1. data' = [data EXCEPT ![wreq.way][wreq.addr.set][wreq.addr.off] = wreq.data]
          BY <2>6, <4>2 DEF DataStep
        <5>2. ~(w = wreq.way /\ a.set = wreq.addr.set /\ a.off = wreq.addr.off)
          <6> SUFFICES ASSUME w = wreq.way, a.set = wreq.addr.set, a.off = wreq.addr.off
                       PROVE  FALSE
            OBVIOUS
          <6>1. tagv[w][a.set] = [valid |-> TRUE, tag |-> wreq.addr.tag]
            BY <4>2 DEF IInv, WriteHitInv
          <6>2. a = wreq.addr
            BY <2>5, <4>1, <6>1 DEF Addr
          <6> QED BY <2>8, <4>2, <6>2
        <5>3. data[w][a.set] \in [Offs -> Values]
          BY <1>1, <2>5, <4>1 DEF Line
        <5> QED BY <1>1, <2>5, <4>1, <5>1, <5>2, <5>3
      <4>3. CASE ~wreq.on
        BY <1>3, <2>6, <4>3 DEF DataStep
      <4> QED BY <4>2, <4>3
    <3>3. CASE Cached(a) # {}
      <4>1. Held(a)' = Held(a)
        BY <2>1, <2>2, <2>3, <3>2, <3>3
      <4>2. ~(uncached_wr_en /\ req.addr = a)
        <5>1. uncached_wr_en => req.addr.tag \in UncachedTags
          BY Sends, SameRequest
        <5> QED BY <1>1, <3>3, <5>1, UncachedNotCached
      <4> QED BY <2>4, <3>1, <4>1, <4>2 DEF Stored, TakesEffect
    <3>4. CASE Cached(a) = {}
      <4>1. Held(a)' = Behind(a)' /\ Held(a) = Behind(a)
        BY <2>1, <2>2, <2>3, <3>4
      <4>2. ~(SendsLine /\ a.tag = tagv_out(dirty_way).tag /\ a.set = set)
        <5> SUFFICES ASSUME SendsLine, a.tag = tagv_out(dirty_way).tag, a.set = set
                     PROVE  FALSE
          OBVIOUS
        <5>1. dirty_way \in Ways /\ tagv[dirty_way][a.set].valid /\ tagv[dirty_way][a.set].tag = a.tag
          BY <1>1, Sends, WaysKnown DEF tagv_out
        <5> QED BY <1>1, <3>4, <5>1, CachedIs
      <4>3. uncached_wr_en /\ a = req.addr => Behind(a)' = req.data
        BY BehindStep
      <4>4. ~(uncached_wr_en /\ a = req.addr) => Behind(a)' = Behind(a)
        BY <4>2, BehindStep
      <4>5. uncached_wr_en => ~hit
        BY DEF uncached_wr_en, hit
      <4> QED BY <2>4, <3>1, <4>1, <4>3, <4>4, <4>5 DEF Stored, TakesEffect
    <3> QED BY <3>3, <3>4
  <2> QED BY <2>7, <2>8
<1> QED BY <1>2, <1>3

\* The current value of a word changes when a write of it is taken, and only
\* then.
LEMMA CurrentStep ==
  ASSUME WordRequests, IInv, NEW in, Step(in), NEW a \in Addr
  PROVE  Current(a)' = IF in.valid /\ in.req.cacop = "none" /\ in.req.wr /\ in.req.addr = a
                       THEN in.req.data ELSE Current(a)
<1>1. Stored(a)' = IF TakesEffect /\ req.addr = a THEN req.data ELSE Stored(a)
  BY StoredStep
<1>2. Current(a) = IF Busy /\ req.wr /\ req.addr = a THEN req.data ELSE Stored(a)
  BY CurrentIs
<1>3. Current(a)' = IF Busy' /\ req'.wr /\ req'.addr = a THEN req'.data ELSE Stored(a)'
  BY DEF Current, Stored, Held
<1>4. TakesEffect => Busy /\ req.wr
  BY Sends DEF TakesEffect, hit, Busy
<1>5. CASE in.valid
  <2>1. /\ state' = "sLookup" /\ req' = in.req
        /\ state = "sIdle" \/ (state = "sLookup" /\ hit)
    BY <1>5, SameRequest
  <2>2. Busy' <=> in.req.cacop = "none"
    BY <2>1 DEF Busy
  <2>3. Busy /\ req.wr => TakesEffect
    BY <2>1 DEF Busy, TakesEffect
  <2> QED BY <1>1, <1>2, <1>3, <1>4, <1>5, <2>1, <2>2, <2>3
<1>6. CASE ~in.valid /\ state' # "sIdle"
  <2>1. req' = req /\ (Busy' <=> Busy)
    BY <1>6, SameRequest DEF Busy
  <2> QED BY <1>1, <1>2, <1>3, <1>4, <1>6, <2>1
<1>7. CASE ~in.valid /\ state' = "sIdle"
  <2>1. ~Busy'
    BY <1>7 DEF Busy
  <2>2. Busy /\ req.wr => TakesEffect
    <3> SUFFICES ASSUME Busy, req.wr
                 PROVE  TakesEffect
      OBVIOUS
    <3>1. state \in {"sLookup", "sMiss", "sReplace", "sRefill"} /\ req.cacop = "none"
      BY DEF Busy, IInv, TypeInv
    <3>2. state = "sLookup" => hit
      BY <1>7, Moves
    <3>3. state = "sMiss" => UncachedWrite /\ dstate = "dsIdle"
      BY <1>7, <3>1, Moves
    <3>4. state = "sReplace" => req.uncached
      BY <1>7, <3>1, Moves
    <3>5. state # "sReplace"
      BY <3>4 DEF IInv, RequestInv, UncachedWrite
    <3>6. state # "sRefill"
      BY <1>7, <3>1, Moves
    <3> QED BY <3>1, <3>2, <3>3, <3>5, <3>6 DEF TakesEffect, uncached_wr_en, dstate_idle
  <2> QED BY <1>1, <1>2, <1>3, <1>4, <1>7, <2>1, <2>2
<1> QED BY <1>5, <1>6, <1>7

\* The memory and the request of MemoryPort, in the state of the cache and the bus.
PortMemory  == [a \in RequestedAddrs |-> Current(a)]
PortRequest == IF Busy THEN {[addr |-> req.addr, wr |-> req.wr, data |-> req.data]} ELSE {}

\* The port's addresses are the memory's.
LEMMA RequestedAddrsAre == RequestedAddrs \subseteq Addr
BY MemorySystemAssumption DEF RequestedAddrs, Request

\* At first every word is 0 and nothing is asked for.
LEMMA PortInit == Init => Port!Init
<1> SUFFICES ASSUME Init
             PROVE  Port!Init
  OBVIOUS
<1>1. ~Busy /\ ~wreq.on /\ dstate = "dsIdle" /\ mem = [a \in Addr |-> 0]
  BY DEF Init, CacheInit, Busy, NoWrite
<1>2. ASSUME NEW a \in RequestedAddrs
      PROVE  Current(a) = 0
  <2>1. a \in Addr
    BY RequestedAddrsAre
  <2>2. TypeInv /\ a.set \in Sets
    BY <2>1, InvariantInit DEF IInv, Addr
  <2>3. \A w \in Ways : ~tagv[w][a.set].valid
    BY <2>2 DEF Init, CacheInit
  <2>4. Cached(a) = {}
    BY <2>1, <2>2, <2>3, CachedIs DEF Cached
  <2>5. Behind(a) = 0
    BY <1>1, <2>1 DEF Behind, OnTheWay
  <2> QED BY <1>1, <2>1, <2>4, <2>5, CurrentIs DEF Stored, Held
<1> QED BY <1>1, <1>2 DEF Port!Init

\* A clock cycle takes a request, answers one, does both, or changes nothing
\* that the port shows.
LEMMA PortStep ==
  ASSUME WordRequests, IInv, NEW in, Step(in)
  PROVE  Port!Next \/ UNCHANGED <<PortMemory, PortRequest>>
<1>1. PortMemory' = [a \in RequestedAddrs |-> Current(a)']
  BY DEF PortMemory, RequestedAddrs
<1>2. ASSUME NEW a \in RequestedAddrs
      PROVE  Current(a)' = IF in.valid /\ in.req.cacop = "none" /\ in.req.wr /\ in.req.addr = a
                           THEN in.req.data ELSE Current(a)
  BY RequestedAddrsAre, CurrentStep
<1>3. CASE in.valid /\ in.req.cacop = "none"
  <2> DEFINE r == [addr |-> in.req.addr, wr |-> in.req.wr, data |-> in.req.data]
  <2>1. in.req \in Requests /\ req' = in.req /\ state' = "sLookup"
    BY <1>3, SameRequest
  <2>2. PortRequest' = {r}
    BY <1>3, <2>1 DEF PortRequest, Busy
  <2>3. r.addr \in RequestedAddrs
    BY <2>1 DEF RequestedAddrs
  <2>4. PortMemory' = IF r.wr THEN [PortMemory EXCEPT ![r.addr] = r.data] ELSE PortMemory
    BY <1>1, <1>2, <1>3, <2>3 DEF PortMemory
  <2> HIDE DEF r
  <2>5. \E q \in PortRequest' : PortRequest' = {q} /\ PortMemory' = Port!After(q)
    BY <2>2, <2>4 DEF Port!After, PortMemory
  <2> QED BY <2>5 DEF Port!Next, Port!Take, Port!AnswerAndTake, PortMemory, PortRequest
<1>4. CASE ~(in.valid /\ in.req.cacop = "none")
  <2>1. PortMemory' = PortMemory
    BY <1>1, <1>2, <1>4 DEF PortMemory
  <2>2. PortRequest' = PortRequest \/ PortRequest' = {}
    <3>1. CASE in.valid
      <4>1. req' = in.req /\ ~Busy'
        BY <1>4, <3>1, SameRequest DEF Busy
      <4> QED BY <4>1 DEF PortRequest
    <3>2. CASE ~in.valid /\ state' # "sIdle"
      <4>1. req' = req /\ (Busy' <=> Busy)
        BY <3>2, SameRequest DEF Busy
      <4> QED BY <4>1 DEF PortRequest
    <3>3. CASE state' = "sIdle"
      BY <3>3 DEF PortRequest, Busy
    <3> QED BY <3>1, <3>2, <3>3
  <2>3. CASE PortRequest' = PortRequest
    BY <2>1, <2>3
  <2>4. CASE PortRequest' = {} /\ PortRequest # {}
    BY <2>1, <2>4 DEF Port!Next, Port!Answer, PortMemory, PortRequest
  <2> QED BY <2>2, <2>3, <2>4
<1> QED BY <1>3, <1>4

\* The data cache, its write buffer and its write-back unit, behind the arbiter
\* and with the bus memory, are the memory the load/store unit relies on: each
\* request takes effect when it is taken, and none is lost, repeated or overtaken.
THEOREM RefinesMemoryPortHolds ==
  ASSUME WordRequests, CacopAnyTime = FALSE
  PROVE  Spec => RefinesMemoryPort
<1>1. Init => Port!Init
  BY PortInit
<1>2. IInv /\ [Next]_vars => [Port!Next]_<<PortMemory, PortRequest>>
  <2> SUFFICES ASSUME IInv, [Next]_vars
               PROVE  Port!Next \/ UNCHANGED <<PortMemory, PortRequest>>
    OBVIOUS
  <2>1. CASE Next
    BY <2>1, StepIsClock, PortStep
  <2>2. CASE UNCHANGED vars
    <3>1. \A a \in RequestedAddrs : Current(a)' = Current(a)
      BY <2>2 DEF vars, cacheVars, Current, Busy, Cached, Behind, OnTheWay, Ways
    <3>2. PortMemory' = PortMemory
      BY <3>1 DEF PortMemory, RequestedAddrs
    <3>3. PortRequest' = PortRequest
      BY <2>2 DEF vars, cacheVars, PortRequest, Busy
    <3> QED BY <3>2, <3>3
  <2> QED BY <2>1, <2>2
<1>3. Spec => []IInv
  BY Invariant
<1> QED BY <1>1, <1>2, <1>3, PTL DEF Spec, RefinesMemoryPort, Port!Spec, PortMemory, PortRequest

\* A load is answered with the current value of its word, whether it hits, with
\* writes of other words still on their way to the memories, or reads the bus.
THEOREM LoadsReadCurrentHolds ==
  ASSUME WordRequests, CacopAnyTime = FALSE
  PROVE  Spec => []LoadsReadCurrent
<1>1. IInv => LoadsReadCurrent
  <2> SUFFICES ASSUME IInv
               PROVE  LoadsReadCurrent
    OBVIOUS
  <2>1. TypeInv /\ TagInv /\ req.addr \in Addr
    BY WaysKnown DEF IInv
  <2>2. Current(req.addr) = IF Busy /\ req.wr THEN req.data ELSE Stored(req.addr)
    BY <2>1, CurrentIs
  <2>3. ASSUME RespCached, ~req.wr
        PROVE  DataOut(hit_way, req.addr.off) = Current(req.addr)
    <3>1. /\ state = "sLookup" /\ ~req.uncached /\ req.cacop = "none" /\ total_hits # {}
          /\ ~\E w \in {wreq, wreq_r} : w.on /\ w.way = hit_way /\ w.addr.off = req.addr.off
      BY <2>3 DEF RespCached, hit, war_stall
    <3>2. hit_way \in total_hits
      BY <2>1, <3>1, WaysKnown DEF hit_way, Ways
    <3>3. hit_way \in Cached(req.addr)
      BY <2>1, <3>2, CachedIs DEF total_hits, tagv_out, set
    <3>4. Held(req.addr) = data[hit_way][set][req.addr.off]
      BY <2>1, <3>3, HeldIs DEF set
    <3>5. ~(wreq.on /\ wreq.addr = req.addr)
      <4> SUFFICES ASSUME wreq.on, wreq.addr = req.addr
                   PROVE  FALSE
        OBVIOUS
      <4>1. wreq.way \in Cached(req.addr)
        BY DEF Cached, IInv, WriteHitInv, TypeInv
      <4>2. wreq.way = hit_way
        BY <2>1, <3>3, <4>1, CachedOnce
      <4> QED BY <3>1, <4>2
    <3>6. DataOut(hit_way, req.addr.off) = data[hit_way][set][req.addr.off]
      BY <3>1 DEF DataOut
    <3> QED BY <2>2, <2>3, <3>4, <3>5, <3>6 DEF Stored
  <2>4. ASSUME ReadsForCache, req.uncached
        PROVE  NextBeat = Current(req.addr)
    <3>1. NextBeat = mem[req.addr] /\ state = "sReplace" /\ ~req.wr
      BY <2>1, <2>4, BeatIs DEF IInv, ReadBusInv, RequestInv, UncachedWrite
    <3>2. ~wreq.on
      BY <3>1 DEF IInv, WriteHitInv
    <3>3. req.addr.tag \in UncachedTags
      BY <2>4, <3>1 DEF UncachedTags, IInv, RequestInv
    <3>4. Cached(req.addr) = {}
      BY <2>1, <3>3, UncachedNotCached
    <3>5. ~OnTheWay(req.addr)
      <4>1. dstate # "dsIdle" =>
              IF dreq.uncached THEN dreq.addr # req.addr ELSE ~InLine(dreq.addr, req.addr)
        BY <2>4 DEF IInv, ReadBusInv
      <4> QED BY <4>1 DEF OnTheWay, InLine
    <3> QED BY <2>2, <3>1, <3>2, <3>4, <3>5 DEF Stored, Held, Behind
  <2> QED BY <2>3, <2>4 DEF LoadsReadCurrent, ReadsForCache
<1>2. Spec => []IInv
  BY Invariant
<1> QED BY <1>1, <1>2, PTL
=============================================================================
