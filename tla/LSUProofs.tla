------------------------------- MODULE LSUProofs -------------------------------
(***************************************************************************)
(* For any program, any number of words and lanes and any timing: stores   *)
(* reach memory once and in program order, loads that match at most one    *)
(* queued plain store read what program order says, and seen from its      *)
(* ports the load/store unit is LSUControl.                                *)
(*                                                                         *)
(* The theorems suppose that the TLB stall never holds a store back        *)
(* (TlbBusy = {FALSE}): a flush does not remove a store that waits in the  *)
(* operand register for the end of the stall.                              *)
(***************************************************************************)
EXTENDS LSUSystem, SequenceTheorems, FiniteSetTheorems, TLAPS

\* The store queue's own proofs.
QP == INSTANCE CircularQueueProofs WITH
        queue <- stq, rear <- stq_rear, front <- stq_front,
        Size <- QSize, Data <- StoreEntry, Zero <- NoStore

-----------------------------------------------------------------------------
(* The inductive invariant.                                                *)

\* What is in the queue for a store.
EntryOf(o) == [id |-> o.id, addr |-> o.addr, lanes |-> o.lanes,
               data |-> o.data, sc |-> o.kind = "sc"]

RobEntry == [op: Op, done: BOOLEAN, excp: BOOLEAN, result: Word, simple: BOOLEAN]

TypeInv ==
  /\ lstate \in LStates /\ lreq_r \in BOOLEAN
  /\ load_buf \in [id: Ids, addr: Words, rdata: Word, exception: LoadExcps]
  /\ stq_hit \in [hit: BOOLEAN, item: StoreEntry]
  /\ store_d \in [valid: BOOLEAN, entry: StoreEntry]
  /\ ex \in [valid: BOOLEAN, lsu: BOOLEAN, op: Op]
  /\ rob \in Seq(RobEntry) /\ Len(rob) <= MaxInFlight
  /\ issued \in Nat
  /\ dcache \in [pending: BOOLEAN, wr: BOOLEAN, rdata: Word]
  /\ mem \in [Words -> Word]
  /\ simple \in BOOLEAN
  /\ QP!QueueInv

Positions1 == 1 .. Len(rob)

\* The window holds issued operations in program order; the operand register
\* holds the last one issued, which has not executed.
WindowInv ==
  /\ \A i, j \in Positions1 : i < j => rob[i].op.id < rob[j].op.id
  /\ \A i \in Positions1 : rob[i].op.id \in 1 .. issued
  /\ ex.valid => ex.op.id = issued /\ issued # 0
  /\ \A i \in Positions1 :
       ex.valid /\ rob[i].op.id = ex.op.id => rob[i].op = ex.op /\ ~rob[i].done
  /\ ex.valid /\ ex.op.kind # "load" => \E i \in Positions1 : rob[i].op.id = ex.op.id

\* What waits in the unit are the window's accepted stores, and a store that
\* has executed is in the queue.
StoreInv ==
  /\ StoresInProgramOrder
  /\ \A k \in 1 .. Len(WaitingStores) :
       \E i \in Positions1 : WaitingStores[k] = EntryOf(rob[i].op)
  /\ \A i \in Positions1 :
       rob[i].op.kind # "load" /\ rob[i].done =>
         ~(store_d.valid /\ store_d.entry.id = rob[i].op.id)

\* The load in progress is the window's, if it is still there; when it looks
\* the queue up, no younger store has entered it.
LoadInv ==
  /\ lstate # "lIdle" =>
       /\ load_buf.id \in 1 .. issued
       /\ ex.valid => load_buf.id # ex.op.id
       /\ \A i \in Positions1 : rob[i].op.id = load_buf.id =>
            /\ rob[i].op.kind = "load" /\ rob[i].op.addr = load_buf.addr
            /\ ~rob[i].done
  /\ paddr_v => /\ ~store_d.valid
                /\ \A k \in 1 .. Len(WaitingStores) : WaitingStores[k].id < load_buf.id
  /\ lstate = "lWait" => dcache.pending
  /\ lstate \in {"lReq", "lWait"} => load_buf.exception = "none"

\* In the window r, the load at i reads the lane l of what the store at j writes.
Covers(r, j, i, l) == /\ r[j].op.kind # "load"
                      /\ r[j].op.addr = r[i].op.addr
                      /\ l \in r[j].op.lanes

\* The word w is what the load at i has to read, as far as its older stores
\* in the window agree: they are plain ones and wrote w's bytes, and the other
\* bytes are those of the memory m.
RightWord(r, m, w, i) ==
  \A l \in Lanes :
    /\ \A j \in 1 .. i - 1 : Covers(r, j, i, l) => /\ r[j].op.kind = "store"
                                                   /\ w[l] = r[j].op.data
    /\ (\A j \in 1 .. i - 1 : ~Covers(r, j, i, l)) => w[l] = m[r[i].op.addr][l]

\* The bytes of the hit h over the word r: RealRdata is Laid(stq_hit, _).
Laid(h, r) == [l \in Lanes |-> IF h.hit /\ l \in HitLanes(h.item) THEN h.item.data ELSE r[l]]

\* The word on its way to the load in progress is the right one,
InProgress ==
  \A i \in Positions1 : lstate # "lIdle" /\ rob[i].op.id = load_buf.id /\ simple =>
    /\ lstate = "lReq" /\ lreq_r => RightWord(rob, mem, Laid(stq_hit, mem[load_buf.addr]), i)
    /\ lstate = "lWait" => RightWord(rob, mem, Laid(stq_hit, dcache.rdata), i)
    /\ lstate = "lWriteback" /\ load_buf.exception = "none" =>
         RightWord(rob, mem, load_buf.rdata, i)

\* and so are the results of the loads that have executed.
DoneRight ==
  \A i \in Positions1 :
    rob[i].op.kind = "load" /\ rob[i].done /\ ~rob[i].excp /\ rob[i].simple =>
      RightWord(rob, mem, rob[i].result, i)

DataInv == InProgress /\ DoneRight /\ MemoryIsArchitectural

IInv == TypeInv /\ WindowInv /\ StoreInv /\ LoadInv /\ DataInv

-----------------------------------------------------------------------------
(* The inputs of a cycle and the store queue.                              *)

\* The inputs, when the TLB never stalls.
InputFacts(in) ==
  /\ in.valid = ex.valid /\ in.op = ex.op
  /\ in.flush \in BOOLEAN /\ in.tlb_busy = FALSE
  /\ in.store_commit \in BOOLEAN /\ (in.store_commit <=> CommitsStore /\ ~in.flush)
  /\ in.llbit \in BOOLEAN /\ in.store_excp \in BOOLEAN
  /\ in.load_excp \in LoadExcps /\ (~paddr_v => in.load_excp = "none")
  /\ in.req_ready \in BOOLEAN /\ in.resp \in BOOLEAN
  /\ in.rdata = dcache.rdata

LEMMA InputsKnown ==
  ASSUME TlbBusy = {FALSE}, NEW in \in CycleInputs
  PROVE  InputFacts(in)
<1>1. /\ in.valid = ex.valid /\ in.op = ex.op /\ in.rdata = dcache.rdata
      /\ in.flush \in BOOLEAN /\ in.req_ready \in BOOLEAN /\ in.tlb_busy = FALSE
  BY DEF CycleInputs
<1>2. in.load_excp \in IF paddr_v THEN LoadExcps ELSE {"none"}
  BY DEF CycleInputs
<1>3. in.load_excp \in LoadExcps /\ (~paddr_v => in.load_excp = "none")
  BY <1>2 DEF LoadExcps
<1>4. /\ in.store_commit \in BOOLEAN /\ in.llbit \in BOOLEAN
      /\ in.store_excp \in BOOLEAN /\ in.resp \in BOOLEAN
  BY DEF CycleInputs
<1>5. in.store_commit <=> CommitsStore /\ ~in.flush
  BY DEF CycleInputs
<1> QED BY <1>1, <1>3, <1>4, <1>5 DEF InputFacts

\* The cleared slot of the queue holds an entry.
LEMMA NoStoreType == NoStore \in StoreEntry
  BY LSUAssumption DEF NoStore, StoreEntry

\* The queue's operators are those of its proofs.
LEMMA SameQueue ==
  /\ Q!full <=> QP!full
  /\ Q!empty <=> QP!empty
  /\ Q!Count = QP!Count
  /\ Q!Contents = QP!Contents
  /\ Q!element_vec = QP!element_vec
  BY DEF Q!full, QP!full, Q!empty, QP!empty, Q!Count, QP!Count, Q!Dist, QP!Dist,
         Q!Contents, QP!Contents, Q!element_vec, QP!element_vec, Q!Slots, QP!Slots

LEMMA SameContents ==
  ASSUME QP!QueueInv
  PROVE  /\ Q!Contents \in Seq(StoreEntry)
         /\ Len(Q!Contents) = Q!Count
         /\ Q!Count \in 0 .. QSize
         /\ Q!full <=> Q!Count = QSize
         /\ Q!empty <=> Q!Count = 0
         /\ Q!Count # 0 => Q!front_data = Q!Contents[1]
         /\ \A p \in Positions : /\ Q!element_vec[p].valid <=> p < Q!Count
                                 /\ p < Q!Count => Q!element_vec[p].bits = Q!Contents[p + 1]
<1>1. QSize \in Nat \ {0} /\ QSize \in 1 .. 8
  BY LSUAssumption
<1>2. QP!ContentsAreSeq /\ QP!Count \in 0 .. QSize
      /\ (QP!full <=> QP!Count = QSize) /\ (QP!empty <=> QP!Count = 0)
  BY <1>1, NoStoreType, QP!ContentsSeq, QP!CountRange, QP!WiresExact DEF QP!QueueInv
<1>3. QP!Count # 0 => Q!front_data = QP!Contents[1]
  BY <1>1, <1>2 DEF QP!ContentsAreSeq, QP!Place, Q!front_data, QP!QueueInv, QP!TypeOK, QP!Slots
<1>4. ASSUME NEW p \in Positions
      PROVE  /\ QP!element_vec[p].valid <=> p < QP!Count
             /\ p < QP!Count => QP!element_vec[p].bits = QP!Contents[p + 1]
  <2>1. p \in QP!Slots
    BY DEF Positions, QP!Slots
  <2>2. QP!element_vec[p] = stq[QP!Place(stq_front, p)]
    BY <2>1 DEF QP!element_vec, QP!Place
  <2>3. QP!Place(stq_front, p) \in QP!Slots /\ QP!Dist(stq_front, QP!Place(stq_front, p)) = p
    BY <1>1, <2>1, NoStoreType, QP!PlaceDist DEF QP!QueueInv, QP!TypeOK, QP!Slots
  <2>4. QP!element_vec[p].valid <=> p < QP!Count
    BY <2>2, <2>3 DEF QP!QueueInv, QP!Contiguous
  <2>5. QP!Contents[p + 1] = QP!element_vec[(p + 1) - 1].bits \/ ~(p < QP!Count)
    BY <1>1, <1>2, <2>1 DEF QP!Contents, QP!Slots
  <2>6. (p + 1) - 1 = p
    BY <2>1, <1>1 DEF QP!Slots
  <2> QED BY <2>4, <2>5, <2>6
<1> QED BY <1>2, <1>3, <1>4, SameQueue DEF QP!ContentsAreSeq

LEMMA QueueContents == QP!QueueInv => QP!ContentsAreSeq
  BY LSUAssumption, NoStoreType, QP!ContentsSeq

\* What a cycle does to the contents of the queue.
NextContents(in) ==
  IF in.flush THEN <<>>
  ELSE IF store_d.valid
       THEN Append(IF StoreCommitAck(in) THEN Tail(Q!Contents) ELSE Q!Contents, store_d.entry)
       ELSE IF StoreCommitAck(in) THEN Tail(Q!Contents) ELSE Q!Contents

LEMMA QueueAfterClock ==
  ASSUME TypeInv, NEW in, StoreQueueStep(in),
         in.flush \in BOOLEAN,
         store_d.valid => ~Q!full,
         StoreCommitAck(in) => ~Q!empty
  PROVE  QP!QueueInv' /\ Q!Contents' = NextContents(in)
<1>0. QSize \in Nat \ {0} /\ NoStore \in StoreEntry /\ QP!QueueInv
  BY LSUAssumption, NoStoreType DEF TypeInv
<1>1. QP!ContentsAreSeq
  BY <1>0, QueueContents
<1>2. QP!QueueInv' => QP!ContentsAreSeq'
  BY QueueContents, PTL
<1>3. Q!Contents = QP!Contents /\ Q!Contents' = QP!Contents'
  BY SameQueue DEF Q!Contents, QP!Contents, Q!Count, QP!Count, Q!Dist, QP!Dist,
                   Q!element_vec, QP!element_vec, Q!Slots, QP!Slots
<1>4. store_d.entry \in StoreEntry
  BY DEF TypeInv
<1>5. CASE in.flush
  <2>1. QP!Clear
    BY <1>5 DEF StoreQueueStep, Q!Clear, QP!Clear, Q!EmptySlot, QP!EmptySlot, Q!Slots, QP!Slots
  <2>2. QP!QueueInv' /\ QP!Count' = 0
    BY <1>0, <2>1, QP!ClearPreserves
  <2>3. QP!Contents' = <<>>
    BY <1>0, <1>2, <2>2, QP!ClearContents
  <2> QED BY <1>3, <1>5, <2>2, <2>3 DEF NextContents
<1>6. CASE ~in.flush /\ store_d.valid /\ StoreCommitAck(in)
  <2>1. QP!EnqDeq(store_d.entry) /\ ~QP!full /\ ~QP!empty
    BY <1>6, SameQueue DEF StoreQueueStep, Q!EnqDeq, QP!EnqDeq, Q!Succ, QP!Succ
  <2>2. QP!QueueInv' /\ QP!Count' = QP!Count
    BY <1>0, <1>4, <2>1, QP!EnqDeqPreserves
  <2>3. QP!Contents' = Append(Tail(QP!Contents), store_d.entry)
    BY <1>0, <1>1, <1>2, <1>4, <2>1, <2>2, QP!EnqDeqContents
  <2> QED BY <1>3, <1>6, <2>2, <2>3 DEF NextContents
<1>7. CASE ~in.flush /\ store_d.valid /\ ~StoreCommitAck(in)
  <2>1. QP!Enq(store_d.entry) /\ ~QP!full
    BY <1>7, SameQueue DEF StoreQueueStep, Q!Enq, QP!Enq, Q!Succ, QP!Succ
  <2>2. QP!QueueInv' /\ QP!Count' = QP!Count + 1
    BY <1>0, <1>4, <2>1, QP!EnqPreserves
  <2>3. QP!Contents' = Append(QP!Contents, store_d.entry)
    BY <1>0, <1>1, <1>2, <1>4, <2>1, <2>2, QP!EnqContents
  <2> QED BY <1>3, <1>7, <2>2, <2>3 DEF NextContents
<1>8. CASE ~in.flush /\ ~store_d.valid /\ StoreCommitAck(in)
  <2>1. QP!Deq /\ ~QP!empty
    BY <1>8, SameQueue DEF StoreQueueStep, Q!Deq, QP!Deq, Q!Succ, QP!Succ
  <2>2. QP!QueueInv' /\ QP!Count' = QP!Count - 1
    BY <1>0, <2>1, QP!DeqPreserves
  <2>3. QP!Contents' = Tail(QP!Contents)
    BY <1>0, <1>1, <1>2, <2>1, <2>2, QP!DeqContents
  <2> QED BY <1>3, <1>8, <2>2, <2>3 DEF NextContents
<1>9. CASE ~in.flush /\ ~store_d.valid /\ ~StoreCommitAck(in)
  <2>1. UNCHANGED <<stq, stq_rear, stq_front>>
    BY <1>9 DEF StoreQueueStep
  <2>2. QP!QueueInv' /\ QP!Contents' = QP!Contents
    BY <1>0, <2>1 DEF QP!QueueInv, QP!TypeOK, QP!Contiguous, QP!Count, QP!Dist,
                     QP!Contents, QP!element_vec
  <2> QED BY <1>3, <1>9, <2>2 DEF NextContents
<1> QED BY <1>5, <1>6, <1>7, <1>8, <1>9

-----------------------------------------------------------------------------
(* The stores that wait and the window, before the cycle.                  *)

\* The waiting stores are the queue's contents and the store just accepted.
WaitingAre ==
  /\ Q!Contents \in Seq(StoreEntry) /\ Len(Q!Contents) = Q!Count
  /\ Q!Count \in 0 .. QSize
  /\ WaitingStores \in Seq(StoreEntry)
  /\ Len(WaitingStores) = Q!Count + (IF store_d.valid THEN 1 ELSE 0)
  /\ \A k \in 1 .. Q!Count : WaitingStores[k] = Q!Contents[k]
  /\ store_d.valid => WaitingStores[Q!Count + 1] = store_d.entry

LEMMA WaitingFacts == TypeInv => WaitingAre
<1> SUFFICES ASSUME TypeInv PROVE WaitingAre
  OBVIOUS
<1> DEFINE D == IF store_d.valid THEN <<store_d.entry>> ELSE <<>>
<1>1. /\ Q!Contents \in Seq(StoreEntry) /\ Len(Q!Contents) = Q!Count
      /\ Q!Count \in 0 .. QSize /\ Q!Count \in Nat
  BY SameContents, LSUAssumption DEF TypeInv
<1>2. /\ D \in Seq(StoreEntry)
      /\ Len(D) = IF store_d.valid THEN 1 ELSE 0
      /\ store_d.valid => D[1] = store_d.entry
  BY DEF TypeInv
<1>3. WaitingStores = Q!Contents \o D
  BY DEF WaitingStores
<1> HIDE DEF D
<1>4. /\ Q!Contents \o D \in Seq(StoreEntry)
      /\ Len(Q!Contents \o D) = Len(Q!Contents) + Len(D)
      /\ \A k \in 1 .. Len(Q!Contents) + Len(D) :
           (Q!Contents \o D)[k] = IF k <= Len(Q!Contents) THEN Q!Contents[k]
                                  ELSE D[k - Len(Q!Contents)]
  BY <1>1, <1>2, ConcatProperties
<1>5. \A k \in 1 .. Q!Count : WaitingStores[k] = Q!Contents[k]
  BY <1>1, <1>2, <1>3, <1>4
<1>6. store_d.valid => WaitingStores[Q!Count + 1] = store_d.entry
  BY <1>1, <1>2, <1>3, <1>4
<1> QED BY <1>1, <1>2, <1>3, <1>4, <1>5, <1>6 DEF WaitingAre

\* A waiting store is an accepted one of the window, and the other way round.
LEMMA WaitingInWindow ==
  ASSUME TypeInv, WindowInv, StoreInv, NEW k \in 1 .. Len(WaitingStores)
  PROVE  \E i \in Positions1 : /\ WaitingStores[k] = EntryOf(rob[i].op)
                               /\ WaitingStores[k].id = rob[i].op.id
                               /\ Accepted(rob[i].op)
<1>1. PICK i \in Positions1 : WaitingStores[k] = EntryOf(rob[i].op)
  BY DEF StoreInv
<1>2. WaitingStores[k].id \in AcceptedStores
  BY DEF StoreInv, StoresInProgramOrder
<1>3. PICK j \in Positions1 : Accepted(rob[j].op) /\ rob[j].op.id = WaitingStores[k].id
  BY <1>2 DEF AcceptedStores, Positions1
<1>4. rob[i].op.id = rob[j].op.id
  BY <1>1, <1>3 DEF EntryOf
<1>5. i = j
  <2>1. rob[i].op.id \in Int /\ rob[j].op.id \in Int
    BY DEF WindowInv
  <2> QED BY <1>4, <2>1 DEF WindowInv, Positions1
<1> QED BY <1>1, <1>3, <1>4, <1>5

LEMMA AcceptedWaits ==
  ASSUME StoreInv, NEW i \in Positions1, Accepted(rob[i].op)
  PROVE  \E k \in 1 .. Len(WaitingStores) : WaitingStores[k].id = rob[i].op.id
  BY DEF StoreInv, StoresInProgramOrder, AcceptedStores, Positions1

\* The queue has a place for every store in flight, the accepted one and the
\* one that is offered.
LEMMA QueueHasRoom ==
  ASSUME TypeInv, WindowInv, StoreInv
  PROVE  /\ ex.valid /\ ex.op.kind # "load" => ~Q!full
         /\ store_d.valid => ~Q!full
<1> DEFINE W == WaitingStores
           n == Len(rob)
           At(k) == CHOOSE i \in 1 .. n : rob[i].op.id = W[k].id /\ Accepted(rob[i].op)
<1>1. n \in Nat /\ n <= QSize /\ QSize \in Nat
  BY LSUAssumption, SystemAssumption DEF TypeInv
<1>2. /\ Len(W) \in Nat /\ Len(W) = Q!Count + (IF store_d.valid THEN 1 ELSE 0)
      /\ Q!Count \in Nat
      /\ Q!full <=> Q!Count = QSize
  <2>1. WaitingStores \in Seq(StoreEntry)
        /\ Len(WaitingStores) = Q!Count + (IF store_d.valid THEN 1 ELSE 0)
    BY WaitingFacts DEF WaitingAre
  <2>2. Q!Count \in 0 .. QSize /\ (Q!full <=> Q!Count = QSize)
    BY SameContents DEF TypeInv
  <2>3. Len(WaitingStores) \in Nat
    BY <2>1, LenProperties
  <2> QED BY <2>1, <2>2, <2>3, LSUAssumption
<1>3. ASSUME NEW k \in 1 .. Len(W)
      PROVE  At(k) \in 1 .. n /\ rob[At(k)].op.id = W[k].id /\ Accepted(rob[At(k)].op)
  BY WaitingInWindow DEF Positions1
<1>4. ASSUME NEW j \in 1 .. Len(W), NEW k \in 1 .. Len(W), At(j) = At(k)
      PROVE  j = k
  <2>1. W[j].id = W[k].id
    BY <1>3, <1>4
  <2>2. W[j].id \in Int /\ W[k].id \in Int
    <3>1. issued \in Nat /\ (\A i \in 1 .. n : rob[i].op.id \in 1 .. issued)
      BY DEF TypeInv, WindowInv, Positions1
    <3>2. \A i \in 1 .. n : rob[i].op.id \in Int
      BY <3>1
    <3>3. /\ At(j) \in 1 .. n /\ rob[At(j)].op.id = W[j].id
          /\ At(k) \in 1 .. n /\ rob[At(k)].op.id = W[k].id
      BY <1>3
    <3> HIDE DEF At, n, W
    <3> QED BY <3>2, <3>3
  <2>3. \A a, b \in 1 .. Len(W) : a < b => W[a].id < W[b].id
    BY DEF StoreInv, StoresInProgramOrder
  <2> QED BY <2>1, <2>2, <2>3, <1>2
<1> HIDE DEF W, n, At
<1>5. IsFiniteSet(1 .. n) /\ Cardinality(1 .. n) = n
  BY <1>1, FS_Interval
<1>6. store_d.valid => ~Q!full
  <2> DEFINE f == [k \in 1 .. Len(W) |-> At(k)]
  <2>1. f \in Injection(1 .. Len(W), 1 .. n)
    BY <1>3, <1>4 DEF Injection, IsInjective
  <2>2. Cardinality(1 .. Len(W)) <= n
    BY <1>5, <2>1, FS_Injection
  <2>3. Cardinality(1 .. Len(W)) = Len(W)
    BY <1>2, FS_Interval
  <2> QED BY <1>1, <1>2, <2>2, <2>3
<1>7. ex.valid /\ ex.op.kind # "load" => ~Q!full
  <2> SUFFICES ASSUME ex.valid, ex.op.kind # "load" PROVE ~Q!full
    OBVIOUS
  <2>1. PICK e \in 1 .. n : rob[e].op.id = ex.op.id
    BY DEF WindowInv, Positions1, n
  <2>2. \A k \in 1 .. Len(W) : At(k) # e
    BY <1>3, <2>1 DEF Accepted
  <2> DEFINE g == [k \in 1 .. Len(W) + 1 |-> IF k = Len(W) + 1 THEN e ELSE At(k)]
  <2>3. ASSUME NEW j \in 1 .. Len(W) + 1, NEW k \in 1 .. Len(W) + 1, g[j] = g[k]
        PROVE  j = k
    BY <1>2, <1>4, <2>2, <2>3
  <2>4. g \in [1 .. Len(W) + 1 -> 1 .. n]
    BY <1>2, <1>3
  <2>5. g \in Injection(1 .. Len(W) + 1, 1 .. n)
    BY <2>3, <2>4 DEF Injection, IsInjective
  <2>6. Cardinality(1 .. Len(W) + 1) <= n
    BY <1>5, <2>5, FS_Injection
  <2>7. Cardinality(1 .. Len(W) + 1) = Len(W) + 1
    BY <1>2, FS_Interval
  <2> QED BY <1>1, <1>2, <2>6, <2>7
<1> QED BY <1>6, <1>7

\* The store that commits is the first one in the queue.
LEMMA CommitsFront ==
  ASSUME TypeInv, WindowInv, StoreInv, CommitsStore
  PROVE  /\ Q!Count # 0 /\ ~Q!empty
         /\ Len(rob) # 0 /\ Oldest = rob[1]
         /\ Q!front_data = EntryOf(Oldest.op)
         /\ WaitingStores[1] = EntryOf(Oldest.op)
<1>1. rob # <<>> /\ Oldest = rob[1] /\ 1 \in Positions1 /\ Len(rob) # 0
  <2>1. rob # <<>>
    BY DEF CommitsStore, Oldest, Fresh
  <2>2. Len(rob) \in Nat \ {0}
    BY <2>1, EmptySeq DEF TypeInv
  <2> QED BY <2>1, <2>2 DEF Oldest, Positions1
<1>2. rob[1].done /\ rob[1].op.kind # "load"
  BY <1>1 DEF CommitsStore
<1>3. Accepted(rob[1].op)
  BY <1>1, <1>2 DEF WindowInv, Accepted
<1>4. PICK k \in 1 .. Len(WaitingStores) : WaitingStores[k].id = rob[1].op.id
  BY <1>1, <1>3, AcceptedWaits
<1>5. Len(WaitingStores) \in Nat /\ 1 \in 1 .. Len(WaitingStores)
  BY <1>4, WaitingFacts, LSUAssumption DEF WaitingAre
<1>6. PICK i \in Positions1 : /\ WaitingStores[1] = EntryOf(rob[i].op)
                              /\ WaitingStores[1].id = rob[i].op.id
  BY <1>5, WaitingInWindow
<1>7. i = 1
  <2>1. rob[i].op.id \in Int /\ rob[1].op.id \in Int
    BY <1>1 DEF WindowInv
  <2>2. i > 1 => rob[1].op.id < rob[i].op.id
    BY <1>1 DEF WindowInv, Positions1
  <2>3. k > 1 => WaitingStores[1].id < WaitingStores[k].id
    BY <1>5 DEF StoreInv, StoresInProgramOrder
  <2> QED BY <1>4, <1>5, <1>6, <2>1, <2>2, <2>3 DEF Positions1
<1>8. Q!Count # 0
  <2> SUFFICES ASSUME Q!Count = 0 PROVE FALSE
    OBVIOUS
  <2>1. store_d.valid /\ WaitingStores[1] = store_d.entry
    BY <1>5, WaitingFacts DEF WaitingAre
  <2>2. store_d.entry.id = rob[1].op.id
    BY <1>6, <1>7, <2>1
  <2> QED BY <1>1, <1>2, <2>1, <2>2 DEF StoreInv
<1>9. Q!front_data = WaitingStores[1] /\ ~Q!empty
  <2>1. 1 \in 1 .. Q!Count
    BY <1>8, WaitingFacts, LSUAssumption DEF WaitingAre
  <2> QED BY <1>8, <2>1, WaitingFacts, SameContents DEF TypeInv, WaitingAre
<1> QED BY <1>1, <1>6, <1>7, <1>8, <1>9

-----------------------------------------------------------------------------
(* A cycle.                                                                *)

StepOf(in) == /\ InputFacts(in) /\ Possible(in) /\ Cycle(in)
              /\ NoIssue(in) \/ (\E o \in NextOps : IssueOp(o, in))

LEMMA NextIsStep ==
  ASSUME TlbBusy = {FALSE}, Next
  PROVE  \E in \in CycleInputs : StepOf(in)
  BY InputsKnown DEF Next, StepOf, Flush, Step, Issue

\* The number of operations that leave the front of the window and of stores
\* that leave the queue.
Gone(in) == IF Retires(in) THEN 1 ELSE 0
Left(in) == IF StoreCommitAck(in) THEN 1 ELSE 0

\* A store leaves the queue with its operation, which is the oldest; nothing
\* else leaves the window but loads.
LEMMA CommitRetires ==
  ASSUME TypeInv, WindowInv, StoreInv, NEW in, StepOf(in)
  PROVE  /\ StoreCommitAck(in) => Retires(in) /\ CommitsStore
         /\ Retires(in) => Len(rob) # 0 /\ Oldest = rob[1] /\ rob[1].done
         /\ Retires(in) /\ ~StoreCommitAck(in) => rob[1].op.kind = "load"
<1>1. Oldest.done => Len(rob) # 0 /\ Oldest = rob[1]
  <2> SUFFICES ASSUME Oldest.done PROVE Len(rob) # 0 /\ Oldest = rob[1]
    OBVIOUS
  <2>1. rob # <<>>
    BY DEF Oldest, Fresh
  <2> QED BY <2>1, EmptySeq DEF TypeInv, Oldest
<1> QED BY <1>1 DEF StepOf, InputFacts, Possible, StoreCommitAck, Retires, CommitsStore

LEMMA QueueAfterStep ==
  ASSUME TypeInv, WindowInv, StoreInv, NEW in, StepOf(in)
  PROVE  QP!QueueInv' /\ Q!Contents' = NextContents(in)
<1>1. StoreQueueStep(in) /\ in.flush \in BOOLEAN
  BY DEF StepOf, Cycle, LSUClock, InputFacts
<1>2. StoreCommitAck(in) => ~Q!empty
  BY CommitRetires, CommitsFront
<1> QED BY <1>1, <1>2, QueueHasRoom, QueueAfterClock

\* An operation of the window after write-back.
Mark(e, in) ==
  IF WbValid /\ e.op.id = WbId
  THEN [e EXCEPT !.done = TRUE, !.excp = WbExcp(in), !.simple = simple,
                 !.result = IF StoreWbValid THEN ZeroWord ELSE load_buf.rdata]
  ELSE e

\* A word of zeros, and the word a load gets, are words.
LEMMA WordTypes ==
  /\ ZeroWord \in Word
  /\ TypeInv => \A r \in Word : RealRdata(r) \in Word
<1>1. ZeroWord \in Word
  BY LSUAssumption DEF ZeroWord, Word
<1>2. TypeInv => \A r \in Word : RealRdata(r) \in Word
  BY DEF TypeInv, RealRdata, HitLanes, Word, StoreEntry
<1> QED BY <1>1, <1>2

LEMMA MarkType ==
  ASSUME TypeInv, NEW in, InputFacts(in), NEW e \in RobEntry
  PROVE  /\ Mark(e, in) \in RobEntry
         /\ Mark(e, in).op = e.op
         /\ e.done => Mark(e, in).done
         /\ (WbValid /\ e.op.id = WbId) \/ Mark(e, in) = e
<1>1. WbExcp(in) \in BOOLEAN
  BY DEF WbExcp, InputFacts
<1>2. (IF StoreWbValid THEN ZeroWord ELSE load_buf.rdata) \in Word
  BY WordTypes DEF TypeInv
<1> QED BY <1>1, <1>2 DEF Mark, RobEntry, TypeInv

LEMMA MarkedWindow ==
  ASSUME TypeInv, NEW in, InputFacts(in)
  PROVE  /\ MarkDone(rob, in) \in Seq(RobEntry)
         /\ Len(MarkDone(rob, in)) = Len(rob)
         /\ \A i \in Positions1 : MarkDone(rob, in)[i] = Mark(rob[i], in)
<1>1. Len(rob) \in Nat /\ \A i \in Positions1 : rob[i] \in RobEntry
  BY LenProperties, ElementOfSeq DEF TypeInv, Positions1
<1>2. MarkDone(rob, in) = [i \in Positions1 |-> Mark(rob[i], in)]
  BY DEF MarkDone, Mark, Positions1
<1>3. MarkDone(rob, in) \in [1 .. Len(rob) -> RobEntry]
  BY <1>1, <1>2, MarkType DEF Positions1
<1> QED BY <1>1, <1>2, <1>3 DEF Positions1

\* The window after a cycle without a flush: what was there, marked, without
\* the operation that left and with the one that was issued.
ExIssued(in) == /\ issued' = issued + 1 /\ issued < MaxOps
                /\ ex'.valid = TRUE /\ ex'.op.id = issued + 1 /\ ex'.op \in Op
ExKept(in)   == ~InReady(in) /\ issued' = issued /\ ex' = ex
ExBubble(in) == issued' = issued /\ ex' \in Bubbles

LEMMA OpTypes ==
  ASSUME TypeInv
  PROVE  /\ issued < MaxOps => \A o \in NextOps : o \in Op /\ o.id = issued + 1
         /\ \A b \in Bubbles : b \in [valid: BOOLEAN, lsu: BOOLEAN, op: Op] /\ ~b.valid
<1>1. 0 \in Ids /\ 0 \in Values /\ Ids = Values
  BY SystemAssumption
<1>2. issued < MaxOps => issued + 1 \in Ids
  BY SystemAssumption DEF TypeInv
<1>3. (CHOOSE w \in Words : TRUE) \in Words
  BY LSUAssumption
<1>4. \A b \in Bubbles : b \in [valid: BOOLEAN, lsu: BOOLEAN, op: Op] /\ ~b.valid
  <2>1. NoOp \in Op /\ \A k \in {"load", "store"} : [NoOp EXCEPT !.kind = k] \in Op
    BY <1>1, <1>3 DEF NoOp, Op, Kinds
  <2>2. ASSUME NEW b \in Bubbles
        PROVE  \E o \in Op, l \in BOOLEAN : b = [valid |-> FALSE, lsu |-> l, op |-> o]
    <3>1. CASE b = OtherUnit
      BY <2>1, <3>1 DEF OtherUnit
    <3>2. ASSUME NEW k \in {"load", "store"},
                 b = [valid |-> FALSE, lsu |-> TRUE, op |-> [NoOp EXCEPT !.kind = k]]
          PROVE  \E o \in Op, l \in BOOLEAN : b = [valid |-> FALSE, lsu |-> l, op |-> o]
      <4>1. [NoOp EXCEPT !.kind = k] \in Op
        BY <2>1
      <4> QED BY <3>2, <4>1
    <3> QED BY <3>1, <3>2 DEF Bubbles
  <2>3. ASSUME NEW b \in Bubbles
        PROVE  b \in [valid: BOOLEAN, lsu: BOOLEAN, op: Op] /\ ~b.valid
    <3>1. PICK o \in Op, l \in BOOLEAN : b = [valid |-> FALSE, lsu |-> l, op |-> o]
      BY <2>2
    <3> QED BY <3>1
  <2> QED BY <2>3
<1> QED BY <1>1, <1>2, <1>4, SystemAssumption DEF NextOps, Op, Kinds

LEMMA ExAfterStep ==
  ASSUME TypeInv, NEW in, StepOf(in)
  PROVE  (ExIssued(in) /\ ~in.flush) \/ ExKept(in) \/ ExBubble(in)
<1>1. CASE NoIssue(in)
  BY <1>1 DEF NoIssue, ExReady, ExKept, ExBubble
<1>2. ASSUME NEW o \in NextOps, IssueOp(o, in) PROVE ExIssued(in) /\ ~in.flush
  BY <1>2, OpTypes DEF IssueOp, ExIssued
<1> QED BY <1>1, <1>2 DEF StepOf

LEMMA WindowAfterStep ==
  ASSUME TypeInv, WindowInv, StoreInv, NEW in, StepOf(in), ~in.flush
  PROVE  /\ rob' \in Seq(RobEntry) /\ Len(rob') <= MaxInFlight
         /\ \A i \in 1 .. Len(rob') :
              \/ i + Gone(in) \in Positions1 /\ rob'[i] = Mark(rob[i + Gone(in)], in)
              \/ ExIssued(in) /\ i + Gone(in) = Len(rob) + 1 /\ rob'[i] = Fresh(ex'.op)
         /\ \A i \in Positions1 : i > Gone(in) =>
              i - Gone(in) \in 1 .. Len(rob') /\ rob'[i - Gone(in)] = Mark(rob[i], in)
         /\ ExIssued(in) => \E i \in 1 .. Len(rob') : rob'[i] = Fresh(ex'.op)
<1> DEFINE M == MarkDone(rob, in)
           R == Remaining(in)
<1>1. M \in Seq(RobEntry) /\ Len(M) = Len(rob) /\ Len(rob) \in Nat
      /\ \A i \in 1 .. Len(rob) : M[i] = Mark(rob[i], in)
  BY MarkedWindow, LenProperties DEF StepOf, TypeInv, Positions1
<1>2. Gone(in) \in {0, 1} /\ (Gone(in) = 1 => Len(rob) # 0)
  BY CommitRetires DEF Gone
<1>3. /\ R \in Seq(RobEntry) /\ Len(R) = Len(rob) - Gone(in)
      /\ \A i \in 1 .. Len(R) : R[i] = Mark(rob[i + Gone(in)], in)
  <2>1. CASE Retires(in)
    <3>1. R = Tail(M) /\ Gone(in) = 1 /\ M # <<>>
      BY <1>1, <1>2, <2>1, EmptySeq DEF Remaining, Gone
    <3>2. Tail(M) \in Seq(RobEntry) /\ Len(Tail(M)) = Len(M) - 1
          /\ \A i \in 1 .. Len(Tail(M)) : Tail(M)[i] = M[i + 1]
      BY <1>1, <3>1, HeadTailProperties
    <3> QED BY <1>1, <3>1, <3>2
  <2>2. CASE ~Retires(in)
    BY <1>1, <2>2 DEF Remaining, Gone
  <2> QED BY <2>1, <2>2
<1> HIDE DEF M, R
<1>4. Len(R) \in Nat /\ Len(R) <= MaxInFlight
  BY <1>1, <1>2, <1>3, SystemAssumption, LSUAssumption DEF TypeInv
<1>5. CASE NoIssue(in)
  <2>1. rob' = R /\ ~ExIssued(in)
    <3>1. rob' = R /\ issued' = issued /\ issued \in Nat
      BY <1>5 DEF NoIssue, R, TypeInv
    <3> QED BY <3>1 DEF ExIssued
  <2>2. ASSUME NEW i \in 1 .. Len(rob')
        PROVE  i + Gone(in) \in Positions1 /\ rob'[i] = Mark(rob[i + Gone(in)], in)
    BY <1>1, <1>2, <1>3, <1>4, <2>1 DEF Positions1
  <2>3. ASSUME NEW i \in Positions1, i > Gone(in)
        PROVE  i - Gone(in) \in 1 .. Len(rob') /\ rob'[i - Gone(in)] = Mark(rob[i], in)
    <3>1. i - Gone(in) \in 1 .. Len(R)
      BY <1>1, <1>2, <1>3, <2>3 DEF Positions1
    <3>2. (i - Gone(in)) + Gone(in) = i
      BY <1>2, <2>3 DEF Positions1
    <3>3. R[i - Gone(in)] = Mark(rob[(i - Gone(in)) + Gone(in)], in)
      BY <1>3, <3>1
    <3> QED BY <2>1, <3>1, <3>2, <3>3
  <2> QED BY <1>3, <1>4, <2>1, <2>2, <2>3
<1>6. ASSUME NEW o \in NextOps, IssueOp(o, in)
      PROVE  /\ rob' \in Seq(RobEntry) /\ Len(rob') <= MaxInFlight
             /\ Len(rob') = Len(R) + 1
             /\ \A i \in 1 .. Len(R) : rob'[i] = R[i]
             /\ ExIssued(in) /\ rob'[Len(R) + 1] = Fresh(ex'.op)
  <2>1. rob' = Append(R, Fresh(o)) /\ ex'.op = o /\ ExIssued(in) /\ Len(rob) < MaxInFlight
    BY <1>6, OpTypes DEF IssueOp, R, ExIssued
  <2>2. Fresh(o) \in RobEntry
    BY <2>1, WordTypes DEF Fresh, RobEntry, ExIssued
  <2>3. Len(Append(R, Fresh(o))) <= MaxInFlight
    BY <1>1, <1>2, <1>3, <2>1, <2>2, AppendProperties, SystemAssumption, LSUAssumption
  <2> QED BY <1>3, <2>1, <2>2, <2>3, AppendProperties
<1>7. ASSUME NEW o \in NextOps, IssueOp(o, in)
      PROVE  /\ \A i \in 1 .. Len(rob') :
                  \/ i + Gone(in) \in Positions1 /\ rob'[i] = Mark(rob[i + Gone(in)], in)
                  \/ i + Gone(in) = Len(rob) + 1 /\ rob'[i] = Fresh(ex'.op)
             /\ \A i \in Positions1 : i > Gone(in) =>
                  i - Gone(in) \in 1 .. Len(rob') /\ rob'[i - Gone(in)] = Mark(rob[i], in)
  <2>1. ASSUME NEW i \in 1 .. Len(R)
        PROVE  /\ i + Gone(in) \in Positions1 /\ rob'[i] = Mark(rob[i + Gone(in)], in)
               /\ i \in 1 .. Len(rob')
    BY <1>1, <1>2, <1>3, <1>4, <1>6, <1>7 DEF Positions1
  <2>2. /\ Len(R) + 1 + Gone(in) = Len(rob) + 1
        /\ rob'[Len(R) + 1] = Fresh(ex'.op)
        /\ Len(rob') = Len(R) + 1
    BY <1>1, <1>2, <1>3, <1>6, <1>7
  <2>3. \A i \in 1 .. Len(rob') : i \in 1 .. Len(R) \/ i = Len(R) + 1
    BY <1>4, <2>2
  <2>4. ASSUME NEW i \in Positions1, i > Gone(in)
        PROVE  i - Gone(in) \in 1 .. Len(R) /\ (i - Gone(in)) + Gone(in) = i
    BY <1>1, <1>2, <1>3, <2>4 DEF Positions1
  <2> QED BY <2>1, <2>2, <2>3, <2>4
<1>8. ASSUME NEW o \in NextOps, IssueOp(o, in)
      PROVE  \E i \in 1 .. Len(rob') : rob'[i] = Fresh(ex'.op)
  <2>1. Len(R) + 1 \in 1 .. Len(rob')
    BY <1>4, <1>6, <1>8
  <2> QED BY <1>6, <1>8, <2>1
<1>9. CASE \E o \in NextOps : IssueOp(o, in)
  BY <1>6, <1>7, <1>8, <1>9
<1> QED BY <1>5, <1>9 DEF StepOf

\* The position of a set's only member is that member; any is a position.
LEMMA HitPositions ==
  /\ \A S : OHToUInt(S) \in Positions
  /\ \A p \in Positions : OHToUInt({p}) = p
<1>1. QSize \in 1 .. 8
  BY LSUAssumption
<1>2. ASSUME NEW S PROVE OHToUInt(S) \in Positions
  BY <1>1 DEF OHToUInt, Positions
<1>3. ASSUME NEW p \in Positions PROVE OHToUInt({p}) = p
  <2>1. p \in 0 .. 7 /\ p < QSize
    BY <1>1 DEF Positions
  <2>2. /\ p \in {0, 1, 2, 3} <=> ~HasBit(p, 4)
        /\ p \in {0, 1, 4, 5} <=> ~HasBit(p, 2)
        /\ p \in {0, 2, 4, 6} <=> ~HasBit(p, 1)
    BY <2>1 DEF HasBit
  <2>3. p = (IF HasBit(p, 1) THEN 1 ELSE 0) + (IF HasBit(p, 2) THEN 2 ELSE 0)
            + (IF HasBit(p, 4) THEN 4 ELSE 0)
    BY <2>1, <2>2
  <2>4. OHToUInt({p}) = p % QSize
    BY <2>3 DEF OHToUInt
  <2> QED BY <1>1, <2>1, <2>4
<1> QED BY <1>2, <1>3

\* The types survive a cycle.
LEMMA TypeKept ==
  ASSUME TypeInv, WindowInv, StoreInv, NEW in, StepOf(in)
  PROVE  TypeInv'
<1> USE DEF TypeInv
<1>1. Cycle(in) /\ InputFacts(in) /\ LSUClock(in)
  BY DEF StepOf, Cycle
<1>2. lstate' \in LStates /\ lreq_r' \in BOOLEAN
  BY <1>1 DEF LSUClock, NextLstate, LStates
<1>3. load_buf' \in [id: Ids, addr: Words, rdata: Word, exception: LoadExcps]
  <2>1. in.op \in Op /\ in.load_excp \in LoadExcps /\ "none" \in LoadExcps
    BY <1>1 DEF InputFacts, LoadExcps
  <2>2. RealRdata(in.rdata) \in Word
    BY <1>1, WordTypes DEF InputFacts
  <2>3. load_buf' = NextLoadBuf(in)
    BY <1>1 DEF LSUClock
  <2> QED BY <2>1, <2>2, <2>3 DEF NextLoadBuf, Op
<1>4. stq_hit' \in [hit: BOOLEAN, item: StoreEntry]
  <2>1. \A p \in Positions : Q!element_vec[p].bits \in StoreEntry
    <3>1. QP!TypeOK /\ QSize \in Nat \ {0}
      BY LSUAssumption DEF QP!QueueInv
    <3> QED BY <3>1 DEF QP!TypeOK, QP!Slots, Q!element_vec, Q!Slots, Positions
  <2>2. stq_hit' = NextStqHit /\ NoHit \in [hit: BOOLEAN, item: StoreEntry]
    BY <1>1, NoStoreType DEF LSUClock, NoHit
  <2> QED BY <2>1, <2>2, HitPositions DEF NextStqHit
<1>5. store_d' \in [valid: BOOLEAN, entry: StoreEntry]
  BY <1>1, NoStoreType DEF LSUClock, NextStoreD, InputFacts, Op, StoreEntry
<1>6. ex' \in [valid: BOOLEAN, lsu: BOOLEAN, op: Op] /\ issued' \in Nat
  <2>1. CASE NoIssue(in)
    BY <2>1, OpTypes DEF NoIssue
  <2>2. ASSUME NEW o \in NextOps, IssueOp(o, in)
        PROVE  ex' \in [valid: BOOLEAN, lsu: BOOLEAN, op: Op] /\ issued' \in Nat
    BY <2>2, OpTypes DEF IssueOp
  <2> QED BY <2>1, <2>2 DEF StepOf
<1>7. rob' \in Seq(RobEntry) /\ Len(rob') <= MaxInFlight
  <2>1. CASE in.flush
    <3>1. rob' = <<>>
      BY <2>1 DEF StepOf, NoIssue, IssueOp, Remaining
    <3> QED BY <3>1, EmptySeq, SystemAssumption, LSUAssumption
  <2>2. CASE ~in.flush
    BY <2>2, WindowAfterStep
  <2> QED BY <2>1, <2>2
<1>8. /\ dcache' \in [pending: BOOLEAN, wr: BOOLEAN, rdata: Word]
      /\ mem' \in [Words -> Word]
  <2>1. load_buf.addr \in Words /\ mem[load_buf.addr] \in Word
    OBVIOUS
  <2>2. Q!front_data \in StoreEntry
    BY LSUAssumption DEF QP!QueueInv, QP!TypeOK, QP!Slots, Q!front_data
  <2>3. Write(mem, Q!front_data) \in [Words -> Word]
    BY <2>2 DEF Write, Word, StoreEntry
  <2> QED BY <1>1, <2>1, <2>3, WordTypes DEF Cycle, DcacheStep, NoReq
<1>9. simple' \in BOOLEAN
  BY <1>1 DEF Cycle, GhostStep
<1> QED BY <1>2, <1>3, <1>4, <1>5, <1>6, <1>7, <1>8, <1>9, QueueAfterStep

\* The waiting stores after a cycle without a flush: what waited, without the
\* store that left and with the one that was accepted.
LEMMA WaitingAfterStep ==
  ASSUME TypeInv, WindowInv, StoreInv, NEW in, StepOf(in)
  PROVE  /\ in.flush => Len(WaitingStores') = 0
         /\ ~in.flush =>
              /\ \A k \in 1 .. Len(WaitingStores') :
                   \/ /\ k + Left(in) \in 1 .. Len(WaitingStores)
                      /\ WaitingStores'[k] = WaitingStores[k + Left(in)]
                   \/ /\ StoreAccepted(in) /\ k + Left(in) = Len(WaitingStores) + 1
                      /\ WaitingStores'[k] = EntryOf(ex.op)
              /\ \A k \in 1 .. Len(WaitingStores) : k > Left(in) =>
                   /\ k - Left(in) \in 1 .. Len(WaitingStores')
                   /\ WaitingStores'[k - Left(in)] = WaitingStores[k]
              /\ StoreAccepted(in) => \E k \in 1 .. Len(WaitingStores') :
                                        WaitingStores'[k] = EntryOf(ex.op)
<1> DEFINE C == Q!Contents
           W == WaitingStores
<1>1. WaitingAre /\ WaitingAre'
  <2>1. TypeInv' => WaitingAre'
    BY WaitingFacts, PTL
  <2> QED BY <2>1, WaitingFacts, TypeKept
<1>2. C' = NextContents(in) /\ store_d.entry \in StoreEntry
  BY QueueAfterStep DEF TypeInv
<1>3. store_d' = NextStoreD(in) /\ in.op = ex.op /\ in.flush \in BOOLEAN
  BY DEF StepOf, Cycle, LSUClock, InputFacts
<1>4. Left(in) \in {0, 1} /\ (Left(in) = 1 => Q!Count # 0)
  BY CommitRetires, CommitsFront DEF Left
<1>5. /\ C \in Seq(StoreEntry) /\ Len(C) = Q!Count /\ Len(C) \in Nat
      /\ Len(W) = Q!Count + (IF store_d.valid THEN 1 ELSE 0)
      /\ \A k \in 1 .. Len(C) : W[k] = C[k]
      /\ store_d.valid => W[Len(C) + 1] = store_d.entry
  BY <1>1, LSUAssumption DEF WaitingAre
<1>6. /\ Len(C') \in Nat
      /\ Len(W') = Len(C') + (IF store_d'.valid THEN 1 ELSE 0)
      /\ \A k \in 1 .. Len(C') : W'[k] = C'[k]
      /\ store_d'.valid => W'[Len(C') + 1] = store_d'.entry
  BY <1>1, LSUAssumption DEF WaitingAre
<1>7. CASE in.flush
  <2>1. C' = <<>> /\ ~store_d'.valid
    BY <1>2, <1>3, <1>7 DEF NextContents, NextStoreD, StoreAccepted
  <2> QED BY <1>6, <1>7, <2>1
<1>8. CASE ~in.flush
  <2> DEFINE T == IF StoreCommitAck(in) THEN Tail(C) ELSE C
  <2>1. /\ T \in Seq(StoreEntry) /\ Len(T) = Len(C) - Left(in) /\ Len(T) \in Nat
        /\ \A k \in 1 .. Len(T) : T[k] = C[k + Left(in)]
    <3>1. CASE StoreCommitAck(in)
      <4>1. Left(in) = 1 /\ C # <<>> /\ T = Tail(C)
        BY <1>4, <1>5, <3>1, EmptySeq DEF Left
      <4> QED BY <1>5, <4>1, HeadTailProperties, LenProperties
    <3>2. CASE ~StoreCommitAck(in)
      BY <1>5, <3>2 DEF Left
    <3> QED BY <3>1, <3>2
  <2>2. C' = IF store_d.valid THEN Append(T, store_d.entry) ELSE T
    BY <1>2, <1>8 DEF NextContents
  <2> HIDE DEF T, C, W
  <2>3. /\ Len(C') = Len(W) - Left(in)
        /\ \A k \in 1 .. Len(C') : C'[k] = W[k + Left(in)]
    <3>1. CASE store_d.valid
      <4>1. Len(C') = Len(T) + 1 /\ C'[Len(T) + 1] = store_d.entry
            /\ \A k \in 1 .. Len(T) : C'[k] = T[k]
        BY <1>2, <2>1, <2>2, <3>1, AppendProperties
      <4>2. Len(T) + 1 + Left(in) = Len(C) + 1
        BY <1>4, <1>5, <2>1
      <4>3. \A k \in 1 .. Len(T) : k + Left(in) \in 1 .. Len(C)
        BY <1>4, <1>5, <2>1
      <4>4. \A k \in 1 .. Len(C') : k \in 1 .. Len(T) \/ k = Len(T) + 1
        BY <2>1, <4>1
      <4> QED BY <1>4, <1>5, <2>1, <3>1, <4>1, <4>2, <4>3, <4>4
    <3>2. CASE ~store_d.valid
      <4>1. \A k \in 1 .. Len(T) : k + Left(in) \in 1 .. Len(C)
        BY <1>4, <1>5, <2>1
      <4> QED BY <1>4, <1>5, <2>1, <2>2, <3>2, <4>1
    <3> QED BY <3>1, <3>2
  <2>4. store_d'.valid <=> StoreAccepted(in)
    BY <1>3 DEF NextStoreD
  <2>5. StoreAccepted(in) => store_d'.entry = EntryOf(ex.op)
    BY <1>3 DEF NextStoreD, EntryOf
  <2>6. Len(W) \in Nat
    BY <1>5
  <2>7. ASSUME NEW k \in 1 .. Len(W')
        PROVE  \/ k + Left(in) \in 1 .. Len(W) /\ W'[k] = W[k + Left(in)]
               \/ StoreAccepted(in) /\ k + Left(in) = Len(W) + 1 /\ W'[k] = EntryOf(ex.op)
    BY <1>4, <1>6, <2>3, <2>4, <2>5, <2>6
  <2>8. ASSUME NEW k \in 1 .. Len(W), k > Left(in)
        PROVE  k - Left(in) \in 1 .. Len(W') /\ W'[k - Left(in)] = W[k]
    <3>1. k - Left(in) \in 1 .. Len(C') /\ (k - Left(in)) + Left(in) = k
      BY <1>4, <2>3, <2>6, <2>8
    <3> QED BY <1>6, <2>3, <3>1
  <2>9. ASSUME StoreAccepted(in)
        PROVE  \E k \in 1 .. Len(W') : W'[k] = EntryOf(ex.op)
    <3>1. Len(C') + 1 \in 1 .. Len(W')
      BY <1>6, <2>4, <2>9
    <3> QED BY <1>6, <2>4, <2>5, <2>9, <3>1
  <2> QED BY <1>8, <2>7, <2>8, <2>9 DEF W
<1> QED BY <1>3, <1>7, <1>8

-----------------------------------------------------------------------------
(* The invariant is kept: the window, the waiting stores and the load.     *)

\* A store that is offered is taken, so that it does not stay in the operand
\* register.
LEMMA StoreTaken ==
  ASSUME TypeInv, WindowInv, StoreInv, NEW in, StepOf(in), ex.valid, ex.op.kind # "load"
  PROVE  InReady(in) /\ (~in.flush => StoreAccepted(in))
  BY QueueHasRoom DEF StepOf, InputFacts, InReady, StoreReady, StoreAccepted

\* The write-back is not of the operation in the operand register; the one of
\* a store is of a store, and the one of a load of a load.
LEMMA WrittenBack ==
  ASSUME TypeInv, WindowInv, StoreInv, LoadInv, NEW i \in Positions1,
         WbValid, rob[i].op.id = WbId
  PROVE  /\ ~(ex.valid /\ rob[i].op.id = ex.op.id)
         /\ StoreWbValid => rob[i].op.kind # "load"
         /\ ~StoreWbValid => /\ lstate = "lWriteback" /\ LoadWbFires
                             /\ rob[i].op.id = load_buf.id /\ rob[i].op.kind = "load"
<1>1. CASE StoreWbValid
  <2>1. Q!Count + 1 \in 1 .. Len(WaitingStores)
        /\ WaitingStores[Q!Count + 1] = store_d.entry
    BY <1>1, WaitingFacts, LSUAssumption DEF WaitingAre, StoreWbValid
  <2>2. PICK j \in Positions1 : /\ store_d.entry.id = rob[j].op.id
                                /\ Accepted(rob[j].op)
    BY <2>1, WaitingInWindow
  <2>3. i = j
    <3>1. rob[i].op.id \in Int /\ rob[j].op.id \in Int
      BY DEF WindowInv
    <3> QED BY <1>1, <2>2, <3>1 DEF WindowInv, Positions1, WbId
  <2> QED BY <1>1, <2>2, <2>3 DEF Accepted
<1>2. CASE ~StoreWbValid
  BY <1>2 DEF LoadInv, WbValid, WbId, LoadWbValid, LoadWbFires
<1> QED BY <1>1, <1>2

LEMMA WindowKept ==
  ASSUME TypeInv, WindowInv, StoreInv, LoadInv, NEW in, StepOf(in)
  PROVE  WindowInv'
<1>1. (ExIssued(in) /\ ~in.flush) \/ ExKept(in) \/ ExBubble(in)
  BY ExAfterStep
<1>2. /\ issued \in Nat /\ issued' \in Nat /\ issued <= issued'
      /\ \A i \in Positions1 : rob[i].op.id \in 1 .. issued
  BY <1>1 DEF TypeInv, WindowInv, ExIssued, ExKept, ExBubble
<1>3. ex'.valid => ex'.op.id = issued' /\ issued' # 0
  BY <1>1, <1>2, OpTypes DEF WindowInv, ExIssued, ExKept, ExBubble
<1>4. ExKept(in) => ~(ex.valid /\ ex.op.kind # "load")
  BY StoreTaken DEF ExKept
<1>5. CASE in.flush
  <2>1. rob' = <<>> /\ Len(rob') = 0
    BY <1>5 DEF StepOf, NoIssue, IssueOp, Remaining
  <2>2. ~(ex'.valid /\ ex'.op.kind # "load")
    BY <1>1, <1>4, <1>5, OpTypes DEF ExKept, ExBubble
  <2> QED BY <1>3, <2>1, <2>2 DEF WindowInv, Positions1
<1>6. CASE ~in.flush
  <2>1. ASSUME NEW i \in 1 .. Len(rob')
        PROVE  \/ /\ i + Gone(in) \in Positions1
                  /\ rob'[i] = Mark(rob[i + Gone(in)], in)
                  /\ rob'[i].op = rob[i + Gone(in)].op
               \/ /\ ExIssued(in) /\ i + Gone(in) = Len(rob) + 1
                  /\ rob'[i] = Fresh(ex'.op)
    <3>1. \A j \in Positions1 : Mark(rob[j], in).op = rob[j].op
      BY MarkType, ElementOfSeq DEF TypeInv, StepOf, Positions1
    <3> QED BY <1>6, <3>1, WindowAfterStep
  <2>2. Gone(in) \in {0, 1} /\ Len(rob) \in Nat
    BY LenProperties DEF Gone, TypeInv
  <2>3. ASSUME NEW i \in 1 .. Len(rob') PROVE rob'[i].op.id \in 1 .. issued'
    <3>1. CASE i + Gone(in) \in Positions1 /\ rob'[i].op = rob[i + Gone(in)].op
      BY <1>2, <3>1
    <3>2. CASE ExIssued(in) /\ rob'[i] = Fresh(ex'.op)
      BY <1>2, <3>2 DEF Fresh, ExIssued
    <3> QED BY <2>1, <3>1, <3>2
  <2>4. ASSUME NEW i \in 1 .. Len(rob'), NEW j \in 1 .. Len(rob'), i < j
        PROVE  rob'[i].op.id < rob'[j].op.id
    <3>1. i + Gone(in) \in Positions1 /\ rob'[i].op = rob[i + Gone(in)].op
      BY <2>1, <2>2, <2>4 DEF Positions1
    <3>2. CASE j + Gone(in) \in Positions1 /\ rob'[j].op = rob[j + Gone(in)].op
      BY <2>2, <2>4, <3>1, <3>2 DEF WindowInv, Positions1
    <3>3. CASE ExIssued(in) /\ rob'[j] = Fresh(ex'.op)
      BY <1>2, <3>1, <3>3 DEF ExIssued, Fresh
    <3> QED BY <2>1, <3>2, <3>3
  <2>5. ASSUME NEW i \in 1 .. Len(rob'), ex'.valid, rob'[i].op.id = ex'.op.id
        PROVE  rob'[i].op = ex'.op /\ ~rob'[i].done
    <3>1. CASE ExIssued(in)
      BY <1>2, <2>1, <2>5, <3>1 DEF ExIssued, Fresh
    <3>2. CASE ExKept(in)
      <4>1. PICK j \in Positions1 : rob'[i] = Mark(rob[j], in) /\ rob'[i].op = rob[j].op
        <5>1. issued' = issued /\ issued \in Nat
          BY <3>2 DEF ExKept, TypeInv
        <5>2. ~ExIssued(in)
          BY <5>1 DEF ExIssued
        <5> QED BY <2>1, <5>2
      <4>2. rob[j].op = ex.op /\ ~rob[j].done
        BY <2>5, <3>2, <4>1 DEF ExKept, WindowInv
      <4>3. ~(WbValid /\ rob[j].op.id = WbId)
        BY <2>5, <3>2, <4>1, WrittenBack DEF ExKept
      <4> QED BY <3>2, <4>1, <4>2, <4>3 DEF Mark, ExKept
    <3>3. CASE ExBubble(in)
      BY <2>5, <3>3, OpTypes DEF ExBubble
    <3> QED BY <1>1, <3>1, <3>2, <3>3
  <2>6. ASSUME ex'.valid, ex'.op.kind # "load"
        PROVE  \E i \in 1 .. Len(rob') : rob'[i].op.id = ex'.op.id
    <3>1. ExIssued(in)
      BY <1>1, <1>4, <2>6, OpTypes DEF ExKept, ExBubble
    <3> QED BY <1>6, <3>1, WindowAfterStep DEF Fresh
  <2> QED BY <1>3, <2>3, <2>4, <2>5, <2>6 DEF WindowInv, Positions1
<1> QED BY <1>5, <1>6 DEF StepOf, InputFacts

\* What a cycle without a flush keeps of the window and brings to it.
WindowMoves(in) ==
  /\ Gone(in) \in {0, 1} /\ Len(rob) \in Nat
  /\ \A i \in 1 .. Len(rob') :
       \/ /\ i + Gone(in) \in Positions1
          /\ rob'[i] = Mark(rob[i + Gone(in)], in)
          /\ rob'[i].op = rob[i + Gone(in)].op
       \/ ExIssued(in) /\ rob'[i] = Fresh(ex'.op) /\ rob'[i].op = ex'.op
  /\ \A i \in Positions1 : i > Gone(in) =>
       /\ i - Gone(in) \in 1 .. Len(rob')
       /\ rob'[i - Gone(in)].op = rob[i].op

LEMMA WindowMovesStep ==
  ASSUME TypeInv, WindowInv, StoreInv, NEW in, StepOf(in), ~in.flush
  PROVE  WindowMoves(in)
<1>1. \A j \in Positions1 : Mark(rob[j], in).op = rob[j].op
  BY MarkType, ElementOfSeq DEF TypeInv, StepOf, Positions1
<1>2. Gone(in) \in {0, 1} /\ Len(rob) \in Nat
  BY LenProperties DEF Gone, TypeInv
<1>3. ASSUME NEW i \in 1 .. Len(rob')
      PROVE  \/ /\ i + Gone(in) \in Positions1
                /\ rob'[i] = Mark(rob[i + Gone(in)], in)
                /\ rob'[i].op = rob[i + Gone(in)].op
             \/ ExIssued(in) /\ rob'[i] = Fresh(ex'.op) /\ rob'[i].op = ex'.op
  <2>1. \/ i + Gone(in) \in Positions1 /\ rob'[i] = Mark(rob[i + Gone(in)], in)
        \/ ExIssued(in) /\ rob'[i] = Fresh(ex'.op)
    BY WindowAfterStep
  <2>2. Fresh(ex'.op).op = ex'.op
    BY DEF Fresh
  <2> QED BY <1>1, <2>1, <2>2
<1>4. ASSUME NEW i \in Positions1, i > Gone(in)
      PROVE  i - Gone(in) \in 1 .. Len(rob') /\ rob'[i - Gone(in)].op = rob[i].op
  BY <1>1, <1>4, WindowAfterStep
<1> QED BY <1>2, <1>3, <1>4 DEF WindowMoves

LEMMA StoreKept ==
  ASSUME TypeInv, WindowInv, StoreInv, LoadInv, NEW in, StepOf(in)
  PROVE  StoreInv'
<1> DEFINE W == WaitingStores
<1>1. CASE in.flush
  <2>1. rob' = <<>> /\ Len(rob') = 0
    BY <1>1 DEF StepOf, NoIssue, IssueOp, Remaining
  <2>2. Len(W') = 0
    BY <1>1, WaitingAfterStep
  <2> QED BY <2>1, <2>2 DEF StoreInv, StoresInProgramOrder, AcceptedStores, Positions1
<1>2. CASE ~in.flush
  <2>1. ExIssued(in) \/ ExKept(in) \/ ExBubble(in)
    BY ExAfterStep
  <2>2. WindowMoves(in)
    BY <1>2, WindowMovesStep
  <2>3. /\ issued \in Nat
        /\ \A i \in Positions1 : rob[i].op.id \in 1 .. issued /\ rob[i].op.id \in Int
    BY DEF TypeInv, WindowInv
  <2>4. Left(in) \in {0, 1} /\ Len(W) \in Nat
    BY WaitingFacts, LenProperties DEF Left, WaitingAre
  \* the operations that are there before and after are not the newly issued one
  <2>5. ASSUME NEW i \in Positions1, Accepted(rob[i].op) \/ StoreAccepted(in)
        PROVE  ~(ex'.valid /\ ex'.op.id = rob[i].op.id)
    <3>1. CASE ExIssued(in)
      BY <2>3, <3>1 DEF ExIssued
    <3>2. CASE ExKept(in)
      <4>1. ~StoreAccepted(in)
        BY <3>2, StoreTaken DEF ExKept, StoreAccepted, StepOf, InputFacts
      <4> QED BY <2>5, <3>2, <4>1 DEF ExKept, Accepted
    <3>3. CASE ExBubble(in)
      BY <3>3, OpTypes DEF ExBubble
    <3> QED BY <2>1, <3>1, <3>2, <3>3
  \* the accepted store is in the window, where it stays
  <2>6. ASSUME StoreAccepted(in)
        PROVE  /\ ex.valid /\ ex.op.kind # "load"
               /\ \E i \in Positions1 : i > Gone(in) /\ rob[i].op = ex.op
    <3>1. ex.valid /\ ex.op.kind # "load"
      BY <2>6 DEF StoreAccepted, StepOf, InputFacts
    <3>2. PICK i \in Positions1 : rob[i].op = ex.op /\ ~rob[i].done
      BY <3>1 DEF WindowInv
    <3>3. i > Gone(in)
      BY <3>2, CommitRetires DEF Gone, Positions1
    <3> QED BY <3>1, <3>2, <3>3
  \* the stores that wait on
  <2>7. ASSUME NEW k \in 1 .. Len(W), k > Left(in)
        PROVE  \E i \in Positions1 : /\ i > Gone(in) /\ W[k] = EntryOf(rob[i].op)
                                     /\ W[k].id = rob[i].op.id /\ Accepted(rob[i].op)
    <3>1. PICK i \in Positions1 : /\ W[k] = EntryOf(rob[i].op)
                                  /\ W[k].id = rob[i].op.id /\ Accepted(rob[i].op)
      BY WaitingInWindow
    <3>2. ~(Gone(in) = 1 /\ i = 1)
      <4> SUFFICES ASSUME Gone(in) = 1, i = 1 PROVE FALSE
        OBVIOUS
      <4>1. StoreCommitAck(in) /\ W[1] = EntryOf(rob[1].op) /\ k > 1
        BY <3>1, <2>7, CommitRetires, CommitsFront DEF Gone, Left, Accepted
      <4>2. W[1].id < W[k].id
        BY <2>4, <4>1 DEF StoreInv, StoresInProgramOrder
      <4> QED BY <2>3, <3>1, <4>1, <4>2 DEF EntryOf
    <3> QED BY <2>2, <3>1, <3>2 DEF WindowMoves, Positions1
  <2>8. ASSUME NEW k \in 1 .. Len(W')
        PROVE  \E i \in 1 .. Len(rob') : /\ W'[k] = EntryOf(rob'[i].op)
                                         /\ W'[k].id = rob'[i].op.id
                                         /\ rob'[i].op.kind # "load"
                                         /\ ~(ex'.valid /\ ex'.op.id = rob'[i].op.id)
    <3>1. CASE StoreAccepted(in) /\ W'[k] = EntryOf(ex.op)
      <4>1. PICK i \in Positions1 : i > Gone(in) /\ rob[i].op = ex.op
        BY <2>6, <3>1
      <4>2. i - Gone(in) \in 1 .. Len(rob') /\ rob'[i - Gone(in)].op = ex.op
        BY <2>2, <4>1 DEF WindowMoves
      <4> QED BY <2>5, <2>6, <3>1, <4>1, <4>2 DEF EntryOf
    <3>2. CASE k + Left(in) \in 1 .. Len(W) /\ W'[k] = W[k + Left(in)]
      <4>1. k + Left(in) > Left(in)
        BY <2>4
      <4>2. PICK i \in Positions1 : /\ i > Gone(in) /\ W'[k] = EntryOf(rob[i].op)
                                    /\ W'[k].id = rob[i].op.id /\ Accepted(rob[i].op)
        BY <2>7, <3>2, <4>1
      <4>3. i - Gone(in) \in 1 .. Len(rob') /\ rob'[i - Gone(in)].op = rob[i].op
        BY <2>2, <4>2 DEF WindowMoves
      <4> QED BY <2>5, <4>2, <4>3 DEF Accepted
    <3> QED BY <1>2, <3>1, <3>2, WaitingAfterStep
  <2>9. ASSUME NEW i \in 1 .. Len(rob'), rob'[i].op.kind # "load",
               ~(ex'.valid /\ ex'.op.id = rob'[i].op.id)
        PROVE  \E k \in 1 .. Len(W') : W'[k].id = rob'[i].op.id
    <3>1. PICK j \in Positions1 : j > Gone(in) /\ rob'[i].op = rob[j].op
      <4>1. i + Gone(in) > Gone(in)
        BY <2>2 DEF WindowMoves
      <4> QED BY <2>2, <2>9, <4>1 DEF WindowMoves, ExIssued
    <3>2. CASE ex.valid /\ ex.op.id = rob[j].op.id
      <4>1. rob[j].op = ex.op
        BY <3>2 DEF WindowInv
      <4>2. StoreAccepted(in)
        BY <1>2, <2>9, <3>1, <3>2, <4>1, StoreTaken
      <4>3. PICK k \in 1 .. Len(W') : W'[k] = EntryOf(ex.op)
        BY <1>2, <4>2, WaitingAfterStep
      <4> QED BY <3>1, <4>1, <4>3 DEF EntryOf
    <3>3. CASE ~(ex.valid /\ ex.op.id = rob[j].op.id)
      <4>1. PICK k \in 1 .. Len(W) : W[k].id = rob[j].op.id
        BY <2>9, <3>1, <3>3, AcceptedWaits DEF Accepted
      <4>2. ~(Left(in) = 1 /\ k = 1)
        <5> SUFFICES ASSUME Left(in) = 1, k = 1 PROVE FALSE
          OBVIOUS
        <5>1. W[1] = EntryOf(rob[1].op) /\ Gone(in) = 1 /\ 1 \in Positions1
          BY CommitRetires, CommitsFront DEF Left, Gone, Positions1, TypeInv
        <5>2. rob[1].op.id < rob[j].op.id
          BY <3>1, <5>1 DEF WindowInv, Positions1
        <5> QED BY <2>3, <4>1, <5>1, <5>2 DEF EntryOf
      <4>3. k > Left(in)
        BY <2>4, <4>2
      <4>4. k - Left(in) \in 1 .. Len(W') /\ W'[k - Left(in)] = W[k]
        BY <1>2, <4>3, WaitingAfterStep
      <4> QED BY <3>1, <4>1, <4>4
    <3> QED BY <3>2, <3>3
  <2>10. ASSUME NEW j \in 1 .. Len(W'), NEW k \in 1 .. Len(W'), j < k
         PROVE  W'[j].id < W'[k].id
    <3>1. /\ j + Left(in) \in 1 .. Len(W) /\ W'[j] = W[j + Left(in)]
          /\ j + Left(in) < k + Left(in)
      BY <1>2, <2>4, <2>10, WaitingAfterStep
    <3>2. CASE k + Left(in) \in 1 .. Len(W) /\ W'[k] = W[k + Left(in)]
      BY <3>1, <3>2 DEF StoreInv, StoresInProgramOrder
    <3>3. CASE StoreAccepted(in) /\ W'[k] = EntryOf(ex.op)
      <4>1. PICK i \in Positions1 : W'[j].id = rob[i].op.id /\ Accepted(rob[i].op)
        BY <3>1, WaitingInWindow
      <4>2. W'[k].id = issued /\ ex.valid
        BY <2>6, <3>3 DEF WindowInv, EntryOf
      <4> QED BY <2>3, <2>6, <3>3, <4>1, <4>2 DEF Accepted, WindowInv
    <3> QED BY <1>2, <3>2, <3>3, WaitingAfterStep
  <2>11. ASSUME NEW i \in 1 .. Len(rob'), rob'[i].done, store_d'.valid,
                store_d'.entry.id = rob'[i].op.id
         PROVE  FALSE
    <3>1. StoreAccepted(in) /\ store_d'.entry.id = ex.op.id /\ ex.valid
      BY <2>11 DEF StepOf, Cycle, LSUClock, NextStoreD, InputFacts, StoreAccepted
    <3>2. PICK j \in Positions1 : rob'[i] = Mark(rob[j], in) /\ rob'[i].op = rob[j].op
      BY <2>2, <2>11 DEF WindowMoves, Fresh
    <3>3. ~rob[j].done
      BY <2>11, <3>1, <3>2 DEF WindowInv
    <3>4. ~(WbValid /\ rob[j].op.id = WbId)
      BY <2>11, <3>1, <3>2, WrittenBack
    <3> QED BY <2>11, <3>2, <3>3, <3>4 DEF Mark
  <2>12. { W'[k].id : k \in 1 .. Len(W') } = AcceptedStores'
    <3> DEFINE InFlight(i) == /\ rob'[i].op.kind # "load"
                              /\ ~(ex'.valid /\ ex'.op.id = rob'[i].op.id)
    <3>1. ASSUME NEW x
          PROVE  x \in AcceptedStores' <=> \E i \in 1 .. Len(rob') : InFlight(i) /\ x = rob'[i].op.id
      BY DEF AcceptedStores, Accepted
    <3>2. \A k \in 1 .. Len(W') : \E i \in 1 .. Len(rob') : InFlight(i) /\ W'[k].id = rob'[i].op.id
      BY <2>8
    <3>3. \A i \in 1 .. Len(rob') : InFlight(i) => \E k \in 1 .. Len(W') : W'[k].id = rob'[i].op.id
      BY <2>9
    <3> DEFINE Waiting == { W'[k].id : k \in 1 .. Len(W') }
    <3> HIDE DEF InFlight
    <3>4. ASSUME NEW x PROVE x \in Waiting <=> x \in AcceptedStores'
      <4>1. x \in Waiting <=> \E k \in 1 .. Len(W') : x = W'[k].id
        OBVIOUS
      <4>2. ASSUME NEW k \in 1 .. Len(W'), x = W'[k].id PROVE x \in AcceptedStores'
        BY <3>1, <3>2, <4>2
      <4>3. ASSUME NEW i \in 1 .. Len(rob'), InFlight(i), x = rob'[i].op.id
            PROVE  \E k \in 1 .. Len(W') : x = W'[k].id
        BY <3>3, <4>3
      <4> HIDE DEF Waiting
      <4> QED BY <3>1, <4>1, <4>2, <4>3
    <3> HIDE DEF Waiting
    <3>5. Waiting = AcceptedStores'
      BY <3>4
    <3> QED BY <3>5 DEF Waiting
  <2>13. StoresInProgramOrder'
    BY <2>10, <2>12 DEF StoresInProgramOrder
  <2>14. \A k \in 1 .. Len(W') : \E i \in 1 .. Len(rob') : W'[k] = EntryOf(rob'[i].op)
    BY <2>8
  <2> QED BY <2>11, <2>13, <2>14 DEF StoreInv, Positions1, EntryOf
<1> QED BY <1>1, <1>2 DEF StepOf, InputFacts

\* The ways the load state machine can go in a cycle.
SameLoad == load_buf'.id = load_buf.id /\ load_buf'.addr = load_buf.addr

Accepts(in) == /\ LoadAccepted(in) /\ lstate = "lIdle" /\ lstate' = "lReq"
               /\ ex.valid /\ ex.op.kind = "load" /\ InReady(in)
               /\ load_buf'.id = ex.op.id /\ load_buf'.addr = ex.op.addr
               /\ load_buf'.exception = "none"
Idles       == lstate = "lIdle" /\ lstate' = "lIdle"
Faults      == lstate = "lReq" /\ lstate' = "lWriteback" /\ SameLoad
               /\ load_buf'.exception # "none"
AwaitsPort  == lstate = "lReq" /\ lstate' = "lReq" /\ load_buf' = load_buf
TakesPort(in) == /\ lstate = "lReq" /\ lstate' = "lWait" /\ load_buf' = load_buf
                 /\ LoadReqFires(in)
AwaitsData(in) == /\ lstate = "lWait" /\ lstate' = "lWait" /\ load_buf' = load_buf
                  /\ ~in.resp
TakesData(in)  == /\ lstate = "lWait" /\ lstate' = "lWriteback" /\ SameLoad /\ in.resp
                  /\ load_buf'.exception = load_buf.exception
                  /\ load_buf'.rdata = RealRdata(in.rdata)
AwaitsWb == /\ lstate = "lWriteback" /\ lstate' = "lWriteback" /\ load_buf' = load_buf
            /\ StoreWbValid
Ends     == lstate = "lWriteback" /\ lstate' = "lIdle"

LEMMA LoadMoves ==
  ASSUME TypeInv, NEW in, StepOf(in)
  PROVE  /\ \/ Accepts(in) \/ Idles \/ Faults \/ AwaitsPort \/ TakesPort(in)
            \/ AwaitsData(in) \/ TakesData(in) \/ AwaitsWb \/ Ends
         /\ lreq_r' = (lstate = "lReq")
<1>1. /\ lstate' = NextLstate(in) /\ load_buf' = NextLoadBuf(in)
      /\ lreq_r' = (lstate = "lReq")
      /\ InputFacts(in)
  BY DEF StepOf, Cycle, LSUClock
<1>2. lstate \in LStates /\ load_buf \in [id: Ids, addr: Words, rdata: Word, exception: LoadExcps]
  BY DEF TypeInv
<1>3. CASE lstate = "lIdle"
  BY <1>1, <1>2, <1>3 DEF NextLstate, NextLoadBuf, LoadAccepted, LoadReady, LoadExcp, paddr_v,
        LoadWbFires, LoadWbValid, Accepts, Idles, InReady, InputFacts
<1>4. CASE lstate = "lReq"
  <2>1. ~LoadAccepted(in)
    BY <1>4 DEF LoadAccepted, LoadReady
  <2>2. CASE LoadExcp(in)
    <3>1. in.load_excp # "none" /\ ~LoadWbFires
      BY <1>4, <2>2 DEF LoadExcp, LoadWbFires, LoadWbValid
    <3>2. lstate' = "lWriteback"
      BY <1>1, <1>4, <2>1, <2>2, <3>1 DEF NextLstate
    <3>3. load_buf' = [load_buf EXCEPT !.exception = in.load_excp]
      BY <1>1, <1>4, <2>1, <2>2 DEF NextLoadBuf
    <3> QED BY <1>1, <1>2, <1>4, <3>1, <3>2, <3>3 DEF Faults, SameLoad
  <2>3. CASE ~LoadExcp(in)
    <3>1. load_buf' = load_buf
      BY <1>1, <1>4, <2>1, <2>3 DEF NextLoadBuf
    <3>2. LoadReqReady(in) => LoadReqFires(in)
      BY <1>1, <1>4, <2>3 DEF LoadReqFires, LoadReqValid, LoadExcp, InputFacts
    <3> QED BY <1>1, <1>4, <2>1, <2>3, <3>1, <3>2
            DEF NextLstate, LoadWbFires, LoadWbValid, AwaitsPort, TakesPort
  <2> QED BY <1>1, <2>2, <2>3
<1>5. CASE lstate = "lWait"
  <2>1. ~LoadAccepted(in) /\ ~LoadExcp(in) /\ ~LoadWbFires
    BY <1>5 DEF LoadAccepted, LoadReady, LoadExcp, paddr_v, LoadWbFires, LoadWbValid
  <2> QED BY <1>1, <1>2, <1>5, <2>1 DEF NextLstate, NextLoadBuf, AwaitsData, TakesData, SameLoad
<1>6. CASE lstate = "lWriteback"
  <2>1. ~LoadAccepted(in) /\ ~LoadExcp(in)
    BY <1>6 DEF LoadAccepted, LoadReady, LoadExcp, paddr_v
  <2> QED BY <1>1, <1>2, <1>6, <2>1 DEF NextLstate, NextLoadBuf, LoadWbFires, LoadWbValid,
             AwaitsWb, Ends
<1> QED BY <1>2, <1>3, <1>4, <1>5, <1>6 DEF LStates

LEMMA LoadKept ==
  ASSUME TypeInv, WindowInv, StoreInv, LoadInv, NEW in, StepOf(in)
  PROVE  LoadInv'
<1>1. (ExIssued(in) /\ ~in.flush) \/ ExKept(in) \/ ExBubble(in)
  BY ExAfterStep
<1>2. /\ issued \in Nat /\ issued' \in Nat /\ issued <= issued'
      /\ \A i \in Positions1 : rob[i].op.id \in 1 .. issued /\ rob[i].op.id \in Int
      /\ ex.valid => ex.op.id = issued /\ issued # 0
  BY <1>1 DEF TypeInv, WindowInv, ExIssued, ExKept, ExBubble
<1>3. in.flush => rob' = <<>> /\ Len(rob') = 0
  BY DEF StepOf, NoIssue, IssueOp, Remaining
<1>4. ~in.flush => WindowMoves(in)
  BY WindowMovesStep
<1>5. in.flush \in BOOLEAN
  BY DEF StepOf, InputFacts
\* the load just accepted
<1>6. CASE Accepts(in)
  <2>1. ExIssued(in) \/ ExBubble(in)
    BY <1>1, <1>6 DEF Accepts, ExKept
  <2>2. load_buf'.id \in 1 .. issued' /\ load_buf'.id = issued
    BY <1>2, <1>6 DEF Accepts
  <2>3. ex'.valid => load_buf'.id # ex'.op.id
    BY <1>2, <2>1, <2>2, OpTypes DEF ExIssued, ExBubble
  <2>4. ASSUME NEW i \in 1 .. Len(rob'), rob'[i].op.id = load_buf'.id
        PROVE  /\ rob'[i].op.kind = "load" /\ rob'[i].op.addr = load_buf'.addr
               /\ ~rob'[i].done
    <3>1. PICK j \in Positions1 : rob'[i] = Mark(rob[j], in) /\ rob'[i].op = rob[j].op
      <4>1. ~(ExIssued(in) /\ rob'[i].op = ex'.op)
        BY <1>2, <2>2, <2>4 DEF ExIssued
      <4> QED BY <1>3, <1>4, <1>5, <2>4, <4>1 DEF WindowMoves
    <3>2. rob[j].op = ex.op /\ ~rob[j].done
      BY <1>6, <2>4, <3>1 DEF Accepts, WindowInv
    <3>3. ~(WbValid /\ rob[j].op.id = WbId)
      BY <1>6, <3>2, WrittenBack DEF Accepts
    <3> QED BY <1>6, <3>1, <3>2, <3>3 DEF Mark, Accepts
  <2>5. ~store_d'.valid
    BY <1>6 DEF Accepts, StepOf, Cycle, LSUClock, NextStoreD, StoreAccepted, InputFacts
  <2>6. ASSUME NEW k \in 1 .. Len(WaitingStores') PROVE WaitingStores'[k].id < load_buf'.id
    <3>1. ~StoreAccepted(in)
      BY <1>6 DEF Accepts, StoreAccepted, StepOf, InputFacts
    <3>2. PICK j \in 1 .. Len(WaitingStores) : WaitingStores'[k] = WaitingStores[j]
      BY <1>5, <3>1, WaitingAfterStep
    <3>3. PICK i \in Positions1 : WaitingStores[j].id = rob[i].op.id /\ Accepted(rob[i].op)
      BY WaitingInWindow
    <3> QED BY <1>2, <1>6, <2>2, <3>2, <3>3 DEF Accepted, Accepts
  <2> QED BY <1>6, <2>2, <2>3, <2>4, <2>5, <2>6 DEF Accepts, LoadInv, Positions1
\* the load in progress stays the same one
<1>7. ASSUME lstate # "lIdle", SameLoad, ~LoadWbFires
      PROVE  /\ load_buf'.id \in 1 .. issued'
             /\ ex'.valid => load_buf'.id # ex'.op.id
             /\ \A i \in 1 .. Len(rob') : rob'[i].op.id = load_buf'.id =>
                  /\ rob'[i].op.kind = "load" /\ rob'[i].op.addr = load_buf'.addr
                  /\ ~rob'[i].done
  <2>1. /\ load_buf.id \in 1 .. issued /\ load_buf'.id = load_buf.id
        /\ load_buf'.addr = load_buf.addr
        /\ ex.valid => load_buf.id # ex.op.id
    BY <1>7 DEF LoadInv, SameLoad
  <2>2. ex'.valid => load_buf'.id # ex'.op.id
    BY <1>1, <1>2, <2>1, OpTypes DEF ExIssued, ExKept, ExBubble
  <2>3. ASSUME NEW i \in 1 .. Len(rob'), rob'[i].op.id = load_buf'.id
        PROVE  /\ rob'[i].op.kind = "load" /\ rob'[i].op.addr = load_buf'.addr
               /\ ~rob'[i].done
    <3>1. PICK j \in Positions1 : rob'[i] = Mark(rob[j], in) /\ rob'[i].op = rob[j].op
      <4>1. ~(ExIssued(in) /\ rob'[i].op = ex'.op)
        BY <1>2, <2>1, <2>3 DEF ExIssued
      <4> QED BY <1>3, <1>4, <1>5, <2>3, <4>1 DEF WindowMoves
    <3>2. rob[j].op.kind = "load" /\ rob[j].op.addr = load_buf.addr /\ ~rob[j].done
      BY <1>7, <2>1, <2>3, <3>1 DEF LoadInv
    <3>3. ~(WbValid /\ rob[j].op.id = WbId)
      BY <1>7, <3>2, WrittenBack
    <3> QED BY <2>1, <3>1, <3>2, <3>3 DEF Mark
  <2> QED BY <1>2, <2>1, <2>2, <2>3
<1>8. CASE Idles
  BY <1>8 DEF Idles, LoadInv, paddr_v
<1>9. CASE Ends
  BY <1>9 DEF Ends, LoadInv, paddr_v
<1>10. CASE Faults
  <2>1. ~LoadWbFires
    BY <1>10 DEF Faults, LoadWbFires, LoadWbValid
  <2> QED BY <1>7, <1>10, <2>1 DEF Faults, LoadInv, paddr_v, Positions1
<1>11. CASE AwaitsPort
  <2>1. ~LoadWbFires /\ SameLoad /\ lreq_r'
    BY <1>11, LoadMoves DEF AwaitsPort, LoadWbFires, LoadWbValid, SameLoad
  <2> QED BY <1>7, <1>11, <2>1 DEF AwaitsPort, LoadInv, paddr_v, Positions1
<1>12. CASE TakesPort(in)
  <2>1. ~LoadWbFires /\ SameLoad
    BY <1>12 DEF TakesPort, LoadWbFires, LoadWbValid, SameLoad
  <2>2. dcache'.pending
    BY <1>12 DEF TakesPort, StepOf, Cycle, DcacheStep, LoadReqFires, LoadReqReady, StoreReqFires
  <2> QED BY <1>7, <1>12, <2>1, <2>2 DEF TakesPort, LoadInv, paddr_v, Positions1
<1>13. CASE AwaitsData(in)
  <2>1. ~LoadWbFires /\ SameLoad
    BY <1>13 DEF AwaitsData, LoadWbFires, LoadWbValid, SameLoad
  <2>2. dcache'.pending
    BY <1>13 DEF AwaitsData, StepOf, Cycle, DcacheStep, LoadInv
  <2> QED BY <1>7, <1>13, <2>1, <2>2 DEF AwaitsData, LoadInv, paddr_v, Positions1
<1>14. CASE TakesData(in)
  <2>1. ~LoadWbFires
    BY <1>14 DEF TakesData, LoadWbFires, LoadWbValid
  <2> QED BY <1>7, <1>14, <2>1 DEF TakesData, LoadInv, paddr_v, Positions1
<1>15. CASE AwaitsWb
  <2>1. ~LoadWbFires /\ SameLoad
    BY <1>15 DEF AwaitsWb, LoadWbFires, SameLoad
  <2> QED BY <1>7, <1>15, <2>1 DEF AwaitsWb, LoadInv, paddr_v, Positions1
<1> QED BY <1>6, <1>8, <1>9, <1>10, <1>11, <1>12, <1>13, <1>14, <1>15, LoadMoves

-----------------------------------------------------------------------------
(* The invariant is kept: memory and the loaded words.                     *)

\* The memory changes when a store's commit reaches the cache: it is the
\* oldest operation, and gets what program order gives it.
LEMMA MemoryStep ==
  ASSUME TypeInv, WindowInv, StoreInv, NEW in, StepOf(in)
  PROVE  /\ ~StoreReqFires(in) => mem' = mem
         /\ StoreReqFires(in) => /\ StoreCommitAck(in) /\ Retires(in)
                                 /\ rob[1].op.kind # "load"
                                 /\ mem' = Write(mem, rob[1].op)
         /\ StoreCommitAck(in) => /\ Retires(in) /\ rob[1].op.kind # "load"
                                  /\ rob[1].op.kind = "store" => StoreReqFires(in)
         /\ StoreCommitAck(in) /\ (Oldest.op.kind = "sc" => in.llbit) <=> StoreReqFires(in)
         /\ Oldest.op.kind # "load" /\ Retires(in) => Oldest = rob[1]
<1>1. DcacheStep(in) /\ InputFacts(in)
  BY DEF StepOf, Cycle
<1>2. \A o : Write(mem, EntryOf(o)) = Write(mem, o)
  BY DEF Write, EntryOf
<1>3. StoreCommitAck(in) => /\ Retires(in) /\ CommitsStore /\ Oldest = rob[1]
                            /\ Q!front_data = EntryOf(rob[1].op)
                            /\ rob[1].op.kind # "load"
  BY CommitRetires, CommitsFront DEF CommitsStore
<1>4. StoreReqFires(in) => StoreCommitAck(in)
  BY DEF StoreReqFires, StoreReqValid, StoreCommitAck
<1>5. StoreCommitAck(in) =>
        (StoreReqFires(in) <=> (rob[1].op.kind = "sc" => in.llbit))
  <2>1. \A o : EntryOf(o).sc <=> o.kind = "sc"
    BY DEF EntryOf
  <2>2. StoreCommitAck(in) => (Q!front_data.sc <=> rob[1].op.kind = "sc")
    BY <1>3, <2>1
  <2> QED BY <2>2 DEF StoreCommitAck, StoreReqFires, StoreReqValid
<1> QED BY <1>1, <1>2, <1>3, <1>4, <1>5, CommitRetires DEF DcacheStep

LEMMA MemoryKept ==
  ASSUME TypeInv, WindowInv, StoreInv, MemoryIsArchitectural, NEW in, StepOf(in)
  PROVE  MemoryIsArchitectural'
<1>1. arch_mem' = IF StoreCommitAck(in) /\ (Oldest.op.kind = "sc" => in.llbit)
                  THEN Write(arch_mem, Oldest.op) ELSE arch_mem
  BY DEF StepOf, Cycle, GhostStep
<1>2. CASE StoreReqFires(in)
  <2>1. Oldest = rob[1] /\ mem' = Write(mem, rob[1].op)
    BY <1>2, MemoryStep, CommitRetires
  <2>2. arch_mem' = Write(arch_mem, rob[1].op)
    BY <1>1, <1>2, <2>1, MemoryStep
  <2> QED BY <2>1, <2>2 DEF MemoryIsArchitectural
<1>3. CASE ~StoreReqFires(in)
  <2>1. ~(StoreCommitAck(in) /\ (Oldest.op.kind = "sc" => in.llbit))
    BY <1>3, MemoryStep
  <2>2. mem' = mem /\ arch_mem' = arch_mem
    BY <1>1, <1>3, <2>1, MemoryStep
  <2> QED BY <2>2 DEF MemoryIsArchitectural
<1> QED BY <1>2, <1>3

\* What a write does to a lane.
LEMMA WriteLane ==
  ASSUME TypeInv, NEW o, NEW a \in Words, NEW l \in Lanes
  PROVE  Write(mem, o)[a][l] = IF o.addr = a /\ l \in o.lanes THEN o.data ELSE mem[a][l]
  BY DEF Write, TypeInv, Word

\* A word that is the right one for a load stays the right one when the oldest
\* operation leaves the window: what it wrote is in memory.
LEMMA RightWordKept ==
  ASSUME TypeInv, WindowInv, StoreInv, NEW in, StepOf(in), ~in.flush,
         NEW i \in Positions1, i > Gone(in), NEW w, RightWord(rob, mem, w, i)
  PROVE  /\ RightWord(rob', mem', w, i - Gone(in))
         /\ \A l \in Lanes : w[l] = mem[rob[i].op.addr][l] => w[l] = mem'[rob[i].op.addr][l]
<1> DEFINE g == Gone(in)
           a == rob[i].op.addr
<1>1. WindowMoves(in)
  BY WindowMovesStep
<1>2. g \in {0, 1} /\ i \in Nat /\ Len(rob) \in Nat /\ i <= Len(rob)
  BY <1>1 DEF WindowMoves, Positions1
<1>3. rob'[i - g].op = rob[i].op
  BY <1>1 DEF WindowMoves
<1>4. ASSUME NEW k \in 1 .. (i - g) - 1
      PROVE  k + g \in 1 .. i - 1 /\ rob'[k].op = rob[k + g].op
  <2>1. k + g \in Positions1 /\ k + g > g /\ (k + g) - g = k /\ k + g \in 1 .. i - 1
    BY <1>2 DEF Positions1
  <2> QED BY <1>1, <2>1 DEF WindowMoves
<1>5. a \in Words
  <2>1. rob[i] \in RobEntry
    BY ElementOfSeq DEF TypeInv, Positions1
  <2> QED BY <2>1 DEF RobEntry, Op
<1>6. StoreReqFires(in) => g = 1 /\ 1 \in 1 .. i - 1
  BY <1>2, MemoryStep DEF Gone
\* the lanes that change in memory are covered by the store that commits
<1>7. ASSUME NEW l \in Lanes, ~Covers(rob, 1, i, l) \/ ~StoreReqFires(in)
      PROVE  mem'[a][l] = mem[a][l]
  BY <1>5, <1>7, MemoryStep, WriteLane DEF Covers
<1>8. ASSUME NEW l \in Lanes, Covers(rob, 1, i, l), StoreReqFires(in)
      PROVE  mem'[a][l] = rob[1].op.data
  BY <1>5, <1>8, MemoryStep, WriteLane DEF Covers
<1>9. ASSUME NEW l \in Lanes, w[l] = mem[a][l] PROVE w[l] = mem'[a][l]
  BY <1>6, <1>7, <1>8, <1>9 DEF RightWord
<1>10. ASSUME NEW l \in Lanes, NEW k \in 1 .. (i - g) - 1, Covers(rob', k, i - g, l)
       PROVE  rob'[k].op.kind = "store" /\ w[l] = rob'[k].op.data
  <2>1. Covers(rob, k + g, i, l)
    BY <1>3, <1>4, <1>10 DEF Covers
  <2> QED BY <1>4, <2>1 DEF RightWord
<1>11. ASSUME NEW l \in Lanes, \A k \in 1 .. (i - g) - 1 : ~Covers(rob', k, i - g, l)
       PROVE  w[l] = mem'[rob'[i - g].op.addr][l]
  <2>1. ASSUME NEW j \in 1 .. i - 1, j > g PROVE ~Covers(rob, j, i, l)
    <3>1. j - g \in 1 .. (i - g) - 1 /\ (j - g) + g = j
      BY <1>2, <2>1
    <3>2. rob'[j - g].op = rob[j].op
      BY <1>4, <3>1
    <3> QED BY <1>3, <1>11, <3>1, <3>2 DEF Covers
  <2>2. CASE g = 1 /\ Covers(rob, 1, i, l)
    <3>1. rob[1].op.kind = "store" /\ w[l] = rob[1].op.data
      <4>1. 1 \in 1 .. i - 1
        BY <1>2, <2>2
      <4> QED BY <2>2, <4>1 DEF RightWord
    <3>2. Retires(in) /\ StoreCommitAck(in)
      BY <2>2, <3>1, CommitRetires DEF Gone
    <3>3. StoreReqFires(in)
      BY <3>1, <3>2, MemoryStep
    <3> QED BY <1>3, <1>8, <2>2, <3>1, <3>3
  <2>3. CASE ~(g = 1 /\ Covers(rob, 1, i, l))
    <3>1. \A j \in 1 .. i - 1 : ~Covers(rob, j, i, l)
      BY <1>2, <2>1, <2>3
    <3>2. w[l] = mem[a][l]
      BY <3>1 DEF RightWord
    <3> QED BY <1>3, <1>9, <3>2
  <2> QED BY <2>2, <2>3
<1> QED BY <1>9, <1>10, <1>11 DEF RightWord

\* When the load looks the queue up, its older stores are just what is queued.
LEMMA OlderStoresQueued ==
  ASSUME TypeInv, WindowInv, StoreInv, LoadInv, paddr_v,
         NEW i \in Positions1, rob[i].op.id = load_buf.id
  PROVE  /\ \A j \in 1 .. i - 1 : rob[j].op.kind # "load" =>
              \E p \in Positions : /\ Q!element_vec[p].valid
                                   /\ Q!element_vec[p].bits = EntryOf(rob[j].op)
         /\ \A p \in Positions : Q!element_vec[p].valid =>
              \E j \in 1 .. i - 1 : /\ rob[j].op.kind # "load"
                                    /\ Q!element_vec[p].bits = EntryOf(rob[j].op)
<1>1. /\ ~store_d.valid /\ load_buf.id \in 1 .. issued
      /\ ex.valid => load_buf.id # ex.op.id
      /\ \A k \in 1 .. Len(WaitingStores) : WaitingStores[k].id < load_buf.id
  BY DEF LoadInv, paddr_v
<1>2. /\ Len(WaitingStores) = Q!Count /\ Q!Count \in 0 .. QSize /\ QSize \in Nat
      /\ \A k \in 1 .. Q!Count : WaitingStores[k] = Q!Contents[k]
  BY <1>1, WaitingFacts, LSUAssumption DEF WaitingAre
<1>3. \A p \in Positions : /\ Q!element_vec[p].valid <=> p < Q!Count
                           /\ p < Q!Count => Q!element_vec[p].bits = Q!Contents[p + 1]
  BY SameContents DEF TypeInv
<1>4. \A j \in Positions1 : rob[j].op.id \in 1 .. issued /\ rob[j].op.id \in Int
  BY DEF WindowInv
<1>5. issued \in Nat /\ (ex.valid => ex.op.id = issued)
  BY DEF TypeInv, WindowInv
<1>6. \A j, k \in Positions1 : j < k <=> rob[j].op.id < rob[k].op.id
  BY <1>4 DEF WindowInv, Positions1
<1>7. i \in Nat /\ \A j \in 1 .. i - 1 : j \in Positions1 /\ j < i
  BY DEF Positions1
<1>8. ASSUME NEW j \in 1 .. i - 1, rob[j].op.kind # "load"
      PROVE  \E p \in Positions : /\ Q!element_vec[p].valid
                                  /\ Q!element_vec[p].bits = EntryOf(rob[j].op)
  <2>1. rob[j].op.id < rob[i].op.id
    BY <1>6, <1>7
  <2>2. Accepted(rob[j].op)
    BY <1>1, <1>4, <1>5, <1>7, <1>8, <2>1 DEF Accepted
  <2>3. PICK k \in 1 .. Len(WaitingStores) : WaitingStores[k].id = rob[j].op.id
    BY <1>7, <2>2, AcceptedWaits
  <2>4. PICK n \in Positions1 : /\ WaitingStores[k] = EntryOf(rob[n].op)
                                /\ WaitingStores[k].id = rob[n].op.id
    BY WaitingInWindow
  <2>5. n = j
    BY <1>4, <1>6, <1>7, <2>3, <2>4 DEF Positions1
  <2>6. k - 1 \in Positions /\ k - 1 < Q!Count /\ (k - 1) + 1 = k
    BY <1>2 DEF Positions
  <2> QED BY <1>2, <1>3, <2>4, <2>5, <2>6
<1>9. ASSUME NEW p \in Positions, Q!element_vec[p].valid
      PROVE  \E j \in 1 .. i - 1 : /\ rob[j].op.kind # "load"
                                   /\ Q!element_vec[p].bits = EntryOf(rob[j].op)
  <2>1. p + 1 \in 1 .. Len(WaitingStores)
        /\ Q!element_vec[p].bits = WaitingStores[p + 1]
    BY <1>2, <1>3, <1>9 DEF Positions
  <2>2. PICK j \in Positions1 : /\ WaitingStores[p + 1] = EntryOf(rob[j].op)
                                /\ WaitingStores[p + 1].id = rob[j].op.id
                                /\ Accepted(rob[j].op)
    BY <2>1, WaitingInWindow
  <2>3. j < i
    BY <1>1, <1>6, <2>1, <2>2
  <2> QED BY <1>7, <2>1, <2>2, <2>3 DEF Accepted, Positions1
<1> QED BY <1>8, <1>9

\* So what it finds, when it is no more than one plain store, makes the right word.
LEMMA SearchRight ==
  ASSUME TypeInv, WindowInv, StoreInv, LoadInv, paddr_v,
         NEW i \in Positions1, rob[i].op.id = load_buf.id,
         Cardinality(stq_total_hits) <= 1,
         \A p \in stq_total_hits : ~Q!element_vec[p].bits.sc
  PROVE  RightWord(rob, mem, Laid(NextStqHit, mem[load_buf.addr]), i)
<1>1. rob[i].op.addr = load_buf.addr
  BY DEF LoadInv, paddr_v
<1>2. \A o : /\ EntryOf(o).addr = o.addr /\ EntryOf(o).lanes = o.lanes
             /\ EntryOf(o).data = o.data /\ (EntryOf(o).sc <=> o.kind = "sc")
  BY DEF EntryOf
<1>3. \A j \in 1 .. i - 1 : rob[j].op.kind \in Kinds
  <2>1. \A j \in Positions1 : rob[j] \in RobEntry
    BY ElementOfSeq DEF TypeInv, Positions1
  <2>2. \A j \in 1 .. i - 1 : j \in Positions1
    BY DEF Positions1
  <2> QED BY <2>1, <2>2 DEF RobEntry, Op
<1>4. ASSUME NEW j \in 1 .. i - 1, NEW l \in Lanes, Covers(rob, j, i, l)
      PROVE  \E p \in stq_total_hits : Q!element_vec[p].bits = EntryOf(rob[j].op)
  <2>1. rob[j].op.kind # "load" /\ rob[j].op.addr = load_buf.addr
    BY <1>1, <1>4 DEF Covers
  <2>2. PICK p \in Positions : Q!element_vec[p].valid /\ Q!element_vec[p].bits = EntryOf(rob[j].op)
    BY <2>1, OlderStoresQueued
  <2> QED BY <1>2, <2>1, <2>2 DEF stq_total_hits
<1>5. CASE stq_total_hits = {}
  <2>1. NextStqHit = NoHit
    BY <1>5 DEF NextStqHit
  <2>2. \A l \in Lanes : Laid(NextStqHit, mem[load_buf.addr])[l] = mem[load_buf.addr][l]
    BY <2>1 DEF Laid, NoHit
  <2>3. \A j \in 1 .. i - 1 : \A l \in Lanes : ~Covers(rob, j, i, l)
    BY <1>4, <1>5
  <2> QED BY <1>1, <2>2, <2>3 DEF RightWord
<1>6. CASE stq_total_hits # {}
  <2>1. IsFiniteSet(stq_total_hits)
    <3>1. IsFiniteSet(Positions) /\ stq_total_hits \in SUBSET Positions
      BY FS_Interval, LSUAssumption DEF Positions, stq_total_hits
    <3> QED BY <3>1, FS_Subset
  <2>2. Cardinality(stq_total_hits) \in Nat /\ Cardinality(stq_total_hits) # 0
    BY <1>6, <2>1, FS_CardinalityType, FS_EmptySet
  <2>3. PICK p : stq_total_hits = {p}
    <3>1. Cardinality(stq_total_hits) = 1
      BY <2>2
    <3> QED BY <2>1, <3>1, FS_Singleton
  <2>4. p \in Positions /\ Q!element_vec[p].valid /\ ~Q!element_vec[p].bits.sc
        /\ Q!element_vec[p].bits.addr = load_buf.addr
    BY <2>3 DEF stq_total_hits
  <2> DEFINE e == Q!element_vec[p].bits
  <2>5. NextStqHit = [hit |-> TRUE, item |-> e]
    <3>1. OHToUInt(stq_total_hits) = p
      BY <2>3, <2>4, HitPositions
    <3> QED BY <1>6, <3>1 DEF NextStqHit
  <2>6. \A l \in Lanes : Laid(NextStqHit, mem[load_buf.addr])[l] =
                           IF l \in e.lanes THEN e.data ELSE mem[load_buf.addr][l]
    BY <2>4, <2>5 DEF Laid, HitLanes
  <2>7. PICK n \in 1 .. i - 1 : rob[n].op.kind # "load" /\ e = EntryOf(rob[n].op)
    BY <2>4, OlderStoresQueued DEF e
  <2> HIDE DEF e
  <2>8. ASSUME NEW l \in Lanes, NEW j \in 1 .. i - 1, Covers(rob, j, i, l)
        PROVE  rob[j].op.kind = "store" /\ l \in e.lanes /\ e.data = rob[j].op.data
    <3>1. e = EntryOf(rob[j].op)
      BY <1>4, <2>3, <2>8 DEF e
    <3>2. rob[j].op.kind # "sc"
      BY <1>2, <2>4, <3>1 DEF e
    <3> QED BY <1>2, <1>3, <2>8, <3>1, <3>2 DEF Covers, Kinds
  <2>9. ASSUME NEW l \in Lanes, \A j \in 1 .. i - 1 : ~Covers(rob, j, i, l)
        PROVE  l \notin e.lanes
    <3>1. ~Covers(rob, n, i, l)
      BY <2>9
    <3>2. rob[n].op.addr = rob[i].op.addr
      BY <1>1, <1>2, <2>4, <2>7 DEF e
    <3> QED BY <1>2, <2>7, <3>1, <3>2 DEF Covers
  <2> QED BY <1>1, <2>6, <2>8, <2>9 DEF RightWord
<1> QED BY <1>5, <1>6

\* The word being laid out does not depend on when it is read: the store that
\* commits meanwhile is one whose bytes it has.
LEMMA LaidKept ==
  ASSUME TypeInv, WindowInv, StoreInv, NEW in, StepOf(in), ~in.flush,
         NEW i \in Positions1, i > Gone(in), NEW h,
         RightWord(rob, mem, Laid(h, mem[rob[i].op.addr]), i)
  PROVE  Laid(h, mem'[rob[i].op.addr]) = Laid(h, mem[rob[i].op.addr])
<1> DEFINE a == rob[i].op.addr
           w == Laid(h, mem[a])
<1>1. \A l \in Lanes : w[l] = mem[a][l] => w[l] = mem'[a][l]
  BY RightWordKept
<1>2. \A l \in Lanes : w[l] = IF h.hit /\ l \in HitLanes(h.item) THEN h.item.data ELSE mem[a][l]
  BY DEF Laid
<1>3. \A l \in Lanes : (IF h.hit /\ l \in HitLanes(h.item) THEN h.item.data ELSE mem'[a][l])
                       = IF h.hit /\ l \in HitLanes(h.item) THEN h.item.data ELSE mem[a][l]
  BY <1>1, <1>2
<1> HIDE DEF a
<1>4. Laid(h, mem'[a]) = Laid(h, mem[a])
  BY <1>3 DEF Laid
<1> QED BY <1>4 DEF a

\* The word the load in lReq would be given now, with what the search found.
LEMMA FoundRight ==
  ASSUME TypeInv, WindowInv, StoreInv, LoadInv, InProgress, NEW in, StepOf(in),
         lstate = "lReq", simple',
         NEW i \in Positions1, rob[i].op.id = load_buf.id
  PROVE  /\ rob[i].op.addr = load_buf.addr
         /\ RightWord(rob, mem, Laid(stq_hit', mem[load_buf.addr]), i)
<1>1. rob[i].op.addr = load_buf.addr
  BY DEF LoadInv
<1>2. stq_hit' = NextStqHit /\ GhostStep(in)
  BY DEF StepOf, Cycle, LSUClock
<1>3. CASE paddr_v
  <2>1. /\ Cardinality(stq_total_hits) <= 1
        /\ \A p \in stq_total_hits : ~Q!element_vec[p].bits.sc
    BY <1>2, <1>3 DEF GhostStep
  <2> QED BY <1>1, <1>2, <1>3, <2>1, SearchRight
<1>4. CASE ~paddr_v
  <2>1. stq_hit' = stq_hit /\ simple /\ lreq_r
    BY <1>2, <1>4 DEF GhostStep, NextStqHit, paddr_v
  <2> QED BY <1>1, <2>1 DEF InProgress
<1> QED BY <1>3, <1>4

\* An operation that is in the window after the cycle and was before.
LEMMA OldOperation ==
  ASSUME TypeInv, WindowInv, StoreInv, NEW in, StepOf(in),
         NEW i \in 1 .. Len(rob'), rob'[i].done \/ rob'[i].op.id \in 1 .. issued
  PROVE  /\ ~in.flush
         /\ \E j \in Positions1 : /\ j > Gone(in) /\ i = j - Gone(in)
                                  /\ rob'[i] = Mark(rob[j], in)
                                  /\ rob'[i].op = rob[j].op
                                  /\ rob[j] \in RobEntry
<1>1. ~in.flush
  <2>1. in.flush => rob' = <<>>
    BY DEF StepOf, NoIssue, IssueOp, Remaining
  <2> QED BY <2>1
<1>2. WindowMoves(in)
  BY <1>1, WindowMovesStep
<1>3. ~(ExIssued(in) /\ rob'[i] = Fresh(ex'.op) /\ rob'[i].op = ex'.op)
  BY DEF ExIssued, Fresh, TypeInv
<1>4. /\ i + Gone(in) \in Positions1 /\ rob'[i] = Mark(rob[i + Gone(in)], in)
      /\ rob'[i].op = rob[i + Gone(in)].op
  BY <1>2, <1>3 DEF WindowMoves
<1>5. i + Gone(in) > Gone(in) /\ i = (i + Gone(in)) - Gone(in)
  BY <1>2 DEF WindowMoves
<1>6. rob[i + Gone(in)] \in RobEntry
  BY <1>4, ElementOfSeq DEF TypeInv, Positions1
<1> QED BY <1>1, <1>4, <1>5, <1>6

LEMMA InProgressKept ==
  ASSUME TypeInv, WindowInv, StoreInv, LoadInv, InProgress, NEW in, StepOf(in)
  PROVE  InProgress'
<1> SUFFICES ASSUME NEW i \in 1 .. Len(rob'), lstate' # "lIdle",
                    rob'[i].op.id = load_buf'.id, simple'
             PROVE  /\ lstate' = "lReq" /\ lreq_r' =>
                         RightWord(rob', mem', Laid(stq_hit', mem'[load_buf'.addr]), i)
                    /\ lstate' = "lWait" => RightWord(rob', mem', Laid(stq_hit', dcache'.rdata), i)
                    /\ lstate' = "lWriteback" /\ load_buf'.exception = "none" =>
                         RightWord(rob', mem', load_buf'.rdata, i)
  BY DEF InProgress, Positions1, RightWord, Covers, Laid
<1>1. lreq_r' = (lstate = "lReq")
  BY LoadMoves
<1>2. CASE Accepts(in)
  BY <1>1, <1>2 DEF Accepts
<1>3. CASE Idles
  BY <1>3 DEF Idles
<1>4. CASE Faults
  BY <1>4 DEF Faults
<1>5. CASE Ends
  BY <1>5 DEF Ends
<1>6. CASE lstate # "lIdle" /\ SameLoad
  <2>1. rob'[i].op.id \in 1 .. issued /\ rob'[i].op.id = load_buf.id
    BY <1>6 DEF LoadInv, SameLoad
  <2>2. PICK j \in Positions1 : /\ j > Gone(in) /\ i = j - Gone(in)
                                /\ rob'[i] = Mark(rob[j], in) /\ rob'[i].op = rob[j].op
    BY <2>1, OldOperation
  <2>3. ~in.flush
    BY <2>1, OldOperation
  <2>4. rob[j].op.id = load_buf.id /\ load_buf'.addr = load_buf.addr
        /\ rob[j].op.addr = load_buf.addr
    BY <1>6, <2>1, <2>2 DEF LoadInv, SameLoad
  \* what is right before the cycle is right after it
  <2>5. ASSUME NEW w, RightWord(rob, mem, w, j) PROVE RightWord(rob', mem', w, i)
    BY <2>2, <2>3, <2>5, RightWordKept
  <2>6. ~paddr_v => stq_hit' = stq_hit /\ simple
    BY DEF StepOf, Cycle, GhostStep, LSUClock, NextStqHit
  <2>7. CASE lstate = "lReq"
    <3>1. RightWord(rob, mem, Laid(stq_hit', mem[load_buf.addr]), j)
      BY <2>4, <2>7, FoundRight
    <3>2. RightWord(rob', mem', Laid(stq_hit', mem[load_buf.addr]), i)
      BY <2>5, <3>1
    <3>3. CASE AwaitsPort
      <4>1. Laid(stq_hit', mem'[load_buf.addr]) = Laid(stq_hit', mem[load_buf.addr])
        BY <2>2, <2>3, <2>4, <3>1, LaidKept
      <4> QED BY <2>4, <3>2, <3>3, <4>1 DEF AwaitsPort
    <3>4. CASE TakesPort(in)
      <4>1. dcache'.rdata = mem[load_buf.addr]
        BY <3>4 DEF TakesPort, StepOf, Cycle, DcacheStep, LoadReqFires, LoadReqReady, StoreReqFires
      <4> QED BY <3>2, <3>4, <4>1 DEF TakesPort
    <3> QED BY <1>2, <1>3, <1>4, <1>5, <2>7, <3>3, <3>4, LoadMoves
            DEF AwaitsData, TakesData, AwaitsWb
  <2>8. CASE lstate = "lWait"
    <3>1. stq_hit' = stq_hit /\ simple
      BY <2>6, <2>8 DEF paddr_v
    <3>2. RightWord(rob', mem', Laid(stq_hit, dcache.rdata), i)
      BY <2>4, <2>5, <2>8, <3>1 DEF InProgress
    <3>3. CASE AwaitsData(in)
      <4>1. ~StoreReqFires(in) /\ ~LoadReqFires(in)
        BY <2>8, <3>3 DEF AwaitsData, StoreReqFires, LoadReqFires, LoadReqReady, LoadInv,
                          StepOf, Possible
      <4>2. dcache' = dcache
        BY <3>3, <4>1 DEF AwaitsData, StepOf, Cycle, DcacheStep
      <4> QED BY <3>1, <3>2, <3>3, <4>2 DEF AwaitsData
    <3>4. CASE TakesData(in)
      <4>1. load_buf'.rdata = Laid(stq_hit, dcache.rdata)
        BY <3>4 DEF TakesData, Laid, RealRdata, StepOf, InputFacts
      <4> QED BY <3>2, <3>4, <4>1 DEF TakesData
    <3> QED BY <1>2, <1>3, <1>4, <1>5, <2>8, <3>3, <3>4, LoadMoves
            DEF AwaitsPort, TakesPort, AwaitsWb
  <2>9. CASE lstate = "lWriteback"
    <3>1. AwaitsWb
      BY <2>9, LoadMoves
         DEF Accepts, Idles, Faults, AwaitsPort, TakesPort, AwaitsData, TakesData, Ends
    <3>2. simple
      BY <2>6, <2>9 DEF paddr_v
    <3> QED BY <2>4, <2>5, <2>9, <3>1, <3>2 DEF InProgress, AwaitsWb
  <2> QED BY <1>6, <2>7, <2>8, <2>9 DEF TypeInv, LStates
<1>7. Accepts(in) \/ Idles \/ Faults \/ Ends \/ (lstate # "lIdle" /\ SameLoad)
  BY LoadMoves DEF AwaitsPort, TakesPort, AwaitsData, TakesData, AwaitsWb, SameLoad
<1> QED BY <1>2, <1>3, <1>4, <1>5, <1>6, <1>7

LEMMA DoneRightKept ==
  ASSUME TypeInv, WindowInv, StoreInv, LoadInv, InProgress, DoneRight, NEW in, StepOf(in)
  PROVE  DoneRight'
<1> SUFFICES ASSUME NEW i \in 1 .. Len(rob'), rob'[i].op.kind = "load", rob'[i].done,
                    ~rob'[i].excp, rob'[i].simple
             PROVE  RightWord(rob', mem', rob'[i].result, i)
  BY DEF DoneRight, Positions1, RightWord, Covers
<1>1. PICK j \in Positions1 : /\ j > Gone(in) /\ i = j - Gone(in)
                              /\ rob'[i] = Mark(rob[j], in) /\ rob'[i].op = rob[j].op
                              /\ rob[j] \in RobEntry
  BY OldOperation
<1>2. ~in.flush
  BY OldOperation
<1>3. CASE ~(WbValid /\ rob[j].op.id = WbId)
  <2>1. rob'[i] = rob[j]
    BY <1>1, <1>3 DEF Mark
  <2>2. RightWord(rob, mem, rob'[i].result, j)
    BY <1>1, <2>1 DEF DoneRight
  <2> QED BY <1>1, <1>2, <2>2, RightWordKept
<1>4. CASE WbValid /\ rob[j].op.id = WbId
  <2>1. ~StoreWbValid /\ lstate = "lWriteback" /\ rob[j].op.id = load_buf.id
    BY <1>1, <1>4, WrittenBack
  <2>2. rob'[i] = [rob[j] EXCEPT !.done = TRUE, !.excp = WbExcp(in), !.simple = simple,
                                 !.result = load_buf.rdata]
    BY <1>1, <1>4, <2>1 DEF Mark
  <2>3. /\ rob'[i].excp = WbExcp(in) /\ rob'[i].simple = simple
        /\ rob'[i].result = load_buf.rdata
    BY <1>1, <2>2 DEF RobEntry
  <2>4. load_buf.exception = "none" /\ simple
    BY <2>1, <2>3 DEF WbExcp
  <2>5. RightWord(rob, mem, load_buf.rdata, j)
    BY <2>1, <2>4 DEF InProgress
  <2> QED BY <1>1, <1>2, <2>3, <2>5, RightWordKept
<1> QED BY <1>3, <1>4

-----------------------------------------------------------------------------
(* The theorems.                                                           *)

\* Nothing waits, nothing is in flight and memory is zero at first.
LEMMA InitIInv == Init => IInv
<1> SUFFICES ASSUME Init PROVE IInv
  OBVIOUS
<1>1. QP!QueueInv /\ Q!Count = 0
  <2>1. QP!Init
    BY DEF Init, LSUInit, Q!Init, QP!Init, Q!EmptySlot, QP!EmptySlot, Q!Slots, QP!Slots
  <2> QED BY <2>1, LSUAssumption, NoStoreType, QP!InitQueue, SameQueue
<1>2. /\ rob = <<>> /\ Len(rob) = 0 /\ ~store_d.valid /\ ~ex.valid /\ lstate = "lIdle"
  BY DEF Init, LSUInit, OtherUnit
<1>3. TypeInv
  <2>1. 0 \in Ids /\ 0 \in Values
    BY SystemAssumption
  <2>2. NoLoad \in [id: Ids, addr: Words, rdata: Word, exception: LoadExcps]
    BY LSUAssumption, WordTypes DEF NoLoad, LoadExcps
  <2>3. rob \in Seq(RobEntry) /\ Len(rob) <= MaxInFlight
    BY <1>2, EmptySeq, SystemAssumption, LSUAssumption
  <2>4. mem \in [Words -> Word]
    BY <2>1 DEF Init, Word
  <2>5. ex \in [valid: BOOLEAN, lsu: BOOLEAN, op: Op]
    <3>1. NoOp \in Op
      BY <2>1, LSUAssumption DEF NoOp, Op, Kinds
    <3> QED BY <3>1 DEF Init, OtherUnit
  <2>6. /\ lstate \in LStates /\ lreq_r \in BOOLEAN
        /\ load_buf \in [id: Ids, addr: Words, rdata: Word, exception: LoadExcps]
        /\ stq_hit \in [hit: BOOLEAN, item: StoreEntry]
        /\ store_d \in [valid: BOOLEAN, entry: StoreEntry]
    BY <2>2, NoStoreType DEF Init, LSUInit, NoHit, LStates
  <2>7. dcache \in [pending: BOOLEAN, wr: BOOLEAN, rdata: Word] /\ issued \in Nat
        /\ simple \in BOOLEAN
    BY WordTypes DEF Init, NoReq
  <2> QED BY <1>1, <2>3, <2>4, <2>5, <2>6, <2>7 DEF TypeInv
<1>4. Len(WaitingStores) = 0
  BY <1>1, <1>2, <1>3, WaitingFacts DEF WaitingAre
<1>5. WindowInv
  BY <1>2 DEF WindowInv, Positions1
<1>6. StoreInv
  BY <1>2, <1>4 DEF StoreInv, StoresInProgramOrder, AcceptedStores, Positions1
<1>7. LoadInv
  BY <1>2 DEF LoadInv, paddr_v
<1>8. DataInv
  BY <1>2 DEF DataInv, InProgress, DoneRight, MemoryIsArchitectural, Init, Positions1
<1> QED BY <1>3, <1>5, <1>6, <1>7, <1>8 DEF IInv

\* Every cycle keeps the invariant.
LEMMA StepKeeps == ASSUME IInv, NEW in, StepOf(in) PROVE IInv'
  BY TypeKept, WindowKept, StoreKept, LoadKept, InProgressKept, DoneRightKept, MemoryKept
     DEF IInv, DataInv

\* The inductive invariant of the unit between its neighbours.
THEOREM Invariant == ASSUME TlbBusy = {FALSE} PROVE Spec => []IInv
<1>1. Init => IInv
  BY InitIInv
<1>2. IInv /\ [Next]_vars => IInv'
  <2> SUFFICES ASSUME IInv, [Next]_vars PROVE IInv'
    OBVIOUS
  <2>1. CASE Next
    BY <2>1, NextIsStep, StepKeeps
  <2>2. CASE UNCHANGED vars
    <3> USE <2>2 DEF vars, lsuVars, envVars
    <3>1. UNCHANGED <<Q!Contents, WaitingStores, AcceptedStores, paddr_v>>
      BY DEF Q!Contents, Q!Count, Q!Dist, Q!element_vec, WaitingStores, AcceptedStores,
             Accepted, paddr_v
    <3>2. TypeInv'
      BY DEF IInv, TypeInv, QP!QueueInv, QP!TypeOK, QP!Contiguous, QP!Count, QP!Dist
    <3>3. WindowInv'
      BY DEF IInv, WindowInv, Positions1
    <3>4. StoreInv'
      BY <3>1 DEF IInv, StoreInv, StoresInProgramOrder, Positions1
    <3>5. LoadInv'
      BY <3>1 DEF IInv, LoadInv, Positions1
    <3>6. DataInv'
      <4>1. \A w, i : RightWord(rob, mem, w, i)' <=> RightWord(rob, mem, w, i)
        BY DEF RightWord, Covers
      <4> QED BY <4>1 DEF IInv, DataInv, InProgress, DoneRight, MemoryIsArchitectural,
                          Positions1, RightWord, Covers, Laid
    <3> QED BY <3>2, <3>3, <3>4, <3>5, <3>6 DEF IInv
  <2> QED BY <2>1, <2>2
<1> QED BY <1>1, <1>2, PTL DEF Spec

\* The unit holds the accepted stores that are not committed, each once and in
\* program order, whatever is flushed and when.
THEOREM StoresInProgramOrderHolds ==
  ASSUME TlbBusy = {FALSE} PROVE Spec => []StoresInProgramOrder
<1>1. IInv => StoresInProgramOrder
  BY DEF IInv, StoreInv
<1> QED BY <1>1, Invariant, PTL

\* Memory holds what the committed stores wrote, each once and in program order.
THEOREM MemoryIsArchitecturalHolds ==
  ASSUME TlbBusy = {FALSE} PROVE Spec => []MemoryIsArchitectural
<1>1. IInv => MemoryIsArchitectural
  BY DEF IInv, DataInv
<1> QED BY <1>1, Invariant, PTL

\* A load that matched at most one queued plain store commits the word that
\* program order says.
THEOREM SimpleLoadReadsProgramOrderHolds ==
  ASSUME TlbBusy = {FALSE} PROVE Spec => []SimpleLoadReadsProgramOrder
<1>1. IInv => SimpleLoadReadsProgramOrder
  <2> SUFFICES ASSUME IInv, Oldest.simple, OldestLoad
               PROVE  Oldest.result = arch_mem[Oldest.op.addr]
    BY DEF SimpleLoadReadsProgramOrder, LoadReadsProgramOrder
  <2>1. Oldest = rob[1] /\ 1 \in Positions1
    <3>1. rob # <<>>
      BY DEF OldestLoad, Oldest, Fresh
    <3>2. Len(rob) \in Nat \ {0}
      BY <3>1, EmptySeq DEF IInv, TypeInv
    <3> QED BY <3>1, <3>2 DEF Oldest, Positions1
  <2>2. RightWord(rob, mem, rob[1].result, 1)
    BY <2>1 DEF OldestLoad, IInv, DataInv, DoneRight
  <2>3. \A l \in Lanes : rob[1].result[l] = mem[rob[1].op.addr][l]
    BY <2>2 DEF RightWord
  <2>4. rob[1].result \in Word /\ mem[rob[1].op.addr] \in Word
    <3>1. rob[1] \in RobEntry
      BY <2>1, ElementOfSeq DEF IInv, TypeInv, Positions1
    <3> QED BY <3>1 DEF RobEntry, Op, IInv, TypeInv
  <2>5. rob[1].result = mem[rob[1].op.addr]
    BY <2>3, <2>4 DEF Word
  <2> QED BY <2>1, <2>5 DEF IInv, DataInv, MemoryIsArchitectural
<1> QED BY <1>1, Invariant, PTL

-----------------------------------------------------------------------------
(* The refinement of LSUControl.                                           *)

\* The unit as LSUControl sees it: the store of the previous cycle, the ids in
\* the queue, and the inputs.
IdOfStoreD == IF store_d.valid THEN <<store_d.entry.id>> ELSE <<>>
IdsOf(c)   == [k \in 1 .. Len(c) |-> c[k].id]
Ports(in)  == [valid |-> ex.valid, id |-> ex.op.id,
               kind |-> IF ex.op.kind = "load" THEN "load" ELSE "store",
               flush |-> in.flush, store_commit |-> in.store_commit,
               store_req |-> IF StoreReqValid(in) THEN TRUE ELSE FALSE,
               tlb_busy |-> FALSE,
               excp |-> IF in.load_excp # "none" THEN TRUE ELSE FALSE,
               req_ready |-> in.req_ready, resp |-> in.resp]

\* The fields of the ports.
LEMMA PortFields ==
  ASSUME NEW in
  PROVE  /\ Ports(in).valid = ex.valid /\ Ports(in).id = ex.op.id
         /\ Ports(in).kind = "load" <=> ex.op.kind = "load"
         /\ Ports(in).kind = "store" <=> ex.op.kind # "load"
         /\ Ports(in).flush = in.flush /\ Ports(in).store_commit = in.store_commit
         /\ Ports(in).store_req <=> StoreReqValid(in)
         /\ Ports(in).tlb_busy = FALSE
         /\ Ports(in).excp <=> in.load_excp # "none"
         /\ Ports(in).req_ready = in.req_ready /\ Ports(in).resp = in.resp
  BY DEF Ports

LEMMA PortsType ==
  ASSUME TypeInv, NEW in, InputFacts(in)
  PROVE  Ports(in) \in Control!Input
<1>1. ex.op.id \in Ids /\ ex.valid \in BOOLEAN
  BY DEF TypeInv, Op
<1> QED BY <1>1 DEF Ports, Control!Input, Control!Kinds, InputFacts

\* The ids of a sequence of entries lose and gain an element with it.
LEMMA IdsOfFacts ==
  ASSUME NEW c \in Seq(StoreEntry)
  PROVE  /\ IdsOf(c) \in Seq(Ids) /\ Len(IdsOf(c)) = Len(c)
         /\ \A k \in 1 .. Len(c) : IdsOf(c)[k] = c[k].id
         /\ c # <<>> => Tail(IdsOf(c)) = IdsOf(Tail(c)) /\ IdsOf(c) # <<>>
         /\ \A e \in StoreEntry : IdsOf(Append(c, e)) = IdsOf(c) \o <<e.id>>
<1>1. ASSUME NEW d \in Seq(StoreEntry)
      PROVE  /\ IdsOf(d) \in Seq(Ids) /\ Len(IdsOf(d)) = Len(d)
             /\ \A k \in 1 .. Len(d) : IdsOf(d)[k] = d[k].id
  <2>1. Len(d) \in Nat /\ \A k \in 1 .. Len(d) : d[k] \in StoreEntry
    BY LenProperties, ElementOfSeq
  <2>2. IdsOf(d) \in [1 .. Len(d) -> Ids]
    BY <2>1 DEF IdsOf, StoreEntry
  <2> QED BY <2>1, <2>2 DEF IdsOf
<1>2. ASSUME c # <<>> PROVE Tail(IdsOf(c)) = IdsOf(Tail(c)) /\ IdsOf(c) # <<>>
  <2>1. /\ Tail(c) \in Seq(StoreEntry) /\ Len(Tail(c)) = Len(c) - 1
        /\ \A k \in 1 .. Len(Tail(c)) : Tail(c)[k] = c[k + 1]
        /\ Len(c) \in Nat \ {0}
    BY <1>2, HeadTailProperties, EmptySeq
  <2>2. IdsOf(c) # <<>>
    BY <1>1, <2>1, EmptySeq
  <2>3. /\ Tail(IdsOf(c)) \in Seq(Ids) /\ Len(Tail(IdsOf(c))) = Len(c) - 1
        /\ \A k \in 1 .. Len(Tail(IdsOf(c))) : Tail(IdsOf(c))[k] = IdsOf(c)[k + 1]
    BY <1>1, <2>2, HeadTailProperties
  <2>4. \A k \in 1 .. Len(c) - 1 : Tail(IdsOf(c))[k] = IdsOf(Tail(c))[k]
    <3> SUFFICES ASSUME NEW k \in 1 .. Len(c) - 1
                 PROVE  Tail(IdsOf(c))[k] = IdsOf(Tail(c))[k]
      OBVIOUS
    <3>1. k \in 1 .. Len(Tail(c)) /\ k + 1 \in 1 .. Len(c)
      BY <2>1
    <3>2. IdsOf(Tail(c))[k] = c[k + 1].id
      BY <1>1, <2>1, <3>1
    <3>3. Tail(IdsOf(c))[k] = c[k + 1].id
      BY <1>1, <2>3, <3>1
    <3> QED BY <3>2, <3>3
  <2>5. IdsOf(Tail(c)) \in Seq(Ids) /\ Len(IdsOf(Tail(c))) = Len(c) - 1
    BY <1>1, <2>1
  <2>6. Tail(IdsOf(c)) = IdsOf(Tail(c))
    <3> DEFINE s == Tail(IdsOf(c))
               u == IdsOf(Tail(c))
    <3>1. s \in Seq(Ids) /\ u \in Seq(Ids) /\ Len(s) = Len(u)
      BY <2>3, <2>5
    <3>2. \A k \in 1 .. Len(s) : s[k] = u[k]
      BY <2>3, <2>4
    <3> HIDE DEF s, u
    <3>3. s = u
      BY <3>1, <3>2, SeqEqual
    <3> QED BY <3>3 DEF s, u
  <2> QED BY <2>2, <2>6
<1>3. ASSUME NEW e \in StoreEntry PROVE IdsOf(Append(c, e)) = IdsOf(c) \o <<e.id>>
  <2>1. e.id \in Ids /\ <<e.id>> \in Seq(Ids)
    BY DEF StoreEntry
  <2>2. /\ Append(c, e) \in Seq(StoreEntry) /\ Len(Append(c, e)) = Len(c) + 1
        /\ \A k \in 1 .. Len(c) : Append(c, e)[k] = c[k]
        /\ Append(c, e)[Len(c) + 1] = e
        /\ Len(c) \in Nat
    BY AppendProperties, LenProperties
  <2>3. IdsOf(c) \o <<e.id>> = Append(IdsOf(c), e.id)
    BY <1>1, <2>1, AppendIsConcat
  <2>4. /\ Append(IdsOf(c), e.id) \in Seq(Ids)
        /\ Len(Append(IdsOf(c), e.id)) = Len(c) + 1
        /\ \A k \in 1 .. Len(c) : Append(IdsOf(c), e.id)[k] = IdsOf(c)[k]
        /\ Append(IdsOf(c), e.id)[Len(c) + 1] = e.id
    BY <1>1, <2>1, AppendProperties
  <2>5. \A k \in 1 .. Len(c) + 1 : IdsOf(Append(c, e))[k] = Append(IdsOf(c), e.id)[k]
    <3>1. \A k \in 1 .. Len(c) + 1 : k \in 1 .. Len(c) \/ k = Len(c) + 1
      BY <2>2
    <3>2. \A k \in 1 .. Len(c) + 1 : IdsOf(Append(c, e))[k] = Append(c, e)[k].id
      BY <1>1, <2>2
    <3> QED BY <1>1, <2>2, <2>4, <3>1, <3>2
  <2>6. IdsOf(Append(c, e)) \in Seq(Ids) /\ Len(IdsOf(Append(c, e))) = Len(c) + 1
    BY <1>1, <2>2
  <2>7. IdsOf(Append(c, e)) = Append(IdsOf(c), e.id)
    <3> DEFINE s == IdsOf(Append(c, e))
               u == Append(IdsOf(c), e.id)
    <3>1. s \in Seq(Ids) /\ u \in Seq(Ids) /\ Len(s) = Len(u)
      BY <2>4, <2>6
    <3>2. \A k \in 1 .. Len(s) : s[k] = u[k]
      BY <2>5, <2>6
    <3> HIDE DEF s, u
    <3>3. s = u
      BY <3>1, <3>2, SeqEqual
    <3> QED BY <3>3 DEF s, u
  <2> QED BY <2>3, <2>7
<1> QED BY <1>1, <1>2, <1>3

\* Wires that agree give the same next state and the same buffered load.
LEMMA SameNextLstate ==
  ASSUME lstate \in LStates, NEW in, NEW P,
         Control!LoadAccepted(P) <=> LoadAccepted(in), Control!LoadExcp(P) <=> LoadExcp(in),
         Control!LoadReqReady(P) <=> LoadReqReady(in), Control!WbIsLoad <=> LoadWbFires,
         P.resp = in.resp
  PROVE Control!NextLstate(P) = NextLstate(in)
<1>1. LoadAccepted(in) => lstate = "lIdle"
  BY DEF LoadAccepted, LoadReady
<1>2. LoadExcp(in) => lstate = "lReq"
  BY DEF LoadExcp, paddr_v
<1>3. LoadWbFires => lstate = "lWriteback"
  BY DEF LoadWbFires, LoadWbValid
<1>4. CASE lstate = "lIdle"
  BY <1>1, <1>2, <1>3, <1>4 DEF Control!NextLstate, NextLstate
<1>5. CASE lstate = "lReq"
  BY <1>1, <1>2, <1>3, <1>5 DEF Control!NextLstate, NextLstate
<1>6. CASE lstate = "lWait"
  BY <1>1, <1>2, <1>3, <1>6 DEF Control!NextLstate, NextLstate
<1>7. CASE lstate = "lWriteback"
  BY <1>1, <1>2, <1>3, <1>7 DEF Control!NextLstate, NextLstate
<1> QED BY <1>4, <1>5, <1>6, <1>7 DEF LStates

LEMMA SameNextLoad ==
  ASSUME TypeInv, NEW in, NEW P,
         Control!LoadAccepted(P) <=> LoadAccepted(in), Control!LoadExcp(P) <=> LoadExcp(in),
         P.id = in.op.id, in.load_excp \in LoadExcps
  PROVE  /\ NextLoadBuf(in).id = IF Control!LoadAccepted(P) THEN P.id ELSE load_buf.id
         /\ (NextLoadBuf(in).exception # "none")
              = CASE Control!LoadAccepted(P) -> FALSE
                  [] Control!LoadExcp(P)     -> TRUE
                  [] OTHER                   -> load_buf.exception # "none"
<1>1. load_buf \in [id: Ids, addr: Words, rdata: Word, exception: LoadExcps]
  BY DEF TypeInv
<1>2. LoadAccepted(in) => lstate = "lIdle"
  BY DEF LoadAccepted, LoadReady
<1>3. LoadExcp(in) => lstate = "lReq" /\ in.load_excp # "none"
  BY DEF LoadExcp, paddr_v
<1>4. CASE LoadAccepted(in)
  BY <1>1, <1>2, <1>3, <1>4 DEF NextLoadBuf
<1>5. CASE LoadExcp(in)
  BY <1>1, <1>2, <1>3, <1>5 DEF NextLoadBuf
<1>6. CASE ~LoadAccepted(in) /\ ~LoadExcp(in)
  BY <1>1, <1>6 DEF NextLoadBuf
<1> QED BY <1>4, <1>5, <1>6

\* A cycle of the unit is one of LSUControl with the same ports.
LEMMA ControlClock ==
  ASSUME IInv, NEW in, StepOf(in), NEW P, P = Ports(in)
  PROVE  Control!Contract(P) /\ Control!Clock(P)
<1> DEFINE S == [k \in 1 .. Q!Count |-> Q!Contents[k].id]
<1>0. /\ P.valid = ex.valid /\ P.id = ex.op.id
      /\ P.kind = "load" <=> ex.op.kind = "load"
      /\ P.kind = "store" <=> ex.op.kind # "load"
      /\ P.flush = in.flush /\ P.store_commit = in.store_commit
      /\ P.store_req <=> StoreReqValid(in)
      /\ P.tlb_busy = FALSE
      /\ P.excp <=> in.load_excp # "none"
      /\ P.req_ready = in.req_ready /\ P.resp = in.resp
  BY PortFields
<1>1. /\ TypeInv /\ WindowInv /\ StoreInv /\ InputFacts(in) /\ LSUClock(in)
      /\ lstate' = NextLstate(in) /\ load_buf' = NextLoadBuf(in)
      /\ store_d' = NextStoreD(in)
  BY DEF IInv, StepOf, Cycle, LSUClock
<1>2. /\ Q!Contents \in Seq(StoreEntry) /\ Len(Q!Contents) = Q!Count
      /\ Q!Count \in Nat /\ Q!Count <= QSize /\ QSize \in Nat
      /\ Q!full <=> Q!Count = QSize
      /\ store_d.entry \in StoreEntry
  BY <1>1, SameContents, LSUAssumption DEF TypeInv
<1>3. S = IdsOf(Q!Contents) /\ Len(S) = Q!Count
  BY <1>2, IdsOfFacts DEF IdsOf
<1>4. S' = IdsOf(Q!Contents')
  <2>1. TypeInv' => WaitingAre'
    BY WaitingFacts, PTL
  <2>2. Len(Q!Contents') = Q!Count'
    BY <1>1, <2>1, TypeKept DEF WaitingAre
  <2> QED BY <2>2 DEF IdsOf
<1>5. Q!Contents' = NextContents(in)
  BY <1>1, QueueAfterStep
<1>6. StoreCommitAck(in) => Q!Contents # <<>>
  BY <1>1, <1>2, CommitRetires, CommitsFront
<1> HIDE DEF S
<1>7. Control!Contract(P)
  <2>1. in.store_commit => Q!Count # 0
    BY <1>1, CommitsFront DEF InputFacts
  <2>2. in.store_commit => S # <<>>
    BY <1>2, <1>3, <2>1
  <2> QED BY <2>2, <1>0 DEF Control!Contract, S
\* the wires
<1>8. /\ Control!LoadAccepted(P) <=> LoadAccepted(in)
      /\ Control!StoreAccepted(P) <=> StoreAccepted(in)
      /\ Control!LoadExcp(P) <=> LoadExcp(in)
      /\ Control!LoadReqReady(P) <=> LoadReqReady(in)
      /\ Control!StoreCommitAck(P) <=> StoreCommitAck(in)
      /\ Control!WbIsLoad <=> LoadWbFires
  <2>1. Control!InReady("load", FALSE) <=> lstate = "lIdle"
    BY DEF Control!InReady
  <2>2. Control!InReady("store", FALSE) <=> ~Q!full
    BY <1>2, <1>3 DEF Control!InReady, S
  <2>3. Control!LoadAccepted(P) <=> LoadAccepted(in)
    BY <1>1, <2>1, <1>0 DEF Control!LoadAccepted, LoadAccepted, LoadReady, InputFacts
  <2>4. Control!StoreAccepted(P) <=> StoreAccepted(in)
    BY <1>1, <2>2, <1>0 DEF Control!StoreAccepted, StoreAccepted, StoreReady, InputFacts
  <2>5. Control!LoadExcp(P) <=> LoadExcp(in)
    BY <1>0 DEF Control!LoadExcp, LoadExcp, paddr_v
  <2>6. Control!LoadReqReady(P) <=> LoadReqReady(in)
    BY <1>0 DEF Control!LoadReqReady, LoadReqReady
  <2>7. Control!StoreCommitAck(P) <=> StoreCommitAck(in)
    BY <1>0 DEF Control!StoreCommitAck, StoreCommitAck
  <2>8. Control!WbIsLoad <=> LoadWbFires
    BY DEF Control!WbIsLoad, LoadWbFires, LoadWbValid, StoreWbValid
  <2> QED BY <2>3, <2>4, <2>5, <2>6, <2>7, <2>8
<1>9. lstate' = Control!NextLstate(P)
  <2>1. lstate \in LStates /\ P.resp = in.resp
    BY <1>1, <1>0 DEF TypeInv
  <2>2. Control!NextLstate(P) = NextLstate(in)
    BY <1>8, <2>1, SameNextLstate
  <2> QED BY <1>1, <2>2
<1>10. /\ load_buf'.id = IF Control!LoadAccepted(P) THEN P.id ELSE load_buf.id
       /\ (load_buf'.exception # "none")
            = CASE Control!LoadAccepted(P) -> FALSE
                [] Control!LoadExcp(P)     -> TRUE
                [] OTHER                   -> load_buf.exception # "none"
  <2>1. P.id = in.op.id /\ in.load_excp \in LoadExcps
    BY <1>1, <1>0 DEF InputFacts
  <2>2. /\ NextLoadBuf(in).id = IF Control!LoadAccepted(P) THEN P.id ELSE load_buf.id
        /\ (NextLoadBuf(in).exception # "none")
             = CASE Control!LoadAccepted(P) -> FALSE
                 [] Control!LoadExcp(P)     -> TRUE
                 [] OTHER                   -> load_buf.exception # "none"
    BY <1>1, <1>8, <2>1, SameNextLoad
  <2> QED BY <1>1, <2>2
<1>11. IdOfStoreD' = IF Control!StoreAccepted(P) THEN <<P.id>> ELSE <<>>
  BY <1>1, <1>8, <1>0 DEF NextStoreD, IdOfStoreD, InputFacts
<1>12. S' = Control!NextStores(P)
  <2> DEFINE C == IF StoreCommitAck(in) THEN Tail(Q!Contents) ELSE Q!Contents
  <2>1. C \in Seq(StoreEntry)
    BY <1>2, <1>6, HeadTailProperties
  <2>2. IdsOf(C) = IF Control!StoreCommitAck(P) THEN Tail(S) ELSE S
    BY <1>2, <1>3, <1>6, <1>8, IdsOfFacts
  <2>3. S' = IF in.flush THEN IdsOf(<<>>)
             ELSE IF store_d.valid THEN IdsOf(Append(C, store_d.entry)) ELSE IdsOf(C)
    BY <1>4, <1>5 DEF NextContents
  <2>4. IdsOf(<<>>) = <<>>
    <3>1. <<>> \in Seq(StoreEntry) /\ Len(<<>>) = 0
      BY EmptySeq
    <3>2. IdsOf(<<>>) \in Seq(Ids) /\ Len(IdsOf(<<>>)) = 0
      BY <3>1, IdsOfFacts
    <3> QED BY <3>2, EmptySeq
  <2>5. store_d.valid => IdsOf(Append(C, store_d.entry)) = IdsOf(C) \o IdOfStoreD
    BY <1>2, <2>1, IdsOfFacts DEF IdOfStoreD
  <2>6. ~store_d.valid => IdsOf(C) = IdsOf(C) \o IdOfStoreD
    <3>1. IdsOf(C) \in Seq(Ids)
      BY <2>1, IdsOfFacts
    <3> QED BY <3>1, ConcatEmptySeq DEF IdOfStoreD
  <2> HIDE DEF C
  <2>7. S' = IF in.flush THEN <<>> ELSE IdsOf(C) \o IdOfStoreD
    BY <2>3, <2>4, <2>5, <2>6
  <2>8. S' = IF P.flush THEN <<>>
             ELSE (IF Control!StoreCommitAck(P) THEN Tail(S) ELSE S) \o IdOfStoreD
    BY <2>2, <2>7, <1>0
  <2> QED BY <2>8 DEF Control!NextStores, S, IdOfStoreD
<1>13. lreq_r' = (lstate = "lReq")
  BY <1>1 DEF LSUClock
<1>14. Control!Clock(P)
  BY <1>9, <1>10, <1>11, <1>12, <1>13 DEF Control!Clock, IdOfStoreD, S
<1> QED BY <1>7, <1>14

\* Seen from its ports, the unit behaves as LSUControl, which Backend uses in
\* its place.
THEOREM ImplementsControlHolds == ASSUME TlbBusy = {FALSE} PROVE Spec => ImplementsControl
<1>1. Init => Control!Init
  <2> SUFFICES ASSUME Init PROVE Control!Init
    OBVIOUS
  <2>1. /\ lstate = "lIdle" /\ lreq_r = FALSE /\ ~store_d.valid
        /\ load_buf.id \in Ids /\ load_buf.exception = "none"
    BY LSUAssumption DEF Init, LSUInit, NoLoad
  <2>2. Q!Count = 0
    <3>1. QP!Init
      BY DEF Init, LSUInit, Q!Init, QP!Init, Q!EmptySlot, QP!EmptySlot, Q!Slots, QP!Slots
    <3> QED BY <3>1, LSUAssumption, NoStoreType, QP!InitQueue, SameQueue
  <2>3. [k \in 1 .. Q!Count |-> Q!Contents[k].id] = <<>>
    BY <2>2
  <2> QED BY <2>1, <2>3 DEF Control!Init
<1>2. ASSUME IInv, Next PROVE Control!Next
  <2>1. PICK in : StepOf(in)
    BY <1>2, NextIsStep
  <2>2. PICK P : P = Ports(in)
    OBVIOUS
  <2>3. Control!Contract(P) /\ Control!Clock(P)
    BY <1>2, <2>1, <2>2, ControlClock
  <2>4. P \in Control!Input
    BY <1>2, <2>1, <2>2, PortsType DEF IInv, StepOf
  <2> QED BY <2>3, <2>4 DEF Control!Next
<1>3. ASSUME UNCHANGED vars PROVE UNCHANGED Control!lsuVars
  BY <1>3 DEF vars, lsuVars, Control!lsuVars, Q!Count, Q!Contents, Q!element_vec
<1>4. IInv /\ [Next]_vars => [Control!Next]_(Control!lsuVars)
  BY <1>2, <1>3
<1> QED BY <1>1, <1>4, Invariant, PTL DEF Spec, ImplementsControl, Control!Spec
=============================================================================
