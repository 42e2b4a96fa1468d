----------------------------- MODULE LSUSystem -----------------------------
(***************************************************************************)
(* The load/store unit between its neighbours, as far as memory is         *)
(* concerned: the operand register of the execution stage (Excute.scala)   *)
(* that offers one memory operation at a time in program order; the        *)
(* scoreboard, which commits in that order what was written back and now   *)
(* and then flushes everything (Scoreboard.scala, Issue.scala); and a data *)
(* cache (Cache.scala) that takes one request at a time and whose reads    *)
(* and writes take effect in the order it accepts them.                    *)
(*                                                                         *)
(* The ghost variable arch_mem is the memory of a processor that runs one  *)
(* instruction at a time.                                                  *)
(***************************************************************************)
EXTENDS LSU

CONSTANTS
  MaxOps,       \* bound: the operations the program issues in a behaviour
  MaxInFlight,  \* bound: the memory operations in flight (NR_ENTRIES - 1)
  OpKinds,      \* the kinds of operation the program issues
  Masks,        \* the lanes a plain store can write
  MaxFlushes,   \* bound: the flushes in a behaviour
  TlbBusy       \* the values the TLB stall takes

ASSUME SystemAssumption ==
  /\ Ids = 0 .. MaxOps /\ Values = Ids
  /\ MaxOps \in Nat /\ MaxFlushes \in Nat
  \* 7 instructions in flight at most, and 8 entries in the store queue
  /\ MaxInFlight \in 1 .. QSize
  /\ OpKinds \subseteq Kinds /\ Masks \subseteq SUBSET Lanes
  /\ TlbBusy \subseteq BOOLEAN /\ FALSE \in TlbBusy

VARIABLES
  ex,        \* fu_base_in and futype_r: the operation offered, or a bubble
  rob,       \* the memory operations in flight, oldest first
  blocked,   \* an instruction of another kind is older than the oldest of them
  issued,    \* how many were issued: the next one's id is issued + 1
  dcache,    \* the request the cache is working on, or NoReq
  mem,       \* what the cache and the memory behind it hold
  arch_mem,  \* ghost: the memory after the committed stores, in program order
  simple,    \* ghost: the load in progress matched at most one queued store,
             \* and not a store-conditional
  flushes    \* ghost: the flushes so far

envVars == <<ex, rob, blocked, issued, dcache, mem, arch_mem, simple, flushes>>
vars == <<lsuVars, envVars>>

NoOp  == [id |-> 0, kind |-> "load", addr |-> CHOOSE w \in Words : TRUE,
          lanes |-> {}, data |-> 0]
NoReq == [pending |-> FALSE, wr |-> FALSE, rdata |-> ZeroWord]

\* The operand register without an operation for the unit.  It has a type all
\* the same: that of another unit, or that of a load or a store which the
\* issue stage did not hand over.
OtherUnit == [valid |-> FALSE, lsu |-> FALSE, op |-> NoOp]
Bubbles   == {OtherUnit} \cup
             { [valid |-> FALSE, lsu |-> TRUE, op |-> [NoOp EXCEPT !.kind = k]] :
                 k \in {"load", "store"} }

\* The operations the program can issue next.  A store's data is its own id,
\* so that a loaded byte names the store it came from.
NextOps ==
  LET id == issued + 1
      load(w) == [id |-> id, kind |-> "load", addr |-> w, lanes |-> Lanes, data |-> 0]
      store(k, w, ls) == [id |-> id, kind |-> k, addr |-> w, lanes |-> ls, data |-> id]
      ops == { load(w) : w \in Words }
             \cup { store("store", w, ls) : w \in Words, ls \in Masks }
             \cup { store("sc", w, Lanes) : w \in Words }
  IN  { o \in ops : o.kind \in OpKinds }

Write(m, e) == [m EXCEPT ![e.addr] = [l \in Lanes |-> IF l \in e.lanes THEN e.data ELSE @[l]]]

\* The window's entry of an operation that was just issued; its result is a
\* word for a load.
Fresh(o) == [op |-> o, done |-> FALSE, excp |-> FALSE, result |-> ZeroWord, simple |-> TRUE]

\* The oldest operation in flight.
Oldest == IF rob = <<>> THEN Fresh(NoOp) ELSE rob[1]

\* commit_inst.valid for a store that raised no exception.
CommitsStore == ~blocked /\ Oldest.done /\ ~Oldest.excp /\ Oldest.op.kind # "load"

\* The inputs of a cycle.  The cache takes a request when it has none, or in
\* the cycle it answers one; it answers no earlier than the next cycle.
CycleInputs ==
  { in \in [valid: {ex.valid}, op: {ex.op}, flush: BOOLEAN,
            store_commit: IF CommitsStore THEN BOOLEAN ELSE {FALSE},
            llbit: IF CommitsStore /\ Q!front_data.sc THEN BOOLEAN ELSE {TRUE},
            tlb_busy: TlbBusy,
            load_excp: IF paddr_v THEN LoadExcps ELSE {"none"},
            store_excp: IF store_d.valid THEN BOOLEAN ELSE {FALSE},
            req_ready: BOOLEAN,
            resp: IF dcache.pending THEN BOOLEAN ELSE {FALSE},
            rdata: {dcache.rdata}] :
      /\ in.store_commit <=> CommitsStore /\ ~in.flush
      /\ in.flush \/ in.load_excp # "none" \/ in.store_excp => flushes < MaxFlushes }

Possible(in) ==
  /\ in.req_ready /\ dcache.pending => in.resp
  \* An operation that raised an exception leaves the window by a flush.
  /\ ~blocked /\ Oldest.done /\ Oldest.excp => in.flush

-----------------------------------------------------------------------------
(* The neighbours' registers after a cycle.                                *)

Retires(in) == /\ ~blocked /\ Oldest.done /\ ~in.flush
               /\ CommitsStore => StoreCommitAck(in)

\* Instructions of other kinds stand between the memory operations and commit
\* in their turn.  It matters once the oldest of these is done.
BlockedStep(in) ==
  blocked' \in CASE rob' = <<>> \/ ~rob'[1].done           -> {TRUE}
                 [] rob' # <<>> /\ rob'[1].done
                    /\ (blocked \/ Retires(in))            -> BOOLEAN
                 [] OTHER                                   -> {FALSE}

\* What is written back is marked in the window, if it is still there.
MarkDone(r, in) ==
  [ i \in 1 .. Len(r) |->
      IF WbValid /\ r[i].op.id = WbId
      THEN [r[i] EXCEPT !.done = TRUE, !.excp = WbExcp(in), !.simple = simple,
                        !.result = IF StoreWbValid THEN ZeroWord ELSE load_buf.rdata]
      ELSE r[i] ]

\* The window after write-back and retirement.
Remaining(in) ==
  IF in.flush THEN <<>>
  ELSE IF Retires(in) THEN Tail(MarkDone(rob, in)) ELSE MarkDone(rob, in)

\* The operand register loads the issued operation, or a bubble, when the unit
\* of what it holds is ready.  It is not cleared by a flush.
ExReady(in) == ex.lsu => InReady(in)

IssueOp(o, in) ==
  /\ ExReady(in) /\ ~in.flush
  /\ issued < MaxOps /\ Len(rob) < MaxInFlight
  /\ ex' = [valid |-> TRUE, lsu |-> TRUE, op |-> o]
  /\ issued' = issued + 1
  /\ rob' = Append(Remaining(in), Fresh(o))
NoIssue(in) ==
  /\ ex' \in IF ExReady(in) THEN Bubbles ELSE {ex}
  /\ UNCHANGED issued
  /\ rob' = Remaining(in)

DcacheStep(in) ==
  /\ dcache' = CASE StoreReqFires(in) -> [pending |-> TRUE, wr |-> TRUE, rdata |-> ZeroWord]
                 [] LoadReqFires(in)  -> [pending |-> TRUE, wr |-> FALSE,
                                          rdata |-> mem[load_buf.addr]]
                 [] OTHER -> IF in.resp THEN NoReq ELSE dcache
  /\ mem' = IF StoreReqFires(in) THEN Write(mem, Q!front_data) ELSE mem

GhostStep(in) ==
  /\ arch_mem' = IF StoreCommitAck(in) /\ (Oldest.op.kind = "sc" => in.llbit)
                 THEN Write(arch_mem, Oldest.op) ELSE arch_mem
  /\ simple' = IF ~paddr_v THEN simple
               ELSE /\ Cardinality(stq_total_hits) <= 1
                    /\ \A i \in stq_total_hits : ~Q!element_vec[i].bits.sc
  /\ flushes' = IF in.flush THEN flushes + 1 ELSE flushes

Cycle(in) == LSUClock(in) /\ DcacheStep(in) /\ GhostStep(in)

Init ==
  /\ LSUInit
  /\ ex = OtherUnit /\ rob = <<>> /\ blocked = TRUE /\ issued = 0
  /\ dcache = NoReq
  /\ mem = [w \in Words |-> [l \in Lanes |-> 0]] /\ arch_mem = mem
  /\ simple = TRUE /\ flushes = 0

\* A cycle in which the scoreboard flushes, in which nothing is issued, and in
\* which the next operation of the program is.
Flush(in) == in.flush /\ Cycle(in) /\ NoIssue(in) /\ BlockedStep(in)
Step(in)  == ~in.flush /\ Cycle(in) /\ NoIssue(in) /\ BlockedStep(in)
Issue(in) == Cycle(in) /\ (\E o \in NextOps : IssueOp(o, in)) /\ BlockedStep(in)

Next == \E in \in CycleInputs :
          /\ Possible(in)
          /\ Flush(in) \/ Step(in) \/ Issue(in)

Spec == Init /\ [][Next]_vars

\* The clock does not stop, the cache takes and answers requests (MkCache
\* leaves every state but sIdle and sLookup as soon as the bus lets it), the
\* TLB stall ends with the commit of the instruction behind it, and an
\* exception is taken when its instruction is the oldest.
Served(in) == /\ dcache.pending => in.resp
              /\ in.req_ready /\ ~in.tlb_busy
              /\ in.flush <=> (~blocked /\ Oldest.done /\ Oldest.excp)
              /\ rob' # <<>> /\ rob'[1].done => ~blocked'

FairSpec == /\ Spec
            /\ WF_vars(\E in \in CycleInputs :
                         Possible(in) /\ (Step(in) \/ Flush(in)) /\ Served(in))

-----------------------------------------------------------------------------
(* Correctness.                                                            *)

\* The stores that wait in the unit, oldest first.
WaitingStores == Q!Contents \o (IF store_d.valid THEN <<store_d.entry>> ELSE <<>>)

\* The stores in flight that the unit has accepted.
Accepted(o) == o.kind # "load" /\ ~(ex.valid /\ ex.op.id = o.id)
AcceptedStores == { rob[i].op.id : i \in { j \in 1 .. Len(rob) : Accepted(rob[j].op) } }

\* The unit holds exactly the uncommitted stores, in program order, which is
\* that of the ids: none is lost between acceptance and commit, none is there
\* twice, and none outlives a flush.
StoresInProgramOrder ==
  /\ { WaitingStores[k].id : k \in 1 .. Len(WaitingStores) } = AcceptedStores
  /\ \A j, k \in 1 .. Len(WaitingStores) : j < k => WaitingStores[j].id < WaitingStores[k].id

\* What the cache and memory hold is what the committed stores wrote, each
\* once and in program order; a failed store-conditional writes nothing.
MemoryIsArchitectural == mem = arch_mem

\* A load commits the word that program order says.
OldestLoad == ~blocked /\ Oldest.op.kind = "load" /\ Oldest.done /\ ~Oldest.excp
LoadReadsProgramOrder == OldestLoad => Oldest.result = arch_mem[Oldest.op.addr]

\* It does when at most one queued store was to the load's word at the time of
\* the search, and that store was not a store-conditional.
SimpleLoadReadsProgramOrder == Oldest.simple => LoadReadsProgramOrder

\* Seen from its ports, the unit is LSUControl.
Control == INSTANCE LSUControl WITH
  load_id   <- load_buf.id,
  load_excp <- load_buf.exception # "none",
  store_d   <- IF store_d.valid THEN <<store_d.entry.id>> ELSE <<>>,
  stores    <- [k \in 1 .. Q!Count |-> Q!Contents[k].id]
ImplementsControl == Control!Spec

\* Every operation that was issued leaves the window: neither the store
\* priority at the two arbiters nor a flush strands a load in the unit.
InWindow(n) == \E i \in 1 .. Len(rob) : rob[i].op.id = n
EveryOpLeaves == \A n \in 1 .. MaxOps : InWindow(n) ~> ~InWindow(n)

=============================================================================
