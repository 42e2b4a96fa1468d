------------------------------ MODULE Backend ------------------------------
(***************************************************************************)
(* The back end of Top.scala: the scoreboard and commit logic of the issue *)
(* stage (issue/Issue.scala), the operand register and the units of the    *)
(* execution stage (backend/Excute.scala, FakeMultiplier.scala, MiscFu,    *)
(* CSRBuffer.scala), and the load/store unit, wired as Top wires them.  A  *)
(* step is one clock cycle.  Results and operands are left out: this       *)
(* module is about which instruction is where, and about what a flush      *)
(* leaves behind in the units, none of which holds a valid bit that the    *)
(* flush clears.                                                           *)
(*                                                                         *)
(* The ghost "live" says of each unit whether what it holds is still in    *)
(* flight: a flush makes it false, and only the model can see it.  The     *)
(* ghost "stranded" says that a flush has left a CSR instruction or a      *)
(* memory access waiting in the operand register, from where it enters its *)
(* unit as if it were in flight.                                           *)
(***************************************************************************)
EXTENDS Integers, FiniteSets, Sequences

CONSTANTS
  NR_ENTRIES,     \* the slots of the scoreboard
  Insts,          \* the instructions of the programs
  FrontendExcps,  \* whether the fetch of an instruction can fault
  AccessExcps,    \* whether a memory access can fault
  Interrupts,     \* the values of the interrupt line
  LineHeld        \* the interrupt line stays up until the interrupt is taken

ASSUME BackendAssumption ==
  /\ NR_ENTRIES \in Nat /\ NR_ENTRIES >= 2
  /\ FALSE \in FrontendExcps \cap AccessExcps \cap Interrupts
  /\ FrontendExcps \cup AccessExcps \cup Interrupts \cup {LineHeld} \subseteq BOOLEAN

VARIABLES
  sb_mem, commit_ptr, issue_ptr, issued_cnt, int_flag_r,   \* Scoreboard
  ex,         \* fu_base_in and futype_r: the operand register
  mul,        \* FakeMultiplier: result_valid (ready_r is its negation) and id
  csr,        \* CSRBuffer: the pending write ("none", "write" or "tlbwr") and its id
  tlbsrch_ongoing,   \* the next commit writes what the search of the TLB found
  lstate, lreq_r, load_id, load_excp, store_d, stores,     \* LSUControl
  dcache,     \* the data cache works on a request
  refill,     \* cycles before the decoder can offer an instruction again
  int_line,   \* the interrupt line (csr.io.int_flag)
  live,       \* ghost: what each unit holds is still in flight
  stranded    \* ghost: a flush passed an access or CSR instruction that waited

sbVars == <<sb_mem, commit_ptr, issue_ptr, issued_cnt, int_flag_r>>
vars == <<sbVars, ex, mul, csr, tlbsrch_ongoing, lstate, lreq_r, load_id, load_excp, store_d,
          stores, dcache, refill, int_line, live, stranded>>

Slots  == 0 .. NR_ENTRIES - 1
NoSlot == -1
Units  == {"ex", "mul", "csr", "search", "load", "store_d"}

\* A valid instruction of a type is in the operand register, and its unit sees
\* it: one that carries an exception of the fetch bypasses the units.
UnitValid(ft) == ex.valid /\ ~ex.excp /\ ex.inst.futype = ft

BruSlot == IF UnitValid("bru") THEN ex.id ELSE NoSlot

SB == INSTANCE Scoreboard WITH Regs <- {0, 1}, Values <- {0}, Inputs <- {},
                               bru_slot <- BruSlot
L  == INSTANCE LSUControl WITH Ids <- Slots, QSize <- NR_ENTRIES

ASSUME InstsAssumption == Insts # {} /\ Insts \subseteq SB!DecodedInst

\* The inputs of a cycle: what the decoder offers (the instruction's type
\* reaches the operand register even when it is not valid), whether a branch
\* was mispredicted, the link bit, and the data cache's side.
RawInputs ==
  [dec_valid: IF refill = 0 THEN BOOLEAN ELSE {FALSE},
   inst: Insts, frontend_excp: FrontendExcps,
   mispred: IF UnitValid("bru") THEN BOOLEAN ELSE {FALSE},
   llbit: IF \E i \in Insts : SB!IsSc(i) THEN BOOLEAN ELSE {TRUE},
   access_excp: IF (lstate = "lReq" /\ ~lreq_r) \/ store_d # <<>>
                THEN AccessExcps ELSE {FALSE},
   req_ready: IF \E i \in Insts : i.futype = "lsu" THEN BOOLEAN ELSE {TRUE},
   resp: IF dcache THEN BOOLEAN ELSE {FALSE}]

-----------------------------------------------------------------------------
(* Commit (Issue.scala).                                                   *)

oldest == sb_mem[commit_ptr]

IsStore(inst) == inst.futype = "lsu" /\ inst.op \in {"store", "sc"}
IsIdle(inst)  == inst.futype = "misc" /\ inst.op = "idle"
IsCsr(inst)   == inst.futype = "csr"

\* Mutant: a commit has its effects although an interrupt is on the line.
HasEffect_interrupt == SB!commit_valid /\ ~oldest.exception

\* The effects of a commit wait for no exception and no interrupt on the line;
\* they do not look at the interrupt the scoreboard has latched.
HasEffect == SB!commit_valid /\ ~oldest.exception /\ ~int_line
StoreCommit == HasEffect /\ IsStore(oldest.inst)
CsrCommit   == HasEffect /\ IsCsr(oldest.inst)
ErtnCommit  == HasEffect /\ SB!IsErtn(oldest.inst)

CommitReady(in) ==
  CASE IsIdle(oldest.inst) /\ ~oldest.exception -> int_line
    [] IsStore(oldest.inst)                     -> in.req_ready
    [] OTHER                                    -> TRUE

-----------------------------------------------------------------------------
(* Execution (Excute.scala).                                               *)

csr_busy == csr.pending # "none"
tlb_busy == csr.pending = "tlbwr"

LsuKind(inst) == IF inst.op \in {"store", "sc"} THEN "store" ELSE "load"

\* io.in.ready of the unit that futype_r selects, also when the operand
\* register holds no valid instruction.
ExReady == CASE ex.inst.futype = "mul" -> ~mul.valid
             [] ex.inst.futype = "lsu" -> L!InReady(LsuKind(ex.inst), tlb_busy)
             [] ex.inst.futype = "csr" -> ~csr_busy \/ CsrCommit
             [] OTHER                  -> TRUE

\* One fixed-latency result leaves per cycle; the multiplier comes last.
FetchFault == ex.valid /\ ex.excp

\* Mutant: the multiplier answers for what it is only about to take.
OtherFlu_mul == \E ft \in {"bru", "alu", "misc", "csr", "mul"} : UnitValid(ft)

OtherFlu == \E ft \in {"bru", "alu", "misc", "csr"} : UnitValid(ft)
MulOut == mul.valid /\ ~FetchFault /\ ~OtherFlu

FluValid == FetchFault \/ OtherFlu \/ MulOut
FluId    == IF MulOut THEN mul.id ELSE ex.id

FluOut(in) ==
  [valid     |-> FluValid,
   id        |-> FluId,
   exception |-> ~MulOut /\ (FetchFault \/ ex.inst.op = "syscall"),
   mispred   |-> UnitValid("bru") /\ in.mispred,
   result    |-> 0]
LsuOut(in) ==
  [valid     |-> L!WbValid,
   id        |-> IF L!WbValid THEN L!WbId ELSE 0,
   exception |-> IF L!WbIsLoad THEN load_excp ELSE in.access_excp,
   mispred   |-> FALSE,
   result    |-> 0]

\* What the scoreboard sees.  IDU.scala withdraws its offer in a flush cycle.
SbInputWith(in, dv) ==
  [dec_valid |-> dv, inst |-> in.inst, frontend_excp |-> in.frontend_excp,
   operands_rdy |-> TRUE, issue_ready |-> ExReady, commit_ready |-> CommitReady(in),
   int_flag |-> int_line, llbit |-> in.llbit,
   wb |-> [p \in {0, 1} |-> IF p = 0 THEN FluOut(in) ELSE LsuOut(in)]]

Flush(in)  == SB!Flush(SbInputWith(in, FALSE))
Mispred(in) == UnitValid("bru") /\ in.mispred
SbInput(in) == SbInputWith(in, in.dec_valid /\ ~Flush(in) /\ ~Mispred(in))

LsuInput(in) ==
  [valid |-> UnitValid("lsu"), id |-> ex.id, kind |-> LsuKind(ex.inst),
   flush |-> Flush(in), store_commit |-> StoreCommit,
   store_req |-> StoreCommit /\ (SB!IsSc(oldest.inst) => in.llbit),
   tlb_busy |-> tlb_busy, excp |-> in.access_excp,
   req_ready |-> in.req_ready, resp |-> in.resp]

\* The cache takes a request when it has none or answers one in the same cycle.
Possible(in) == in.req_ready /\ dcache => in.resp

\* The wires of a cycle, for every input it can have.
CycleInputs ==
  { [sb |-> SbInput(in), lsu |-> LsuInput(in), flush |-> Flush(in), mispred |-> Mispred(in),
     commit_ack |-> SB!CommitAck(SbInput(in))] :
       in \in {r \in RawInputs : Possible(r)} }

-----------------------------------------------------------------------------
(* The registers after a cycle.                                            *)

CsrAccepted == UnitValid("csr") /\ (~csr_busy \/ CsrCommit)
MulAccepted == UnitValid("mul") /\ ~mul.valid

\* The operand register takes what the issue stage hands over, valid or not,
\* when the unit of what it holds is ready.
ExStep(in) ==
  ex' = IF ExReady
        THEN [valid |-> SB!IssueAck(in.sb),
              id |-> issue_ptr, inst |-> in.sb.inst, excp |-> in.sb.frontend_excp]
        ELSE ex

\* What an idle unit's registers still hold is not looked at again.
IdleMul == [valid |-> FALSE, id |-> 0]
IdleCsr == [pending |-> "none", id |-> 0]

\* Mutant: a result that finds the port taken is dropped.
MulStep_lost(in) ==
  mul' = IF MulAccepted /\ ~in.flush THEN [valid |-> TRUE, id |-> ex.id] ELSE IdleMul

MulStep(in) ==
  mul' = CASE in.flush                 -> IdleMul
           [] ~in.flush /\ MulAccepted -> [valid |-> TRUE, id |-> ex.id]
           [] OTHER                     -> IF MulOut THEN IdleMul ELSE mul

\* What the instruction in the operand register will write.  A search of the
\* TLB writes the register TLBIDX; a read is not remembered at all.
Write == CASE ex.inst.op = "csrrd" -> IdleCsr
           [] ex.inst.op = "tlbwr" -> [pending |-> "tlbwr", id |-> ex.id]
           [] OTHER                -> [pending |-> "write", id |-> ex.id]

\* Mutant: a flush does not drop the pending write.
CsrStep_flush(in) ==
  csr' = IF CsrAccepted THEN Write ELSE IF CsrCommit THEN IdleCsr ELSE csr

\* Whoever commits, the buffer makes the write it holds.
CsrStep(in) ==
  csr' = CASE in.flush                 -> IdleCsr
           [] ~in.flush /\ CsrAccepted -> Write
           [] OTHER                     -> IF CsrCommit THEN IdleCsr ELSE csr

\* A flush neither clears this mark nor keeps it from being set, and it does
\* not make the buffer busy.
SearchAccepted == CsrAccepted /\ ex.inst.op = "tlbsrch"
SearchStep(in) ==
  tlbsrch_ongoing' = IF ~tlbsrch_ongoing \/ CsrCommit THEN SearchAccepted ELSE TRUE

\* The data cache takes the committing store's request or the load's.
DcacheStep(in) ==
  dcache' = \/ in.lsu.req_ready /\ (in.lsu.store_req \/ lstate = "lReq")
            \/ dcache /\ ~in.lsu.resp

\* After a redirection the fetch takes two cycles to fill the decoder.
RefillStep(in) ==
  refill' = IF in.flush \/ in.mispred THEN 2 ELSE IF refill > 0 THEN refill - 1 ELSE 0

IntLineStep(in) ==
  int_line' \in IF int_line /\ in.commit_ack THEN {FALSE}
                ELSE IF int_line /\ LineHeld THEN {TRUE} ELSE Interrupts

LiveStep(in) ==
  LET kept(u) == live[u] /\ ~in.flush
  IN  live' = [u \in Units |->
        CASE u = "ex" /\ ExReady                             -> TRUE
          [] u = "mul" /\ MulAccepted                        -> kept("ex")
          [] u = "csr" /\ CsrAccepted                        -> kept("ex")
          [] u = "search" /\ SearchAccepted                  -> kept("ex")
          [] u = "load" /\ L!LoadAccepted(in.lsu)      -> kept("ex")
          [] u = "store_d" /\ L!StoreAccepted(in.lsu)  -> kept("ex")
          [] OTHER                                           -> kept(u)]

\* The operand register is not cleared by a flush.  (A multiplication that
\* waits there is computed and forgotten before issue goes on.)
StrandedStep(in) ==
  stranded' = \/ stranded
              \/ in.flush /\ ~ExReady /\ (UnitValid("csr") \/ UnitValid("lsu"))

Init ==
  /\ ex = [valid |-> FALSE, id |-> 0, inst |-> SB!InitInst, excp |-> FALSE]
  /\ SB!Init
  /\ mul = IdleMul /\ csr = IdleCsr /\ tlbsrch_ongoing = FALSE
  /\ load_id = 0 /\ L!Init
  /\ dcache = FALSE /\ refill = 0 /\ int_line = FALSE
  /\ live = [u \in Units |-> TRUE] /\ stranded = FALSE

Clock(in) ==
  /\ SB!Clock(in.sb)
  /\ L!Clock(in.lsu)
  /\ ExStep(in) /\ MulStep(in) /\ CsrStep(in) /\ SearchStep(in) /\ DcacheStep(in)
  /\ RefillStep(in) /\ IntLineStep(in) /\ LiveStep(in) /\ StrandedStep(in)

\* A cycle without a redirection, one in which a branch was mispredicted, and
\* one in which the oldest instruction flushes the back end.
Run(in)      == ~in.flush /\ ~in.mispred /\ Clock(in)
Redirect(in) == ~in.flush /\ in.mispred /\ Clock(in)
FlushAll(in) == in.flush /\ Clock(in)

Next == \E in \in CycleInputs : Run(in) \/ Redirect(in) \/ FlushAll(in)

Spec == Init /\ [][Next]_vars

\* The clock does not stop, the fetch delivers, and the cache takes and answers
\* requests.
Served(in) == /\ dcache => in.lsu.resp
              /\ in.lsu.req_ready
              /\ refill = 0 /\ ~in.flush /\ ~in.mispred => in.sb.dec_valid
FairSpec == /\ Spec
            /\ WF_vars(\E in \in CycleInputs : Served(in) /\ Clock(in))

-----------------------------------------------------------------------------
(* Correctness.                                                            *)

\* A result reaches only the slot of the instruction that produced it, as long
\* as nothing was stranded: what an instruction that was flushed still computes
\* never meets a slot that was given to a later one, and a product is never
\* written twice.
FluSource == IF MulOut THEN "mul" ELSE "ex"
FluType   == IF MulOut THEN "mul" ELSE ex.inst.futype
LsuSource == IF store_d # <<>> THEN "store_d" ELSE "load"
ResultsReachTheirOwners ==
  ~stranded =>
    /\ FluValid /\ sb_mem[FluId].valid =>
         /\ live[FluSource] /\ sb_mem[FluId].inst.futype = FluType
         /\ MulOut => ~sb_mem[FluId].executed
    /\ L!WbValid /\ sb_mem[L!WbId].valid =>
         live[LsuSource] /\ sb_mem[L!WbId].inst.futype = "lsu"

\* A slot that is free is not marked executed.  Issue does not clear the mark,
\* so an instruction given such a slot would commit before it ran.
FreeSlotsAreNotExecuted ==
  ~stranded => \A i \in Slots : ~sb_mem[i].valid => ~sb_mem[i].executed

\* The load/store unit holds the stores in flight, in program order, except
\* those that are still in the operand register or carry a fetch fault.
HeldStores == stores \o store_d
WindowStores == { i \in Slots : /\ sb_mem[i].valid /\ IsStore(sb_mem[i].inst)
                                /\ ~sb_mem[i].frontend_excp
                                /\ ~(ex.valid /\ live["ex"] /\ ex.id = i) }
StoresInProgramOrder ==
  ~stranded =>
    /\ { HeldStores[k] : k \in 1 .. Len(HeldStores) } = WindowStores
    /\ \A j, k \in 1 .. Len(HeldStores) :
         j < k => SB!Dist(commit_ptr, HeldStores[j]) < SB!Dist(commit_ptr, HeldStores[k])

\* The CSR instruction that commits is the one whose write is pending, and what
\* it writes is the result of a search of the TLB only if it is one, until a
\* flush leaves the mark of a search behind.
CsrCommitsItsOwnWrite ==
  CsrCommit /\ ~stranded /\ (tlbsrch_ongoing => live["search"]) =>
    /\ csr.pending # "none" /\ csr.id = commit_ptr /\ live["csr"]
    /\ tlbsrch_ongoing <=> oldest.inst.op = "tlbsrch"

\* CSRBuffer.scala:146 (la32): "there must be only one operation that will
\* wirte csr or tlb in a time".  What a search found is written by the commit
\* of a search.
OneCsrOperation == CsrCommit /\ tlbsrch_ongoing => oldest.inst.op = "tlbsrch"

\* LSU.scala:242 asserts that a store that commits is in the queue.
CommitsQueuedStore == StoreCommit => stores # <<>>

\* An instruction that takes an exception or an interrupt has no other effect.
EffectsAreExclusive ==
  \A in \in CycleInputs : SB!ExValid(in.sb) => ~(StoreCommit \/ CsrCommit \/ ErtnCommit)

\* Every instruction in flight leaves its slot: no unit waits for another for
\* ever, neither the multiplier behind the other units' results nor a load
\* behind the stores nor what waits in the operand register.
SlotsAreFreed == \A i \in Slots : sb_mem[i].valid ~> ~sb_mem[i].valid

\* The operand register always takes something again.  It asks the unit of what
\* it holds even when that is a bubble or was flushed, so a unit that stayed
\* busy would stop issue with nothing in flight.
ExAlwaysFrees == []<>ExReady
=============================================================================
