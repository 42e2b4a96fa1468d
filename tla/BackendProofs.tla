----------------------------- MODULE BackendProofs -----------------------------
(***************************************************************************)
(* For any number of slots, any instructions and any timing of the caches  *)
(* and the interrupt line: the back end keeps the two promises that module *)
(* Scoreboard asks of its neighbours, so the scoreboard's invariants hold  *)
(* of it; an instruction that takes an exception or an interrupt has no    *)
(* other effect, as long as the line is held; and, without                 *)
(* store-conditionals and until a flush passes a load in progress or       *)
(* strands an instruction in the operand register, results reach their     *)
(* owners, a free slot is not marked executed, stores leave in program     *)
(* order and, without reads of CSRs and until a flush leaves the mark of a *)
(* search of the TLB behind, a CSR instruction commits its own write.      *)
(***************************************************************************)
EXTENDS Backend, SequenceTheorems, TLAPS

\* The scoreboard's own proofs, for every input its wires can carry.
SP == INSTANCE ScoreboardProofs WITH
        Regs <- {0, 1}, Values <- {0}, Inputs <- SB!CycleInput, bru_slot <- BruSlot

-----------------------------------------------------------------------------
(* The inductive invariant.                                                *)

TypeInv ==
  /\ ex \in [valid: BOOLEAN, id: Slots, inst: Insts, excp: BOOLEAN]
  /\ mul \in [valid: BOOLEAN, id: Slots]
  /\ csr \in [pending: {"none", "write", "tlbwr"}, id: Slots]
  /\ tlbsrch_ongoing \in BOOLEAN
  /\ load_id \in Slots /\ load_excp \in BOOLEAN
  /\ store_d = <<>> \/ \E i \in Slots : store_d = <<i>>
  /\ dcache \in BOOLEAN /\ refill \in 0 .. 2 /\ int_line \in BOOLEAN
  /\ live \in [Units -> BOOLEAN] /\ stranded \in BOOLEAN

Occupied(i) == i \in Slots /\ sb_mem[i].valid
Empty       == \A i \in Slots : ~sb_mem[i].valid
InEx(i)     == ex.valid /\ live["ex"] /\ ex.id = i

\* The instruction in the operand register is the last one issued.  It has not
\* executed, unless it only waits there for its unit; and what a flush left
\* there leaves before anything is issued.
ExInv ==
  /\ ex.valid /\ live["ex"] =>
       /\ Occupied(ex.id) /\ SP!Succ(ex.id) = issue_ptr
       /\ sb_mem[ex.id].inst = ex.inst /\ sb_mem[ex.id].frontend_excp = ex.excp
       /\ sb_mem[ex.id].executed =>
            ex.excp \/ (ex.inst.futype = "csr" /\ csr_busy)
  /\ ex.valid /\ ~live["ex"] =>
       /\ Empty /\ refill = 2
       /\ ex.excp \/ ex.inst.futype = "mul"
       /\ ~mul.valid /\ ~csr_busy
       /\ lstate = "lIdle" /\ store_d = <<>> /\ stores = <<>>

\* So does a multiplication that a flush left in the multiplier.
MulInv ==
  /\ mul.valid /\ live["mul"] =>
       /\ Occupied(mul.id) /\ ~InEx(mul.id)
       /\ sb_mem[mul.id].inst.futype = "mul" /\ ~sb_mem[mul.id].executed
  /\ mul.valid /\ ~live["mul"] => Empty /\ refill = 1 /\ ~ex.valid

\* The programs have no reads of CSRs, which leave the buffer free for a later
\* instruction while they are in flight.
NoCsrReads == \A i \in Insts : i.futype = "csr" => i.op # "csrrd"

\* The CSR buffer holds the write of the one CSR instruction in flight that has
\* left the operand register.
CsrInv ==
  /\ csr_busy =>
       /\ live["csr"] /\ Occupied(csr.id) /\ ~InEx(csr.id)
       /\ sb_mem[csr.id].inst.futype = "csr" /\ ~sb_mem[csr.id].frontend_excp
  /\ NoCsrReads => \A i \in Slots :
       sb_mem[i].valid /\ sb_mem[i].inst.futype = "csr" /\ ~sb_mem[i].frontend_excp =>
         InEx(i) \/ (csr_busy /\ csr.id = i)

\* The mark of a search of the TLB in flight is that of the instruction in the
\* buffer.
SearchInv ==
  /\ tlbsrch_ongoing /\ live["search"] => csr_busy /\ sb_mem[csr.id].inst.op = "tlbsrch"
  /\ csr_busy /\ sb_mem[csr.id].inst.op = "tlbsrch" => tlbsrch_ongoing

\* The store accepted last has not executed.
StoreInv ==
  /\ stores \in Seq(Slots)
  /\ store_d # <<>> => live["store_d"] /\ ~sb_mem[store_d[1]].executed

\* The load in progress has left the operand register and has not executed.
LoadInv ==
  lstate # "lIdle" =>
    /\ live["load"] /\ Occupied(load_id) /\ ~InEx(load_id)
    /\ sb_mem[load_id].inst.futype = "lsu" /\ ~IsStore(sb_mem[load_id].inst)
    /\ ~sb_mem[load_id].executed

\* A fault of the fetch is an exception.
FaultInv == \A i \in Slots :
              sb_mem[i].valid /\ sb_mem[i].frontend_excp => sb_mem[i].exception

UnitInv ==
  /\ FaultInv
  /\ ~stranded =>
       /\ ExInv /\ MulInv /\ CsrInv /\ SearchInv /\ StoreInv /\ LoadInv
       /\ FreeSlotsAreNotExecuted /\ StoresInProgramOrder

\* The programs have no store-conditionals.
NoStoreConditionals == \A i \in Insts : i.futype = "lsu" => i.op # "sc"

\* The load in progress is in flight: no flush comes while the unit works on a
\* load, unless in the cycle that writes it back.
LoadsStay == lstate # "lIdle" => live["load"]

IInv == TypeInv /\ SP!SbInv /\ UnitInv

-----------------------------------------------------------------------------
(* The scoreboard's wires are those of its proofs.                         *)

\* The wires a cycle reads.
LEMMA SameWires ==
  ASSUME NEW in
  PROVE  /\ SB!CommitAck(in) <=> SP!CommitAck(in)
         /\ SB!ExValid(in) <=> SP!ExValid(in)
         /\ SB!Flush(in) <=> SP!Flush(in)
         /\ SB!SomeMispred(in) <=> SP!SomeMispred(in)
         /\ SB!IssueAck(in) <=> SP!IssueAck(in)
<1>1. SB!CommitAck(in) <=> SP!CommitAck(in)
  BY DEF SB!commit_valid, SP!commit_valid, SB!CommitAck, SP!CommitAck
<1>2. SB!ExValid(in) <=> SP!ExValid(in)
  BY <1>1 DEF SB!ExValid, SP!ExValid, SB!InstExcp, SP!InstExcp, SB!IsSc, SP!IsSc,
              SB!IntFlag, SP!IntFlag
<1>3. SB!Flush(in) <=> SP!Flush(in)
  BY <1>1, <1>2 DEF SB!Flush, SP!Flush, SB!ErtnValid, SP!ErtnValid, SB!IsErtn, SP!IsErtn
<1>4. \A p : SB!Mispredicted(p, in) <=> SP!Mispredicted(p, in)
  BY <1>3 DEF SB!Mispredicted, SP!Mispredicted, SB!WbTaken, SP!WbTaken
<1>5. SB!SomeMispred(in) <=> SP!SomeMispred(in)
  BY <1>4 DEF SB!SomeMispred, SP!SomeMispred, SB!Ports, SP!Ports,
              SB!NR_WB_PORTS, SP!NR_WB_PORTS
<1>6. SB!IssueAck(in) <=> SP!IssueAck(in)
  <2>1. SB!WawHazard(in) <=> SP!WawHazard(in)
    BY <1>1 DEF SB!WawHazard, SP!WawHazard, SB!Slots, SP!Slots
  <2>2. SB!Issuable(in) <=> SP!Issuable(in)
    BY <2>1 DEF SB!Issuable, SP!Issuable, SB!sb_full, SP!sb_full,
       SB!UnresolvedBranch, SP!UnresolvedBranch, SB!Slots, SP!Slots
  <2> QED BY <1>5, <2>2 DEF SB!IssueAck, SP!IssueAck
<1> QED BY <1>1, <1>2, <1>3, <1>5, <1>6

\* The registers it writes.
LEMMA SameClock ==
  ASSUME NEW in
  PROVE  SB!Clock(in) <=> SP!Clock(in)
<1>1. \A p : SB!WbTaken(p, in) <=> SP!WbTaken(p, in)
  BY SameWires DEF SB!WbTaken, SP!WbTaken
<1>2. \A p : SB!Mispredicted(p, in) <=> SP!Mispredicted(p, in)
  BY <1>1 DEF SB!Mispredicted, SP!Mispredicted
<1>3. \A p : SB!Succ(p) = SP!Succ(p)
  BY DEF SB!Succ, SP!Succ
<1>4. SB!InitEntry = SP!InitEntry
  BY DEF SB!InitEntry, SP!InitEntry, SB!InitInst, SP!InitInst, SB!InitValue, SP!InitValue
<1>5. \A m, p : SB!AfterWb(m, p, in) = SP!AfterWb(m, p, in)
  <2>1. \A i, id : SB!Squashed(i, id) <=> SP!Squashed(i, id)
    BY DEF SB!Squashed, SP!Squashed
  <2>2. \A e, w : SB!RecordResult(e, w) = SP!RecordResult(e, w)
    BY DEF SB!RecordResult, SP!RecordResult
  <2>3. SB!Slots = SP!Slots
    BY DEF SB!Slots, SP!Slots
  <2>4. ASSUME NEW m, NEW p
        PROVE  SB!AfterWb(m, p, in) = SP!AfterWb(m, p, in)
    <3>1. CASE ~SB!WbTaken(p, in)
      BY <1>1, <3>1 DEF SB!AfterWb, SP!AfterWb
    <3>2. CASE SB!WbTaken(p, in) /\ ~SB!Mispredicted(p, in)
      BY <1>1, <1>2, <2>2, <3>2 DEF SB!AfterWb, SP!AfterWb
    <3>3. CASE SB!WbTaken(p, in) /\ SB!Mispredicted(p, in)
      BY <1>1, <1>2, <1>4, <2>1, <2>2, <2>3, <3>3 DEF SB!AfterWb, SP!AfterWb
    <3> QED BY <3>1, <3>2, <3>3
  <2> QED BY <2>4
<1>6. \A m : SB!AfterIssue(m, in) = SP!AfterIssue(m, in)
  BY SameWires DEF SB!AfterIssue, SP!AfterIssue, SB!IssueInto, SP!IssueInto
<1>7. \A m : SB!AfterCommit(m, in) = SP!AfterCommit(m, in)
  BY SameWires DEF SB!AfterCommit, SP!AfterCommit, SB!Retire, SP!Retire
<1>8. SB!NextSbMem(in) = SP!NextSbMem(in)
  BY <1>4, <1>5, <1>6, <1>7, SameWires
     DEF SB!NextSbMem, SP!NextSbMem, SB!Slots, SP!Slots
<1>9. SB!NextIssuePtr(in) = SP!NextIssuePtr(in)
  BY <1>2, <1>3, SameWires DEF SB!NextIssuePtr, SP!NextIssuePtr
<1>10. /\ SB!NextCommitPtr(in) = SP!NextCommitPtr(in)
       /\ SB!NextIssuedCnt(in) = SP!NextIssuedCnt(in)
       /\ SB!NextIntFlag(in) = SP!NextIntFlag(in)
  BY <1>3, SameWires DEF SB!NextCommitPtr, SP!NextCommitPtr,
     SB!NextIssuedCnt, SP!NextIssuedCnt, SB!NextIntFlag, SP!NextIntFlag
<1> QED BY <1>8, <1>9, <1>10 DEF SB!Clock, SP!Clock

\* The registers after reset.
LEMMA SameInit == SB!Init <=> SP!Init
  BY DEF SB!Init, SP!Init, SB!Slots, SP!Slots, SB!InitEntry, SP!InitEntry,
     SB!InitInst, SP!InitInst, SB!InitValue, SP!InitValue, SB!NoSlot, SP!NoSlot

-----------------------------------------------------------------------------
(* The wires of a cycle.                                                   *)

\* What the scoreboard's input is made of.
LEMMA SbFields ==
  ASSUME NEW r, NEW d
  PROVE  /\ SbInputWith(r, d).dec_valid = d
         /\ SbInputWith(r, d).inst = r.inst
         /\ SbInputWith(r, d).frontend_excp = r.frontend_excp
         /\ SbInputWith(r, d).issue_ready = ExReady
         /\ SbInputWith(r, d).commit_ready = CommitReady(r)
         /\ SbInputWith(r, d).int_flag = int_line
         /\ SbInputWith(r, d).llbit = r.llbit
         /\ SbInputWith(r, d).wb[0] = FluOut(r)
         /\ SbInputWith(r, d).wb[1] = LsuOut(r)
  BY DEF SbInputWith

\* The flush does not depend on what the decoder offers.
LEMMA FlushOfInput ==
  ASSUME NEW r, NEW d
  PROVE  /\ SB!Flush(SbInputWith(r, d)) <=> Flush(r)
         /\ SB!CommitAck(SbInputWith(r, d)) <=> SB!commit_valid /\ CommitReady(r)
<1>1. \A dv : /\ SbInputWith(r, dv).commit_ready = CommitReady(r)
              /\ SbInputWith(r, dv).int_flag = int_line
              /\ SbInputWith(r, dv).llbit = r.llbit
  BY DEF SbInputWith
<1>2. \A dv : SB!CommitAck(SbInputWith(r, dv)) <=> SB!commit_valid /\ CommitReady(r)
  BY <1>1 DEF SB!CommitAck
<1> QED BY <1>1, <1>2 DEF Flush, SB!Flush, SB!ExValid, SB!ErtnValid, SB!InstExcp, SB!IntFlag

\* What the units give each other in a cycle.
WireFacts(in) ==
  /\ in.sb \in SB!CycleInput
  /\ in.flush <=> SP!Flush(in.sb)
  /\ in.commit_ack <=> SP!CommitAck(in.sb)
  /\ in.flush \in BOOLEAN /\ in.mispred \in BOOLEAN
  /\ in.mispred => UnitValid("bru")
  /\ in.sb.dec_valid => ~in.flush /\ ~in.mispred /\ refill = 0
  /\ in.sb.issue_ready <=> ExReady
  /\ in.sb.commit_ready <=> CommitReady(in.lsu)
  /\ in.sb.int_flag = int_line
  /\ in.sb.wb[0].valid <=> FluValid
  /\ in.sb.wb[0].id = FluId
  /\ in.sb.wb[0].exception <=> ~MulOut /\ (FetchFault \/ ex.inst.op = "syscall")
  /\ in.sb.wb[0].mispred <=> in.mispred
  /\ in.sb.wb[1].valid <=> L!WbValid
  /\ L!WbValid => in.sb.wb[1].id = L!WbId
  /\ ~in.sb.wb[1].mispred
  /\ in.lsu.valid <=> UnitValid("lsu")
  /\ in.lsu.id = ex.id /\ in.lsu.kind = LsuKind(ex.inst)
  /\ in.lsu.flush = in.flush /\ in.lsu.tlb_busy = tlb_busy
  /\ in.lsu.store_commit = StoreCommit
  /\ in.lsu.req_ready \in BOOLEAN /\ in.lsu.resp \in BOOLEAN /\ in.lsu.excp \in BOOLEAN

\* The wires that leave a unit carry ids of slots.
LEMMA IdTypes ==
  ASSUME TypeInv
  PROVE  FluId \in Slots /\ (L!WbValid => L!WbId \in Slots)
<1>1. FluId \in Slots
  BY DEF TypeInv, FluId
<1>2. store_d # <<>> => store_d[1] \in Slots
  BY DEF TypeInv
<1> QED BY <1>1, <1>2 DEF TypeInv, L!WbValid, L!WbId, L!WbIsLoad

\* Every input of a cycle has these wires.
LEMMA InputsKnown ==
  ASSUME TypeInv, NEW in \in CycleInputs
  PROVE  WireFacts(in)
<1>1. PICK r \in RawInputs :
        in = [sb |-> SbInput(r), lsu |-> LsuInput(r), flush |-> Flush(r),
              mispred |-> Mispred(r), commit_ack |-> SB!CommitAck(SbInput(r))]
  BY DEF CycleInputs
<1>2. /\ r.dec_valid \in BOOLEAN /\ (r.dec_valid => refill = 0)
      /\ r.inst \in Insts /\ r.frontend_excp \in BOOLEAN
      /\ r.llbit \in BOOLEAN /\ r.access_excp \in BOOLEAN
      /\ r.req_ready \in BOOLEAN /\ r.resp \in BOOLEAN
  BY BackendAssumption DEF RawInputs
<1> DEFINE d == r.dec_valid /\ ~Flush(r) /\ ~Mispred(r)
<1>3. in.sb = SbInputWith(r, d)
  BY <1>1 DEF SbInput
<1> HIDE DEF d
<1>4. Flush(r) \in BOOLEAN /\ Mispred(r) \in BOOLEAN /\ d \in BOOLEAN
  BY DEF Flush, SB!Flush, Mispred, d
<1>5. ExReady \in BOOLEAN
  BY DEF ExReady, TypeInv, L!InReady, csr_busy
<1>6. CommitReady(r) \in BOOLEAN
  BY <1>2 DEF CommitReady, TypeInv
<1>7. FluOut(r) \in SB!WriteBack
  BY IdTypes DEF FluOut, SB!WriteBack, FluValid, FetchFault, OtherFlu, MulOut,
     SB!Slots, Slots, TypeInv
<1>8. LsuOut(r) \in SB!WriteBack
  BY <1>2, IdTypes, BackendAssumption DEF LsuOut, SB!WriteBack, L!WbValid, SB!Slots, Slots, TypeInv
<1>9. in.sb \in SB!CycleInput
  BY <1>2, <1>3, <1>4, <1>5, <1>6, <1>7, <1>8
     DEF SbInputWith, SB!CycleInput, SB!Ports, SB!NR_WB_PORTS, TypeInv
<1>10. /\ in.flush <=> SP!Flush(in.sb)
       /\ in.commit_ack <=> SP!CommitAck(in.sb)
  BY <1>1, <1>3, FlushOfInput, SameWires DEF SbInput
<1>11. /\ in.flush \in BOOLEAN /\ in.mispred \in BOOLEAN
       /\ in.mispred => UnitValid("bru")
       /\ in.flush = Flush(r) /\ in.mispred = Mispred(r)
  BY <1>1, <1>4 DEF Mispred
<1>12. /\ in.sb.dec_valid => ~in.flush /\ ~in.mispred /\ refill = 0
       /\ in.sb.issue_ready <=> ExReady
       /\ in.sb.int_flag = int_line
       /\ in.sb.commit_ready = CommitReady(r)
       /\ in.sb.wb[0] = FluOut(r) /\ in.sb.wb[1] = LsuOut(r)
  <2>1. /\ in.sb.dec_valid = d
        /\ in.sb.issue_ready = ExReady
        /\ in.sb.int_flag = int_line
        /\ in.sb.commit_ready = CommitReady(r)
        /\ in.sb.wb[0] = FluOut(r) /\ in.sb.wb[1] = LsuOut(r)
    BY <1>3, SbFields
  <2>2. d => r.dec_valid /\ ~Flush(r) /\ ~Mispred(r)
    BY DEF d
  <2> QED BY <1>2, <1>5, <1>11, <2>1, <2>2
<1>13. /\ in.sb.wb[0].valid <=> FluValid
       /\ in.sb.wb[0].id = FluId
       /\ in.sb.wb[0].exception <=> ~MulOut /\ (FetchFault \/ ex.inst.op = "syscall")
       /\ in.sb.wb[0].mispred <=> in.mispred
       /\ in.sb.wb[1].valid <=> L!WbValid
       /\ L!WbValid => in.sb.wb[1].id = L!WbId
       /\ ~in.sb.wb[1].mispred
  <2>1. /\ FluOut(r).valid = FluValid /\ FluOut(r).id = FluId
        /\ FluOut(r).exception = (~MulOut /\ (FetchFault \/ ex.inst.op = "syscall"))
        /\ FluOut(r).mispred = Mispred(r)
    BY DEF FluOut, Mispred
  <2>2. /\ LsuOut(r).valid = L!WbValid /\ (L!WbValid => LsuOut(r).id = L!WbId)
        /\ LsuOut(r).mispred = FALSE
    BY DEF LsuOut
  <2> QED BY <1>11, <1>12, <2>1, <2>2
<1>14. in.sb.commit_ready <=> CommitReady(in.lsu)
  BY <1>1, <1>12 DEF CommitReady, LsuInput
<1>15. /\ in.lsu.valid <=> UnitValid("lsu")
       /\ in.lsu.id = ex.id /\ in.lsu.kind = LsuKind(ex.inst)
       /\ in.lsu.flush = in.flush /\ in.lsu.tlb_busy = tlb_busy
       /\ in.lsu.store_commit = StoreCommit
       /\ in.lsu.req_ready \in BOOLEAN /\ in.lsu.resp \in BOOLEAN /\ in.lsu.excp \in BOOLEAN
  BY <1>1, <1>2 DEF LsuInput
<1> QED BY <1>9, <1>10, <1>11, <1>12, <1>13, <1>14, <1>15 DEF WireFacts

-----------------------------------------------------------------------------
(* The neighbours of the scoreboard keep their promises.                   *)

\* The decoder offers nothing in a redirection, and the branch unit answers in
\* the cycle after issue.
LEMMA ContractKept ==
  ASSUME TypeInv, NEW in \in CycleInputs
  PROVE  SP!Contract(in.sb)
<1>1. WireFacts(in)
  BY InputsKnown
<1>2. in.sb.dec_valid => ~SP!Flush(in.sb) /\ ~SP!SomeMispred(in.sb)
  BY <1>1 DEF WireFacts, SP!SomeMispred, SP!Mispredicted, SP!Ports, SP!NR_WB_PORTS
<1>3. BruSlot # SP!NoSlot => in.sb.wb[0].valid /\ in.sb.wb[0].id = BruSlot
  BY <1>1 DEF WireFacts, BruSlot, SP!NoSlot, NoSlot, FluValid, FluId, OtherFlu, MulOut
<1>4. in.sb.wb[0].mispred => BruSlot # SP!NoSlot
  BY <1>1 DEF WireFacts, BruSlot, SP!NoSlot, TypeInv, Slots
<1> QED BY <1>1, <1>2, <1>3, <1>4 DEF WireFacts, SP!Contract

\* The branch unit holds what was issued in the cycle before, if it is a branch.
LEMMA BruSlotStep ==
  ASSUME TypeInv, NEW in \in CycleInputs, Clock(in)
  PROVE  BruSlot' = SP!NextBruSlot(in.sb)
<1>1. WireFacts(in)
  BY InputsKnown
<1>2. CASE ExReady
  <2>1. /\ ex'.valid <=> SP!IssueAck(in.sb)
        /\ ex'.id = issue_ptr /\ ex'.inst = in.sb.inst
        /\ ex'.excp = in.sb.frontend_excp
    BY <1>2, SameWires DEF Clock, ExStep
  <2> QED BY <2>1 DEF BruSlot, UnitValid, SP!NextBruSlot, SP!NoSlot, NoSlot
<1>3. CASE ~ExReady
  <2>1. ex' = ex /\ ex.inst.futype # "bru"
    BY <1>3 DEF Clock, ExStep, ExReady
  <2>2. ~SP!IssueAck(in.sb)
    BY <1>1, <1>3 DEF WireFacts, SP!IssueAck
  <2> QED BY <2>1, <2>2 DEF BruSlot, UnitValid, SP!NextBruSlot, SP!NoSlot, NoSlot
<1> QED BY <1>2, <1>3

\* So a cycle of the back end is one of the scoreboard.
LEMMA CycleOfScoreboard ==
  ASSUME TypeInv, NEW in \in CycleInputs, Clock(in)
  PROVE  /\ in.sb \in SB!CycleInput /\ SP!Contract(in.sb)
         /\ SP!Clock(in.sb) /\ SP!Cycle(in.sb)
         /\ SP!Next
<1>1. in.sb \in SB!CycleInput /\ SP!Contract(in.sb)
  BY InputsKnown, ContractKept DEF WireFacts
<1>2. SP!Clock(in.sb)
  BY SameClock DEF Clock
<1>3. SP!Cycle(in.sb)
  BY <1>2, BruSlotStep DEF SP!Cycle
<1>4. SP!SomeMispred(in.sb) => ~SP!Flush(in.sb) /\ ~SP!IssueAck(in.sb)
  BY DEF SP!SomeMispred, SP!Mispredicted, SP!WbTaken, SP!IssueAck
<1>5. \/ SP!Hold(in.sb) \/ SP!Issue(in.sb) \/ SP!Commit(in.sb)
      \/ SP!IssueAndCommit(in.sb) \/ SP!FlushAll(in.sb) \/ SP!Mispredict(in.sb)
  BY <1>3, <1>4 DEF SP!Hold, SP!Issue, SP!Commit, SP!IssueAndCommit, SP!FlushAll,
     SP!Mispredict
<1> QED BY <1>1, <1>2, <1>3, <1>5 DEF SP!Next

\* The assumptions of the scoreboard's proofs hold here.
LEMMA SbAssumptions ==
  /\ NR_ENTRIES \in Nat /\ NR_ENTRIES >= 2
  /\ /\ Insts # {} /\ Insts \subseteq SP!DecodedInst
     /\ {0} # {}
     /\ SB!CycleInput \subseteq SP!CycleInput
<1>1. SB!CycleInput = SP!CycleInput
  BY DEF SB!CycleInput, SP!CycleInput, SB!WriteBack, SP!WriteBack, SB!Ports, SP!Ports,
     SB!NR_WB_PORTS, SP!NR_WB_PORTS, SB!Slots, SP!Slots
<1>2. SB!DecodedInst = SP!DecodedInst
  BY DEF SB!DecodedInst, SP!DecodedInst, SB!FuTypes, SP!FuTypes, SB!OpTypes, SP!OpTypes
<1> QED BY <1>1, <1>2, BackendAssumption, InstsAssumption

\* The registers have their types after reset.
LEMMA TypeInvInit == Init => TypeInv
<1>1. 0 \in Slots
  BY BackendAssumption DEF Slots
<1>2. SB!InitInst \in Insts
  BY InstsAssumption DEF SB!InitInst
<1> SUFFICES ASSUME Init PROVE TypeInv
  OBVIOUS
<1>3. /\ ex \in [valid: BOOLEAN, id: Slots, inst: Insts, excp: BOOLEAN]
      /\ mul \in [valid: BOOLEAN, id: Slots]
      /\ csr \in [pending: {"none", "write", "tlbwr"}, id: Slots]
      /\ tlbsrch_ongoing \in BOOLEAN
  BY <1>1, <1>2 DEF Init, IdleMul, IdleCsr
<1>4. live \in [Units -> BOOLEAN]
  BY DEF Init
<1>5. load_id \in Slots /\ load_excp \in BOOLEAN /\ store_d = <<>>
  BY <1>1 DEF Init, L!Init
<1>6. dcache \in BOOLEAN /\ int_line \in BOOLEAN /\ stranded \in BOOLEAN
  BY DEF Init
<1>7. refill \in 0 .. 2
  <2>1. refill = 0
    BY DEF Init
  <2> QED BY <2>1
<1> QED BY <1>3, <1>4, <1>5, <1>6, <1>7 DEF TypeInv

\* Every cycle keeps them.
LEMMA TypeInvCycle ==
  ASSUME TypeInv, SP!SbInv, NEW in \in CycleInputs, Clock(in)
  PROVE  TypeInv'
<1>1. WireFacts(in)
  BY InputsKnown
<1>2. issue_ptr \in Slots
  BY DEF SP!SbInv, SP!TypeOK, SP!Slots, Slots
<1>3. ex' \in [valid: BOOLEAN, id: Slots, inst: Insts, excp: BOOLEAN]
  <2>1. in.sb.inst \in Insts /\ in.sb.frontend_excp \in BOOLEAN
    BY <1>1 DEF WireFacts, SB!CycleInput
  <2>2. SB!IssueAck(in.sb) \in BOOLEAN
    BY DEF SB!IssueAck
  <2> QED BY <1>2, <2>1, <2>2 DEF Clock, ExStep, TypeInv
<1>4. mul' \in [valid: BOOLEAN, id: Slots]
  BY BackendAssumption DEF Clock, MulStep, IdleMul, TypeInv, Slots
<1>5. /\ csr' \in [pending: {"none", "write", "tlbwr"}, id: Slots]
      /\ tlbsrch_ongoing' \in BOOLEAN
  <2>1. 0 \in Slots /\ ex.id \in Slots /\ csr \in [pending: {"none", "write", "tlbwr"}, id: Slots]
    BY BackendAssumption DEF TypeInv, Slots
  <2>2. {IdleCsr, Write} \subseteq [pending: {"none", "write", "tlbwr"}, id: Slots]
    BY <2>1 DEF IdleCsr, Write
  <2>3. csr' \in {IdleCsr, Write, csr}
    BY DEF Clock, CsrStep
  <2>4. tlbsrch_ongoing' \in BOOLEAN
    BY DEF Clock, SearchStep, SearchAccepted, CsrAccepted, UnitValid
  <2> QED BY <2>1, <2>2, <2>3, <2>4
<1>6. load_id' \in Slots /\ load_excp' \in BOOLEAN
      /\ (store_d' = <<>> \/ \E i \in Slots : store_d' = <<i>>)
  BY <1>1 DEF Clock, L!Clock, TypeInv, WireFacts
<1>7. dcache' \in BOOLEAN /\ refill' \in 0 .. 2
  BY <1>1 DEF Clock, DcacheStep, RefillStep, TypeInv
<1>8. int_line' \in BOOLEAN
  BY BackendAssumption DEF Clock, IntLineStep
<1>9. live' \in [Units -> BOOLEAN]
  BY <1>1 DEF Clock, LiveStep, TypeInv, WireFacts, Units
<1>10. stranded' \in BOOLEAN
  BY DEF Clock, StrandedStep
<1> QED BY <1>3, <1>4, <1>5, <1>6, <1>7, <1>8, <1>9, <1>10 DEF TypeInv

-----------------------------------------------------------------------------
(* The scoreboard in the back end.                                         *)

\* A cycle of the back end is one of the scoreboard with inputs it allows.
LEMMA SbInvCycle ==
  ASSUME TypeInv, SP!SbInv, NEW in \in CycleInputs, Clock(in)
  PROVE  SP!SbInv'
<1>1. /\ in.sb \in SB!CycleInput /\ SP!Contract(in.sb)
      /\ SP!Cycle(in.sb)
  BY CycleOfScoreboard
<1>2. CASE SP!Flush(in.sb)
  BY <1>1, <1>2, SbAssumptions, SP!FlushPreserves DEF SP!FlushAll
<1>3. CASE ~SP!Flush(in.sb)
  BY <1>1, <1>3, SbAssumptions, SP!CyclePreserves
<1> QED BY <1>2, <1>3

\* The types of the back end and the scoreboard's invariant hold for ever.
LEMMA BaseHolds == Spec => [](TypeInv /\ SP!SbInv)
<1>1. Init => TypeInv /\ SP!SbInv
  BY TypeInvInit, SameInit, SbAssumptions, SP!SbInit DEF Init
<1>2. TypeInv /\ SP!SbInv /\ [Next]_vars => (TypeInv /\ SP!SbInv)'
  <2>1. SUFFICES ASSUME TypeInv, SP!SbInv, [Next]_vars
                 PROVE  TypeInv' /\ SP!SbInv'
    OBVIOUS
  <2>2. CASE UNCHANGED vars
    BY <2>1, <2>2 DEF vars, sbVars, TypeInv, Units, BruSlot, UnitValid, SP!SbInv,
       SP!TypeOK, SP!Window, SP!InFlight, SP!CountCoversWindow, SP!NeverWedged,
       SP!UniqueWriter, SP!OneBranch, SP!BranchIsYoungest
  <2>3. ASSUME NEW in \in CycleInputs, Clock(in) PROVE TypeInv' /\ SP!SbInv'
    BY <2>1, <2>3, TypeInvCycle, SbInvCycle
  <2> QED BY <2>1, <2>2, <2>3 DEF Next, Run, Redirect, FlushAll
<1> QED BY <1>1, <1>2, PTL DEF Spec

\* The whole scoreboard specification, with the promises it asks of its
\* neighbours, is kept by the back end that is wired around it: whatever the
\* instructions, the caches and the interrupts do, the decoder, the branch
\* unit and the load/store unit give it only inputs it allows (IDU.scala,
\* BranchUnit.scala, Excute.scala), so its theorems hold of the back end.
THEOREM ImplementsScoreboard == Spec => SP!Spec
<1>1. Init => SP!Init
  BY SameInit DEF Init
<1>2. TypeInv /\ [Next]_vars => [SP!Next]_SP!vars
  <2>1. UNCHANGED vars => UNCHANGED SP!vars
    BY DEF vars, sbVars, SP!vars, SP!sbVars, BruSlot, UnitValid
  <2>2. ASSUME TypeInv, NEW in \in CycleInputs, Clock(in) PROVE SP!Next
    BY <2>2, CycleOfScoreboard
  <2> QED BY <2>1, <2>2 DEF Next, Run, Redirect, FlushAll
<1> QED BY <1>1, <1>2, BaseHolds, PTL DEF Spec, SP!Spec

-----------------------------------------------------------------------------
(* Exceptions and interrupts.                                              *)

\* While the line is held, an interrupt the scoreboard remembers is still on it.
LineInv == int_flag_r => int_line

\* The line falls only in a commit, which also forgets the latched interrupt.
LEMMA LineInvCycle ==
  ASSUME LineHeld = TRUE, TypeInv, SP!SbInv, LineInv, NEW in \in CycleInputs, Clock(in)
  PROVE  LineInv'
<1>1. WireFacts(in)
  BY InputsKnown
<1>2. int_flag_r' = SP!NextIntFlag(in.sb) /\ int_flag_r \in BOOLEAN
  BY CycleOfScoreboard DEF SP!Clock, SP!SbInv, SP!TypeOK
<1>3. in.sb.int_flag = int_line /\ (in.commit_ack <=> SP!CommitAck(in.sb))
  BY <1>1 DEF WireFacts
<1>4. int_line /\ ~in.commit_ack => int_line'
  BY <1>1 DEF Clock, IntLineStep
<1>5. CASE ~int_line
  BY <1>2, <1>3, <1>5 DEF SP!NextIntFlag, LineInv
<1>6. CASE int_line /\ ~in.commit_ack
  BY <1>4, <1>6 DEF LineInv
<1>7. CASE int_line /\ in.commit_ack
  BY <1>2, <1>3, <1>7 DEF SP!NextIntFlag, LineInv
<1> QED BY <1>5, <1>6, <1>7 DEF TypeInv

\* As long as the interrupt line stays up until the interrupt is taken, the
\* instruction that takes an exception or an interrupt neither commits a
\* store, nor a CSR write, nor an ertn (Issue.scala:147-149): the effects of a
\* commit look at the line, the flush also at the latched interrupt.
THEOREM EffectsAreExclusiveHolds ==
  ASSUME LineHeld = TRUE
  PROVE  Spec => []EffectsAreExclusive
<1>1. Init => LineInv
  BY DEF Init, SB!Init, LineInv
<1>2. TypeInv /\ SP!SbInv /\ LineInv /\ [Next]_vars => LineInv'
  <2>1. SUFFICES ASSUME TypeInv, SP!SbInv, LineInv, [Next]_vars PROVE LineInv'
    OBVIOUS
  <2>2. CASE UNCHANGED vars
    BY <2>1, <2>2 DEF vars, sbVars, LineInv
  <2>3. ASSUME NEW in \in CycleInputs, Clock(in) PROVE LineInv'
    BY <2>1, <2>3, LineInvCycle
  <2> QED BY <2>1, <2>2, <2>3 DEF Next, Run, Redirect, FlushAll
<1>3. TypeInv /\ LineInv => EffectsAreExclusive
  <2>1. SUFFICES ASSUME TypeInv, LineInv, NEW in \in CycleInputs, SB!ExValid(in.sb)
                 PROVE  ~(StoreCommit \/ CsrCommit \/ ErtnCommit)
    BY DEF EffectsAreExclusive
  <2>2. oldest.exception \/ int_line
    BY <2>1, InputsKnown
       DEF SB!ExValid, SB!InstExcp, SB!IntFlag, WireFacts, LineInv, oldest
  <2> QED BY <2>2 DEF StoreCommit, CsrCommit, ErtnCommit, HasEffect
<1> QED BY <1>1, <1>2, <1>3, BaseHolds, PTL DEF Spec

-----------------------------------------------------------------------------
(* A cycle without a flush.                                                *)

Issues(in)  == SP!IssueAck(in.sb)
Commits(in) == SP!CommitAck(in.sb)

\* What it does to a slot.
LEMMA SlotFacts ==
  ASSUME IInv, NEW in \in CycleInputs, Clock(in), ~in.flush, NEW i \in Slots
  PROVE  /\ sb_mem'[i].valid <=>
              \/ i = issue_ptr /\ Issues(in)
              \/ sb_mem[i].valid /\ ~(i = commit_ptr /\ Commits(in))
         /\ i = issue_ptr /\ Issues(in) =>
              /\ sb_mem'[i].inst = in.sb.inst
              /\ sb_mem'[i].frontend_excp = in.sb.frontend_excp
              /\ sb_mem'[i].frontend_excp => sb_mem'[i].exception
         /\ sb_mem'[i].valid /\ ~(i = issue_ptr /\ Issues(in)) =>
              /\ sb_mem'[i].inst = sb_mem[i].inst
              /\ sb_mem'[i].frontend_excp = sb_mem[i].frontend_excp
              /\ sb_mem[i].frontend_excp /\ sb_mem[i].exception => sb_mem'[i].exception
         /\ sb_mem'[i].executed =>
              \/ sb_mem[i].executed /\ ~(i = commit_ptr /\ Commits(in))
              \/ sb_mem[i].valid /\ FluValid /\ FluId = i
              \/ sb_mem[i].valid /\ L!WbValid /\ L!WbId = i
<1>1. WireFacts(in) /\ ~SP!Flush(in.sb) /\ SP!SbInv /\ i \in SP!Slots
  BY InputsKnown DEF IInv, WireFacts, SP!Slots, Slots
<1>2. in.sb \in SB!CycleInput /\ SP!Contract(in.sb) /\ SP!Clock(in.sb)
  BY CycleOfScoreboard DEF IInv
<1>3. /\ sb_mem'[i].valid <=>
              \/ i = issue_ptr /\ Issues(in)
              \/ sb_mem[i].valid /\ ~(i = commit_ptr /\ Commits(in))
      /\ sb_mem'[i].valid =>
              sb_mem'[i].inst = IF i = issue_ptr /\ Issues(in)
                                THEN in.sb.inst ELSE sb_mem[i].inst
  BY <1>1, <1>2, SbAssumptions, SP!SlotsAfterCycle DEF Issues, Commits
<1>4. /\ sb_mem'[i].executed =>
              \/ sb_mem[i].executed /\ ~(i = commit_ptr /\ Commits(in))
              \/ \E p \in SP!Ports : in.sb.wb[p].valid /\ in.sb.wb[p].id = i /\ sb_mem[i].valid
      /\ sb_mem'[i].valid /\ i = issue_ptr /\ Issues(in) =>
              /\ sb_mem'[i].frontend_excp = in.sb.frontend_excp
              /\ sb_mem'[i].frontend_excp => sb_mem'[i].exception
      /\ sb_mem'[i].valid /\ ~(i = issue_ptr /\ Issues(in)) =>
              /\ sb_mem'[i].frontend_excp = sb_mem[i].frontend_excp
              /\ sb_mem[i].frontend_excp /\ sb_mem[i].exception => sb_mem'[i].exception
  BY <1>1, <1>2, SbAssumptions, SP!MarksAfterCycle DEF Issues, Commits
<1>5. \A p \in SP!Ports : in.sb.wb[p].valid /\ in.sb.wb[p].id = i =>
         (FluValid /\ FluId = i) \/ (L!WbValid /\ L!WbId = i)
  BY <1>1 DEF WireFacts, SP!Ports, SP!NR_WB_PORTS
<1> QED BY <1>3, <1>4, <1>5

\* What it does to the pointers, and what issue and commit need.
LEMMA PointerFacts ==
  ASSUME IInv, NEW in \in CycleInputs, Clock(in), ~in.flush
  PROVE  /\ issue_ptr \in Slots /\ commit_ptr \in Slots
         /\ ~sb_mem[issue_ptr].valid
         /\ commit_ptr' = IF Commits(in) THEN SP!Succ(commit_ptr) ELSE commit_ptr
         /\ issue_ptr' = IF Issues(in) THEN SP!Succ(issue_ptr) ELSE issue_ptr
         /\ Commits(in) => /\ sb_mem[commit_ptr].valid /\ sb_mem[commit_ptr].executed
                           /\ commit_ptr # issue_ptr
         /\ Issues(in) => ExReady /\ refill = 0 /\ ~in.mispred
<1>1. WireFacts(in) /\ ~SP!Flush(in.sb) /\ SP!SbInv
  BY InputsKnown DEF IInv, WireFacts
<1>2. in.sb \in SB!CycleInput /\ SP!Contract(in.sb) /\ SP!Clock(in.sb)
  BY CycleOfScoreboard DEF IInv
<1>3. /\ commit_ptr' = IF Commits(in) THEN SP!Succ(commit_ptr) ELSE commit_ptr
      /\ issue_ptr' = IF Issues(in) THEN SP!Succ(issue_ptr) ELSE issue_ptr
  BY <1>1, <1>2, SbAssumptions, SP!PointersAfterCycle DEF Issues, Commits
<1>4. issue_ptr \in Slots /\ commit_ptr \in Slots
  BY <1>1 DEF SP!SbInv, SP!TypeOK, SP!Slots, Slots
<1>5. ~sb_mem[issue_ptr].valid
  BY <1>1, SbAssumptions, SP!IssuePtrFree DEF SP!SbInv
<1>6. Commits(in) => sb_mem[commit_ptr].valid /\ sb_mem[commit_ptr].executed
  BY DEF Commits, SP!CommitAck, SP!commit_valid
<1>7. Issues(in) => ExReady /\ refill = 0 /\ ~in.mispred
  BY <1>1 DEF Issues, SP!IssueAck, SP!Issuable, WireFacts
<1> QED BY <1>3, <1>4, <1>5, <1>6, <1>7

-----------------------------------------------------------------------------
(* What the invariant says of a state.                                     *)

\* The queue and the store accepted last, as sequences of slots.
LEMMA HeldTypes ==
  ASSUME IInv, ~stranded
  PROVE  /\ stores \in Seq(Slots) /\ store_d \in Seq(Slots) /\ HeldStores \in Seq(Slots)
         /\ store_d # <<>> => Len(store_d) = 1
         /\ Len(HeldStores) = Len(stores) + Len(store_d)
<1>1. stores \in Seq(Slots)
  BY DEF IInv, UnitInv, StoreInv
<1>2. store_d = <<>> \/ \E i \in Slots : store_d = <<i>>
  BY DEF IInv, TypeInv
<1>3. store_d \in Seq(Slots) /\ (store_d # <<>> => Len(store_d) = 1)
  <2>1. CASE store_d = <<>>
    BY <2>1
  <2>2. ASSUME NEW i \in Slots, store_d = <<i>>
        PROVE  store_d \in Seq(Slots) /\ Len(store_d) = 1
    BY <2>2
  <2> QED BY <1>2, <2>1, <2>2
<1> QED BY <1>1, <1>3, ConcatProperties DEF HeldStores

\* What the load/store unit holds are stores of the window that left the
\* operand register.
LEMMA HeldFacts ==
  ASSUME IInv, ~stranded
  PROVE  /\ store_d # <<>> => store_d[1] \in WindowStores
         /\ \A k \in 1 .. Len(stores) : stores[k] \in WindowStores
<1>1. /\ stores \in Seq(Slots)
      /\ { HeldStores[k] : k \in 1 .. Len(HeldStores) } = WindowStores
  BY DEF IInv, UnitInv, StoreInv, StoresInProgramOrder
<1>2. store_d = <<>> \/ \E i \in Slots : store_d = <<i>>
  BY DEF IInv, TypeInv
<1>3. /\ \A k \in 1 .. Len(stores) : k \in 1 .. Len(HeldStores) /\ HeldStores[k] = stores[k]
      /\ store_d # <<>> => /\ Len(stores) + 1 \in 1 .. Len(HeldStores)
                           /\ HeldStores[Len(stores) + 1] = store_d[1]
  BY <1>1, <1>2 DEF HeldStores
<1> QED BY <1>1, <1>3

\* While the oldest instruction is in the operand register, the units are idle:
\* it is also the youngest.
LEMMA Alone ==
  ASSUME IInv, ~stranded, InEx(commit_ptr)
  PROVE  /\ ~mul.valid /\ ~csr_busy
         /\ store_d = <<>> /\ stores = <<>>
<1>1. SP!SbInv /\ ExInv /\ MulInv /\ CsrInv /\ commit_ptr \in SP!Slots
  BY DEF IInv, UnitInv, SP!SbInv, SP!TypeOK
<1>2. SP!Succ(commit_ptr) = issue_ptr
  BY <1>1 DEF ExInv, InEx
<1>3. SP!InFlight = 1
  <2>1. SP!Dist(commit_ptr, commit_ptr) = 0
    BY <1>1, SbAssumptions, SP!DistRange
  <2> QED BY <1>1, <1>2, <2>1, SbAssumptions, SP!DistSuccRight DEF SP!InFlight
<1>4. ASSUME NEW i \in Slots, sb_mem[i].valid PROVE i = commit_ptr
  <2>1. i \in SP!Slots
    BY DEF SP!Slots, Slots
  <2>2. SP!Dist(commit_ptr, i) < 1
    BY <1>1, <1>3, <1>4, <2>1 DEF SP!SbInv, SP!Window
  <2>3. SP!Dist(commit_ptr, i) = 0
    BY <1>1, <2>1, <2>2, SbAssumptions, SP!DistRange
  <2> QED BY <1>1, <2>1, <2>3, SbAssumptions, SP!DistRange
<1>5. ~mul.valid
  BY <1>1, <1>4 DEF MulInv, Occupied, InEx
<1>6. ~csr_busy
  BY <1>1, <1>4 DEF CsrInv, Occupied
<1>7. \A i \in WindowStores : FALSE
  BY <1>4 DEF WindowStores, InEx
<1>8. store_d = <<>> /\ Len(stores) = 0
  <2>1. stores \in Seq(Slots)
    BY DEF IInv, UnitInv, StoreInv
  <2> QED BY <1>7, <2>1, HeldFacts
<1>9. stores = <<>>
  BY <1>8, EmptySeq DEF IInv, UnitInv, StoreInv
<1> QED BY <1>5, <1>6, <1>8, <1>9

\* An instruction that commits without a flush has left the operand register.
LEMMA LeftEx ==
  ASSUME IInv, ~stranded, NoStoreConditionals, NEW in \in CycleInputs, Clock(in), ~in.flush,
         Commits(in)
  PROVE  ~InEx(commit_ptr)
<1>1. SUFFICES ASSUME InEx(commit_ptr) PROVE FALSE
  OBVIOUS
<1>2. sb_mem[commit_ptr].valid /\ sb_mem[commit_ptr].executed /\ commit_ptr \in Slots
  BY PointerFacts
<1>3. ex.excp /\ sb_mem[commit_ptr].frontend_excp
  BY <1>1, <1>2, Alone DEF IInv, UnitInv, ExInv, InEx
<1>4. sb_mem[commit_ptr].exception
  BY <1>2, <1>3 DEF IInv, UnitInv, FaultInv
<1>5. ~SP!IsSc(sb_mem[commit_ptr].inst)
  BY <1>2 DEF IInv, SP!SbInv, SP!TypeOK, SP!Entry, SP!Slots, Slots, NoStoreConditionals, SP!IsSc
<1>6. SP!Flush(in.sb)
  BY <1>4, <1>5 DEF Commits, SP!Flush, SP!ExValid, SP!InstExcp
<1> QED BY <1>6, InputsKnown DEF IInv, WireFacts

\* What a flush left in the operand register is taken in the next cycle.
LEMMA DeadEx ==
  ASSUME IInv, ~stranded, ex.valid, ~live["ex"]
  PROVE  ExReady /\ ~UnitValid("csr") /\ ~UnitValid("lsu") /\ ~UnitValid("bru")
<1>1. /\ ex.excp \/ ex.inst.futype = "mul"
      /\ ~mul.valid /\ ~csr_busy /\ lstate = "lIdle" /\ stores = <<>>
  BY DEF IInv, UnitInv, ExInv
<1>2. \A kind : L!InReady(kind, tlb_busy)
  BY <1>1, BackendAssumption DEF L!InReady, tlb_busy, csr_busy
<1> QED BY <1>1, <1>2 DEF ExReady, UnitValid

-----------------------------------------------------------------------------
(* The operand register and the marks after a cycle.                       *)

\* Of what is in flight, the operand register afterwards holds what it held and
\* could not hand over, or what was issued.
LEMMA ExFacts ==
  ASSUME IInv, NEW in \in CycleInputs, Clock(in), ~in.flush
  PROVE  /\ ExReady => /\ ex'.valid <=> Issues(in)
                       /\ ex'.id = issue_ptr /\ live'["ex"]
                       /\ ex'.inst = in.sb.inst /\ ex'.excp = in.sb.frontend_excp
         /\ ~ExReady => ex' = ex /\ (live'["ex"] <=> live["ex"]) /\ ~Issues(in)
         /\ \A i \in Slots : i = issue_ptr /\ Issues(in) => InEx(i)'
         /\ \A i \in Slots : sb_mem[i].valid => (InEx(i)' <=> InEx(i) /\ ~ExReady)
<1>1. WireFacts(in) /\ "ex" \in Units
  BY InputsKnown DEF IInv, Units
<1>2. ASSUME ExReady
      PROVE  /\ ex'.valid <=> Issues(in)
             /\ ex'.id = issue_ptr /\ live'["ex"]
             /\ ex'.inst = in.sb.inst /\ ex'.excp = in.sb.frontend_excp
  <2>1. live'["ex"]
    BY <1>1, <1>2 DEF Clock, LiveStep
  <2> QED BY <1>2, <2>1, SameWires DEF Clock, ExStep, Issues
<1>3. ASSUME ~ExReady
      PROVE  ex' = ex /\ (live'["ex"] <=> live["ex"]) /\ ~Issues(in)
  <2>1. live'["ex"] <=> live["ex"]
    BY <1>1, <1>3 DEF Clock, LiveStep
  <2> QED BY <1>3, <2>1, PointerFacts DEF Clock, ExStep
<1>4. \A i \in Slots : i = issue_ptr /\ Issues(in) => InEx(i)'
  BY <1>2, <1>3, PointerFacts DEF InEx
<1>5. ASSUME NEW i \in Slots, sb_mem[i].valid
      PROVE  InEx(i)' <=> InEx(i) /\ ~ExReady
  <2>1. i # issue_ptr
    BY <1>5, PointerFacts
  <2> QED BY <1>2, <1>3, <2>1 DEF InEx
<1> QED BY <1>2, <1>3, <1>4, <1>5

\* A slot is marked executed by its own result only: that of the multiplier, of
\* the unit of the operand register, of the store accepted last, or of the load
\* that writes back.
LEMMA MarkFacts ==
  ASSUME IInv, ~stranded, NEW in \in CycleInputs, Clock(in), ~in.flush,
         NEW i \in Slots, sb_mem'[i].executed
  PROVE  \/ sb_mem[i].executed /\ ~(i = commit_ptr /\ Commits(in))
         \/ sb_mem[i].valid /\ MulOut /\ live["mul"] /\ mul.id = i
         \/ sb_mem[i].valid /\ InEx(i) /\ (FetchFault \/ OtherFlu)
         \/ sb_mem[i].valid /\ store_d # <<>> /\ store_d[1] = i
         \/ sb_mem[i].valid /\ L!WbIsLoad /\ load_id = i
<1>1. \/ sb_mem[i].executed /\ ~(i = commit_ptr /\ Commits(in))
      \/ sb_mem[i].valid /\ FluValid /\ FluId = i
      \/ sb_mem[i].valid /\ L!WbValid /\ L!WbId = i
  BY SlotFacts
<1>2. ASSUME sb_mem[i].valid, FluValid, FluId = i, MulOut
      PROVE  live["mul"] /\ mul.id = i
  BY <1>2 DEF FluId, MulOut, IInv, UnitInv, MulInv, Empty
<1>3. ASSUME sb_mem[i].valid, FluValid, FluId = i, ~MulOut
      PROVE  InEx(i) /\ (FetchFault \/ OtherFlu)
  <2>1. (FetchFault \/ OtherFlu) /\ ex.valid /\ ex.id = i
    BY <1>3 DEF FluValid, FluId, FetchFault, OtherFlu, UnitValid
  <2> QED BY <1>3, <2>1 DEF InEx, IInv, UnitInv, ExInv, Empty
<1>4. ASSUME L!WbValid, L!WbId = i
      PROVE  (store_d # <<>> /\ store_d[1] = i) \/ (L!WbIsLoad /\ load_id = i)
  BY <1>4 DEF L!WbValid, L!WbId, L!WbIsLoad
<1> QED BY <1>1, <1>2, <1>3, <1>4

\* The load that writes back is neither in the operand register nor a store,
\* nor has it executed.
LEMMA LoadFacts ==
  ASSUME IInv, ~stranded, L!WbIsLoad
  PROVE  /\ ~InEx(load_id) /\ ~sb_mem[load_id].executed
         /\ sb_mem[load_id].inst.futype = "lsu" /\ ~IsStore(sb_mem[load_id].inst)
  BY DEF L!WbIsLoad, IInv, UnitInv, LoadInv

\* An instruction that has not executed is not the one that commits.
LEMMA NotCommitting ==
  ASSUME IInv, NEW in \in CycleInputs, Clock(in), ~in.flush, NEW i \in Slots,
         sb_mem[i].valid, ~sb_mem[i].executed
  PROVE  sb_mem'[i].valid /\ sb_mem'[i].inst = sb_mem[i].inst
<1>1. ~(i = commit_ptr /\ Commits(in)) /\ i # issue_ptr
  BY PointerFacts
<1> QED BY <1>1, SlotFacts

-----------------------------------------------------------------------------
(* A cycle without a flush preserves the invariant.                        *)

\* Nothing is left of an instruction in its slot when it commits: a result
\* that came in the same cycle would mark the free slot.
LEMMA FreeSlotsCycle ==
  ASSUME IInv, ~stranded, NoStoreConditionals, NEW in \in CycleInputs, Clock(in), ~in.flush,
         NEW i \in Slots, ~sb_mem'[i].valid
  PROVE  ~sb_mem'[i].executed
<1>1. SUFFICES ASSUME sb_mem'[i].executed PROVE FALSE
  OBVIOUS
<1>2. CASE sb_mem[i].executed /\ ~(i = commit_ptr /\ Commits(in))
  <2>1. sb_mem[i].valid
    BY <1>2 DEF IInv, UnitInv, FreeSlotsAreNotExecuted
  <2> QED BY <1>2, <2>1, SlotFacts
<1>3. ASSUME sb_mem[i].valid PROVE i = commit_ptr /\ Commits(in) /\ sb_mem[i].executed
  BY <1>3, SlotFacts, PointerFacts
<1>4. CASE sb_mem[i].valid /\ MulOut /\ live["mul"] /\ mul.id = i
  BY <1>3, <1>4 DEF MulOut, IInv, UnitInv, MulInv
<1>5. CASE sb_mem[i].valid /\ InEx(i) /\ (FetchFault \/ OtherFlu)
  BY <1>3, <1>5, LeftEx
<1>6. CASE sb_mem[i].valid /\ store_d # <<>> /\ store_d[1] = i
  BY <1>3, <1>6 DEF IInv, UnitInv, StoreInv
<1>7. CASE sb_mem[i].valid /\ L!WbIsLoad /\ load_id = i
  BY <1>3, <1>7, LoadFacts
<1> QED BY <1>1, <1>2, <1>4, <1>5, <1>6, <1>7, MarkFacts

\* What the operand register holds afterwards was issued just now, or waits.
LEMMA ExInvCycle ==
  ASSUME IInv, ~stranded, NoStoreConditionals, NEW in \in CycleInputs, Clock(in), ~in.flush
  PROVE  ExInv'
<1> USE DEF IInv, UnitInv
<1>1. WireFacts(in)
  BY InputsKnown
<1>2. CASE ExReady
  <2>1. SUFFICES ASSUME ex'.valid
                 PROVE  /\ Occupied(ex.id)' /\ SP!Succ(ex'.id) = issue_ptr'
                        /\ sb_mem'[ex'.id].inst = ex'.inst
                        /\ sb_mem'[ex'.id].frontend_excp = ex'.excp
                        /\ ~sb_mem'[ex'.id].executed
    BY <1>2, ExFacts DEF ExInv
  <2>2. Issues(in) /\ ex'.id = issue_ptr /\ issue_ptr \in Slots /\ ~sb_mem[issue_ptr].valid
        /\ ex'.inst = in.sb.inst /\ ex'.excp = in.sb.frontend_excp
    BY <1>2, <2>1, ExFacts, PointerFacts
  <2>3. /\ sb_mem'[issue_ptr].valid
        /\ sb_mem'[issue_ptr].inst = in.sb.inst
        /\ sb_mem'[issue_ptr].frontend_excp = in.sb.frontend_excp
    BY <2>2, SlotFacts
  <2>4. ~sb_mem'[issue_ptr].executed
    BY <2>2, MarkFacts DEF FreeSlotsAreNotExecuted
  <2> QED BY <2>2, <2>3, <2>4, PointerFacts DEF Occupied
<1>3. CASE ~ExReady
  <2>1. ex' = ex /\ (live'["ex"] <=> live["ex"]) /\ ~Issues(in)
    BY <1>3, ExFacts
  <2>2. ex.valid => live["ex"]
    BY <1>3, DeadEx
  <2>3. SUFFICES ASSUME ex.valid, live["ex"]
                 PROVE  /\ Occupied(ex.id)' /\ SP!Succ(ex'.id) = issue_ptr'
                        /\ sb_mem'[ex'.id].inst = ex'.inst
                        /\ sb_mem'[ex'.id].frontend_excp = ex'.excp
                        /\ sb_mem'[ex'.id].executed =>
                             ex'.excp \/ (ex'.inst.futype = "csr" /\ csr_busy')
    BY <2>1, <2>2 DEF ExInv
  <2>4. /\ ex.id \in Slots /\ sb_mem[ex.id].valid /\ SP!Succ(ex.id) = issue_ptr
        /\ sb_mem[ex.id].inst = ex.inst /\ sb_mem[ex.id].frontend_excp = ex.excp
        /\ InEx(ex.id)
        /\ sb_mem[ex.id].executed => ex.excp \/ (ex.inst.futype = "csr" /\ csr_busy)
    BY <2>3 DEF ExInv, Occupied, InEx
  <2>5. ~(ex.id = commit_ptr /\ Commits(in))
    BY <2>4, LeftEx
  <2>6. /\ sb_mem'[ex.id].valid /\ sb_mem'[ex.id].inst = ex.inst
        /\ sb_mem'[ex.id].frontend_excp = ex.excp
        /\ issue_ptr' = issue_ptr
    BY <2>1, <2>4, <2>5, SlotFacts, PointerFacts
  <2>7. ASSUME sb_mem'[ex.id].executed, ~ex.excp
        PROVE  ex.inst.futype = "csr" /\ csr_busy'
    <3>1. ex.inst.futype \in {"mul", "lsu", "csr"}
      BY <1>3 DEF ExReady
    <3>2. ex.inst.futype = "csr"
      <4>1. CASE sb_mem[ex.id].executed
        BY <2>4, <2>7, <4>1
      <4>2. CASE InEx(ex.id) /\ (FetchFault \/ OtherFlu)
        BY <2>7, <3>1, <4>2 DEF FetchFault, OtherFlu, UnitValid
      <4>3. CASE MulOut /\ live["mul"] /\ mul.id = ex.id
        BY <2>4, <4>3 DEF MulOut, MulInv
      <4>4. CASE store_d # <<>> /\ store_d[1] = ex.id
        BY <2>4, <4>4, HeldFacts DEF WindowStores, InEx
      <4>5. CASE L!WbIsLoad /\ load_id = ex.id
        BY <2>4, <4>5, LoadFacts
      <4> QED BY <2>4, <2>7, <4>1, <4>2, <4>3, <4>4, <4>5, MarkFacts
    <3>3. csr_busy /\ ~CsrCommit /\ ~CsrAccepted
      BY <1>3, <3>2 DEF ExReady, CsrAccepted
    <3>4. csr' = csr
      BY <1>1, <3>3 DEF Clock, CsrStep
    <3> QED BY <3>2, <3>3, <3>4 DEF csr_busy
  <2> QED BY <2>1, <2>4, <2>6, <2>7 DEF Occupied
<1> QED BY <1>2, <1>3

\* The multiplier holds what is in flight, or what it drops in this cycle.
LEMMA MulInvCycle ==
  ASSUME IInv, ~stranded, NEW in \in CycleInputs, Clock(in), ~in.flush
  PROVE  MulInv'
<1> USE DEF IInv, UnitInv
<1>1. "mul" \in Units /\ "ex" \in Units
  BY DEF Units
<1>2. CASE MulAccepted
  <2>1. /\ mul' = [valid |-> TRUE, id |-> ex.id]
        /\ live'["mul"] <=> live["ex"]
    BY <1>1, <1>2 DEF Clock, MulStep, LiveStep
  <2>2. /\ ex.valid /\ ~ex.excp /\ ex.inst.futype = "mul" /\ ~mul.valid
        /\ ex.id \in Slots /\ ExReady
    BY <1>2 DEF MulAccepted, UnitValid, ExReady, TypeInv
  <2>3. CASE live["ex"]
    <3>1. sb_mem[ex.id].valid /\ sb_mem[ex.id].inst = ex.inst /\ ~sb_mem[ex.id].executed
          /\ InEx(ex.id)
      BY <2>2, <2>3 DEF ExInv, Occupied, InEx
    <3>2. sb_mem'[ex.id].valid /\ sb_mem'[ex.id].inst.futype = "mul"
      BY <2>2, <3>1, NotCommitting
    <3>3. \A i \in Slots : i = ex.id => ~InEx(i)'
      BY <2>2, <3>1, ExFacts
    <3>4. ~sb_mem'[ex.id].executed
      <4>1. ~FetchFault /\ ~OtherFlu /\ ~MulOut
        BY <2>2 DEF FetchFault, OtherFlu, UnitValid, MulOut
      <4>2. ~(store_d # <<>> /\ store_d[1] = ex.id)
        BY <3>1, HeldFacts DEF WindowStores, InEx
      <4>3. ~(L!WbIsLoad /\ load_id = ex.id)
        BY <3>1, LoadFacts
      <4> QED BY <2>2, <3>1, <4>1, <4>2, <4>3, MarkFacts
    <3> QED BY <2>1, <2>2, <2>3, <3>2, <3>3, <3>4 DEF MulInv, Occupied, InEx
  <2>4. CASE ~live["ex"]
    <3>1. Empty /\ refill = 2
      BY <2>2, <2>4 DEF ExInv
    <3>2. ~Issues(in)
      BY <3>1, PointerFacts
    <3>3. Empty'
      BY <3>1, <3>2, SlotFacts DEF Empty
    <3>4. refill' = 1
      BY <2>2, <3>1, InputsKnown DEF Clock, RefillStep, WireFacts, UnitValid
    <3>5. ~ex'.valid
      BY <2>2, <3>2, ExFacts
    <3> QED BY <2>1, <2>4, <3>3, <3>4, <3>5 DEF MulInv
  <2> QED BY <2>3, <2>4
<1>3. CASE ~MulAccepted /\ mul.valid /\ ~MulOut
  <2>1. mul' = mul /\ (live'["mul"] <=> live["mul"])
    BY <1>1, <1>3 DEF Clock, MulStep, LiveStep
  <2>2. live["mul"]
    BY <1>3 DEF MulInv, MulOut, FetchFault, OtherFlu, UnitValid
  <2>3. /\ mul.id \in Slots /\ sb_mem[mul.id].valid /\ ~InEx(mul.id)
        /\ sb_mem[mul.id].inst.futype = "mul" /\ ~sb_mem[mul.id].executed
    BY <1>3, <2>2 DEF MulInv, Occupied
  <2>4. sb_mem'[mul.id].valid /\ sb_mem'[mul.id].inst.futype = "mul"
    BY <2>3, NotCommitting
  <2>5. \A i \in Slots : i = mul.id => ~InEx(i)'
    BY <2>3, ExFacts
  <2>6. ~sb_mem'[mul.id].executed
    <3>1. ~(store_d # <<>> /\ store_d[1] = mul.id)
      BY <2>3, HeldFacts DEF WindowStores, IsStore
    <3>2. ~(L!WbIsLoad /\ load_id = mul.id)
      BY <2>3, LoadFacts
    <3> QED BY <1>3, <2>3, <3>1, <3>2, MarkFacts
  <2> QED BY <2>1, <2>2, <2>3, <2>4, <2>5, <2>6 DEF MulInv, Occupied, InEx
<1>4. CASE ~MulAccepted /\ ~(mul.valid /\ ~MulOut)
  <2>1. ~mul'.valid
    BY <1>4 DEF Clock, MulStep, IdleMul
  <2> QED BY <2>1 DEF MulInv
<1> QED BY <1>2, <1>3, <1>4

\* The CSR instruction that commits is the one in the buffer.
LEMMA CsrCommitFacts ==
  ASSUME IInv, ~stranded, NoCsrReads, CsrCommit
  PROVE  csr_busy /\ csr.id = commit_ptr /\ live["csr"]
<1>1. /\ sb_mem[commit_ptr].valid /\ sb_mem[commit_ptr].executed
      /\ ~sb_mem[commit_ptr].exception /\ sb_mem[commit_ptr].inst.futype = "csr"
      /\ commit_ptr \in Slots
  BY DEF CsrCommit, HasEffect, IsCsr, oldest, SB!commit_valid, IInv, SP!SbInv, SP!TypeOK,
     SP!Slots, Slots
<1>2. ~sb_mem[commit_ptr].frontend_excp
  BY <1>1 DEF IInv, UnitInv, FaultInv
<1>3. ~InEx(commit_ptr)
  <2>1. SUFFICES ASSUME InEx(commit_ptr) PROVE FALSE
    OBVIOUS
  <2>2. ~csr_busy
    BY <2>1, Alone
  <2> QED BY <1>1, <1>2, <2>1, <2>2 DEF IInv, UnitInv, ExInv, InEx
<1> QED BY <1>1, <1>2, <1>3 DEF IInv, UnitInv, CsrInv

\* A CSR instruction that commits without a flush has its write made.
LEMMA CsrCommits ==
  ASSUME IInv, NEW in \in CycleInputs, Clock(in), ~in.flush
  PROVE  /\ Commits(in) /\ IsCsr(oldest.inst) => CsrCommit
         /\ CsrCommit => Commits(in)
<1>1. WireFacts(in) /\ ~SP!Flush(in.sb)
  BY InputsKnown DEF IInv, WireFacts
<1>2. ASSUME IsCsr(oldest.inst) PROVE in.sb.commit_ready
  BY <1>1, <1>2 DEF CommitReady, IsCsr, IsIdle, IsStore, WireFacts
<1>3. CsrCommit => Commits(in)
  BY <1>2 DEF CsrCommit, HasEffect, Commits, SP!CommitAck, SP!commit_valid, SB!commit_valid
<1>4. ASSUME Commits(in), IsCsr(oldest.inst) PROVE CsrCommit
  <2>1. ~SP!IsSc(sb_mem[commit_ptr].inst)
    BY <1>4 DEF SP!IsSc, IsCsr, oldest
  <2>2. ~oldest.exception /\ ~int_line
    BY <1>1, <1>4, <2>1 DEF SP!Flush, SP!ExValid, SP!InstExcp, SP!IntFlag, Commits,
       WireFacts, oldest
  <2> QED BY <1>4, <2>2 DEF CsrCommit, HasEffect, Commits, SP!CommitAck, SP!commit_valid,
     SB!commit_valid
<1> QED BY <1>3, <1>4

\* The buffer keeps its write until its instruction commits.
LEMMA CsrInvCycle ==
  ASSUME IInv, ~stranded, NoStoreConditionals, NEW in \in CycleInputs, Clock(in), ~in.flush
  PROVE  CsrInv'
<1> USE DEF IInv, UnitInv
<1>1. "csr" \in Units
  BY DEF Units
<1>2. CASE CsrAccepted
  <2>1. /\ csr_busy' => csr'.id = ex.id
        /\ ex.inst.op # "csrrd" => csr_busy' /\ csr'.id = ex.id
        /\ live'["csr"] <=> live["ex"]
    BY <1>1, <1>2 DEF Clock, CsrStep, Write, IdleCsr, LiveStep, csr_busy
  <2>2. /\ ex.valid /\ ~ex.excp /\ ex.inst.futype = "csr"
        /\ ex.id \in Slots /\ ExReady
    BY <1>2 DEF CsrAccepted, UnitValid, ExReady, TypeInv
  <2>3. live["ex"]
    BY <1>2, <2>2, DeadEx DEF CsrAccepted
  <2>4. /\ sb_mem[ex.id].valid /\ sb_mem[ex.id].inst = ex.inst
        /\ ~sb_mem[ex.id].frontend_excp /\ InEx(ex.id)
    BY <2>2, <2>3 DEF ExInv, Occupied, InEx
  <2>5. sb_mem'[ex.id].valid /\ sb_mem'[ex.id].inst.futype = "csr"
        /\ ~sb_mem'[ex.id].frontend_excp
    BY <2>2, <2>4, LeftEx, SlotFacts, PointerFacts
  <2>6. \A i \in Slots : i = ex.id => ~InEx(i)'
    BY <2>2, <2>4, ExFacts
  <2>7. ASSUME NoCsrReads, NEW i \in Slots, sb_mem'[i].valid,
               sb_mem'[i].inst.futype = "csr", ~sb_mem'[i].frontend_excp
        PROVE  InEx(i)' \/ ex.id = i
    <3>1. CASE i = issue_ptr /\ Issues(in)
      BY <3>1, ExFacts
    <3>2. CASE ~(i = issue_ptr /\ Issues(in))
      <4>1. /\ sb_mem[i].valid /\ ~(i = commit_ptr /\ Commits(in))
            /\ sb_mem[i].inst.futype = "csr" /\ ~sb_mem[i].frontend_excp
        BY <2>7, <3>2, SlotFacts
      <4>2. InEx(i) \/ (csr_busy /\ csr.id = i)
        BY <2>7, <4>1 DEF CsrInv
      <4>3. ~(csr_busy /\ csr.id = i)
        BY <1>2, <2>7, <4>1, CsrCommitFacts, CsrCommits DEF CsrAccepted
      <4> QED BY <4>2, <4>3 DEF InEx
    <3> QED BY <3>1, <3>2
  <2>8. NoCsrReads => ex.inst.op # "csrrd"
    BY <2>2 DEF NoCsrReads, TypeInv
  <2> QED BY <2>1, <2>2, <2>3, <2>5, <2>6, <2>7, <2>8 DEF CsrInv, Occupied, InEx
<1>3. CASE ~CsrAccepted /\ csr_busy /\ ~CsrCommit
  <2>1. csr' = csr /\ (live'["csr"] <=> live["csr"]) /\ csr_busy'
    BY <1>1, <1>3 DEF Clock, CsrStep, LiveStep, csr_busy
  <2>2. /\ live["csr"] /\ csr.id \in Slots /\ sb_mem[csr.id].valid /\ ~InEx(csr.id)
        /\ sb_mem[csr.id].inst.futype = "csr" /\ ~sb_mem[csr.id].frontend_excp
    BY <1>3 DEF CsrInv, Occupied
  <2>3. ~(csr.id = commit_ptr /\ Commits(in))
    BY <1>3, <2>2, CsrCommits DEF IsCsr, oldest
  <2>4. sb_mem'[csr.id].valid /\ sb_mem'[csr.id].inst.futype = "csr"
        /\ ~sb_mem'[csr.id].frontend_excp
    BY <2>2, <2>3, SlotFacts, PointerFacts
  <2>5. \A i \in Slots : i = csr.id => ~InEx(i)'
    BY <2>2, ExFacts
  <2>6. ASSUME NoCsrReads, NEW i \in Slots, sb_mem'[i].valid,
               sb_mem'[i].inst.futype = "csr", ~sb_mem'[i].frontend_excp
        PROVE  InEx(i)' \/ csr.id = i
    <3>1. CASE i = issue_ptr /\ Issues(in)
      BY <3>1, ExFacts
    <3>2. CASE ~(i = issue_ptr /\ Issues(in))
      <4>1. /\ sb_mem[i].valid /\ sb_mem[i].inst.futype = "csr" /\ ~sb_mem[i].frontend_excp
        BY <2>6, <3>2, SlotFacts
      <4>2. CASE InEx(i)
        <5>1. ex.inst.futype = "csr"
          BY <4>1, <4>2 DEF ExInv, InEx
        <5> QED BY <1>3, <4>1, <4>2, <5>1, ExFacts DEF ExReady
      <4>3. CASE ~InEx(i)
        BY <2>6, <4>1, <4>3 DEF CsrInv
      <4> QED BY <4>2, <4>3
    <3> QED BY <3>1, <3>2
  <2> QED BY <2>1, <2>2, <2>4, <2>5, <2>6 DEF CsrInv, Occupied, InEx
<1>4. CASE ~CsrAccepted /\ ~(csr_busy /\ ~CsrCommit)
  <2>1. ~csr_busy'
    BY <1>4 DEF Clock, CsrStep, IdleCsr, csr_busy
  <2>2. ASSUME NoCsrReads, NEW i \in Slots, sb_mem'[i].valid,
               sb_mem'[i].inst.futype = "csr", ~sb_mem'[i].frontend_excp
        PROVE  InEx(i)'
    <3>1. CASE i = issue_ptr /\ Issues(in)
      BY <3>1, ExFacts
    <3>2. CASE ~(i = issue_ptr /\ Issues(in))
      <4>1. /\ sb_mem[i].valid /\ ~(i = commit_ptr /\ Commits(in))
            /\ sb_mem[i].inst.futype = "csr" /\ ~sb_mem[i].frontend_excp
        BY <2>2, <3>2, SlotFacts
      <4>2. InEx(i)
        BY <1>4, <2>2, <4>1, CsrCommitFacts, CsrCommits DEF CsrInv
      <4>3. ex.valid /\ ~ex.excp /\ ex.inst.futype = "csr"
        BY <4>1, <4>2 DEF ExInv, InEx
      <4> QED BY <1>4, <4>3 DEF CsrAccepted, UnitValid
    <3> QED BY <3>1, <3>2
  <2> QED BY <2>1, <2>2 DEF CsrInv
<1> QED BY <1>2, <1>3, <1>4

\* The mark of a search goes with the instruction that is in the buffer.
LEMMA SearchInvCycle ==
  ASSUME IInv, ~stranded, NoStoreConditionals, NEW in \in CycleInputs, Clock(in), ~in.flush
  PROVE  SearchInv'
<1> USE DEF IInv, UnitInv
<1>1. "search" \in Units
  BY DEF Units
<1>2. CASE CsrAccepted
  <2>1. /\ ex.valid /\ ~ex.excp /\ ex.inst.futype = "csr" /\ ex.id \in Slots
    BY <1>2 DEF CsrAccepted, UnitValid, TypeInv
  <2>2. live["ex"]
    BY <1>2, <2>1, DeadEx DEF CsrAccepted
  <2>3. sb_mem[ex.id].valid /\ sb_mem[ex.id].inst = ex.inst /\ InEx(ex.id)
    BY <2>1, <2>2 DEF ExInv, Occupied, InEx
  <2>4. sb_mem'[ex.id].inst = ex.inst
    BY <2>1, <2>3, LeftEx, SlotFacts, PointerFacts
  <2>5. csr' = Write
    BY <1>2 DEF Clock, CsrStep
  <2>6. CASE ex.inst.op = "tlbsrch"
    <3>1. tlbsrch_ongoing' = TRUE
      BY <1>2, <2>6 DEF Clock, SearchStep, SearchAccepted, TypeInv
    <3>2. csr'.pending = "write" /\ csr'.id = ex.id
      BY <2>5, <2>6 DEF Write
    <3> QED BY <2>4, <2>6, <3>1, <3>2 DEF SearchInv, csr_busy
  <2>7. CASE ex.inst.op # "tlbsrch"
    <3>1. ~(tlbsrch_ongoing' /\ live'["search"])
      <4>1. SUFFICES ASSUME tlbsrch_ongoing', live'["search"] PROVE FALSE
        OBVIOUS
      <4>2. tlbsrch_ongoing /\ ~CsrCommit /\ live["search"]
        BY <1>1, <2>7, <4>1 DEF Clock, SearchStep, SearchAccepted, LiveStep, TypeInv
      <4> QED BY <1>2, <4>2 DEF CsrAccepted, SearchInv
    <3>2. csr_busy' => csr'.id = ex.id
      BY <2>5 DEF Write, IdleCsr, csr_busy
    <3> QED BY <2>4, <2>7, <3>1, <3>2 DEF SearchInv
  <2> QED BY <2>6, <2>7
<1>3. CASE ~CsrAccepted /\ CsrCommit
  <2>1. ~csr_busy' /\ ~tlbsrch_ongoing'
    BY <1>3 DEF Clock, CsrStep, SearchStep, SearchAccepted, IdleCsr, csr_busy
  <2> QED BY <2>1 DEF SearchInv
<1>4. CASE ~CsrAccepted /\ ~CsrCommit
  <2>1. /\ csr' = csr /\ (csr_busy' <=> csr_busy)
        /\ tlbsrch_ongoing' = tlbsrch_ongoing
        /\ live'["search"] <=> live["search"]
    BY <1>1, <1>4 DEF Clock, CsrStep, SearchStep, SearchAccepted, LiveStep, csr_busy, TypeInv
  <2>2. ASSUME csr_busy PROVE sb_mem'[csr.id].inst = sb_mem[csr.id].inst
    <3>1. /\ csr.id \in Slots /\ sb_mem[csr.id].valid
          /\ sb_mem[csr.id].inst.futype = "csr"
      BY <2>2 DEF CsrInv, Occupied
    <3>2. ~(csr.id = commit_ptr /\ Commits(in))
      BY <1>4, <3>1, CsrCommits DEF IsCsr, oldest
    <3> QED BY <3>1, <3>2, SlotFacts, PointerFacts
  <2> QED BY <2>1, <2>2 DEF SearchInv
<1> QED BY <1>2, <1>3, <1>4

-----------------------------------------------------------------------------
(* The stores.                                                             *)

Pops(in) == StoreCommit /\ in.lsu.req_ready
Accepts     == UnitValid("lsu") /\ LsuKind(ex.inst) = "store" /\ ExReady
AcceptsLoad == UnitValid("lsu") /\ LsuKind(ex.inst) = "load" /\ ExReady

\* What the unit's wires say of an operation that it takes.
LEMMA Accepted ==
  ASSUME TypeInv, NEW in \in CycleInputs
  PROVE  /\ L!StoreAccepted(in.lsu) <=> Accepts /\ ~in.flush
         /\ L!LoadAccepted(in.lsu) <=> AcceptsLoad
<1>1. WireFacts(in)
  BY InputsKnown
<1>2. UnitValid("lsu") => ex.inst.futype = "lsu"
  BY DEF UnitValid
<1>3. LsuKind(ex.inst) \in {"load", "store"}
  BY DEF LsuKind
<1> QED BY <1>1, <1>2, <1>3 DEF L!StoreAccepted, L!LoadAccepted, Accepts, AcceptsLoad, ExReady,
       WireFacts

\* How the unit takes and queues stores.
LEMMA LsuFacts ==
  ASSUME IInv, NEW in \in CycleInputs, Clock(in)
  PROVE  /\ store_d' = IF Accepts /\ ~in.flush THEN <<ex.id>> ELSE <<>>
         /\ stores' = IF in.flush THEN <<>>
                      ELSE (IF Pops(in) THEN Tail(stores) ELSE stores) \o store_d
         /\ Accepts /\ ~in.flush => (live'["store_d"] <=> live["ex"])
<1>1. WireFacts(in) /\ L!Clock(in.lsu)
  BY InputsKnown DEF IInv, Clock
<1>2. store_d' = IF Accepts /\ ~in.flush THEN <<ex.id>> ELSE <<>>
  BY <1>1, Accepted DEF IInv, L!Clock, WireFacts
<1>3. stores' = IF in.flush THEN <<>>
                ELSE (IF Pops(in) THEN Tail(stores) ELSE stores) \o store_d
  BY <1>1 DEF L!Clock, L!NextStores, L!StoreCommitAck, Pops, WireFacts
<1>4. Accepts /\ ~in.flush => (live'["store_d"] <=> live["ex"])
  <2>1. "store_d" \in Units
    BY DEF Units
  <2> QED BY <2>1, Accepted DEF IInv, Clock, LiveStep
<1> QED BY <1>2, <1>3, <1>4

\* How it takes loads: one at a time, the next one after the write-back.
LEMMA LoadSteps ==
  ASSUME TypeInv, NEW in \in CycleInputs, Clock(in)
  PROVE  /\ AcceptsLoad => /\ lstate = "lIdle" /\ load_id' = ex.id
                           /\ live'["load"] <=> live["ex"] /\ ~in.flush
         /\ ~AcceptsLoad => /\ load_id' = load_id
                            /\ live'["load"] <=> live["load"] /\ ~in.flush
                            /\ lstate = "lIdle" \/ L!WbIsLoad => lstate' = "lIdle"
<1>1. L!Clock(in.lsu) /\ WireFacts(in) /\ "load" \in Units
  BY InputsKnown DEF Clock, Units
<1>2. AcceptsLoad => lstate = "lIdle"
  BY Accepted DEF L!LoadAccepted, L!InReady
<1>3. load_id' = IF AcceptsLoad THEN ex.id ELSE load_id
  BY <1>1, Accepted DEF L!Clock, WireFacts
<1>4. live'["load"] <=> IF AcceptsLoad THEN live["ex"] /\ ~in.flush
                                       ELSE live["load"] /\ ~in.flush
  BY <1>1, Accepted DEF Clock, LiveStep
<1>5. ~AcceptsLoad /\ (lstate = "lIdle" \/ L!WbIsLoad) => lstate' = "lIdle"
  BY <1>1, Accepted DEF L!Clock, L!NextLstate, L!LoadExcp, L!WbIsLoad
<1> QED BY <1>2, <1>3, <1>4, <1>5

\* A store that commits without a flush is the oldest one in the queue.
LEMMA PopFacts ==
  ASSUME IInv, ~stranded, NoStoreConditionals, NEW in \in CycleInputs, Clock(in), ~in.flush
  PROVE  /\ Pops(in) => Commits(in)
         /\ Commits(in) /\ IsStore(oldest.inst) => Pops(in)
<1>1. WireFacts(in) /\ ~SP!Flush(in.sb)
  BY InputsKnown DEF IInv, WireFacts
<1>2. ASSUME IsStore(oldest.inst) PROVE in.sb.commit_ready <=> in.lsu.req_ready
  BY <1>1, <1>2 DEF CommitReady, IsIdle, IsStore, WireFacts
<1>3. Pops(in) => Commits(in)
  BY <1>2 DEF Pops, StoreCommit, HasEffect, Commits, SP!CommitAck, SP!commit_valid,
     SB!commit_valid
<1>4. ASSUME Commits(in), IsStore(oldest.inst) PROVE Pops(in)
  <2>1. ~SP!IsSc(sb_mem[commit_ptr].inst)
    BY DEF IInv, SP!SbInv, SP!TypeOK, SP!Entry, SP!Slots, Slots, NoStoreConditionals, SP!IsSc
  <2>2. ~oldest.exception /\ ~int_line
    BY <1>1, <1>4, <2>1 DEF SP!Flush, SP!ExValid, SP!InstExcp, SP!IntFlag, Commits,
       WireFacts, oldest
  <2>3. in.lsu.req_ready
    BY <1>2, <1>4 DEF Commits, SP!CommitAck
  <2> QED BY <1>4, <2>2, <2>3 DEF Pops, StoreCommit, HasEffect, Commits, SP!CommitAck,
     SP!commit_valid, SB!commit_valid
<1> QED BY <1>3, <1>4

\* A store that commits heads the queue.
LEMMA StoreCommitFacts ==
  ASSUME IInv, ~stranded, StoreCommit
  PROVE  stores # <<>> /\ stores[1] = commit_ptr /\ commit_ptr \in WindowStores
<1>1. /\ sb_mem[commit_ptr].valid /\ sb_mem[commit_ptr].executed
      /\ ~sb_mem[commit_ptr].exception /\ IsStore(sb_mem[commit_ptr].inst)
      /\ commit_ptr \in Slots
  BY DEF StoreCommit, HasEffect, oldest, SB!commit_valid, IInv, SP!SbInv, SP!TypeOK,
     SP!Slots, Slots
<1>2. ~sb_mem[commit_ptr].frontend_excp
  BY <1>1 DEF IInv, UnitInv, FaultInv
<1>3. ~InEx(commit_ptr)
  <2>1. SUFFICES ASSUME InEx(commit_ptr) PROVE FALSE
    OBVIOUS
  <2>2. ex.excp \/ ex.inst.futype = "csr"
    BY <1>1, <2>1 DEF IInv, UnitInv, ExInv, InEx
  <2> QED BY <1>1, <1>2, <2>1, <2>2 DEF IInv, UnitInv, ExInv, InEx, IsStore
<1>4. commit_ptr \in WindowStores
  BY <1>1, <1>2, <1>3 DEF WindowStores, InEx
<1>5. PICK k \in 1 .. Len(HeldStores) : HeldStores[k] = commit_ptr
  BY <1>4 DEF IInv, UnitInv, StoresInProgramOrder
<1>6. /\ HeldStores \in Seq(Slots) /\ stores \in Seq(Slots)
      /\ (store_d = <<>> \/ \E i \in Slots : store_d = <<i>>)
  BY HeldTypes DEF IInv, TypeInv
<1>7. k = 1
  <2>1. SUFFICES ASSUME 1 < k PROVE FALSE
    BY <1>6
  <2>2. SB!Dist(commit_ptr, HeldStores[1]) < SB!Dist(commit_ptr, commit_ptr)
    BY <1>5, <1>6, <2>1 DEF IInv, UnitInv, StoresInProgramOrder
  <2>3. HeldStores[1] \in Slots
    BY <1>6, <2>1
  <2> QED BY <1>1, <2>2, <2>3, BackendAssumption DEF SB!Dist, Slots
<1>8. stores # <<>>
  <2>1. SUFFICES ASSUME stores = <<>> PROVE FALSE
    OBVIOUS
  <2>2. store_d # <<>> /\ store_d[1] = commit_ptr
    BY <1>5, <1>6, <1>7, <2>1 DEF HeldStores
  <2> QED BY <1>1, <2>2 DEF IInv, UnitInv, StoreInv
<1>9. HeldStores[1] = stores[1]
  BY <1>6, <1>8 DEF HeldStores
<1> QED BY <1>4, <1>5, <1>7, <1>8, <1>9

\* A store that was accepted is written back one cycle later.
LEMMA StoreInvCycle ==
  ASSUME IInv, ~stranded, NEW in \in CycleInputs, Clock(in), ~in.flush
  PROVE  StoreInv'
<1> USE DEF IInv, UnitInv
<1>1. stores' \in Seq(Slots)
  <2>1. stores \in Seq(Slots) /\ store_d \in Seq(Slots)
    BY HeldTypes
  <2>2. Pops(in) => Tail(stores) \in Seq(Slots)
    BY <2>1, StoreCommitFacts, HeadTailProperties DEF Pops
  <2>3. (IF Pops(in) THEN Tail(stores) ELSE stores) \in Seq(Slots)
    BY <2>1, <2>2
  <2>4. stores' = (IF Pops(in) THEN Tail(stores) ELSE stores) \o store_d
    BY LsuFacts
  <2> QED BY <2>1, <2>3, <2>4, ConcatProperties
<1>2. CASE ~Accepts
  BY <1>1, <1>2, LsuFacts DEF StoreInv
<1>3. CASE Accepts
  <2>1. store_d' = <<ex.id>> /\ (live'["store_d"] <=> live["ex"])
    BY <1>3, LsuFacts
  <2>2. /\ ex.valid /\ ~ex.excp /\ ex.inst.futype = "lsu" /\ ex.id \in Slots
    BY <1>3 DEF Accepts, UnitValid, TypeInv
  <2>3. live["ex"]
    BY <1>3, <2>2, DeadEx DEF Accepts
  <2>4. ~sb_mem[ex.id].executed /\ InEx(ex.id)
    BY <2>2, <2>3 DEF ExInv, InEx
  <2>5. ~FetchFault /\ ~OtherFlu
    BY <2>2 DEF FetchFault, OtherFlu, UnitValid
  <2>6. ~(MulOut /\ live["mul"] /\ mul.id = ex.id)
    BY <2>4 DEF MulOut, MulInv
  <2>7. ~(store_d # <<>> /\ store_d[1] = ex.id)
    BY <2>4, HeldFacts DEF WindowStores, InEx
  <2>8. ~(L!WbIsLoad /\ load_id = ex.id)
    BY <2>4, LoadFacts
  <2>9. ~sb_mem'[ex.id].executed
    BY <2>2, <2>4, <2>5, <2>6, <2>7, <2>8, MarkFacts
  <2> QED BY <1>1, <2>1, <2>3, <2>9 DEF StoreInv
<1> QED BY <1>2, <1>3

\* A load that was accepted stays in its slot until it writes back.
LEMMA LoadInvCycle ==
  ASSUME IInv, ~stranded, NEW in \in CycleInputs, Clock(in), ~in.flush
  PROVE  LoadInv'
<1> USE DEF IInv, UnitInv
<1>1. CASE AcceptsLoad
  <2>1. load_id' = ex.id /\ lstate = "lIdle" /\ (live'["load"] <=> live["ex"])
    BY <1>1, LoadSteps
  <2>2. /\ ex.valid /\ ~ex.excp /\ ex.inst.futype = "lsu" /\ LsuKind(ex.inst) = "load"
        /\ ex.id \in Slots /\ ExReady
    BY <1>1 DEF AcceptsLoad, UnitValid, TypeInv
  <2>3. live["ex"]
    BY <1>1, <2>2, DeadEx DEF AcceptsLoad
  <2>4. /\ sb_mem[ex.id].valid /\ sb_mem[ex.id].inst = ex.inst /\ ~sb_mem[ex.id].executed
        /\ InEx(ex.id)
    BY <2>2, <2>3 DEF ExInv, Occupied, InEx
  <2>5. ~IsStore(ex.inst)
    BY <2>2 DEF LsuKind, IsStore
  <2>6. sb_mem'[ex.id].valid /\ sb_mem'[ex.id].inst = ex.inst
    BY <2>2, <2>4, NotCommitting
  <2>7. \A i \in Slots : i = ex.id => ~InEx(i)'
    BY <2>2, <2>4, ExFacts
  <2>8. ~sb_mem'[ex.id].executed
    <3>1. ~FetchFault /\ ~OtherFlu
      BY <2>2 DEF FetchFault, OtherFlu, UnitValid
    <3>2. ~(MulOut /\ live["mul"] /\ mul.id = ex.id)
      BY <2>4 DEF MulOut, MulInv
    <3>3. ~(store_d # <<>> /\ store_d[1] = ex.id)
      BY <2>4, HeldFacts DEF WindowStores, InEx
    <3>4. ~L!WbIsLoad
      BY <2>1 DEF L!WbIsLoad
    <3> QED BY <2>2, <2>4, <3>1, <3>2, <3>3, <3>4, MarkFacts
  <2> QED BY <2>1, <2>2, <2>3, <2>5, <2>6, <2>7, <2>8 DEF LoadInv, Occupied, InEx
<1>2. CASE ~AcceptsLoad /\ (lstate = "lIdle" \/ L!WbIsLoad)
  BY <1>2, LoadSteps DEF LoadInv
<1>3. CASE ~AcceptsLoad /\ lstate # "lIdle" /\ ~L!WbIsLoad
  <2>1. load_id' = load_id /\ (live'["load"] <=> live["load"])
    BY <1>3, LoadSteps
  <2>2. /\ live["load"] /\ load_id \in Slots /\ sb_mem[load_id].valid /\ ~InEx(load_id)
        /\ sb_mem[load_id].inst.futype = "lsu" /\ ~IsStore(sb_mem[load_id].inst)
        /\ ~sb_mem[load_id].executed
    BY <1>3 DEF LoadInv, Occupied
  <2>3. sb_mem'[load_id].valid /\ sb_mem'[load_id].inst = sb_mem[load_id].inst
    BY <2>2, NotCommitting
  <2>4. \A i \in Slots : i = load_id => ~InEx(i)'
    BY <2>2, ExFacts
  <2>5. ~sb_mem'[load_id].executed
    <3>1. ~(MulOut /\ live["mul"] /\ mul.id = load_id)
      BY <2>2 DEF MulOut, MulInv
    <3>2. ~(store_d # <<>> /\ store_d[1] = load_id)
      BY <2>2, HeldFacts DEF WindowStores
    <3> QED BY <1>3, <2>2, <3>1, <3>2, MarkFacts
  <2> QED BY <2>1, <2>2, <2>3, <2>4, <2>5 DEF LoadInv, Occupied, InEx
<1> QED BY <1>1, <1>2, <1>3

\* A concatenation, by its positions.
LEMMA Positions ==
  ASSUME NEW S, NEW s \in Seq(S), NEW t \in Seq(S), NEW u, u = s \o t
  PROVE  /\ u \in Seq(S) /\ Len(u) = Len(s) + Len(t)
         /\ \A k \in 1 .. Len(u) : u[k] = IF k <= Len(s) THEN s[k] ELSE t[k - Len(s)]
  BY ConcatProperties

\* What the unit holds after a cycle: the store that commits has left, the one
\* that was accepted has come last.
LEMMA HeldAfter ==
  ASSUME IInv, ~stranded, NEW in \in CycleInputs, Clock(in), ~in.flush
  PROVE  LET gone == IF Pops(in) THEN 1 ELSE 0
             n    == Len(HeldStores) - gone
         IN  /\ n \in Nat /\ gone \in {0, 1}
             /\ Len(HeldStores') = n + (IF Accepts THEN 1 ELSE 0)
             /\ \A k \in 1 .. n : HeldStores'[k] = HeldStores[k + gone]
             /\ Accepts => HeldStores'[n + 1] = ex.id
<1> DEFINE gone == IF Pops(in) THEN 1 ELSE 0
<1> DEFINE rest == IF Pops(in) THEN Tail(stores) ELSE stores
<1> DEFINE mid  == rest \o store_d
<1> DEFINE new  == IF Accepts THEN <<ex.id>> ELSE <<>>
<1>1. /\ stores \in Seq(Slots) /\ store_d \in Seq(Slots)
      /\ Len(stores) \in Nat /\ Len(store_d) \in Nat
      /\ Len(HeldStores) = Len(stores) + Len(store_d)
      /\ \A k \in 1 .. Len(HeldStores) :
           HeldStores[k] = IF k <= Len(stores) THEN stores[k] ELSE store_d[k - Len(stores)]
  BY HeldTypes, LenProperties, ConcatProperties DEF HeldStores
<1>2. Pops(in) => stores # <<>>
  BY StoreCommitFacts DEF Pops
<1>3. /\ rest \in Seq(Slots) /\ Len(rest) = Len(stores) - gone /\ Len(rest) \in Nat
      /\ \A k \in 1 .. Len(rest) : rest[k] = stores[k + gone]
  BY <1>1, <1>2, HeadTailProperties, LenProperties
<1>4. new \in Seq(Slots) /\ Len(new) = (IF Accepts THEN 1 ELSE 0)
      /\ (Accepts => new[1] = ex.id)
  BY DEF IInv, TypeInv
<1>5. HeldStores' = mid \o new
  BY LsuFacts DEF HeldStores
<1> HIDE DEF rest, new, gone
<1>6. gone \in {0, 1}
  BY DEF gone
<1>7. /\ mid \in Seq(Slots) /\ Len(mid) = Len(rest) + Len(store_d)
      /\ \A k \in 1 .. Len(mid) :
           mid[k] = IF k <= Len(rest) THEN rest[k] ELSE store_d[k - Len(rest)]
  <2>1. mid = rest \o store_d
    OBVIOUS
  <2> HIDE DEF mid
  <2> QED BY <1>1, <1>3, <2>1, Positions
<1>8. \A k \in 1 .. Len(mid) : mid[k] = HeldStores[k + gone]
  BY <1>1, <1>3, <1>6, <1>7
<1> HIDE DEF mid
<1>9. /\ Len(HeldStores') = Len(mid) + Len(new)
      /\ \A k \in 1 .. Len(mid) + Len(new) :
           HeldStores'[k] = IF k <= Len(mid) THEN mid[k] ELSE new[k - Len(mid)]
  <2> DEFINE after == HeldStores'
  <2>1. after = mid \o new
    BY <1>5
  <2> HIDE DEF after
  <2>2. /\ Len(after) = Len(mid) + Len(new)
        /\ \A k \in 1 .. Len(after) :
             after[k] = IF k <= Len(mid) THEN mid[k] ELSE new[k - Len(mid)]
    BY <1>4, <1>7, <2>1, Positions
  <2> QED BY <2>2 DEF after
<1>10. Len(mid) = Len(HeldStores) - gone /\ Len(mid) \in Nat
  BY <1>1, <1>3, <1>6, <1>7
<1>11. /\ Len(HeldStores') = Len(mid) + (IF Accepts THEN 1 ELSE 0)
       /\ \A k \in 1 .. Len(mid) : HeldStores'[k] = HeldStores[k + gone]
       /\ Accepts => HeldStores'[Len(mid) + 1] = ex.id
  BY <1>4, <1>8, <1>9, <1>10
<1> QED BY <1>6, <1>10, <1>11 DEF gone

\* The stores of the window that left the operand register, after a cycle.
LEMMA WindowStoresAfter ==
  ASSUME IInv, ~stranded, NoStoreConditionals, NEW in \in CycleInputs, Clock(in), ~in.flush,
         NEW i \in Slots
  PROVE  i \in WindowStores' <=>
           \/ i \in WindowStores /\ ~(Pops(in) /\ i = commit_ptr)
           \/ Accepts /\ i = ex.id
<1> USE DEF IInv, UnitInv
<1>1. ASSUME i \in WindowStores'
      PROVE  \/ i \in WindowStores /\ ~(Pops(in) /\ i = commit_ptr)
             \/ Accepts /\ i = ex.id
  <2>1. sb_mem'[i].valid /\ IsStore(sb_mem'[i].inst) /\ ~sb_mem'[i].frontend_excp
        /\ ~InEx(i)'
    BY <1>1 DEF WindowStores, InEx
  <2>2. ~(i = issue_ptr /\ Issues(in))
    BY <2>1, ExFacts
  <2>3. /\ sb_mem[i].valid /\ IsStore(sb_mem[i].inst) /\ ~sb_mem[i].frontend_excp
        /\ ~(i = commit_ptr /\ Commits(in))
    BY <2>1, <2>2, SlotFacts
  <2>4. ~(Pops(in) /\ i = commit_ptr)
    BY <2>3, PopFacts
  <2>5. CASE ~InEx(i)
    BY <2>3, <2>4, <2>5 DEF WindowStores, InEx
  <2>6. CASE InEx(i)
    <3>1. ExReady
      BY <2>1, <2>3, <2>6, ExFacts
    <3>2. ex.valid /\ ex.id = i /\ ~ex.excp /\ IsStore(ex.inst)
      BY <2>3, <2>6 DEF ExInv, InEx
    <3> QED BY <3>1, <3>2 DEF Accepts, UnitValid, LsuKind, IsStore
  <2> QED BY <2>5, <2>6
<1>2. ASSUME i \in WindowStores, ~(Pops(in) /\ i = commit_ptr)
      PROVE  i \in WindowStores'
  <2>1. sb_mem[i].valid /\ IsStore(sb_mem[i].inst) /\ ~sb_mem[i].frontend_excp /\ ~InEx(i)
    BY <1>2 DEF WindowStores, InEx
  <2>2. ~(i = commit_ptr /\ Commits(in)) /\ i # issue_ptr
    BY <1>2, <2>1, PopFacts, PointerFacts DEF oldest
  <2>3. sb_mem'[i].valid /\ IsStore(sb_mem'[i].inst) /\ ~sb_mem'[i].frontend_excp
    BY <2>1, <2>2, SlotFacts
  <2>4. ~InEx(i)'
    BY <2>1, ExFacts
  <2> QED BY <2>3, <2>4 DEF WindowStores, InEx
<1>3. ASSUME Accepts, i = ex.id
      PROVE  i \in WindowStores'
  <2>1. /\ ex.valid /\ ~ex.excp /\ ExReady
        /\ ex.inst.futype = "lsu" /\ LsuKind(ex.inst) = "store"
    BY <1>3 DEF Accepts, UnitValid
  <2>2. live["ex"]
    BY <1>3, <2>1, DeadEx DEF Accepts
  <2>3. /\ sb_mem[i].valid /\ sb_mem[i].inst = ex.inst /\ ~sb_mem[i].frontend_excp
        /\ ~sb_mem[i].executed /\ InEx(i)
    BY <1>3, <2>1, <2>2 DEF ExInv, Occupied, InEx
  <2>4. IsStore(sb_mem[i].inst)
    BY <2>1, <2>3 DEF LsuKind, IsStore
  <2>5. ~(i = commit_ptr /\ Commits(in)) /\ i # issue_ptr
    BY <2>3, PointerFacts
  <2>6. sb_mem'[i].valid /\ IsStore(sb_mem'[i].inst) /\ ~sb_mem'[i].frontend_excp
    BY <2>3, <2>4, <2>5, SlotFacts
  <2>7. ~InEx(i)'
    BY <2>1, <2>3, ExFacts
  <2> QED BY <2>6, <2>7 DEF WindowStores, InEx
<1> QED BY <1>1, <1>2, <1>3

\* The order of two slots that stay in flight does not change, and the
\* instruction of the operand register comes after every other.
LEMMA OrderFacts ==
  ASSUME IInv, NEW in \in CycleInputs, Clock(in), ~in.flush,
         NEW i \in Slots, NEW j \in Slots, sb_mem[i].valid, sb_mem[j].valid
  PROVE  /\ ~(Commits(in) /\ (i = commit_ptr \/ j = commit_ptr)) =>
              (SB!Dist(commit_ptr', i) < SB!Dist(commit_ptr', j) <=>
                 SB!Dist(commit_ptr, i) < SB!Dist(commit_ptr, j))
         /\ ~stranded /\ InEx(j) /\ i # j =>
              SB!Dist(commit_ptr, i) < SB!Dist(commit_ptr, j)
<1>1. \A a, b : SB!Dist(a, b) = SP!Dist(a, b)
  BY DEF SB!Dist, SP!Dist
<1>2. /\ i \in SP!Slots /\ j \in SP!Slots /\ commit_ptr \in SP!Slots
      /\ issue_ptr \in SP!Slots /\ SP!Window
  BY DEF IInv, SP!SbInv, SP!TypeOK, SP!Slots, Slots
<1>3. commit_ptr' = IF Commits(in) THEN SP!Succ(commit_ptr) ELSE commit_ptr
  BY PointerFacts
<1>4. ASSUME ~(Commits(in) /\ (i = commit_ptr \/ j = commit_ptr))
      PROVE  SP!Dist(commit_ptr', i) < SP!Dist(commit_ptr', j) <=>
               SP!Dist(commit_ptr, i) < SP!Dist(commit_ptr, j)
  <2>1. CASE ~Commits(in)
    BY <1>3, <2>1
  <2>2. CASE Commits(in)
    <3>1. /\ SP!Dist(commit_ptr', i) = SP!Dist(commit_ptr, i) - 1
          /\ SP!Dist(commit_ptr', j) = SP!Dist(commit_ptr, j) - 1
      BY <1>2, <1>3, <1>4, <2>2, SbAssumptions, SP!DistSuccLeft
    <3>2. SP!Dist(commit_ptr, i) \in Int /\ SP!Dist(commit_ptr, j) \in Int
      BY <1>2, SbAssumptions, SP!DistRange
    <3> QED BY <3>1, <3>2
  <2> QED BY <2>1, <2>2
<1>5. ASSUME ~stranded, InEx(j), i # j
      PROVE  SP!Dist(commit_ptr, i) < SP!Dist(commit_ptr, j)
  <2>1. SP!Succ(j) = issue_ptr
    BY <1>5 DEF IInv, UnitInv, ExInv, InEx
  <2>2. /\ SP!Dist(commit_ptr, i) < SP!InFlight /\ SP!Dist(commit_ptr, j) < SP!InFlight
        /\ SP!InFlight = SP!Dist(commit_ptr, issue_ptr)
    BY <1>2 DEF SP!Window, SP!InFlight
  <2>3. /\ SP!Dist(commit_ptr, i) \in 0 .. NR_ENTRIES - 1
        /\ SP!Dist(commit_ptr, j) \in 0 .. NR_ENTRIES - 1
        /\ SP!Dist(commit_ptr, issue_ptr) \in 0 .. NR_ENTRIES - 1
    BY <1>2, SbAssumptions, SP!DistRange
  <2>4. SP!Dist(commit_ptr, j) < NR_ENTRIES - 1
    BY <2>2, <2>3, SbAssumptions
  <2>5. SP!InFlight = SP!Dist(commit_ptr, j) + 1
    BY <1>2, <2>1, <2>2, <2>4, SbAssumptions, SP!DistSuccRight
  <2>6. SP!Dist(commit_ptr, i) # SP!Dist(commit_ptr, j)
    BY <1>2, <1>5, SbAssumptions, SP!DistInjective
  <2> QED BY <2>2, <2>3, <2>5, <2>6
<1> QED BY <1>1, <1>4, <1>5

\* The unit goes on holding the window's stores in program order.
LEMMA StoresCycle ==
  ASSUME IInv, ~stranded, NoStoreConditionals, NEW in \in CycleInputs, Clock(in), ~in.flush
  PROVE  StoresInProgramOrder'
<1> DEFINE gone == IF Pops(in) THEN 1 ELSE 0
<1> DEFINE n    == Len(HeldStores) - gone
<1>1. /\ n \in Nat /\ gone \in {0, 1} /\ Len(HeldStores) = n + gone
      /\ Len(HeldStores') = n + (IF Accepts THEN 1 ELSE 0)
      /\ \A k \in 1 .. n : HeldStores'[k] = HeldStores[k + gone]
      /\ Accepts => HeldStores'[n + 1] = ex.id
  <2>1. Len(HeldStores) \in Nat
    BY HeldTypes, LenProperties
  <2> QED BY <2>1, HeldAfter
<1>2. Pops(in) <=> gone = 1
  OBVIOUS
<1> HIDE DEF gone, n
<1>3. /\ { HeldStores[k] : k \in 1 .. Len(HeldStores) } = WindowStores
      /\ \A j, k \in 1 .. Len(HeldStores) :
           j < k => SB!Dist(commit_ptr, HeldStores[j]) < SB!Dist(commit_ptr, HeldStores[k])
  BY DEF IInv, UnitInv, StoresInProgramOrder
<1>4. ASSUME Pops(in)
      PROVE  HeldStores[1] = commit_ptr /\ 1 \in 1 .. Len(HeldStores)
  <2>1. stores # <<>> /\ stores[1] = commit_ptr
    BY <1>4, StoreCommitFacts DEF Pops
  <2> QED BY <2>1, HeldTypes DEF HeldStores
<1>5. commit_ptr \in Slots
  BY PointerFacts
\* What stays in the queue is not the store that commits.
<1>6. ASSUME NEW k \in 1 .. n
      PROVE  /\ k + gone \in 1 .. Len(HeldStores)
             /\ HeldStores'[k] = HeldStores[k + gone]
             /\ HeldStores'[k] \in WindowStores
             /\ HeldStores'[k] \in Slots
             /\ sb_mem[HeldStores'[k]].valid
             /\ ~InEx(HeldStores'[k])
             /\ ~(Commits(in) /\ HeldStores'[k] = commit_ptr)
             /\ HeldStores'[k] \in WindowStores'
  <2> DEFINE s == HeldStores'[k]
  <2>1. k + gone \in 1 .. Len(HeldStores) /\ s = HeldStores[k + gone]
    BY <1>1
  <2>2. s \in WindowStores
    BY <1>3, <2>1
  <2> HIDE DEF s
  <2>3. s \in Slots /\ sb_mem[s].valid /\ ~InEx(s) /\ IsStore(sb_mem[s].inst)
    BY <2>2 DEF WindowStores, InEx
  <2>4. ~(Pops(in) /\ s = commit_ptr)
    <3>1. SUFFICES ASSUME Pops(in), s = commit_ptr PROVE FALSE
      OBVIOUS
    <3>2. SB!Dist(commit_ptr, commit_ptr) < SB!Dist(commit_ptr, commit_ptr)
      <4>1. 1 \in 1 .. Len(HeldStores) /\ k + gone \in 1 .. Len(HeldStores) /\ 1 < k + gone
        BY <1>2, <1>4, <2>1, <3>1
      <4>2. SB!Dist(commit_ptr, HeldStores[1]) < SB!Dist(commit_ptr, HeldStores[k + gone])
        BY <1>3, <4>1
      <4>3. HeldStores[1] = commit_ptr /\ HeldStores[k + gone] = commit_ptr
        BY <1>4, <2>1, <3>1
      <4> QED BY <4>2, <4>3, Zenon
    <3> QED BY <1>5, <3>2, BackendAssumption DEF SB!Dist, Slots
  <2>5. ~(Commits(in) /\ s = commit_ptr)
    BY <2>3, <2>4, PopFacts DEF oldest
  <2>6. s \in WindowStores'
    BY <2>2, <2>3, <2>4, WindowStoresAfter
  <2> QED BY <2>1, <2>2, <2>3, <2>5, <2>6 DEF s
<1>7. ASSUME Accepts
      PROVE  /\ ex.id \in Slots /\ ex.id \in WindowStores' /\ InEx(ex.id)
             /\ sb_mem[ex.id].valid
             /\ ~(Commits(in) /\ ex.id = commit_ptr)
  <2>1. ex.valid /\ ex.id \in Slots /\ UnitValid("lsu")
    BY <1>7 DEF Accepts, UnitValid, IInv, TypeInv
  <2>2. InEx(ex.id)
    BY <2>1, DeadEx DEF InEx
  <2>3. sb_mem[ex.id].valid
    BY <2>2 DEF InEx, IInv, UnitInv, ExInv, Occupied
  <2> QED BY <1>7, <2>1, <2>2, <2>3, WindowStoresAfter, LeftEx
<1>8. { HeldStores'[k] : k \in 1 .. Len(HeldStores') } = WindowStores'
  <2>1. ASSUME NEW k \in 1 .. Len(HeldStores') PROVE HeldStores'[k] \in WindowStores'
    <3>1. k \in 1 .. n \/ (Accepts /\ k = n + 1)
      BY <1>1
    <3> QED BY <1>1, <1>6, <1>7, <3>1
  <2>2. ASSUME NEW i \in WindowStores'
        PROVE  \E k \in 1 .. Len(HeldStores') : HeldStores'[k] = i
    <3>1. i \in Slots
      BY DEF WindowStores
    <3>2. CASE i \in WindowStores /\ ~(Pops(in) /\ i = commit_ptr)
      <4>1. PICK k \in 1 .. Len(HeldStores) : HeldStores[k] = i
        BY <1>3, <3>2
      <4>2. k - gone \in 1 .. n
        BY <1>1, <1>2, <1>4, <3>2, <4>1
      <4>3. (k - gone) + gone = k /\ k - gone \in 1 .. Len(HeldStores')
        BY <1>1, <4>1, <4>2
      <4>4. HeldStores'[k - gone] = i
        BY <1>6, <4>1, <4>2, <4>3
      <4> QED BY <4>3, <4>4
    <3>3. CASE Accepts /\ i = ex.id
      BY <1>1, <3>3
    <3> QED BY <3>1, <3>2, <3>3, WindowStoresAfter
  <2> QED BY <2>1, <2>2
<1>9. ASSUME NEW j \in 1 .. Len(HeldStores'), NEW k \in 1 .. Len(HeldStores'), j < k
      PROVE  SB!Dist(commit_ptr', HeldStores'[j]) < SB!Dist(commit_ptr', HeldStores'[k])
  <2>1. j \in 1 .. n
    BY <1>1, <1>9
  <2>2. CASE k \in 1 .. n
    <3>1. j + gone < k + gone
      BY <1>1, <1>9, <2>1, <2>2
    <3>2. SB!Dist(commit_ptr, HeldStores'[j]) < SB!Dist(commit_ptr, HeldStores'[k])
      BY <1>3, <1>6, <2>1, <2>2, <3>1
    <3> QED BY <1>6, <2>1, <2>2, <3>2, OrderFacts
  <2>3. CASE Accepts /\ k = n + 1
    <3>1. HeldStores'[k] = ex.id
      BY <1>1, <2>3
    <3>2. HeldStores'[j] # ex.id
      BY <1>6, <1>7, <2>1, <2>3
    <3> QED BY <1>6, <1>7, <2>1, <2>3, <3>1, <3>2, OrderFacts
  <2> QED BY <1>1, <2>2, <2>3
<1> QED BY <1>8, <1>9 DEF StoresInProgramOrder

-----------------------------------------------------------------------------
(* Every cycle preserves the invariant.                                    *)

\* What a flush leaves behind, when it strands nothing: at most an instruction
\* in the operand register whose unit takes it in the next cycle.
LEMMA FlushCycle ==
  ASSUME IInv, LoadsStay', NEW in \in CycleInputs, Clock(in), in.flush
  PROVE  /\ Empty' /\ FaultInv'
         /\ ~stranded' => /\ ExInv' /\ MulInv' /\ CsrInv' /\ SearchInv'
                          /\ StoreInv' /\ LoadInv'
                          /\ FreeSlotsAreNotExecuted' /\ StoresInProgramOrder'
<1>1. WireFacts(in) /\ SP!Flush(in.sb) /\ SP!Clock(in.sb)
  BY InputsKnown, CycleOfScoreboard DEF IInv, WireFacts
<1>2. \A i \in Slots : ~sb_mem'[i].valid /\ ~sb_mem'[i].executed
  BY <1>1 DEF SP!Clock, SP!NextSbMem, SP!InitEntry, SP!Slots, Slots
<1>3. Empty' /\ FaultInv' /\ FreeSlotsAreNotExecuted'
  BY <1>2 DEF Empty, FaultInv, FreeSlotsAreNotExecuted
<1>4. ~mul'.valid /\ csr'.pending = "none"
  BY <1>1 DEF Clock, MulStep, CsrStep, IdleMul, IdleCsr
<1>5. lstate' = "lIdle" /\ store_d' = <<>> /\ stores' = <<>>
  BY LsuFacts, LoadSteps DEF IInv, LoadsStay
<1>6. MulInv' /\ CsrInv' /\ SearchInv' /\ StoreInv' /\ LoadInv'
  <2>1. ~live'["search"]
    BY <1>1 DEF Clock, LiveStep, Units
  <2> QED BY <1>2, <1>4, <1>5, <2>1 DEF MulInv, CsrInv, SearchInv, StoreInv, LoadInv, csr_busy
<1>7. StoresInProgramOrder'
  <2>1. HeldStores' = <<>>
    BY <1>5 DEF HeldStores
  <2>2. WindowStores' = {}
    BY <1>2 DEF WindowStores
  <2> QED BY <2>1, <2>2 DEF StoresInProgramOrder
<1>8. ASSUME ~stranded' PROVE ExInv'
  <2>1. SUFFICES ASSUME ex'.valid
                 PROVE  /\ ~live'["ex"] /\ Empty' /\ refill' = 2
                        /\ ex'.excp \/ ex'.inst.futype = "mul"
    BY <1>4, <1>5 DEF ExInv, csr_busy
  <2>2. ~ExReady
    <3>1. ~SB!IssueAck(in.sb)
      BY <1>1 DEF SB!IssueAck, SB!Issuable, WireFacts
    <3> QED BY <2>1, <3>1 DEF Clock, ExStep
  <2>3. ex' = ex /\ ~live'["ex"]
    BY <1>1, <2>2 DEF Clock, ExStep, LiveStep, Units
  <2>4. refill' = 2
    BY <1>1 DEF Clock, RefillStep
  <2>5. ~UnitValid("csr") /\ ~UnitValid("lsu")
    BY <1>1, <1>8, <2>2 DEF Clock, StrandedStep
  <2>6. ex.inst.futype \in {"mul", "lsu", "csr"}
    BY <2>2 DEF ExReady
  <2> QED BY <1>3, <2>1, <2>3, <2>4, <2>5, <2>6 DEF UnitValid
<1> QED BY <1>3, <1>6, <1>7, <1>8

\* With or without a flush.
LEMMA IInvCycle ==
  ASSUME IInv, NoStoreConditionals, LoadsStay', NEW in \in CycleInputs, Clock(in)
  PROVE  IInv'
<1>1. TypeInv' /\ SP!SbInv'
  BY TypeInvCycle, SbInvCycle DEF IInv
<1>2. ~stranded' => ~stranded
  BY DEF Clock, StrandedStep
<1>3. CASE in.flush
  BY <1>1, <1>3, FlushCycle DEF IInv, UnitInv
<1>4. CASE ~in.flush
  <2>1. FaultInv'
    BY <1>4, SlotFacts DEF FaultInv, IInv, UnitInv
  <2>2. ASSUME ~stranded
        PROVE  /\ ExInv' /\ MulInv' /\ CsrInv' /\ SearchInv' /\ StoreInv' /\ LoadInv'
               /\ FreeSlotsAreNotExecuted' /\ StoresInProgramOrder'
    <3>1. FreeSlotsAreNotExecuted'
      BY <1>4, <2>2, FreeSlotsCycle DEF FreeSlotsAreNotExecuted
    <3> QED BY <1>4, <2>2, <3>1, ExInvCycle, MulInvCycle, CsrInvCycle, SearchInvCycle,
               StoreInvCycle, LoadInvCycle, StoresCycle
  <2> QED BY <1>1, <1>2, <2>1, <2>2 DEF IInv, UnitInv
<1> QED BY <1>3, <1>4

\* After reset every slot and every unit is empty.
LEMMA IInvInit == Init => IInv
<1> SUFFICES ASSUME Init PROVE IInv
  OBVIOUS
<1>1. TypeInv /\ SP!SbInv
  BY TypeInvInit, SameInit, SbAssumptions, SP!SbInit DEF Init
<1>2. \A i \in Slots : ~sb_mem[i].valid /\ ~sb_mem[i].executed
  BY DEF Init, SB!Init, SB!InitEntry, SB!Slots, Slots
<1>3. /\ ~ex.valid /\ ~mul.valid /\ csr.pending = "none" /\ ~tlbsrch_ongoing
      /\ lstate = "lIdle" /\ store_d = <<>> /\ stores = <<>>
  BY DEF Init, IdleMul, IdleCsr, L!Init
<1>4. FaultInv /\ FreeSlotsAreNotExecuted
  BY <1>2 DEF FaultInv, FreeSlotsAreNotExecuted
<1>5. ExInv /\ MulInv /\ CsrInv /\ SearchInv /\ StoreInv /\ LoadInv
  BY <1>2, <1>3 DEF ExInv, MulInv, CsrInv, SearchInv, StoreInv, LoadInv, csr_busy
<1>6. StoresInProgramOrder
  <2>1. HeldStores = <<>>
    BY <1>3 DEF HeldStores
  <2>2. WindowStores = {}
    BY <1>2 DEF WindowStores
  <2> QED BY <2>1, <2>2 DEF StoresInProgramOrder
<1> QED BY <1>1, <1>3, <1>4, <1>5, <1>6 DEF IInv, UnitInv

\* In programs without store-conditionals, what waits in a unit is in flight or
\* leaves before the next instruction is issued, as long as no flush passes a
\* load in progress and none strands an instruction in the operand register.
THEOREM Invariant ==
  ASSUME NoStoreConditionals
  PROVE  Spec /\ []LoadsStay => []IInv
<1>1. IInv /\ LoadsStay' /\ [Next]_vars => IInv'
  <2>1. SUFFICES ASSUME IInv, LoadsStay', [Next]_vars PROVE IInv'
    OBVIOUS
  <2>2. CASE UNCHANGED vars
    <3>1. (TypeInv /\ SP!SbInv)'
      BY <2>1, <2>2 DEF IInv, vars, sbVars, TypeInv, Units, BruSlot, UnitValid, SP!SbInv,
       SP!TypeOK, SP!Window, SP!InFlight, SP!CountCoversWindow, SP!NeverWedged,
       SP!UniqueWriter, SP!OneBranch, SP!BranchIsYoungest
    <3>2. UnitInv'
      BY <2>1, <2>2 DEF IInv, vars, sbVars, UnitInv, FaultInv, ExInv, MulInv, CsrInv,
       SearchInv, StoreInv, LoadInv, Occupied, Empty, InEx, csr_busy, FreeSlotsAreNotExecuted,
       StoresInProgramOrder, HeldStores, WindowStores
    <3> QED BY <3>1, <3>2 DEF IInv
  <2>3. ASSUME NEW in \in CycleInputs, Clock(in) PROVE IInv'
    BY <2>1, <2>3, IInvCycle
  <2> QED BY <2>1, <2>2, <2>3 DEF Next, Run, Redirect, FlushAll
<1> QED BY <1>1, IInvInit, PTL DEF Spec

\* Programs without loads keep LoadsStay, and with it all of what follows.
THEOREM NoLoadIsFlushed ==
  ASSUME \A i \in Insts : i.futype = "lsu" => LsuKind(i) = "store"
  PROVE  Spec => []LoadsStay
<1> DEFINE NoLoad == lstate = "lIdle"
<1>1. Init => NoLoad
  BY DEF Init, L!Init
<1>2. TypeInv /\ NoLoad /\ [Next]_vars => NoLoad'
  <2>1. SUFFICES ASSUME TypeInv, NoLoad, [Next]_vars PROVE NoLoad'
    OBVIOUS
  <2>2. ~AcceptsLoad
    BY <2>1 DEF AcceptsLoad, UnitValid, TypeInv
  <2>3. ASSUME NEW in \in CycleInputs, Clock(in) PROVE NoLoad'
    BY <2>1, <2>2, <2>3, LoadSteps
  <2>4. CASE UNCHANGED vars
    BY <2>1, <2>4 DEF vars
  <2> QED BY <2>1, <2>3, <2>4 DEF Next, Run, Redirect, FlushAll
<1>3. NoLoad => LoadsStay
  BY DEF LoadsStay
<1> HIDE DEF NoLoad
<1> QED BY <1>1, <1>2, <1>3, BaseHolds, PTL DEF Spec

\* A result reaches only the slot of the instruction that produced it
\* (Scoreboard.scala:202-216 looks at the slot's valid bit only), and a product
\* is written once.
THEOREM ResultsReachTheirOwnersHolds ==
  ASSUME NoStoreConditionals
  PROVE  Spec /\ []LoadsStay => []ResultsReachTheirOwners
<1>1. ASSUME IInv, ~stranded, FluValid, sb_mem[FluId].valid
      PROVE  /\ live[FluSource] /\ sb_mem[FluId].inst.futype = FluType
             /\ MulOut => ~sb_mem[FluId].executed
  <2>1. FluId \in Slots
    BY <1>1, IdTypes DEF IInv
  <2>2. CASE MulOut
    BY <1>1, <2>1, <2>2 DEF MulOut, FluId, FluSource, FluType, IInv, UnitInv, MulInv, Empty
  <2>3. CASE ~MulOut
    <3>1. ex.valid /\ FluId = ex.id
      BY <1>1, <2>3 DEF FluValid, FluId, FetchFault, OtherFlu, UnitValid
    <3> QED BY <1>1, <2>1, <2>3, <3>1 DEF FluSource, FluType, IInv, UnitInv, ExInv, Empty
  <2> QED BY <2>2, <2>3
<1>2. ASSUME IInv, ~stranded, L!WbValid
      PROVE  live[LsuSource] /\ sb_mem[L!WbId].inst.futype = "lsu"
  <2>1. CASE store_d # <<>>
    <3>1. L!WbId = store_d[1]
      BY <2>1 DEF L!WbId, L!WbIsLoad
    <3>2. store_d[1] \in WindowStores /\ live["store_d"]
      BY <1>2, <2>1, HeldFacts DEF IInv, UnitInv, StoreInv
    <3> QED BY <2>1, <3>1, <3>2 DEF LsuSource, WindowStores, IsStore
  <2>2. CASE store_d = <<>>
    BY <1>2, <2>2 DEF LsuSource, L!WbValid, L!WbId, L!WbIsLoad, IInv, UnitInv, LoadInv
  <2> QED BY <2>1, <2>2
<1>3. IInv => ResultsReachTheirOwners
  BY <1>1, <1>2 DEF ResultsReachTheirOwners
<1> QED BY <1>3, Invariant, PTL

\* A free slot is not marked executed, so that no instruction commits before it
\* ran (Scoreboard.scala:173-176: issue does not clear the mark).
THEOREM FreeSlotsAreNotExecutedHolds ==
  ASSUME NoStoreConditionals
  PROVE  Spec /\ []LoadsStay => []FreeSlotsAreNotExecuted
<1>1. IInv => FreeSlotsAreNotExecuted
  BY DEF IInv, UnitInv, FreeSlotsAreNotExecuted
<1> QED BY <1>1, Invariant, PTL

\* The load/store unit holds the stores in flight, in program order.
THEOREM StoresInProgramOrderHolds ==
  ASSUME NoStoreConditionals
  PROVE  Spec /\ []LoadsStay => []StoresInProgramOrder
<1>1. IInv => StoresInProgramOrder
  BY DEF IInv, UnitInv, StoresInProgramOrder
<1> QED BY <1>1, Invariant, PTL

\* The CSR instruction that commits is the one whose write is pending in the
\* CSR buffer, which does not compare ids (CSRBuffer.scala), and a search of the
\* TLB gives its own commit the result, unless a flush left the mark of another.
THEOREM CsrCommitsItsOwnWriteHolds ==
  ASSUME NoStoreConditionals, NoCsrReads
  PROVE  Spec /\ []LoadsStay => []CsrCommitsItsOwnWrite
<1>1. IInv => CsrCommitsItsOwnWrite
  BY CsrCommitFacts DEF CsrCommitsItsOwnWrite, csr_busy, IInv, UnitInv, SearchInv, oldest,
     TypeInv
<1> QED BY <1>1, Invariant, PTL

\* The assertion of LSU.scala:242 holds until an instruction is stranded: a
\* store that commits is in the queue.
THEOREM CommitsQueuedStoreHolds ==
  ASSUME NoStoreConditionals
  PROVE  Spec /\ []LoadsStay => [](~stranded => CommitsQueuedStore)
<1>1. IInv => (~stranded => CommitsQueuedStore)
  BY StoreCommitFacts DEF CommitsQueuedStore
<1> QED BY <1>1, Invariant, PTL
=============================================================================
