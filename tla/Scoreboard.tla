----------------------------- MODULE Scoreboard -----------------------------
(***************************************************************************)
(* The scoreboard of the issue stage (src/playground/src/issue/            *)
(* Scoreboard.scala): a circular buffer of the instructions that were      *)
(* issued and have not committed.  One step is one clock cycle.  A cycle   *)
(* reads the registers and the module's inputs and writes the registers;   *)
(* the wires of the source are operators of the cycle's inputs "in".       *)
(*                                                                         *)
(* Everything outside the scoreboard is an input, chosen afresh in every   *)
(* cycle, with two promises the neighbours keep (Contract below): the      *)
(* decoder withdraws its instruction in a flush cycle (IDU.scala), and the *)
(* branch unit answers in the cycle after issue (BranchUnit.scala).        *)
(***************************************************************************)
EXTENDS Integers, FiniteSets

CONSTANTS
  NR_ENTRIES,   \* the number of slots (8 in Parameter.scala)
  Regs,         \* the architectural register numbers
  Values,       \* what a result can be
  Insts,        \* the decoded instructions the decoder can offer
  Inputs        \* the input combinations a cycle can see

Slots    == 0 .. NR_ENTRIES - 1
NR_WB_PORTS == 2                   \* port 0: fixed-latency units, port 1: LSU
Ports    == 0 .. NR_WB_PORTS - 1
NoSlot   == -1
FuTypes  == {"bru", "alu", "mul", "lsu", "csr", "misc"}
OpTypes  == {"load", "store", "sc", "ll", "amo", "ertn", "idle", "syscall",
             "csrrd", "tlbsrch", "tlbwr", "other"}

DecodedInst == [futype: FuTypes, op: OpTypes, regwen: BOOLEAN, dest_rs1: BOOLEAN,
                rd: Regs, rs1: Regs, rs2: Regs]

WriteBack == [valid: BOOLEAN, id: Slots, exception: BOOLEAN, mispred: BOOLEAN,
              result: Values]

CycleInput == [dec_valid: BOOLEAN, inst: Insts, frontend_excp: BOOLEAN,
               operands_rdy: BOOLEAN, issue_ready: BOOLEAN,
               commit_ready: BOOLEAN, int_flag: BOOLEAN, llbit: BOOLEAN,
               wb: [Ports -> WriteBack]]

ASSUME EntriesAssumption == NR_ENTRIES \in Nat /\ NR_ENTRIES >= 2
ASSUME DataAssumption ==
         /\ Insts # {} /\ Insts \subseteq DecodedInst
         /\ Values # {}
         /\ Inputs \subseteq CycleInput

Entry == [valid: BOOLEAN, executed: BOOLEAN, exception: BOOLEAN,
          frontend_excp: BOOLEAN, inst: Insts, result: Values]

InitInst  == CHOOSE i \in Insts : TRUE
InitValue == CHOOSE v \in Values : TRUE

\* init_sbe: the zeroed entry.
InitEntry == [valid |-> FALSE, executed |-> FALSE, exception |-> FALSE,
              frontend_excp |-> FALSE, inst |-> InitInst, result |-> InitValue]

VARIABLES
  sb_mem,       \* the slots
  commit_ptr,   \* the oldest instruction in flight
  issue_ptr,    \* the slot of the next instruction
  issued_cnt,   \* the counter that decides whether the buffer is full
  int_flag_r,   \* an interrupt seen and not yet taken
  bru_slot      \* the slot whose branch the branch unit holds, or NoSlot

sbVars == <<sb_mem, commit_ptr, issue_ptr, issued_cnt, int_flag_r>>
vars   == <<sbVars, bru_slot>>

\* A pointer register wraps at the number of slots, a power of two.
Succ(p) == IF p = NR_ENTRIES - 1 THEN 0 ELSE p + 1

-----------------------------------------------------------------------------
(* The wires of a cycle.                                                   *)

commit_valid == sb_mem[commit_ptr].valid /\ sb_mem[commit_ptr].executed
CommitAck(in) == commit_valid /\ in.commit_ready

sb_full == issued_cnt = NR_ENTRIES - 1

\* Mutant: the oldest instruction never counts as a writer in flight.
WawHazard_oldest(in) ==
  /\ in.inst.regwen
  /\ \E i \in Slots \ {commit_ptr} :
       sb_mem[i].valid /\ sb_mem[i].inst.regwen /\ sb_mem[i].inst.rd = in.inst.rd

\* An instruction in flight already writes the register the offered one
\* writes; the entry that commits in this cycle does not count.
WawHazard(in) ==
  /\ in.inst.regwen
  /\ \E i \in Slots : /\ sb_mem[i].valid
                      /\ sb_mem[i].inst.regwen
                      /\ sb_mem[i].inst.rd = in.inst.rd
                      /\ ~(i = commit_ptr /\ CommitAck(in))

UnresolvedBranch ==
  \E i \in Slots : sb_mem[i].valid /\ sb_mem[i].inst.futype = "bru"

\* The handshake of issue, before a misprediction withdraws it.
Issuable(in) ==
  /\ in.dec_valid
  /\ in.operands_rdy
  /\ ~WawHazard(in)
  /\ ~sb_full
  /\ in.inst.futype = "bru" => ~UnresolvedBranch

IntFlag(in) == in.int_flag \/ int_flag_r

IsSc(inst)   == inst.futype = "lsu" /\ inst.op = "sc"
IsErtn(inst) == inst.futype = "misc" /\ inst.op = "ertn"

\* A store-conditional raises only the exceptions of its own access, and only
\* when the link bit is set.
InstExcp(e, in) ==
  IF IsSc(e.inst) THEN e.exception /\ ~e.frontend_excp /\ in.llbit
                  ELSE e.exception

ExValid(in) ==
  CommitAck(in) /\ (InstExcp(sb_mem[commit_ptr], in) \/ IntFlag(in))
ErtnValid(in) == CommitAck(in) /\ IsErtn(sb_mem[commit_ptr].inst)
Flush(in) == ExValid(in) \/ ErtnValid(in)

\* A write-back takes effect when its slot is occupied and nothing is flushed.
WbTaken(p, in) ==
  in.wb[p].valid /\ sb_mem[in.wb[p].id].valid /\ ~Flush(in)
Mispredicted(p, in) ==
  /\ WbTaken(p, in)
  /\ in.wb[p].mispred
  /\ sb_mem[in.wb[p].id].inst.futype = "bru"
SomeMispred(in) == \E p \in Ports : Mispredicted(p, in)

IssueAck(in) == Issuable(in) /\ in.issue_ready /\ ~SomeMispred(in)

\* Mutant: the branch itself is squashed with what follows it.
Squashed_branch(i, id) ==
  \/ i >= id /\ i <= issue_ptr
  \/ id > issue_ptr /\ (i <= issue_ptr \/ i >= id)

\* The slots after the mispredicted branch, up to and with issue_ptr.
Squashed(i, id) ==
  \/ i > id /\ i <= issue_ptr
  \/ id > issue_ptr /\ (i <= issue_ptr \/ i > id)

-----------------------------------------------------------------------------
(* The registers after a cycle.  Later assignments of the source win.      *)

\* Mutant: the commit that flushes is not counted.
NextIssuedCnt_flush(in) ==
  issued_cnt + (IF IssueAck(in) THEN 1 ELSE 0)
             - (IF CommitAck(in) /\ ~Flush(in) THEN 1 ELSE 0)

NextIssuedCnt(in) ==
  issued_cnt + (IF IssueAck(in) THEN 1 ELSE 0) - (IF CommitAck(in) THEN 1 ELSE 0)

NextCommitPtr(in) == IF CommitAck(in) THEN Succ(commit_ptr) ELSE commit_ptr

\* Mutant: a flush leaves the issue pointer where it is.
NextIssuePtr_flush(in) ==
  CASE SomeMispred(in) -> Succ(in.wb[0].id)
    [] IssueAck(in) /\ ~SomeMispred(in) -> Succ(issue_ptr)
    [] OTHER -> issue_ptr

NextIssuePtr(in) ==
  CASE Mispredicted(1, in) -> Succ(in.wb[1].id)
    [] Mispredicted(0, in) /\ ~Mispredicted(1, in) -> Succ(in.wb[0].id)
    [] Flush(in) -> Succ(commit_ptr)
    [] IssueAck(in) /\ ~Flush(in) -> Succ(issue_ptr)
    [] OTHER -> issue_ptr

NextIntFlag(in) ==
  CASE in.int_flag /\ ~CommitAck(in) -> TRUE
    [] CommitAck(in) /\ int_flag_r   -> FALSE
    [] OTHER                         -> int_flag_r

IssueInto(e, in) ==
  [e EXCEPT !.valid = TRUE, !.inst = in.inst,
            !.exception = in.frontend_excp, !.frontend_excp = in.frontend_excp]

\* Mutant: the slot that is freed stays marked executed.
Retire_executed(e) == [e EXCEPT !.valid = FALSE]

Retire(e) == [e EXCEPT !.valid = FALSE, !.executed = FALSE]

\* A backend exception never replaces one recorded by the frontend.
RecordResult(e, wb) ==
  [e EXCEPT !.executed = TRUE, !.result = wb.result,
            !.exception = IF e.frontend_excp THEN @ ELSE wb.exception]

\* The buffer m with the offered instruction in it, and without the committed one.
AfterIssue(m, in) ==
  IF IssueAck(in) THEN [m EXCEPT ![issue_ptr] = IssueInto(@, in)] ELSE m
AfterCommit(m, in) ==
  IF CommitAck(in) THEN [m EXCEPT ![commit_ptr] = Retire(@)] ELSE m

\* The buffer m after write-back port p, which squashes what follows a
\* mispredicted branch.
AfterWb(m, p, in) ==
  IF ~WbTaken(p, in) THEN m
  ELSE LET id == in.wb[p].id
           written == [m EXCEPT ![id] = RecordResult(@, in.wb[p])]
       IN  IF Mispredicted(p, in)
           THEN [i \in Slots |-> IF Squashed(i, id) THEN InitEntry ELSE written[i]]
           ELSE written

NextSbMem(in) ==
  IF Flush(in) THEN [i \in Slots |-> InitEntry]
  ELSE AfterWb(AfterWb(AfterCommit(AfterIssue(sb_mem, in), in), 0, in), 1, in)

\* The registers of the scoreboard at the next clock edge.
Clock(in) ==
  /\ sb_mem'     = NextSbMem(in)
  /\ commit_ptr' = NextCommitPtr(in)
  /\ issue_ptr'  = NextIssuePtr(in)
  /\ issued_cnt' = NextIssuedCnt(in)
  /\ int_flag_r' = NextIntFlag(in)

-----------------------------------------------------------------------------
(* The neighbours.                                                         *)

\* The branch unit holds a branch for one cycle and writes back in it; no
\* other unit reports a misprediction.  A flush clears the decoder's valid.
Contract(in) ==
  /\ in.dec_valid => ~Flush(in) /\ ~SomeMispred(in)
  /\ bru_slot # NoSlot => in.wb[0].valid /\ in.wb[0].id = bru_slot
  /\ in.wb[0].mispred => bru_slot # NoSlot
  /\ ~in.wb[1].mispred

NextBruSlot(in) ==
  IF IssueAck(in) /\ in.inst.futype = "bru" /\ ~in.frontend_excp
  THEN issue_ptr ELSE NoSlot

Init ==
  /\ sb_mem = [i \in Slots |-> InitEntry]
  /\ commit_ptr = 0 /\ issue_ptr = 0 /\ issued_cnt = 0
  /\ int_flag_r = FALSE
  /\ bru_slot = NoSlot

Cycle(in) == Clock(in) /\ bru_slot' = NextBruSlot(in)

\* A cycle in which no instruction leaves or enters the buffer.
Hold(in) == /\ ~Flush(in) /\ ~SomeMispred(in)
            /\ ~IssueAck(in) /\ ~CommitAck(in)
            /\ Cycle(in)
\* The offered instruction takes the slot at issue_ptr.
Issue(in) == /\ ~Flush(in) /\ IssueAck(in) /\ ~CommitAck(in)
             /\ Cycle(in)
\* The oldest instruction leaves the buffer.
Commit(in) == /\ ~Flush(in) /\ ~SomeMispred(in)
              /\ ~IssueAck(in) /\ CommitAck(in)
              /\ Cycle(in)
\* Both at the same clock edge.
IssueAndCommit(in) == /\ ~Flush(in) /\ IssueAck(in) /\ CommitAck(in)
                      /\ Cycle(in)
\* The committed instruction raises an exception, takes an interrupt or
\* returns from one: every slot is cleared.
FlushAll(in) == Flush(in) /\ Cycle(in)
\* A branch resolves against its prediction, with or without a commit.
Mispredict(in) == SomeMispred(in) /\ Cycle(in)

Next == \E in \in Inputs : /\ Contract(in)
                           /\ \/ Hold(in)
                              \/ Issue(in)
                              \/ Commit(in)
                              \/ IssueAndCommit(in)
                              \/ FlushAll(in)
                              \/ Mispredict(in)

Spec == Init /\ [][Next]_vars

-----------------------------------------------------------------------------
(* Correctness.                                                            *)

\* Slots from a up to b, walking in issue order.
Dist(a, b) == IF b >= a THEN b - a ELSE b - a + NR_ENTRIES

InFlight == Dist(commit_ptr, issue_ptr)

\* Every register holds a value of its width.
TypeOK ==
  /\ sb_mem \in [Slots -> Entry]
  /\ commit_ptr \in Slots
  /\ issue_ptr \in Slots
  /\ issued_cnt \in 0 .. NR_ENTRIES - 1
  /\ int_flag_r \in BOOLEAN
  /\ bru_slot \in Slots \cup {NoSlot}

\* The occupied slots are exactly those between the two pointers, whatever the
\* pointers' wrap-around, flushes and mispredictions did before: no
\* instruction is lost, and none is left behind to commit out of order.
Window == \A i \in Slots :
            sb_mem[i].valid <=> Dist(commit_ptr, i) < InFlight

\* The counter never falls below the number of occupied slots, so the buffer
\* is never overwritten.
CountCoversWindow == InFlight <= issued_cnt

\* An exception or ertn flush does not give back the slots of the squashed
\* instructions (issued_cnt keeps counting them).  The loss is bounded: an
\* empty buffer is never full, so issue can never stop for good.
NeverWedged == issued_cnt - InFlight <= NR_ENTRIES - 2

\* At most one instruction in flight writes a register through rd: the
\* forwarding network, which takes any executed writer, cannot take an old one.
UniqueWriter ==
  \A i, j \in Slots :
    /\ sb_mem[i].valid /\ sb_mem[i].inst.regwen
    /\ sb_mem[j].valid /\ sb_mem[j].inst.regwen
    /\ sb_mem[i].inst.rd = sb_mem[j].inst.rd
    => i = j

\* At most one branch is in flight, and while the branch unit holds one it is
\* the youngest instruction in flight.
OneBranch ==
  \A i, j \in Slots :
    /\ sb_mem[i].valid /\ sb_mem[i].inst.futype = "bru"
    /\ sb_mem[j].valid /\ sb_mem[j].inst.futype = "bru"
    => i = j

BranchIsYoungest ==
  bru_slot # NoSlot =>
    /\ sb_mem[bru_slot].valid
    /\ sb_mem[bru_slot].inst.futype = "bru"
    /\ Succ(bru_slot) = issue_ptr

\* A misprediction removes no instruction that was issued: the branch resolves
\* before anything younger enters the buffer.  Unless a flush empties it, the
\* only instruction a cycle takes out of the buffer is the one that commits.
Removed == { i \in Slots : sb_mem[i].valid /\ ~sb_mem'[i].valid }

MispredictSquashesNothing ==
  [][(\E i \in Slots : sb_mem'[i].valid) => Removed \subseteq {commit_ptr}]_vars
=============================================================================
