-------------------------- MODULE ScoreboardProofs --------------------------
(***************************************************************************)
(* For any number of slots and any inputs: the slots in use are the ones   *)
(* between the pointers, the counter covers them and can never stay full,  *)
(* a register has one writer in flight, and a misprediction finds nothing  *)
(* younger than its branch.  The inductive invariant is the conjunction,   *)
(* since the parts need each other: a free slot at issue_ptr needs the     *)
(* counter, and the harmless squash needs the branch to be the youngest.   *)
(***************************************************************************)
EXTENDS Scoreboard, TLAPS

SbInv ==
  /\ TypeOK
  /\ Window
  /\ CountCoversWindow
  /\ NeverWedged
  /\ UniqueWriter
  /\ OneBranch
  /\ BranchIsYoungest

-----------------------------------------------------------------------------
(* Walking around the buffer.                                              *)

\* A pointer stays in the buffer.
LEMMA SuccInSlots == ASSUME NEW p \in Slots PROVE Succ(p) \in Slots
  BY EntriesAssumption DEF Slots, Succ

\* A distance is a number of slots, and it is zero only between equals.
LEMMA DistRange ==
  ASSUME NEW a \in Slots, NEW b \in Slots
  PROVE  /\ Dist(a, b) \in 0 .. NR_ENTRIES - 1
         /\ (Dist(a, b) = 0) <=> (a = b)
  BY EntriesAssumption DEF Slots, Dist

\* Two slots at the same distance are the same slot.
LEMMA DistInjective ==
  ASSUME NEW a \in Slots, NEW b \in Slots, NEW c \in Slots,
         Dist(a, b) = Dist(a, c)
  PROVE  b = c
  BY EntriesAssumption DEF Slots, Dist

\* Moving the far end on by one slot adds one, unless it comes round.
LEMMA DistSuccRight ==
  ASSUME NEW a \in Slots, NEW b \in Slots, Dist(a, b) < NR_ENTRIES - 1
  PROVE  Dist(a, Succ(b)) = Dist(a, b) + 1
  BY EntriesAssumption DEF Slots, Dist, Succ

\* Moving the near end on by one slot takes one away.
LEMMA DistSuccLeft ==
  ASSUME NEW a \in Slots, NEW b \in Slots
  PROVE  Dist(Succ(a), b) = IF a = b THEN NR_ENTRIES - 1 ELSE Dist(a, b) - 1
  BY EntriesAssumption DEF Slots, Dist, Succ

\* The squash after a branch just below issue_ptr reaches only issue_ptr.
LEMMA SquashOnlyIssuePtr ==
  ASSUME issue_ptr \in Slots, NEW id \in Slots, Succ(id) = issue_ptr,
         NEW i \in Slots, Squashed(i, id)
  PROVE  i = issue_ptr
  BY EntriesAssumption DEF Slots, Succ, Squashed

-----------------------------------------------------------------------------
(* Types.                                                                  *)

LEMMA InitEntryType == InitEntry \in Entry
<1>1. InitInst \in Insts
  BY DataAssumption DEF InitInst
<1>2. InitValue \in Values
  BY DataAssumption DEF InitValue
<1> QED BY <1>1, <1>2 DEF InitEntry, Entry

\* The input of a cycle has the type of its wires.
LEMMA InputType ==
  ASSUME NEW in \in Inputs
  PROVE  /\ in.inst \in Insts
         /\ in.frontend_excp \in BOOLEAN
         /\ in.int_flag \in BOOLEAN
         /\ \A p \in Ports : in.wb[p] \in WriteBack
  BY DataAssumption DEF CycleInput

\* Each stage of a cycle leaves entries in the buffer.
LEMMA BufferTypes ==
  ASSUME TypeOK, NEW in \in Inputs
  PROVE  LET m1 == AfterIssue(sb_mem, in)
             m2 == AfterCommit(m1, in)
             m3 == AfterWb(m2, 0, in)
         IN  /\ m1 \in [Slots -> Entry]
             /\ m2 \in [Slots -> Entry]
             /\ m3 \in [Slots -> Entry]
             /\ AfterWb(m3, 1, in) \in [Slots -> Entry]
<1> DEFINE Buffer == [Slots -> Entry]
<1>1. ASSUME NEW m \in Buffer PROVE AfterIssue(m, in) \in Buffer
  <2>1. IssueInto(m[issue_ptr], in) \in Entry
    BY <1>1, InputType DEF TypeOK, IssueInto, Entry
  <2> QED BY <1>1, <2>1 DEF AfterIssue, TypeOK
<1>2. ASSUME NEW m \in Buffer PROVE AfterCommit(m, in) \in Buffer
  <2>1. Retire(m[commit_ptr]) \in Entry
    BY <1>2 DEF TypeOK, Retire, Entry
  <2> QED BY <1>2, <2>1 DEF AfterCommit, TypeOK
<1>3. ASSUME NEW m \in Buffer, NEW p \in Ports PROVE AfterWb(m, p, in) \in Buffer
  <2> DEFINE id == in.wb[p].id
  <2> DEFINE written == [m EXCEPT ![id] = RecordResult(@, in.wb[p])]
  <2>1. in.wb[p] \in WriteBack
    BY <1>3, InputType
  <2>2. id \in Slots
    BY <2>1 DEF WriteBack
  <2>3. RecordResult(m[id], in.wb[p]) \in Entry
    BY <1>3, <2>1, <2>2 DEF RecordResult, Entry, WriteBack
  <2>4. written \in Buffer
    BY <1>3, <2>2, <2>3
  <2>5. [i \in Slots |-> IF Squashed(i, id) THEN InitEntry ELSE written[i]] \in Buffer
    BY <2>4, InitEntryType
  <2> QED BY <1>3, <2>4, <2>5 DEF AfterWb
<1>4. sb_mem \in Buffer
  BY DEF TypeOK
<1>5. 0 \in Ports /\ 1 \in Ports
  BY DEF Ports, NR_WB_PORTS
<1> HIDE DEF Buffer
<1>6. AfterIssue(sb_mem, in) \in Buffer
  BY <1>1, <1>4
<1>7. AfterCommit(AfterIssue(sb_mem, in), in) \in Buffer
  BY <1>2, <1>6
<1>8. AfterWb(AfterCommit(AfterIssue(sb_mem, in), in), 0, in) \in Buffer
  BY <1>3, <1>5, <1>7
<1> QED BY <1>3, <1>5, <1>6, <1>7, <1>8 DEF Buffer

\* So the buffer has its type after any cycle.
LEMMA NextSbMemType ==
  ASSUME TypeOK, NEW in \in Inputs
  PROVE  NextSbMem(in) \in [Slots -> Entry]
  BY BufferTypes, InitEntryType DEF NextSbMem

-----------------------------------------------------------------------------
(* What a cycle does to the buffer.                                        *)

\* The slot at issue_ptr is free.
LEMMA IssuePtrFree ==
  ASSUME TypeOK, Window
  PROVE  ~sb_mem[issue_ptr].valid
<1>1. Dist(commit_ptr, issue_ptr) \in 0 .. NR_ENTRIES - 1
  BY DistRange DEF TypeOK
<1>2. ~(Dist(commit_ptr, issue_ptr) < InFlight)
  BY <1>1, EntriesAssumption DEF InFlight
<1> QED BY <1>2 DEF TypeOK, Window

\* A commit takes an occupied slot, so the buffer is not empty.
LEMMA CommitNeedsEntry ==
  ASSUME TypeOK, Window, NEW in \in Inputs, CommitAck(in)
  PROVE  /\ sb_mem[commit_ptr].valid
         /\ commit_ptr # issue_ptr
         /\ InFlight >= 1
<1>1. sb_mem[commit_ptr].valid
  BY DEF CommitAck, commit_valid
<1>2. Dist(commit_ptr, commit_ptr) < InFlight
  BY <1>1 DEF Window, TypeOK
<1> QED BY <1>1, <1>2, DistRange, IssuePtrFree DEF TypeOK, InFlight

\* Writing results back changes neither who occupies a slot nor with what; a
\* misprediction clears the slot at issue_ptr only.
LEMMA WriteBackKeeps ==
  ASSUME TypeOK, BranchIsYoungest, NEW in \in Inputs, Contract(in),
         NEW m \in [Slots -> Entry], NEW p \in Ports,
         SomeMispred(in) => ~m[issue_ptr].valid,
         NEW i \in Slots
  PROVE  /\ AfterWb(m, p, in)[i].valid <=> m[i].valid
         /\ m[i].valid => AfterWb(m, p, in)[i].inst = m[i].inst
<1> DEFINE id == in.wb[p].id
<1> DEFINE written == [m EXCEPT ![id] = RecordResult(@, in.wb[p])]
<1>1. in.wb[p] \in WriteBack /\ id \in Slots
  BY InputType DEF WriteBack
<1>2. written[i].valid = m[i].valid /\ written[i].inst = m[i].inst
  BY <1>1 DEF RecordResult, Entry
<1>3. CASE ~WbTaken(p, in)
  BY <1>3 DEF AfterWb
<1>4. CASE WbTaken(p, in) /\ ~Mispredicted(p, in)
  BY <1>2, <1>4 DEF AfterWb
<1>5. CASE WbTaken(p, in) /\ Mispredicted(p, in)
  <2>1. in.wb[p].mispred /\ SomeMispred(in)
    BY <1>5 DEF Mispredicted, SomeMispred
  <2>2. p = 0
    BY <2>1 DEF Contract, Ports, NR_WB_PORTS
  <2>3. id = bru_slot /\ Succ(id) = issue_ptr
    BY <2>1, <2>2 DEF Contract, BranchIsYoungest
  <2>4. Squashed(i, id) => i = issue_ptr
    BY <1>1, <2>3, SquashOnlyIssuePtr DEF TypeOK
  <2>5. AfterWb(m, p, in)[i] = IF Squashed(i, id) THEN InitEntry ELSE written[i]
    BY <1>5 DEF AfterWb
  <2>6. CASE Squashed(i, id)
    BY <2>1, <2>4, <2>5, <2>6 DEF InitEntry
  <2>7. CASE ~Squashed(i, id)
    BY <1>2, <2>5, <2>7
  <2> QED BY <2>6, <2>7
<1> QED BY <1>3, <1>4, <1>5

\* Without a flush, a slot is occupied afterwards when an instruction is issued
\* into it, or when it was occupied and does not commit.
LEMMA SlotsAfterCycle ==
  ASSUME SbInv, NEW in \in Inputs, Contract(in), Clock(in), ~Flush(in),
         NEW i \in Slots
  PROVE  /\ sb_mem'[i].valid <=>
              \/ i = issue_ptr /\ IssueAck(in)
              \/ sb_mem[i].valid /\ ~(i = commit_ptr /\ CommitAck(in))
         /\ sb_mem'[i].valid =>
              sb_mem'[i].inst = IF i = issue_ptr /\ IssueAck(in)
                                THEN in.inst ELSE sb_mem[i].inst
<1> DEFINE m1 == AfterIssue(sb_mem, in)
<1> DEFINE m2 == AfterCommit(m1, in)
<1> DEFINE m3 == AfterWb(m2, 0, in)
<1>1. sb_mem \in [Slots -> Entry] /\ ~sb_mem[issue_ptr].valid
  BY IssuePtrFree DEF SbInv, TypeOK
<1>2. CommitAck(in) => commit_ptr # issue_ptr
  BY CommitNeedsEntry DEF SbInv
<1>3. /\ m1 \in [Slots -> Entry] /\ m2 \in [Slots -> Entry]
      /\ m3 \in [Slots -> Entry]
  BY BufferTypes DEF SbInv
<1>4. /\ m1[i].valid <=> \/ i = issue_ptr /\ IssueAck(in)
                         \/ sb_mem[i].valid
      /\ m1[i].inst = IF i = issue_ptr /\ IssueAck(in) THEN in.inst ELSE sb_mem[i].inst
  BY <1>1 DEF AfterIssue, IssueInto, Entry, SbInv, TypeOK
<1>5. /\ m2[i].valid <=> m1[i].valid /\ ~(i = commit_ptr /\ CommitAck(in))
      /\ m2[i].inst = m1[i].inst
  BY <1>3 DEF AfterCommit, Retire, Entry, SbInv, TypeOK
<1>6. SomeMispred(in) => ~m2[issue_ptr].valid
  <2>1. SomeMispred(in) => m1 = sb_mem
    BY DEF IssueAck, AfterIssue
  <2>2. m2[issue_ptr].valid => m1[issue_ptr].valid
    BY <1>2, <1>3 DEF AfterCommit, Retire, Entry, SbInv, TypeOK
  <2> QED BY <1>1, <2>1, <2>2
<1>7. 0 \in Ports /\ 1 \in Ports
  BY DEF Ports, NR_WB_PORTS
<1> HIDE DEF m1, m2
<1>8. \A j \in Slots : /\ m3[j].valid <=> m2[j].valid
                       /\ m2[j].valid => m3[j].inst = m2[j].inst
  BY <1>3, <1>6, <1>7, WriteBackKeeps DEF SbInv
<1>9. SomeMispred(in) => ~m3[issue_ptr].valid
  BY <1>6, <1>8 DEF SbInv, TypeOK
<1> HIDE DEF m3
<1>10. /\ AfterWb(m3, 1, in)[i].valid <=> m3[i].valid
       /\ m3[i].valid => AfterWb(m3, 1, in)[i].inst = m3[i].inst
  BY <1>3, <1>7, <1>9, WriteBackKeeps DEF SbInv
<1>11. sb_mem'[i] = AfterWb(m3, 1, in)[i]
  BY DEF Clock, NextSbMem, m1, m2, m3
<1>12. sb_mem'[i].valid <=> m2[i].valid
  BY <1>8, <1>10, <1>11
<1>13. m2[i].valid => sb_mem'[i].inst = m2[i].inst
  BY <1>8, <1>10, <1>11
<1>14. sb_mem'[i].valid <=>
              \/ i = issue_ptr /\ IssueAck(in)
              \/ sb_mem[i].valid /\ ~(i = commit_ptr /\ CommitAck(in))
  BY <1>2, <1>4, <1>5, <1>12
<1> QED BY <1>4, <1>5, <1>12, <1>13, <1>14

\* A write-back marks only the slot it is for, and keeps a fault of the fetch.
LEMMA WriteBackMarks ==
  ASSUME TypeOK, BranchIsYoungest, NEW in \in Inputs, Contract(in),
         NEW m \in [Slots -> Entry], NEW p \in Ports,
         SomeMispred(in) => ~m[issue_ptr].valid,
         NEW i \in Slots
  PROVE  /\ AfterWb(m, p, in)[i].executed =>
              m[i].executed \/ (WbTaken(p, in) /\ in.wb[p].id = i)
         /\ m[i].valid =>
              /\ AfterWb(m, p, in)[i].frontend_excp = m[i].frontend_excp
              /\ m[i].frontend_excp /\ m[i].exception => AfterWb(m, p, in)[i].exception
<1> DEFINE id == in.wb[p].id
<1> DEFINE written == [m EXCEPT ![id] = RecordResult(@, in.wb[p])]
<1>1. in.wb[p] \in WriteBack /\ id \in Slots
  BY InputType DEF WriteBack
<1>2. /\ written[i].executed => m[i].executed \/ id = i
      /\ written[i].frontend_excp = m[i].frontend_excp
      /\ m[i].frontend_excp /\ m[i].exception => written[i].exception
  BY <1>1 DEF RecordResult, Entry
<1>3. CASE ~WbTaken(p, in)
  BY <1>3 DEF AfterWb
<1>4. CASE WbTaken(p, in) /\ ~Mispredicted(p, in)
  BY <1>2, <1>4 DEF AfterWb
<1>5. CASE WbTaken(p, in) /\ Mispredicted(p, in)
  <2>1. AfterWb(m, p, in)[i] = IF Squashed(i, id) THEN InitEntry ELSE written[i]
    BY <1>5 DEF AfterWb
  <2>2. CASE Squashed(i, id)
    <3>1. AfterWb(m, p, in)[i] = InitEntry /\ ~InitEntry.executed /\ ~InitEntry.valid
      BY <2>1, <2>2 DEF InitEntry
    <3>2. ~m[i].valid
      BY <3>1, WriteBackKeeps
    <3> QED BY <3>1, <3>2
  <2>3. CASE ~Squashed(i, id)
    BY <1>2, <1>5, <2>1, <2>3
  <2> QED BY <2>2, <2>3
<1> QED BY <1>3, <1>4, <1>5

\* Without a flush, a slot is marked executed afterwards only when it was and
\* does not commit, or when a result is written into it; and what is in flight
\* keeps the fault of its fetch.
LEMMA MarksAfterCycle ==
  ASSUME SbInv, NEW in \in Inputs, Contract(in), Clock(in), ~Flush(in),
         NEW i \in Slots
  PROVE  /\ sb_mem'[i].executed =>
              \/ sb_mem[i].executed /\ ~(i = commit_ptr /\ CommitAck(in))
              \/ \E p \in Ports : in.wb[p].valid /\ in.wb[p].id = i /\ sb_mem[i].valid
         /\ sb_mem'[i].valid /\ i = issue_ptr /\ IssueAck(in) =>
              /\ sb_mem'[i].frontend_excp = in.frontend_excp
              /\ sb_mem'[i].frontend_excp => sb_mem'[i].exception
         /\ sb_mem'[i].valid /\ ~(i = issue_ptr /\ IssueAck(in)) =>
              /\ sb_mem'[i].frontend_excp = sb_mem[i].frontend_excp
              /\ sb_mem[i].frontend_excp /\ sb_mem[i].exception => sb_mem'[i].exception
<1> DEFINE m1 == AfterIssue(sb_mem, in)
<1> DEFINE m2 == AfterCommit(m1, in)
<1> DEFINE m3 == AfterWb(m2, 0, in)
<1>1. sb_mem \in [Slots -> Entry] /\ ~sb_mem[issue_ptr].valid
  BY IssuePtrFree DEF SbInv, TypeOK
<1>2. CommitAck(in) => commit_ptr # issue_ptr
  BY CommitNeedsEntry DEF SbInv
<1>3. /\ m1 \in [Slots -> Entry] /\ m2 \in [Slots -> Entry]
      /\ m3 \in [Slots -> Entry]
  BY BufferTypes DEF SbInv
<1>4. /\ m1[i].executed = sb_mem[i].executed
      /\ i = issue_ptr /\ IssueAck(in) =>
           /\ m1[i].frontend_excp = in.frontend_excp
           /\ m1[i].exception = in.frontend_excp
      /\ ~(i = issue_ptr /\ IssueAck(in)) =>
           /\ m1[i].frontend_excp = sb_mem[i].frontend_excp
           /\ m1[i].exception = sb_mem[i].exception
  BY <1>1 DEF AfterIssue, IssueInto, Entry, SbInv, TypeOK
<1>5. /\ m2[i].executed <=> m1[i].executed /\ ~(i = commit_ptr /\ CommitAck(in))
      /\ m2[i].frontend_excp = m1[i].frontend_excp
      /\ m2[i].exception = m1[i].exception
  BY <1>3 DEF AfterCommit, Retire, Entry, SbInv, TypeOK
<1>6. SomeMispred(in) => ~m2[issue_ptr].valid
  <2>1. SomeMispred(in) => m1 = sb_mem
    BY DEF IssueAck, AfterIssue
  <2>2. m2[issue_ptr].valid => m1[issue_ptr].valid
    BY <1>2, <1>3 DEF AfterCommit, Retire, Entry, SbInv, TypeOK
  <2> QED BY <1>1, <2>1, <2>2
<1>7. 0 \in Ports /\ 1 \in Ports
  BY DEF Ports, NR_WB_PORTS
<1> HIDE DEF m1, m2
<1>8. \A j \in Slots : m3[j].valid <=> m2[j].valid
  BY <1>3, <1>6, <1>7, WriteBackKeeps DEF SbInv
<1>9. SomeMispred(in) => ~m3[issue_ptr].valid
  BY <1>6, <1>8 DEF SbInv, TypeOK
<1>10. /\ m3[i].executed => m2[i].executed \/ (WbTaken(0, in) /\ in.wb[0].id = i)
       /\ m2[i].valid =>
            /\ m3[i].frontend_excp = m2[i].frontend_excp
            /\ m2[i].frontend_excp /\ m2[i].exception => m3[i].exception
  BY <1>3, <1>6, <1>7, WriteBackMarks DEF SbInv
<1> HIDE DEF m3
<1>11. /\ AfterWb(m3, 1, in)[i].executed =>
            m3[i].executed \/ (WbTaken(1, in) /\ in.wb[1].id = i)
       /\ m3[i].valid =>
            /\ AfterWb(m3, 1, in)[i].frontend_excp = m3[i].frontend_excp
            /\ m3[i].frontend_excp /\ m3[i].exception => AfterWb(m3, 1, in)[i].exception
  BY <1>3, <1>7, <1>9, WriteBackMarks DEF SbInv
<1>12. sb_mem'[i] = AfterWb(m3, 1, in)[i]
  BY DEF Clock, NextSbMem, m1, m2, m3
<1>13. sb_mem'[i].valid => m2[i].valid /\ m3[i].valid
  BY <1>3, <1>7, <1>8, <1>9, <1>12, WriteBackKeeps DEF SbInv
<1>14. sb_mem'[i].executed =>
              \/ sb_mem[i].executed /\ ~(i = commit_ptr /\ CommitAck(in))
              \/ \E p \in Ports : in.wb[p].valid /\ in.wb[p].id = i /\ sb_mem[i].valid
  BY <1>4, <1>5, <1>7, <1>10, <1>11, <1>12 DEF WbTaken
<1> QED BY <1>4, <1>5, <1>10, <1>11, <1>12, <1>13, <1>14

-----------------------------------------------------------------------------
(* The invariant is preserved.                                             *)

\* What a cycle without a flush does to the pointers and the counter.
LEMMA PointersAfterCycle ==
  ASSUME SbInv, NEW in \in Inputs, Contract(in), Clock(in), ~Flush(in)
  PROVE  /\ commit_ptr' = IF CommitAck(in) THEN Succ(commit_ptr) ELSE commit_ptr
         /\ issue_ptr' = IF IssueAck(in) THEN Succ(issue_ptr) ELSE issue_ptr
         /\ issued_cnt' = issued_cnt + (IF IssueAck(in) THEN 1 ELSE 0)
                                     - (IF CommitAck(in) THEN 1 ELSE 0)
<1>1. ~Mispredicted(1, in)
  BY DEF Contract, Mispredicted
<1>2. ASSUME Mispredicted(0, in)
      PROVE  ~IssueAck(in) /\ Succ(in.wb[0].id) = issue_ptr
  <2>1. SomeMispred(in)
    BY <1>2 DEF SomeMispred, Ports, NR_WB_PORTS
  <2>2. in.wb[0].id = bru_slot /\ bru_slot # NoSlot
    BY <1>2 DEF Mispredicted, Contract
  <2> QED BY <2>1, <2>2 DEF IssueAck, SbInv, BranchIsYoungest
<1>3. issue_ptr' = IF IssueAck(in) THEN Succ(issue_ptr) ELSE issue_ptr
  <2>1. CASE Mispredicted(0, in)
    BY <1>1, <1>2, <2>1 DEF Clock, NextIssuePtr
  <2>2. CASE ~Mispredicted(0, in)
    BY <1>1, <2>2 DEF Clock, NextIssuePtr
  <2> QED BY <2>1, <2>2
<1> QED BY <1>3 DEF Clock, NextCommitPtr, NextIssuedCnt

\* A cycle without a flush keeps the window between the pointers, and keeps
\* the counter at or above its size and below the lock-out bound.
LEMMA WindowAfterCycle ==
  ASSUME SbInv, NEW in \in Inputs, Contract(in), Clock(in), ~Flush(in)
  PROVE  /\ commit_ptr' \in Slots /\ issue_ptr' \in Slots
         /\ issued_cnt' \in 0 .. NR_ENTRIES - 1
         /\ Window' /\ CountCoversWindow' /\ NeverWedged'
<1> USE DEF SbInv
<1>1. InFlight \in 0 .. NR_ENTRIES - 1 /\ issued_cnt \in 0 .. NR_ENTRIES - 1
  BY DistRange DEF TypeOK, InFlight
<1>2. IssueAck(in) => issued_cnt < NR_ENTRIES - 1
  BY <1>1, EntriesAssumption DEF IssueAck, Issuable, sb_full
<1>3. CommitAck(in) => InFlight >= 1 /\ commit_ptr # issue_ptr
  BY CommitNeedsEntry
<1>4. commit_ptr' \in Slots /\ issue_ptr' \in Slots
  BY PointersAfterCycle, SuccInSlots DEF TypeOK
<1>5. InFlight' = InFlight + (IF IssueAck(in) THEN 1 ELSE 0)
                           - (IF CommitAck(in) THEN 1 ELSE 0)
  <2>1. IssueAck(in) => Dist(commit_ptr, Succ(issue_ptr)) = InFlight + 1
    BY <1>1, <1>2, DistSuccRight, EntriesAssumption
       DEF TypeOK, InFlight, CountCoversWindow
  <2>2. CommitAck(in) => Dist(Succ(commit_ptr), issue_ptr) = InFlight - 1
    BY <1>3, DistSuccLeft DEF TypeOK, InFlight
  <2>3. IssueAck(in) /\ CommitAck(in)
          => Dist(Succ(commit_ptr), Succ(issue_ptr)) = InFlight
    <3>1. SUFFICES ASSUME IssueAck(in), CommitAck(in)
                   PROVE  Dist(Succ(commit_ptr), Succ(issue_ptr)) = InFlight
      OBVIOUS
    <3>2. Dist(Succ(commit_ptr), issue_ptr) = InFlight - 1
      BY <2>2, <3>1
    <3>3. InFlight - 1 < NR_ENTRIES - 1
      BY <1>1, EntriesAssumption
    <3> QED BY <1>1, <3>2, <3>3, SuccInSlots, DistSuccRight DEF TypeOK
  <2> QED BY <1>1, <2>1, <2>2, <2>3, PointersAfterCycle DEF InFlight
<1>6. issued_cnt' \in 0 .. NR_ENTRIES - 1 /\ CountCoversWindow' /\ NeverWedged'
  BY <1>1, <1>2, <1>3, <1>5, PointersAfterCycle, EntriesAssumption
     DEF CountCoversWindow, NeverWedged
<1>7. ASSUME NEW i \in Slots
      PROVE  sb_mem'[i].valid <=> Dist(commit_ptr', i) < InFlight'
  <2>1. sb_mem[i].valid <=> Dist(commit_ptr, i) < InFlight
    BY DEF Window
  <2>2. Dist(commit_ptr, i) \in 0 .. NR_ENTRIES - 1
    BY DistRange DEF TypeOK
  <2>3. i = issue_ptr <=> Dist(commit_ptr, i) = InFlight
    BY DistInjective DEF TypeOK, InFlight
  <2>4. Dist(commit_ptr', i) = IF ~CommitAck(in) THEN Dist(commit_ptr, i)
                               ELSE IF i = commit_ptr THEN NR_ENTRIES - 1
                               ELSE Dist(commit_ptr, i) - 1
    BY PointersAfterCycle, DistSuccLeft DEF TypeOK
  <2>5. i = commit_ptr <=> Dist(commit_ptr, i) = 0
    BY DistRange DEF TypeOK
  <2>6. sb_mem'[i].valid <=>
              \/ i = issue_ptr /\ IssueAck(in)
              \/ sb_mem[i].valid /\ ~(i = commit_ptr /\ CommitAck(in))
    BY SlotsAfterCycle
  <2>7. CASE CommitAck(in)
    BY <1>1, <1>2, <1>3, <1>5, <2>1, <2>2, <2>3, <2>4, <2>5, <2>6, <2>7,
       EntriesAssumption DEF CountCoversWindow
  <2>8. CASE ~CommitAck(in)
    BY <1>1, <1>2, <1>5, <2>1, <2>2, <2>3, <2>4, <2>6, <2>8,
       EntriesAssumption DEF CountCoversWindow
  <2> QED BY <2>7, <2>8
<1> QED BY <1>4, <1>6, <1>7 DEF Window

\* A cycle without a flush keeps the writer of a register unique: the WAW
\* check covers every entry that stays.
LEMMA WritersAfterCycle ==
  ASSUME SbInv, NEW in \in Inputs, Contract(in), Clock(in), ~Flush(in)
  PROVE  UniqueWriter'
<1> DEFINE Writes(m, k, r) == m[k].valid /\ m[k].inst.regwen /\ m[k].inst.rd = r
<1>1. SUFFICES ASSUME NEW i \in Slots, NEW j \in Slots, NEW r,
                      Writes(sb_mem', i, r), Writes(sb_mem', j, r)
               PROVE  i = j
  BY DEF UniqueWriter
<1>2. ASSUME NEW k \in Slots, Writes(sb_mem', k, r),
             ~(k = issue_ptr /\ IssueAck(in))
      PROVE  Writes(sb_mem, k, r) /\ ~(k = commit_ptr /\ CommitAck(in))
  BY <1>2, SlotsAfterCycle
<1>3. ASSUME NEW k \in Slots, Writes(sb_mem', k, r),
             k # issue_ptr, IssueAck(in), Writes(sb_mem', issue_ptr, r)
      PROVE  FALSE
  <2>1. Writes(sb_mem, k, r) /\ ~(k = commit_ptr /\ CommitAck(in))
    BY <1>2, <1>3
  <2>2. in.inst.regwen /\ in.inst.rd = r
    BY <1>3, SlotsAfterCycle DEF SbInv, TypeOK
  <2>3. WawHazard(in)
    BY <2>1, <2>2 DEF WawHazard
  <2> QED BY <1>3, <2>3 DEF IssueAck, Issuable
<1>4. CASE IssueAck(in) /\ i = issue_ptr /\ j # issue_ptr
  BY <1>1, <1>3, <1>4
<1>5. CASE IssueAck(in) /\ j = issue_ptr /\ i # issue_ptr
  BY <1>1, <1>3, <1>5
<1>6. CASE ~IssueAck(in) \/ (i # issue_ptr /\ j # issue_ptr)
  BY <1>1, <1>2, <1>6 DEF SbInv, UniqueWriter
<1> QED BY <1>4, <1>5, <1>6

\* A cycle without a flush keeps at most one branch in flight.
LEMMA BranchesAfterCycle ==
  ASSUME SbInv, NEW in \in Inputs, Contract(in), Clock(in), ~Flush(in)
  PROVE  OneBranch'
<1> DEFINE Holds(m, k) == m[k].valid /\ m[k].inst.futype = "bru"
<1>1. SUFFICES ASSUME NEW i \in Slots, NEW j \in Slots,
                      Holds(sb_mem', i), Holds(sb_mem', j)
               PROVE  i = j
  BY DEF OneBranch
<1>2. ASSUME NEW k \in Slots, Holds(sb_mem', k),
             ~(k = issue_ptr /\ IssueAck(in))
      PROVE  Holds(sb_mem, k)
  BY <1>2, SlotsAfterCycle
<1>3. ASSUME NEW k \in Slots, Holds(sb_mem', k),
             k # issue_ptr, IssueAck(in), Holds(sb_mem', issue_ptr)
      PROVE  FALSE
  <2>1. in.inst.futype = "bru"
    BY <1>3, SlotsAfterCycle DEF SbInv, TypeOK
  <2>2. UnresolvedBranch
    BY <1>2, <1>3 DEF UnresolvedBranch
  <2> QED BY <1>3, <2>1, <2>2 DEF IssueAck, Issuable
<1>4. CASE IssueAck(in) /\ i = issue_ptr /\ j # issue_ptr
  BY <1>1, <1>3, <1>4
<1>5. CASE IssueAck(in) /\ j = issue_ptr /\ i # issue_ptr
  BY <1>1, <1>3, <1>5
<1>6. CASE ~IssueAck(in) \/ (i # issue_ptr /\ j # issue_ptr)
  BY <1>1, <1>2, <1>6 DEF SbInv, OneBranch
<1> QED BY <1>4, <1>5, <1>6

\* The branch the branch unit received is the instruction issued last.
LEMMA YoungestAfterCycle ==
  ASSUME SbInv, NEW in \in Inputs, Contract(in), Cycle(in), ~Flush(in)
  PROVE  BranchIsYoungest' /\ bru_slot' \in Slots \cup {NoSlot}
<1>1. CASE bru_slot' = NoSlot
  BY <1>1 DEF BranchIsYoungest
<1>2. CASE bru_slot' # NoSlot
  <2>1. IssueAck(in) /\ in.inst.futype = "bru" /\ bru_slot' = issue_ptr
    BY <1>2 DEF Cycle, NextBruSlot
  <2>2. sb_mem'[issue_ptr].valid /\ sb_mem'[issue_ptr].inst = in.inst
    BY <2>1, SlotsAfterCycle DEF Cycle, SbInv, TypeOK
  <2>3. issue_ptr' = Succ(issue_ptr)
    BY <2>1, PointersAfterCycle DEF Cycle
  <2> QED BY <2>1, <2>2, <2>3 DEF BranchIsYoungest, SbInv, TypeOK
<1> QED BY <1>1, <1>2

\* Any cycle without a flush preserves the invariant.
LEMMA CyclePreserves ==
  ASSUME SbInv, NEW in \in Inputs, Contract(in), Cycle(in), ~Flush(in)
  PROVE  SbInv'
<1>1. sb_mem' \in [Slots -> Entry]
  BY NextSbMemType DEF Cycle, Clock, NextSbMem, SbInv
<1>2. int_flag_r' \in BOOLEAN
  BY InputType DEF Cycle, Clock, NextIntFlag, SbInv, TypeOK
<1> QED BY <1>1, <1>2, WindowAfterCycle, WritersAfterCycle, BranchesAfterCycle,
           YoungestAfterCycle DEF Cycle, SbInv, TypeOK

\* A flush empties the buffer; the counter gives back the committed entry only.
LEMMA FlushPreserves ==
  ASSUME SbInv, NEW in \in Inputs, Contract(in), FlushAll(in)
  PROVE  SbInv'
<1> USE DEF SbInv, FlushAll
<1>1. CommitAck(in)
  BY DEF Flush, ExValid, ErtnValid
<1>2. ~IssueAck(in)
  BY DEF Contract, IssueAck, Issuable
<1>3. \A p \in Ports : ~Mispredicted(p, in)
  BY DEF Mispredicted, WbTaken
<1>4. commit_ptr' = Succ(commit_ptr) /\ issue_ptr' = Succ(commit_ptr)
  BY <1>1, <1>3 DEF Cycle, Clock, NextCommitPtr, NextIssuePtr, Ports, NR_WB_PORTS
<1>5. InFlight >= 1 /\ InFlight \in 0 .. NR_ENTRIES - 1
  BY <1>1, CommitNeedsEntry, DistRange DEF TypeOK, InFlight
<1>6. issued_cnt' = issued_cnt - 1
  BY <1>1, <1>2 DEF Cycle, Clock, NextIssuedCnt, TypeOK
<1>7. InFlight' = 0 /\ commit_ptr' \in Slots
  BY <1>4, SuccInSlots, DistRange DEF TypeOK, InFlight
<1>8. sb_mem' = [i \in Slots |-> InitEntry]
  BY DEF Cycle, Clock, NextSbMem
<1>9. bru_slot' = NoSlot
  BY <1>2 DEF Cycle, NextBruSlot
<1>10. TypeOK'
  <2>1. int_flag_r' \in BOOLEAN
    BY InputType DEF Cycle, Clock, NextIntFlag, TypeOK
  <2>2. issued_cnt' \in 0 .. NR_ENTRIES - 1
    BY <1>5, <1>6, EntriesAssumption DEF TypeOK, CountCoversWindow
  <2> QED BY <1>4, <1>7, <1>8, <1>9, <2>1, <2>2, InitEntryType DEF TypeOK
<1>11. CountCoversWindow' /\ NeverWedged'
  BY <1>5, <1>6, <1>7, EntriesAssumption
     DEF CountCoversWindow, NeverWedged, TypeOK
<1>12. Window'
  BY <1>7, <1>8, DistRange DEF Window, InitEntry
<1>13. UniqueWriter' /\ OneBranch' /\ BranchIsYoungest'
  BY <1>8, <1>9 DEF UniqueWriter, OneBranch, BranchIsYoungest, InitEntry
<1> QED BY <1>10, <1>11, <1>12, <1>13

-----------------------------------------------------------------------------

\* The reset state satisfies it.
LEMMA SbInit == Init => SbInv
<1>1. SUFFICES ASSUME Init PROVE SbInv
  OBVIOUS
<1>2. 0 \in Slots /\ InFlight = 0
  BY <1>1, EntriesAssumption DEF Init, Slots, InFlight, Dist
<1>3. TypeOK
  <2>1. sb_mem \in [Slots -> Entry]
    BY <1>1, InitEntryType DEF Init
  <2>2. issued_cnt \in 0 .. NR_ENTRIES - 1
    BY <1>1, EntriesAssumption DEF Init
  <2> QED BY <1>1, <1>2, <2>1, <2>2 DEF Init, TypeOK
<1>4. Window /\ CountCoversWindow /\ NeverWedged
  BY <1>1, <1>2, DistRange, EntriesAssumption
     DEF Init, Window, CountCoversWindow, NeverWedged, InitEntry
<1>5. UniqueWriter /\ OneBranch /\ BranchIsYoungest
  BY <1>1 DEF Init, UniqueWriter, OneBranch, BranchIsYoungest, InitEntry
<1> QED BY <1>3, <1>4, <1>5 DEF SbInv

\* The scoreboard's invariant: from reset on, whatever is offered, written
\* back, committed or interrupted, the occupied slots are those between the
\* pointers, the counter covers them and leaves room for one instruction when
\* they are empty, each register has one writer in flight, and at most one
\* branch, the youngest while it is in the branch unit.
THEOREM ScoreboardInvariant == Spec => []SbInv
<1>1. Init => SbInv
  BY SbInit
<1>2. SbInv /\ [Next]_vars => SbInv'
  <2>1. SUFFICES ASSUME SbInv, [Next]_vars PROVE SbInv'
    OBVIOUS
  <2>2. CASE UNCHANGED vars
    BY <2>1, <2>2 DEF vars, sbVars, SbInv, TypeOK, Window, InFlight,
       CountCoversWindow, NeverWedged, UniqueWriter, OneBranch, BranchIsYoungest
  <2>3. ASSUME NEW in \in Inputs, Contract(in), Hold(in) PROVE SbInv'
    BY <2>1, <2>3, CyclePreserves DEF Hold
  <2>4. ASSUME NEW in \in Inputs, Contract(in), Issue(in) PROVE SbInv'
    BY <2>1, <2>4, CyclePreserves DEF Issue
  <2>5. ASSUME NEW in \in Inputs, Contract(in), Commit(in) PROVE SbInv'
    BY <2>1, <2>5, CyclePreserves DEF Commit
  <2>6. ASSUME NEW in \in Inputs, Contract(in), IssueAndCommit(in) PROVE SbInv'
    BY <2>1, <2>6, CyclePreserves DEF IssueAndCommit
  <2>7. ASSUME NEW in \in Inputs, Contract(in), FlushAll(in) PROVE SbInv'
    BY <2>1, <2>7, FlushPreserves
  <2>8. ASSUME NEW in \in Inputs, Contract(in), Mispredict(in) PROVE SbInv'
    <3>1. ~Flush(in)
      BY <2>8 DEF Mispredict, SomeMispred, Mispredicted, WbTaken
    <3> QED BY <2>1, <2>8, <3>1, CyclePreserves DEF Mispredict
  <2> QED BY <2>1, <2>2, <2>3, <2>4, <2>5, <2>6, <2>7, <2>8 DEF Next
<1> QED BY <1>1, <1>2, PTL DEF Spec

\* The buffer is always the window between its pointers.
THEOREM WindowHolds == Spec => []Window
  BY ScoreboardInvariant, PTL DEF SbInv

\* Issue is never shut off for good: the counter's leak is bounded.
THEOREM NeverWedgedHolds == Spec => []NeverWedged
  BY ScoreboardInvariant, PTL DEF SbInv

\* No two instructions in flight write the same register through rd.
THEOREM UniqueWriterHolds == Spec => []UniqueWriter
  BY ScoreboardInvariant, PTL DEF SbInv

\* A cycle that leaves an instruction in the buffer removed at most the one at
\* commit_ptr: a misprediction squashes nothing.
THEOREM MispredictSquashesNothingHolds == Spec => MispredictSquashesNothing
<1>1. ASSUME SbInv, [Next]_vars
      PROVE  (\E i \in Slots : sb_mem'[i].valid) => Removed \subseteq {commit_ptr}
  <2>1. CASE UNCHANGED vars
    BY <2>1 DEF vars, sbVars, Removed
  <2>2. ASSUME NEW in \in Inputs, Contract(in), Cycle(in), ~Flush(in)
        PROVE  Removed \subseteq {commit_ptr}
    BY <1>1, <2>2, SlotsAfterCycle DEF Cycle, Removed
  <2>3. ASSUME NEW in \in Inputs, FlushAll(in)
        PROVE  ~\E i \in Slots : sb_mem'[i].valid
    BY <2>3 DEF FlushAll, Cycle, Clock, NextSbMem, InitEntry
  <2>4. ASSUME NEW in \in Inputs, Mispredict(in)
        PROVE  ~Flush(in)
    BY <2>4 DEF Mispredict, SomeMispred, Mispredicted, WbTaken
  <2> QED BY <1>1, <2>1, <2>2, <2>3, <2>4
          DEF Next, Hold, Issue, Commit, IssueAndCommit, Mispredict
<1> QED BY <1>1, ScoreboardInvariant, PTL DEF Spec, MispredictSquashesNothing
=============================================================================
