------------------------------ MODULE Frontend ------------------------------
(***************************************************************************)
(* Instruction fetch: the program counter and its one-entry redirect       *)
(* buffer (IFU.scala), the wires of Frontend.scala, the instruction queue  *)
(* and the decoded entry of IDU.scala, with the instruction cache as it    *)
(* behaves on its port.  A step is one clock cycle.                        *)
(*                                                                         *)
(* A program counter counts half-words modulo PcSize, so that an odd one   *)
(* is misaligned and 2 stands for 4.U.  An instruction is named by its     *)
(* address.  Decoding, and the tables of the branch predictor, are left    *)
(* out: the prediction of a branch is any target, or none.                 *)
(***************************************************************************)
EXTENDS Integers, Sequences

CONSTANTS
  PcSize,
  RESET_VECTOR,
  INST_QUEUE_SIZE,
  Unmapped,         \* the addresses whose translation fails
  Uncached,         \* the addresses fetched past the cache
  Branches,         \* the branch instructions
  Targets, Entries  \* where branches and returns go; the exception entries

Pc == 0 .. PcSize - 1
NoPc == PcSize

ASSUME FrontendAssumption ==
  /\ PcSize \in Nat /\ PcSize > 1 /\ PcSize % 2 = 0
  /\ RESET_VECTOR \in Pc \ Unmapped /\ RESET_VECTOR % 2 = 0
  /\ INST_QUEUE_SIZE \in Nat \ {0}
  /\ Unmapped \cup Uncached \cup Branches \cup Targets \cup Entries \subseteq Pc

VARIABLES
  s1_pc,       \* the address whose instruction is awaited
  flush_slot,  \* the redirect that could not be followed at once, or NoPc
  vaddr_r,     \* the address that was translated a cycle ago
  icache,      \* idle, looking up or missing, and the request it works on
  inst_queue,
  issue_entry, \* the decoded instruction: a sequence of at most one
  expected,    \* history: the address the program continues at, or NoPc
  flushed      \* history: the last cycle was one of a redirect

vars == <<s1_pc, flush_slot, vaddr_r, icache, inst_queue, issue_entry, expected, flushed>>

Plus4(pc) == (pc + 2) % PcSize
Aligned(pc) == pc % 2 = 0

Entry == [pc: Pc, inst: Pc, exception: BOOLEAN, pred: Pc \cup {NoPc}]

\* The inputs of a cycle: the redirects, a prediction, what the cache and the
\* issue stage do.
Input == [excp: Entries \cup {NoPc}, ertn: Targets \cup {NoPc}, mispred: Targets \cup {NoPc},
          pred: Targets \cup {NoPc}, hit: BOOLEAN, answer: BOOLEAN, ready: BOOLEAN]

FlushValid(in) == in.excp # NoPc \/ in.ertn # NoPc \/ in.mispred # NoPc

inst_queue_full == Len(inst_queue) = INST_QUEUE_SIZE

-----------------------------------------------------------------------------
(* The instruction cache on its port: it answers a hit, and is ready for   *)
(* the next request, a cycle after it took one; else it misses, refills    *)
(* the line and finds it then, or answers at once if uncached.             *)

Hits(in)    == icache.st = "found" \/ (icache.st = "look" /\ ~icache.uncached /\ in.hit)
AddrOk(in)  == icache.st = "idle" \/ Hits(in)
DataOk(in)  == Hits(in) \/ (icache.st = "miss" /\ icache.uncached /\ in.answer)

ICacheStep(in, s0_pc) ==
  icache' =
    CASE AddrOk(in) /\ Aligned(s0_pc) ->
           [st |-> "look", pc |-> s0_pc, uncached |-> vaddr_r \in Uncached]
      [] AddrOk(in) /\ ~Aligned(s0_pc) -> [icache EXCEPT !.st = "idle"]
      [] icache.st = "miss" /\ in.answer ->
           [icache EXCEPT !.st = IF icache.uncached THEN "idle" ELSE "found"]
      [] OTHER -> [icache EXCEPT !.st = "miss"]

-----------------------------------------------------------------------------
(* Stage 1: the instruction arrives.                                       *)

\* LA32IFU: a misaligned address, or a translation that failed.  The answer of
\* the translation is that of the address of a cycle ago.
S1Exception == ~Aligned(s1_pc) \/ vaddr_r \in Unmapped

\* Mutant: instructions arrive although the queue is full.
S1Valid_full(in) == (DataOk(in) \/ S1Exception) /\ flush_slot = NoPc

S1Valid(in) ==
  /\ DataOk(in) \/ S1Exception
  /\ ~inst_queue_full /\ ~(in.excp # NoPc /\ in.ertn # NoPc /\ in.mispred # NoPc)
  /\ flush_slot = NoPc

Fetched(in) ==
  [pc |-> s1_pc, inst |-> IF DataOk(in) THEN icache.pc ELSE s1_pc,
   exception |-> S1Exception, pred |-> in.pred]

\* A prediction is made only for a branch; the bits that come with an
\* exception may look like one.
PredictionOK(in) ==
  in.pred # NoPc => S1Valid(in) /\ (S1Exception \/ icache.pc \in Branches)

-----------------------------------------------------------------------------
(* Stage 0: the next address.                                              *)

\* The redirects of this cycle, the first that holds.
NpcFlush(in) ==
  CASE in.excp # NoPc -> in.excp
    [] in.excp = NoPc /\ in.ertn # NoPc -> in.ertn
    [] in.excp = NoPc /\ in.ertn = NoPc /\ in.mispred # NoPc -> in.mispred
    [] OTHER -> IF in.pred # NoPc /\ flush_slot = NoPc THEN in.pred
                ELSE IF inst_queue_full THEN s1_pc ELSE NoPc

NextPc(in) ==
  CASE NpcFlush(in) # NoPc -> NpcFlush(in)
    [] NpcFlush(in) = NoPc /\ flush_slot # NoPc -> flush_slot
    [] OTHER -> Plus4(s1_pc)

S0Valid(in) == AddrOk(in) /\ ~inst_queue_full

\* Mutant: a redirect in a cycle in which the cache takes no address is lost.
FetchStep_lost(in) ==
  /\ s1_pc' = IF S0Valid(in) THEN NextPc(in) ELSE s1_pc
  /\ vaddr_r' = NextPc(in)
  /\ flush_slot' = IF S0Valid(in) THEN NoPc ELSE flush_slot
  /\ ICacheStep(in, NextPc(in))

\* Mutant: a redirect moves s1_pc although the cache takes no address.
FetchStep_early(in) ==
  /\ s1_pc' = IF S0Valid(in) \/ FlushValid(in) THEN NextPc(in) ELSE s1_pc
  /\ vaddr_r' = NextPc(in) /\ flush_slot' = NoPc
  /\ ICacheStep(in, NextPc(in))

\* Mutant: the redirect buffer is not emptied.
FetchStep_stuck(in) ==
  /\ s1_pc' = IF S0Valid(in) THEN NextPc(in) ELSE s1_pc
  /\ vaddr_r' = NextPc(in)
  /\ flush_slot' = IF NpcFlush(in) # NoPc /\ ~S0Valid(in) THEN NpcFlush(in) ELSE flush_slot
  /\ ICacheStep(in, NextPc(in))

\* The cache is offered the address even when the queue is full.
FetchStep(in) ==
  /\ s1_pc' = IF S0Valid(in) THEN NextPc(in) ELSE s1_pc
  /\ vaddr_r' = NextPc(in)
  /\ flush_slot' = CASE S0Valid(in) -> NoPc
                     [] ~S0Valid(in) /\ NpcFlush(in) # NoPc -> NpcFlush(in)
                     [] OTHER -> flush_slot
  /\ ICacheStep(in, NextPc(in))

-----------------------------------------------------------------------------
(* The decoder: the queue and the entry offered to the issue stage.        *)

\* Mutant: what arrives in the cycle of a redirect stays.
QueueStep_kept(in) ==
  LET arrived == IF S1Valid(in) THEN <<Fetched(in)>> ELSE <<>>
  IN  inst_queue' = IF FlushValid(in) THEN arrived
                    ELSE IF in.ready /\ inst_queue # <<>> THEN Tail(inst_queue) \o arrived
                    ELSE inst_queue \o arrived

QueueStep(in) ==
  LET arrived == IF S1Valid(in) THEN <<Fetched(in)>> ELSE <<>>
  IN  inst_queue' = CASE FlushValid(in) -> <<>>
                      [] ~FlushValid(in) /\ in.ready /\ inst_queue # <<>> ->
                           Tail(inst_queue) \o arrived
                      [] OTHER -> inst_queue \o arrived

IssueEntryStep(in) ==
  issue_entry' = CASE FlushValid(in) -> <<>>
                   [] ~FlushValid(in) /\ in.ready -> IF inst_queue = <<>> THEN <<>> ELSE <<Head(inst_queue)>>
                   [] OTHER -> issue_entry

-----------------------------------------------------------------------------

\* Where the program goes on after an instruction, as far as the front end can
\* know; after an exception, wherever the handler is.
Following(e) == IF e.exception THEN NoPc ELSE IF e.pred # NoPc THEN e.pred ELSE Plus4(e.pc)

HistoryStep(in) ==
  /\ expected' = CASE FlushValid(in) -> NpcFlush(in)
                   [] ~FlushValid(in) /\ S1Valid(in) /\ expected # NoPc -> Following(Fetched(in))
                   [] OTHER -> expected
  /\ flushed' = FlushValid(in)

Init ==
  /\ s1_pc = RESET_VECTOR /\ flush_slot = NoPc /\ vaddr_r = RESET_VECTOR
  /\ icache = [st |-> "idle", pc |-> RESET_VECTOR, uncached |-> FALSE]
  /\ inst_queue = <<>> /\ issue_entry = <<>>
  /\ expected = Plus4(RESET_VECTOR) /\ flushed = FALSE

Clock(in) ==
  /\ PredictionOK(in)
  /\ FetchStep(in) /\ QueueStep(in) /\ IssueEntryStep(in) /\ HistoryStep(in)

\* An exception and an exception return both come from the oldest instruction.
Redirect == \E in \in Input : FlushValid(in) /\ (in.excp = NoPc \/ in.ertn = NoPc) /\ Clock(in)
Run      == \E in \in Input : ~FlushValid(in) /\ Clock(in)

Next == Redirect \/ Run

Spec == Init /\ [][Next]_vars

\* The bus answers the cache and the issue stage takes instructions; misses and
\* stalls may come in between.
Serves == \E in \in Input : in.answer /\ in.ready /\ Clock(in)
FairSpec == Spec /\ WF_vars(Serves)

-----------------------------------------------------------------------------
(* Correctness.                                                            *)

\* Every register holds a value of its type; the queue never overflows.
TypeOK ==
  /\ {s1_pc, vaddr_r} \subseteq Pc /\ {flush_slot, expected} \subseteq Pc \cup {NoPc}
  /\ icache \in [st: {"idle", "look", "miss", "found"}, pc: Pc, uncached: BOOLEAN]
  /\ inst_queue \in Seq(Entry) /\ Len(inst_queue) <= INST_QUEUE_SIZE
  /\ issue_entry \in Seq(Entry) /\ Len(issue_entry) <= 1
  /\ flushed \in BOOLEAN

\* The instructions on their way to the issue stage.
InFlight == issue_entry \o inst_queue

\* Up to the first exception they are one stretch of the program that was
\* predicted: nothing is missing or there twice, and it goes on where the
\* program is expected to go on.
BeforeException(i) ==
  /\ \A j \in 1 .. i : ~InFlight[j].exception
  /\ expected # NoPc \/ \E j \in i .. Len(InFlight) : InFlight[j].exception
InProgramOrder ==
  \A i \in 1 .. Len(InFlight) :
    BeforeException(i) =>
      Following(InFlight[i]) = IF i < Len(InFlight) THEN InFlight[i + 1].pc ELSE expected

\* The next address to arrive is the one that is expected, whether it is being
\* fetched, waits in the redirect buffer, or is the one after the last.
Awaited == IF flush_slot # NoPc THEN flush_slot
           ELSE IF icache.st # "idle" \/ ~Aligned(s1_pc) THEN s1_pc ELSE Plus4(s1_pc)
FetchesExpected == expected # NoPc => Awaited = expected

\* The bits that arrive are those of the address they are said to be from.
RightInstruction ==
  \A i \in 1 .. Len(InFlight) : ~InFlight[i].exception => InFlight[i].inst = InFlight[i].pc

\* Only an address whose translation fails, or a misaligned one, is reported as
\* a fetch exception.
ExceptionsAreDue ==
  \A i \in 1 .. Len(InFlight) :
    InFlight[i].exception => ~Aligned(InFlight[i].pc) \/ InFlight[i].pc \in Unmapped

\* Unless redirects go on for ever, instructions keep arriving.
FetchGoesOn == []<>flushed \/ []<>(issue_entry # <<>>)
=============================================================================
