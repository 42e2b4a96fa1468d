--------------------------- MODULE FrontendProofs ---------------------------
(***************************************************************************)
(* For any program, addresses, queue size and timing: the registers of the *)
(* front end keep their types, the bits delivered with an address are that *)
(* address's, and, when all code is cached, the next instruction to arrive *)
(* is the one the program goes on with.                                    *)
(***************************************************************************)
EXTENDS Frontend, SequenceTheorems, TLAPS

\* The address after an address is an address, and no address is NoPc.
LEMMA PcFacts ==
  /\ NoPc \notin Pc
  /\ \A pc \in Pc : Plus4(pc) \in Pc
  BY FrontendAssumption DEF NoPc, Pc, Plus4

-----------------------------------------------------------------------------
(* Types, and that bits and address agree.                                 *)

\* What an entry must be: bits of its own address, unless it is an exception.
GoodEntry == {e \in Entry : ~e.exception => e.inst = e.pc}

\* The request the cache works on is for the awaited address, unless a redirect
\* has taken its place.
CacheFollows == icache.st # "idle" /\ flush_slot = NoPc => icache.pc = s1_pc

TypeInv ==
  /\ TypeOK /\ CacheFollows
  /\ inst_queue \in Seq(GoodEntry) /\ issue_entry \in Seq(GoodEntry)

\* The redirects of a cycle, and the address that follows.
LEMMA NextPcType ==
  ASSUME TypeOK, NEW in \in Input
  PROVE  /\ NpcFlush(in) \in Pc \cup {NoPc}
         /\ NextPc(in) \in Pc
         /\ NpcFlush(in) # NoPc => NextPc(in) = NpcFlush(in)
         /\ NpcFlush(in) = NoPc /\ flush_slot # NoPc => NextPc(in) = flush_slot
         /\ NpcFlush(in) = NoPc /\ flush_slot = NoPc => NextPc(in) = Plus4(s1_pc)
         /\ FlushValid(in) => NpcFlush(in) # NoPc
         /\ inst_queue_full => NpcFlush(in) # NoPc
<1>1. /\ in.excp \in Pc \cup {NoPc} /\ in.ertn \in Pc \cup {NoPc}
      /\ in.mispred \in Pc \cup {NoPc} /\ in.pred \in Pc \cup {NoPc}
  BY FrontendAssumption DEF Input
<1>2. s1_pc \in Pc /\ flush_slot \in Pc \cup {NoPc} /\ s1_pc # NoPc
  BY PcFacts DEF TypeOK
<1>3. NpcFlush(in) \in Pc \cup {NoPc}
  BY <1>1, <1>2 DEF NpcFlush
<1>4. /\ FlushValid(in) => NpcFlush(in) # NoPc
      /\ inst_queue_full => NpcFlush(in) # NoPc
  BY <1>2 DEF NpcFlush, FlushValid
<1> QED BY <1>2, <1>3, <1>4, PcFacts DEF NextPc

\* What arrives is a good entry.
LEMMA FetchedIsGood ==
  ASSUME TypeInv, NEW in \in Input, S1Valid(in)
  PROVE  Fetched(in) \in GoodEntry
<1>1. s1_pc \in Pc /\ icache.pc \in Pc /\ in.pred \in Pc \cup {NoPc}
  BY FrontendAssumption DEF TypeInv, TypeOK, Input
<1>2. S1Exception \in BOOLEAN
  BY DEF S1Exception
<1>3. DataOk(in) => icache.pc = s1_pc
  BY DEF DataOk, Hits, S1Valid, TypeInv, CacheFollows
<1> QED BY <1>1, <1>2, <1>3 DEF Fetched, GoodEntry, Entry

\* A queue that is not full takes what arrives.
LEMMA QueueStepType ==
  ASSUME TypeInv, NEW in \in Input, QueueStep(in), IssueEntryStep(in)
  PROVE  /\ inst_queue' \in Seq(GoodEntry) /\ Len(inst_queue') <= INST_QUEUE_SIZE
         /\ issue_entry' \in Seq(GoodEntry) /\ Len(issue_entry') <= 1
<1> DEFINE arrived == IF S1Valid(in) THEN <<Fetched(in)>> ELSE <<>>
<1>1. /\ arrived \in Seq(GoodEntry)
      /\ Len(arrived) = 0 \/ (Len(arrived) = 1 /\ Len(inst_queue) # INST_QUEUE_SIZE)
  <2>1. CASE S1Valid(in)
    BY <2>1, FetchedIsGood DEF S1Valid, inst_queue_full
  <2>2. CASE ~S1Valid(in)
    BY <2>2
  <2> QED BY <2>1, <2>2
<1>2. /\ inst_queue \in Seq(GoodEntry) /\ Len(inst_queue) <= INST_QUEUE_SIZE
      /\ INST_QUEUE_SIZE \in Nat \ {0}
  BY FrontendAssumption DEF TypeInv, TypeOK
<1>3. inst_queue' = CASE FlushValid(in) -> <<>>
                      [] ~FlushValid(in) /\ in.ready /\ inst_queue # <<>> ->
                           Tail(inst_queue) \o arrived
                      [] OTHER -> inst_queue \o arrived
  BY DEF QueueStep
<1> HIDE DEF arrived
<1>4. inst_queue' \in Seq(GoodEntry) /\ Len(inst_queue') <= INST_QUEUE_SIZE
  <2>1. CASE inst_queue' = <<>>
    BY <1>2, <2>1
  <2>2. CASE inst_queue # <<>> /\ inst_queue' = Tail(inst_queue) \o arrived
    <3>1. /\ Tail(inst_queue) \in Seq(GoodEntry)
          /\ Len(Tail(inst_queue)) = Len(inst_queue) - 1
      BY <1>2, <2>2, HeadTailProperties
    <3>2. /\ Tail(inst_queue) \o arrived \in Seq(GoodEntry)
          /\ Len(Tail(inst_queue) \o arrived) = Len(inst_queue) - 1 + Len(arrived)
      BY <1>1, <3>1, ConcatProperties
    <3>3. Len(inst_queue) \in Nat \ {0}
      BY <1>2, <2>2, EmptySeq
    <3>4. ASSUME NEW k \in Nat, NEW m \in Nat \ {0}, NEW n \in Nat,
                 n <= 1, m <= k
          PROVE  m - 1 + n <= k
      BY <3>4
    <3>5. Len(inst_queue) - 1 + Len(arrived) <= INST_QUEUE_SIZE
      <4>1. Len(arrived) = 0 \/ Len(arrived) = 1
        BY <1>1, Zenon
      <4>2. Len(arrived) \in Nat /\ Len(arrived) <= 1
        BY <4>1
      <4>3. Len(inst_queue) <= INST_QUEUE_SIZE /\ INST_QUEUE_SIZE \in Nat
        BY <1>2
      <4> QED BY <3>3, <3>4, <4>2, <4>3
    <3> QED BY <2>2, <3>2, <3>5
  <2>3. CASE inst_queue' = inst_queue \o arrived
    <3>1. /\ inst_queue \o arrived \in Seq(GoodEntry)
          /\ Len(inst_queue \o arrived) = Len(inst_queue) + Len(arrived)
      BY <1>1, <1>2, ConcatProperties
    <3>2. Len(inst_queue) \in Nat
      BY <1>2, LenProperties
    <3> QED BY <1>1, <1>2, <2>3, <3>1, <3>2
  <2> QED BY <1>3, <2>1, <2>2, <2>3
<1>5. issue_entry' \in Seq(GoodEntry) /\ Len(issue_entry') <= 1
  <2>1. inst_queue # <<>> => Head(inst_queue) \in GoodEntry
    BY <1>2
  <2>2. \/ issue_entry' = <<>> \/ issue_entry' = issue_entry
        \/ inst_queue # <<>> /\ issue_entry' = <<Head(inst_queue)>>
    BY DEF IssueEntryStep
  <2>3. issue_entry \in Seq(GoodEntry) /\ Len(issue_entry) <= 1
    BY DEF TypeInv, TypeOK
  <2>4. <<>> \in Seq(GoodEntry) /\ Len(<<>>) = 0
    BY EmptySeq
  <2>5. inst_queue # <<>> => /\ <<Head(inst_queue)>> \in Seq(GoodEntry)
                             /\ Len(<<Head(inst_queue)>>) = 1
    BY <2>1
  <2>6. CASE issue_entry' = <<>>
    BY <2>4, <2>6
  <2>7. CASE issue_entry' = issue_entry
    BY <2>3, <2>7
  <2>8. CASE inst_queue # <<>> /\ issue_entry' = <<Head(inst_queue)>>
    BY <2>5, <2>8
  <2> QED BY <2>2, <2>6, <2>7, <2>8
<1> QED BY <1>4, <1>5

\* The cache, as the fetch leaves it.
LEMMA ICacheStepFacts ==
  ASSUME TypeOK, NEW in \in Input, NEW pc \in Pc, ICacheStep(in, pc)
  PROVE  /\ icache' \in [st: {"idle", "look", "miss", "found"}, pc: Pc, uncached: BOOLEAN]
         /\ AddrOk(in) /\ Aligned(pc) =>
              icache'.st = "look" /\ icache'.pc = pc
              /\ icache'.uncached = (vaddr_r \in Uncached)
         /\ AddrOk(in) /\ ~Aligned(pc) =>
              icache'.st = "idle" /\ icache'.uncached = icache.uncached
         /\ ~AddrOk(in) =>
              /\ icache'.pc = icache.pc /\ icache'.uncached = icache.uncached
              /\ ~icache.uncached => icache'.st # "idle"
<1>1. /\ icache \in [st: {"idle", "look", "miss", "found"}, pc: Pc, uncached: BOOLEAN]
      /\ AddrOk(in) \in BOOLEAN /\ Aligned(pc) \in BOOLEAN
  BY DEF TypeOK, AddrOk, Aligned, Hits
<1>2. CASE AddrOk(in) /\ Aligned(pc)
  <2>1. icache' = [st |-> "look", pc |-> pc, uncached |-> vaddr_r \in Uncached]
    BY <1>2 DEF ICacheStep, AddrOk, Hits
  <2> QED BY <1>2, <2>1
<1>3. CASE AddrOk(in) /\ ~Aligned(pc)
  <2>1. icache' = [icache EXCEPT !.st = "idle"]
    BY <1>3 DEF ICacheStep, AddrOk, Hits
  <2> QED BY <1>1, <1>3, <2>1
<1>4. CASE ~AddrOk(in)
  <2>1. CASE icache.st = "miss" /\ in.answer
    <3>1. icache' = [icache EXCEPT !.st = IF icache.uncached THEN "idle" ELSE "found"]
      BY <1>4, <2>1 DEF ICacheStep
    <3> QED BY <1>1, <1>4, <3>1
  <2>2. CASE ~(icache.st = "miss" /\ in.answer)
    <3>1. icache' = [icache EXCEPT !.st = "miss"]
      BY <1>4, <2>2 DEF ICacheStep
    <3> QED BY <1>1, <1>4, <3>1
  <2> QED BY <2>1, <2>2
<1> QED BY <1>1, <1>2, <1>3, <1>4

\* A clock cycle keeps all of it.
LEMMA ClockKeepsTypes ==
  ASSUME TypeInv, NEW in \in Input, Clock(in)
  PROVE  TypeInv'
<1> USE DEF Clock
<1>1. TypeOK
  BY DEF TypeInv
<1>2. /\ s1_pc' = IF S0Valid(in) THEN NextPc(in) ELSE s1_pc
      /\ vaddr_r' = NextPc(in)
      /\ flush_slot' = IF S0Valid(in) THEN NoPc
                       ELSE IF NpcFlush(in) # NoPc THEN NpcFlush(in) ELSE flush_slot
      /\ ICacheStep(in, NextPc(in))
  BY DEF FetchStep
<1>3. s1_pc' \in Pc /\ vaddr_r' \in Pc /\ flush_slot' \in Pc \cup {NoPc}
  BY <1>1, <1>2, NextPcType DEF TypeOK
<1>4. icache' \in [st: {"idle", "look", "miss", "found"}, pc: Pc, uncached: BOOLEAN]
  BY <1>1, <1>2, NextPcType, ICacheStepFacts
<1>5. CacheFollows'
  <2>1. CASE S0Valid(in)
    BY <1>1, <1>2, <2>1, NextPcType, ICacheStepFacts DEF S0Valid, CacheFollows
  <2>2. CASE ~S0Valid(in) /\ AddrOk(in)
    <3>1. NpcFlush(in) # NoPc
      BY <1>1, <2>2, NextPcType DEF S0Valid
    <3> QED BY <1>2, <2>2, <3>1 DEF CacheFollows
  <2>3. CASE ~S0Valid(in) /\ ~AddrOk(in)
    <3>1. icache'.pc = icache.pc /\ s1_pc' = s1_pc /\ icache.st # "idle"
      BY <1>1, <1>2, <2>3, NextPcType, ICacheStepFacts DEF AddrOk
    <3>2. flush_slot' = NoPc => flush_slot = NoPc
      BY <1>2, <2>3
    <3> QED BY <3>1, <3>2 DEF CacheFollows, TypeInv
  <2> QED BY <2>1, <2>2, <2>3
<1>6. /\ inst_queue' \in Seq(GoodEntry) /\ Len(inst_queue') <= INST_QUEUE_SIZE
      /\ issue_entry' \in Seq(GoodEntry) /\ Len(issue_entry') <= 1
  BY QueueStepType
<1>7. inst_queue' \in Seq(Entry) /\ issue_entry' \in Seq(Entry)
  BY <1>6 DEF GoodEntry
<1>8. expected' \in Pc \cup {NoPc} /\ flushed' \in BOOLEAN
  <2>1. S1Valid(in) => Fetched(in) \in Entry
    BY FetchedIsGood DEF GoodEntry
  <2>2. S1Valid(in) => Following(Fetched(in)) \in Pc \cup {NoPc}
    BY <2>1, PcFacts DEF Following, Entry
  <2>3. NpcFlush(in) \in Pc \cup {NoPc}
    BY <1>1, NextPcType
  <2> QED BY <1>1, <2>2, <2>3 DEF HistoryStep, TypeOK, FlushValid
<1> QED BY <1>3, <1>4, <1>5, <1>6, <1>7, <1>8 DEF TypeInv, TypeOK

\* The state after reset.
LEMMA InitTypes == Init => TypeInv
<1> SUFFICES ASSUME Init PROVE TypeInv
  OBVIOUS
<1>1. /\ <<>> \in Seq(Entry) /\ <<>> \in Seq(GoodEntry) /\ Len(<<>>) = 0
      /\ INST_QUEUE_SIZE \in Nat
  BY EmptySeq, FrontendAssumption
<1>2. RESET_VECTOR \in Pc /\ Plus4(RESET_VECTOR) \in Pc
  BY FrontendAssumption, PcFacts
<1>3. TypeOK
  <2>1. icache \in [st: {"idle", "look", "miss", "found"}, pc: Pc, uncached: BOOLEAN]
    BY <1>2 DEF Init
  <2>2. /\ inst_queue \in Seq(Entry) /\ Len(inst_queue) <= INST_QUEUE_SIZE
        /\ issue_entry \in Seq(Entry) /\ Len(issue_entry) <= 1
    BY <1>1 DEF Init
  <2> QED BY <1>2, <2>1, <2>2 DEF Init, TypeOK
<1> QED BY <1>1, <1>3 DEF Init, TypeInv, CacheFollows

\* The registers of the front end keep their types, and the instruction queue
\* never overflows (IDU.scala, IFU.scala).
THEOREM TypesHold == Spec => []TypeInv
<1>1. Init => TypeInv
  BY InitTypes
<1>2. TypeInv /\ [Next]_vars => TypeInv'
  <2>1. SUFFICES ASSUME TypeInv, [Next]_vars PROVE TypeInv'
    OBVIOUS
  <2>2. CASE UNCHANGED vars
    BY <2>1, <2>2 DEF vars, TypeInv, TypeOK, CacheFollows
  <2>3. ASSUME Redirect PROVE TypeInv'
    BY <2>1, <2>3, ClockKeepsTypes DEF Redirect
  <2>4. ASSUME Run PROVE TypeInv'
    BY <2>1, <2>4, ClockKeepsTypes DEF Run
  <2> QED BY <2>1, <2>2, <2>3, <2>4 DEF Next
<1> QED BY <1>1, <1>2, PTL DEF Spec

\* Every register holds a value of its type.
THEOREM TypeOKHolds == Spec => []TypeOK
  BY TypesHold, PTL DEF TypeInv

\* An instruction that is offered to the issue stage has the bits of its
\* address, however long the cache took and whatever redirects came between.
THEOREM RightInstructionHolds == Spec => []RightInstruction
<1>1. TypeInv => RightInstruction
  <2> SUFFICES ASSUME TypeInv PROVE InFlight \in Seq(GoodEntry)
    BY DEF RightInstruction, GoodEntry
  <2> QED BY DEF TypeInv, InFlight
<1> QED BY <1>1, TypesHold, PTL

-----------------------------------------------------------------------------
(* The next instruction, when all code is cached.                          *)

\* With code that is cached nothing is uncached in the cache, and the cache is
\* idle at an aligned address only after reset.
CachedInv ==
  /\ TypeInv
  /\ ~icache.uncached
  /\ icache.st = "idle" /\ flush_slot = NoPc /\ Aligned(s1_pc) =>
       InFlight = <<>> /\ inst_queue = <<>> /\ vaddr_r \notin Unmapped

\* A redirect that waits while instructions are queued is the full queue's.
ParkedByQueue == flush_slot # NoPc /\ inst_queue # <<>> => flush_slot = s1_pc

\* A clock cycle keeps the first, and an empty queue gets what arrives only.
LEMMA ClockKeepsCached ==
  ASSUME Uncached = {}, CachedInv, NEW in \in Input, Clock(in)
  PROVE  /\ CachedInv'
         /\ icache'.st = "idle" => AddrOk(in) /\ ~Aligned(NextPc(in))
         /\ icache'.st = "idle" /\ flush_slot' = NoPc => ~Aligned(s1_pc')
         /\ AddrOk(in) <=> icache.st = "idle" \/ DataOk(in)
         /\ ~FlushValid(in) /\ ~S1Valid(in) /\ inst_queue' # <<>> => inst_queue # <<>>
<1> USE DEF Clock
<1>1. TypeInv /\ TypeOK
  BY DEF CachedInv, TypeInv
<1>2. /\ s1_pc' = IF S0Valid(in) THEN NextPc(in) ELSE s1_pc
      /\ flush_slot' = IF S0Valid(in) THEN NoPc
                       ELSE IF NpcFlush(in) # NoPc THEN NpcFlush(in) ELSE flush_slot
      /\ ICacheStep(in, NextPc(in))
  BY DEF FetchStep
<1>3. NoPc \notin Pc /\ s1_pc \in Pc /\ NextPc(in) \in Pc
  BY <1>1, PcFacts, NextPcType DEF TypeOK
<1>4. ~icache'.uncached
  BY <1>1, <1>2, <1>3, ICacheStepFacts DEF CachedInv
<1>5. AddrOk(in) <=> icache.st = "idle" \/ DataOk(in)
  BY DEF CachedInv, AddrOk, DataOk
<1>6. icache'.st = "idle" => AddrOk(in) /\ ~Aligned(NextPc(in))
  BY <1>1, <1>2, <1>3, ICacheStepFacts DEF CachedInv
<1>7. AddrOk(in) /\ ~S0Valid(in) => flush_slot' # NoPc
  BY <1>1, <1>2, NextPcType DEF S0Valid
<1>8. icache'.st = "idle" /\ flush_slot' = NoPc => ~Aligned(s1_pc')
  BY <1>2, <1>6, <1>7
<1>9. ~FlushValid(in) /\ ~S1Valid(in) /\ inst_queue' # <<>> => inst_queue # <<>>
  <2>1. inst_queue \in Seq(GoodEntry) /\ <<>> \in Seq(GoodEntry)
    BY <1>1, EmptySeq DEF TypeInv
  <2>2. ~FlushValid(in) /\ ~S1Valid(in) /\ inst_queue = <<>> => inst_queue' = inst_queue \o <<>>
    BY DEF QueueStep
  <2> QED BY <2>1, <2>2, ConcatEmptySeq
<1> QED BY <1>1, <1>4, <1>5, <1>6, <1>8, <1>9, ClockKeepsTypes DEF CachedInv

\* Without a redirect from outside, what arrives is what was awaited, and what
\* is awaited then follows it; and if nothing arrives, it goes on being awaited.
LEMMA AwaitedAfterClock ==
  ASSUME Uncached = {}, CachedInv, NEW in \in Input, Clock(in), ~FlushValid(in)
  PROVE  /\ S1Valid(in) =>
              /\ Awaited = s1_pc
              /\ ~S1Exception => Awaited' = Following(Fetched(in)) /\ flush_slot' = NoPc
         /\ ~S1Valid(in) /\ ParkedByQueue => Awaited' = Awaited /\ ParkedByQueue'
<1> USE DEF Clock
<1>1. TypeInv /\ TypeOK
  BY DEF CachedInv, TypeInv
<1>2. /\ s1_pc' = IF S0Valid(in) THEN NextPc(in) ELSE s1_pc
      /\ flush_slot' = IF S0Valid(in) THEN NoPc
                       ELSE IF NpcFlush(in) # NoPc THEN NpcFlush(in) ELSE flush_slot
      /\ ICacheStep(in, NextPc(in))
  BY DEF FetchStep
<1>3. NoPc \notin Pc /\ s1_pc \in Pc /\ NextPc(in) \in Pc
  BY <1>1, PcFacts, NextPcType DEF TypeOK
<1>4. in.excp = NoPc /\ in.ertn = NoPc /\ in.mispred = NoPc
  BY DEF FlushValid
<1>5. AddrOk(in) <=> icache.st = "idle" \/ DataOk(in)
  BY ClockKeepsCached
<1>6. icache'.st = "idle" /\ flush_slot' = NoPc => ~Aligned(s1_pc')
  BY ClockKeepsCached
<1>7. CASE S1Valid(in)
  <2>1. flush_slot = NoPc /\ ~inst_queue_full
    BY <1>7 DEF S1Valid
  <2>2. Awaited = s1_pc
    <3>1. CASE icache.st = "idle" /\ Aligned(s1_pc)
      BY <1>7, <2>1, <3>1 DEF CachedInv, S1Valid, S1Exception, DataOk, Hits
    <3> QED BY <2>1, <3>1 DEF Awaited
  <2>3. ~S1Exception => Awaited' = Following(Fetched(in)) /\ flush_slot' = NoPc
    <3> SUFFICES ASSUME ~S1Exception
                 PROVE  Awaited' = Following(Fetched(in)) /\ flush_slot' = NoPc
      OBVIOUS
    <3>1. S0Valid(in)
      BY <1>5, <1>7, <2>1 DEF S1Valid, S0Valid
    <3>2. NextPc(in) = Following(Fetched(in))
      BY <1>4, <2>1 DEF NextPc, NpcFlush, Following, Fetched
    <3> QED BY <1>2, <1>3, <1>6, <3>1, <3>2 DEF Awaited
  <2> QED BY <1>7, <2>2, <2>3
<1>8. CASE ~S1Valid(in) /\ ParkedByQueue
  <2>1. NpcFlush(in) = IF inst_queue_full THEN s1_pc ELSE NoPc
    BY <1>4, <1>8 DEF PredictionOK, NpcFlush
  <2>2. CASE S0Valid(in)
    <3>1. ~inst_queue_full
      BY <2>2 DEF S0Valid
    <3>2. NextPc(in) = Awaited
      <4>1. CASE flush_slot # NoPc
        BY <1>1, <2>1, <3>1, <4>1, NextPcType DEF Awaited
      <4>2. CASE flush_slot = NoPc
        <5>1. ~DataOk(in) /\ ~S1Exception
          BY <1>4, <1>8, <3>1, <4>2 DEF S1Valid
        <5>2. icache.st = "idle" /\ Aligned(s1_pc)
          BY <1>5, <2>2, <5>1 DEF S0Valid, S1Exception
        <5> QED BY <1>1, <2>1, <3>1, <4>2, <5>2, NextPcType DEF Awaited
      <4> QED BY <4>1, <4>2
    <3> QED BY <1>2, <1>3, <1>6, <1>8, <2>2, <3>2 DEF Awaited, ParkedByQueue
  <2>3. CASE ~S0Valid(in) /\ inst_queue_full
    <3>1. inst_queue # <<>>
      BY <2>3, FrontendAssumption DEF inst_queue_full
    <3>2. Awaited = s1_pc
      <4>1. CASE flush_slot # NoPc
        BY <1>8, <3>1, <4>1 DEF ParkedByQueue, Awaited
      <4>2. CASE flush_slot = NoPc
        BY <3>1, <4>2 DEF CachedInv, Awaited
      <4> QED BY <4>1, <4>2
    <3> QED BY <1>2, <1>3, <1>8, <2>1, <2>3, <3>2 DEF Awaited, ParkedByQueue
  <2>4. CASE ~S0Valid(in) /\ ~inst_queue_full
    <3>1. ~AddrOk(in) /\ icache.st # "idle" /\ icache'.st # "idle"
      BY <2>4, ClockKeepsCached DEF S0Valid, AddrOk
    <3>2. flush_slot' = flush_slot /\ s1_pc' = s1_pc
      BY <1>2, <2>1, <2>4
    <3>3. inst_queue' # <<>> => inst_queue # <<>>
      BY <1>8, ClockKeepsCached
    <3> QED BY <1>8, <3>1, <3>2, <3>3 DEF Awaited, ParkedByQueue
  <2> QED BY <1>8, <2>2, <2>3, <2>4
<1> QED BY <1>7, <1>8

\* A redirect from outside empties the queue and is what is awaited then.
LEMMA AwaitedAfterRedirect ==
  ASSUME Uncached = {}, CachedInv, NEW in \in Input, Clock(in), FlushValid(in)
  PROVE  /\ inst_queue' = <<>> /\ issue_entry' = <<>>
         /\ Awaited' = NpcFlush(in) /\ expected' = NpcFlush(in)
<1> USE DEF Clock
<1>1. TypeOK
  BY DEF CachedInv, TypeInv
<1>2. expected' = NpcFlush(in) /\ NpcFlush(in) # NoPc /\ NextPc(in) = NpcFlush(in)
  BY <1>1, NextPcType DEF HistoryStep
<1>3. inst_queue' = <<>> /\ issue_entry' = <<>>
  BY DEF QueueStep, IssueEntryStep
<1>4. Awaited' = NpcFlush(in)
  BY <1>2, ClockKeepsCached DEF Awaited, FetchStep
<1> QED BY <1>2, <1>3, <1>4

\* As long as the program is known to go on somewhere, that is what is awaited.
FetchInv ==
  /\ CachedInv /\ FetchesExpected
  /\ expected # NoPc => ParkedByQueue

\* A clock cycle keeps it.
LEMMA ClockKeepsFetch ==
  ASSUME Uncached = {}, FetchInv, NEW in \in Input, Clock(in)
  PROVE  FetchInv'
<1>1. CachedInv /\ CachedInv'
  BY ClockKeepsCached DEF FetchInv
<1>2. CASE FlushValid(in)
  BY <1>1, <1>2, AwaitedAfterRedirect DEF FetchInv, FetchesExpected, ParkedByQueue
<1>3. CASE ~FlushValid(in)
  <2> SUFFICES ASSUME expected' # NoPc PROVE Awaited' = expected' /\ ParkedByQueue'
    BY <1>1 DEF FetchInv, FetchesExpected
  <2>1. /\ expected # NoPc
        /\ expected' = IF S1Valid(in) THEN Following(Fetched(in)) ELSE expected
    BY <1>3 DEF Clock, HistoryStep
  <2>2. CASE S1Valid(in)
    <3>1. ~S1Exception
      BY <2>1, <2>2 DEF Following, Fetched
    <3> QED BY <1>1, <1>3, <2>1, <2>2, <3>1, AwaitedAfterClock DEF ParkedByQueue
  <2>3. CASE ~S1Valid(in)
    BY <1>1, <1>3, <2>1, <2>3, AwaitedAfterClock DEF FetchInv, FetchesExpected
  <2> QED BY <2>2, <2>3
<1> QED BY <1>2, <1>3

\* The state after reset.
LEMMA InitFetch == Init => CachedInv /\ FetchInv
<1> SUFFICES ASSUME Init PROVE CachedInv /\ FetchInv
  OBVIOUS
<1>1. Aligned(s1_pc) /\ flush_slot = NoPc /\ vaddr_r \notin Unmapped
  BY FrontendAssumption DEF Init, Aligned
<1>2. FetchesExpected
  BY <1>1 DEF Init, FetchesExpected, Awaited
<1>3. InFlight = <<>>
  BY DEF Init, InFlight
<1> QED BY <1>1, <1>2, <1>3, InitTypes DEF Init, CachedInv, FetchInv, ParkedByQueue

\* When all code is cached, no redirect, no instruction and no prediction is
\* lost or followed twice, whatever the cache, the queue and the back end do.
THEOREM FetchesExpectedHolds ==
  ASSUME Uncached = {}
  PROVE  Spec => []FetchesExpected
<1>1. Init => FetchInv
  BY InitFetch
<1>2. FetchInv /\ [Next]_vars => FetchInv'
  <2>1. SUFFICES ASSUME FetchInv, [Next]_vars PROVE FetchInv'
    OBVIOUS
  <2>2. CASE UNCHANGED vars
    BY <2>1, <2>2 DEF vars, FetchInv, CachedInv, TypeInv, TypeOK, CacheFollows,
                      FetchesExpected, Awaited, ParkedByQueue, InFlight
  <2>3. ASSUME Redirect PROVE FetchInv'
    BY <2>1, <2>3, ClockKeepsFetch DEF Redirect
  <2>4. ASSUME Run PROVE FetchInv'
    BY <2>1, <2>4, ClockKeepsFetch DEF Run
  <2> QED BY <2>1, <2>2, <2>3, <2>4 DEF Next
<1> QED BY <1>1, <1>2, PTL DEF Spec, FetchInv

-----------------------------------------------------------------------------
(* The order of the instructions on their way, when all code is cached.    *)

\* What a cycle without a redirect does to them: the oldest may leave, and
\* what arrives comes last.
LEMMA InFlightAfterClock ==
  ASSUME TypeInv, NEW in \in Input, Clock(in), ~FlushValid(in)
  PROVE  \E d \in 0 .. Len(InFlight) :
           /\ Len(InFlight') = Len(InFlight) - d + (IF S1Valid(in) THEN 1 ELSE 0)
           /\ \A i \in 1 .. Len(InFlight) - d : InFlight'[i] = InFlight[i + d]
           /\ S1Valid(in) => InFlight'[Len(InFlight')] = Fetched(in)
<1> USE DEF Clock
<1> DEFINE arrived == IF S1Valid(in) THEN <<Fetched(in)>> ELSE <<>>
           q == inst_queue
           e == issue_entry
<1>1. /\ arrived \in Seq(GoodEntry)
      /\ Len(arrived) = IF S1Valid(in) THEN 1 ELSE 0
      /\ S1Valid(in) => arrived[1] = Fetched(in)
  <2>1. CASE S1Valid(in)
    BY <2>1, FetchedIsGood
  <2>2. CASE ~S1Valid(in)
    BY <2>2
  <2> QED BY <2>1, <2>2
<1>2. q \in Seq(GoodEntry) /\ e \in Seq(GoodEntry)
  BY DEF TypeInv
<1>3. /\ inst_queue' = IF in.ready /\ q # <<>> THEN Tail(q) \o arrived ELSE q \o arrived
      /\ issue_entry' = IF in.ready THEN IF q = <<>> THEN <<>> ELSE <<Head(q)>> ELSE e
  BY DEF QueueStep, IssueEntryStep
<1> HIDE DEF arrived
<1>4. InFlight = e \o q /\ InFlight' = issue_entry' \o inst_queue'
  BY DEF InFlight
<1> HIDE DEF q, e
\* What stays is a suffix of what was there.
<1>5. ASSUME NEW k \in Seq(GoodEntry), NEW d \in 0 .. Len(InFlight),
             Len(k) = Len(InFlight) - d, InFlight' = k \o arrived,
             \A i \in 1 .. Len(k) : k[i] = InFlight[i + d]
      PROVE  /\ Len(InFlight') = Len(InFlight) - d + (IF S1Valid(in) THEN 1 ELSE 0)
             /\ \A i \in 1 .. Len(InFlight) - d : InFlight'[i] = InFlight[i + d]
             /\ S1Valid(in) => InFlight'[Len(InFlight')] = Fetched(in)
  <2>1. /\ Len(InFlight') = Len(k) + Len(arrived)
        /\ \A i \in 1 .. Len(k) + Len(arrived) :
             InFlight'[i] = IF i <= Len(k) THEN k[i] ELSE arrived[i - Len(k)]
    BY <1>1, <1>5, ConcatProperties
  <2>2. Len(k) \in Nat
    BY LenProperties
  <2>3. Len(arrived) \in {0, 1}
    BY <1>1
  <2>4. \A i \in 1 .. Len(k) : i \in 1 .. Len(k) + Len(arrived) /\ i <= Len(k)
    BY <2>2, <2>3
  <2>5. S1Valid(in) => InFlight'[Len(InFlight')] = Fetched(in)
    <3> SUFFICES ASSUME S1Valid(in) PROVE InFlight'[Len(InFlight')] = Fetched(in)
      OBVIOUS
    <3>1. Len(InFlight') = Len(k) + 1 /\ Len(arrived) = 1
      BY <1>1, <2>1
    <3>2. Len(k) + 1 \in 1 .. Len(k) + Len(arrived) /\ ~(Len(k) + 1 <= Len(k))
          /\ Len(k) + 1 - Len(k) = 1
      BY <2>2, <3>1
    <3>3. InFlight'[Len(k) + 1] = arrived[Len(k) + 1 - Len(k)]
      BY <2>1, <3>2
    <3> QED BY <1>1, <3>1, <3>2, <3>3
  <2>6. Len(InFlight') = Len(InFlight) - d + (IF S1Valid(in) THEN 1 ELSE 0)
    BY <1>1, <1>5, <2>1
  <2>7. \A i \in 1 .. Len(InFlight) - d : InFlight'[i] = InFlight[i + d]
    BY <1>5, <2>1, <2>4
  <2> QED BY <2>5, <2>6, <2>7
<1>6. /\ Len(e) \in Nat /\ Len(q) \in Nat
      /\ InFlight \in Seq(GoodEntry)
      /\ Len(InFlight) = Len(e) + Len(q)
      /\ \A i \in 1 .. Len(e) + Len(q) : InFlight[i] = IF i <= Len(e) THEN e[i] ELSE q[i - Len(e)]
  BY <1>2, <1>4, ConcatProperties, LenProperties
<1>7. CASE ~in.ready
  <2>1. InFlight' = InFlight \o arrived
    <3>1. InFlight' = e \o (q \o arrived)
      BY <1>3, <1>4, <1>7
    <3>2. (e \o q) \o arrived = e \o (q \o arrived)
      BY <1>1, <1>2, ConcatAssociative
    <3> QED BY <1>4, <3>1, <3>2
  <2>2. 0 \in 0 .. Len(InFlight) /\ Len(InFlight) = Len(InFlight) - 0
        /\ \A i \in 1 .. Len(InFlight) : InFlight[i] = InFlight[i + 0]
    BY <1>6
  <2> QED BY <1>5, <1>6, <2>1, <2>2
<1>8. CASE in.ready
  <2>1. InFlight' = q \o arrived
    <3>1. CASE q = <<>>
      <4>1. <<>> \o (<<>> \o arrived) = <<>> \o arrived
        BY <1>1, ConcatEmptySeq
      <4> QED BY <1>3, <1>4, <1>8, <3>1, <4>1
    <3>2. CASE q # <<>>
      <4>1. <<Head(q)>> \in Seq(GoodEntry) /\ Tail(q) \in Seq(GoodEntry) /\ <<Head(q)>> \o Tail(q) = q
        BY <1>2, <3>2
      <4>2. <<Head(q)>> \o (Tail(q) \o arrived) = (<<Head(q)>> \o Tail(q)) \o arrived
        BY <1>1, <4>1, ConcatAssociative
      <4> QED BY <1>3, <1>4, <1>8, <3>2, <4>1, <4>2
    <3> QED BY <3>1, <3>2
  <2>2. Len(e) \in 0 .. Len(InFlight) /\ Len(q) = Len(InFlight) - Len(e)
        /\ \A i \in 1 .. Len(q) : q[i] = InFlight[i + Len(e)]
    BY <1>6
  <2> QED BY <1>2, <1>5, <2>1, <2>2
<1> QED BY <1>7, <1>8

\* The youngest instruction on its way.
Youngest == InFlight[Len(InFlight)]

\* The ones on their way are one stretch of the program but for the exceptions,
\* and what is awaited follows the youngest.
OrderInv ==
  /\ CachedInv
  /\ \A i \in 1 .. Len(InFlight) - 1 :
       ~InFlight[i].exception => InFlight[i + 1].pc = Following(InFlight[i])
  /\ InFlight # <<>> /\ ~Youngest.exception => Awaited = Following(Youngest)
  /\ inst_queue # <<>> /\ ~Youngest.exception => ParkedByQueue

\* A clock cycle keeps it.
LEMMA ClockKeepsOrder ==
  ASSUME Uncached = {}, OrderInv, NEW in \in Input, Clock(in)
  PROVE  OrderInv'
<1>1. CachedInv /\ CachedInv' /\ TypeInv /\ TypeInv'
  BY ClockKeepsCached DEF OrderInv, CachedInv
<1>2. CASE FlushValid(in)
  <2>1. inst_queue' = <<>> /\ issue_entry' = <<>>
    BY <1>1, <1>2, AwaitedAfterRedirect
  <2>2. InFlight' = <<>> /\ Len(InFlight') = 0
    BY <2>1 DEF InFlight
  <2> QED BY <1>1, <2>1, <2>2 DEF OrderInv
<1>3. CASE ~FlushValid(in)
  <2> DEFINE n == Len(InFlight)
             m == Len(InFlight')
             arrives == IF S1Valid(in) THEN 1 ELSE 0
  <2>1. PICK d \in 0 .. n : /\ m = n - d + arrives
                            /\ \A i \in 1 .. n - d : InFlight'[i] = InFlight[i + d]
                            /\ S1Valid(in) => InFlight'[m] = Fetched(in)
    BY <1>1, <1>3, InFlightAfterClock
  <2>2. /\ InFlight \in Seq(GoodEntry) /\ InFlight' \in Seq(GoodEntry)
        /\ n \in Nat /\ m \in Nat
        /\ InFlight = <<>> <=> n = 0
        /\ InFlight' = <<>> <=> m = 0
        /\ inst_queue # <<>> => n # 0
        /\ inst_queue' # <<>> => m # 0
    <3>1. /\ inst_queue \in Seq(GoodEntry) /\ issue_entry \in Seq(GoodEntry)
          /\ inst_queue' \in Seq(GoodEntry) /\ issue_entry' \in Seq(GoodEntry)
      BY <1>1 DEF TypeInv
    <3>2. InFlight \in Seq(GoodEntry) /\ InFlight' \in Seq(GoodEntry)
      BY <3>1, ConcatProperties DEF InFlight
    <3>3. n = Len(issue_entry) + Len(inst_queue) /\ m = Len(issue_entry') + Len(inst_queue')
      BY <3>1, ConcatProperties DEF InFlight
    <3>4. /\ inst_queue # <<>> => Len(inst_queue) \in Nat \ {0}
          /\ inst_queue' # <<>> => Len(inst_queue') \in Nat \ {0}
          /\ Len(issue_entry) \in Nat /\ Len(issue_entry') \in Nat
      BY <3>1, EmptySeq, LenProperties
    <3>5. n \in Nat /\ m \in Nat
      BY <3>2, LenProperties
    <3> QED BY <3>2, <3>3, <3>4, <3>5, EmptySeq
  <2>3. S1Valid(in) => Awaited = s1_pc /\ Fetched(in).pc = s1_pc /\ Fetched(in).exception = S1Exception
    BY <1>1, <1>3, AwaitedAfterClock DEF Fetched
  <2> HIDE DEF n, m
  <2>4. \A i \in 1 .. m - 1 :
          ~InFlight'[i].exception => InFlight'[i + 1].pc = Following(InFlight'[i])
    <3> SUFFICES ASSUME NEW i \in 1 .. m - 1, ~InFlight'[i].exception
                 PROVE  InFlight'[i + 1].pc = Following(InFlight'[i])
      OBVIOUS
    <3>1. i \in 1 .. n - d /\ i + d \in 1 .. n /\ InFlight'[i] = InFlight[i + d]
      BY <2>1, <2>2
    <3>2. CASE i + 1 \in 1 .. n - d
      <4>1. i + d \in 1 .. n - 1 /\ InFlight'[i + 1] = InFlight[(i + 1) + d] /\ (i + 1) + d = (i + d) + 1
        BY <2>1, <2>2, <3>1, <3>2
      <4> QED BY <3>1, <4>1 DEF OrderInv, n
    <3>3. CASE i + 1 \notin 1 .. n - d
      <4>1. S1Valid(in) /\ i + 1 = m /\ i + d = n
        BY <2>1, <2>2, <3>1, <3>3
      <4>2. InFlight # <<>> /\ InFlight'[i] = Youngest
        BY <2>2, <3>1, <4>1 DEF Youngest, n
      <4> QED BY <2>1, <2>3, <4>1, <4>2 DEF OrderInv
    <3> QED BY <3>2, <3>3
  <2>5. CASE S1Valid(in)
    <3>1. Youngest' = Fetched(in)
      BY <2>1, <2>5 DEF Youngest, m
    <3>2. ~Youngest'.exception => Awaited' = Following(Youngest') /\ flush_slot' = NoPc
      BY <1>1, <1>3, <2>3, <2>5, <3>1, AwaitedAfterClock
    <3> QED BY <1>1, <2>4, <3>2 DEF OrderInv, ParkedByQueue, m
  <2>6. CASE ~S1Valid(in)
    <3>1. InFlight' # <<>> => InFlight # <<>> /\ Youngest' = Youngest
      <4> SUFFICES ASSUME InFlight' # <<>> PROVE InFlight # <<>> /\ Youngest' = Youngest
        OBVIOUS
      <4>1. m = n - d /\ m # 0 /\ m \in 1 .. n - d /\ m + d = n /\ n # 0
        BY <2>1, <2>2, <2>6
      <4>2. InFlight'[m] = InFlight[n]
        BY <2>1, <4>1
      <4> QED BY <2>2, <4>1, <4>2 DEF Youngest, m, n
    <3>2. ASSUME InFlight' # <<>>, ~Youngest'.exception
          PROVE  Awaited' = Following(Youngest') /\ ParkedByQueue'
      <4>1. Awaited = Following(Youngest)
        BY <3>1, <3>2 DEF OrderInv
      <4>2. CASE inst_queue # <<>>
        BY <1>1, <1>3, <2>6, <3>1, <3>2, <4>1, <4>2, AwaitedAfterClock DEF OrderInv
      <4>3. CASE inst_queue = <<>>
        <5>1. ParkedByQueue
          BY <4>3 DEF ParkedByQueue
        <5> QED BY <1>1, <1>3, <2>6, <3>1, <3>2, <4>1, <5>1, AwaitedAfterClock
      <4> QED BY <4>2, <4>3
    <3>3. inst_queue' # <<>> => InFlight' # <<>>
      BY <2>2
    <3> QED BY <1>1, <2>4, <3>2, <3>3 DEF OrderInv, m
  <2> QED BY <2>5, <2>6
<1> QED BY <1>2, <1>3

\* When all code is cached, the instructions offered to the issue stage are,
\* up to the first exception, one stretch of the predicted program: nothing is
\* missing or there twice, and it goes on where the program is expected to.
THEOREM InProgramOrderHolds ==
  ASSUME Uncached = {}
  PROVE  Spec => []InProgramOrder
<1>1. Init => OrderInv
  <2> SUFFICES ASSUME Init PROVE OrderInv
    OBVIOUS
  <2>1. InFlight = <<>> /\ Len(InFlight) = 0 /\ inst_queue = <<>>
    BY DEF Init, InFlight
  <2> QED BY <2>1, InitFetch DEF OrderInv
<1>2. OrderInv /\ [Next]_vars => OrderInv'
  <2>1. SUFFICES ASSUME OrderInv, [Next]_vars PROVE OrderInv'
    OBVIOUS
  <2>2. CASE UNCHANGED vars
    <3>1. InFlight' = InFlight /\ Awaited' = Awaited /\ inst_queue' = inst_queue
          /\ (ParkedByQueue' <=> ParkedByQueue)
      BY <2>2 DEF vars, InFlight, Awaited, ParkedByQueue
    <3>2. CachedInv'
      BY <2>1, <2>2 DEF vars, OrderInv, CachedInv, TypeInv, TypeOK, CacheFollows, InFlight
    <3> QED BY <2>1, <3>1, <3>2 DEF OrderInv, Youngest
  <2>3. ASSUME Redirect PROVE OrderInv'
    BY <2>1, <2>3, ClockKeepsOrder DEF Redirect
  <2>4. ASSUME Run PROVE OrderInv'
    BY <2>1, <2>4, ClockKeepsOrder DEF Run
  <2> QED BY <2>1, <2>2, <2>3, <2>4 DEF Next
<1>3. OrderInv /\ FetchesExpected => InProgramOrder
  <2> SUFFICES ASSUME OrderInv, FetchesExpected, NEW i \in 1 .. Len(InFlight), BeforeException(i)
               PROVE  Following(InFlight[i]) = IF i < Len(InFlight) THEN InFlight[i + 1].pc
                                               ELSE expected
    BY DEF InProgramOrder
  <2>1. inst_queue \in Seq(GoodEntry) /\ issue_entry \in Seq(GoodEntry)
    BY DEF OrderInv, CachedInv, TypeInv
  <2>2. InFlight \in Seq(GoodEntry) /\ Len(InFlight) \in Nat
    BY <2>1, ConcatProperties, LenProperties DEF InFlight
  <2>3. ~InFlight[i].exception
    BY <2>2 DEF BeforeException
  <2>4. CASE i < Len(InFlight)
    BY <2>2, <2>3, <2>4 DEF OrderInv
  <2>5. CASE ~(i < Len(InFlight))
    <3>1. i = Len(InFlight) /\ InFlight # <<>>
      BY <2>2, <2>5, EmptySeq
    <3>2. expected # NoPc
      BY <2>2, <2>3, <3>1 DEF BeforeException
    <3> QED BY <2>3, <2>5, <3>1, <3>2 DEF OrderInv, Youngest, FetchesExpected
  <2> QED BY <2>4, <2>5
<1> QED BY <1>1, <1>2, <1>3, FetchesExpectedHolds, PTL DEF Spec
=============================================================================
