---------------------------- MODULE SimulatorProofs ----------------------------
(* Proofs about Simulator: an alarm of the comparison is a mistake of the      *)
(* processor, the first mistake raises one, the exit code tells of it, and the *)
(* bus is a memory of bytes.                                                   *)
EXTENDS Simulator, FiniteSetTheorems, TLAPS

Locations == {"main", "prompt", "execute", "start", "clock", "record", "difftest", "check",
              "final", "success", "failure", "crashed"}
States == {"STOP", "RUNNING", "END", "ABORT", "QUIT"}
Causes == {"none", "ecall", "timer"}
Processor == [pc : Nat, reg : Registers, epc : Nat, cause : Causes]
Report == [valid : BOOLEAN, pc : Nat, inst : Kinds \cup {"none"}, trap : Causes, io : BOOLEAN]

History == [erred : BOOLEAN, due : BOOLEAN, excused : BOOLEAN, afterIO : BOOLEAN,
            alarm : BOOLEAN, silenced : BOOLEAN]

\* What the argument needs of the types.
TypeInv ==
  /\ session \in Sessions /\ loc \in Locations /\ state \in States
  /\ cpu \in Processor /\ ref \in Processor /\ dut \in Report
  /\ npc \in [pc : Nat, inst : Kinds \cup {"none"}] /\ skip \in BOOLEAN
  /\ hist \in History

-----------------------------------------------------------------------------
(* The comparison, as long as nothing went wrong and nothing misled it: between *)
(* two instructions the reference is where the processor is, except for the    *)
(* register and the pc that the next synchronisation copies.  While an         *)
(* instruction or a trap waits to be looked at, it is the reference's next.    *)

Clean == ~hist.erred /\ ~hist.excused
Looking == loc \in {"record", "difftest"}

Followed ==
  /\ ~dut.valid /\ dut.trap = "none"
  /\ ref.epc = cpu.epc /\ ref.cause = cpu.cause
  /\ skip => hist.afterIO
  /\ ~skip => ref = cpu

TrapSeen == dut.trap # "none" /\ ~dut.io /\ (~skip => cpu = Trap(ref, dut.trap))

\* s is the processor before the instruction that committed.
CommitSeen ==
  /\ dut.trap = "none"
  /\ dut.io <=> dut.inst = "mmio"
  /\ hist.afterIO <=> dut.io
  /\ \E s \in Processor, got \in Registers :
       /\ s.pc = dut.pc /\ s.epc = ref.epc /\ s.cause = ref.cause
       /\ ~skip => s = ref
       /\ dut.inst = InstAt(s) /\ cpu = Exec(dut.inst, s, got)

FollowInv ==
  /\ Clean /\ ~At("crashed") => IF Looking THEN TrapSeen \/ CommitSeen ELSE Followed
  /\ At("difftest") => npc.pc = dut.pc

\* The first mistake is looked at with the reference in step.
CaughtNext ==
  /\ Looking /\ ~skip /\ ~dut.io /\ dut.trap = "none" /\ dut.inst # "ebreak"
  /\ ref.pc # dut.pc \/ Exec(InstAt(ref), ref, 0).reg # cpu.reg
FaultInv == hist.due => hist.erred /\ (hist.alarm \/ At("crashed") \/ CaughtNext)

\* An alarm that nobody silenced keeps the simulator out of execution.
ExitInv ==
  hist.alarm /\ ~hist.silenced =>
    state = "ABORT" /\ loc \in {"check", "prompt", "main", "final", "execute", "failure", "crashed"}

-----------------------------------------------------------------------------
(* The bus: the memory still agrees with the last access.                      *)

DevOK(d) == DOMAIN d = {"mem", "clint", "serial", "flag"} /\ DOMAIN d.mem = 0 .. MEMSIZE - 1

InPlace(a) ==
  \A o \in DOMAIN dev.mem :
    (\E k \in a.wmask : o = ByteOf(a, k)) => dev.mem[o] = a.data[CHOOSE k \in a.wmask : o = ByteOf(a, k)]
BusInv ==
  /\ DevOK(dev)
  /\ InMemory(last.access) =>
       /\ last.access.op = "write" => InPlace(last.access)
       /\ last.access.op = "read" /\ last.access.rsize <= 2 =>
            \A k \in LanesRead(last.access) : last.data[k] = dev.mem[ByteOf(last.access, k)]

IInv == TypeInv /\ FollowInv /\ AlarmIsReal /\ FaultInv /\ ExitInv /\ BusInv

-----------------------------------------------------------------------------
(* The instructions.                                                           *)

LEMMA AddOne == \A n \in Nat : \A x \in Nat : n > 1 /\ x < n => (x + 1) % n = IF x + 1 = n THEN 0 ELSE x + 1
  OBVIOUS

LEMMA RegisterFacts ==
  /\ Cardinality(Registers) \in Nat /\ Cardinality(Registers) > 1
  /\ 0 \in Registers /\ 1 \in Registers
  /\ \A r \in Registers : r \in Nat /\ (r + 1) % Cardinality(Registers) \in Registers
<1> DEFINE N == Cardinality(Registers)
<1>1. N \in Nat
  BY SimulatorAssumption, FS_CardinalityType
<1>2. Registers = 0 .. N - 1 /\ 0 \in Registers /\ 1 \in Registers
  BY SimulatorAssumption
<1> HIDE DEF N
<1>3. N > 1
  BY <1>1, <1>2
<1>4. \A r \in Registers : r \in Nat /\ (r + 1) % N \in Registers
  BY <1>1, <1>2, <1>3
<1> QED BY <1>1, <1>2, <1>3, <1>4 DEF N

\* An instruction leaves a processor behind, and only one that reads a device
\* depends on what the device returns.
LEMMA ExecFacts ==
  ASSUME NEW i \in Kinds \cup {"none"}, NEW s \in Processor, NEW got \in Registers
  PROVE  /\ Exec(i, s, got) \in Processor
         /\ i # "mmio" => Exec(i, s, got) = Exec(i, s, 0)
         /\ i = "mmio" => Exec(i, s, got).epc = s.epc /\ Exec(i, s, got).cause = s.cause
<1>1. s.pc \in Nat /\ s.pc + 1 \in Nat /\ s.reg \in Registers /\ s.epc \in Nat /\ s.cause \in Causes
  BY DEF Processor
<1>2. Handler \in Nat
  BY SimulatorAssumption
<1>3. CASE i = "set"
  <2>1. \A g : Exec(i, s, g) = [s EXCEPT !.pc = s.pc + 1, !.reg = 1]
    BY <1>3 DEF Exec
  <2>2. [s EXCEPT !.pc = s.pc + 1, !.reg = 1] \in Processor
    BY <1>1, RegisterFacts, Zenon DEF Processor
  <2> QED BY <1>3, <2>1, <2>2
<1>4. CASE i = "inc"
  <2>1. \A g : Exec(i, s, g) = [s EXCEPT !.pc = s.pc + 1, !.reg = (s.reg + 1) % Cardinality(Registers)]
    BY <1>4 DEF Exec
  <2>2. (s.reg + 1) % Cardinality(Registers) \in Registers
    BY <1>1, RegisterFacts
  <2>3. [s EXCEPT !.pc = s.pc + 1, !.reg = (s.reg + 1) % Cardinality(Registers)] \in Processor
    BY <1>1, <2>2, Zenon DEF Processor
  <2> QED BY <1>4, <2>1, <2>3
<1>5. CASE i = "mmio"
  <2>1. Exec(i, s, got) = [s EXCEPT !.pc = s.pc + 1, !.reg = got]
    BY <1>5 DEF Exec
  <2>2. [s EXCEPT !.pc = s.pc + 1, !.reg = got] \in Processor
    BY <1>1, Zenon DEF Processor
  <2> QED BY <1>5, <2>1, <2>2 DEF Processor
<1>6. CASE i = "mret"
  <2>1. \A g : Exec(i, s, g) = [s EXCEPT !.pc = s.epc, !.cause = "none"]
    BY <1>6 DEF Exec
  <2>2. [s EXCEPT !.pc = s.epc, !.cause = "none"] \in Processor
    BY <1>1, Zenon DEF Processor, Causes
  <2> QED BY <1>6, <2>1, <2>2
<1>7. CASE i = "ecall"
  BY <1>1, <1>2, <1>7 DEF Exec, Trap, Processor, Causes
<1>8. CASE i \in {"ebreak", "none"}
  BY <1>1, <1>8 DEF Exec, Processor
<1> QED BY <1>3, <1>4, <1>5, <1>6, <1>7, <1>8 DEF Kinds

LEMMA TrapType ==
  ASSUME NEW s \in Processor, NEW c \in Causes
  PROVE  Trap(s, c) \in Processor
  BY SimulatorAssumption DEF Trap, Processor

LEMMA InstAtType ==
  ASSUME session \in Sessions, NEW s \in Processor
  PROVE  InstAt(s) \in Kinds \cup {"none"}
  BY SimulatorAssumption DEF InstAt, SessionOK

\* An instruction that can be repeated after it ran leaves the processor as it
\* left it the first time.
LEMMA RepeatedStep ==
  ASSUME NEW i \in Kinds \cup {"none"}, NEW s \in Processor, i # "mmio",
         Repeatable(i, [Exec(i, s, 0) EXCEPT !.pc = s.pc])
  PROVE  Exec(i, [s EXCEPT !.reg = Exec(i, s, 0).reg], 0) = Exec(i, s, 0)
<1> DEFINE N == Cardinality(Registers)
           d == Exec(i, s, 0)
           c == [d EXCEPT !.pc = s.pc]
<1>1. d \in Processor /\ c \in Processor /\ c.reg = d.reg
  BY ExecFacts, RegisterFacts DEF Processor
<1>2. CASE i = "inc"
  <2>1. N \in Nat /\ N > 1 /\ Registers = 0 .. N - 1
    BY RegisterFacts, SimulatorAssumption
  <2>2. d.reg = (s.reg + 1) % N /\ d.reg \in Registers
    BY <1>1, <1>2 DEF Exec, Processor
  <2>3. Exec(i, c, 0).reg = (d.reg + 1) % N
    BY <1>1, <1>2 DEF Exec, Processor
  <2>4. Exec(i, Exec(i, c, 0), 0).reg = (((d.reg + 1) % N) + 1) % N
    BY <1>1, <1>2, <2>3, ExecFacts, RegisterFacts DEF Exec, Processor
  <2>5. (((d.reg + 1) % N) + 1) % N = (d.reg + 1) % N
    BY <2>3, <2>4 DEF Repeatable
  <2> HIDE DEF N, d
  <2>6. FALSE
    <3> DEFINE x == d.reg
               y == (x + 1) % N
    <3>1. x \in Nat /\ x < N
      BY <2>1, <2>2
    <3> HIDE DEF x
    <3>2. y = IF x + 1 = N THEN 0 ELSE x + 1
      BY <2>1, <3>1, AddOne
    <3>3. y \in Nat /\ y < N
      BY <2>1, <3>1, <3>2
    <3>4. y = (y + 1) % N
      BY <2>5 DEF x
    <3> HIDE DEF y
    <3>5. y = IF y + 1 = N THEN 0 ELSE y + 1
      BY <2>1, <3>3, <3>4, AddOne
    <3> QED BY <2>1, <3>3, <3>5
  <2> QED BY <2>6
<1>3. CASE i # "inc"
  BY <1>3 DEF Exec, Trap, Processor, Kinds
<1> QED BY <1>2, <1>3

-----------------------------------------------------------------------------
(* What a clock can bring.                                                     *)

LEMMA CommitFacts ==
  ASSUME session \in Sessions, NEW s \in Processor, InstAt(s) # "none", NEW e \in Commits(s)
  PROVE  /\ DOMAIN e = {"kind", "pc", "inst", "next", "wrong"}
         /\ e.kind = "commit" /\ e.pc = s.pc /\ e.inst = InstAt(s) /\ e.wrong = FALSE
         /\ e.inst \in Kinds /\ e.next \in Processor
         /\ \E got \in Registers : e.next = Exec(InstAt(s), s, got)
<1>1. InstAt(s) \in Kinds
  BY InstAtType
<1>2. PICK got \in Registers :
        e = [kind |-> "commit", pc |-> s.pc, inst |-> InstAt(s), next |-> Exec(InstAt(s), s, got), wrong |-> FALSE]
  BY RegisterFacts DEF Commits
<1>3. Exec(InstAt(s), s, got) \in Processor
  BY <1>1, ExecFacts
<1> QED BY <1>1, <1>2, <1>3

\* e is the processor's next instruction, done right.
Right(s, e) ==
  e.pc = s.pc /\ e.inst = InstAt(s) /\ \E got \in Registers : e.next = Exec(e.inst, s, got)
\* e cannot pass for it.
Differing(s, e) == e.pc # s.pc \/ (e.inst = InstAt(s) /\ e.next.reg # Exec(e.inst, s, 0).reg)

CommitOf(s, e) ==
  /\ e.kind = "commit" /\ e.wrong \in BOOLEAN /\ e.inst \in Kinds /\ e.pc \in Nat /\ e.next \in Processor
  /\ ~e.wrong => Right(s, e)
  /\ e.wrong /\ e.inst # "mmio" => Differing(s, e)

LEMMA CommitsAreRight ==
  ASSUME session \in Sessions, NEW s \in Processor, InstAt(s) # "none", NEW e \in Commits(s)
  PROVE  CommitOf(s, e)
<1>1. /\ e.kind = "commit" /\ e.pc = s.pc /\ e.inst = InstAt(s) /\ e.wrong = FALSE
      /\ e.inst \in Kinds /\ e.next \in Processor /\ s.pc \in Nat
      /\ \E got \in Registers : e.next = Exec(InstAt(s), s, got)
  BY CommitFacts DEF Processor
<1> QED BY <1>1, Zenon DEF CommitOf, Right

LEMMA WrongResultFacts ==
  ASSUME session \in Sessions, NEW s \in Processor, InstAt(s) # "none", NEW e \in WrongResult(s),
         e.next.reg # Exec(InstAt(s), s, e.next.reg).reg
  PROVE  CommitOf(s, e)
<1>1. PICK d \in Commits(s), r \in Registers : e = [d EXCEPT !.next.reg = r, !.wrong = TRUE]
  BY DEF WrongResult
<1>2. /\ e.kind = d.kind /\ e.pc = d.pc /\ e.inst = d.inst /\ e.wrong = TRUE
      /\ e.next = [d.next EXCEPT !.reg = r]
  BY <1>1, CommitFacts
<1>3. d.next \in Processor /\ e.next \in Processor /\ e.next.reg = r
  BY <1>2, CommitFacts DEF Processor
<1>4. e.inst \in Kinds /\ e.inst = InstAt(s) /\ e.kind = "commit" /\ e.pc = s.pc /\ s.pc \in Nat
  BY <1>2, CommitFacts DEF Processor
<1>5. e.inst # "mmio" => e.next.reg # Exec(e.inst, s, 0).reg
  BY <1>3, <1>4, ExecFacts
<1> QED BY <1>2, <1>3, <1>4, <1>5 DEF CommitOf, Differing

LEMMA LostInstructionFacts ==
  ASSUME session \in Sessions, NEW s \in Processor, NEW e \in LostInstruction(s)
  PROVE  CommitOf(s, e)
<1> DEFINE after == [s EXCEPT !.pc = s.pc + 1]
<1>1. after \in Processor /\ after.pc = s.pc + 1 /\ s.pc \in Nat
  BY DEF Processor
<1> HIDE DEF after
<1>2. InstAt(after) # "none" /\ \E d \in Commits(after) : e = [d EXCEPT !.wrong = TRUE]
  BY DEF LostInstruction, after
<1>3. PICK d \in Commits(after) : e = [d EXCEPT !.wrong = TRUE]
  BY <1>2
<1>4. /\ e.kind = d.kind /\ e.pc = d.pc /\ e.inst = d.inst /\ e.wrong = TRUE /\ e.next = d.next
      /\ d.kind = "commit" /\ d.pc = after.pc /\ d.inst \in Kinds /\ d.next \in Processor
  BY <1>1, <1>2, <1>3, CommitFacts
<1>5. e.pc # s.pc /\ e.pc \in Nat
  BY <1>1, <1>4
<1> QED BY <1>4, <1>5 DEF CommitOf, Differing

TrapOf(e) == e.kind = "trap" /\ e.cause \in {"ecall", "timer"}

LEMMA EventFacts ==
  ASSUME session \in Sessions, NEW s \in Processor, NEW e \in Events(s)
  PROVE  e = Bubble \/ TrapOf(e) \/ CommitOf(s, e)
<1>1. CASE e \in Traps(s)
  BY <1>1 DEF Traps, TrapOf
<1>2. CASE InstAt(s) \notin {"none", "ecall"} /\ e \in Executes(s)
  BY <1>2, CommitsAreRight, WrongResultFacts, LostInstructionFacts DEF Executes
<1> QED BY <1>1, <1>2 DEF Events

\* What a clock leaves in the processor and in the report of its probes.
LEMMA ClockFacts ==
  ASSUME session \in Sessions, cpu \in Processor, dut \in Report, NEW e \in Events(cpu)
  PROVE  /\ After(cpu, e) \in Processor /\ Reported(dut, e) \in Report
         /\ e = Bubble => After(cpu, e) = cpu /\ Reported(dut, e) = [dut EXCEPT !.trap = "none", !.io = FALSE]
         /\ TrapOf(e) => /\ After(cpu, e) = Trap(cpu, e.cause)
                         /\ Reported(dut, e) = [dut EXCEPT !.trap = e.cause, !.io = FALSE]
         /\ CommitOf(cpu, e) =>
              /\ After(cpu, e) = e.next
              /\ Reported(dut, e) = [valid |-> TRUE, pc |-> e.pc, inst |-> e.inst, trap |-> "none",
                                     io |-> e.inst = "mmio"]
         /\ e.kind # "commit" <=> e = Bubble \/ TrapOf(e)
<1>1. CASE e = Bubble
  <2>1. e.kind = "bubble"
    BY <1>1 DEF Bubble
  <2>2. After(cpu, e) = cpu /\ Reported(dut, e) = [dut EXCEPT !.trap = "none", !.io = FALSE]
    BY <2>1 DEF After, Reported
  <2>3. [dut EXCEPT !.trap = "none", !.io = FALSE] \in Report
    BY Zenon DEF Report, Causes
  <2> QED BY <1>1, <2>1, <2>2, <2>3 DEF TrapOf, CommitOf
<1>2. CASE TrapOf(e)
  <2>1. e.kind = "trap" /\ e.cause \in Causes
    BY <1>2 DEF TrapOf, Causes
  <2>2. After(cpu, e) = Trap(cpu, e.cause) /\ Reported(dut, e) = [dut EXCEPT !.trap = e.cause, !.io = FALSE]
    BY <2>1 DEF After, Reported
  <2>3. [dut EXCEPT !.trap = e.cause, !.io = FALSE] \in Report
    BY <2>1, Zenon DEF Report
  <2>4. e # Bubble
    BY <2>1 DEF Bubble
  <2> QED BY <1>2, <2>1, <2>2, <2>3, <2>4, TrapType DEF CommitOf
<1>3. CASE CommitOf(cpu, e)
  <2>1. e.kind = "commit"
    BY <1>3 DEF CommitOf
  <2>2. /\ After(cpu, e) = e.next
        /\ Reported(dut, e) = [valid |-> TRUE, pc |-> e.pc, inst |-> e.inst, trap |-> "none", io |-> e.inst = "mmio"]
    BY <2>1 DEF After, Reported
  <2>3. e # Bubble /\ ~TrapOf(e)
    BY <2>1 DEF Bubble, TrapOf
  <2> QED BY <1>3, <2>1, <2>2, <2>3 DEF CommitOf, Report, Causes
<1> QED BY <1>1, <1>2, <1>3, EventFacts

-----------------------------------------------------------------------------
(* The devices: what an access leaves of them.                                 *)

Effects == {"none", "STOP", "ABORT", "crash"}

\* r is an answer that leaves the memory as it was.
Elsewhere(d, r) ==
  DOMAIN r = {"dev", "data", "effect"} /\ DevOK(r.dev) /\ r.dev.mem = d.mem /\ r.effect \in Effects

LEMMA EffectFacts ==
  ASSUME NEW m, NEW len
  PROVE  /\ HandlerEffect(m, len) \in {"none", "STOP"} /\ LengthEffect(len) \in {"none", "ABORT"}
         /\ Later(HandlerEffect(m, len), LengthEffect(len)) \in Effects
         /\ Later(LengthEffect(len), HandlerEffect(m, len)) \in Effects
  BY DEF HandlerEffect, LengthEffect, Later, Effects

LEMMA CrashFacts ==
  ASSUME NEW d, DevOK(d)
  PROVE  Elsewhere(d, Crash(d))
  BY DEF Elsewhere, Crash, Effects

LEMMA MapOfFacts ==
  ASSUME NEW a, ~OutOfBound(a)
  PROVE  (CHOOSE x \in MapOf(a) : TRUE) \in {"clint", "serial"}
<1>1. \E m \in MapOf(a) : TRUE
  BY DEF OutOfBound
<1>2. (CHOOSE x \in MapOf(a) : TRUE) \in MapOf(a)
  BY <1>1
<1> QED BY <1>2 DEF MapOf, Maps

\* One of the devices beside the memory changes.
LEMMA DeviceChange ==
  ASSUME NEW d, DevOK(d), NEW m \in {"clint", "serial"}, NEW space
  PROVE  DevOK([d EXCEPT ![m] = space]) /\ [d EXCEPT ![m] = space].mem = d.mem
  BY DEF DevOK

LEMMA MapReadFacts ==
  ASSUME NEW d, DevOK(d), NEW a, NEW len
  PROVE  Elsewhere(d, map_read(d, a, len))
<1> DEFINE m == CHOOSE x \in MapOf(a) : TRUE
           space == Handled(m, d[m], a - Maps[m].low, len, FALSE)
<1>1. CASE OutOfBound(a) \/ len \notin 1 .. 8
  <2>1. map_read(d, a, len) = Crash(d)
    BY <1>1 DEF map_read
  <2> QED BY <2>1, CrashFacts
<1>2. CASE ~(OutOfBound(a) \/ len \notin 1 .. 8)
  <2>1. m \in {"clint", "serial"}
    BY <1>2, MapOfFacts
  <2>2. map_read(d, a, len) =
          [dev |-> [d EXCEPT ![m] = space], data |-> host_read(space, a - Maps[m].low, len),
           effect |-> Later(HandlerEffect(m, len), LengthEffect(len))]
    BY <1>2 DEF map_read
  <2>3. DevOK([d EXCEPT ![m] = space]) /\ [d EXCEPT ![m] = space].mem = d.mem
    BY <2>1, DeviceChange
  <2> HIDE DEF m, space
  <2> QED BY <2>2, <2>3, EffectFacts DEF Elsewhere
<1> QED BY <1>1, <1>2

LEMMA MapWriteFacts ==
  ASSUME NEW d, DevOK(d), NEW a, NEW len, NEW w
  PROVE  Elsewhere(d, map_write(d, a, len, w))
<1> DEFINE m == CHOOSE x \in MapOf(a) : TRUE
           o == a - Maps[m].low
           space == Handled(m, host_write(d[m], o, len, w), o, len, TRUE)
<1>1. CASE OutOfBound(a) \/ len \notin 1 .. 8
  <2>1. map_write(d, a, len, w) = Crash(d)
    BY <1>1 DEF map_write
  <2> QED BY <2>1, CrashFacts
<1>2. CASE ~(OutOfBound(a) \/ len \notin 1 .. 8)
  <2>1. m \in {"clint", "serial"}
    BY <1>2, MapOfFacts
  <2>2. map_write(d, a, len, w) =
          [dev |-> [d EXCEPT ![m] = space], data |-> w,
           effect |-> Later(LengthEffect(len), HandlerEffect(m, len))]
    BY <1>2, <2>1 DEF map_write, DevOK
  <2>3. DevOK([d EXCEPT ![m] = space]) /\ [d EXCEPT ![m] = space].mem = d.mem
    BY <2>1, DeviceChange
  <2> HIDE DEF m, space
  <2> QED BY <2>2, <2>3, EffectFacts DEF Elsewhere
<1> QED BY <1>1, <1>2

\* The timer's registers are not in the memory.
LEMMA TimerFacts ==
  ASSUME NEW d, DevOK(d)
  PROVE  DevOK(TimerStep(d)) /\ TimerStep(d).mem = d.mem
<1>1. ASSUME NEW x, DevOK(x), NEW r, NEW w
      PROVE  DevOK(SetWord(x, r, w)) /\ SetWord(x, r, w).mem = x.mem
  BY <1>1 DEF SetWord, DevOK
<1>2. ASSUME NEW x, DevOK(x)
      PROVE  DevOK(clint_update(x)) /\ clint_update(x).mem = x.mem
  BY <1>1, <1>2 DEF clint_update
<1>3. ASSUME NEW x, DevOK(x), NEW n
      PROVE  DevOK([x EXCEPT !.flag = n]) /\ [x EXCEPT !.flag = n].mem = x.mem
  BY <1>3 DEF DevOK
<1> QED BY <1>2, <1>3 DEF TimerStep

-----------------------------------------------------------------------------
(* The memory.                                                                 *)

LEMMA Multiples ==
  /\ \A n \in Nat : \A x \in Nat : n > 1 /\ n % 4 = 0 => (x - (x % 4)) % n <= n - 4 /\ (x - (x % 4)) % n >= 0
  /\ \A n \in Nat : \A x, b \in Nat : n > 1 /\ b % n = 0 /\ x \in b .. b + n - 1 => x % n = x - b
  /\ \A x, b \in Nat : b % 4 = 0 /\ x >= b => x - (x % 4) >= b
<1>1. ASSUME NEW n \in Nat, NEW x \in Nat, n > 1, n % 4 = 0
      PROVE  (x - (x % 4)) % n <= n - 4 /\ (x - (x % 4)) % n >= 0
  <2> DEFINE y == x - (x % 4)
             r == y % n
             q == y \div n
             j == n \div 4
             i == x \div 4
  <2>1. y \in Nat /\ y = 4 * i /\ i \in Nat /\ n = 4 * j /\ j \in Nat
    BY <1>1
  <2>2. r \in Nat /\ r < n /\ q \in Nat /\ y = n * q + r
    BY <1>1, <2>1
  <2> HIDE DEF y, r, q, j, i
  <2>3. r = 4 * (i - j * q)
    BY <2>1, <2>2
  <2>4. i - j * q \in Int
    BY <2>1, <2>2
  <2>5. r <= n - 4
    BY <2>1, <2>2, <2>3, <2>4
  <2> QED BY <2>2, <2>5 DEF r, y
<1>2. ASSUME NEW n \in Nat, NEW x \in Nat, NEW b \in Nat, n > 1, b % n = 0, x \in b .. b + n - 1
      PROVE  x % n = x - b
  BY <1>2
<1>3. ASSUME NEW x \in Nat, NEW b \in Nat, b % 4 = 0, x >= b
      PROVE  x - (x % 4) >= b
  BY <1>3
<1> QED BY <1>1, <1>2, <1>3

\* The word of an address lies in the memory, and the address in the word.
LEMMA AddressFacts ==
  ASSUME NEW x \in Nat
  PROVE  /\ pmem_offset(Aligned(x)) \in 0 .. MEMSIZE - 4
         /\ x % 4 \in 0 .. 3
         /\ x \in PMEM_BASE .. PMEM_BASE + MEMSIZE - 1 =>
              in_pmem(x) /\ pmem_offset(x) = pmem_offset(Aligned(x)) + (x % 4)
<1>1. MEMSIZE \in Nat /\ MEMSIZE > 1 /\ MEMSIZE % 4 = 0 /\ PMEM_BASE \in Nat
      /\ PMEM_BASE % MEMSIZE = 0 /\ PMEM_BASE % 4 = 0
  BY DevicesAssumption
<1>2. x - (x % 4) \in Nat /\ x % 4 \in 0 .. 3
  OBVIOUS
<1>3. (x - (x % 4)) % MEMSIZE <= MEMSIZE - 4 /\ (x - (x % 4)) % MEMSIZE >= 0
      /\ (x - (x % 4)) % MEMSIZE \in Int
  <2>1. (x - (x % 4)) % MEMSIZE <= MEMSIZE - 4 /\ (x - (x % 4)) % MEMSIZE >= 0
    BY <1>1, Multiples
  <2>2. (x - (x % 4)) % MEMSIZE \in Int
    BY <1>1, <1>2
  <2> QED BY <2>1, <2>2
<1>4. ASSUME x \in PMEM_BASE .. PMEM_BASE + MEMSIZE - 1
      PROVE  in_pmem(x) /\ x % MEMSIZE = ((x - (x % 4)) % MEMSIZE) + (x % 4)
  <2> DEFINE y == x - (x % 4)
  <2>1. y \in Nat /\ y \in PMEM_BASE .. PMEM_BASE + MEMSIZE - 1
    BY <1>1, <1>2, <1>4, Multiples
  <2>2. x % MEMSIZE = x - PMEM_BASE /\ y % MEMSIZE = y - PMEM_BASE
    <3> HIDE DEF y
    <3> QED BY <1>1, <1>4, <2>1, Multiples
  <2> QED BY <1>1, <1>2, <1>4, <2>2 DEF in_pmem
<1> QED BY <1>1, <1>2, <1>3, <1>4 DEF pmem_offset, Aligned

LEMMA LeastOf == \A x \in Int : Min({3, x}) = IF x < 3 THEN x ELSE 3
  BY DEF Min

LEMMA Lengths == 2 ^ 0 = 1 /\ 2 ^ 1 = 2 /\ 2 ^ 2 = 4
  OBVIOUS

\* A read of the memory.
LEMMA MemoryRead ==
  ASSUME NEW d, DevOK(d), NEW a, a.addr \in Nat, a.rsize \in Nat, in_pmem(a.addr)
  PROVE  LET r == dci_pmem_read(d, a.addr, a.rsize)
         IN /\ Elsewhere(d, r)
            /\ a.addr \in PMEM_BASE .. PMEM_BASE + MEMSIZE - 1 /\ a.rsize <= 2 =>
                 \A k \in LanesRead(a) : r.data[k] = d.mem[ByteOf(a, k)]
<1> DEFINE len == 2 ^ a.rsize
           o == pmem_offset(a.addr)
           r == dci_pmem_read(d, a.addr, a.rsize)
           n == a.addr % 4
           word == pmem_offset(Aligned(a.addr))
<1>1. r = [dev |-> d, data |-> Shifted(host_read(d.mem, o, len), n), effect |-> LengthEffect(len)]
  BY DEF dci_pmem_read
<1>2. Elsewhere(d, r)
  BY <1>1, EffectFacts DEF Elsewhere, Effects
<1>3. ASSUME a.addr \in PMEM_BASE .. PMEM_BASE + MEMSIZE - 1, a.rsize <= 2, NEW k \in LanesRead(a)
      PROVE  r.data[k] = d.mem[ByteOf(a, k)]
  <2>1. len \in {1, 2, 4}
    <3>1. a.rsize = 0 \/ a.rsize = 1 \/ a.rsize = 2
      BY <1>3
    <3> QED BY <3>1, Lengths
  <2>2. n \in 0 .. 3 /\ o = word + n /\ word \in Int
    BY <1>3, AddressFacts, DevicesAssumption
  <2> HIDE DEF len, n, word, o
  <2>3. k \in n .. Min({3, n + len - 1})
    BY DEF LanesRead, n, len
  <2>4. k \in Lane /\ k - n \in Lane /\ k >= n /\ k - n < len
    BY <2>1, <2>2, <2>3, LeastOf DEF Lane
  <2>5. host_read(d.mem, o, len)[k - n] = d.mem[o + (k - n)]
    BY <2>1, <2>4 DEF host_read, BadLength
  <2>6. Shifted(host_read(d.mem, o, len), n)[k] = host_read(d.mem, o, len)[k - n]
    BY <2>4 DEF Shifted
  <2>7. o + (k - n) = word + k
    BY <2>2, <2>4 DEF Lane
  <2> QED BY <1>1, <2>5, <2>6, <2>7 DEF ByteOf, word
<1> QED BY <1>2, <1>3

\* A write of the memory.
LEMMA MemoryWrite ==
  ASSUME NEW d, DevOK(d), NEW a, a.addr \in Nat, a.wmask \subseteq Lane, in_pmem(a.addr)
  PROVE  LET r == dci_pmem_write(d, a.addr, a.data, a.wmask)
         IN /\ DOMAIN r = {"dev", "data", "effect"} /\ DevOK(r.dev) /\ r.effect \in Effects
            /\ \A o \in DOMAIN d.mem :
                 r.dev.mem[o] = IF \E k \in a.wmask : o = ByteOf(a, k)
                                THEN a.data[CHOOSE k \in a.wmask : o = ByteOf(a, k)] ELSE d.mem[o]
<1> DEFINE word == pmem_offset(Aligned(a.addr))
           merged == [k \in Lane |-> IF k \in a.wmask THEN a.data[k] ELSE host_read(d.mem, word, 4)[k]]
           written == host_write(d.mem, word, 4, merged)
           r == dci_pmem_write(d, a.addr, a.data, a.wmask)
<1>1. r = [dev |-> [d EXCEPT !.mem = written], data |-> a.data, effect |-> "none"]
  BY DEF dci_pmem_write, DevOK
<1>2. /\ DOMAIN written = DOMAIN d.mem
      /\ \A o \in DOMAIN d.mem : written[o] = IF o \in word .. word + 3 THEN merged[o - word] ELSE d.mem[o]
  BY DEF host_write, BadLength
<1>3. word \in Int /\ DOMAIN d.mem \subseteq Int
  BY AddressFacts, DevicesAssumption DEF DevOK
<1>4. \A k \in Lane : host_read(d.mem, word, 4)[k] = d.mem[word + k]
  BY DEF host_read, BadLength, Lane
<1>5. DevOK([d EXCEPT !.mem = written]) /\ [d EXCEPT !.mem = written].mem = written
  <2> HIDE DEF written
  <2> QED BY <1>2 DEF DevOK
<1>6. ASSUME NEW o \in DOMAIN d.mem
      PROVE  written[o] = IF \E k \in a.wmask : o = ByteOf(a, k)
                          THEN a.data[CHOOSE k \in a.wmask : o = ByteOf(a, k)] ELSE d.mem[o]
  <2>1. \A k : ByteOf(a, k) = word + k
    BY DEF ByteOf
  <2>2. written[o] = IF o \in word .. word + 3 THEN merged[o - word] ELSE d.mem[o]
    BY <1>2
  <2> HIDE DEF written, word
  <2>3. ASSUME NEW k \in a.wmask, o = word + k
        PROVE  /\ (CHOOSE j \in a.wmask : o = ByteOf(a, j)) = k
               /\ o \in word .. word + 3 /\ o - word = k /\ k \in Lane
    <3>1. \A j \in a.wmask : o = ByteOf(a, j) <=> j = k
      BY <1>3, <2>1, <2>3 DEF Lane
    <3> QED BY <1>3, <2>3, <3>1 DEF Lane
  <2>4. CASE \E k \in a.wmask : o = ByteOf(a, k)
    BY <2>1, <2>2, <2>3, <2>4
  <2>5. CASE ~\E k \in a.wmask : o = ByteOf(a, k)
    <3>1. CASE o \in word .. word + 3
      <4>1. o - word \in Lane /\ o = word + (o - word)
        BY <1>3, <3>1 DEF Lane
      <4> QED BY <1>4, <2>1, <2>2, <2>5, <3>1, <4>1
    <3> QED BY <2>2, <2>5, <3>1
  <2> QED BY <2>4, <2>5
<1> HIDE DEF written
<1>7. DOMAIN r = {"dev", "data", "effect"} /\ r.dev = [d EXCEPT !.mem = written] /\ r.effect = "none"
  BY <1>1
<1> QED BY <1>5, <1>6, <1>7 DEF Effects

\* Any access: what it leaves of the devices, and what of the memory.
LEMMA AnswerFacts ==
  ASSUME session \in Sessions, DevOK(dev), NEW a \in Accesses
  PROVE  /\ DevOK(Answer(a).dev) /\ Answer(a).effect \in Effects
         /\ InMemory(a) =>
              /\ a.op = "write" =>
                   \A o \in DOMAIN dev.mem :
                     Answer(a).dev.mem[o] =
                       IF \E k \in a.wmask : o = ByteOf(a, k)
                       THEN a.data[CHOOSE k \in a.wmask : o = ByteOf(a, k)] ELSE dev.mem[o]
              /\ a.op = "read" => Answer(a).dev.mem = dev.mem
              /\ a.op = "read" /\ a.rsize <= 2 =>
                   \A k \in LanesRead(a) : Answer(a).data[k] = dev.mem[ByteOf(a, k)]
<1>1. CASE a = NoAccess
  <2>1. a.op = "none"
    BY <1>1 DEF NoAccess
  <2>2. Answer(a) = Nothing
    BY <2>1 DEF Answer
  <2> QED BY <2>1, <2>2 DEF Nothing, InMemory, Effects
<1>2. CASE a # NoAccess
  <2>1. AccessOK(a)
    BY <1>2, SimulatorAssumption DEF Accesses, SessionOK
  <2>2. a.addr \in Nat /\ (InMemory(a) => in_pmem(a.addr))
    BY <2>1, AddressFacts DEF AccessOK, InMemory
  <2>3. CASE a.op = "read"
    <3>1. Answer(a) = dci_pmem_read(dev, a.addr, a.rsize) /\ a.rsize \in Nat
      BY <2>1, <2>3 DEF Answer, AccessOK
    <3>2. CASE in_pmem(a.addr)
      BY <2>2, <2>3, <3>1, <3>2, MemoryRead DEF Elsewhere, InMemory
    <3>3. CASE ~in_pmem(a.addr)
      <4> DEFINE m == map_read(dev, a.addr, 2 ^ a.rsize)
      <4>1. Answer(a) = [m EXCEPT !.data = Shifted(@, a.addr % 4)]
        BY <3>1, <3>3 DEF dci_pmem_read
      <4>2. Elsewhere(dev, m)
        BY MapReadFacts
      <4> HIDE DEF m
      <4>3. Answer(a).dev = m.dev /\ Answer(a).effect = m.effect
        BY <4>1, <4>2 DEF Elsewhere
      <4> QED BY <2>2, <3>3, <4>2, <4>3 DEF Elsewhere
    <3> QED BY <3>2, <3>3
  <2>4. CASE a.op = "write"
    <3>1. Answer(a) = dci_pmem_write(dev, a.addr, a.data, a.wmask) /\ a.wmask \subseteq Lane
      BY <2>1, <2>4 DEF Answer, AccessOK
    <3>2. CASE in_pmem(a.addr)
      <4> DEFINE m == dci_pmem_write(dev, a.addr, a.data, a.wmask)
      <4>1. /\ DevOK(m.dev) /\ m.effect \in Effects
            /\ \A o \in DOMAIN dev.mem :
                 m.dev.mem[o] = IF \E k \in a.wmask : o = ByteOf(a, k)
                                THEN a.data[CHOOSE k \in a.wmask : o = ByteOf(a, k)] ELSE dev.mem[o]
        BY <2>2, <3>1, <3>2, MemoryWrite
      <4>2. Answer(a) = m
        BY <3>1
      <4> HIDE DEF m
      <4>3. a.op # "read"
        BY <2>4
      <4> QED BY <4>1, <4>2, <4>3
    <3>3. CASE ~in_pmem(a.addr)
      <4>1. Answer(a) = map_write(dev, a.addr, Cardinality(a.wmask), a.data)
        BY <3>1, <3>3 DEF dci_pmem_write
      <4> QED BY <2>2, <3>3, <4>1, MapWriteFacts DEF Elsewhere
    <3> QED BY <3>2, <3>3
  <2> QED BY <2>1, <2>3, <2>4 DEF AccessOK
<1> QED BY <1>1, <1>2

\* A clock, for the bus.
ClockOnBus(a) ==
  /\ dev' = IF session.linux THEN TimerStep(Answer(a).dev) ELSE Answer(a).dev
  /\ last' = [access |-> a, data |-> Answer(a).data]

LEMMA BusClock ==
  ASSUME session \in Sessions, DevOK(dev), NEW a \in Accesses, ClockOnBus(a)
  PROVE  BusStep /\ BusInv'
<1>1. DevOK(dev') /\ dev'.mem = Answer(a).dev.mem
  BY AnswerFacts, TimerFacts DEF ClockOnBus
<1>2. last'.access = a /\ last'.data = Answer(a).data
  BY DEF ClockOnBus
<1>3. BusStep
  BY <1>1, <1>2, AnswerFacts DEF BusStep, Writes, Reads
<1>4. DOMAIN dev'.mem = DOMAIN dev.mem
  BY <1>1 DEF DevOK
<1>5. ASSUME InMemory(a), a.op = "write"
      PROVE  InPlace(a)'
  BY <1>1, <1>2, <1>4, <1>5, AnswerFacts DEF InPlace, ByteOf
<1>6. ASSUME InMemory(a), a.op = "read"
      PROVE  dev'.mem = dev.mem
  BY <1>1, <1>6, AnswerFacts
<1>7. ASSUME InMemory(a), a.op = "read", a.rsize <= 2
      PROVE  \A k \in LanesRead(a) : Answer(a).data[k] = dev'.mem[ByteOf(a, k)]
  BY <1>6, <1>7, AnswerFacts
<1>8. (InMemory(last.access) <=> InMemory(a))' /\ InPlace(last.access)' = InPlace(a)'
      /\ LanesRead(last.access)' = LanesRead(a) /\ \A k : ByteOf(last.access, k)' = ByteOf(a, k)
  BY <1>2 DEF InMemory, InPlace, LanesRead, ByteOf
<1> QED BY <1>1, <1>2, <1>3, <1>5, <1>7, <1>8 DEF BusInv, InMemory

-----------------------------------------------------------------------------
(* A clock, for the comparison.                                                *)

FirstMistake(e, seen) ==
  /\ seen /\ e.kind = "commit" /\ e.wrong /\ e.inst \notin {"mmio", "ebreak"}
  /\ ~hist.afterIO /\ ~hist.excused /\ ~hist.erred

LEMMA HistoryStep ==
  ASSUME TypeInv, NEW e \in Events(cpu), NEW a, NEW seen \in BOOLEAN, clock_step(e, a, seen)
  PROVE  /\ hist' \in History
         /\ hist'.erred <=> hist.erred \/ (e.kind = "commit" /\ e.wrong)
         /\ hist'.due <=> hist.due \/ FirstMistake(e, seen)
         /\ hist'.afterIO <=> IF e.kind = "commit" THEN e.inst = "mmio" ELSE hist.afterIO
         /\ hist'.excused <=> hist.excused \/ (~seen /\ e # Bubble)
         /\ hist'.alarm = hist.alarm
         /\ hist'.silenced <=> hist.silenced \/ (state = "ABORT" /\ Answer(a).effect = "STOP")
<1> DEFINE erred == hist.erred \/ (e.kind = "commit" /\ e.wrong)
           due == hist.due \/ FirstMistake(e, seen)
           afterIO == IF e.kind = "commit" THEN e.inst = "mmio" ELSE hist.afterIO
           excused == hist.excused \/ (~seen /\ e # Bubble)
           silenced == hist.silenced \/ (state = "ABORT" /\ Answer(a).effect = "STOP")
<1>1. hist' = [hist EXCEPT !.erred = erred, !.due = due, !.afterIO = afterIO, !.excused = excused,
                           !.silenced = silenced]
  BY DEF clock_step, FirstMistake
<1>2. /\ hist.erred \in BOOLEAN /\ hist.due \in BOOLEAN /\ hist.afterIO \in BOOLEAN
      /\ hist.excused \in BOOLEAN /\ hist.silenced \in BOOLEAN /\ hist.alarm \in BOOLEAN
  BY DEF TypeInv, History
<1>3. erred \in BOOLEAN /\ due \in BOOLEAN /\ excused \in BOOLEAN /\ silenced \in BOOLEAN
  OBVIOUS
<1>4. afterIO \in BOOLEAN
  BY <1>2
<1> HIDE DEF erred, due, afterIO, excused, silenced
<1>5. hist' \in History
  BY <1>1, <1>3, <1>4, Zenon DEF TypeInv, History
<1>6. /\ hist'.erred = erred /\ hist'.due = due /\ hist'.afterIO = afterIO /\ hist'.excused = excused
      /\ hist'.silenced = silenced /\ hist'.alarm = hist.alarm
  BY <1>1 DEF TypeInv, History
<1>7. hist'.erred <=> hist.erred \/ (e.kind = "commit" /\ e.wrong)
  BY <1>6, Zenon DEF erred
<1>8. hist'.due <=> hist.due \/ FirstMistake(e, seen)
  BY <1>6, Zenon DEF due
<1>9. hist'.afterIO <=> IF e.kind = "commit" THEN e.inst = "mmio" ELSE hist.afterIO
  BY <1>6, Zenon DEF afterIO
<1>10. hist'.excused <=> hist.excused \/ (~seen /\ e # Bubble)
  BY <1>6, Zenon DEF excused
<1>11. hist'.silenced <=> hist.silenced \/ (state = "ABORT" /\ Answer(a).effect = "STOP")
  BY <1>6, Zenon DEF silenced
<1>12. hist'.alarm = hist.alarm
  BY <1>6
<1> QED BY <1>5, <1>7, <1>8, <1>9, <1>10, <1>11, <1>12

\* A clock outside of the looking at an instruction; seen tells whether
\* exec_once looks at what it brings.
LEMMA ClockStep ==
  ASSUME TypeInv, FollowInv, FaultInv, ~Looking, ~At("crashed"),
         NEW e \in Events(cpu), NEW a, NEW seen \in BOOLEAN, clock_step(e, a, seen),
         UNCHANGED <<session, ref, skip, npc>>, ~At("difftest")',
         ~seen => ~Looking',
         seen => \/ At("crashed")'
                 \/ (dut'.valid \/ dut'.trap # "none") /\ At("record")'
                 \/ ~dut'.valid /\ dut'.trap = "none" /\ ~Looking'
  PROVE  FollowInv' /\ FaultInv'
<1> USE DEF At, Looking
<1>1. /\ cpu' = After(cpu, e) /\ dut' = Reported(dut, e) /\ session' = session /\ ref' = ref /\ skip' = skip
      /\ cpu \in Processor /\ ref \in Processor /\ dut \in Report /\ skip \in BOOLEAN /\ session \in Sessions
  BY DEF clock_step, TypeInv
<1>2. \A s : InstAt(s)' = InstAt(s)
  BY <1>1 DEF InstAt
<1>3. ASSUME Clean', ~At("crashed")'
      PROVE  Clean /\ Followed
  BY <1>3, HistoryStep DEF Clean, FollowInv
<1>4. ASSUME Clean', ~At("crashed")', e = Bubble
      PROVE  Followed' /\ ~Looking'
  <2>1. cpu' = cpu /\ dut' = [dut EXCEPT !.trap = "none", !.io = FALSE]
    BY <1>1, <1>4, ClockFacts
  <2>2. dut'.valid = dut.valid /\ dut'.trap = "none"
    BY <1>1, <2>1 DEF Report
  <2>3. hist'.afterIO <=> hist.afterIO
    <3>1. e.kind # "commit"
      BY <1>4 DEF Bubble
    <3> QED BY <3>1, HistoryStep
  <2>4. Followed'
    BY <1>1, <1>3, <1>4, <2>1, <2>2, <2>3 DEF Followed
  <2> QED BY <1>3, <1>4, <2>2, <2>4 DEF Followed
<1>5. ASSUME Clean', ~At("crashed")', TrapOf(e)
      PROVE  TrapSeen' /\ Looking'
  <2>1. cpu' = Trap(cpu, e.cause) /\ dut' = [dut EXCEPT !.trap = e.cause, !.io = FALSE]
    BY <1>1, <1>5, ClockFacts
  <2>2. dut'.io = FALSE /\ dut'.trap = e.cause /\ e.cause # "none"
    BY <1>1, <1>5, <2>1 DEF Report, TrapOf
  <2>3. e # Bubble
    BY <1>5 DEF TrapOf, Bubble
  <2>4. seen
    BY <1>5, <2>3, HistoryStep DEF Clean
  <2>5. ~skip => ref = cpu
    BY <1>3, <1>5 DEF Followed
  <2> QED BY <1>1, <1>5, <2>1, <2>2, <2>4, <2>5 DEF TrapSeen
<1>6. ASSUME Clean', ~At("crashed")', CommitOf(cpu, e)
      PROVE  CommitSeen' /\ Looking'
  <2>1. /\ cpu' = e.next
        /\ dut' = [valid |-> TRUE, pc |-> e.pc, inst |-> e.inst, trap |-> "none", io |-> e.inst = "mmio"]
    BY <1>1, <1>6, ClockFacts
  <2>2. dut'.valid = TRUE /\ dut'.pc = e.pc /\ dut'.inst = e.inst /\ dut'.trap = "none"
    BY <2>1
  <2>3. dut'.io <=> e.inst = "mmio"
    BY <2>1
  <2>4. e.kind = "commit" /\ e # Bubble
    BY <1>6 DEF CommitOf, Bubble
  <2>5. seen /\ ~e.wrong
    BY <1>6, <2>4, HistoryStep DEF Clean
  <2>6. hist'.afterIO <=> e.inst = "mmio"
    BY <2>4, HistoryStep
  <2>7. PICK got \in Registers : e.pc = cpu.pc /\ e.inst = InstAt(cpu) /\ e.next = Exec(e.inst, cpu, got)
    BY <1>6, <2>5 DEF CommitOf, Right
  <2>8. ref.epc = cpu.epc /\ ref.cause = cpu.cause /\ (~skip => ref = cpu)
    BY <1>3, <1>6 DEF Followed
  <2> QED BY <1>1, <1>2, <1>6, <2>1, <2>2, <2>3, <2>5, <2>6, <2>7, <2>8 DEF CommitSeen
<1>7. e = Bubble \/ TrapOf(e) \/ CommitOf(cpu, e)
  BY <1>1, EventFacts
<1>8. FollowInv'
  BY <1>4, <1>5, <1>6, <1>7 DEF FollowInv
<1>9. FaultInv'
  <2>1. CASE hist.due
    BY <2>1, HistoryStep DEF FaultInv, CaughtNext
  <2>2. CASE ~hist.due /\ hist'.due
    <3>1. FirstMistake(e, seen)
      BY <2>2, HistoryStep
    <3>2. CommitOf(cpu, e) /\ hist'.erred
      <4>1. e.kind = "commit" /\ e.wrong
        BY <3>1 DEF FirstMistake
      <4>2. e # Bubble /\ ~TrapOf(e)
        BY <4>1 DEF Bubble, TrapOf
      <4> QED BY <1>7, <4>1, <4>2, HistoryStep
    <3>3. /\ cpu' = e.next
          /\ dut' = [valid |-> TRUE, pc |-> e.pc, inst |-> e.inst, trap |-> "none", io |-> e.inst = "mmio"]
      BY <1>1, <3>2, ClockFacts
    <3>4. ~skip /\ ref = cpu
      BY <3>1 DEF FirstMistake, FollowInv, Clean, Followed
    <3>5. Differing(cpu, e)
      BY <3>1, <3>2 DEF CommitOf, FirstMistake
    <3>6. dut'.pc = e.pc /\ dut'.inst = e.inst /\ ~dut'.io /\ dut'.trap = "none" /\ dut'.valid
      BY <3>1, <3>3 DEF FirstMistake
    <3>7. ref'.pc # dut'.pc \/ Exec(InstAt(ref)', ref', 0).reg # cpu'.reg
      BY <1>1, <1>2, <3>3, <3>4, <3>5, <3>6 DEF Differing
    <3>8. (Exec(InstAt(ref), ref, 0).reg)' = Exec(InstAt(ref)', ref', 0).reg
      BY DEF Exec, Trap, InstAt
    <3> QED BY <1>1, <3>1, <3>2, <3>4, <3>6, <3>7, <3>8 DEF FaultInv, CaughtNext, FirstMistake
  <2> QED BY <2>1, <2>2 DEF FaultInv
<1> QED BY <1>8, <1>9

-----------------------------------------------------------------------------
(* The comparison itself.                                                      *)

LEMMA HistoryOfDifftest ==
  ASSUME TypeInv, trace_and_difftest
  PROVE  /\ hist' \in History
         /\ hist'.erred = hist.erred /\ hist'.due = hist.due /\ hist'.afterIO = hist.afterIO
         /\ hist'.silenced = hist.silenced
         /\ hist'.alarm <=> hist.alarm \/ Alarm
         /\ hist'.excused <=> hist.excused \/ Misled
<1> DEFINE alarm == hist.alarm \/ Alarm
           excused == hist.excused \/ Misled
<1>1. hist' = [hist EXCEPT !.alarm = alarm, !.excused = excused]
  BY DEF trace_and_difftest
<1>2. alarm \in BOOLEAN /\ excused \in BOOLEAN
  OBVIOUS
<1> HIDE DEF alarm, excused
<1>3. hist' \in History
  BY <1>1, <1>2, Zenon DEF TypeInv, History
<1>4. /\ hist'.erred = hist.erred /\ hist'.due = hist.due /\ hist'.afterIO = hist.afterIO
      /\ hist'.silenced = hist.silenced /\ hist'.alarm = alarm /\ hist'.excused = excused
  BY <1>1 DEF TypeInv, History
<1>5. hist'.alarm <=> hist.alarm \/ Alarm
  BY <1>4, Zenon DEF alarm
<1>6. hist'.excused <=> hist.excused \/ Misled
  BY <1>4, Zenon DEF excused
<1> QED BY <1>3, <1>4, <1>5, <1>6

\* Nothing is reported of what the comparison has been told.
LEMMA ReportLookedAt ==
  ASSUME TypeInv, trace_and_difftest
  PROVE  /\ dut' \in Report /\ dut'.valid = FALSE /\ dut'.trap = "none"
         /\ ref' \in Processor /\ skip' \in BOOLEAN /\ Synchronised \in Processor
<1>1. dut' = [dut EXCEPT !.valid = FALSE, !.trap = "none"] /\ dut \in Report
  BY DEF trace_and_difftest, TypeInv
<1>2. dut' \in Report
  BY <1>1, Zenon DEF Report, Causes
<1>3. dut'.valid = FALSE /\ dut'.trap = "none"
  BY <1>1 DEF Report
<1>4. Synchronised \in Processor
  <2>1. cpu.reg \in Registers /\ npc.pc \in Nat /\ ref \in Processor
    BY DEF TypeInv, Processor
  <2>2. [ref EXCEPT !.reg = cpu.reg, !.pc = npc.pc] \in Processor
    BY <2>1, Zenon DEF Processor
  <2> QED BY <2>1, <2>2 DEF Synchronised
<1>5. ref' \in Processor
  <2>1. InstAt(Synchronised) \in Kinds \cup {"none"}
    BY <1>4, InstAtType DEF TypeInv
  <2>2. Stepped \in Processor
    BY <1>4, <2>1, ExecFacts, RegisterFacts DEF Stepped
  <2>3. dut.trap \in Causes
    BY <1>1 DEF Report
  <2>4. Trap(Synchronised, dut.trap) \in Processor
    BY <1>4, <2>3, TrapType
  <2> QED BY <2>2, <2>4 DEF trace_and_difftest, NextRef, TypeInv
<1>6. skip' \in BOOLEAN
  <2>1. skip \in BOOLEAN
    BY DEF TypeInv
  <2> QED BY <2>1 DEF trace_and_difftest, NextSkip
<1> QED BY <1>2, <1>3, <1>4, <1>5, <1>6

\* A clean comparison raises no alarm, and unless it is misled leaves the
\* reference where the processor is.
LEMMA CleanDifftest ==
  ASSUME TypeInv, FollowInv, trace_and_difftest, Clean
  PROVE  ~Alarm /\ (Clean' => Followed')
<1>1. /\ cpu' = cpu /\ ref' = NextRef /\ skip' = NextSkip /\ npc.pc = dut.pc
      /\ cpu \in Processor /\ ref \in Processor /\ dut \in Report /\ skip \in BOOLEAN /\ session \in Sessions
  BY DEF trace_and_difftest, TypeInv, FollowInv
<1>2. TrapSeen \/ CommitSeen
  BY DEF FollowInv, Looking, trace_and_difftest, At
<1>3. ~dut'.valid /\ dut'.trap = "none"
  BY ReportLookedAt
<1>4. Clean' => ~Misled
  BY HistoryOfDifftest DEF Clean
<1>5. hist'.afterIO = hist.afterIO
  BY HistoryOfDifftest
<1>6. CASE TrapSeen
  <2>1. ~Alarm
    BY <1>6 DEF TrapSeen, Alarm
  <2>2. ASSUME Clean'
        PROVE  ref' = cpu' /\ ~skip'
    <3>1. ~skip
      BY <1>1, <1>4, <1>6, <2>2 DEF Misled, TrapSeen, Skips
    <3>2. Synchronised = ref
      BY <3>1 DEF Synchronised
    <3> QED BY <1>1, <1>6, <3>1, <3>2 DEF NextRef, NextSkip, TrapSeen, Skips
  <2> QED BY <1>3, <2>1, <2>2 DEF Followed
<1>7. CASE CommitSeen
  <2>1. PICK s \in Processor, got \in Registers :
          /\ s.pc = dut.pc /\ s.epc = ref.epc /\ s.cause = ref.cause
          /\ ~skip => s = ref
          /\ dut.inst = InstAt(s) /\ cpu = Exec(dut.inst, s, got)
    BY <1>7 DEF CommitSeen
  <2>2. dut.trap = "none" /\ (dut.io <=> dut.inst = "mmio") /\ (hist.afterIO <=> dut.io)
    BY <1>7 DEF CommitSeen
  <2>3. dut.inst \in Kinds \cup {"none"}
    BY <1>1, <2>1, InstAtType
  <2>4. CASE dut.io
    <3>1. ref.epc = cpu.epc /\ ref.cause = cpu.cause
      BY <2>1, <2>2, <2>3, <2>4, ExecFacts
    <3>2. ref' = ref /\ skip' = TRUE
      BY <1>1, <2>4 DEF NextRef, NextSkip, Skips
    <3> QED BY <1>1, <1>3, <1>5, <2>2, <2>4, <3>1, <3>2 DEF Followed, Alarm, Skips
  <2>5. CASE ~dut.io
    <3>1. cpu = Exec(dut.inst, s, 0) /\ dut.inst # "mmio"
      BY <2>1, <2>2, <2>3, <2>5, ExecFacts
    <3>2. ~skip'
      BY <1>1, <2>2, <2>5 DEF NextSkip, Skips
    <3>3. ref' = Stepped
      BY <1>1, <2>2, <2>5 DEF NextRef, Skips
    <3>4. CASE ~skip
      <4>1. Synchronised = s /\ Stepped = cpu
        BY <2>1, <3>1, <3>4 DEF Synchronised, Stepped
      <4>2. ~Differs
        BY <2>1, <4>1 DEF Differs
      <4> QED BY <1>1, <1>3, <3>2, <3>3, <4>1, <4>2 DEF Alarm, Followed
    <3>5. CASE skip
      <4>1. ~Alarm
        BY <3>5 DEF Alarm
      <4>2. ASSUME Clean'
            PROVE  Stepped = cpu
        <5>1. Repeatable(dut.inst, [cpu EXCEPT !.pc = dut.pc])
          BY <1>4, <2>2, <2>5, <3>5, <4>2 DEF Misled, Skips
        <5>2. Synchronised = [s EXCEPT !.reg = cpu.reg]
          <6>1. Synchronised = [ref EXCEPT !.reg = cpu.reg, !.pc = npc.pc]
            BY <3>5 DEF Synchronised
          <6> QED BY <1>1, <2>1, <6>1 DEF Processor
        <5>3. InstAt(Synchronised) = dut.inst
          BY <2>1, <5>2 DEF InstAt, Processor
        <5>4. Exec(dut.inst, [s EXCEPT !.reg = Exec(dut.inst, s, 0).reg], 0) = Exec(dut.inst, s, 0)
          BY <2>1, <2>3, <3>1, <5>1, RepeatedStep
        <5> QED BY <3>1, <5>2, <5>3, <5>4 DEF Stepped
      <4> QED BY <1>1, <1>3, <3>2, <3>3, <4>1, <4>2 DEF Followed
    <3> QED BY <1>1, <3>4, <3>5
  <2> QED BY <1>1, <2>4, <2>5
<1> QED BY <1>2, <1>6, <1>7

LEMMA DifftestStep ==
  ASSUME TypeInv, FollowInv, FaultInv, trace_and_difftest
  PROVE  FollowInv' /\ FaultInv' /\ (Alarm => ~Clean)
<1>1. At("check")' /\ At("difftest")
  BY DEF trace_and_difftest, At
<1>2. FollowInv'
  BY <1>1, CleanDifftest, HistoryOfDifftest DEF FollowInv, Clean, Looking, At
<1>3. ASSUME hist.due, ~hist.alarm
      PROVE  Alarm
  <2>1. CaughtNext
    BY <1>1, <1>3 DEF FaultInv, At
  <2>2. Synchronised = ref
    BY <2>1 DEF CaughtNext, Synchronised
  <2> QED BY <2>1, <2>2 DEF CaughtNext, Alarm, Skips, Differs, Stepped
<1>4. FaultInv'
  BY <1>3, HistoryOfDifftest DEF FaultInv
<1> QED BY <1>2, <1>4, CleanDifftest

-----------------------------------------------------------------------------
(* The other steps.                                                            *)

\* A step that leaves processor, reference, devices and history alone.
Quiet ==
  /\ UNCHANGED <<session, execution, hist>>
  /\ loc \notin {"record", "difftest", "crashed", "success", "failure"}
  /\ loc' \in Locations \ {"record", "difftest"}
  /\ state' \in States

LEMMA BusKept ==
  ASSUME BusInv, UNCHANGED <<dev, last>>
  PROVE  BusInv'
<1>1. dev' = dev /\ last' = last
  OBVIOUS
<1>2. InMemory(last.access)' = InMemory(last.access)
  BY <1>1 DEF InMemory
<1>3. InPlace(last.access)' = InPlace(last.access)
  BY <1>1 DEF InPlace, ByteOf
<1>4. LanesRead(last.access)' = LanesRead(last.access)
  BY <1>1 DEF LanesRead
<1>5. \A k : ByteOf(last.access, k)' = ByteOf(last.access, k)
  BY <1>1 DEF ByteOf
<1> QED BY <1>1, <1>2, <1>3, <1>4, <1>5 DEF BusInv, DevOK

LEMMA QuietStep ==
  ASSUME TypeInv, FollowInv, FaultInv, BusInv, Quiet
  PROVE  TypeInv' /\ FollowInv' /\ FaultInv' /\ BusInv'
<1>1. UNCHANGED <<session, npc, cpu, dut, ref, skip, dev, last, hist>>
  BY DEF Quiet, execution
<1>2. TypeInv'
  BY <1>1 DEF TypeInv, Quiet
<1>3. FollowInv'
  BY <1>1 DEF FollowInv, Quiet, Clean, Looking, Followed, At
<1>4. FaultInv'
  BY <1>1 DEF FaultInv, Quiet, CaughtNext, Looking, At
<1>5. BusInv'
  BY <1>1, BusKept
<1> QED BY <1>2, <1>3, <1>4, <1>5

LEMMA StartIsQuiet ==
  ASSUME TypeInv, FollowInv, FaultInv, BusInv, Start
  PROVE  TypeInv' /\ FollowInv' /\ FaultInv' /\ BusInv'
<1>1. UNCHANGED <<session, npc, cpu, dut, ref, skip, dev, last, hist>> /\ state' \in States
      /\ At("start") /\ loc' \in {"prompt", "clock"}
  BY DEF Start, States
<1>2. TypeInv'
  BY <1>1 DEF TypeInv, Locations
<1>3. FollowInv'
  BY <1>1 DEF FollowInv, Clean, Looking, Followed, At
<1>4. FaultInv'
  BY <1>1 DEF FaultInv, CaughtNext, Looking, At
<1>5. BusInv'
  BY <1>1, BusKept
<1> QED BY <1>2, <1>3, <1>4, <1>5

LEMMA AgainIsQuiet ==
  ASSUME TypeInv, FollowInv, FaultInv, BusInv, Again
  PROVE  TypeInv' /\ FollowInv' /\ FaultInv' /\ BusInv'
<1>1. UNCHANGED <<session, npc, cpu, dut, ref, skip, dev, last, hist, state>>
      /\ At("check") /\ loc' \in {"prompt", "clock"}
  BY DEF Again
<1>2. TypeInv'
  BY <1>1 DEF TypeInv, Locations
<1>3. FollowInv'
  BY <1>1 DEF FollowInv, Clean, Looking, Followed, At
<1>4. FaultInv'
  BY <1>1 DEF FaultInv, CaughtNext, Looking, At
<1>5. BusInv'
  BY <1>1, BusKept
<1> QED BY <1>2, <1>3, <1>4, <1>5

PromptStep ==
  \/ \E n \in Steps \cup {-1} : Execute(n)
  \/ Watch \/ \E no \in 1 .. NR_WP : Delete(no)
  \/ \E e \in session.exprs, sep \in {<<>>, <<Token("space")>>} : Examine(e, sep)
  \/ Quit \/ EndOfInput \/ Main \/ Return \/ Refuse \/ Enter

LEMMA PromptIsQuiet ==
  ASSUME TypeInv, PromptStep
  PROVE  Quiet
<1> USE DEF At, Locations, States, Quiet, TypeInv
<1>1. ASSUME NEW n \in Steps \cup {-1}, Execute(n)
      PROVE  Quiet
  BY <1>1 DEF Execute
<1>2. CASE Watch
  BY <1>2 DEF Watch
<1>3. ASSUME NEW no \in 1 .. NR_WP, Delete(no)
      PROVE  Quiet
  BY <1>3 DEF Delete
<1>4. ASSUME NEW e, NEW sep, Examine(e, sep)
      PROVE  Quiet
  BY <1>4 DEF Examine
<1>5. CASE Quit
  BY <1>5 DEF Quit
<1>6. CASE EndOfInput
  BY <1>6 DEF EndOfInput
<1>7. CASE Main
  BY <1>7 DEF Main
<1>8. CASE Return
  BY <1>8 DEF Return
<1>9. CASE Refuse
  BY <1>9 DEF Refuse
<1>10. CASE Enter
  BY <1>10 DEF Enter
<1> QED BY <1>1, <1>2, <1>3, <1>4, <1>5, <1>6, <1>7, <1>8, <1>9, <1>10 DEF PromptStep

\* Ctrl-C between two steps changes the simulator's state and nothing else.
LEMMA SignalStep ==
  ASSUME TypeInv, FollowInv, FaultInv, BusInv, sigint_handler
  PROVE  /\ TypeInv' /\ FollowInv' /\ FaultInv' /\ BusInv'
         /\ hist'.alarm = hist.alarm /\ (hist'.silenced <=> hist.silenced \/ state = "ABORT")
<1> DEFINE silenced == hist.silenced \/ state = "ABORT"
<1>1. /\ UNCHANGED <<session, loc, npc, cpu, dut, ref, skip, dev, last>>
      /\ state' = "STOP" /\ hist' = [hist EXCEPT !.silenced = silenced]
  BY DEF sigint_handler, execution
<1>2. silenced \in BOOLEAN
  OBVIOUS
<1> HIDE DEF silenced
<1>3. hist' \in History
  BY <1>1, <1>2, Zenon DEF TypeInv, History
<1>4. /\ hist'.erred = hist.erred /\ hist'.due = hist.due /\ hist'.afterIO = hist.afterIO
      /\ hist'.excused = hist.excused /\ hist'.alarm = hist.alarm /\ hist'.silenced = silenced
  BY <1>1 DEF TypeInv, History
<1>5. TypeInv'
  BY <1>1, <1>3 DEF TypeInv, States
<1>6. FollowInv'
  <2>1. UNCHANGED <<Looking, Followed, TrapSeen, CommitSeen, Clean>>
    BY <1>1, <1>4 DEF Looking, Followed, TrapSeen, CommitSeen, Clean, InstAt, Exec, Trap
  <2> QED BY <1>1, <2>1 DEF FollowInv, At
<1>7. FaultInv'
  <2>1. UNCHANGED CaughtNext
    BY <1>1 DEF CaughtNext, Looking, InstAt, Exec, Trap
  <2> QED BY <1>1, <1>4, <2>1 DEF FaultInv, At
<1>8. BusInv'
  BY <1>1, BusKept
<1>9. hist'.silenced <=> hist.silenced \/ state = "ABORT"
  BY <1>4, Zenon DEF silenced
<1> QED BY <1>4, <1>5, <1>6, <1>7, <1>8, <1>9

LEMMA RecordStep ==
  ASSUME TypeInv, FollowInv, FaultInv, BusInv, Record
  PROVE  /\ TypeInv' /\ FollowInv' /\ FaultInv' /\ BusInv'
         /\ hist'.alarm = hist.alarm /\ hist'.silenced = hist.silenced
<1>1. /\ UNCHANGED <<session, cpu, dut, ref, skip, dev, last>> /\ At("record")
      /\ npc' = [pc |-> dut.pc, inst |-> dut.inst]
  BY DEF Record
<1>2. CASE dut.inst = "ebreak"
  <2>1. state' = "END" /\ loc' = "check" /\ hist' = [hist EXCEPT !.excused = TRUE]
    BY <1>2 DEF Record
  <2>2. hist' \in History
    BY <2>1, Zenon DEF TypeInv, History
  <2>3. /\ hist'.erred = hist.erred /\ hist'.due = hist.due /\ hist'.alarm = hist.alarm
        /\ hist'.silenced = hist.silenced /\ hist'.excused = TRUE
    BY <2>1 DEF TypeInv, History
  <2> QED BY <1>1, <1>2, <2>1, <2>2, <2>3, BusKept
          DEF TypeInv, FollowInv, FaultInv, CaughtNext, Clean, At, Locations, States, Report
<1>3. CASE dut.inst # "ebreak"
  <2>1. state' = state /\ loc' = "difftest" /\ hist' = hist
    BY <1>3 DEF Record
  <2>2. TypeInv'
    BY <1>1, <2>1 DEF TypeInv, Locations, Report
  <2>3. FollowInv'
    <3>1. UNCHANGED <<TrapSeen, CommitSeen, Clean>>
      BY <1>1, <2>1 DEF TrapSeen, CommitSeen, Clean, InstAt, Exec, Trap
    <3>2. Looking /\ Looking' /\ ~At("crashed") /\ ~At("crashed")'
      BY <1>1, <2>1 DEF Looking, At
    <3>3. npc'.pc = dut'.pc
      BY <1>1
    <3> QED BY <3>1, <3>2, <3>3 DEF FollowInv
  <2>4. FaultInv'
    <3>1. UNCHANGED <<InstAt(ref), Exec(InstAt(ref), ref, 0)>>
      BY <1>1 DEF InstAt, Exec, Trap
    <3> QED BY <1>1, <2>1, <3>1 DEF FaultInv, CaughtNext, Looking, At
  <2> QED BY <1>1, <2>1, <2>2, <2>3, <2>4, BusKept
<1> QED BY <1>2, <1>3

LEMMA TypeOfDifftest ==
  ASSUME TypeInv, BusInv, trace_and_difftest
  PROVE  TypeInv' /\ BusInv'
<1>1. UNCHANGED <<session, npc, cpu, dev, last>> /\ loc' = "check" /\ state' \in {"ABORT", "STOP", state}
  BY DEF trace_and_difftest
<1>2. TypeInv'
  BY <1>1, HistoryOfDifftest, ReportLookedAt DEF TypeInv, Locations, States
<1> QED BY <1>1, <1>2, BusKept

\* Clock and Csi.
ClockAt(e, a, seen) ==
  /\ clock_step(e, a, seen)
  /\ ~Looking /\ ~At("crashed")
  /\ UNCHANGED <<session, ref, skip, npc>>
  /\ state' \in {"STOP", Affected(Answer(a).effect)}
  /\ loc' \in {"prompt", "clock", "record", "check", "crashed"}
  /\ ~seen => ~At("record")'
  /\ seen => \/ At("crashed")'
             \/ (dut'.valid \/ dut'.trap # "none") /\ At("record")'
             \/ ~dut'.valid /\ dut'.trap = "none" /\ ~At("record")'

LEMMA ClockAtStep ==
  ASSUME TypeInv, FollowInv, FaultInv, BusInv,
         NEW e \in Events(cpu), NEW a \in Accesses, NEW seen \in BOOLEAN, ClockAt(e, a, seen)
  PROVE  TypeInv' /\ FollowInv' /\ FaultInv' /\ BusInv' /\ BusStep
<1>1. clock_step(e, a, seen) /\ session \in Sessions /\ DevOK(dev)
  BY DEF ClockAt, TypeInv, BusInv
<1>2. BusStep /\ BusInv'
  BY <1>1, BusClock DEF clock_step, ClockOnBus
<1>3. FollowInv' /\ FaultInv'
  BY <1>1, ClockStep DEF ClockAt, Looking, At
<1>4. TypeInv'
  <2>1. cpu' \in Processor /\ dut' \in Report
    BY <1>1, ClockFacts DEF clock_step, TypeInv
  <2>2. state' \in States
    BY <1>1, AnswerFacts DEF ClockAt, Affected, Effects, States, TypeInv
  <2>3. loc' \in Locations
    BY DEF ClockAt, Locations
  <2>4. hist' \in History
    BY <1>1, HistoryStep
  <2> QED BY <2>1, <2>2, <2>3, <2>4 DEF TypeInv, ClockAt
<1> QED BY <1>2, <1>3, <1>4

LEMMA ClockIs ==
  ASSUME Clock
  PROVE  \E e \in Events(cpu), a \in Accesses : ClockAt(e, a, ~GivesUp) /\ At("clock")
<1>1. PICK e \in Events(cpu), a \in Accesses :
        /\ clock_step(e, a, ~GivesUp)
        /\ state' = IF GivesUp THEN "STOP" ELSE Affected(Answer(a).effect)
        /\ loc' = IF Crashes(a) THEN "crashed" ELSE IF GivesUp THEN "check"
                  ELSE IF dut'.valid \/ dut'.trap # "none" THEN "record" ELSE loc
  BY DEF Clock
<1>2. At("clock") /\ UNCHANGED <<session, ref, skip, npc>>
  BY DEF Clock
<1> DEFINE looked == dut'.valid \/ dut'.trap # "none"
<1>3. state' \in {"STOP", Affected(Answer(a).effect)} /\ (GivesUp => ~At("record")')
  BY <1>1 DEF At
<1>4. ~GivesUp /\ ~Crashes(a) => IF looked THEN At("record")' ELSE loc' = "clock"
  <2>1. loc = "clock"
    BY <1>2 DEF At
  <2>2. loc' = IF Crashes(a) THEN "crashed" ELSE IF GivesUp THEN "check" ELSE IF looked THEN "record" ELSE "clock"
    BY <1>1, <2>1
  <2> HIDE DEF looked
  <2> QED BY <2>2 DEF At
<1>5. Crashes(a) => At("crashed")'
  BY <1>1 DEF At
<1>6. ~Looking /\ ~At("crashed") /\ loc' \in {"prompt", "clock", "record", "check", "crashed"}
  BY <1>1, <1>2 DEF Looking, At
<1>7. ~GivesUp => \/ At("crashed")'
                  \/ looked /\ At("record")'
                  \/ ~dut'.valid /\ dut'.trap = "none" /\ ~At("record")'
  BY <1>4, <1>5 DEF At
<1>8. ClockAt(e, a, ~GivesUp)
  <2> DEFINE seen == ~GivesUp
  <2>1. clock_step(e, a, seen) /\ (~seen => ~At("record")')
    BY <1>1, <1>3
  <2>2. seen => \/ At("crashed")'
                \/ looked /\ At("record")'
                \/ ~dut'.valid /\ dut'.trap = "none" /\ ~At("record")'
    BY <1>7
  <2> HIDE DEF seen
  <2>3. ClockAt(e, a, seen)
    BY <1>2, <1>3, <1>6, <2>1, <2>2, Zenon DEF ClockAt
  <2> QED BY <2>3 DEF seen
<1> QED BY <1>2, <1>8

LEMMA CsiIs ==
  ASSUME Csi
  PROVE  \E e \in Events(cpu), a \in Accesses :
           /\ ClockAt(e, a, FALSE) /\ At("prompt")
           /\ state' = Affected(Answer(a).effect) /\ loc' \in {"prompt", "crashed"}
<1>1. PICK e \in Events(cpu), a \in Accesses :
        /\ clock_step(e, a, FALSE)
        /\ state' = Affected(Answer(a).effect)
        /\ loc' = IF Crashes(a) THEN "crashed" ELSE loc
  BY DEF Csi
<1>2. At("prompt") /\ UNCHANGED <<session, ref, skip, npc>>
  BY DEF Csi
<1> QED BY <1>1, <1>2 DEF ClockAt, Looking, At

-----------------------------------------------------------------------------
(* The exit code.                                                              *)

\* What an alarm keeps true, and what keeps it so.
Told(l) == l \in {"check", "prompt", "main", "final", "execute", "failure", "crashed"}

LEMMA ExitOfPrompt ==
  ASSUME ExitInv, PromptStep, hist' = hist
  PROVE  ExitInv'
<1> SUFFICES ASSUME hist.alarm, ~hist.silenced
             PROVE  state' = "ABORT" /\ Told(loc')
  BY DEF ExitInv, Told
<1>1. state = "ABORT"
  BY DEF ExitInv
<1> USE DEF At, Told
<1>2. ASSUME NEW n \in Steps \cup {-1}, Execute(n)
      PROVE  state' = "ABORT" /\ Told(loc')
  BY <1>1, <1>2 DEF Execute
<1>3. CASE Watch
  BY <1>1, <1>3 DEF Watch
<1>4. ASSUME NEW no \in 1 .. NR_WP, Delete(no)
      PROVE  state' = "ABORT" /\ Told(loc')
  BY <1>1, <1>4 DEF Delete
<1>5. ASSUME NEW e, NEW sep, Examine(e, sep)
      PROVE  state' = "ABORT" /\ Told(loc')
  BY <1>1, <1>5 DEF Examine
<1>6. CASE Quit
  BY <1>1, <1>6 DEF Quit
<1>7. CASE EndOfInput
  BY <1>1, <1>7 DEF EndOfInput
<1>8. CASE Main
  BY <1>1, <1>8 DEF Main
<1>9. CASE Return
  BY <1>1, <1>9 DEF Return
<1>10. CASE Refuse
  BY <1>1, <1>10 DEF Refuse
<1>11. CASE Enter
  BY <1>1, <1>11 DEF Enter, Finished
<1> QED BY <1>2, <1>3, <1>4, <1>5, <1>6, <1>7, <1>8, <1>9, <1>10, <1>11 DEF PromptStep

LEMMA ExitOfClock ==
  ASSUME TypeInv, ExitInv, BusInv, Clock \/ Csi
  PROVE  ExitInv'
<1>1. CASE Clock
  <2>1. PICK e \in Events(cpu), a \in Accesses : ClockAt(e, a, ~GivesUp) /\ At("clock")
    BY <1>1, ClockIs
  <2>2. hist'.alarm = hist.alarm /\ (hist.silenced => hist'.silenced)
    BY <2>1, HistoryStep DEF ClockAt
  <2> QED BY <2>1, <2>2 DEF ExitInv, At
<1>2. CASE Csi
  <2>1. PICK e \in Events(cpu), a \in Accesses :
          /\ ClockAt(e, a, FALSE) /\ At("prompt")
          /\ state' = Affected(Answer(a).effect) /\ loc' \in {"prompt", "crashed"}
    BY <1>2, CsiIs
  <2>2. /\ hist'.alarm = hist.alarm
        /\ hist'.silenced <=> hist.silenced \/ (state = "ABORT" /\ Answer(a).effect = "STOP")
    BY <2>1, HistoryStep DEF ClockAt
  <2>3. Answer(a).effect \in Effects
    BY AnswerFacts DEF TypeInv, BusInv
  <2> QED BY <2>1, <2>2, <2>3 DEF ExitInv, Affected, Effects
<1> QED BY <1>1, <1>2

-----------------------------------------------------------------------------
(* The invariant.                                                              *)

LEMMA Initially == Init => IInv
<1> SUFFICES ASSUME Init
             PROVE  IInv
  OBVIOUS
<1>1. session \in Sessions /\ SessionOK(session)
  BY SimulatorAssumption DEF Init
<1>2. cpu \in Processor /\ ref = cpu
  BY RegisterFacts DEF Init, Processor, Causes
<1>3. /\ hist \in History /\ ~hist.erred /\ ~hist.due /\ ~hist.excused /\ ~hist.afterIO
      /\ ~hist.alarm /\ ~hist.silenced
  BY DEF Init, Happened, History
<1>4. dut \in Report /\ ~dut.valid /\ dut.trap = "none"
  BY DEF Init, Report, Causes
<1>5. TypeInv
  BY <1>1, <1>2, <1>3, <1>4 DEF Init, TypeInv, Locations, States
<1>6. FollowInv
  BY <1>2, <1>4 DEF Init, FollowInv, Looking, Followed, At
<1>7. BusInv
  <2>1. DevOK(dev)
    BY <1>1 DEF Init, DevOK, InitDevices, SessionOK
  <2>2. ~InMemory(last.access)
    BY DEF Init, InMemory, NoAccess
  <2> QED BY <2>1, <2>2 DEF BusInv
<1> QED BY <1>3, <1>5, <1>6, <1>7 DEF IInv, AlarmIsReal, FaultInv, ExitInv

\* One step: the invariant, and what the bus does in it.
LEMMA Step ==
  ASSUME IInv, [Next]_vars
  PROVE  IInv' /\ BusStep
<1> USE DEF IInv
<1>1. ASSUME UNCHANGED <<dev, last>>
      PROVE  BusStep
  BY <1>1 DEF BusInv, BusStep, InPlace, Writes, Reads, InMemory, LanesRead, ByteOf
<1>2. CASE Clock
  <2>1. PICK e \in Events(cpu), a \in Accesses : ClockAt(e, a, ~GivesUp)
    BY <1>2, ClockIs
  <2>2. TypeInv' /\ FollowInv' /\ FaultInv' /\ BusInv' /\ BusStep
    BY <2>1, ClockAtStep
  <2>3. AlarmIsReal'
    BY <2>1, HistoryStep DEF ClockAt, AlarmIsReal
  <2> QED BY <1>2, <2>2, <2>3, ExitOfClock
<1>3. CASE Csi
  <2>1. PICK e \in Events(cpu), a \in Accesses : ClockAt(e, a, FALSE)
    BY <1>3, CsiIs
  <2>2. TypeInv' /\ FollowInv' /\ FaultInv' /\ BusInv' /\ BusStep
    BY <2>1, ClockAtStep
  <2>3. AlarmIsReal'
    BY <2>1, HistoryStep DEF ClockAt, AlarmIsReal
  <2> QED BY <1>3, <2>2, <2>3, ExitOfClock
<1>4. CASE PromptStep
  <2>1. Quiet
    BY <1>4, PromptIsQuiet
  <2>2. UNCHANGED <<hist, dev, last>>
    BY <2>1 DEF Quiet, execution
  <2> QED BY <1>1, <1>4, <2>1, <2>2, QuietStep, ExitOfPrompt DEF AlarmIsReal
<1>5. CASE Start
  <2>1. UNCHANGED <<hist, dev, last>> /\ At("start")
    BY <1>5 DEF Start
  <2>2. ExitInv' /\ AlarmIsReal'
    BY <2>1 DEF ExitInv, AlarmIsReal, At
  <2> QED BY <1>1, <1>5, <2>1, <2>2, StartIsQuiet
<1>6. CASE Record
  <2>1. UNCHANGED <<dev, last>> /\ At("record")
    BY <1>6 DEF Record
  <2>2. TypeInv' /\ FollowInv' /\ FaultInv' /\ BusInv' /\ hist'.alarm = hist.alarm /\ hist'.silenced = hist.silenced
    BY <1>6, RecordStep
  <2>3. ~hist.alarm \/ hist.silenced
    BY <2>1 DEF ExitInv, At
  <2>4. AlarmIsReal'
    <3>1. hist' = [hist EXCEPT !.excused = TRUE] \/ hist' = hist
      BY <1>6 DEF Record
    <3>2. hist'.excused \/ (hist'.excused = hist.excused /\ hist'.erred = hist.erred)
      BY <3>1 DEF TypeInv, History
    <3> QED BY <2>2, <3>2 DEF AlarmIsReal
  <2> QED BY <1>1, <2>1, <2>2, <2>3, <2>4 DEF ExitInv
<1>7. CASE trace_and_difftest
  <2>1. UNCHANGED <<dev, last>> /\ At("difftest") /\ (Alarm => state' = "ABORT") /\ loc' = "check"
    BY <1>7 DEF trace_and_difftest
  <2>2. ~hist.alarm \/ hist.silenced
    BY <2>1 DEF ExitInv, At
  <2>3. ExitInv'
    BY <1>7, <2>1, <2>2, HistoryOfDifftest DEF ExitInv
  <2>4. AlarmIsReal'
    BY <1>7, HistoryOfDifftest, DifftestStep DEF AlarmIsReal, Clean
  <2> QED BY <1>1, <1>7, <2>1, <2>3, <2>4, TypeOfDifftest, DifftestStep
<1>8. CASE Again
  <2>1. UNCHANGED <<hist, dev, last, state>> /\ (state # "RUNNING" => loc' = "prompt")
    BY <1>8 DEF Again
  <2>2. ExitInv' /\ AlarmIsReal'
    BY <2>1 DEF ExitInv, AlarmIsReal
  <2> QED BY <1>1, <1>8, <2>1, <2>2, AgainIsQuiet
<1>9. CASE sigint_handler
  <2>1. UNCHANGED <<dev, last>>
    BY <1>9 DEF sigint_handler, execution
  <2>2. /\ TypeInv' /\ FollowInv' /\ FaultInv' /\ BusInv'
        /\ hist'.alarm = hist.alarm /\ (hist'.silenced <=> hist.silenced \/ state = "ABORT")
    BY <1>9, SignalStep
  <2>3. ExitInv'
    BY <2>2 DEF ExitInv
  <2>4. AlarmIsReal'
    <3>1. \E x : hist' = [hist EXCEPT !.silenced = x]
      BY <1>9 DEF sigint_handler
    <3>2. hist'.excused = hist.excused /\ hist'.erred = hist.erred
      BY <3>1 DEF TypeInv, History
    <3> QED BY <2>2, <3>2 DEF AlarmIsReal
  <2> QED BY <1>1, <2>1, <2>2, <2>3, <2>4
<1>10. CASE UNCHANGED vars
  <2>1. UNCHANGED <<session, state, npc, loc, cpu, dut, ref, skip, dev, last, hist>>
    BY <1>10 DEF vars
  <2>2. UNCHANGED <<TypeInv, FollowInv, AlarmIsReal, FaultInv, ExitInv>>
    BY <2>1 DEF TypeInv, FollowInv, AlarmIsReal, FaultInv, ExitInv, Clean, Looking, Followed, TrapSeen, CommitSeen,
                CaughtNext, At, InstAt, Exec, Trap
  <2> QED BY <1>1, <2>1, <2>2, BusKept
<1> QED BY <1>2, <1>3, <1>4, <1>5, <1>6, <1>7, <1>8, <1>9, <1>10 DEF Next, Command, PromptStep

(* The invariant holds in every state of every session, whatever the program,   *)
(* the processor's mistakes, the accesses to the bus, the commands and the      *)
(* moments at which Ctrl-C is pressed (cpu-exec.cpp, dut.cpp, sdb.cpp).         *)
THEOREM Invariant == Spec => []IInv
<1>1. Init => IInv
  BY Initially
<1>2. IInv /\ [Next]_vars => IInv'
  BY Step
<1> QED BY <1>1, <1>2, PTL DEF Spec

(* A difference difftest_step reports (dut.cpp) is a mistake of the processor    *)
(* or follows something that is known to mislead the comparison.                *)
THEOREM AlarmIsRealHolds == Spec => []AlarmIsReal
<1>1. IInv => AlarmIsReal
  BY DEF IInv
<1> QED BY <1>1, Invariant, PTL

(* When execute (cpu-exec.cpp) is about to ask for the next instruction, the     *)
(* first wrong result or lost instruction has been reported, for every program, *)
(* number of registers and clock at which it happens.                           *)
THEOREM FaultsAreCaughtHolds == Spec => []FaultsAreCaught
<1>1. IInv => FaultsAreCaught
  BY DEF IInv, FaultInv, FaultsAreCaught, CaughtNext, Looking, At
<1> QED BY <1>1, Invariant, PTL

(* A simulator that returns success to its caller (the return of main, main.cpp) *)
(* has seen no difference, unless Ctrl-C or a stop of the devices hid it.        *)
THEOREM ExitTellsAlarmHolds == Spec => []ExitTellsAlarm
<1>1. IInv => ExitTellsAlarm
  BY DEF IInv, ExitInv, ExitTellsAlarm, At
<1> QED BY <1>1, Invariant, PTL

(* Every access to the memory (dci_pmem_read and dci_pmem_write, memory.cpp)     *)
(* reads and writes the bytes of its lanes and no others, for every size of      *)
(* memory, every address in it and every mask.                                   *)
THEOREM BusIsBytesHolds == Spec => BusIsBytes
<1>1. IInv /\ [Next]_vars => [BusStep]_vars
  BY Step
<1> QED BY <1>1, Invariant, PTL DEF Spec, BusIsBytes
=============================================================================
