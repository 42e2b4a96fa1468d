------------------------------- MODULE Simulator -------------------------------
(* The npc simulator: the debugger's prompt (monitor/sdb.cpp), the execution   *)
(* of the processor clock by clock (cpu/cpu-exec.cpp), the comparison of every *)
(* instruction with a reference (debug/dut.cpp), the devices, the watchpoints  *)
(* and Ctrl-C, whose handler may run between any two steps of all this.        *)
(*                                                                             *)
(* The processor and the reference run the same program.  Both are external:   *)
(* of an instruction only what the comparison can tell apart is kept.          *)
EXTENDS DebuggerExpr, SimDevices

CONSTANTS Sessions,    \* what a run of the simulator may be about, see SessionOK
          Steps,       \* the arguments of si
          MaxBubbles,  \* clocks without a commit after which exec_once gives up
          Handler,     \* the address of the trap handler
          Registers,   \* the values of the register
          NR_WP        \* watchpoints

Kinds == {"set", "inc", "mmio", "ecall", "mret", "ebreak"}

(* A session: the program and the memory's image, whether interrupts and       *)
(* faults of the processor occur, the accesses to the bus, what x is asked     *)
(* for; bounds on both, on the clocks of csi, on the commands w and d and on   *)
(* how often Ctrl-C is pressed; CONFIG_WATCHPOINT and CONFIG_NOMMU_LINUX.      *)
AccessOK(a) ==
  /\ a.op \in {"read", "write"} /\ a.addr \in Nat
  /\ a.op = "read" => a.rsize \in Nat
  /\ a.op = "write" => DOMAIN a.data = Lane /\ a.wmask \subseteq Lane
SessionOK(s) ==
  /\ \A pc \in DOMAIN s.code : s.code[pc] \in Kinds
  /\ s.interrupts \in BOOLEAN /\ s.faults \in BOOLEAN /\ s.watch \in BOOLEAN /\ s.linux \in BOOLEAN
  /\ {s.csi, s.x, s.w, s.bus, s.signals} \subseteq Nat
  /\ DOMAIN s.image = 0 .. MEMSIZE - 1
  /\ \A a \in s.accesses : AccessOK(a)

ASSUME SimulatorAssumption == /\ \A s \in Sessions : SessionOK(s)
                              /\ MaxBubbles \in Nat /\ NR_WP \in Nat \ {0} /\ Handler \in Nat
                              /\ IsFiniteSet(Registers) /\ {0, 1} \subseteq Registers
                              /\ Registers = 0 .. Cardinality(Registers) - 1
                              /\ Width = ByteBase ^ 4

VARIABLES
  session,
  state,      \* npc_state.state
  npc,        \* npc_state.pc and .inst
  loc,        \* where the simulator is
  left,       \* the instructions execute has left, -1 for c
  clocks,     \* the clocks of this exec_once, bubble_cnt + 1
  cpu,        \* the processor: pc, register, mepc and mcause
  dut,        \* what the probes of the processor last reported
  ref,        \* the reference, as the processor
  skip,       \* is_skip_ref
  wp,         \* the watchpoints
  dev,        \* the devices
  shown,      \* the last expression and the value printed for it
  last,       \* the last access to the bus and its answer
  budget,     \* the clocks of csi, the commands x, the commands w and d, the
              \* accesses to the bus and the signals to come
  hist        \* what really happened, see Happened

vars == <<session, state, npc, loc, left, clocks, cpu, dut, ref, skip, wp, dev, shown, last, budget, hist>>

(* Happened, kept for the properties only:                                      *)
(*   erred    - the processor has made a mistake                               *)
(*   due      - the first mistake was in an instruction the comparison is to   *)
(*              look at                                                        *)
(*   excused  - something after which an alarm need not be a mistake           *)
(*   afterIO  - the last instruction committed was an access to a device       *)
(*   alarm    - the comparison has found a difference                          *)
(*   silenced - Ctrl-C or a device overwrote an abort                          *)
Happened == [erred |-> FALSE, due |-> FALSE, excused |-> FALSE, afterIO |-> FALSE,
             alarm |-> FALSE, silenced |-> FALSE]

-----------------------------------------------------------------------------
(* The processor and the reference: pc, one register, mepc, and the cause of   *)
(* the trap that is being handled.                                             *)

Trap(s, cause) == [s EXCEPT !.pc = Handler, !.epc = s.pc, !.cause = cause]

\* got is what an access to a device returns
Exec(i, s, got) ==
  CASE i = "set"  -> [s EXCEPT !.pc = @ + 1, !.reg = 1]
    [] i = "inc"  -> [s EXCEPT !.pc = @ + 1, !.reg = (@ + 1) % Cardinality(Registers)]
    [] i = "mmio" -> [s EXCEPT !.pc = @ + 1, !.reg = got]
    [] i = "mret" -> [s EXCEPT !.pc = s.epc, !.cause = "none"]
    [] i = "ecall" -> Trap(s, "ecall")
    [] OTHER -> [s EXCEPT !.pc = @ + 1]

InstAt(s) == IF s.pc \in DOMAIN session.code THEN session.code[s.pc] ELSE "none"
Repeatable(i, s) == Exec(i, Exec(i, s, 0), 0).reg = Exec(i, s, 0).reg

\* What one clock can bring: nothing, an instruction that commits at s and
\* leaves the processor at next, or a trap.
Bubble == [kind |-> "bubble"]
Commits(s) == {[kind |-> "commit", pc |-> s.pc, inst |-> InstAt(s), next |-> Exec(InstAt(s), s, got), wrong |-> FALSE] :
                 got \in (IF InstAt(s) = "mmio" THEN Registers ELSE {0})}
WrongResult(s) == UNION {{[e EXCEPT !.next.reg = r, !.wrong = TRUE] : r \in Registers} : e \in Commits(s)}
LostInstruction(s) ==
  LET after == [s EXCEPT !.pc = @ + 1]
  IN IF InstAt(after) \in {"none", "ecall"} THEN {} ELSE {[e EXCEPT !.wrong = TRUE] : e \in Commits(after)}
Traps(s) ==
  {[kind |-> "trap", cause |-> c] :
     c \in (IF InstAt(s) = "ecall" THEN {"ecall"} ELSE {})
           \cup (IF session.interrupts /\ s.cause = "none" THEN {"timer"} ELSE {})}
Executes(s) ==
  Commits(s) \cup (IF session.faults
                   THEN {e \in WrongResult(s) : e.next.reg # Exec(InstAt(s), s, e.next.reg).reg} \cup LostInstruction(s)
                   ELSE {})
Events(s) == {Bubble} \cup Traps(s) \cup (IF InstAt(s) \in {"none", "ecall"} THEN {} ELSE Executes(s))

\* What the probes report of it: a commit stays until it has been looked at.
Reported(d, e) ==
  CASE e.kind = "commit" -> [valid |-> TRUE, pc |-> e.pc, inst |-> e.inst, trap |-> "none", io |-> e.inst = "mmio"]
    [] e.kind = "trap" -> [d EXCEPT !.trap = e.cause, !.io = FALSE]
    [] OTHER -> [d EXCEPT !.trap = "none", !.io = FALSE]
After(s, e) ==
  CASE e.kind = "commit" -> e.next
    [] e.kind = "trap" -> Trap(s, e.cause)
    [] OTHER -> s

-----------------------------------------------------------------------------
(* The comparison.                                                             *)

\* Mutant: the reference keeps its own pc.
SynchronisedButPc == IF skip THEN [ref EXCEPT !.reg = cpu.reg] ELSE ref

\* An access to a device is not given to the reference; the instruction after
\* it brings the reference to the processor's registers first.
Synchronised == IF skip THEN [ref EXCEPT !.reg = cpu.reg, !.pc = npc.pc] ELSE ref
Stepped == Exec(InstAt(Synchronised), Synchronised, 0)

Skips == dut.io
NextRef == IF Skips THEN ref
           ELSE IF dut.trap # "none" THEN Trap(Synchronised, dut.trap)
           ELSE Stepped
\* Mutant: is_skip_ref is not reset.
NextSkipForever == Skips \/ skip
NextSkip == IF Skips THEN TRUE ELSE skip /\ dut.trap # "none"
Differs == \/ Synchronised.pc # dut.pc
           \/ Stepped.reg # cpu.reg
           \/ Stepped.epc # cpu.epc \/ Stepped.cause # cpu.cause
Alarm == ~Skips /\ dut.trap = "none" /\ ~skip /\ Differs

\* What makes the reference wrong although the processor is right: a repeated
\* instruction that is not the same twice, or a trap that finds the reference
\* at the address of the access before.
Misled == /\ ~Skips /\ skip
          /\ \/ dut.trap # "none"
             \/ ~Repeatable(dut.inst, [cpu EXCEPT !.pc = dut.pc])

-----------------------------------------------------------------------------
(* Watchpoints: a pool whose nodes are linked into the list in use or the free *)
(* one; 0 is NULL.                                                             *)

InitPool == [next |-> [k \in 1 .. NR_WP |-> (k + 1) % (NR_WP + 1)],
             busy |-> [k \in 1 .. NR_WP |-> FALSE],
             val |-> [k \in 1 .. NR_WP |-> 0],
             head |-> 0, free |-> 1]

\* the list in use
InUse(w) ==
  LET chain[p \in 0 .. NR_WP] == IF p = 0 THEN <<>> ELSE <<p>> \o chain[w.next[p]]
  IN chain[w.head]

new_wp(w) ==
  LET p == w.free
      taken == [w EXCEPT !.free = w.next[p], !.next[p] = 0]
  IN IF w.head = 0 THEN [taken EXCEPT !.head = p] ELSE [taken EXCEPT !.next[Last(InUse(w))] = p]

free_wp(w, p) ==
  LET at == CHOOSE k \in DOMAIN InUse(w) : InUse(w)[k] = p
      q == IF at = 1 THEN p ELSE InUse(w)[at - 1]
  IN [w EXCEPT !.next = [@ EXCEPT ![q] = w.next[p], ![p] = 0], !.free = p]

add_watchpoint(w, value) ==
  LET p == w.free IN [new_wp(w) EXCEPT !.busy[p] = TRUE, !.val[p] = value]

DeletesNothing(w) == w.head # 0
del_watchpoint(w, no) ==
  IF DeletesNothing(w) \/ no \notin Range(InUse(w)) THEN w
  ELSE free_wp([w EXCEPT !.busy[no] = FALSE], no)

Changed(w) == {p \in Range(InUse(w)) : w.val[p] # cpu.reg}
check_watchpoints(w) == [w EXCEPT !.val = [p \in DOMAIN @ |-> IF p \in Changed(w) THEN cpu.reg ELSE @[p]]]

-----------------------------------------------------------------------------
(* A clock: the devices answer the bus, the probes report, the timer counts.   *)

NoAccess == [op |-> "none"]
Accesses == {NoAccess} \cup (IF budget.bus > 0 THEN session.accesses ELSE {})
Spent(a) == IF a = NoAccess THEN budget ELSE [budget EXCEPT !.bus = @ - 1]
Nothing == [dev |-> dev, data |-> Zero, effect |-> "none"]
Answer(a) ==
  CASE a.op = "read" -> dci_pmem_read(dev, a.addr, a.rsize)
    [] a.op = "write" -> dci_pmem_write(dev, a.addr, a.data, a.wmask)
    [] OTHER -> Nothing

\* the effect is a new state of the simulator, or its end
Affected(effect) == IF effect \in {"none", "crash"} THEN state ELSE effect

\* seen: exec_once looks at what this clock reports.  The caller assigns state.
clock_step(e, a, seen) ==
  LET r == Answer(a)
  IN /\ cpu' = After(cpu, e)
     /\ dut' = Reported(dut, e)
     /\ dev' = IF session.linux THEN TimerStep(r.dev) ELSE r.dev
     /\ last' = [access |-> a, data |-> r.data]
     /\ hist' = [hist EXCEPT
          !.erred = @ \/ (e.kind = "commit" /\ e.wrong),
          !.due = @ \/ /\ seen /\ e.kind = "commit" /\ e.wrong
                       /\ ~hist.afterIO /\ ~hist.excused /\ ~hist.erred /\ e.inst \notin {"mmio", "ebreak"},
          !.afterIO = IF e.kind = "commit" THEN e.inst = "mmio" ELSE @,
          !.excused = @ \/ (~seen /\ e # Bubble),
          !.silenced = @ \/ (state = "ABORT" /\ r.effect = "STOP")]

Crashes(a) == Answer(a).effect = "crash"

-----------------------------------------------------------------------------
(* The prompt.                                                                 *)

At(where) == loc = where
debugger == <<left, shown, wp>>
execution == <<npc, clocks, cpu, dut, ref, skip, dev, last>>

Init ==
  /\ session \in Sessions
  /\ state = "STOP" /\ npc = [pc |-> 0, inst |-> "none"] /\ loc = "main" /\ left = 0 /\ clocks = 0
  /\ cpu = [pc |-> 0, reg |-> 0, epc |-> 0, cause |-> "none"] /\ ref = cpu
  /\ dut = [valid |-> FALSE, pc |-> 0, inst |-> "none", trap |-> "none", io |-> FALSE]
  /\ skip = FALSE /\ wp = InitPool
  /\ dev = [InitDevices EXCEPT !.mem = session.image]
  /\ shown = <<>> /\ last = [access |-> NoAccess, data |-> Zero]
  /\ budget = [csi |-> session.csi, x |-> session.x, w |-> session.w, bus |-> session.bus, signals |-> session.signals]
  /\ hist = Happened

Execute(n) ==
  /\ At("prompt")
  /\ left' = n /\ loc' = "execute"
  /\ UNCHANGED <<session, state, shown, wp, execution, budget, hist>>

Csi ==
  /\ At("prompt") /\ budget.csi > 0
  /\ \E e \in Events(cpu), a \in Accesses :
       /\ clock_step(e, a, FALSE)
       /\ state' = Affected(Answer(a).effect)
       /\ loc' = IF Crashes(a) THEN "crashed" ELSE loc
       /\ budget' = [Spent(a) EXCEPT !.csi = @ - 1]
  /\ UNCHANGED <<session, npc, clocks, ref, skip, debugger>>

\* w, on the register: the pool has no check for its end
Watch ==
  /\ At("prompt") /\ budget.w > 0
  /\ budget' = [budget EXCEPT !.w = @ - 1]
  /\ IF wp.free = 0 THEN wp' = wp /\ loc' = "crashed"
     ELSE wp' = add_watchpoint(wp, cpu.reg) /\ loc' = loc
  /\ UNCHANGED <<session, state, left, shown, execution, hist>>

Delete(no) ==
  /\ At("prompt") /\ budget.w > 0
  /\ budget' = [budget EXCEPT !.w = @ - 1]
  /\ wp' = del_watchpoint(wp, no)
  /\ UNCHANGED <<session, state, loc, left, shown, execution, hist>>

\* A word that begins in the last bytes of the memory would go past its end.
Environment ==
  LET Readable == {a \in 0 .. Width - 1 : pmem_offset(a) + 3 \in DOMAIN dev.mem}
  IN [reg |-> cpu.reg, mem |-> [a \in Readable |-> Value(host_read(dev.mem, pmem_offset(a), 4))]]

Examine(e, sep) ==
  /\ At("prompt") /\ budget.x > 0
  /\ shown' = [asked |-> e, value |-> expr(Written(e, sep), Environment)]
  /\ budget' = [budget EXCEPT !.x = @ - 1]
  /\ UNCHANGED <<session, state, loc, left, wp, execution, hist>>

Quit ==
  /\ At("prompt")
  /\ state' = IF state = "ABORT" THEN state ELSE "QUIT"
  /\ loc' = "main"
  /\ UNCHANGED <<session, debugger, execution, budget, hist>>

\* the end of the input is a null pointer
EndOfInput ==
  /\ At("prompt")
  /\ loc' = "crashed"
  /\ UNCHANGED <<session, state, debugger, execution, budget, hist>>

\* the loop of main, and its return
Main ==
  /\ At("main")
  /\ loc' = IF state \in {"QUIT", "ABORT"} THEN "final" ELSE "prompt"
  /\ UNCHANGED <<session, state, debugger, execution, budget, hist>>
Return ==
  /\ At("final")
  /\ loc' = IF state = "ABORT" THEN "failure" ELSE "success"
  /\ UNCHANGED <<session, state, debugger, execution, budget, hist>>

-----------------------------------------------------------------------------
(* execute.                                                                    *)

\* Mutant: only the end of the program is final.
FinishedUnlessAborted == state = "END"

Finished == state \in {"END", "ABORT"}
Refuse ==
  /\ At("execute") /\ Finished
  /\ loc' = "prompt"
  /\ UNCHANGED <<session, state, debugger, execution, budget, hist>>
Enter ==
  /\ At("execute") /\ ~Finished
  /\ loc' = "start"
  /\ UNCHANGED <<session, state, debugger, execution, budget, hist>>
Start ==
  /\ At("start")
  /\ state' = "RUNNING" /\ clocks' = 0
  /\ loc' = IF left = 0 THEN "prompt" ELSE "clock"
  /\ UNCHANGED <<session, npc, cpu, dut, ref, skip, dev, last, debugger, budget, hist>>

\* The last clock of the wait ends it whatever it brings.
GivesUp == clocks > MaxBubbles
Clock ==
  /\ At("clock")
  /\ \E e \in Events(cpu), a \in Accesses :
       /\ clock_step(e, a, ~GivesUp)
       /\ state' = IF GivesUp THEN "STOP" ELSE Affected(Answer(a).effect)
       /\ loc' = IF Crashes(a) THEN "crashed" ELSE IF GivesUp THEN "check"
                 ELSE IF dut'.valid \/ dut'.trap # "none" THEN "record" ELSE loc
       /\ budget' = Spent(a)
  /\ clocks' = clocks + 1
  /\ UNCHANGED <<session, npc, ref, skip, debugger>>

\* ebreak ends the program and leaves the report of its commit where it is
Record ==
  /\ At("record")
  /\ npc' = [pc |-> dut.pc, inst |-> dut.inst]
  /\ IF dut.inst = "ebreak"
     THEN state' = "END" /\ loc' = "check" /\ hist' = [hist EXCEPT !.excused = TRUE]
     ELSE state' = state /\ loc' = "difftest" /\ hist' = hist
  /\ UNCHANGED <<session, clocks, cpu, dut, ref, skip, dev, last, debugger, budget>>

trace_and_difftest ==
  /\ At("difftest")
  /\ wp' = IF session.watch THEN check_watchpoints(wp) ELSE wp
  /\ ref' = NextRef /\ skip' = NextSkip
  /\ state' = IF Alarm THEN "ABORT" ELSE IF session.watch /\ Changed(wp) # {} THEN "STOP" ELSE state
  /\ dut' = [dut EXCEPT !.valid = FALSE, !.trap = "none"]
  /\ hist' = [hist EXCEPT !.alarm = @ \/ Alarm, !.excused = @ \/ Misled]
  /\ loc' = "check"
  /\ UNCHANGED <<session, npc, left, clocks, cpu, dev, shown, last, budget>>

Again ==
  /\ At("check")
  /\ left' = IF left > 0 THEN left - 1 ELSE left
  /\ loc' = IF state # "RUNNING" \/ left' = 0 THEN "prompt" ELSE "clock"
  /\ clocks' = 0
  /\ UNCHANGED <<session, state, npc, cpu, dut, ref, skip, wp, dev, shown, last, budget, hist>>

-----------------------------------------------------------------------------
\* Ctrl-C, between any two steps
sigint_handler ==
  /\ loc \notin {"failure", "success", "crashed"} /\ budget.signals > 0
  /\ state' = "STOP"
  /\ budget' = [budget EXCEPT !.signals = @ - 1]
  /\ hist' = [hist EXCEPT !.silenced = @ \/ state = "ABORT"]
  /\ UNCHANGED <<session, loc, debugger, execution>>

Command ==
  \/ \E n \in Steps \cup {-1} : Execute(n)
  \/ Csi \/ Watch \/ \E no \in 1 .. NR_WP : Delete(no)
  \/ \E e \in session.exprs, sep \in {<<>>, <<Token("space")>>} : Examine(e, sep)
  \/ Quit \/ EndOfInput

Next == Command \/ Main \/ Return \/ Refuse \/ Enter \/ Start \/ Clock \/ Record
        \/ trace_and_difftest \/ Again \/ sigint_handler

Spec == Init /\ [][Next]_vars

-----------------------------------------------------------------------------
(* A difference the comparison reports (difftest_step, dut.cpp) is a mistake of *)
(* the processor, but for what is known to mislead it: an access to a device   *)
(* followed by a trap or by an instruction that repeats badly, clocks made     *)
(* behind its back, a program that goes on after its end.                      *)
AlarmIsReal == hist.alarm => hist.erred \/ hist.excused

(* The first wrong result or lost instruction is reported before the next one   *)
(* runs, unless it is in an access to a device or right after one.             *)
FaultsAreCaught == At("check") /\ hist.due => hist.alarm

(* A run in which the comparison found a difference exits with a failure        *)
(* whatever the user does afterwards, short of Ctrl-C and csi.                 *)
ExitTellsAlarm == At("success") => ~hist.alarm \/ hist.silenced

(* The debugger's value of an expression is the one its precedence, its          *)
(* parentheses and the order of its operators give it (eval, expr.cpp).        *)
ValueIsMeant == shown = <<>> \/ shown.value = Meaning(shown.asked, Environment) % Width

(* The bus is a memory of bytes: a write changes the bytes of its mask and no    *)
(* other, a read returns the bytes it asks for, each in its lane.               *)
InMemory(a) == a.op # "none" /\ a.addr \in PMEM_BASE .. PMEM_BASE + MEMSIZE - 1
ByteOf(a, k) == pmem_offset(Aligned(a.addr)) + k
LanesRead(a) == a.addr % 4 .. Min({3, (a.addr % 4) + (2 ^ a.rsize) - 1})
Writes(a) ==
  \A o \in DOMAIN dev.mem :
    dev'.mem[o] = IF \E k \in a.wmask : o = ByteOf(a, k) THEN a.data[CHOOSE k \in a.wmask : o = ByteOf(a, k)]
                  ELSE dev.mem[o]
Reads(a) == \A k \in LanesRead(a) : last'.data[k] = dev.mem[ByteOf(a, k)]
BusStep ==
  InMemory(last'.access) =>
    /\ last'.access.op = "write" => Writes(last'.access)
    /\ last'.access.op = "read" /\ last'.access.rsize <= 2 => Reads(last'.access)
BusIsBytes == [][BusStep]_vars
=============================================================================
