------------------------------ MODULE MCSimulator ------------------------------
(* Five sessions: the comparison with interrupts, with faults, under Ctrl-C    *)
(* and csi; the debugger's expressions; the bus.                               *)
EXTENDS Simulator

MCRegisters == 0 .. 2
MCSteps == {0, 1, 2}

\* the program from address 0, the trap handler from address 8
Program(main, handler) ==
  [pc \in 0 .. Len(main) - 1 |-> main[pc + 1]] @@ [pc \in 8 .. 7 + Len(handler) |-> handler[pc - 7]]
TrapHandler == <<"inc", "mret">>

Image == [o \in 0 .. MEMSIZE - 1 |-> IF o \in {1, 4, 6} THEN 1 ELSE 0]

Session == [code |-> <<>>, image |-> Image, interrupts |-> FALSE, faults |-> FALSE, accesses |-> {},
            exprs |-> {}, x |-> 0, w |-> 0, bus |-> 0, csi |-> 0, signals |-> 0, watch |-> FALSE, linux |-> FALSE]

Interrupted == [Session EXCEPT !.code = Program(<<"set", "mmio", "set", "inc", "mmio", "ecall">>, TrapHandler),
                               !.interrupts = TRUE]
Faulty == [Session EXCEPT !.code = Program(<<"inc", "mmio", "mmio", "set", "inc", "ebreak">>, <<>>),
                          !.faults = TRUE]

\* a read of eight bytes, which no bus of a 32 bit processor makes, and a
\* write of two bytes to the serial port
Bad == {[op |-> "read", addr |-> PMEM_BASE, rsize |-> 3],
        [op |-> "write", addr |-> SERIAL_MMIO, data |-> Zero, wmask |-> {0, 1}]}
Disturbed == [Session EXCEPT !.code = Program(<<"inc", "inc", "ebreak", "ecall">>, TrapHandler),
                           !.faults = TRUE, !.csi = 1, !.signals = 1, !.bus = 1, !.accesses = Bad]

Watched == [Session EXCEPT !.code = Program(<<"inc", "set", "inc">>, <<>>), !.watch = TRUE, !.w = 4]

-----------------------------------------------------------------------------
Op == Binary \ {"/"}
Leaves == {<<Num(3), Num(2), Num(2)>>, <<Num(2), Reg, Num(1)>>}
Three == {Node(o, Node(p, t[1], t[2]), t[3]) : o \in Op, p \in Op, t \in Leaves}
         \cup {Node(o, t[1], Node(p, t[2], t[3])) : o \in Op, p \in Op, t \in Leaves}
Four == {Node(o, Node(p, Num(3), Num(1)), Node(q, Num(2), Num(2))) : o \in Op, p \in Op, q \in Op}
Derefs == {Node(o, Deref(Num(1)), Deref(Reg)) : o \in Op}
          \cup {Deref(Node(o, Num(1), Num(3))) : o \in Op \ {"-"}}
          \cup {Node(o, Num(2), Node("*", Deref(Node(p, Reg, Num(1))), Num(3))) : o \in Op, p \in Op \ {"-"}}
Quotients == UNION {{Node("/", Node(o, Num(1), Num(5)), Num(2)), Node(o, Node("/", Num(5), Num(2)), Num(2)),
                     Node(o, Num(3), Node("/", Num(3), Num(2)))} : o \in Binary}
Asked == [Session EXCEPT !.exprs = Three \cup Four \cup Derefs \cup Quotients, !.x = 1]

Word1 == [k \in Lane |-> IF k \in {0, 2} THEN 1 ELSE 0]
Masks == {{k} : k \in Lane} \cup {{0, 1}, {2, 3}, Lane}
BusWrites == {[op |-> "write", addr |-> a + Min(m), data |-> d, wmask |-> m] :
             a \in {PMEM_BASE, PMEM_BASE + MEMSIZE, CLINT_MMIO, CLINT_MMIO + MTIMEL, SERIAL_MMIO, SERIAL_MMIO + 4},
             m \in Masks, d \in {Word1, Ones}}
BusReads == {[op |-> "read", addr |-> b, rsize |-> r] :
            b \in PMEM_BASE .. PMEM_BASE + MEMSIZE, r \in {0}}
         \cup {[op |-> "read", addr |-> b, rsize |-> 1] : b \in {PMEM_BASE, PMEM_BASE + 2, PMEM_BASE + 4}}
         \cup {[op |-> "read", addr |-> b, rsize |-> 2] : b \in {PMEM_BASE, PMEM_BASE + 4, CLINT_MMIO + MTIMEL, CLINT_MMIO + ClintSize}}
         \cup {[op |-> "read", addr |-> b, rsize |-> 0] : b \in {CLINT_MMIO + ClintSize - 1, SERIAL_MMIO, SERIAL_MMIO + LSR, SERIAL_MMIO + 1}}
Bus == [Session EXCEPT !.accesses = BusReads \cup BusWrites, !.bus = 2, !.csi = 2]
Timed == [Session EXCEPT !.linux = TRUE]

MCSessions == {Interrupted, Faulty, Disturbed, Watched, Asked, Bus, Timed}
=============================================================================
