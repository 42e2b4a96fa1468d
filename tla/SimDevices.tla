------------------------------- MODULE SimDevices -------------------------------
(* What the processor's bus reaches in the npc simulator: the memory, the      *)
(* CLINT and the serial port (cpu/memory.cpp, device/mmio.cpp, clint.cpp,      *)
(* serial.cpp).  A word is four lanes, lane 0 the lowest byte; a byte has      *)
(* ByteBase values.  An access returns the devices after it, the data, and     *)
(* what happened to the simulator: "none", a new state of it, or "crash" for   *)
(* a failed assertion and a panic.                                             *)
EXTENDS Integers, FiniteSetsExt

CONSTANTS ByteBase,    \* the values of a byte: 0 .. ByteBase - 1
          PMEM_BASE, MEMSIZE,
          CLINT_MMIO, SERIAL_MMIO,
          TimerPeriod  \* clocks between two steps of the timer, less one

ASSUME DevicesAssumption ==
  /\ ByteBase \in Nat \ {0, 1} /\ TimerPeriod \in Nat
  /\ {PMEM_BASE, CLINT_MMIO, SERIAL_MMIO} \subseteq Nat /\ MEMSIZE \in Nat \ {0}
  /\ PMEM_BASE % MEMSIZE = 0 /\ PMEM_BASE % 4 = 0 /\ MEMSIZE % 4 = 0
  /\ CLINT_MMIO % 4 = 0 /\ SERIAL_MMIO % 4 = 0

Lane == 0 .. 3
Zero == [k \in Lane |-> 0]
Ones == [k \in Lane |-> ByteBase - 1]
Value(w) == w[0] + ByteBase * (w[1] + ByteBase * (w[2] + ByteBase * w[3]))
Aligned(a) == a - (a % 4)

\* The CLINT's space, with what lies between its registers left out; the
\* compare registers are the words at 4 and 8.
MSIP == 0
MTIMEL == 12
MTIMEH == 16
ClintSize == 20
SerialSize == 8
LSR == 5
THRE == ByteBase - 1    \* 0x60: the port can always take a byte

InitDevices ==
  [mem |-> [o \in 0 .. MEMSIZE - 1 |-> 0],
   clint |-> [o \in 0 .. ClintSize - 1 |-> 0],
   serial |-> [o \in 0 .. SerialSize - 1 |-> IF o = LSR THEN THRE ELSE 0],
   flag |-> 0]

-----------------------------------------------------------------------------
(* Host memory: a length that is not 1, 2 or 4 aborts.                         *)

BadLength(len) == len \notin {1, 2, 4}
host_read(space, o, len) ==
  IF BadLength(len) THEN Ones
  ELSE [k \in Lane |-> IF k < len THEN space[o + k] ELSE 0]
host_write(space, o, len, w) ==
  IF BadLength(len) THEN space
  ELSE [p \in DOMAIN space |-> IF p \in o .. o + len - 1 THEN w[p - o] ELSE space[p]]
LengthEffect(len) == IF BadLength(len) THEN "ABORT" ELSE "none"

\* the address after the last one counts as memory, and is its first one
in_pmem(a) == a >= PMEM_BASE /\ a <= PMEM_BASE + MEMSIZE
pmem_offset(a) == a % MEMSIZE

-----------------------------------------------------------------------------
(* Memory mapped devices.                                                      *)

Maps == [clint |-> [low |-> CLINT_MMIO, high |-> CLINT_MMIO + ClintSize - 1],
         serial |-> [low |-> SERIAL_MMIO, high |-> SERIAL_MMIO + SerialSize - 1]]
MapOf(a) == {m \in DOMAIN Maps : a >= Maps[m].low /\ a <= Maps[m].high}

\* the bound check refuses the last byte of a map
OutOfBound(a) == \A m \in MapOf(a) : a >= Maps[m].high

clint_io_handler(space, o, is_write) ==
  IF o = MSIP /\ is_write
  THEN [p \in DOMAIN space |-> IF p \in 1 .. 3 THEN 0 ELSE IF p = 0 THEN space[0] % 2 ELSE space[p]]
  ELSE space

serial_io_handler(space, o, len, is_write) ==
  CASE len # 1 -> space
    [] o = LSR -> [space EXCEPT ![LSR] = THRE]
    [] o = 0 -> IF is_write THEN space ELSE [space EXCEPT ![0] = 0]
    [] OTHER -> IF is_write THEN [p \in DOMAIN space |-> IF p \in 1 .. 4 THEN 0 ELSE space[p]] ELSE space

\* the registers of a device after its handler ran
Handled(m, space, o, len, is_write) ==
  IF m = "clint" THEN clint_io_handler(space, o, is_write)
  ELSE serial_io_handler(space, o, len, is_write)
HandlerEffect(m, len) == IF m = "serial" /\ len # 1 THEN "STOP" ELSE "none"

\* the later of two assignments to the simulator's state, if there is one
Later(first, second) == IF second = "none" THEN first ELSE second

Crash(dev) == [dev |-> dev, data |-> Ones, effect |-> "crash"]

map_read(dev, a, len) ==
  LET m == CHOOSE x \in MapOf(a) : TRUE
      o == a - Maps[m].low
      space == Handled(m, dev[m], o, len, FALSE)
  IN IF OutOfBound(a) \/ len \notin 1 .. 8 THEN Crash(dev)
     ELSE [dev |-> [dev EXCEPT ![m] = space], data |-> host_read(space, o, len),
           effect |-> Later(HandlerEffect(m, len), LengthEffect(len))]

map_write(dev, a, len, w) ==
  LET m == CHOOSE x \in MapOf(a) : TRUE
      o == a - Maps[m].low
  IN IF OutOfBound(a) \/ len \notin 1 .. 8 THEN Crash(dev)
     ELSE [dev |-> [dev EXCEPT ![m] = Handled(m, host_write(@, o, len, w), o, len, TRUE)],
           data |-> w, effect |-> Later(LengthEffect(len), HandlerEffect(m, len))]

-----------------------------------------------------------------------------
(* The bus: a read of 2^rsize bytes, a write of the lanes of wmask.            *)

\* Mutant: the bytes are returned in the lowest lanes.
Unshifted(w, n) == w

Shifted(w, n) == [k \in Lane |-> IF k >= n THEN w[k - n] ELSE 0]
dci_pmem_read(dev, a, rsize) ==
  LET len == 2 ^ rsize
      r == IF in_pmem(a)
           THEN [dev |-> dev, data |-> host_read(dev.mem, pmem_offset(a), len), effect |-> LengthEffect(len)]
           ELSE map_read(dev, a, len)
  IN [r EXCEPT !.data = Shifted(@, a % 4)]

\* The memory takes the lanes of the mask, a device the lowest lanes.
dci_pmem_write(dev, a, w, wmask) ==
  LET word == pmem_offset(Aligned(a))
      old == host_read(dev.mem, word, 4)
      merged == [k \in Lane |-> IF k \in wmask THEN w[k] ELSE old[k]]
  IN IF in_pmem(a)
     THEN [dev |-> [dev EXCEPT !.mem = host_write(@, word, 4, merged)], data |-> w, effect |-> "none"]
     ELSE map_write(dev, a, Cardinality(wmask), w)

-----------------------------------------------------------------------------
(* The timer, two words, counts once in TimerPeriod + 1 clocks.                *)

Word(dev, r) == [k \in Lane |-> dev.clint[r + k]]
Increment(w) ==
  [k \in Lane |-> IF \A j \in 0 .. k - 1 : w[j] = ByteBase - 1 THEN (w[k] + 1) % ByteBase ELSE w[k]]
SetWord(dev, r, w) == [dev EXCEPT !.clint = host_write(@, r, 4, w)]

clint_update(dev) ==
  IF Word(dev, MTIMEL) = Ones
  THEN SetWord(SetWord(dev, MTIMEL, Zero), MTIMEH, Increment(Word(dev, MTIMEH)))
  ELSE SetWord(dev, MTIMEL, Increment(Word(dev, MTIMEL)))

TimerStep(dev) ==
  IF dev.flag = TimerPeriod THEN [clint_update(dev) EXCEPT !.flag = 0]
  ELSE [dev EXCEPT !.flag = @ + 1]
=============================================================================
