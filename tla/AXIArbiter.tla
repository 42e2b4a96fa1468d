----------------------------- MODULE AXIArbiter -----------------------------
(***************************************************************************)
(* PriorityAXIArbiter (utils/CPUAXIBridge.scala): it connects one of two   *)
(* masters to the bus, the data cache (0) before the instruction cache     *)
(* (1), separately for reads and writes, and holds back a read of the word *)
(* whose write it is passing on.                                           *)
(***************************************************************************)
EXTENDS Naturals

CONSTANT Addr   \* the word addresses

VARIABLES
  rreq_ongoing, rreq_idx_src2,   \* a read was accepted, and from whom
  wreq_ongoing, wreq_idx_src2,   \* the same for a write
  wreq_addr,                     \* the address of the last write
  aw_valid_r                     \* a write address was on the bus a cycle ago

arbVars == <<rreq_ongoing, rreq_idx_src2, wreq_ongoing, wreq_idx_src2, wreq_addr, aw_valid_r>>

Masters == {0, 1}
NoAddr  == CHOOSE a \in Addr : TRUE

\* The wires of a cycle: what the masters put on the address channels, whether
\* the selected ones move data, and the slave's side.
Wires == [ar: [Masters -> [valid: BOOLEAN, addr: Addr]],
          aw: [Masters -> [valid: BOOLEAN, addr: Addr]],
          wlast: BOOLEAN, rlast: BOOLEAN, ar_ready: BOOLEAN, aw_ready: BOOLEAN]

\* PriorityEncoder of two bits.
First(S) == IF 0 \in S THEN 0 ELSE 1

rreq_idx_src1(in) == First({i \in Masters : in.ar[i].valid})
wreq_idx_src1(in) == First({i \in Masters : in.aw[i].valid})

selected_rreq_idx(in) == IF rreq_ongoing THEN rreq_idx_src2 ELSE rreq_idx_src1(in)
selected_wreq_idx(in) == IF wreq_ongoing THEN wreq_idx_src2 ELSE wreq_idx_src1(in)

out_ar(in) == in.ar[selected_rreq_idx(in)]
out_aw(in) == in.aw[selected_wreq_idx(in)]

\* Mutant: only a write whose address was accepted holds a read back.
raw_hazard_accepted(in) == /\ out_ar(in).valid /\ wreq_ongoing
                           /\ wreq_addr = out_ar(in).addr

raw_hazard(in) == /\ out_ar(in).valid
                  /\ wreq_ongoing \/ aw_valid_r
                  /\ wreq_addr = out_ar(in).addr

\* The handshakes of the address channels.
ArFires(in) == out_ar(in).valid /\ ~raw_hazard(in) /\ in.ar_ready
AwFires(in) == out_aw(in).valid /\ in.aw_ready

ArbiterInit ==
  /\ rreq_ongoing = FALSE /\ rreq_idx_src2 = 0
  /\ wreq_ongoing = FALSE /\ wreq_idx_src2 = 0
  /\ wreq_addr = NoAddr /\ aw_valid_r = FALSE

\* The registers keep what they held; an index or an address that is not looked
\* at again is forgotten here.
ArbiterClock(in) ==
  /\ rreq_ongoing' = (ArFires(in) \/ (rreq_ongoing /\ ~in.rlast))
  /\ rreq_idx_src2' = CASE ~rreq_ongoing' -> 0
                        [] ArFires(in) /\ ~rreq_ongoing -> rreq_idx_src1(in)
                        [] OTHER -> rreq_idx_src2
  /\ wreq_ongoing' = (AwFires(in) \/ (wreq_ongoing /\ ~in.wlast))
  /\ wreq_idx_src2' = CASE ~wreq_ongoing' -> 0
                        [] AwFires(in) /\ ~wreq_ongoing -> wreq_idx_src1(in)
                        [] OTHER -> wreq_idx_src2
  /\ wreq_addr' = CASE out_aw(in).valid -> out_aw(in).addr
                    [] ~out_aw(in).valid /\ wreq_ongoing' -> wreq_addr
                    [] OTHER -> NoAddr
  /\ aw_valid_r' = out_aw(in).valid

=============================================================================
