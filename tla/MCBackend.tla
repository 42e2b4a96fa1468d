----------------------------- MODULE MCBackend -----------------------------
(***************************************************************************)
(* The back end with instructions of every kind; a run chooses the kinds   *)
(* its programs mix.  None but the store-conditional writes a register, so *)
(* that destination registers hold nobody back (module Scoreboard has the  *)
(* write-after-write hazard).                                              *)
(***************************************************************************)
EXTENDS Backend

Inst(ft, op) ==
  [futype |-> ft, op |-> op, regwen |-> op = "sc", dest_rs1 |-> FALSE,
   rd |-> 1, rs1 |-> 0, rs2 |-> 0]

Bru   == Inst("bru", "other")
Mul   == Inst("mul", "other")
Ld    == Inst("lsu", "load")
St    == Inst("lsu", "store")
Sc    == Inst("lsu", "sc")
Csrwr == Inst("csr", "other")
Tlbwr == Inst("csr", "tlbwr")
Csrrd   == Inst("csr", "csrrd")
Tlbsrch == Inst("csr", "tlbsrch")
Sys   == Inst("misc", "syscall")
Ertn  == Inst("misc", "ertn")
Idle  == Inst("misc", "idle")

\* The programs of the runs.
MCSafe  == {Mul, Sys, Csrwr, Tlbsrch}
MCTrap  == {St, Bru, Ertn, Idle}
MCLive  == {Mul, Ld, Sys}
MCLoad  == {Ld, St, Sys}
MCCsr   == {Csrwr, Tlbsrch, Tlbwr, Sys}
MCSc    == {Sc}
MCHang  == {Mul, Csrwr}
MCRead  == {Csrrd, Csrwr}
=============================================================================
