---------------------------- MODULE MCScoreboard ----------------------------
(***************************************************************************)
(* The scoreboard with four slots, driven by every combination of the      *)
(* inputs below: a register writer, a branch and an ertn are offered, any  *)
(* slot is written back on either port, commits wait or not, and the       *)
(* interrupt line rises and falls.  What an exception code does to a       *)
(* commit is left to the backend's runs: to this module it is a flush.     *)
(***************************************************************************)
EXTENDS Scoreboard

MCRegs   == {1}
MCValues == {0}

Inst(ft, op, wen) ==
  [futype |-> ft, op |-> op, regwen |-> wen, dest_rs1 |-> FALSE,
   rd |-> 1, rs1 |-> 1, rs2 |-> 1]

Alu  == Inst("alu", "other", TRUE)
Bru  == Inst("bru", "other", FALSE)
Ertn == Inst("misc", "ertn", FALSE)
MCInsts == {Alu, Bru, Ertn}

\* A port that writes nothing back, and one that does.
Quiet == [valid |-> FALSE, id |-> 0, exception |-> FALSE, mispred |-> FALSE,
          result |-> 0]
Wb(id, m) == [Quiet EXCEPT !.valid = TRUE, !.id = id, !.mispred = m]

\* Port 0 writes back, with or without a misprediction, or port 1 does.
PortPairs ==
  { [p \in Ports |-> IF p = 0 THEN w ELSE Quiet] :
      w \in {Quiet} \cup { Wb(i, m) : i \in Slots, m \in BOOLEAN } }
  \cup { [p \in Ports |-> IF p = 1 THEN Wb(i, FALSE) ELSE Quiet] : i \in Slots }

\* What the decoder offers: nothing, or an instruction.
Offers == {<<FALSE, Alu>>} \cup ({TRUE} \X MCInsts)

\* The commit side: its ready and the interrupt line.
CommitSides == BOOLEAN \X BOOLEAN

MCInputs ==
  { [dec_valid |-> d[1], inst |-> d[2], frontend_excp |-> FALSE,
     operands_rdy |-> TRUE, issue_ready |-> TRUE,
     commit_ready |-> c[1], int_flag |-> c[2], llbit |-> TRUE, wb |-> w] :
       d \in Offers, c \in CommitSides, w \in PortPairs }
=============================================================================
