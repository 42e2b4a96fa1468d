------------------------------ MODULE MCMemory ------------------------------
(***************************************************************************)
(* Two sets, lines of two words, and words that compete for a line, for a  *)
(* bank, or for nothing; one uncached word.                                *)
(***************************************************************************)
EXTENDS MemorySystem

Word(t, s, o) == [tag |-> t, set |-> s, off |-> o]

CachedWords == {Word(1, 0, 1), Word(2, 0, 0)}
Uncached    == Word(3, 0, 0)

Load(a)     == [NoReq EXCEPT !.addr = a, !.uncached = (a = Uncached)]
Store(a, d) == [Load(a) EXCEPT !.wr = TRUE, !.data = d]
Accesses    == { Load(a) : a \in CachedWords \cup {Uncached} }
               \cup { Store(Word(1, 0, 1), d) : d \in Values }
               \cup { Store(Word(2, 0, 0), 1), Store(Uncached, 1) }
Cacops      == { [NoReq EXCEPT !.addr = Word(1, 0, 1), !.cacop = c, !.way = 1] :
                   c \in {"hit_inv", "idx_inv"} }
BytesToo    == { [Load(a) EXCEPT !.word = FALSE] : a \in CachedWords }

WordsAndCacops == Accesses \cup Cacops
WordsAndBytes  == Accesses \cup BytesToo

MCCode     == Word(3, 1, 0)
=============================================================================
