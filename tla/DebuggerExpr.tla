------------------------------ MODULE DebuggerExpr ------------------------------
(* The expressions of the simulator's debugger (monitor/expr.cpp): a sequence  *)
(* of tokens is evaluated by splitting it at its last operator of the lowest   *)
(* precedence.  The lexer is not modelled: a token is a record with a type,    *)
(* and a number carries its value.                                             *)
EXTENDS Integers, Sequences, FiniteSetsExt, SequencesExt

CONSTANT Width    \* word_t has the values 0 .. Width - 1; long is not bounded

ASSUME WidthAssumption == Width \in Nat \ {0}

Levels == << {"||"}, {"&&"}, {"==", "!="}, {"+", "-"}, {"*", "/"}, {"deref"} >>
Binary == UNION {Levels[k] : k \in 1 .. 5}

\* The quotient of C drops the fraction.  Nothing is divided by zero (the
\* process would die).
Quotient(a, b) ==
  LET Size(n) == IF n < 0 THEN -n ELSE n
      q == Size(a) \div Size(b)
  IN IF (a < 0) # (b < 0) THEN -q ELSE q

Apply(op, a, b) ==
  LET Truth(c) == IF c THEN 1 ELSE 0
  IN CASE op = "||" -> Truth(a # 0 \/ b # 0)
       [] op = "&&" -> Truth(a # 0 /\ b # 0)
       [] op = "==" -> Truth(a = b)
       [] op = "!=" -> Truth(a # b)
       [] op = "+"  -> a + b
       [] op = "-"  -> a - b
       [] op = "*"  -> a * b
       [] op = "/"  -> Quotient(a, b)

-----------------------------------------------------------------------------
(* The evaluation of a sequence of tokens.                                    *)

Count(t, type, p, q) == Cardinality({i \in p .. q : t[i].type = type})
Depth(t, p, q) == Count(t, "(", p, q) - Count(t, ")", p, q)

\* p and q hold a matching pair
check_parentheses(t, p, q) ==
  /\ p < q
  /\ t[p].type = "(" /\ t[q].type = ")"
  /\ \A i \in p + 1 .. q - 1 : Depth(t, p + 1, i) >= 0
  /\ Depth(t, p + 1, q - 1) = 0

\* Mutant: the first operator of the lowest precedence.
FirstOperator(t, p, q) ==
  LET At(k) == {i \in p .. q : t[i].type \in Levels[k] /\ Depth(t, i, q) = 0}
  IN Min(At(Min({k \in 1 .. 6 : At(k) # {}})))

\* The operator a stretch is split at: outside parentheses, of the lowest
\* precedence there is, and the last of that one.
MainOperator(t, p, q) ==
  LET At(k) == {i \in p .. q : t[i].type \in Levels[k] /\ Depth(t, i, q) = 0}
  IN Max(At(Min({k \in 1 .. 6 : At(k) # {}})))

\* The value of a stretch of t. *p is the memory's word at p, as pmem_read returns it.
eval(t, env) ==
  LET value[p0 \in 1 .. Len(t) + 1, q0 \in 0 .. Len(t)] ==
        LET Solid == {i \in p0 .. q0 : t[i].type # "space"}
            p == Min(Solid)
            q == Max(Solid)
            m == MainOperator(t, p, q)
        IN IF Solid = {} THEN -1
           ELSE IF p = q THEN (IF t[p].type = "num" THEN t[p].val ELSE env.reg)
           ELSE IF check_parentheses(t, p, q) THEN value[p + 1, q - 1]
           ELSE IF t[m].type = "deref" THEN env.mem[value[m + 1, q] % Width]
           ELSE Apply(t[m].type, value[p, m - 1], value[m + 1, q])
  IN value[1, Len(t)]

\* A star is an operator of one operand at the beginning, after a parenthesis
\* and after an operator of two operands (a star that was turned is not one).
MarkDeref(t) ==
  LET turned[i \in 1 .. Len(t)] ==
        LET before == {j \in 1 .. i - 1 : t[j].type # "space"}
            j == Max(before)
        IN /\ t[i].type = "*"
           /\ \/ i = 1
              \/ /\ before # {}
                 /\ t[j].type \in {"("} \cup Binary
                 /\ ~turned[j]
  IN [i \in 1 .. Len(t) |-> IF turned[i] THEN [t[i] EXCEPT !.type = "deref"] ELSE t[i]]

expr(t, env) == eval(MarkDeref(t), env) % Width

-----------------------------------------------------------------------------
(* What an expression is meant to be, in postfix: an operator after its         *)
(* operands.  It is written down with the parentheses that its operators'       *)
(* precedence asks for.                                                        *)

Token(type) == [type |-> type, val |-> 0]
Num(n) == <<[type |-> "num", val |-> n]>>
Reg == <<Token("reg")>>
Node(op, l, r) == l \o r \o <<Token(op)>>
Deref(e) == e \o <<Token("deref")>>

\* The operands on top of a stack make way for the result.
Reduced(stack, n, result) == SubSeq(stack, 1, Len(stack) - n) \o <<result>>
Second(stack) == stack[Len(stack) - 1]

Meaning(e, env) ==
  LET Push(stack, tok) ==
        CASE tok.type = "num" -> Reduced(stack, 0, tok.val)
          [] tok.type = "reg" -> Reduced(stack, 0, env.reg)
          [] tok.type = "deref" -> Reduced(stack, 1, env.mem[Last(stack) % Width])
          [] OTHER -> Reduced(stack, 2, Apply(tok.type, Second(stack), Last(stack)))
  IN Last(FoldLeft(Push, <<>>, e))

\* sep is what stands between two tokens: nothing or a space
Written(e, sep) ==
  LET Level(op) == CHOOSE k \in 1 .. 6 : op \in Levels[k]
      Operand(f, tight) ==
        IF f.level >= tight THEN f.text
        ELSE <<Token("(")>> \o sep \o f.text \o sep \o <<Token(")")>>
      Binding(op, l, r) ==
        [level |-> Level(op), text |-> Operand(l, Level(op)) \o sep \o <<Token(op)>> \o sep \o Operand(r, Level(op) + 1)]
      Push(stack, tok) ==
        CASE tok.type \in {"num", "reg"} -> Reduced(stack, 0, [level |-> 7, text |-> <<tok>>])
          [] tok.type = "deref" ->
               Reduced(stack, 1, [level |-> 6, text |-> <<Token("*")>> \o sep \o Operand(Last(stack), 7)])
          [] OTHER -> Reduced(stack, 2, Binding(tok.type, Second(stack), Last(stack)))
  IN Last(FoldLeft(Push, <<>>, e)).text
=============================================================================
