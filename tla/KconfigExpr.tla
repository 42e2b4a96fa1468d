---------------------------- MODULE KconfigExpr ----------------------------
(***************************************************************************)
(* The dependency expressions of the simulator's configuration tool,       *)
(* src/simulators/npc/tools/kconfig/expr.c: their tristate value, the      *)
(* rewritings that simplify them, their comparison and how they are        *)
(* printed.                                                                *)
(*                                                                         *)
(* An expression is a tuple that starts with its type:                     *)
(*   <<"sym", s>>           <<"not", e>>                                   *)
(*   <<"and", e, f>>        <<"or", e, f>>                                 *)
(*   <<op, s, t>>           op one of = != < <= > >=, s and t symbols      *)
(* and Null is the NULL pointer, "no condition". Rewriting in place is a   *)
(* function from the old tree to the new one; where the code holds two     *)
(* pointers into one tree (expr_eliminate_dups), it is a tree and two      *)
(* paths.                                                                  *)
(***************************************************************************)
EXTENDS Integers, Sequences

CONSTANTS SymType,   \* the type of each symbol: a function
          Consts     \* the symbols with SYMBOL_CONST

Symbols == DOMAIN SymType
SymbolTypes == {"unknown", "bool", "tristate", "int", "string"}

\* The three constants of symbol.c are symbols of unknown type.
ASSUME SymTypeAssumption ==
    /\ \A s \in Symbols : SymType[s] \in SymbolTypes
    /\ {"y", "m", "n"} \subseteq Consts
    /\ \A s \in Consts : s \in Symbols /\ SymType[s] = "unknown"

Null == <<"null">>
Sym(s) == <<"sym", s>>
Not(e) == <<"not", e>>
Yes == Sym("y")
No == Sym("n")
Comparisons == {"=", "!=", "<", "<=", ">", ">="}
Junctions == {"and", "or"}

\* lkc.h expr_is_yes: NULL is yes, too.
IsYes(e) == e \in {Null, Yes}

\* expr_alloc_and, expr_alloc_or: NULL is the neutral element of both.
AllocAnd(e, f) == IF e = Null THEN f ELSE IF f = Null THEN e ELSE <<"and", e, f>>
AllocOr(e, f) == IF e = Null THEN f ELSE IF f = Null THEN e ELSE <<"or", e, f>>

-----------------------------------------------------------------------------
(* Values: no, mod, yes are 0, 1, 2; every symbol has a string value too.  *)

Tri(str) == CASE str = "y" -> 2 [] str = "m" -> 1 [] OTHER -> 0
TriMin(a, b) == IF a < b THEN a ELSE b
TriMax(a, b) == IF a > b THEN a ELSE b

\* strcmp on the strings the models use, and strtoll on those that are numbers.
StrOrder == <<"", "0", "10", "5", "m", "n", "y">>
StrRank(str) == CHOOSE i \in 1..Len(StrOrder) : StrOrder[i] = str
TriNumber == [str \in {"", "0", "10", "5", "m", "n", "y"} |->
                CASE str = "n" -> 0 [] str = "m" -> 1 [] str = "y" -> 2 [] OTHER -> -1]
Number == [str \in {"0", "5", "10"} |-> CASE str = "0" -> 0 [] str = "5" -> 5 [] OTHER -> 10]

\* strtoll
IntOf(str) == IF str \in DOMAIN Number THEN Number[str] ELSE 0

\* expr_parse_string: the number a string stands for, by the type of the symbol that
\* holds it, and its rank among the strings.
ParseString(str, type) ==
    [isNumber |-> type \in {"bool", "tristate"} \/ str \in DOMAIN Number,
     number |-> IF type \in {"bool", "tristate"} THEN TriNumber[str] ELSE IntOf(str),
     rank |-> StrRank(str)]

\* The string value of a symbol under the assignment val.
StrValue(s, val) == IF s \in Consts THEN s ELSE val[s]
TriValue(s, val) == IF s \in Consts \/ SymType[s] \in {"bool", "tristate"}
                    THEN Tri(StrValue(s, val)) ELSE 0

\* The comparison of expr_calc_value, as numbers or as strings; the difference is
\* negative, zero or positive.
Difference(s, t, parsed) ==
    IF {SymType[s], SymType[t]} # {"string"} /\ parsed[s].isNumber /\ parsed[t].isNumber
    THEN parsed[s].number - parsed[t].number ELSE parsed[s].rank - parsed[t].rank
Relates(op, d) == CASE op = "=" -> d = 0 [] op = "!=" -> d # 0
                    [] op = "<" -> d < 0 [] op = "<=" -> d <= 0
                    [] op = ">" -> d > 0 [] op = ">=" -> d >= 0
CompareSymbols(op, s, t, val) ==
    IF Relates(op, Difference(s, t, [x \in {s, t} |-> ParseString(StrValue(x, val), SymType[x])]))
    THEN 2 ELSE 0

RECURSIVE Calc(_, _)
\* expr_calc_value, with the values of the symbols given.
Calc(e, val) ==
    CASE e = Null -> 2
      [] e[1] = "sym" -> TriValue(e[2], val)
      [] e[1] = "and" -> TriMin(Calc(e[2], val), Calc(e[3], val))
      [] e[1] = "or" -> TriMax(Calc(e[2], val), Calc(e[3], val))
      [] e[1] = "not" -> 2 - Calc(e[2], val)
      [] OTHER -> CompareSymbols(e[1], e[2], e[3], val)

-----------------------------------------------------------------------------
(* Simplification                                                          *)

RECURSIVE EliminateYN(_)
\* expr_eliminate_yn: y and n as operands of "and" and "or".
EliminateYN(e) ==
    LET absorbing == IF e[1] = "and" THEN No ELSE Yes
        neutral == IF e[1] = "and" THEN Yes ELSE No
        Of(l, r) == CASE l = absorbing -> absorbing
                      [] l = neutral -> r
                      [] r = absorbing -> absorbing
                      [] r = neutral -> l
                      [] OTHER -> <<e[1], l, r>>
    IN IF e[1] \notin Junctions THEN e ELSE Of(EliminateYN(e[2]), EliminateYN(e[3]))

RECURSIVE ElimEq1(_, _, _), Eq(_, _)

\* __expr_eliminate_eq: equal operands of the type's level become neutral in both
\* expressions. The result is the pair.
ElimEq1(type, e1, e2) ==
    CASE e1[1] = type ->
           LET a == ElimEq1(type, e1[2], e2)
               b == ElimEq1(type, e1[3], a[2])
           IN <<<<type, a[1], b[1]>>, b[2]>>
      [] e1[1] # type /\ e2[1] = type ->
           LET a == ElimEq1(type, e1, e2[2])
               b == ElimEq1(type, a[1], e2[3])
           IN <<b[1], <<type, a[2], b[2]>>>>
      [] OTHER ->
           IF (e1 = e2 /\ e1 \in {Yes, No}) \/ ~Eq(e1, e2) THEN <<e1, e2>>
           ELSE LET neutral == IF type = "or" THEN No ELSE Yes IN <<neutral, neutral>>

\* expr_eliminate_eq: operands common to both are removed from both.
EliminateEq(e1, e2) ==
    LET Level(type, p) == IF type \in Junctions THEN ElimEq1(type, p[1], p[2]) ELSE p
        Other(p) == IF p[1][1] = p[2][1] THEN p ELSE Level(p[2][1], p)
        Clean(p) == <<EliminateYN(p[1]), EliminateYN(p[2])>>
    IN IF Null \in {e1, e2} THEN <<e1, e2>> ELSE Clean(Other(Level(e1[1], <<e1, e2>>)))

\* expr_eq: equal up to the order of operands.
Eq(e1, e2) ==
    LET Same(p) == p[1][1] = "sym" /\ p[1] = p[2]
    IN CASE Null \in {e1, e2} -> IsYes(e1) /\ IsYes(e2)
         [] e1[1] # e2[1] -> FALSE
         [] e1[1] = "not" -> Eq(e1[2], e2[2])
         [] e1[1] \in Junctions -> Same(EliminateEq(e1, e2))
         [] OTHER -> e1 = e2

RECURSIVE TransBool(_)
\* expr_trans_bool: t != n becomes t.
TransBool(e) ==
    CASE e[1] \in Junctions -> <<e[1], TransBool(e[2]), TransBool(e[3])>>
      [] e[1] = "not" -> Not(TransBool(e[2]))
      [] e[1] = "!=" /\ SymType[e[2]] = "tristate" /\ e[3] = "n" -> Sym(e[2])
      [] OTHER -> e

RECURSIVE Transform(_)
\* expr_transform: tests of a bool against a constant, and negation inwards.
Transform(e) ==
    LET t == CASE e[1] \in Junctions -> <<e[1], Transform(e[2]), Transform(e[3])>>
               [] e[1] = "not" -> Not(Transform(e[2]))
               [] OTHER -> e
        a == t[2]
        Opposite == [op \in Comparisons |->
                       CASE op = "=" -> "!=" [] op = "!=" -> "=" [] op = "<=" -> ">"
                         [] op = ">=" -> "<" [] op = "<" -> ">=" [] op = ">" -> "<="]
        ofBool == t[1] \in {"=", "!="} /\ SymType[t[2]] = "bool"
    IN CASE ofBool /\ t[3] = "n" -> IF t[1] = "=" THEN Not(Sym(a)) ELSE Sym(a)
         [] ofBool /\ t[3] = "m" -> IF t[1] = "=" THEN No ELSE Yes
         [] ofBool /\ t[3] = "y" -> IF t[1] = "=" THEN Sym(a) ELSE Not(Sym(a))
         [] t[1] = "not" /\ a[1] = "not" -> Transform(a[2])
         [] t[1] = "not" /\ a[1] \in Comparisons -> <<Opposite[a[1]], a[2], a[3]>>
         [] t[1] = "not" /\ a[1] = "or" -> Transform(<<"and", Not(a[2]), Not(a[3])>>)
         [] t[1] = "not" /\ a[1] = "and" -> Transform(<<"or", Not(a[2]), Not(a[3])>>)
         [] t[1] = "not" /\ a = Yes -> No
         [] t[1] = "not" /\ a = Sym("m") -> a
         [] t[1] = "not" /\ a = No -> Yes
         [] OTHER -> t

\* The symbol two operands are tested for in expr_join_or and expr_join_and: the first
\* may be a negated comparison, the second only a negated symbol.
JoinSymbol(e, inner) ==
    CASE e[1] \in {"=", "!=", "sym"} -> e[2]
      [] e[1] = "not" /\ e[2][1] \in inner -> e[2][2]
      [] OTHER -> ""
Joinable(e1, e2) ==
    LET s == JoinSymbol(e1, {"=", "!=", "sym"})
    IN /\ s # "" /\ s = JoinSymbol(e2, {"sym"})
       /\ SymType[s] \in {"bool", "tristate"}

\* Mutant: the constants are not looked at.
BothTestAnything(e1, e2, op, consts) == e1[1] = op /\ e2[1] = op

\* Both operands compare the symbol by op, with the two constants in either order.
BothTest(e1, e2, op, consts) ==
    e1[1] = op /\ e2[1] = op /\ {e1[3], e2[3]} = consts
\* One is the bare symbol, the other compares it by op with c.
BareAnd(e1, e2, op, c) ==
    \/ e1[1] = "sym" /\ e2[1] = op /\ e2[3] = c
    \/ e2[1] = "sym" /\ e1[1] = op /\ e1[3] = c

\* expr_join_or: one operand for two of an "or", or Null.
JoinOr(e1, e2) ==
    LET s == JoinSymbol(e1, {"=", "!=", "sym"})
        tristate == SymType[s] = "tristate"
        isNot(e, f) == e[1] = "not" /\ e[2][1] = "sym" /\ f[1] = "sym"
    IN IF Eq(e1, e2) THEN e1
       ELSE IF ~Joinable(e1, e2) THEN Null
       ELSE
       CASE tristate /\ BothTest(e1, e2, "=", {"y", "m"}) -> <<"!=", s, "n">>
         [] tristate /\ BothTest(e1, e2, "=", {"y", "n"}) -> <<"!=", s, "m">>
         [] tristate /\ BothTest(e1, e2, "=", {"m", "n"}) -> <<"!=", s, "y">>
         [] ~tristate /\ (isNot(e1, e2) \/ isNot(e2, e1)) -> Yes
         [] OTHER -> Null

\* expr_join_and: the same for an "and".
JoinAnd(e1, e2) ==
    LET s == JoinSymbol(e1, {"=", "!=", "sym"})
        tristate == SymType[s] = "tristate"
        opposed(e, f) == /\ e[1] = "=" /\ f[1] = "!=" /\ {e[3], f[3]} \subseteq Consts
        ofEqual(e, f) == IF e[3] = f[3] THEN No ELSE <<"=", s, e[3]>>
    IN IF Eq(e1, e2) THEN e1
       ELSE IF ~Joinable(e1, e2) THEN Null
       ELSE
       CASE BareAnd(e1, e2, "=", "y") -> <<"=", s, "y">>
         [] BareAnd(e1, e2, "!=", "n") -> Sym(s)
         [] BareAnd(e1, e2, "!=", "m") -> <<"=", s, "y">>
         [] tristate /\ opposed(e1, e2) -> ofEqual(e1, e2)
         [] tristate /\ opposed(e2, e1) -> ofEqual(e2, e1)
         [] tristate /\ BothTest(e1, e2, "!=", {"y", "n"}) -> <<"=", s, "m">>
         [] tristate /\ BothTest(e1, e2, "!=", {"y", "m"}) -> <<"=", s, "n">>
         [] tristate /\ BothTest(e1, e2, "!=", {"m", "n"}) -> <<"=", s, "y">>
         [] OTHER -> Null

RECURSIVE At(_, _), Put(_, _, _), Dups1(_, _, _, _), EliminateDups(_)

\* The node at a path, and the tree with another node there.
At(t, path) == IF path = <<>> THEN t ELSE At(t[Head(path)], Tail(path))
Put(t, path, e) ==
    IF path = <<>> THEN e
    ELSE [t EXCEPT ![Head(path)] = Put(t[Head(path)], Tail(path), e)]

\* expr_eliminate_dups1: every pair of operands of one level, both in the tree d.tree.
\* d.joined is trans_count > 0.
\* f is one operand for the two at p1 and p2, or Null; u the state before.
PutJoined(u, f, p1, p2, rest) ==
    IF f = Null THEN u ELSE [tree |-> Put(Put(u.tree, p1, rest), p2, f), joined |-> TRUE]
JoinAt(type, u, p1, p2) ==
    IF type = "or" THEN PutJoined(u, JoinOr(At(u.tree, p1), At(u.tree, p2)), p1, p2, No)
    ELSE PutJoined(u, JoinAnd(At(u.tree, p1), At(u.tree, p2)), p1, p2, Yes)
Dups1(type, d, p1, p2) ==
    LET e1 == At(d.tree, p1)
        e2 == At(d.tree, p2)
    IN CASE e1[1] = type ->
              Dups1(type, Dups1(type, d, Append(p1, 2), p2), Append(p1, 3), p2)
         [] e1[1] # type /\ e2[1] = type ->
              Dups1(type, Dups1(type, d, p1, Append(p2, 2)), p1, Append(p2, 3))
         [] OTHER ->
              IF p1 = p2 THEN d
              ELSE JoinAt(type, IF e1[1] \in Junctions THEN Dups1(e1[1], d, p1, p1) ELSE d, p1, p2)

\* expr_eliminate_dups: until a pass joins nothing.
EliminateDups(e) ==
    LET Again(d) == IF d.joined THEN EliminateDups(EliminateYN(d.tree)) ELSE d.tree
    IN IF e[1] \notin Junctions THEN e
       ELSE Again(Dups1(e[1], [tree |-> e, joined |-> FALSE], <<>>, <<>>))

-----------------------------------------------------------------------------
(* What the menus ask of a condition (menu.c menu_finalize)                *)

RECURSIVE RewriteM(_, _), ContainsSymbol(_, _), DependsSymbol(_, _), TransCompare(_, _, _)

\* rewrite_m: a literal m counts only with modules.
RewriteM(e, modules) ==
    CASE e[1] \in Junctions -> <<e[1], RewriteM(e[2], modules), RewriteM(e[3], modules)>>
      [] e[1] = "not" -> Not(RewriteM(e[2], modules))
      [] e = Sym("m") -> AllocAnd(e, Sym(modules))
      [] OTHER -> e

\* expr_contains_symbol.
ContainsSymbol(e, s) ==
    CASE e[1] \in Junctions -> ContainsSymbol(e[2], s) \/ ContainsSymbol(e[3], s)
      [] e[1] = "not" -> ContainsSymbol(e[2], s)
      [] e[1] = "sym" -> e[2] = s
      [] e[1] \in Comparisons -> s \in {e[2], e[3]}
      [] OTHER -> FALSE

\* expr_depends_symbol: e cannot hold while s is n, as far as this looks.
DependsSymbol(e, s) ==
    \/ e[1] = "and" /\ (DependsSymbol(e[2], s) \/ DependsSymbol(e[3], s))
    \/ e = Sym(s)
    \/ e \in {<<"=", s, "y">>, <<"=", s, "m">>, <<"!=", s, "n">>}

\* expr_trans_compare: the comparison of e with the constant c, by "=" or "!=".
TransCompare(e, type, c) ==
    LET Negate(f) == IF type = "!=" THEN Not(f) ELSE f
        dual == IF e[1] = "and" THEN "or" ELSE "and"
        operand(i) == TransCompare(e[i], "=", c)
        junction == CASE c = "y" -> Negate(<<e[1], operand(2), operand(3)>>)
                      [] c = "n" -> Negate(<<dual, operand(2), operand(3)>>)
                      [] OTHER -> Negate(e)
        comparison == CASE c = "y" -> Negate(e)
                        [] c = "m" -> IF type = "=" THEN No ELSE Yes
                        [] c = "n" -> IF type = "=" THEN Not(e) ELSE e
    IN CASE e = Null -> Negate(Sym(c))
         [] e[1] \in Junctions -> junction
         [] e[1] = "not" -> TransCompare(e[2], IF type = "=" THEN "!=" ELSE "=", c)
         [] e[1] \in Comparisons -> comparison
         [] OTHER -> <<type, e[2], c>>

=============================================================================
