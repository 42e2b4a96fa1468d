-------------------------- MODULE KconfigSymbols --------------------------
(***************************************************************************)
(* The values of the configuration symbols                                 *)
(* (src/simulators/npc/tools/kconfig/symbol.c): what the user set, what    *)
(* follows from it, and when it is calculated. A value is calculated when  *)
(* somebody asks for it and kept until sym_clear_all_valid, so that every  *)
(* operator that reads a value also yields the symbols' new state.         *)
(*                                                                         *)
(* v is the state of all symbols in a running tool:                        *)
(*   valid, write, need   sets: SYMBOL_VALID, SYMBOL_WRITE,                *)
(*                        SYMBOL_NEED_SET_CHOICE_VALUES                    *)
(*   tri, val             curr: no, mod, yes as 0, 1, 2, and the string,   *)
(*                        or for a choice the chosen symbol                *)
(*   set, dtri, dval      the symbols with SYMBOL_DEF_USER or              *)
(*                        SYMBOL_DEF_AUTO, and def[]: functions of "user"  *)
(*                        and "auto"                                       *)
(*   visible, dir, rev, imp   the values of the prompts and dependencies   *)
(*   shown                prop.visible.tri of every property               *)
(*   modules_val, changed     modules_val, sym_change_count # 0            *)
(*   reentered            ghost: the symbols that were given, as the       *)
(*                        user's, the text that was in def[] already, and  *)
(*                        were not calculated again                        *)
(***************************************************************************)
EXTENDS KconfigMenu

No3 == [s \in Symbols |-> 0]
\* The symbols after the parser: nothing is calculated.
NewSymbols(k) ==
    [valid |-> {"y", "m", "n"}, write |-> {}, need |-> {},
     tri |-> [s \in Symbols |-> IF s \in {"y", "m", "n"} THEN Tri(s) ELSE 0],
     val |-> [s \in Symbols |-> IF s \in {"y", "m", "n"} THEN s ELSE ""],
     set |-> [d \in {"user", "auto"} |-> {}],
     dtri |-> [d \in {"user", "auto"} |-> No3],
     dval |-> [d \in {"user", "auto"} |-> [s \in Symbols |-> ""]],
     visible |-> No3, dir |-> No3, rev |-> No3, imp |-> No3,
     shown |-> [i \in DOMAIN k.prop |-> 0], modules_val |-> 0, changed |-> TRUE,
     reentered |-> {}]

Logic(s) == SymType[s] \in {"bool", "tristate"}
HasValue(v, s) == s \in v.set["user"]
Raise(x) == IF x = 1 THEN 2 ELSE x
sym_get_type(k, v, s) ==
    IF /\ SymType[s] = "tristate"
       /\ (IsChoiceValue(k, s) /\ v.visible[s] = 2) \/ v.modules_val = 0
    THEN "bool" ELSE SymType[s]
IsBool(k, v, s) == sym_get_type(k, v, s) = "bool"

PropsOf(k, s, types) == SelectSeq([i \in DOMAIN k.prop |-> i],
                                  LAMBDA i : k.prop[i].sym = s /\ k.prop[i].type \in types)

\* sym_get_string_value, for values that are calculated.
TriName(x) == <<"n", "m", "y">>[x + 1]
StringValue(k, v, s) ==
    IF Logic(s) THEN TriName(IF v.tri[s] = 1 /\ v.tri[k.modules_sym] = 0 THEN 0 ELSE v.tri[s])
    ELSE v.val[s]

\* sprintf of a number.
Digits(n) == CHOOSE str \in DOMAIN Number : Number[str] = n

RECURSIVE sym_calc_value(_, _, _), ExprValue(_, _, _), FirstProp(_, _, _), CalcAll(_, _, _),
          Prompts(_, _, _, _), Visibilities(_, _, _)

\* Symbols, one after the other.
CalcAll(k, v, syms) ==
    CASE syms = <<>> -> v
      [] syms # <<>> /\ Head(syms) \in v.valid -> CalcAll(k, v, Tail(syms))
      [] OTHER -> CalcAll(k, sym_calc_value(k, v, Head(syms)), Tail(syms))

\* expr_calc_value: the value and the symbols after it. Both operands are calculated.
OperandsValue(k, e, u) ==
    <<IF e[1] = "sym" THEN u.tri[e[2]]
      ELSE CompareSymbols(e[1], e[2], e[3], [s \in {e[2], e[3]} |-> StringValue(k, u, s)]), u>>
JunctionValue(k, e, a) ==
    LET With(b) == <<IF e[1] = "and" THEN TriMin(a[1], b[1]) ELSE TriMax(a[1], b[1]), b[2]>>
    IN With(ExprValue(k, a[2], e[3]))
ExprValue(k, v, e) ==
    LET Negation(a) == <<2 - a[1], a[2]>>
    IN CASE e = Null -> <<2, v>>
         [] e[1] = "not" -> Negation(ExprValue(k, v, e[2]))
         [] e[1] \in Junctions -> JunctionValue(k, e, ExprValue(k, v, e[2]))
         [] OTHER -> OperandsValue(k, e, CalcAll(k, v, Tail(e)))

\* sym_get_default_prop, sym_get_range_prop: the first of the properties whose condition is
\* not n: [prop, tri, v], prop 0 if there is none. r is the value of the first condition.
FirstIf(k, r, props) ==
    IF r[1] # 0 THEN [prop |-> Head(props), tri |-> r[1], v |-> r[2]]
    ELSE FirstProp(k, r[2], Tail(props))
FirstProp(k, v, props) ==
    IF props = <<>> THEN [prop |-> 0, tri |-> 0, v |-> v]
    ELSE FirstIf(k, ExprValue(k, v, k.prop[Head(props)].cond), props)

\* sym_calc_visibility: the prompts, then the dependencies, which a choice's value leaves out.
Prompt(k, a, s, i) ==
    LET Hidden(r) == /\ IsChoiceValue(k, s) /\ SymType[s] = "tristate" /\ r[1] = 1
                     /\ r[2].tri[ChoiceOf(k, s)] = 2
        Note(x, u) == <<TriMax(a[1], x), [u EXCEPT !.shown[i] = x]>>
        Seen(r) == Note(IF Hidden(r) THEN 0 ELSE r[1], r[2])
    IN Seen(ExprValue(k, a[2], k.prop[i].cond))
Prompts(k, a, s, props) ==
    IF props = <<>> THEN a ELSE Prompts(k, Prompt(k, a, s, Head(props)), s, Tail(props))
DepValue(k, v, e) == IF e = Null THEN <<0, v>> ELSE ExprValue(k, v, e)
Dependencies(k, v, s) ==
    LET Of(r) == IF IsBool(k, r[2], s) THEN Raise(r[1]) ELSE r[1]
        Dir(r) == [r[2] EXCEPT !.dir[s] = Of(r)]
        Rev(r) == [r[2] EXCEPT !.rev[s] = Of(r)]
        Imp(r) == [r[2] EXCEPT !.imp[s] = Of(r)]
    IN IF IsChoiceValue(k, s) THEN v
       ELSE Imp(DepValue(k, Rev(DepValue(k, Dir(ExprValue(k, v, k.dir_dep[s])), k.rev_dep[s])),
                         k.implied[s]))
sym_calc_visibility(k, v, s) ==
    LET Visible(p) == [p[2] EXCEPT !.visible[s] =
                          IF SymType[s] # "tristate" \/ p[2].modules_val = 0 THEN Raise(p[1]) ELSE p[1]]
    IN Dependencies(k, Visible(Prompts(k, <<0, v>>, s, PropsOf(k, s, {"prompt", "menu", "comment"}))), s)

Visibilities(k, v, syms) ==
    IF syms = <<>> THEN v ELSE Visibilities(k, sym_calc_visibility(k, v, Head(syms)), Tail(syms))

\* sym_choice_default: the value and the symbols; "" is NULL.
RECURSIVE DefaultOf(_, _, _, _)
DefaultIf(k, r, c, props) ==
    LET s == k.prop[Head(props)].expr[2]
    IN IF r[1] # 0 /\ r[2].visible[s] # 0 THEN <<s, r[2]>> ELSE DefaultOf(k, r[2], c, Tail(props))
DefaultOf(k, v, c, props) ==
    LET FirstSeen(seen) == <<IF seen = <<>> THEN "" ELSE Head(seen), v>>
    IN IF props = <<>> THEN FirstSeen(SelectSeq(Members(k, c), LAMBDA s : v.visible[s] # 0))
       ELSE DefaultIf(k, ExprValue(k, v, k.prop[Head(props)].cond), c, props)
sym_choice_default(k, v, c) == DefaultOf(k, v, c, PropsOf(k, c, {"default"}))

\* sym_calc_choice: the choice is the user's only if all its visible values are.
PickValue(k, v, c) ==
    LET chosen == v.dval["user"][c]
        Default(d) == [d[2] EXCEPT !.val[c] = d[1], !.tri[c] = IF d[1] = "" THEN 0 ELSE @]
    IN IF chosen # "" /\ v.visible[IF chosen = "" THEN c ELSE chosen] # 0
       THEN [v EXCEPT !.val[c] = chosen] ELSE Default(sym_choice_default(k, v, c))
sym_calc_choice(k, v, c) ==
    LET IsNew(u) == \E s \in Range(Members(k, c)) : u.visible[s] # 0 /\ ~HasValue(u, s)
        Checked(u) == IF IsNew(u) THEN [u EXCEPT !.set["user"] = @ \ {c}] ELSE u
    IN PickValue(k, Checked(Visibilities(k, v, Members(k, c))), c)

\* sym_validate_range: x is the value, r the property of its range.
Limit(k, v, s, x, range) ==
    LET To(u, n) == [u EXCEPT !.val[s] = Digits(IntOf(u.val[n]))]
        High(u) == IF x <= IntOf(u.val[range[2]]) THEN u ELSE To(u, range[2])
    IN IF x < IntOf(v.val[range[1]]) THEN To(v, range[1]) ELSE High(sym_calc_value(k, v, range[2]))
LimitBy(k, r, s, x) ==
    LET range == k.prop[r.prop].expr
    IN IF r.prop = 0 THEN r.v ELSE Limit(k, sym_calc_value(k, r.v, range[1]), s, x, range)
sym_validate_range(k, v, s) ==
    IF SymType[s] # "int" THEN v
    ELSE LimitBy(k, FirstProp(k, v, PropsOf(k, s, {"range"})), s, IntOf(v.val[s]))

\* set_all_choice_values (confdata.c): the values nobody set are n, and the choice is set.
set_all_choice_values(k, v, c) ==
    LET open == {s \in Range(Members(k, c)) : ~HasValue(v, s)}
    IN [v EXCEPT !.dtri["user"] = [s \in open |-> 0] @@ @,
                 !.set["user"] = @ \cup {c}, !.valid = @ \ {c}, !.need = @ \ {c}]

\* The value of the default d, if there is one: of a bool or tristate, of an int or string.
TriDefault(k, d) ==
    LET Least(e) == <<TriMin(e[1], d.tri), e[2]>>
    IN IF d.prop = 0 THEN <<0, d.v>> ELSE Least(ExprValue(k, d.v, k.prop[d.prop].expr))
TextDefault(k, d) ==
    LET source == k.prop[d.prop].expr[2]
        Text(u) == <<u.val[source], u>>
    IN IF d.prop = 0 THEN <<"", d.v>> ELSE Text(sym_calc_value(k, d.v, source))

DefaultValue(k, d, s) == IF Logic(s) THEN TriDefault(k, d) ELSE TextDefault(k, d)

\* Mutant: what is implied is not limited by the dependencies.
DefaultTriUnlimited(k, v, s) ==
    LET Imply(a, u) == TriMax(a, u.imp[s])
        Written(a, u) == [u EXCEPT !.write = @ \cup {s}]
        Value(a) == <<Imply(a[1], a[2]), Written(a[1], a[2])>>
    IN Value(TriDefault(k, FirstProp(k, v, PropsOf(k, s, {"default"}))))

\* The default of a bool or tristate that is no choice, with what implies it.
DefaultTri(k, v, s) ==
    LET Imply(a, u) == IF u.imp[s] = 0 THEN a ELSE TriMin(TriMax(a, u.imp[s]), u.dir[s])
        Written(a, u) == IF a # 0 \/ u.imp[s] # 0 THEN [u EXCEPT !.write = @ \cup {s}] ELSE u
        Value(a) == <<Imply(a[1], a[2]), Written(a[1], a[2])>>
    IN Value(TriDefault(k, FirstProp(k, v, PropsOf(k, s, {"default"}))))

\* The new value of a bool or tristate.
CalcTri(k, v, s) ==
    LET byUser == v.visible[s] # 0 /\ HasValue(v, s)
        selected == IF v.rev[s] = 0 THEN v ELSE [v EXCEPT !.write = @ \cup {s}]
        Select(a) == <<TriMax(a[1], a[2].rev[s]), a[2]>>
        Set(x) == [x[2] EXCEPT !.tri[s] = IF IsBool(k, x[2], s) THEN Raise(x[1]) ELSE x[1]]
    IN IF IsChoiceValue(k, s) /\ v.visible[s] = 2
       THEN Set(<<IF v.val[ChoiceOf(k, s)] = s THEN 2 ELSE 0, v>>)
       ELSE Set(Select(CASE byUser -> <<TriMin(v.dtri["user"][s], v.visible[s]), v>>
                         [] ~byUser /\ IsChoice(k, s) -> <<0, selected>>
                         [] OTHER -> DefaultTri(k, selected, s)))

\* The new value of an int or a string.
CalcString(k, v, s) ==
    LET Marked(d) == IF d.prop = 0 THEN d ELSE [d EXCEPT !.v.write = @ \cup {s}]
        Copy(text) == [text[2] EXCEPT !.val[s] = text[1]]
    IN IF v.visible[s] # 0 /\ HasValue(v, s) THEN [v EXCEPT !.val[s] = v.dval["user"][s]]
       ELSE Copy(TextDefault(k, Marked(FirstProp(k, v, PropsOf(k, s, {"default"})))))

\* What follows a new value: a choice picks one of its values, the range is applied, and the
\* modules symbol turns the tristates on or off.
AfterValue(k, v, s) ==
    LET Modules(u) == IF s = k.modules_sym THEN [u EXCEPT !.modules_val = u.tri[s]] ELSE u
        shown(u) == IF IsChoice(k, s) /\ s \in u.write
                    THEN {x \in Range(Members(k, s)) : u.visible[x] # 0} ELSE {}
        internal == IF "no_write" \in k.flags[s] THEN {s} ELSE {}
        Written(u) == [u EXCEPT !.write = (@ \cup shown(u)) \ internal]
        Rest(u) == IF s \in u.need THEN set_all_choice_values(k, u, s) ELSE u
    IN Rest(Written(Modules(sym_validate_range(k,
               IF IsChoice(k, s) /\ v.tri[s] = 2 THEN sym_calc_choice(k, v, s) ELSE v, s))))

NewValue(k, v, s) == IF Logic(s) THEN CalcTri(k, v, s) ELSE CalcString(k, v, s)
Calculate(k, v, s) ==
    LET Reset(u) == [u EXCEPT !.write = IF u.visible[s] # 0 THEN @ \cup {s} ELSE @,
                              !.tri[s] = 0, !.val[s] = IF Logic(s) THEN "n" ELSE ""]
    IN IF SymType[s] = "unknown" THEN [v EXCEPT !.val[s] = s, !.tri[s] = 0]
       ELSE AfterValue(k, NewValue(k, Reset(sym_calc_visibility(k, [v EXCEPT !.write = @ \ {s}], s)),
                                   s), s)
sym_calc_value(k, v, s) ==
    LET Marked(u) == [u EXCEPT !.valid = @ \cup {s}]
    IN IF s \in v.valid THEN v
       ELSE Calculate(k, Marked(IF IsChoiceValue(k, s) /\ s \in v.need
                                THEN sym_calc_value(k, [v EXCEPT !.need = @ \ {s}], ChoiceOf(k, s))
                                ELSE v), s)

-----------------------------------------------------------------------------
(* Setting values                                                          *)

sym_clear_all_valid(k, v) ==
    sym_calc_value(k, [v EXCEPT !.valid = {"y", "m", "n"}, !.changed = TRUE, !.reentered = {}],
                   k.modules_sym)

sym_is_changeable(v, s) == v.visible[s] > v.rev[s]

sym_tristate_within_range(k, v, s, x) ==
    /\ Logic(s) /\ v.visible[s] # 0
    /\ ~(IsBool(k, v, s) /\ x = 1)
    /\ v.visible[s] > v.rev[s]
    /\ IF IsChoiceValue(k, s) /\ v.visible[s] = 2 THEN x = 2
       ELSE v.rev[s] <= x /\ x <= v.visible[s]

CanSetTri(k, v, s, x) == v.tri[s] = x \/ sym_tristate_within_range(k, v, s, x)
sym_set_tristate_value(k, v, s, x) ==
    LET chosen == IsChoiceValue(k, s) /\ x = 2
        c == IF chosen THEN ChoiceOf(k, s) ELSE s
        group == IF chosen THEN {c} \cup {m \in Range(Members(k, c)) : v.visible[m] # 0} ELSE {}
        a == [v EXCEPT !.set["user"] = @ \cup {s} \cup group,
                       !.dval["user"][c] = IF chosen THEN s ELSE @,
                       !.dtri["user"][s] = x]
    IN IF v.tri[s] = x THEN a ELSE sym_clear_all_valid(k, a)

\* sym_toggle_tristate_value: the next value that is allowed.
sym_toggle_tristate_value(k, v, s) ==
    LET Next1(x) == (x + 1) % 3
        Second(x) == IF CanSetTri(k, v, s, x) THEN x ELSE v.tri[s]
        First(x) == IF CanSetTri(k, v, s, x) THEN x ELSE Second(Next1(x))
    IN sym_set_tristate_value(k, v, s, First(Next1(v.tri[s])))

\* sym_string_valid, sym_string_within_range: whether an int or string may have a value, and
\* the symbols.
InRange(k, r, str) ==
    LET range == k.prop[r.prop].expr
        Within(u) == <<IntOf(u.val[range[1]]) <= IntOf(str) /\ IntOf(str) <= IntOf(u.val[range[2]]), u>>
    IN IF r.prop = 0 THEN <<TRUE, r.v>> ELSE Within(CalcAll(k, r.v, range))
sym_string_within_range(k, v, s, str) ==
    CASE SymType[s] = "string" -> <<TRUE, v>>
      [] SymType[s] = "int" /\ str \notin DOMAIN Number -> <<FALSE, v>>
      [] OTHER -> InRange(k, FirstProp(k, v, PropsOf(k, s, {"range"})), str)

\* Mutant: only its own value is calculated again.
SetStringAlone(k, v, s, str) ==
    [v EXCEPT !.set["user"] = @ \cup {s}, !.dval["user"][s] = str, !.valid = @ \ {s},
              !.changed = TRUE]

\* sym_set_string_value for an int or a string, once its value is allowed. Only def[] is
\* compared: it may hold the text of a symbol that is not the user's any more (conf_read).
sym_set_string_value(k, v, s, str) ==
    LET a == [v EXCEPT !.set["user"] = @ \cup {s}, !.dval["user"][s] = str]
        again == IF HasValue(v, s) \/ v.val[s] = str THEN {} ELSE {s}
    IN IF v.dval["user"][s] = str THEN [a EXCEPT !.reentered = @ \cup again]
       ELSE sym_clear_all_valid(k, a)

PlainDefault(k, v, s) ==
    DefaultValue(k, FirstProp(k, sym_calc_value(k, sym_calc_visibility(k, v, s), k.modules_sym),
                              PropsOf(k, s, {"default"})), s)

\* Mutant: what implies the symbol is left out.
DefaultUnimplied(k, v, s) ==
    LET Raised(x) == IF SymType[s] = "bool" THEN Raise(x) ELSE x
        Implied(x, u) == Raised(TriMax(x, u.rev[s]))
        Named(a) == IF Logic(s) THEN <<TriName(Implied(a[1], a[2])), a[2]>> ELSE a
    IN Named(PlainDefault(k, v, s))

\* sym_get_string_default: what the symbol would be had the user not set it.
sym_get_string_default(k, v, s) ==
    LET One(u) == \/ ~IsChoiceValue(k, s) /\ u.tri[k.modules_sym] = 0
                  \/ SymType[s] = "bool"
        Raised(x, u) == IF One(u) THEN Raise(x) ELSE x
        Implied(x, u) == TriMax(Raised(TriMax(x, u.rev[s]), u), u.imp[s])
        Named(a) == IF Logic(s) THEN <<TriName(Implied(a[1], a[2])), a[2]>> ELSE a
    IN Named(PlainDefault(k, v, s))

=============================================================================
