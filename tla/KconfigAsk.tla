---------------------------- MODULE KconfigAsk ----------------------------
(***************************************************************************)
(* The question and answer front end                                       *)
(* (src/simulators/npc/tools/kconfig/conf.c): which symbols it asks for,   *)
(* in which order, and what it does with the answers.                      *)
(*                                                                         *)
(* ans is the user: ans.tri[s] and ans.str[s] are the values wanted for s, *)
(* ans.pick[c] the value wanted of choice c. A wish that is not allowed is *)
(* refused and asked again, until the user takes what is offered. w is the *)
(* run: the symbols v, conf_cnt, rootEntry, and the input mode.            *)
(***************************************************************************)
EXTENDS KconfigFiles

RECURSIVE menu_is_visible(_, _, _), AnyVisible(_, _, _)

\* menu_is_visible (menu.c): the answer and the symbols. A symbol that is only there for
\* its children counts as set.
AnyOf(k, r, list) == IF r[1] THEN r ELSE AnyVisible(k, r[2], list)
AnyVisible(k, v, list) ==
    IF list = <<>> THEN <<FALSE, v>> ELSE AnyOf(k, menu_is_visible(k, v, Head(list)), Tail(list))
VisibleBelow(k, n, r) ==
    LET Counted(b) == IF b[1] THEN <<TRUE, [b[2] EXCEPT !.set["user"] = @ \cup {n.sym}]>> ELSE b
    IN IF r[1] # 0 THEN <<TRUE, r[2]>>
       ELSE IF n.sym = "" THEN <<FALSE, r[2]>>
       ELSE IF r[2].tri[n.sym] = 0 THEN <<FALSE, r[2]>>
       ELSE Counted(AnyVisible(k, r[2], Siblings(k, n.list)))
VisibleWithin(k, n, r) ==
    LET OfSymbol(u) == <<u.shown[n.prompt], u>>
    IN IF r[1] = 0 THEN <<FALSE, r[2]>>
       ELSE VisibleBelow(k, n, IF n.sym = "" THEN ExprValue(k, r[2], k.prop[n.prompt].cond)
                               ELSE OfSymbol(sym_calc_value(k, r[2], n.sym)))
menu_is_visible(k, v, m) ==
    LET n == k.node[m]
    IN IF n.prompt = 0 THEN <<FALSE, v>> ELSE VisibleWithin(k, n, ExprValue(k, v, n.visibility))

\* conf_askvalue: is the user asked?
Asks(w, s) == sym_is_changeable(w.v, s) /\ (w.mode = "oldaskconfig" \/ ~HasValue(w.v, s))

conf_sym(k, w, s, ans) ==
    LET Taken(x) == IF CanSetTri(k, w.v, s, x) THEN x ELSE w.v.tri[s]
    IN IF ~Asks(w, s) THEN w
       ELSE [w EXCEPT !.v = sym_set_tristate_value(k, @, s, Taken(ans.tri[s]))]

conf_string(k, w, s, ans) ==
    LET Taken(allowed) == CHOOSE t \in allowed : \/ t[1] = ans.str[s]
                                                 \/ \A u \in allowed : u[1] # ans.str[s]
        Set(t) == [w EXCEPT !.v = sym_set_string_value(k, t[2][2], s, t[1])]
    IN IF ~Asks(w, s) THEN w
       ELSE Set(Taken({t \in {<<x, sym_string_within_range(k, w.v, s, x)>> :
                                  x \in DOMAIN Number \cup {ans.str[s]}} : t[2][1]}))

RECURSIVE ShownOf(_, _, _)
\* The entries under m that are shown, and the symbols.
ShownToo(k, a, c) ==
    LET Add(r) == <<IF r[1] /\ k.node[c].sym # "" THEN Append(a[1], c) ELSE a[1], r[2]>>
    IN Add(menu_is_visible(k, a[2], c))
ShownOf(k, a, c) ==
    IF c = 0 THEN a ELSE ShownOf(k, ShownToo(k, a, c), k.node[c].next)
ShownUnder(k, v, m) == ShownOf(k, <<<<>>, v>>, k.node[m].list)

RECURSIVE ask(_, _, _, _, _), AskList(_, _, _, _, _)

\* conf (all) or check_conf (not all) of entry m and of those that follow it.
AskList(k, w, m, all, ans) ==
    IF m = 0 THEN w ELSE AskList(k, ask(k, w, m, all, ans), k.node[m].next, all, ans)

\* conf_choice: the mode of the choice, then one of its values, then what is under that.
\* The result is the run and the entry whose list comes next.
SetYes(k, v, s) == IF CanSetTri(k, v, s, 2) THEN sym_set_tristate_value(k, v, s, 2) ELSE v
AskChoice(k, w, c, asks, shown, ans) ==
    LET SymOf(n) == k.node[n].sym
        wanted == IF asks /\ \E n \in Range(shown[1]) : SymOf(n) = ans.pick[c]
                  THEN ans.pick[c] ELSE w.v.val[c]
        child == IF Len(shown[1]) = 1 THEN shown[1][1]
                 ELSE CHOOSE n \in Range(shown[1]) : SymOf(n) = wanted
    IN <<[w EXCEPT !.v = SetYes(k, shown[2], SymOf(child))], k.node[child].list>>
AskIfYes(k, w, m, c, asks, ans) ==
    IF w.v.tri[c] # 2 THEN <<w, IF w.v.tri[c] = 1 THEN k.node[m].list ELSE 0>>
    ELSE AskChoice(k, w, c, asks, ShownUnder(k, w.v, m), ans)
conf_choice(k, w, m, ans) ==
    LET c == k.node[m].sym
        Mode(x) == [x EXCEPT !.v = sym_calc_value(k, @, c)]
    IN AskIfYes(k, IF sym_is_changeable(w.v, c) THEN Mode(conf_sym(k, w, c, ans)) ELSE w, m, c,
                w.mode = "oldaskconfig" \/ ~HasValue(w.v, c), ans)

AskEntry(k, w, m, ans) ==
    LET s == k.node[m].sym
    IN CASE s = "" -> <<w, k.node[m].list>>
         [] s # "" /\ IsChoice(k, s) -> conf_choice(k, w, m, ans)
         [] s # "" /\ SymType[s] \in {"int", "string"} ->
              <<conf_string(k, w, s, ans), k.node[m].list>>
         [] OTHER -> <<conf_sym(k, w, s, ans), k.node[m].list>>

RECURSIVE MenuOver(_, _)
\* menu_get_parent_menu
MenuOver(k, m) ==
    IF m = Root THEN m
    ELSE IF k.node[m].prompt = 0 THEN MenuOver(k, k.node[m].parent)
    ELSE IF k.prop[k.node[m].prompt].type = "menu" THEN m ELSE MenuOver(k, k.node[m].parent)

\* check_conf: the menu of a new symbol is gone through again.
IsNew(k, v, s) == /\ s # "" /\ ~HasValue(v, s)
                  /\ sym_is_changeable(v, s) \/ (IsChoice(k, s) /\ v.tri[s] = 2)
CheckEntry(k, w, m, ans) ==
    LET top == MenuOver(k, m)
    IN IF k.node[m].sym = "" THEN w
       ELSE IF IsNew(k, w.v, k.node[m].sym)
       THEN ask(k, [w EXCEPT !.cnt = @ + 1, !.root = top], top, TRUE, ans) ELSE w

\* conf of an entry that is shown: of a menu that is not the one gone through only what is
\* new is asked.
AskShown(k, w, m, all, ans) ==
    LET closed == k.prop[k.node[m].prompt].type = "menu" /\ w.mode # "oldaskconfig" /\ w.root # m
        Asked(r) == AskList(k, r[1], r[2], all, ans)
    IN IF all /\ closed THEN ask(k, w, m, FALSE, ans)
       ELSE Asked(IF all THEN AskEntry(k, w, m, ans)
                  ELSE <<CheckEntry(k, w, m, ans), k.node[m].list>>)
AskIfShown(k, w, r, m, all, ans) ==
    IF r[1] THEN AskShown(k, [w EXCEPT !.v = r[2]], m, all, ans) ELSE [w EXCEPT !.v = r[2]]
ask(k, w, m, all, ans) == AskIfShown(k, w, menu_is_visible(k, w.v, m), m, all, ans)

RECURSIVE Update(_, _, _)
\* The loop of main: oldaskconfig goes through everything first, and then, as the others, asks
\* for what is new until a pass finds nothing.
UpdateMore(k, w, ans) ==
    IF w.mode = "oldaskconfig" THEN Update(k, [w EXCEPT !.mode = "oldconfig"], ans)
    ELSE IF w.cnt = 0 THEN w.v ELSE Update(k, w, ans)
Update(k, w, ans) ==
    UpdateMore(k, ask(k, [w EXCEPT !.cnt = 0], Root, w.mode = "oldaskconfig", ans), ans)

\* main: what a run of conf makes of the symbols it has read.
Modes == {"oldaskconfig", "oldconfig", "syncconfig", "olddefconfig", "savedefconfig",
          "allnoconfig", "allyesconfig", "allmodconfig", "alldefconfig", "defconfig",
          "yes2modconfig", "mod2yesconfig", "listnewconfig"}
Reads(mode) == mode \notin {"allnoconfig", "allyesconfig", "allmodconfig", "alldefconfig"}
Asking(mode) == mode \in {"oldaskconfig", "oldconfig", "syncconfig"}
InitialSymbols(k, disk, mode) ==
    IF ~Reads(mode) THEN NewSymbols(k)
    ELSE conf_read(k, NewSymbols(k),
                   IF mode = "defconfig" THEN [disk EXCEPT ![".config"] = disk["defconfig"]]
                   ELSE disk)
SetAll(k, v, mode) ==
    CASE mode = "yes2modconfig" -> conf_rewrite_mod_or_yes(k, v, 2, 1)
      [] mode = "mod2yesconfig" -> conf_rewrite_mod_or_yes(k, v, 1, 2)
      [] OTHER -> conf_set_all_new_symbols(k, v,
                     CASE mode = "allnoconfig" -> "no" [] mode = "allyesconfig" -> "yes"
                       [] mode = "allmodconfig" -> "mod" [] OTHER -> "default")
SetUp(k, v, mode, ans) ==
    CASE Asking(mode) -> Update(k, [v |-> v, cnt |-> 0, root |-> Root, mode |-> mode], ans)
      [] mode \in {"olddefconfig", "savedefconfig", "listnewconfig"} -> v
      [] OTHER -> SetAll(k, v, mode)
Configured(k, disk, mode, ans) == SetUp(k, InitialSymbols(k, disk, mode), mode, ans)

=============================================================================
