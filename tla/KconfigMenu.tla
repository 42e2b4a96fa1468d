---------------------------- MODULE KconfigMenu ----------------------------
(***************************************************************************)
(* From a Kconfig file to the menu tree of the configuration tool          *)
(* (src/simulators/npc/tools/kconfig/menu.c; the recursion check is in     *)
(* symbol.c).                                                              *)
(*                                                                         *)
(* A file is the sequence of the statements its parser acts on; k is all   *)
(* that the parser and menu_finalize build: the nodes (struct menu), the   *)
(* properties (struct property, in the order they are added, so that a     *)
(* symbol's list is the ones of its nodes), and what a symbol has beside   *)
(* its value. Node 1 is rootmenu, 0 is NULL, and "" is no symbol. The type *)
(* of a symbol is SymType from the start: choices state theirs.            *)
(***************************************************************************)
EXTENDS KconfigExpr, FiniteSets, FiniteSetsExt, SequencesExt

Order == FoldSet(LAMBDA s, q : Append(q, s), <<>>, Symbols)   \* for_all_symbols: the hash table
Root == 1
NewNode(s, parent) == [sym |-> s, parent |-> parent, next |-> 0, list |-> 0,
                       prompt |-> 0, visibility |-> Null, dep |-> Null]

\* _menu_init. flags: choice, choiceval, optional, no_write, allnoconfig_y.
_menu_init ==
    LET none == [s \in Symbols |-> Null]
    IN [node |-> <<NewNode("", 0)>>, prop |-> <<>>,
        flags |-> [s \in Symbols |-> {}],
        dir_dep |-> none, rev_dep |-> none, implied |-> none,
        modules_sym |-> "n", defconfig_list |-> "",
        current_entry |-> Root, current_menu |-> Root, last_entry |-> <<Root, "list">>]

-----------------------------------------------------------------------------
(* What the parser calls                                                   *)

menu_add_prop(k, type, expr, cond) ==
    [k EXCEPT !.prop = Append(@, [type |-> type, menu |-> k.current_entry,
                                  sym |-> k.node[k.current_entry].sym,
                                  expr |-> expr, cond |-> cond])]

menu_add_entry(k, s) ==
    LET m == Len(k.node) + 1
        p == k.last_entry
        a == [k EXCEPT !.node = Append([@ EXCEPT ![p[1]][p[2]] = m], NewNode(s, k.current_menu)),
                       !.last_entry = <<m, "next">>, !.current_entry = m]
    IN IF s = "" THEN a ELSE menu_add_prop(a, "symbol", Sym(s), Null)

menu_add_menu(k) ==
    [k EXCEPT !.last_entry = <<k.current_entry, "list">>, !.current_menu = k.current_entry]
menu_end_menu(k) ==
    [k EXCEPT !.last_entry = <<k.current_menu, "next">>,
              !.current_menu = k.node[k.current_menu].parent]

menu_add_dep(k, e) == [k EXCEPT !.node[k.current_entry].dep = AllocAnd(@, e)]
menu_add_visibility(k, e) == [k EXCEPT !.node[k.current_entry].visibility = AllocAnd(@, e)]

RECURSIVE Above(_, _)
\* The nodes over m, the nearest first.
Above(k, m) == LET p == k.node[m].parent IN IF p = 0 THEN <<>> ELSE <<p>> \o Above(k, p)

\* menu_add_prompt: a prompt has the visibilities of all the menus over it.
menu_add_prompt(k, type, cond) ==
    LET seen == FoldLeft(LAMBDA e, p : IF k.node[p].visibility = Null THEN e
                                       ELSE AllocAnd(e, k.node[p].visibility),
                         cond, IF type = "prompt" THEN Above(k, k.current_entry) ELSE <<>>)
    IN [menu_add_prop(k, type, Null, seen) EXCEPT
          !.node[k.current_entry].prompt = Len(k.prop) + 1]

Flag(k, s, f) == [k EXCEPT !.flags[s] = @ \cup {f}]

\* One statement of the file.
Statement(k, x) ==
    LET s == k.node[k.current_entry].sym
    IN CASE x[1] = "config" -> menu_add_entry(Flag(k, x[2], "optional"), x[2])
         [] x[1] = "choice" -> menu_add_prop(menu_add_entry(Flag(Flag(k, x[2], "choice"),
                                                 x[2], "no_write"), x[2]), "choice", <<>>, Null)
         [] x[1] \in {"menu", "comment"} -> menu_add_prompt(menu_add_entry(k, ""), x[1], Null)
         [] x[1] = "if" -> menu_add_menu(menu_add_dep(menu_add_entry(k, ""), x[2]))
         [] x[1] = "open" -> menu_add_menu(k)
         [] x[1] = "end" -> menu_end_menu(k)
         [] x[1] = "depends" -> menu_add_dep(k, x[2])
         [] x[1] = "visible" -> menu_add_visibility(k, x[2])
         [] x[1] = "prompt" -> menu_add_prompt(k, "prompt", x[2])
         [] x[1] = "menuconfig" -> [k EXCEPT !.prop[k.node[k.current_entry].prompt].type = "menu"]
         [] x[1] = "default" -> menu_add_prop(k, "default", x[2], x[3])
         [] x[1] \in {"select", "imply"} -> menu_add_prop(k, x[1], Sym(x[2]), x[3])
         [] x[1] = "range" -> menu_add_prop(k, "range", <<x[2], x[3]>>, x[4])
         [] x[1] = "optional" -> Flag(k, s, "optional")
         [] x[1] = "allnoconfig_y" -> Flag(k, s, "allnoconfig_y")
         [] x[1] = "modules" -> [k EXCEPT !.modules_sym = s]
         [] x[1] = "defconfig_list" -> [Flag(k, s, "no_write") EXCEPT !.defconfig_list = s]

-----------------------------------------------------------------------------
(* menu_finalize                                                           *)

IsChoice(k, s) == s # "" /\ "choice" \in k.flags[s]
IsChoiceValue(k, s) == "choiceval" \in k.flags[s]
Members(k, s) == LET i == CHOOSE i \in DOMAIN k.prop :
                                k.prop[i].sym = s /\ k.prop[i].type = "choice"
                 IN k.prop[i].expr
ChoiceOf(k, s) == CHOOSE c \in Symbols : IsChoice(k, c) /\ Contains(Members(k, c), s)

RECURSIVE Siblings(_, _)
Siblings(k, m) == IF m = 0 THEN <<>> ELSE <<m>> \o Siblings(k, k.node[m].next)

Simplified(k, parentdep, e) ==
    EliminateDups(AllocAnd(parentdep, Transform(RewriteM(e, k.modules_sym))))

\* A child takes over the dependencies of its parent; its select and imply are noted at
\* the symbols they name.
SimplifiedFor(k, basedep, m, e) ==
    LET s == k.node[m].sym
        Typed(d) == IF s # "" /\ SymType[s] # "tristate" THEN TransBool(d) ELSE d
    IN Typed(Simplified(k, basedep, e))
InheritDep(k, basedep, m) ==
    LET Note(deps, props, type) ==
            FoldLeft(LAMBDA d, p : IF p.menu # m \/ p.type # type THEN d
                         ELSE [d EXCEPT ![p.expr[2]] =
                                  AllocOr(@, AllocAnd(Sym(k.node[m].sym), p.cond))],
                     deps, props)
        Noted(props) ==
            [k EXCEPT !.node[m].dep = basedep, !.prop = props,
                      !.rev_dep = Note(@, props, "select"), !.implied = Note(@, props, "imply")]
    IN Noted([i \in DOMAIN k.prop |-> IF k.prop[i].menu # m THEN k.prop[i]
                 ELSE [k.prop[i] EXCEPT !.cond = SimplifiedFor(k, basedep, m, @)]])
Inherit(k, parentdep, m) == InheritDep(k, Simplified(k, parentdep, k.node[m].dep), m)

\* The condition an entry is shown under, where the submenus look for the symbol.
ShownIf(k, m) ==
    IF k.node[m].prompt # 0 THEN k.prop[k.node[m].prompt].cond ELSE k.node[m].dep
ComparedWithNo(e) == EliminateDups(Transform(TransCompare(e, "!=", "n")))
\* basedep is what the symbol's own entry depends on.
DependsOnEntry(k, s, basedep, m) ==
    LET dep == ShownIf(k, m)
        Implied(p) == IsYes(p[2])
    IN /\ ContainsSymbol(dep, s)
       /\ DependsSymbol(dep, s) \/ Implied(EliminateEq(ComparedWithNo(dep), basedep))

RECURSIVE menu_finalize(_, _), FinalizeFrom(_, _), Gather(_, _, _, _, _), Settle(_, _, _)

\* menu_finalize for m and the entries after it: the list is the one of the moment.
FinalizeFrom(k, m) ==
    LET Rest(a) == FinalizeFrom(a, a.node[m].next)
    IN IF m = 0 THEN k ELSE Rest(menu_finalize(k, m))

\* The entries after p that become its submenu: the tree and the last of them.
Gather(k, p, basedep, m, last) ==
    LET Rest(a) == Gather(a, p, basedep, a.node[m].next, m)
    IN IF m = 0 THEN <<k, last>>
       ELSE IF ~DependsOnEntry(k, k.node[p].sym, basedep, m) THEN <<k, last>>
       ELSE Rest([menu_finalize(k, m) EXCEPT !.node[m].parent = p])

GatherAll(k, p, basedep) == Gather(k, p, basedep, k.node[p].next, 0)
AutoSubmenu(k, p) ==
    LET prompt == k.node[p].prompt
        Cut(a, last) == IF last = 0 THEN a
                        ELSE [a EXCEPT !.node[p].list = a.node[p].next,
                                       !.node[p].next = a.node[last].next,
                                       !.node[last].next = 0]
        Noted(a) == [a EXCEPT !.dir_dep[k.node[p].sym] = AllocOr(@, a.node[p].dep)]
        Submenu(g) == Noted(Cut(g[1], g[2]))
    IN Submenu(GatherAll(k, p, ComparedWithNo(IF prompt = 0 THEN Null ELSE k.prop[prompt].cond)))

\* The symbol of m becomes a value of the choice of p. A value without m in a choice with m
\* needs the choice to be y.
JoinChoice(k, p, m) ==
    LET c == k.node[p].sym
        s == k.node[m].sym
        strict == SymType[c] = "tristate" /\ SymType[s] # "tristate"
        isY(e) == IF strict THEN AllocAnd(<<"=", c, "y">>, e) ELSE e
        props == [i \in DOMAIN k.prop |->
                    CASE k.prop[i].menu = m -> [k.prop[i] EXCEPT !.cond = isY(@)]
                      [] k.prop[i].sym = c /\ k.prop[i].type = "choice" ->
                           [k.prop[i] EXCEPT !.expr = Append(@, s)]
                      [] OTHER -> k.prop[i]]
    IN menu_add_prop([Flag(k, s, "choiceval") EXCEPT !.node[m].dep = isY(@), !.prop = props,
                                                     !.current_entry = m],
                     "choice", Sym(c), Null)

\* The entries of an "if", or under a symbol without prompt, move up after it.
Flatten(k, p, m) ==
    LET inner == Siblings(k, k.node[m].list)
        moved == [n \in DOMAIN k.node |-> IF Contains(inner, n)
                                           THEN [k.node[n] EXCEPT !.parent = p] ELSE k.node[n]]
    IN [k EXCEPT !.node = [moved EXCEPT ![inner[Len(inner)]].next = k.node[m].next,
                                         ![m].next = k.node[m].list, ![m].list = 0]]

Settle(k, p, m) ==
    LET Joins(s) == IsChoice(k, k.node[p].sym) /\ s # "" /\ ~IsChoiceValue(k, s)
        Moved(a) == IF a.node[m].list # 0 /\ a.node[m].prompt = 0 THEN Flatten(a, p, m) ELSE a
        Rest(a) == Settle(a, p, a.node[m].next)
    IN IF m = 0 THEN k
       ELSE Rest(Moved(IF Joins(k.node[m].sym) THEN JoinChoice(k, p, m) ELSE k))

FinalizeBelow(k, p, parentdep) ==
    FinalizeFrom(FoldLeft(LAMBDA a, m : Inherit(a, parentdep, m), k, Siblings(k, k.node[p].list)),
                 k.node[p].list)
SettleAll(k, p) == Settle(k, p, k.node[p].list)
menu_finalize(k, p) ==
    LET s == k.node[p].sym
        Required(a) ==
            IF s = "" \/ a.node[p].prompt = 0 THEN a
            ELSE IF "optional" \in a.flags[s] THEN a
            ELSE [a EXCEPT !.rev_dep[s] =
                     AllocOr(@, AllocAnd(a.prop[a.node[p].prompt].cond, Sym("m")))]
    IN Required(SettleAll(
          CASE k.node[p].list # 0 ->
                 FinalizeBelow(k, p, IF IsChoice(k, s) THEN Sym(s) ELSE k.node[p].dep)
            [] k.node[p].list = 0 /\ s # "" -> AutoSubmenu(k, p)
            [] OTHER -> k, p))

-----------------------------------------------------------------------------
(* Recursive dependencies (symbol.c sym_check_deps). d is the walk: the    *)
(* symbols on its path (SYMBOL_CHECK), those seen (SYMBOL_CHECKED), and    *)
(* whether a loop is found.                                                *)

RECURSIVE sym_check_deps(_, _, _), CheckExprs(_, _, _)

RECURSIVE SymbolsIn(_)
\* The symbols of a condition, from left to right.
SymbolsIn(e) == CASE e[1] \in Junctions -> SymbolsIn(e[2]) \o SymbolsIn(e[3])
                  [] e[1] = "not" -> SymbolsIn(e[2])
                  [] e[1] = "sym" -> <<e[2]>>
                  [] e[1] \in Comparisons -> <<e[2], e[3]>>
                  [] OTHER -> <<>>

\* All that the value of s is calculated from, in the order of sym_check_sym_deps.
DependsOn(k, s) ==
    LET Of(p) == IF p.sym # s \/ p.type \in {"choice", "select", "imply"} THEN <<>>
                 ELSE SymbolsIn(p.cond) \o IF p.type = "default" /\ ~IsChoice(k, s)
                                            THEN SymbolsIn(p.expr) ELSE <<>>
    IN SymbolsIn(k.dir_dep[s]) \o SymbolsIn(k.rev_dep[s]) \o SymbolsIn(k.implied[s])
         \o FlattenSeq([i \in DOMAIN k.prop |-> Of(k.prop[i])])

\* sym_check_expr_deps over a list: it stops at the first loop.
CheckExprs(k, d, syms) ==
    IF syms = <<>> \/ d.loop THEN d ELSE CheckExprs(k, sym_check_deps(k, d, Head(syms)), Tail(syms))

\* Mutant: the choice stays on the path while its values are checked.
CheckChoiceOnPath(k, d, c) ==
    LET group == {c} \cup Range(Members(k, c))
        a == CheckExprs(k, [d EXCEPT !.path = @ \cup group, !.seen = @ \cup group],
                        DependsOn(k, c))
        b == FoldLeft(LAMBDA x, s : CheckExprs(k, x, DependsOn(k, s)), a, Members(k, c))
    IN [b EXCEPT !.path = @ \ group]

\* sym_check_choice_deps: first the choice itself, then its values, all of them on the path.
CheckChoice(k, d, c) ==
    LET values == Members(k, c)
        group == {c} \cup Range(values)
        a == CheckExprs(k, [d EXCEPT !.path = @ \cup group, !.seen = @ \cup group],
                        DependsOn(k, c))
        b == FoldLeft(LAMBDA x, s : CheckExprs(k, x, DependsOn(k, s)),
                      [a EXCEPT !.path = @ \ {c}], values)
    IN [b EXCEPT !.path = @ \ group]

sym_check_deps(k, d, s) ==
    CASE s \in d.path -> [d EXCEPT !.loop = TRUE]
      [] s \in d.seen \ d.path -> d
      [] s \notin d.seen /\ IsChoiceValue(k, s) -> sym_check_deps(k, d, ChoiceOf(k, s))
      [] s \notin d.seen /\ IsChoice(k, s) -> CheckChoice(k, d, s)
      [] OTHER -> [CheckExprs(k, [d EXCEPT !.path = @ \cup {s}, !.seen = @ \cup {s}],
                              DependsOn(k, s)) EXCEPT !.path = @ \ {s}]

\* The end of conf_parse: is there a symbol whose check finds a loop?
HasLoop(k) ==
    LET Check(d, s) == LET e == sym_check_deps(k, [d EXCEPT !.loop = FALSE], s)
                       IN [e EXCEPT !.loop = @ \/ d.loop]
    IN FoldLeft(Check, [path |-> {}, seen |-> {}, loop |-> FALSE], Order).loop

\* conf_parse: the statements, then the tree.
conf_parse(file) ==
    LET k == FoldLeft(Statement, _menu_init, file)
    IN menu_finalize(menu_add_prompt([k EXCEPT !.current_entry = Root], "menu", Null), Root)

=============================================================================
