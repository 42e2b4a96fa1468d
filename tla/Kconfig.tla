------------------------------ MODULE Kconfig ------------------------------
(***************************************************************************)
(* The configuration tool of the simulator as it is used: `make menuconfig`*)
(* runs mconf (src/simulators/npc/tools/kconfig/mconf.c), where the user   *)
(* edits, loads and saves, and then conf --syncconfig (conf.c); the other  *)
(* modes of conf are run by hand. Both read the Kconfig file, read and     *)
(* write .config, and conf writes auto.conf and the header autoconf.h,     *)
(* one rename at a time; a tool may die between any two of them.           *)
(*                                                                         *)
(* The files and the steps of writing them are those of ConfigFiles; what  *)
(* this module adds is what is written:                                    *)
(*                                                                         *)
(*   k, v    the Kconfig file and the symbols (v means nothing when idle)  *)
(*   ui      mconf: [trail, all, name, items], the menus that are open,    *)
(*           show_all_options, filename, and what is on the screen         *)
(*   steps   counts tool runs and edits, to bound them                     *)
(* Every run parses the Kconfig file anew, with the same result: k is kept *)
(* over the runs.                                                          *)
(***************************************************************************)
EXTENDS KconfigAsk, ConfigFiles

CONSTANTS Kconfigs,    \* the Kconfig files: sequences of statements
          Configurable,\* those the tools are run on; of the others only the tree is built
          Answers,     \* what users of conf want: records tri, str, pick
          Draws,       \* what randconfig draws: functions from symbols to values
          MaxSteps     \* bound on the tool runs and what the user does in mconf together

VARIABLES k, v, ui, steps, kconfig
files == <<disk, touched, built, saved>>
vars == <<pc, k, v, ui, job, files, steps, kconfig>>

NoUi == [trail |-> <<>>, all |-> FALSE, name |-> ".config", items |-> {}]

Init == /\ FilesInit /\ kconfig = <<>>
        /\ k = _menu_init /\ v = NewSymbols(k)
        /\ ui = NoUi /\ steps = 0

\* main of both tools: the Kconfig file is parsed.
Parse == /\ pc = "start"
         /\ kconfig' \in Kconfigs
         /\ k' = conf_parse(kconfig')
         /\ v' = NewSymbols(k')
         /\ pc' = IF HasLoop(k') THEN "rejected" ELSE "idle"
         /\ UNCHANGED <<ui, job, files, steps>>

Step == steps < MaxSteps /\ steps' = steps + 1
Starts == /\ pc = "idle" /\ kconfig \in Configurable
          /\ Step
          /\ UNCHANGED <<k, kconfig>>

-----------------------------------------------------------------------------
(* mconf                                                                   *)

RECURSIVE build_conf(_, _, _), ShowFrom(_, _, _)
\* build_conf: what is shown of entry m in the menu u.trail ends with, added to
\* b = [v, items]; an item is <<tag, entry>>.
ShowFrom(u, b, c) == IF c = 0 THEN b ELSE ShowFrom(u, build_conf(u, b, c), k.node[c].next)
ShowBelow(u, b, m) == ShowFrom(u, b, k.node[m].list)
Add(w, b, m, tag) == [v |-> w, items |-> b.items \cup {<<tag, m>>}]
\* A menu that can be opened: whether anything is in it is looked at, too.
Submenu(w, b, m, tag) == Add(AnyVisible(k, w, Siblings(k, k.node[m].list))[2], b, m, tag)
ShowMenu(u, w, b, m) ==
    LET prompt == k.prop[k.node[m].prompt]
    IN IF m = u.trail[Len(u.trail)] THEN ShowBelow(u, [b EXCEPT !.v = w], m)
       ELSE IF prompt.type = "menu" THEN Submenu(w, b, m, "m")
       ELSE ShowBelow(u, Add(w, b, m, ":"), m)
ShowChosen(u, b, m, s, active) ==
    LET inner == {c \in active : k.node[c].list # 0}
    IN IF b.v.tri[s] # 2 THEN ShowBelow(u, b, m)
       ELSE IF inner = {} THEN b ELSE build_conf(u, b, CHOOSE c \in inner : TRUE)
ShowChoice(u, shown, b, m, s) ==
    LET w == shown[2]
        active == {c \in Range(shown[1]) : k.node[c].sym = w.val[s]}
    IN ShowChosen(u, Add(w, b, m, IF sym_is_changeable(w, s) \/ active # {} THEN "t" ELSE ":"),
                  m, s, active)
ShowSymbol(u, w, b, m, s) ==
    LET tag == IF IsChoiceValue(k, s) /\ w.tri[s] = 2 THEN ":" ELSE IF Logic(s) THEN "t" ELSE "s"
        current == m = u.trail[Len(u.trail)]
    IN IF ~current /\ tag # "s" /\ k.prop[k.node[m].prompt].type = "menu"
       THEN Submenu(w, b, m, tag)
       ELSE ShowBelow(u, Add(w, b, m, IF current THEN ":" ELSE tag), m)
ShowEntry(u, w, b, m) ==
    LET s == k.node[m].sym
    IN CASE s = "" -> ShowMenu(u, w, b, m)
         [] s # "" /\ IsChoice(k, s) -> ShowChoice(u, ShownUnder(k, w, m), b, m, s)
         [] OTHER -> ShowSymbol(u, w, b, m, s)
ShowIfSeen(u, r, b, m) ==
    IF IF u.all THEN k.node[m].prompt # 0 ELSE r[1] THEN ShowEntry(u, r[2], b, m)
    ELSE [b EXCEPT !.v = r[2]]
build_conf(u, b, m) == ShowIfSeen(u, menu_is_visible(k, b.v, m), b, m)

\* The loop of conf shows the menu again, which calculates what it shows.
Screen(w, u) == build_conf(u, [v |-> w, items |-> {}], u.trail[Len(u.trail)])
Show(w, u) == \E s \in {Screen(w, u)} : v' = s.v /\ ui' = [u EXCEPT !.items = s.items]
Tagged(tags) == {i[2] : i \in {j \in ui.items : j[1] \in tags}}

\* main: conf_parse, conf_read(NULL), and the first menu.
StartMconf == /\ Starts
              /\ Show(conf_read(k, NewSymbols(k), disk), [NoUi EXCEPT !.trail = <<Root>>])
              /\ pc' = "edit"
              /\ UNCHANGED <<job, files>>

Edits == /\ pc = "edit" /\ Step
         /\ UNCHANGED <<pc, k, kconfig, job, files>>

\* The keys y, m, n and space on an entry that holds a tristate, where y falls back to m, and
\* conf_choice: one of the values that are shown.
SetTo(s, x) == IF CanSetTri(k, v, s, x) THEN sym_set_tristate_value(k, v, s, x) ELSE v
Keyed(s) ==
    {SetTo(s, x) : x \in {0, 1, IF CanSetTri(k, v, s, 2) THEN 2 ELSE 1}}
      \cup {sym_toggle_tristate_value(k, v, s)}
Chosen(m) ==
    LET c == k.node[m].sym
    IN IF IsChoice(k, c) /\ v.tri[c] = 2 THEN {k.node[n].sym : n \in Range(ShownUnder(k, v, m)[1])}
       ELSE {}
SetValue ==
    /\ Edits
    /\ \E m \in Tagged({"t"}) :
         \E w \in Keyed(k.node[m].sym) \cup {SetTo(s, 2) : s \in Chosen(m)} : Show(w, ui)

\* conf_string: what is not allowed has to be entered again.
EnterString ==
    /\ Edits
    /\ \E m \in Tagged({"s"}), ans \in Answers :
         \E r \in {sym_string_within_range(k, v, k.node[m].sym, ans.str[k.node[m].sym])} :
            r[1] /\ Show(sym_set_string_value(k, r[2], k.node[m].sym, ans.str[k.node[m].sym]), ui)

\* Into a menu and back, and the key z.
Opened == {m \in Tagged({"m", "t"}) : /\ k.prop[k.node[m].prompt].type = "menu"
                                      /\ ~(IsChoice(k, k.node[m].sym) /\ v.tri[k.node[m].sym] = 2)}
Navigate ==
    /\ Edits
    /\ \E u \in {[ui EXCEPT !.trail = Append(@, m)] : m \in Opened}
                 \cup {[ui EXCEPT !.trail = Front(@)] : n \in {Len(ui.trail)} \ {1}}
                 \cup {[ui EXCEPT !.all = ~@]} :
         Show(v, u)

\* conf_load. conf_read has forgotten that something changed before it finds no file.
LoadConfig ==
    /\ Edits
    /\ \E name \in Configs :
         Show(IF disk[name] = Missing
              THEN sym_calc_value(k, [v EXCEPT !.changed = FALSE], k.modules_sym)
              ELSE [ReadFile(k, v, disk[name]) EXCEPT !.changed = TRUE],
              [ui EXCEPT !.name = IF disk[name] = Missing THEN @ ELSE name])

\* conf_save
SaveConfig == /\ pc = "edit" /\ Step
              /\ \E name \in Configs : /\ Write(name, "edit", FALSE)
                                       /\ ui' = [ui EXCEPT !.name = name]
              /\ UNCHANGED <<k, v, kconfig>>

\* handle_exit, from the main menu or on SIGINT; the user may also answer no.
Exit == /\ pc = "edit"
        /\ \/ v.changed /\ Write(ui.name, "autoconf", FALSE) /\ UNCHANGED <<v, ui>>
           \/ pc' = "idle" /\ v' = NewSymbols(k) /\ ui' = NoUi /\ UNCHANGED <<job, files>>
        /\ UNCHANGED <<k, kconfig, steps>>

-----------------------------------------------------------------------------
(* conf                                                                    *)

RECURSIVE RandomConfig(_, _, _)
RandomAgain(r, x, pick) == IF r.again THEN RandomConfig(r.v, x, pick) ELSE r.v
RandomConfig(w, x, pick) == RandomAgain(RandomPass(k, w, x, pick), x, pick)

\* main: the modes that write a .config. syncconfig always writes auto.conf, too.
NoAnswers == CHOOSE ans \in Answers : TRUE   \* for the modes that ask nothing
RunConf ==
    /\ Starts
    /\ \/ \E mode \in Modes \ {"savedefconfig", "listnewconfig"}, ans \in Answers :
            /\ mode \in {"oldaskconfig", "oldconfig", "syncconfig"} \/ ans = NoAnswers
            /\ mode = "defconfig" => disk["defconfig"] # Missing
            /\ v' = Configured(k, disk, mode, ans)
            /\ Write(".config", "autoconf", mode = "syncconfig")
       \/ \E x \in Draws, ans \in Answers :
            /\ v' = RandomConfig(NewSymbols(k), x, ans.pick)
            /\ Write(".config", "autoconf", FALSE)
    /\ UNCHANGED ui

\* savedefconfig writes the defaults' difference to its own file.
SaveDefconfig ==
    /\ Starts
    /\ WriteDefconfig(conf_write_defconfig(k, InitialSymbols(k, disk, "savedefconfig")).lines)
    /\ UNCHANGED <<v, ui>>

-----------------------------------------------------------------------------
(* Writing: the steps of ConfigFiles, with what the tool writes.           *)

WriteConfig == \E f \in {conf_write(k, v)} :
                 WriteTemp(f.lines) /\ v' = [f.v EXCEPT !.changed = @ /\ ~Unaltered(f.lines)]
ReplaceConfig == Replace /\ v' = [v EXCEPT !.changed = FALSE]
WriteAutoconf ==
    \/ \E d \in {conf_touch_deps(k, v, disk["auto.conf"])} : TouchDeps(d.touched) /\ v' = d.v
    \/ WriteTemps(AutoLines(k, v)) /\ UNCHANGED v
    \/ RenameHeader /\ UNCHANGED v
Writes == /\ WriteConfig \/ (Backup /\ UNCHANGED v) \/ ReplaceConfig \/ WriteAutoconf
          /\ UNCHANGED <<k, kconfig, ui, steps>>

\* The end of a tool that has written, or that dies while it writes.
Touching == pc = "autoconf" /\ ~Skip
Ends == /\ \/ SkipAutoconf \/ RenameAutoconf
           \/ \E done \in SUBSET IF Touching THEN conf_touch_deps(k, v, disk["auto.conf"]).touched ELSE {} :
                 Crash(done)
        /\ v' = NewSymbols(k) /\ ui' = NoUi
        /\ UNCHANGED <<k, kconfig, steps>>

Next == \/ Parse
        \/ StartMconf \/ SetValue \/ EnterString \/ Navigate \/ LoadConfig \/ SaveConfig \/ Exit
        \/ RunConf \/ SaveDefconfig
        \/ Writes \/ Ends
        \/ Build /\ UNCHANGED <<k, v, kconfig, ui, steps>>

Spec == Init /\ [][Next]_vars

-----------------------------------------------------------------------------
(* The tree and its conditions                                             *)

\* What a statement of the file belongs to, and the blocks it is in, read off the file.
IsEntry(x) == x[1] \in {"config", "choice", "menu", "comment"}
Opens(x) == x[1] \in {"if", "open"}
EntryOf(j) == FoldLeft(LAMBDA e, i : IF IsEntry(kconfig[i]) THEN i ELSE e, 0,
                       [i \in 1..j |-> i])
Depth(i, j) == Cardinality({x \in i..j : Opens(kconfig[x])})
                 - Cardinality({x \in i..j : kconfig[x][1] = "end"})
Blocks(j) == {i \in 1..(j - 1) : /\ Opens(kconfig[i])
                                 /\ \A x \in i..(j - 1) : Depth(i, x) > 0}
Depends(i) == {kconfig[x][2] : x \in {y \in DOMAIN kconfig :
                   kconfig[y][1] = "depends" /\ EntryOf(y) = i}}

\* The conditions a block puts on what is in it, and all those statement j is under.
BlockConditions(i) ==
    IF kconfig[i][1] = "if" THEN {kconfig[i][2]}
    ELSE IF kconfig[EntryOf(i)][1] = "choice" THEN {Sym(kconfig[EntryOf(i)][2])}
    ELSE Depends(EntryOf(i))
Holding(j) == Depends(EntryOf(j)) \cup UNION {BlockConditions(i) : i \in Blocks(j)}

\* The conditions in the file, where m counts only with modules, as one value.
Meaning(exprs, val) ==
    LET values == {Calc(RewriteM(e, k.modules_sym), val) : e \in exprs} \cup {2}
    IN CHOOSE x \in values : \A y \in values : x <= y

Assignments ==
    LET used == {x \in Symbols : \E i \in DOMAIN kconfig : kconfig[i] = <<"config", x>>}
        Values(s) == IF SymType[s] = "tristate" THEN {"n", "m", "y"} ELSE {"n", "y"}
    IN {val \in [used -> {"n", "m", "y"}] : \A s \in used : val[s] \in Values(s)}

\* An entry depends on what its "depends on", its menus, its choice and its ifs say, whatever
\* the simplifications of expr.c make of it: the same value for every assignment, or, for
\* the conditions of a symbol without m, n for the same assignments.
ConditionsKept ==
    LET single == Len(kconfig) > 0 /\ kconfig \notin Configurable
        defaults == {j \in DOMAIN kconfig : kconfig[j][1] = "default"}
        s(j) == kconfig[EntryOf(j)][2]
        conds(j) == {i \in DOMAIN k.prop : k.prop[i].sym = s(j) /\ k.prop[i].type = "default"}
        Same(x, y, type) == IF type = "tristate" THEN x = y ELSE x = 0 <=> y = 0
    IN single /\ pc # "start" /\ k.modules_sym # "n" =>
         \A j \in defaults, val \in Assignments :
            /\ \A i \in conds(j) :
                 Same(Calc(k.prop[i].cond, val), Meaning(Holding(j) \cup {kconfig[j][3]}, val),
                      SymType[s(j)])
            /\ Calc(k.dir_dep[s(j)], val) = Meaning(Holding(j), val)

\* What a symbol is calculated from, with a choice and its values as one. A value always uses
\* its choice, which is no loop; other symbols may use it, too.
Group(s) == IF IsChoiceValue(k, s) THEN ChoiceOf(k, s) ELSE s
Uses(ofChoices) ==
    UNION {{<<Group(s), Group(t)>> : t \in {x \in Range(DependsOn(k, s)) :
                  /\ x # Group(s) \/ x = s
                  /\ IsChoice(k, x) => ofChoices}} :
           s \in {x \in Symbols : SymType[x] # "unknown"}}
RECURSIVE Closed(_)
Closed(r) == LET more == r \cup {<<p[1], q[2]>> : <<p, q>> \in
                                  {x \in r \X r : x[1][2] = x[2][1]}}
             IN IF more = r THEN r ELSE Closed(more)
Loop(r) == \E p \in Closed(r) : p[1] = p[2]

\* A Kconfig file is refused only if the value of a symbol may depend on itself, and always if
\* it does without anything but a choice's values using the choice: a loop over such a use is
\* found or not as the hash order has it (the choice is off the path while its values are
\* checked).
LoopsAreFound == pc # "start" /\ steps = 0 =>
                   /\ (pc = "rejected") => Loop(Uses(TRUE))
                   /\ Loop(Uses(FALSE)) => (pc = "rejected")

-----------------------------------------------------------------------------
(* Values                                                                  *)

Named == {s \in Known(k) : SymType[s] # "unknown"}
\* The values that are written. A choice is not: an optional one that is m without any value
\* is n when the file is read.
ValuesOf(w) == [s \in {x \in Named : ~IsChoice(k, x)} |-> StringValue(k, w, s)]
Settled(w) == CalcAll(k, w, Order)
Running == pc \in {"edit", "write"}

\* A tristate choice that the user made y, before choosing any of its values: the next
\* change makes it m again, because sym_calc_choice has taken its value for no user's.
Undecided(s) == LET c == Group(s)
                IN IsChoice(k, c) /\ SymType[c] = "tristate" /\ ~HasValue(v, c)

\* What is kept of earlier calculations is what a calculation from the start gives, in any
\* order of the symbols.
UpToDate ==
    LET kept == Settled(v)
        anew == CalcAll(k, sym_clear_all_valid(k, v), Reverse(Order))
    IN \A s \in Named : Undecided(s) \/ StringValue(k, kept, s) = StringValue(k, anew, s)

\* No value is stale after a change, whatever was set, read or forgotten before (symbol.c,
\* confdata.c), unless a text that conf_read has forgotten was entered again.
NoStaleValues == Running /\ v.reentered = {} => UpToDate

\* "The SYMBOL_VALID bit is set in 'flags' when this is up to date" (expr.h:94): a symbol whose
\* kept value is used has the value that is calculated anew.
ValidIsUpToDate == Running => UpToDate

\* A symbol is on only as far as its dependencies allow, unless something selects it.
DependenciesHold ==
    Running => LET w == Settled(v)
                   val == [s \in Symbols |-> IF s \in Consts THEN s ELSE StringValue(k, w, s)]
                   limit(s) == TriMax(Calc(k.dir_dep[s], val),
                                      IF k.rev_dep[s] = Null THEN 0 ELSE Calc(k.rev_dep[s], val))
               IN \A s \in Named : Logic(s) /\ ~IsChoiceValue(k, s) =>
                     Tri(val[s]) <= IF IsBool(k, w, s) THEN Raise(limit(s)) ELSE limit(s)


-----------------------------------------------------------------------------
(* Files                                                                   *)

Reread(lines) == ReadFile(k, NewSymbols(k), lines)

\* What is written is read back: every symbol gets the value it was written with.
SavedReadsBack ==
    pc = "write" => \A f \in {conf_write(k, v)} :
                      ValuesOf(Settled(Reread(f.lines))) = ValuesOf(Settled(f.v))

\* What savedefconfig leaves out is the default: with defconfig everything is as before.
DefconfigReadsBack ==
    pc = "write" => \A f \in {conf_write_defconfig(k, v)} :
                      LET w == conf_set_all_new_symbols(k, Reread(f.lines), "default")
                      IN ValuesOf(Settled(w)) = ValuesOf(Settled(f.v))

\* ConfigNeverLost and ChangedIsTouched are stated in ConfigFiles. Every run of the tools is a
\* behaviour of FilesSpec: every action above is one of its actions, and the second part of
\* ChangedIsTouched is the condition under which it lets WriteTemps follow.
=============================================================================
