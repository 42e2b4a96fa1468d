---------------------------- MODULE KconfigFiles ----------------------------
(***************************************************************************)
(* Reading and writing configurations                                      *)
(* (src/simulators/npc/tools/kconfig/confdata.c). A file is the sequence   *)
(* of its assignments <<symbol, value>>, where "n" for a bool or tristate  *)
(* is the line "# CONFIG_x is not set"; comments and layout are left out.  *)
(* Missing is a file that does not exist.                                  *)
(***************************************************************************)
EXTENDS KconfigSymbols, ConfigDisk

Known(k) == {s \in Symbols : \E m \in DOMAIN k.node : k.node[m].sym = s}

-----------------------------------------------------------------------------
(* Reading. r is [v, warnings].                                            *)

\* conf_set_sym_val: the symbols after an assignment, or that it is refused.
Accepted(s, x) == CASE SymType[s] = "tristate" -> x \in {"n", "m", "y"}
                    [] SymType[s] = "bool" -> x \in {"n", "y"}
                    [] SymType[s] = "int" -> x \in DOMAIN Number
                    [] OTHER -> TRUE
conf_set_sym_val(v, s, d, x) ==
    LET a == [v EXCEPT !.set[d] = @ \cup {s}]
    IN IF Logic(s) THEN [a EXCEPT !.dtri[d][s] = Tri(x)] ELSE [a EXCEPT !.dval[d][s] = x]

\* A value of a choice also sets the choice.
ChoiceLine(k, r, d, s) ==
    LET c == ChoiceOf(k, s)
        x == r.v.dtri[d][s]
        was == r.v.dtri[d][c]
        a == CASE x = 1 /\ was = 2 -> [r EXCEPT !.v.set[d] = @ \ {c}, !.warnings = TRUE]
               [] x = 2 -> [r EXCEPT !.v.dval[d][c] = s, !.warnings = @ \/ was # 0]
               [] OTHER -> r
    IN [a EXCEPT !.v.dtri[d][c] = TriMax(was, x)]

ReadLine(k, r, d, line) ==
    LET s == line[1]
        again == r.warnings \/ s \in r.v.set[d]
        refused == d = "user" \/ again
        a == [r EXCEPT !.v = conf_set_sym_val(@, s, d, line[2]), !.warnings = again]
    IN CASE s \notin Known(k) -> IF d = "auto" THEN r ELSE [r EXCEPT !.v.changed = TRUE]
         [] s \in Known(k) /\ ~Accepted(s, line[2]) -> [r EXCEPT !.warnings = refused]
         [] OTHER -> IF IsChoiceValue(k, s) THEN ChoiceLine(k, a, d, s) ELSE a

\* conf_read_simple, for a file that exists: d is "user" or "auto". Choices count as set.
conf_read_simple(k, v, file, d) ==
    LET fresh == [v EXCEPT !.valid = {"y", "m", "n"},
                           !.set[d] = {s \in Symbols : IsChoice(k, s)},
                           !.dtri[d] = No3, !.dval[d] = [s \in Symbols |-> ""],
                           !.reentered = {}]
    IN FoldLeft(LAMBDA r, line : ReadLine(k, r, d, line), [v |-> fresh, warnings |-> FALSE], file)

\* Without a .config, the first file that a default of the defconfig_list symbol names.
RECURSIVE DefconfigFile(_, _, _, _)
FileOr(k, u, disk, s, props) ==
    LET name == StringValue(k, u, s)
    IN IF name \in DOMAIN disk /\ disk[name] # Missing THEN <<disk[name], u>>
       ELSE DefconfigFile(k, u, disk, Tail(props))
DefconfigIf(k, r, disk, props) ==
    LET s == k.prop[Head(props)].expr[2]
    IN IF r[1] = 0 THEN DefconfigFile(k, r[2], disk, Tail(props))
       ELSE FileOr(k, sym_calc_value(k, r[2], s), disk, s, props)
DefconfigFile(k, v, disk, props) ==
    IF props = <<>> THEN <<Missing, v>>
    ELSE DefconfigIf(k, ExprValue(k, v, k.prop[Head(props)].cond), disk, props)

\* Does the value that was read differ from the one calculated from it?
Unsaved(k, v, s) ==
    /\ ~IsChoice(k, s) /\ "no_write" \notin k.flags[s]
    /\ CASE HasValue(v, s) /\ s \in v.write ->
              IF Logic(s) THEN v.dtri["user"][s] # v.tri[s] ELSE v.val[s] # v.dval["user"][s]
         [] ~HasValue(v, s) /\ s \notin v.write -> FALSE
         [] OTHER -> TRUE

\* The last loop of conf_read: the values of what is not shown, and numbers out of their
\* range, are forgotten. r is [v, unsaved].
Forget(k, r, s) ==
    LET a == IF r.v.visible[s] = 0 /\ ~r.unsaved THEN [r.v EXCEPT !.set["user"] = @ \ {s}] ELSE r.v
        Checked(x) == IF x[1] THEN [r EXCEPT !.v = x[2]]
                      ELSE [v |-> [x[2] EXCEPT !.valid = @ \ {s}, !.set["user"] = @ \ {s}],
                            unsaved |-> TRUE]
    IN CASE ~HasValue(r.v, s) \/ IsChoiceValue(k, s) -> r
         [] HasValue(r.v, s) /\ SymType[s] \in {"int", "string"} ->
              Checked(sym_string_within_range(k, a, s, a.dval["user"][s]))
         [] OTHER -> [r EXCEPT !.v = a]

\* conf_read of a file that exists.
RECURSIVE ForgetAll(_, _, _)
ForgetAll(k, r, syms) ==
    IF syms = <<>> THEN r ELSE ForgetAll(k, Forget(k, r, Head(syms)), Tail(syms))
ForgetUnseen(k, v, warnings) ==
    LET Changed(r) == [r.v EXCEPT !.changed = @ \/ warnings \/ r.unsaved]
    IN Changed(ForgetAll(k, [v |-> v, unsaved |-> \E s \in Symbols : Unsaved(k, v, s)], Order))
CalcRead(k, r) == ForgetUnseen(k, CalcAll(k, r.v, <<k.modules_sym>> \o Order), r.warnings)
ReadFile(k, v, file) ==
    CalcRead(k, conf_read_simple(k, [v EXCEPT !.changed = FALSE], file, "user"))

\* conf_read(NULL). d is the file it reads and the symbols after it was looked for.
ReadFound(k, d, changed) ==
    IF d[1] = Missing THEN sym_calc_value(k, [d[2] EXCEPT !.changed = TRUE], k.modules_sym)
    ELSE [ReadFile(k, d[2], d[1]) EXCEPT !.changed = @ \/ changed]
conf_read(k, v, disk) ==
    ReadFound(k, IF disk[".config"] # Missing THEN <<disk[".config"], v>>
                 ELSE IF k.defconfig_list = "" THEN <<Missing, v>>
                 ELSE DefconfigFile(k, v, disk, PropsOf(k, k.defconfig_list, {"default"})),
              disk[".config"] = Missing)

-----------------------------------------------------------------------------
(* Writing                                                                 *)

RECURSIVE Climb(_, _), Walk(_, _)
\* The entry after m and all that is under it, and the order in which both writers visit
\* the entries: by the three links of the nodes.
Climb(k, m) == LET p == k.node[m].parent
               IN IF p = 0 THEN 0 ELSE IF k.node[p].next # 0 THEN k.node[p].next ELSE Climb(k, p)
Walk(k, m) ==
    IF m = 0 THEN <<>>
    ELSE <<m>> \o Walk(k, IF k.node[m].list # 0 THEN k.node[m].list
                          ELSE IF k.node[m].next # 0 THEN k.node[m].next ELSE Climb(k, m))
OuterEntries(k) == Siblings(k, k.node[Root].list)   \* Mutant: what is in a menu is not visited.
Entries(k) == Walk(k, k.node[Root].list)

\* conf_write_symbol
Line(k, v, s) == <<s, StringValue(k, v, s)>>

\* The loop of conf_write: f is [v, lines]. A symbol with two entries is written once.
WriteEntry(k, f, m) ==
    LET s == k.node[m].sym
        Add(u) == [v |-> u, lines |-> IF s \in u.write THEN Append(f.lines, Line(k, u, s))
                                                       ELSE f.lines]
    IN IF s = "" THEN f
       ELSE IF IsChoice(k, s) \/ \E i \in DOMAIN f.lines : f.lines[i][1] = s THEN f
       ELSE Add(sym_calc_value(k, f.v, s))
RECURSIVE WriteEntries(_, _, _)
WriteEntries(k, f, list) ==
    IF list = <<>> THEN f ELSE WriteEntries(k, WriteEntry(k, f, Head(list)), Tail(list))
conf_write(k, v) ==
    WriteEntries(k, [v |-> IF v.changed THEN v ELSE sym_clear_all_valid(k, v), lines |-> <<>>],
                 Entries(k))

\* conf_write_defconfig: only what differs from its default. A value of a choice that is the
\* choice's default is left out, too.
AddLine(k, f, v, s) == [v |-> v, lines |-> Append(f.lines, Line(k, v, s))]
AddUnlessDefault(k, f, d, s) ==
    LET ByDefault(c) == /\ "optional" \notin k.flags[ChoiceOf(k, s)]
                        /\ c[1] = s /\ SymType[s] = "bool" /\ c[2].tri[s] = 2
        OfChoice(c) == IF ByDefault(c) THEN [f EXCEPT !.v = c[2]] ELSE AddLine(k, f, c[2], s)
    IN IF StringValue(k, d[2], s) = d[1] THEN [f EXCEPT !.v = d[2]]
       ELSE IF IsChoiceValue(k, s) THEN OfChoice(sym_choice_default(k, d[2], ChoiceOf(k, s)))
       ELSE AddLine(k, f, d[2], s)
AddChanged(k, f, u, s) ==
    LET w == [u EXCEPT !.write = @ \ {s}]
    IN IF s \notin u.write THEN [f EXCEPT !.v = u]
       ELSE IF ~sym_is_changeable(w, s) THEN [f EXCEPT !.v = w]
       ELSE AddUnlessDefault(k, f, sym_get_string_default(k, w, s), s)
WriteMinimal(k, f, m) ==
    LET s == k.node[m].sym
    IN IF s = "" THEN f
       ELSE IF IsChoice(k, s) THEN f ELSE AddChanged(k, f, sym_calc_value(k, f.v, s), s)
RECURSIVE WriteMinimals(_, _, _)
WriteMinimals(k, f, list) ==
    IF list = <<>> THEN f ELSE WriteMinimals(k, WriteMinimal(k, f, Head(list)), Tail(list))
conf_write_defconfig(k, v) ==
    WriteMinimals(k, [v |-> sym_clear_all_valid(k, v), lines |-> <<>>], Entries(k))

\* conf_touch_deps: the symbols whose value is not the one of auto.conf, and those that are
\* only there. The result is [v, touched].
StaleWritten(k, v, s) ==   \* Mutant: a symbol that is no longer written counts as unchanged.
    /\ s \in Known(k) /\ ~IsChoice(k, s) /\ "no_write" \notin k.flags[s] /\ s \in v.write
    /\ IF s \notin v.set["auto"] THEN ~(Logic(s) /\ v.tri[s] = 0)
       ELSE IF Logic(s) THEN v.tri[s] # v.dtri["auto"][s]
       ELSE StringValue(k, v, s) # v.dval["auto"][s]
Stale(k, v, s) ==
    CASE s \notin Known(k) \/ IsChoice(k, s) \/ "no_write" \in k.flags[s] -> FALSE
      [] s \in v.write /\ s \in v.set["auto"] ->
           IF Logic(s) THEN v.tri[s] # v.dtri["auto"][s]
           ELSE StringValue(k, v, s) # v.dval["auto"][s]
      [] s \in v.write /\ s \notin v.set["auto"] -> ~(Logic(s) /\ v.tri[s] = 0)
      [] OTHER -> s \in v.set["auto"]
conf_touch_deps(k, v, auto) ==
    LET gone == IF auto = Missing THEN {} ELSE {l[1] : l \in Range(auto)} \ Known(k)
        Touched(u) == [v |-> u, touched |-> gone \cup {s \in Symbols : Stale(k, u, s)}]
        Read == IF auto = Missing THEN v ELSE conf_read_simple(k, v, auto, "auto").v
    IN Touched(CalcAll(k, Read, <<k.modules_sym>> \o Order))

\* auto.conf, which leaves out what is not set, and autoconf.h with the same lines.
AutoLines(k, v) ==
    LET kept == SelectSeq(Order, LAMBDA s : s \in v.write /\ ~(Logic(s) /\ StringValue(k, v, s) = "n"))
    IN [i \in DOMAIN kept |-> Line(k, v, kept[i])]

-----------------------------------------------------------------------------
(* All symbols at once                                                     *)

\* conf_set_all_new_symbols for every mode but randconfig: x[s] is the value for a new s; in
\* the mode def_default there is none.
NewValues(k, v, mode) ==
    [s \in Symbols |-> CASE mode = "yes" -> 2 [] mode = "mod" -> 1
                         [] OTHER -> IF "allnoconfig_y" \in k.flags[s] THEN 2 ELSE 0]
SetNew(k, v, news, x) ==
    [v EXCEPT !.dtri["user"] = [s \in news |-> x[s]] @@ @]
NewOnes(k, v) == {s \in Known(k) : Logic(s) /\ ~HasValue(v, s) /\ s \notin v.valid}
RECURSIVE SetOpenChoices(_, _, _)
SetOpen(k, v, c) == IF HasValue(v, c) \/ ~IsChoice(k, c) THEN v
                    ELSE set_all_choice_values(k, sym_calc_value(k, v, c), c)
SetOpenChoices(k, v, syms) ==
    IF syms = <<>> THEN v ELSE SetOpenChoices(k, SetOpen(k, v, Head(syms)), Tail(syms))
conf_set_all_new_symbols(k, v, mode) ==
    LET news == IF mode = "default" THEN {} ELSE NewOnes(k, v)
        a == [SetNew(k, v, news, NewValues(k, v, mode)) EXCEPT !.set["user"] = @ \cup news]
        Open(u) == {s \in Known(k) : IsChoiceValue(k, s) \/ (IsChoice(k, s) /\ ~HasValue(u, s))}
        Opened(u) == [u EXCEPT !.need = @ \cup Open(u)]
    IN SetOpenChoices(k, Opened(sym_clear_all_valid(k, a)), Order)

\* One pass of randconfig, with the values it draws: x for the symbols, pick for choices.
RandomChoice(k, v, c, pick) ==
    LET values == Range(Members(k, c))
    IN [v EXCEPT !.dtri["user"] = [s \in values |-> IF s = pick THEN 2 ELSE 0] @@ @,
                 !.dval["user"][c] = pick,
                 !.set["user"] = @ \cup values \cup {c}, !.valid = @ \ (values \cup {c})]
RandomValues(k, v, c, pick) ==
    LET Picked(w) == IF w.tri[c] # 2 THEN w ELSE RandomChoice(k, w, c, pick[c])
    IN IF HasValue(v, c) \/ ~IsChoice(k, c) THEN v ELSE Picked(sym_calc_value(k, v, c))
RECURSIVE RandomChoices(_, _, _, _)
RandomChoices(k, v, syms, pick) ==
    IF syms = <<>> THEN v ELSE RandomChoices(k, RandomValues(k, v, Head(syms), pick), Tail(syms), pick)
RandomPass(k, v, x, pick) ==
    LET news == NewOnes(k, v)
        a == [SetNew(k, v, news, x) EXCEPT
                !.set["user"] = @ \cup {s \in news : ~IsChoice(k, s)}]
        Result(b) == [v |-> b, again |-> news # {} \/ b.set["user"] # a.set["user"]]
    IN Result(RandomChoices(k, sym_clear_all_valid(k, a), Order, pick))

\* conf_rewrite_mod_or_yes
conf_rewrite_mod_or_yes(k, v, old, new) ==
    LET changing == {s \in Symbols : /\ sym_get_type(k, v, s) = "tristate"
                                     /\ v.dtri["user"][s] = old}
    IN sym_clear_all_valid(k, [v EXCEPT !.dtri["user"] = [s \in changing |-> new] @@ @])

=============================================================================
