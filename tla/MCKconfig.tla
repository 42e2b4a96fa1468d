----------------------------- MODULE MCKconfig -----------------------------
(***************************************************************************)
(* The Kconfig files that Kconfig is checked on, and what is checked: the  *)
(* tree that is made of a file, the values the symbols have, and the files *)
(* that the tools leave behind.                                            *)
(***************************************************************************)
EXTENDS Kconfig

MCSymType ==
    [s \in {"y", "m", "n", "0", "5", "10", "defconfig"} |-> "unknown"]
      @@ [s \in {"MOD", "A", "B", "C", "V", "W"} |-> "bool"]
      @@ [s \in {"T", "D", "X", "Y"} |-> "tristate"] @@ [s \in {"N"} |-> "int"]
      @@ [s \in {"S"} |-> "string"]
MCConsts == {"y", "m", "n", "0", "5", "10", "defconfig"}

Entry(s) == << <<"config", s>>, <<"prompt", Null>> >>
Modules == << <<"config", "MOD">>, <<"prompt", Null>>, <<"modules">> >>

-----------------------------------------------------------------------------
(* The files the tools are run on.                                         *)

\* Modules, a tristate, and a choice with m.
Tristates ==
    Modules \o Entry("T")
      \o << <<"choice", "D">>, <<"prompt", Null>>, <<"optional">>, <<"open">> >>
      \o Entry("X") \o << <<"config", "Y">>, <<"prompt", Sym("T")>> >> \o << <<"end">> >>

\* select, imply, a bool choice in a submenu, and a default that is used when there is no
\* .config.
Selects ==
    << <<"config", "S">>, <<"defconfig_list">>, <<"default", Sym("defconfig"), Null>> >>
      \o Entry("A") \o << <<"select", "B", Null>>, <<"menuconfig">> >>
      \o Entry("B")
      \o << <<"choice", "C">>, <<"prompt", Sym("A")>>, <<"default", Sym("W"), Sym("B")>>, <<"open">> >>
      \o Entry("V") \o Entry("W") \o << <<"end">> >>

\* A number with a range, what depends on the number in a menu before it that is not always
\* seen, imply, a comment, a string that cannot be set.
Ranges ==
    Entry("A") \o << <<"imply", "T", Null>>, <<"allnoconfig_y">>,
                     <<"if", Sym("T")>>, <<"comment">>, <<"end">> >>
      \o << <<"menu">>, <<"visible", Sym("A")>>, <<"open">> >>
      \o Entry("T") \o << <<"depends", <<"=", "N", "5">> >>, <<"end">> >>
      \o Entry("N") \o << <<"range", "0", "5", Not(Sym("A"))>>, <<"range", "5", "10", Null>>,
                          <<"default", Sym("5"), Sym("A")>>, <<"default", Sym("10"), Null>> >>
      \o << <<"config", "S">>, <<"default", Sym("m"), Null>> >>

\* A number that is seen only with A, and whose default is another then.
Hidden ==
    Entry("A") \o << <<"config", "N">>, <<"prompt", Sym("A")>>,
                     <<"default", Sym("10"), Sym("A")>>, <<"default", Sym("5"), Null>> >>

MCConfigurable == {Tristates, Selects, Ranges, Hidden}

-----------------------------------------------------------------------------
(* The files of which the tree alone is looked at.                         *)

Atoms == {Sym("A"), Not(Sym("A")), <<"!=", "T", "n">>, <<"=", "T", "y">>, <<"=", "T", "m">>,
          <<"!=", "T", "m">>}
Outer == {Sym("A"), Not(Sym("T"))}
Conditions ==
    {Modules \o Entry("A") \o Entry("T") \o << <<"if", e>> >>
       \o << <<"config", s>>, <<"depends", <<op, f, g>> >>, <<"prompt", Null>>,
             <<"default", Yes, Sym("m")>>, <<"end">> >> :
     e \in Outer, f \in Atoms, g \in Atoms, op \in Junctions, s \in {"X", "B"}}

\* Three symbols, and what each of them may depend on.
Loops ==
    {Entry("A") \o << <<"depends", e>> >> \o Entry("B") \o << <<"default", f, g>> >>
       \o << <<"choice", "C">>, <<"prompt", h>>, <<"open">> >>
       \o << <<"config", "V">>, <<"prompt", Sym("A")>>, <<"select", s, Null>> >>
       \o Entry("W") \o << <<"end">> >> :
     e \in {Yes, Sym("B"), Sym("C")}, f \in {Yes, Sym("A")}, g \in {Yes, Sym("V")},
     h \in {Yes, Sym("B"), Not(Sym("W"))}, s \in {"A", "B", "W"}}

MCKconfigs == MCConfigurable \cup Conditions \cup Loops

MCAnswers == {[tri |-> [s \in DOMAIN MCSymType |-> x[1]], str |-> [s \in DOMAIN MCSymType |-> x[2]],
               pick |-> [s \in DOMAIN MCSymType |-> IF s = "C" THEN x[3] ELSE x[4]]] :
              x \in {<<2, "5", "V", "X">>, <<1, "10", "W", "Y">>}}
MCDraws == {[s \in DOMAIN MCSymType |-> IF s \in {"A", "MOD"} THEN 2 ELSE IF s = "D" THEN 1 ELSE 0]}

=============================================================================
