------------------------------ MODULE ConfigDisk ------------------------------
(***************************************************************************)
(* The files of the configuration tool (confdata.c), by name.              *)
(***************************************************************************)
CONSTANT Missing    \* a file that does not exist; one that does is a sequence of <<name, value>>

\* "alt" is what a user names who does not save to .config.
Configs == {".config", "alt"}
Old(name) == IF name = ".config" THEN ".config.old" ELSE "alt.old"
Temp(name) == IF name = ".config" THEN ".config.tmp" ELSE "alt.tmp"
Temporary == {".config.tmp", "alt.tmp", ".tmpconfig", ".tmpconfig.h"}
DiskFiles == Configs \cup {".config.old", "alt.old"} \cup Temporary
               \cup {"defconfig", "auto.conf", "autoconf.h"}

Rename(d, from, to) == IF d[from] = Missing THEN d
                       ELSE [d EXCEPT ![to] = d[from], ![from] = Missing]

\* The names of the lines in which two files differ.
Lines(file) == IF file = Missing THEN {} ELSE {file[i] : i \in DOMAIN file}
Differing(a, b) == {line[1] : line \in (Lines(a) \ Lines(b)) \cup (Lines(b) \ Lines(a))}
=============================================================================
