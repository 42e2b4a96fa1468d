--------------------------- MODULE ConfigFilesProofs ---------------------------
(* Proofs about ConfigFiles: whatever the tools write, and wherever they die,  *)
(* the last complete .config is kept, and what the objects were not built with *)
(* is touched.                                                                 *)
EXTENDS ConfigFiles, TLAPS

Job == [name : Configs, after : {"idle", "edit", "autoconf"}, sync : BOOLEAN]
TypeInv == pc \in Away \cup WritingSteps /\ job \in Job /\ DOMAIN disk = DiskFiles

\* The last complete .config is .config, or, while there is none, .config.old.
KeptInv ==
  /\ saved # Missing => saved = IF disk[".config"] # Missing THEN disk[".config"] ELSE disk[".config.old"]
  /\ pc = "replace" /\ job.name = ".config" => disk[".config"] = Missing

\* Touched is what makes auto.conf differ from what the objects were built with,
\* and, until the new auto.conf is there, what makes this one differ from it.
Covered(a, b) == Differing(a, b) \subseteq touched
TouchedInv ==
  /\ Covered(disk["auto.conf"], built)
  /\ pc \in {"header", "last"} => Covered(disk["auto.conf"], disk[".tmpconfig"])

FilesInv == TypeInv /\ KeptInv /\ TouchedInv

-----------------------------------------------------------------------------
(* Files that differ.                                                          *)

LEMMA SameLines == \A a : Differing(a, a) = {}
  BY DEF Differing

LEMMA DifferingIsSymmetric == \A a, b : Differing(a, b) = Differing(b, a)
  BY DEF Differing

\* Where a and c differ, b differs from one of them.
LEMMA DifferingByWay ==
  ASSUME NEW a, NEW b, NEW c
  PROVE  Differing(a, c) \subseteq Differing(a, b) \cup Differing(b, c)
<1> SUFFICES ASSUME NEW x \in Differing(a, c)
             PROVE  x \in Differing(a, b) \cup Differing(b, c)
  OBVIOUS
<1>1. PICK line \in (Lines(a) \ Lines(c)) \cup (Lines(c) \ Lines(a)) : x = line[1]
  BY DEF Differing
<1>2. \/ line \in (Lines(a) \ Lines(b)) \cup (Lines(b) \ Lines(a))
      \/ line \in (Lines(b) \ Lines(c)) \cup (Lines(c) \ Lines(b))
  BY <1>1
<1> QED BY <1>1, <1>2 DEF Differing

\* A rename, for the files it does not name.
LEMMA RenameFacts ==
  ASSUME NEW d, NEW from \in DOMAIN d, NEW to \in DOMAIN d, from # to
  PROVE  /\ DOMAIN Rename(d, from, to) = DOMAIN d
         /\ \A f \in DOMAIN d \ {from, to} : Rename(d, from, to)[f] = d[f]
         /\ Rename(d, from, to)[from] = Missing
         /\ Rename(d, from, to)[to] = IF d[from] = Missing THEN d[to] ELSE d[from]
  BY DEF Rename

LEMMA Names ==
  /\ {".config", ".config.old", "auto.conf", "autoconf.h", ".tmpconfig", ".tmpconfig.h", "defconfig"} \subseteq DiskFiles
  /\ {"auto.conf", "autoconf.h", ".config", ".config.old"} \cap Temporary = {}
  /\ \A n \in Configs :
       /\ {n, Old(n), Temp(n)} \subseteq DiskFiles
       /\ n # Old(n) /\ n # Temp(n) /\ Temp(n) \in Temporary
       /\ {n, Old(n), Temp(n)} \cap {"auto.conf", "autoconf.h", ".tmpconfig", ".tmpconfig.h", "defconfig"} = {}
       /\ n # ".config" => {n, Old(n), Temp(n)} \cap {".config", ".config.old"} = {}
       /\ Temp(n) \notin {".config", ".config.old"}
  /\ Old(".config") = ".config.old" /\ ".config" \in Configs
  BY DEF DiskFiles, Configs, Temporary, Old, Temp

-----------------------------------------------------------------------------
(* The invariant.                                                              *)

LEMMA Initially == FilesInit => FilesInv
<1> SUFFICES ASSUME FilesInit
             PROVE  FilesInv
  OBVIOUS
<1>1. disk = [f \in DiskFiles |-> Missing] /\ DOMAIN disk = DiskFiles
  BY DEF FilesInit
<1>2. TypeInv
  BY <1>1 DEF FilesInit, TypeInv, Away, Job, NoJob, Configs
<1>3. KeptInv
  BY DEF FilesInit, KeptInv
<1>4. disk["auto.conf"] = Missing
  BY <1>1, Names
<1>5. Lines(disk["auto.conf"]) = {} /\ Lines(built) = {}
  BY <1>4 DEF Lines, FilesInit
<1>6. TouchedInv
  BY <1>5 DEF TouchedInv, Covered, Differing, FilesInit
<1> QED BY <1>2, <1>3, <1>6 DEF FilesInv

\* A step that leaves .config, its backup and auto.conf alone.
Apart ==
  /\ DOMAIN disk' = DiskFiles
  /\ disk'[".config"] = disk[".config"] /\ disk'[".config.old"] = disk[".config.old"]
  /\ disk'["auto.conf"] = disk["auto.conf"]
  /\ touched \subseteq touched' /\ UNCHANGED <<built, saved>>

LEMMA ApartStep ==
  ASSUME FilesInv, Apart, TypeInv', pc' \notin {"replace", "header", "last"}
  PROVE  FilesInv'
<1>1. KeptInv'
  BY DEF KeptInv, Apart, FilesInv
<1>2. TouchedInv'
  BY DEF TouchedInv, Covered, Differing, Lines, Apart, FilesInv
<1> QED BY <1>1, <1>2 DEF FilesInv

LEMMA JobFacts ==
  ASSUME job \in Job
  PROVE  job.name \in Configs /\ job.after \in {"idle", "edit", "autoconf"}
         /\ job.after \in (Away \cup WritingSteps) \ {"replace", "header", "last"}
  BY DEF Job, Away, WritingSteps

LEMMA WriteTempStep ==
  ASSUME FilesInv, NEW lines, WriteTemp(lines)
  PROVE  FilesInv'
<1>1. job.name \in Configs /\ job.after \in (Away \cup WritingSteps) \ {"replace", "header", "last"}
  BY JobFacts DEF FilesInv, TypeInv
<1>2. disk' \in {disk, [disk EXCEPT ![Temp(job.name)] = lines]} /\ pc' \in {job.after, "backup"}
      /\ UNCHANGED <<job, touched, built, saved>>
  BY DEF WriteTemp
<1>3. DOMAIN disk' = DiskFiles /\ \A f \in DiskFiles \ {Temp(job.name)} : disk'[f] = disk[f]
  BY <1>2 DEF FilesInv, TypeInv
<1>4. Apart
  BY <1>1, <1>2, <1>3, Names DEF Apart
<1>5. TypeInv'
  BY <1>1, <1>2, <1>3 DEF FilesInv, TypeInv, WritingSteps
<1> QED BY <1>1, <1>2, <1>4, <1>5, ApartStep

\* The backup of .config takes its place, that of another file does not touch it.
LEMMA BackupStep ==
  ASSUME FilesInv, Backup
  PROVE  FilesInv'
<1> DEFINE n == job.name
<1>1. n \in Configs /\ n \in DiskFiles /\ Old(n) \in DiskFiles /\ n # Old(n) /\ DOMAIN disk = DiskFiles
  BY JobFacts, Names DEF FilesInv, TypeInv
<1>2. disk' = Rename(disk, n, Old(n)) /\ pc' = "replace" /\ UNCHANGED <<job, touched, built, saved>>
  BY DEF Backup
<1>3. /\ DOMAIN disk' = DiskFiles
      /\ \A f \in DiskFiles \ {n, Old(n)} : disk'[f] = disk[f]
      /\ disk'[n] = Missing /\ disk'[Old(n)] = IF disk[n] = Missing THEN disk[Old(n)] ELSE disk[n]
  BY <1>1, <1>2, RenameFacts
<1>4. TypeInv'
  BY <1>2, <1>3 DEF FilesInv, TypeInv, WritingSteps
<1>5. KeptInv'
  <2>1. CASE n = ".config"
    BY <1>2, <1>3, <2>1, Names DEF FilesInv, KeptInv
  <2>2. CASE n # ".config"
    BY <1>1, <1>2, <1>3, <2>2, Names DEF FilesInv, KeptInv
  <2> QED BY <2>1, <2>2
<1>6. disk'["auto.conf"] = disk["auto.conf"]
  BY <1>1, <1>3, Names
<1>7. TouchedInv'
  BY <1>2, <1>6 DEF FilesInv, TouchedInv, Covered, Differing, Lines
<1> QED BY <1>4, <1>5, <1>7 DEF FilesInv

LEMMA ReplaceStep ==
  ASSUME FilesInv, Replace
  PROVE  FilesInv'
<1> DEFINE n == job.name
<1>1. n \in Configs /\ {n, Temp(n)} \subseteq DiskFiles /\ n # Temp(n) /\ DOMAIN disk = DiskFiles
      /\ job.after \in (Away \cup WritingSteps) \ {"replace", "header", "last"}
  BY JobFacts, Names DEF FilesInv, TypeInv
<1>2. disk' = Rename(disk, Temp(n), n) /\ pc' = job.after /\ UNCHANGED <<job, touched, built>>
      /\ saved' = (IF n = ".config" THEN disk[Temp(n)] ELSE saved) /\ pc = "replace"
  BY DEF Replace
<1>3. /\ DOMAIN disk' = DiskFiles
      /\ \A f \in DiskFiles \ {n, Temp(n)} : disk'[f] = disk[f]
      /\ disk'[n] = IF disk[Temp(n)] = Missing THEN disk[n] ELSE disk[Temp(n)]
  BY <1>1, <1>2, RenameFacts
<1>4. TypeInv'
  BY <1>1, <1>2, <1>3 DEF FilesInv, TypeInv
<1>5. KeptInv'
  <2>1. CASE n = ".config"
    <3>1. saved' = disk[Temp(n)]
      BY <1>2, <2>1
    <3>2. saved' # Missing => disk'[".config"] = saved'
      BY <1>3, <2>1, <3>1
    <3> QED BY <1>1, <1>2, <3>2 DEF KeptInv
  <2>2. CASE n # ".config"
    BY <1>1, <1>2, <1>3, <2>2, Names DEF FilesInv, KeptInv
  <2> QED BY <2>1, <2>2
<1>6. disk'["auto.conf"] = disk["auto.conf"]
  BY <1>1, <1>3, Names
<1>7. TouchedInv'
  BY <1>1, <1>2, <1>6 DEF FilesInv, TouchedInv, Covered, Differing, Lines
<1> QED BY <1>4, <1>5, <1>7 DEF FilesInv

\* What is written to the new auto.conf is another line only for what is touched.
LEMMA WriteTempsStep ==
  ASSUME FilesInv, NEW lines, Differing(disk["auto.conf"], lines) \subseteq touched, WriteTemps(lines)
  PROVE  FilesInv'
<1>1. disk' = [disk EXCEPT ![".tmpconfig"] = lines, ![".tmpconfig.h"] = lines] /\ pc' = "header"
      /\ UNCHANGED <<job, touched, built, saved>> /\ DOMAIN disk = DiskFiles
  BY DEF WriteTemps, FilesInv, TypeInv
<1>2. /\ DOMAIN disk' = DiskFiles /\ disk'[".tmpconfig"] = lines
      /\ \A f \in DiskFiles \ {".tmpconfig", ".tmpconfig.h"} : disk'[f] = disk[f]
  BY <1>1, Names
<1>3. /\ disk'["auto.conf"] = disk["auto.conf"] /\ disk'[".config"] = disk[".config"]
      /\ disk'[".config.old"] = disk[".config.old"]
  BY <1>2, Names
<1>4. TypeInv'
  BY <1>1, <1>2 DEF FilesInv, TypeInv, WritingSteps
<1>5. KeptInv'
  BY <1>1, <1>3 DEF FilesInv, KeptInv
<1>6. TouchedInv'
  <2>1. touched' = touched /\ built' = built /\ disk'["auto.conf"] = disk["auto.conf"]
        /\ disk'[".tmpconfig"] = lines
    BY <1>1, <1>2, <1>3
  <2>2. Differing(disk["auto.conf"], built)' = Differing(disk["auto.conf"], built)
    BY <2>1 DEF Differing, Lines
  <2>3. Differing(disk["auto.conf"], disk[".tmpconfig"])' = Differing(disk["auto.conf"], lines)
    BY <2>1 DEF Differing, Lines
  <2> QED BY <2>1, <2>2, <2>3 DEF FilesInv, TouchedInv, Covered
<1> QED BY <1>4, <1>5, <1>6 DEF FilesInv

LEMMA RenameHeaderStep ==
  ASSUME FilesInv, RenameHeader
  PROVE  FilesInv'
<1>1. disk' = Rename(disk, ".tmpconfig.h", "autoconf.h") /\ pc' = "last" /\ pc = "header"
      /\ UNCHANGED <<job, touched, built, saved>> /\ DOMAIN disk = DiskFiles
  BY DEF RenameHeader, FilesInv, TypeInv
<1>2. DOMAIN disk' = DiskFiles /\ \A f \in DiskFiles \ {".tmpconfig.h", "autoconf.h"} : disk'[f] = disk[f]
  <2>1. ".tmpconfig.h" \in DOMAIN disk /\ "autoconf.h" \in DOMAIN disk
    BY <1>1, Names
  <2> QED BY <1>1, <2>1, RenameFacts
<1>3. /\ disk'["auto.conf"] = disk["auto.conf"] /\ disk'[".config"] = disk[".config"]
      /\ disk'[".config.old"] = disk[".config.old"] /\ disk'[".tmpconfig"] = disk[".tmpconfig"]
  BY <1>2, Names
<1>4. TypeInv'
  BY <1>1, <1>2 DEF FilesInv, TypeInv, WritingSteps
<1>5. KeptInv'
  BY <1>1, <1>3 DEF FilesInv, KeptInv
<1>6. TouchedInv'
  <2>1. UNCHANGED <<Covered(disk["auto.conf"], built), Covered(disk["auto.conf"], disk[".tmpconfig"])>>
    BY <1>1, <1>3 DEF Covered, Differing, Lines
  <2> QED BY <1>1, <2>1 DEF FilesInv, TouchedInv
<1> QED BY <1>4, <1>5, <1>6 DEF FilesInv

\* The step that makes the new configuration the one to build.
LEMMA RenameAutoconfStep ==
  ASSUME FilesInv, RenameAutoconf
  PROVE  FilesInv'
<1>1. disk' = Rename(disk, ".tmpconfig", "auto.conf") /\ pc' = "idle" /\ job' = NoJob /\ pc = "last"
      /\ UNCHANGED <<touched, built, saved>> /\ DOMAIN disk = DiskFiles
  BY DEF RenameAutoconf, Leave, FilesInv, TypeInv
<1>2. /\ DOMAIN disk' = DiskFiles /\ \A f \in DiskFiles \ {".tmpconfig", "auto.conf"} : disk'[f] = disk[f]
      /\ disk'["auto.conf"] = IF disk[".tmpconfig"] = Missing THEN disk["auto.conf"] ELSE disk[".tmpconfig"]
  <2>1. ".tmpconfig" \in DOMAIN disk /\ "auto.conf" \in DOMAIN disk
    BY <1>1, Names
  <2> QED BY <1>1, <2>1, RenameFacts
<1>3. disk'[".config"] = disk[".config"] /\ disk'[".config.old"] = disk[".config.old"]
  BY <1>2, Names
<1>4. TypeInv'
  BY <1>1, <1>2 DEF TypeInv, Away, Job, NoJob, Configs
<1>5. KeptInv'
  BY <1>1, <1>3 DEF FilesInv, KeptInv
<1>6. Covered(disk[".tmpconfig"], built)
  BY <1>1, DifferingByWay, DifferingIsSymmetric DEF FilesInv, TouchedInv, Covered
<1>7. TouchedInv'
  <2>1. disk'["auto.conf"] \in {disk["auto.conf"], disk[".tmpconfig"]}
    BY <1>2
  <2>2. Differing(disk'["auto.conf"], built) \subseteq touched
    BY <1>6, <2>1 DEF FilesInv, TouchedInv, Covered
  <2>3. Covered(disk["auto.conf"], built)' = (Differing(disk'["auto.conf"], built) \subseteq touched)
    BY <1>1 DEF Covered, Differing, Lines
  <2> QED BY <1>1, <2>2, <2>3 DEF TouchedInv
<1> QED BY <1>4, <1>5, <1>7 DEF FilesInv

LEMMA CrashStep ==
  ASSUME FilesInv, NEW names, Crash(names)
  PROVE  FilesInv'
<1>1. disk' = [f \in DiskFiles |-> IF f \in Temporary THEN Missing ELSE disk[f]] /\ pc' = "idle" /\ job' = NoJob
      /\ touched' = touched \cup names /\ UNCHANGED <<built, saved>>
  BY DEF Crash, Leave
<1>2. Apart
  BY <1>1, Names DEF Apart
<1>3. TypeInv'
  BY <1>1 DEF TypeInv, Away, Job, NoJob, Configs
<1> QED BY <1>1, <1>2, <1>3, ApartStep

\* The objects are built with the header, which is auto.conf.
LEMMA BuildStep ==
  ASSUME FilesInv, Build
  PROVE  FilesInv'
<1>1. built' = disk["auto.conf"] /\ disk' = disk /\ pc = "idle" /\ UNCHANGED <<pc, job, saved>>
  BY DEF Build
<1>2. TypeInv' /\ KeptInv'
  BY <1>1 DEF FilesInv, TypeInv, KeptInv
<1>3. Differing(disk["auto.conf"], built)' = Differing(disk["auto.conf"], disk["auto.conf"])
  BY <1>1 DEF Differing, Lines
<1>4. TouchedInv'
  BY <1>1, <1>3, SameLines DEF TouchedInv, Covered
<1> QED BY <1>2, <1>4 DEF FilesInv

\* The steps that write none of these files.
LEMMA OtherStep ==
  ASSUME FilesInv, UNCHANGED <<built, saved>>, touched \subseteq touched',
         DOMAIN disk' = DiskFiles, \A f \in DiskFiles \ {"defconfig"} : disk'[f] = disk[f],
         job' \in Job, pc' \in (Away \cup WritingSteps) \ {"replace", "header", "last"}
  PROVE  FilesInv'
<1>1. Apart
  BY Names DEF Apart
<1>2. TypeInv'
  BY DEF TypeInv
<1> QED BY <1>1, <1>2, ApartStep

LEMMA Step ==
  ASSUME FilesInv, [FilesNext]_filesVars
  PROVE  FilesInv'
<1> USE DEF Away, WritingSteps
<1>1. job \in Job /\ DOMAIN disk = DiskFiles /\ pc \in Away \cup WritingSteps
  BY DEF FilesInv, TypeInv
<1>2. CASE Runs
  BY <1>1, <1>2, OtherStep DEF Runs
<1>3. ASSUME NEW name \in Configs, NEW after \in {"edit", "autoconf"}, NEW sync \in BOOLEAN, Write(name, after, sync)
      PROVE  FilesInv'
  <2>1. [name |-> name, after |-> after, sync |-> sync] \in Job
    BY DEF Job
  <2> QED BY <1>1, <1>3, <2>1, OtherStep DEF Write
<1>4. ASSUME NEW lines, WriteDefconfig(lines)
      PROVE  FilesInv'
  BY <1>1, <1>4, OtherStep DEF WriteDefconfig
<1>5. CASE SkipAutoconf
  BY <1>1, <1>5, OtherStep DEF SkipAutoconf, Leave, NoJob, Job, Configs
<1>6. ASSUME NEW names, TouchDeps(names)
      PROVE  FilesInv'
  BY <1>1, <1>6, OtherStep DEF TouchDeps
<1>7. CASE UNCHANGED filesVars
  BY <1>7 DEF filesVars, FilesInv, TypeInv, KeptInv, TouchedInv, Covered, Differing, Lines
<1>8. CASE \/ \E lines \in {disk[job.name], disk'[Temp(job.name)]} : WriteTemp(lines)
           \/ Backup \/ Replace
           \/ Differing(disk["auto.conf"], disk'[".tmpconfig"]) \subseteq touched /\ WriteTemps(disk'[".tmpconfig"])
           \/ RenameHeader \/ RenameAutoconf \/ Crash(touched') \/ Build
  BY <1>8, WriteTempStep, BackupStep, ReplaceStep, WriteTempsStep, RenameHeaderStep, RenameAutoconfStep, CrashStep,
     BuildStep
<1> QED BY <1>2, <1>3, <1>4, <1>5, <1>6, <1>7, <1>8 DEF FilesNext

(* The invariant, for any lines in the files and any number of writings and     *)
(* crashes (conf_write and conf_write_autoconf, confdata.c).                     *)
THEOREM Invariant == FilesSpec => []FilesInv
<1>1. FilesInit => FilesInv
  BY Initially
<1>2. FilesInv /\ [FilesNext]_filesVars => FilesInv'
  BY Step
<1> QED BY <1>1, <1>2, PTL DEF FilesSpec

(* A .config that conf_write has replaced is .config or .config.old, wherever    *)
(* the tool dies afterwards and however often.                                  *)
THEOREM ConfigNeverLostHolds == FilesSpec => []ConfigNeverLost
<1>1. FilesInv => ConfigNeverLost
  BY DEF FilesInv, KeptInv, ConfigNeverLost
<1> QED BY <1>1, Invariant, PTL

(* Between two runs, a line of auto.conf with which the objects were not built   *)
(* has its symbol's file touched: the order of conf_write_autoconf, with its     *)
(* crashes, loses no change.                                                    *)
THEOREM ChangedIsTouchedHolds == FilesSpec => []ChangedIsTouched
<1>1. FilesInv => ChangedIsTouched
  BY DEF FilesInv, TouchedInv, Covered, ChangedIsTouched
<1> QED BY <1>1, Invariant, PTL
=============================================================================
