----------------------------- MODULE ConfigFiles -----------------------------
(***************************************************************************)
(* The files of the configuration tool (confdata.c) and the order in which *)
(* they are written: .config by way of a temporary file and a backup, then *)
(* the files of the symbols that changed, autoconf.h and last auto.conf. A *)
(* tool may die between any two of these steps.                            *)
(*                                                                         *)
(* What the files say is left to Kconfig, which is composed of the actions *)
(* below; FilesSpec is these actions with any lines in the files, and says *)
(* only of auto.conf what has to be touched before it is written.          *)
(*                                                                         *)
(*   pc      what the tool does next: "start" before a Kconfig file is     *)
(*           chosen, "rejected" after one with a dependency loop, "idle"   *)
(*           between two runs, "edit" in mconf, and the steps of writing   *)
(*   job     what is written: [name, after, sync]                          *)
(*   disk    the files; the temporary ones have fixed names here           *)
(*   touched the files include/config/X touched and not yet built from     *)
(*   built   the header the objects were last built with                   *)
(*   saved   the last .config that was written completely                  *)
(***************************************************************************)
EXTENDS ConfigDisk

VARIABLES pc, job, disk, touched, built, saved
filesVars == <<pc, job, disk, touched, built, saved>>

NoJob == [name |-> ".config", after |-> "idle", sync |-> FALSE]

FilesInit == /\ pc = "start" /\ job = NoJob
             /\ disk = [f \in DiskFiles |-> Missing]
             /\ touched = {} /\ built = <<>> /\ saved = Missing

-----------------------------------------------------------------------------
(* conf_write: the temporary file, and nothing else if it is the same; then *)
(* the rename of the old file, which need not exist, and of the new one.    *)

Write(name, after, sync) ==
    /\ pc' = "write" /\ job' = [name |-> name, after |-> after, sync |-> sync]
    /\ UNCHANGED <<disk, touched, built, saved>>

Unaltered(lines) == disk[job.name] = lines
WriteTemp(lines) ==
    /\ pc = "write"
    /\ disk' = IF Unaltered(lines) THEN disk ELSE [disk EXCEPT ![Temp(job.name)] = lines]
    /\ pc' = IF Unaltered(lines) THEN job.after ELSE "backup"
    /\ UNCHANGED <<job, touched, built, saved>>

\* Mutant: the old file is removed.
BackupByUnlink == /\ pc = "backup"
                  /\ disk' = [disk EXCEPT ![job.name] = Missing]
                  /\ pc' = "replace"
                  /\ UNCHANGED <<job, touched, built, saved>>
Backup == /\ pc = "backup"
          /\ disk' = Rename(disk, job.name, Old(job.name))
          /\ pc' = "replace"
          /\ UNCHANGED <<job, touched, built, saved>>
Replace == /\ pc = "replace"
           /\ disk' = Rename(disk, Temp(job.name), job.name)
           /\ pc' = job.after
           /\ saved' = IF job.name = ".config" THEN disk[Temp(job.name)] ELSE saved
           /\ UNCHANGED <<job, touched, built>>

\* conf_write_defconfig
WriteDefconfig(lines) == /\ pc = "idle"
                         /\ disk' = [disk EXCEPT !["defconfig"] = lines]
                         /\ UNCHANGED <<pc, job, touched, built, saved>>

-----------------------------------------------------------------------------
(* conf_write_autoconf. Without syncconfig it only makes an auto.conf where *)
(* there is none.                                                           *)

Leave == pc' = "idle" /\ job' = NoJob
Skip == ~job.sync /\ disk["auto.conf"] # Missing
SkipAutoconf == pc = "autoconf" /\ Skip /\ Leave /\ UNCHANGED <<disk, touched, built, saved>>

TouchDeps(names) == /\ pc = "autoconf" /\ ~Skip
                    /\ touched' = touched \cup names
                    /\ pc' = "tempfiles"
                    /\ UNCHANGED <<job, disk, built, saved>>
WriteTemps(lines) == /\ pc = "tempfiles"
                     /\ disk' = [disk EXCEPT ![".tmpconfig"] = lines, ![".tmpconfig.h"] = lines]
                     /\ pc' = "header"
                     /\ UNCHANGED <<job, touched, built, saved>>
RenameHeader == /\ pc = "header"
                /\ disk' = Rename(disk, ".tmpconfig.h", "autoconf.h")
                /\ pc' = "last"
                /\ UNCHANGED <<job, touched, built, saved>>
RenameAutoconf == /\ pc = "last"
                  /\ disk' = Rename(disk, ".tmpconfig", "auto.conf")
                  /\ Leave
                  /\ UNCHANGED <<touched, built, saved>>

-----------------------------------------------------------------------------
\* A tool dies while it writes; of the files to touch, it has touched some. The temporary
\* files it leaves are not looked at by any later run: they have its pid, or are made anew.
WritingSteps == {"write", "backup", "replace", "autoconf", "tempfiles", "header", "last"}
Crash(names) == /\ pc \in WritingSteps
                /\ Leave
                /\ touched' = touched \cup names
                /\ disk' = [f \in DiskFiles |-> IF f \in Temporary THEN Missing ELSE disk[f]]
                /\ UNCHANGED <<built, saved>>

\* The build the comments of confdata.c speak of: it starts once auto.conf is there, and
\* rebuilds what depends on a touched file.
Build == /\ pc = "idle" /\ disk["auto.conf"] # Missing
         /\ touched # {} /\ disk["auto.conf"] = disk["autoconf.h"]
         /\ built' = disk["autoconf.h"] /\ touched' = {}
         /\ UNCHANGED <<pc, job, disk, saved>>

-----------------------------------------------------------------------------
\* What is done between two writings, of which the files show nothing.
Away == {"start", "rejected", "idle", "edit"}
Runs == pc \in Away /\ pc' \in Away /\ UNCHANGED <<job, disk, touched, built, saved>>

\* The lines and the names are whatever the step puts on the disk. What conf_touch_deps has
\* to achieve is stated where it is needed: WriteTemps only follows when every symbol whose
\* line is another in the new auto.conf has been touched.
FilesNext ==
    \/ Runs
    \/ /\ pc \in Away
       /\ \E name \in Configs, after \in {"edit", "autoconf"}, sync \in BOOLEAN : Write(name, after, sync)
    \/ WriteDefconfig(disk'["defconfig"])
    \/ \E lines \in {disk[job.name], disk'[Temp(job.name)]} : WriteTemp(lines)
    \/ Backup \/ Replace
    \/ SkipAutoconf \/ TouchDeps(touched')
    \/ Differing(disk["auto.conf"], disk'[".tmpconfig"]) \subseteq touched /\ WriteTemps(disk'[".tmpconfig"])
    \/ RenameHeader \/ RenameAutoconf
    \/ Crash(touched') \/ Build

\* The file protocol: nothing is on the disk at first, and the tools change it by the steps
\* above alone, in their order, a crash between any two; before auto.conf is written anew
\* (conf_write_autoconf), all that is different in it has been touched.
FilesSpec == FilesInit /\ [][FilesNext]_filesVars

-----------------------------------------------------------------------------
\* A .config that was written completely is there until the next one is, as .config or as
\* .config.old, wherever the tools die.
ConfigNeverLost == saved # Missing => saved \in {disk[".config"], disk[".config.old"]}

\* Once auto.conf and autoconf.h are of one run, every symbol whose value is not the one the
\* objects were built with has its file touched; and so has, before auto.conf is replaced
\* (conf_write_autoconf, after conf_touch_deps), every symbol whose line is about to change in it.
ChangedIsTouched ==
    /\ pc = "idle" /\ disk["auto.conf"] = disk["autoconf.h"] /\ disk["auto.conf"] # Missing =>
          Differing(disk["autoconf.h"], built) \subseteq touched
    /\ pc \in {"header", "last"} => Differing(disk["auto.conf"], disk[".tmpconfig"]) \subseteq touched
=============================================================================
