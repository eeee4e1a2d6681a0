---------------------------- MODULE StagedInstall ----------------------------
(***************************************************************************)
(* common/agent/runtimeupgrade.go and hosttool.go: RuntimeUpgrade and      *)
(* installHostNodeJS replace a managed directory by the same steps.  The   *)
(* archive is downloaded and extracted into a sibling staging directory;   *)
(* once that is validated, the current directory is moved aside, the       *)
(* staged one renamed into place and the old one removed.  Every frame     *)
(* runs in a goroutine of its own; nothing keeps two from overlapping.     *)
(* Directories are "none", "old", "new", and when half extracted "part",   *)
(* which may have the entry point that is validated, or "bare", without.   *)
(***************************************************************************)
EXTENDS Naturals

CONSTANTS
    Installers,     \* goroutines of upgrade frames
    MaxFaults       \* bound: process ends and activations that fail

VARIABLES
    current, backup, stage,  \* the managed directory, its .old and its .new
    archive,        \* the downloaded file: "none", "good", or "bad" when it has
                    \* no entry point or is no archive
    open,           \* the file each installer extracts
    installPc,      \* where each installer is
    faults

installVars == <<current, backup, stage, archive, open, installPc, faults>>
Dirs == {"none", "old", "new", "part", "bare"}
WholeInstall == {"old", "new"}

\* The state's shape.
InstallTypeOK ==
    /\ current \in Dirs /\ backup \in Dirs /\ stage \in Dirs
    /\ archive \in {"none", "good", "bad"}
    /\ open \in [Installers -> {"good", "bad"}]
    /\ installPc \in [Installers -> {"idle", "download", "verify", "extract", "rest",
                              "validate", "drop", "aside", "activate", "clean"}]
    /\ faults \in 0..MaxFaults

InstallInit ==
    /\ current = "old" /\ backup = "none" /\ stage = "none"
    /\ archive = "none" /\ faults = 0
    /\ open = [i \in Installers |-> "bad"]
    /\ installPc = [i \in Installers |-> "idle"]

InstallGoto(i, l) == installPc' = [installPc EXCEPT ![i] = l]

Step(i, from, to) == installPc[i] = from /\ InstallGoto(i, to)

\* The deferred removal of the archive; the answer is sent.
Return(i) == archive' = "none" /\ InstallGoto(i, "idle")

\* A frame: leftovers of an earlier attempt are removed first.
InstallFrame(i) ==
    /\ Step(i, "idle", "download")
    /\ archive' = "none" /\ stage' = "none"
    /\ UNCHANGED <<current, backup, open, faults>>

DownloadArchive(i) ==
    /\ \/ \E a \in {"good", "bad"} : archive' = a /\ Step(i, "download", "verify")
       \/ installPc[i] = "download" /\ Return(i)
    /\ UNCHANGED <<current, backup, stage, open, faults>>

\* The checksum, when the frame (or the mirror's list) has one.
Verify(i) ==
    /\ \/ archive # "none" /\ Step(i, "verify", "extract") /\ UNCHANGED archive
       \/ archive # "good" /\ installPc[i] = "verify" /\ Return(i)
    /\ UNCHANGED <<current, backup, stage, open, faults>>

\* The archive is opened and its first entries are on disk.
Extract(i) ==
    /\ \/ /\ archive # "none" /\ Step(i, "extract", "rest")
          /\ open' = [open EXCEPT ![i] = archive]
          /\ stage' = IF archive = "bad" THEN "bare" ELSE "part"
          /\ UNCHANGED archive
       \/ installPc[i] = "extract" /\ stage' = "none" /\ Return(i) /\ UNCHANGED open
    /\ UNCHANGED <<current, backup, faults>>

\* The rest of the entries.  What another installer removed of the directory
\* meanwhile is missing.
RestWritten ==
    CASE stage = "part" -> {"new"}
      [] stage = "bare" -> {"part"}
      [] stage = "none" -> {"part", "bare"}
      [] OTHER -> {stage}

\* A failure removes the directory.
Rest(i) ==
    /\ \/ /\ Step(i, "rest", "validate")
          /\ \/ open[i] = "good" /\ stage' \in RestWritten
             \/ open[i] = "bad" /\ UNCHANGED stage
          /\ UNCHANGED archive
       \/ installPc[i] = "rest" /\ stage' = "none" /\ Return(i)
    /\ UNCHANGED <<current, backup, open, faults>>

\* The entry point (dist/cli.js, bin/node) is looked for.
Validate(i) ==
    /\ \/ /\ stage \in {"new", "part"}
          /\ Step(i, "validate", "drop") /\ UNCHANGED <<stage, archive>>
       \/ stage # "new" /\ installPc[i] = "validate" /\ stage' = "none" /\ Return(i)
    /\ UNCHANGED <<current, backup, open, faults>>

DropBackup(i) ==
    /\ Step(i, "drop", "aside")
    /\ backup' = "none"
    /\ UNCHANGED <<current, stage, archive, open, faults>>

\* Mutant: the current directory is removed instead of moved aside.
MoveAside_removes(i) ==
    /\ Step(i, "aside", "activate")
    /\ current' = "none"
    /\ UNCHANGED <<backup, stage, archive, open, faults>>

\* Rename onto a directory that is not there any more cannot replace one that is.
MoveAside(i) ==
    /\ \/ /\ current = "none" /\ Step(i, "aside", "activate")
          /\ UNCHANGED <<current, backup, stage, archive>>
       \/ /\ current # "none" /\ backup = "none" /\ Step(i, "aside", "activate")
          /\ backup' = current /\ current' = "none"
          /\ UNCHANGED <<stage, archive>>
       \/ /\ current # "none" /\ installPc[i] = "aside"
          /\ stage' = "none" /\ Return(i)
          /\ UNCHANGED <<current, backup>>
    /\ UNCHANGED <<open, faults>>

\* The staged directory becomes the current one.
ActivateOk(i) ==
    /\ stage # "none" /\ current = "none"
    /\ Step(i, "activate", "clean")
    /\ current' = stage /\ stage' = "none"
    /\ UNCHANGED <<backup, archive, open, faults>>

\* It cannot be renamed: what was moved aside is moved back, which may fail too.
ActivateFails(i) ==
    /\ installPc[i] = "activate"
    /\ faults < MaxFaults /\ faults' = faults + 1
    /\ \/ /\ backup # "none" /\ current = "none"
          /\ current' = backup /\ backup' = "none"
       \/ UNCHANGED <<current, backup>>
    /\ Return(i)
    /\ UNCHANGED <<stage, open>>

CleanUp(i) ==
    /\ installPc[i] = "clean"
    /\ backup' = "none"
    /\ Return(i)
    /\ UNCHANGED <<current, stage, open, faults>>

\* The process ends, between any two steps, and starts again.
InstallRestart ==
    /\ faults < MaxFaults
    /\ faults' = faults + 1
    /\ installPc' = [i \in Installers |-> "idle"]
    /\ UNCHANGED <<current, backup, stage, archive, open>>

InstallNext ==
    \/ \E i \in Installers :
         \/ InstallFrame(i) \/ DownloadArchive(i) \/ Verify(i) \/ Extract(i) \/ Rest(i)
         \/ Validate(i) \/ DropBackup(i) \/ MoveAside(i)
         \/ ActivateOk(i) \/ ActivateFails(i) \/ CleanUp(i)
    \/ InstallRestart

InstallSpec == InstallInit /\ [][InstallNext]_installVars

-----------------------------------------------------------------------------
\* The launcher (resolveRuntimeLauncher) takes the managed directory as soon as
\* it has the entry point: what is there is a whole installation, whatever
\* failed or ended the process before.
InstalledIsWhole == current \in WholeInstall \cup {"none"}

\* runtimeupgrade.go:163-164: after one fault (an ended process, an activation
\* that fails, rolled back or not) some whole installation is still on disk: in place, set aside, or
\* staged by an installer that is about to activate it.
InstallKept ==
    \/ current \in WholeInstall \/ backup \in WholeInstall
    \/ stage = "new" /\ \E i \in Installers : installPc[i] \in {"aside", "activate"}
=============================================================================
