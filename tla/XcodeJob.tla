------------------------------ MODULE XcodeJob -------------------------------
(***************************************************************************)
(* common/agent/xcodejob.go: the Xcode installs a node runs for the        *)
(* server, one at a time.  A job checks the host, then makes up to three   *)
(* attempts to download, verify and extract the archive, each in a         *)
(* directory of its own, moves the extracted app to /Applications,         *)
(* activates it and probes it.  The context a job runs under ends with a   *)
(* cancel frame, its timeout, the stream or the process: one action here.  *)
(***************************************************************************)
EXTENDS Naturals, FiniteSets, Sequences

CONSTANTS
    Jobs,           \* job ids
    MaxAttempts,    \* maxAttempts, 3 in the code
    MaxXcodeRuns    \* bound: frames that launch a job

ASSUME XcodeAssumption == MaxAttempts \in Nat \ {0} /\ MaxXcodeRuns \in Nat

VARIABLES
    xcodeJobs,           \* the table: job ids registered
    xcodeRuns,           \* the goroutines launched, in order
    apps                 \* what /Applications/Xcode.app is

xcodeVars == <<xcodeJobs, xcodeRuns, apps>>

\* A directory of an attempt: absent, empty, with a sound or a damaged
\* archive, with a part of the app, with the whole app.
Contents == {"absent", "empty", "sound", "damaged", "half", "whole"}
XcodeRun == [id : Jobs,
        pc : {"checking", "attempt", "downloading", "verifying", "extracting",
              "moving", "activating", "probing", "finish", "delete", "gone"},
        try : 0..MaxAttempts, dirs : [1..MaxAttempts -> Contents],
        app : {"none", "half", "whole"}, ctxDone : BOOLEAN, stuck : BOOLEAN,
        leftover : BOOLEAN]

\* The state's shape, the number of attempts included.
XcodeTypeOK ==
    /\ xcodeJobs \subseteq Jobs
    /\ xcodeRuns \in Seq(XcodeRun) /\ Len(xcodeRuns) <= MaxXcodeRuns
    /\ apps \in {"none", "other", "half", "whole"}

XcodeInit ==
    /\ xcodeJobs = {}
    /\ xcodeRuns = <<>>
    /\ apps \in {"none", "other"}

XcodeLive(r) == xcodeRuns[r].pc # "gone"
NoDirs == [n \in 1..MaxAttempts |-> "absent"]

NewXcodeRun(j) ==
    [id |-> j, pc |-> "checking", try |-> 0, dirs |-> NoDirs, app |-> "none",
     ctxDone |-> FALSE, stuck |-> FALSE, leftover |-> FALSE]

\* A NodeHostToolJob that passes validation.  A dispatch of the running job is
\* accepted, of any other job refused; neither changes anything.
XcodeStart(j) ==
    /\ xcodeJobs = {} /\ Len(xcodeRuns) < MaxXcodeRuns
    /\ xcodeJobs' = xcodeJobs \cup {j}
    /\ xcodeRuns' = Append(xcodeRuns, NewXcodeRun(j))
    /\ UNCHANGED apps

\* Cancel, StopAll, the timeout or the end of the stream.
ContextEnds(r) ==
    /\ XcodeLive(r) /\ ~xcodeRuns[r].ctxDone
    /\ xcodeRuns' = [xcodeRuns EXCEPT ![r].ctxDone = TRUE]
    /\ UNCHANGED <<xcodeJobs, apps>>

\* runJob returns and its deferred RemoveAll takes the work directory away.
XcodeReturn(r) ==
    xcodeRuns' = [xcodeRuns EXCEPT ![r].pc = "finish", ![r].dirs = NoDirs]

\* Not macOS, already satisfied, no work directory, no room - or go on.
Checking(r) ==
    /\ xcodeRuns[r].pc = "checking" /\ ~xcodeRuns[r].stuck
    /\ \/ XcodeReturn(r)
       \/ xcodeRuns' = [xcodeRuns EXCEPT ![r].pc = "attempt"]
    /\ UNCHANGED <<xcodeJobs, apps>>

\* The loop's head: the context, a fresh directory, and the previous one is
\* removed - an error of that removal is ignored.
Attempt(r) ==
    LET n == xcodeRuns[r].try + 1
        Fresh == [xcodeRuns[r].dirs EXCEPT ![n] = "empty"]
        Dropped == [k \in 1..MaxAttempts |->
                        IF k = n - 1 THEN "absent" ELSE Fresh[k]]
    IN /\ xcodeRuns[r].pc = "attempt"
       /\ \/ XcodeReturn(r)
          \/ /\ ~xcodeRuns[r].ctxDone
             /\ \E failed \in BOOLEAN :
                  xcodeRuns' = [xcodeRuns EXCEPT ![r].pc = "downloading", ![r].try = n,
                      ![r].dirs = IF failed THEN Fresh ELSE Dropped,
                      ![r].leftover = @ \/ (failed /\ n > 1)]
       /\ UNCHANGED <<xcodeJobs, apps>>

\* A failed download ends the job at once; a completed one may be damaged.
Downloading(r) ==
    /\ xcodeRuns[r].pc = "downloading"
    /\ \/ XcodeReturn(r)
       \/ \E c \in {"sound", "damaged"} :
            xcodeRuns' = [xcodeRuns EXCEPT ![r].pc = "verifying",
                                 ![r].dirs[xcodeRuns[r].try] = c]
    /\ UNCHANGED <<xcodeJobs, apps>>

\* A failed check or extraction is retried while attempts are left.
Again(r) == xcodeRuns[r].try < MaxAttempts /\ ~xcodeRuns[r].ctxDone

Retry(r) ==
    IF Again(r)
    THEN xcodeRuns' = [xcodeRuns EXCEPT ![r].pc = "attempt"]
    ELSE XcodeReturn(r)

\* Checksum, size and magic number: a damaged archive may pass.
Verifying(r) ==
    /\ xcodeRuns[r].pc = "verifying"
    /\ \/ xcodeRuns[r].dirs[xcodeRuns[r].try] = "damaged" /\ Retry(r)
       \/ xcodeRuns' = [xcodeRuns EXCEPT ![r].pc = "extracting"]
    /\ UNCHANGED <<xcodeJobs, apps>>

\* Mutant: the app is looked for in the work directory, all attempts included.
Scan_workDir(dirs, n) == {dirs[k] : k \in DOMAIN dirs} \cap {"half", "whole"}

\* extractedXcodeApp: the apps found in the attempt's directory.
Scan(dirs, n) == {dirs[n]} \cap {"half", "whole"}

\* xip -x of a sound archive that is let finish.
ExtractOk(r) ==
    LET n == xcodeRuns[r].try
        dirs == [xcodeRuns[r].dirs EXCEPT ![n] = "whole"]
    IN /\ xcodeRuns[r].pc = "extracting" /\ xcodeRuns[r].dirs[n] = "sound"
       /\ \E a \in Scan(dirs, n) :
            xcodeRuns' = [xcodeRuns EXCEPT ![r].pc = "moving", ![r].app = a,
                                 ![r].dirs = dirs]
       /\ UNCHANGED <<xcodeJobs, apps>>

\* xip fails, is killed, or the heartbeat loop leaves it for the context's
\* end: a part of the app may be there.
ExtractFails(r) ==
    LET n == xcodeRuns[r].try
    IN /\ xcodeRuns[r].pc = "extracting"
       /\ \/ ~Again(r) /\ XcodeReturn(r)
          \/ /\ Again(r)
             /\ \E c \in {"half", xcodeRuns[r].dirs[n]} :
                  xcodeRuns' = [xcodeRuns EXCEPT ![r].pc = "attempt", ![r].dirs[n] = c]
       /\ UNCHANGED <<xcodeJobs, apps>>

\* An app at the destination is never overwritten; a rename may fail.
moveXcodeApp(r) ==
    \/ /\ apps = "none"
       /\ apps' = xcodeRuns[r].app
       /\ xcodeRuns' = [xcodeRuns EXCEPT ![r].pc = "activating",
                               ![r].dirs[xcodeRuns[r].try] = "empty"]
    \/ XcodeReturn(r) /\ UNCHANGED apps

Moving(r) == xcodeRuns[r].pc = "moving" /\ moveXcodeApp(r) /\ UNCHANGED xcodeJobs

\* xcode-select, first launch and licence: best effort, unless the toolchain
\* is missing.
Activating(r) ==
    /\ xcodeRuns[r].pc = "activating" /\ ~xcodeRuns[r].stuck
    /\ XcodeReturn(r) \/ xcodeRuns' = [xcodeRuns EXCEPT ![r].pc = "probing"]
    /\ UNCHANGED <<xcodeJobs, apps>>

Probing(r) ==
    /\ xcodeRuns[r].pc = "probing" /\ ~xcodeRuns[r].stuck
    /\ XcodeReturn(r)
    /\ UNCHANGED <<xcodeJobs, apps>>

\* exec waits for a killed command's descendants that hold its output, and
\* activateDeveloperDir runs its commands without the job's context.
XcodeStuck(r) ==
    /\ xcodeRuns[r].pc \in {"checking", "activating", "probing"}
    /\ xcodeRuns[r].ctxDone /\ ~xcodeRuns[r].stuck
    /\ xcodeRuns' = [xcodeRuns EXCEPT ![r].stuck = TRUE]
    /\ UNCHANGED <<xcodeJobs, apps>>

\* The event and the result frame, and then the job leaves the table.
XcodeFinish(r) ==
    /\ xcodeRuns[r].pc = "finish"
    /\ xcodeRuns' = [xcodeRuns EXCEPT ![r].pc = "delete"]
    /\ UNCHANGED <<xcodeJobs, apps>>

XcodeDelete(r) ==
    /\ xcodeRuns[r].pc = "delete"
    /\ xcodeJobs' = xcodeJobs \ {xcodeRuns[r].id}
    /\ xcodeRuns' = [xcodeRuns EXCEPT ![r] = [NewXcodeRun(@.id) EXCEPT !.pc = "gone"]]
    /\ UNCHANGED apps

\* The host's operator installs or removes an Xcode by hand.
Operator ==
    /\ apps' = IF apps = "none" THEN "other" ELSE "none"
    /\ UNCHANGED <<xcodeJobs, xcodeRuns>>

XcodeStep(r) == Attempt(r) \/ Verifying(r) \/ Moving(r) \/ XcodeFinish(r) \/ XcodeDelete(r)

\* Mutant: the extraction does not watch its context.
XcodeCommandEnds_notExtract(r) ==
    \/ Checking(r) \/ Downloading(r) \/ Activating(r) \/ Probing(r)
    \/ ~xcodeRuns[r].ctxDone /\ (ExtractOk(r) \/ ExtractFails(r))

\* The commands and the download: they may take for ever until the context
\* ends.
XcodeCommandEnds(r) ==
    \/ Checking(r) \/ Downloading(r) \/ ExtractOk(r) \/ ExtractFails(r)
    \/ Activating(r) \/ Probing(r)

XcodeNext ==
    \/ \E j \in Jobs : XcodeStart(j)
    \/ \E r \in DOMAIN xcodeRuns :
         ContextEnds(r) \/ XcodeStep(r) \/ XcodeCommandEnds(r) \/ XcodeStuck(r)
    \/ Operator

\* Goroutines run, the timeout fires, and what watches an ended context stops.
XcodeFairness ==
    \A r \in 1..MaxXcodeRuns :
        /\ WF_xcodeVars(r \in DOMAIN xcodeRuns /\ XcodeStep(r))
        /\ WF_xcodeVars(r \in DOMAIN xcodeRuns /\ ContextEnds(r))
        /\ WF_xcodeVars(/\ r \in DOMAIN xcodeRuns
                        /\ xcodeRuns[r].ctxDone /\ XcodeCommandEnds(r))

XcodeSpec == XcodeInit /\ [][XcodeNext]_xcodeVars /\ XcodeFairness

-----------------------------------------------------------------------------
\* Installs never overlap (Start, lines 93-97: they contend for /Applications
\* and disk), and the one in the table is the one that runs.
InstallsNeverOverlap ==
    /\ \A r, s \in DOMAIN xcodeRuns : XcodeLive(r) /\ XcodeLive(s) => r = s
    /\ xcodeJobs = {xcodeRuns[r].id : r \in {q \in DOMAIN xcodeRuns : XcodeLive(q)}}

\* What lands in /Applications is a completely extracted app, also after
\* failed attempts whose directory could not be removed (lines 265-267).
OnlyWholeInstalled == apps # "half"

\* Disk use stays at one attempt's peak (lines 286-288): two attempts are on
\* disk together only when the removal of the first failed.
OneAttemptOnDisk ==
    \A r \in DOMAIN xcodeRuns :
        xcodeRuns[r].leftover \/
        Cardinality({n \in 1..MaxAttempts :
                        xcodeRuns[r].dirs[n] \notin {"absent", "empty"}}) <= 1

\* A pre-existing install is never overwritten (moveXcodeApp, lines 739-741):
\* only the operator takes an app away.
ExistingIsKept == [][apps # "none" => apps' \in {apps, "none"}]_xcodeVars

\* A job ends whatever its commands do, by its timeout at the latest, unless a
\* killed command's descendant keeps the output pipe open or the commands of
\* activateDeveloperDir, which no timeout ends (line 412), do not return.
JobEnds ==
    \A r \in 1..MaxXcodeRuns :
        (r \in DOMAIN xcodeRuns) ~>
            (r \in DOMAIN xcodeRuns /\ (~XcodeLive(r) \/ xcodeRuns[r].stuck))
=============================================================================
