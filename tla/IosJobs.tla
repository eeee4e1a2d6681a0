------------------------------ MODULE IosJobs ------------------------------
(***************************************************************************)
(* WDA jobs of an iOS host (src/common/ioshost/wdajob.go), from the frame  *)
(* that starts one (frames.go) to its result, with what they do to the     *)
(* device's wda_state (manager.go) and to the tunnel agent, which pauses   *)
(* while jobs run.                                                         *)
(*                                                                         *)
(* The dispatch loop notes the job on the device, registers it and calls   *)
(* OnActiveChanged after unlocking; a job's goroutine sends its result,    *)
(* notes it on the device, leaves the table and calls OnActiveChanged      *)
(* after unlocking.  All jobs are for one device.                          *)
(***************************************************************************)
EXTENDS Naturals, FiniteSets, WdaAxis

CONSTANTS Jobs,       \* job ids
          MaxWdaFrames  \* bound: IosWdaJob frames

VARIABLES
    disp,        \* dispatch loop: what it does, and for which job
    table,       \* WdaJobManager.jobs
    pc,          \* job -> where its goroutine is
    cancelled,   \* jobs whose context is cancelled
    installed,   \* jobs past the install stage
    outcome,     \* job -> what finish reports
    wda, ctlOn, present,  \* managedDevice
    paused,      \* TunnelAgent.paused
    runs, results,  \* job -> goroutines started, results sent
    unanswered,  \* history: the last frame marked the device and no result follows
    wdaFrames    \* IosWdaJob frames so far

wdaVars == <<disp, table, pc, cancelled, installed, outcome, wda, ctlOn, present, paused,
          runs, results, unanswered, wdaFrames>>

\* The stages of execute between waiting for the device and launching.
Stages == {"fetch", "developerMode", "prepareSigning", "sign", "install"}

\* Stages that may follow one: Developer Mode is optional, a presigned artifact
\* is not signed.
After(stage) ==
    CASE stage = "fetch" -> {"developerMode", "prepareSigning"}
      [] stage = "developerMode" -> {"prepareSigning"}
      [] stage = "prepareSigning" -> {"sign", "install"}
      [] stage = "sign" -> {"install"}
      [] stage = "install" -> {"launch"}

Running == Stages \cup {"queued", "wait", "check", "launch", "finish", "terminal", "delete"}

WdaTypeOK ==
    /\ disp \in {<<"idle">>} \cup ({"start", "pause", "go"} \X Jobs)
    /\ table \subseteq Jobs /\ cancelled \subseteq Jobs /\ installed \subseteq Jobs
    /\ pc \in [Jobs -> Running \cup {"none", "resume"}]
    /\ outcome \in [Jobs -> Outcomes] /\ wda \in WdaStates
    /\ {ctlOn, present, paused, unanswered} \subseteq BOOLEAN
    /\ runs \in [Jobs -> 0 .. MaxWdaFrames] /\ results \in [Jobs -> 0 .. MaxWdaFrames]
    /\ wdaFrames \in 0 .. MaxWdaFrames

WdaInit ==
    /\ disp = <<"idle">> /\ table = {} /\ pc = [j \in Jobs |-> "none"]
    /\ cancelled = {} /\ installed = {} /\ outcome = [j \in Jobs |-> "ok"]
    /\ wda \in {"unspecified", "installed"} /\ ctlOn = FALSE /\ present \in BOOLEAN
    /\ paused = FALSE /\ runs = [j \in Jobs |-> 0] /\ results = [j \in Jobs |-> 0]
    /\ unanswered = FALSE /\ wdaFrames = 0

----------------------------------------------------------------------------
(* The dispatch loop.                                                      *)

\* HandleIosFrame, IosWdaJob: the device is marked before the job registers.
WdaJobFrame(j) ==
    /\ disp = <<"idle">> /\ wdaFrames < MaxWdaFrames /\ wdaFrames' = wdaFrames + 1
    /\ disp' = <<"start", j>>
    /\ wda' = IF present THEN NoteWdaJobStarted(wda) ELSE wda
    /\ UNCHANGED <<table, pc, cancelled, installed, outcome, ctlOn, present, paused,
                   runs, results, unanswered>>

\* Start: a frame without a job id is refused, with the device marked already;
\* a job in the table is not started again, though it may have reported.
Start(j) ==
    /\ disp = <<"start", j>>
    /\ \/ disp' = <<"idle">> /\ unanswered' = TRUE /\ UNCHANGED table
       \/ /\ j \in table /\ disp' = <<"idle">> /\ UNCHANGED table
          /\ unanswered' = (unanswered \/ pc[j] = "delete")
       \/ /\ j \notin table /\ table' = table \cup {j}
          /\ disp' = <<IF table = {} THEN "pause" ELSE "go", j>>
          /\ unanswered' = FALSE
    /\ UNCHANGED <<pc, cancelled, installed, outcome, wda, ctlOn, present, paused,
                   runs, results, wdaFrames>>

\* OnActiveChanged(true).
Pause ==
    /\ disp[1] = "pause" /\ paused' = TRUE /\ disp' = <<"go", disp[2]>>
    /\ UNCHANGED <<table, pc, cancelled, installed, outcome, wda, ctlOn, present,
                   runs, results, unanswered, wdaFrames>>

\* The job's goroutine starts, with a context of its own.
Launch ==
    /\ disp[1] = "go" /\ disp' = <<"idle">>
    /\ LET j == disp[2] IN
         /\ pc[j] = "none" /\ pc' = [pc EXCEPT ![j] = "queued"]
         /\ runs' = [runs EXCEPT ![j] = @ + 1]
         /\ installed' = installed \ {j} /\ outcome' = [outcome EXCEPT ![j] = "ok"]
    /\ UNCHANGED <<table, cancelled, wda, ctlOn, present, paused, results, unanswered, wdaFrames>>

\* IosJobCancel.
Cancel(j) ==
    /\ disp = <<"idle">> /\ j \in table /\ cancelled' = cancelled \cup {j}
    /\ UNCHANGED <<disp, table, pc, installed, outcome, wda, ctlOn, present, paused,
                   runs, results, unanswered, wdaFrames>>

----------------------------------------------------------------------------
(* A job's goroutine.                                                      *)

At(j, from) == pc[j] = from /\ UNCHANGED <<disp, cancelled, ctlOn, present, runs, unanswered, wdaFrames>>
To(j, to) == pc' = [pc EXCEPT ![j] = to]
Ends(j, o) == To(j, "finish") /\ outcome' = [outcome EXCEPT ![j] = o]
Local == UNCHANGED <<table, wda, paused, results>>

\* runJob and the start of execute: no work directory or no artifact is a failure.
Queued(j) ==
    /\ At(j, "queued") /\ Local /\ UNCHANGED installed
    /\ \/ Ends(j, "failed")
       \/ To(j, "wait") /\ UNCHANGED outcome

\* waitForDevice: present, cancelled, or given up after ten minutes.
WaitForDevice(j) ==
    /\ At(j, "wait") /\ Local /\ UNCHANGED installed
    /\ \/ present /\ To(j, "check") /\ UNCHANGED outcome
       \/ (~present \/ j \in cancelled) /\ Ends(j, "cancelled")

\* The fast path of a PREPARE whose runner is already there.
Check(j) ==
    /\ At(j, "check") /\ Local /\ UNCHANGED outcome
    /\ \/ To(j, "launch") /\ installed' = installed \cup {j}
       \/ To(j, "fetch") /\ UNCHANGED installed

\* One stage: cancellation lands on its boundary; only Developer Mode may fail
\* without ending the job.
Stage(j) ==
    \E stage \in Stages :
        /\ At(j, stage) /\ Local
        /\ \/ j \in cancelled /\ Ends(j, "cancelled") /\ UNCHANGED installed
           \/ j \notin cancelled /\ stage # "developerMode" /\ Ends(j, "failed") /\ UNCHANGED installed
           \/ /\ j \notin cancelled /\ UNCHANGED outcome
              /\ \E next \in After(stage) : To(j, next)
              /\ installed' = IF stage = "install" THEN installed \cup {j} ELSE installed

\* Launch and verify.
LaunchStage(j) ==
    /\ At(j, "launch") /\ Local /\ UNCHANGED installed
    /\ \/ j \in cancelled /\ Ends(j, "cancelled")
       \/ j \notin cancelled /\ \E o \in {"ok", "failed"} : Ends(j, o)

\* finish: the result frame ...
Finish(j) ==
    /\ At(j, "finish") /\ To(j, "terminal") /\ results' = [results EXCEPT ![j] = @ + 1]
    /\ UNCHANGED <<table, installed, outcome, wda, paused>>

\* ... and the outcome on the device: an installed runner counts as success.
Terminal(j) ==
    /\ At(j, "terminal") /\ To(j, "delete")
    /\ wda' = NoteWdaJobResult(wda, ctlOn, IF j \in installed THEN "ok" ELSE outcome[j])
    /\ UNCHANGED <<table, installed, outcome, paused, results>>

\* Mutant: the last job is looked for before it leaves the table.
Delete_lastCountsItself(j) ==
    /\ pc[j] = "delete" /\ table' = table \ {j} /\ cancelled' = cancelled \ {j}
    /\ To(j, IF Cardinality(table) = 2 THEN "resume" ELSE "none")
    /\ UNCHANGED <<disp, installed, outcome, wda, ctlOn, present, paused, runs, results,
                   unanswered, wdaFrames>>

\* The deferred end: out of the table, then OnActiveChanged(false) if it was the last.
Delete(j) ==
    /\ pc[j] = "delete" /\ table' = table \ {j} /\ cancelled' = cancelled \ {j}
    /\ To(j, IF table = {j} THEN "resume" ELSE "none")
    /\ UNCHANGED <<disp, installed, outcome, wda, ctlOn, present, paused, runs, results,
                   unanswered, wdaFrames>>

Resume(j) ==
    /\ At(j, "resume") /\ To(j, "none") /\ paused' = FALSE
    /\ UNCHANGED <<table, installed, outcome, wda, results>>

----------------------------------------------------------------------------
(* The device.                                                             *)

Presence ==
    /\ present' = ~present
    /\ UNCHANGED <<disp, table, pc, cancelled, installed, outcome, wda, ctlOn, paused,
                   runs, results, unanswered, wdaFrames>>

\* onDeviceState, and the clock at a rescan.
ControlLink ==
    /\ ctlOn' = ~ctlOn /\ wda' = onState(wda, ctlOn')
    /\ UNCHANGED <<disp, table, pc, cancelled, installed, outcome, present, paused,
                   runs, results, unanswered, wdaFrames>>

Expire ==
    /\ \E expiry \in Expiries : wda' = refreshWdaExpiry(wda, expiry)
    /\ UNCHANGED <<disp, table, pc, cancelled, installed, outcome, ctlOn, present, paused,
                   runs, results, unanswered, wdaFrames>>

----------------------------------------------------------------------------
Dispatch == Pause \/ Launch \/ \E j \in Jobs : Start(j)

JobStep(j) ==
    \/ Queued(j) \/ WaitForDevice(j) \/ Check(j) \/ Stage(j) \/ LaunchStage(j)
    \/ Finish(j) \/ Terminal(j) \/ Delete(j) \/ Resume(j)

WdaNext ==
    \/ Dispatch \/ Presence \/ ControlLink \/ Expire
    \/ \E j \in Jobs : WdaJobFrame(j) \/ Cancel(j) \/ JobStep(j)

\* What talks to the phone or to Apple, or signs, has no deadline: it may never
\* return (wdapipeline.go:297-305, 317-482, 489-550).
Untimed == {"check", "developerMode", "prepareSigning", "sign", "install", "launch"}
TimedStep(j) == pc[j] \notin Untimed /\ JobStep(j)

\* The dispatch loop and the goroutines of jobs run, the wait for the device ends
\* after ten minutes and the download after fifteen.
WdaFairness == WF_wdaVars(Dispatch) /\ \A j \in Jobs : WF_wdaVars(TimedStep(j))

WdaSpec == WdaInit /\ [][WdaNext]_wdaVars /\ WdaFairness

----------------------------------------------------------------------------
\* "always emits exactly one result frame" (runJob): every start of a job is
\* answered by one result, and the result is out before the job leaves the
\* table, whichever stage fails, is cancelled or is skipped.
OneResult ==
    \A j \in Jobs :
        /\ results[j] <= runs[j] /\ runs[j] <= results[j] + 1
        /\ j \notin table => results[j] = runs[j]

\* The tunnel agent is paused only while jobs run or one is about to resume it:
\* no order of OnActiveChanged calls leaves it paused for good.
PausedHasJob == paused => table # {} \/ \E j \in Jobs : pc[j] = "resume"

\* "a launch-verification failure in that case must NOT demote the device to
\* FAILED": after a job that got the runner onto the phone, whatever happened
\* later in the job, the device is INSTALLED or READY.
InstalledNeverFails ==
    [][\A j \in installed : pc[j] = "terminal" /\ pc'[j] = "delete" =>
         wda' = IF ctlOn THEN "ready" ELSE "installed"]_wdaVars

\* A device shown as PREPARING does not stay so (manager.go, NoteWdaJobResult),
\* whatever jobs overlap on it, fail, are cancelled or lose the phone.  Two
\* things keep it so: a job that never returns from a stage without a deadline,
\* and a frame that marks the device with no result to follow - one without a job
\* id, refused after the mark (frames.go:123-136), or a retry accepted for a job
\* that had reported - until another job starts.
PreparingEnds ==
    \/ \E j \in Jobs : <>[](pc[j] \in Untimed)
    \/ (wda = "preparing" /\ ~unanswered) ~> (wda # "preparing" \/ unanswered)

\* "the wait stage flips it once it comes back" (frames.go): a job that works on
\* the phone shows it as PREPARING.
WorkingIsPreparing == \A j \in Jobs : pc[j] \in Stages => wda = "preparing"

\* "While a WDA job is running the poller must not run at all" (TunnelAgent).
PausedWhileRunning == (\E j \in Jobs : pc[j] \in Running) => paused
=============================================================================
