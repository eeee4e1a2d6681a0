----------------------------- MODULE BuildRunner -----------------------------
(***************************************************************************)
(* common/build/runner.go: the builds a node runs for the server.  Start   *)
(* registers a build and launches its goroutine (a "run"): a temporary     *)
(* work directory, the source, the steps, the packaged artifact, the       *)
(* upload, then one result frame, and only then the build leaves the       *)
(* table.  Each command runs under a context that a Cancel frame, the      *)
(* build's timeout, the process's end (StopAll) or the end of the stream   *)
(* that carried the request cancels.                                       *)
(*                                                                         *)
(* A killed command's descendants can keep its output pipe open, and       *)
(* CombinedOutput waits for them: such a run is "stuck" (line 444).        *)
(***************************************************************************)
EXTENDS Naturals, FiniteSets, Sequences

CONSTANTS
    Builds,     \* build ids
    NumSteps,   \* steps of a build request
    MaxRuns     \* bound: requests that launch a run

ASSUME StepsAssumption == NumSteps \in Nat

VARIABLES
    jobs,       \* the table: build ids registered
    runs,       \* the goroutines launched, in order
    streamUp,   \* the node is registered on a stream
    shutdown    \* StopAll has run: the process is about to exit

vars == <<jobs, runs, streamUp, shutdown>>

Stages == {"workdir", "acquire", "steps", "package", "upload"}
\* The reason a run's context ended, "no" while it is live.
Reasons == {"no", "cancel", "timeout", "stream", "shutdown"}
ErrCodes == {"", "workdir_failed", "clone_failed", "source_failed",
             "step_failed", "artifact_not_found", "upload_failed", "cancelled"}
Run == [id : Builds, pc : Stages \cup {"finish", "delete", "gone"},
        step : 0..NumSteps, ctx : Reasons, stuck : BOOLEAN,
        uploaded : BOOLEAN, err : ErrCodes, results : 0..1]

\* The state's shape: at most one result frame per run.
TypeOK ==
    /\ jobs \subseteq Builds
    /\ runs \in Seq(Run) /\ Len(runs) <= MaxRuns
    /\ streamUp \in BOOLEAN
    /\ shutdown \in BOOLEAN

Init ==
    /\ jobs = {}
    /\ runs = <<>>
    /\ streamUp = TRUE
    /\ shutdown = FALSE

Live(r) == runs[r].pc # "gone"
Done(r) == runs[r].ctx # "no"

NewRun(b) ==
    [id |-> b, pc |-> "workdir", step |-> 0, ctx |-> "no", stuck |-> FALSE,
     uploaded |-> FALSE, err |-> "", results |-> 0]

\* Mutant: a retried dispatch launches a second run.
Start_alwaysLaunches(b) ==
    /\ streamUp /\ ~shutdown
    /\ Len(runs) < MaxRuns
    /\ jobs' = jobs \cup {b}
    /\ runs' = Append(runs, NewRun(b))
    /\ UNCHANGED <<streamUp, shutdown>>

\* A NodeBuildRequest that passes validation, on the stream's context.  A
\* build already in the table is accepted and nothing is launched.
Start(b) ==
    /\ streamUp /\ ~shutdown
    /\ b \notin jobs /\ Len(runs) < MaxRuns
    /\ jobs' = jobs \cup {b}
    /\ runs' = Append(runs, NewRun(b))
    /\ UNCHANGED <<streamUp, shutdown>>

\* cancel() of the contexts of the runs in R that are still live.
CancelRuns(R, reason) ==
    runs' = [r \in DOMAIN runs |->
                IF r \in R /\ Live(r) /\ ~Done(r)
                THEN [runs[r] EXCEPT !.ctx = reason] ELSE runs[r]]

Registered(B) == {r \in DOMAIN runs : Live(r) /\ runs[r].id \in B \cap jobs}

\* A NodeBuildCancel; an unknown build is no error and changes nothing.
Cancel(b) ==
    /\ streamUp
    /\ \E r \in Registered({b}) : ~Done(r)
    /\ CancelRuns(Registered({b}), "cancel")
    /\ UNCHANGED <<jobs, streamUp, shutdown>>

\* The host shuts down.
StopAll ==
    /\ ~shutdown
    /\ shutdown' = TRUE
    /\ CancelRuns(Registered(Builds), "shutdown")
    /\ UNCHANGED <<jobs, streamUp>>

\* Mutant: the source is fetched under the build's context, not the timed one.
Timeout_missesAcquire(r) ==
    /\ Live(r) /\ ~Done(r) /\ runs[r].pc # "acquire"
    /\ CancelRuns({r}, "timeout")
    /\ UNCHANGED <<jobs, streamUp, shutdown>>

\* context.WithTimeout, of the request or 30 minutes by default.
Timeout(r) ==
    /\ Live(r) /\ ~Done(r)
    /\ CancelRuns({r}, "timeout")
    /\ UNCHANGED <<jobs, streamUp, shutdown>>

\* The stream ends, and with it the context HandleFrame was called with.
StreamEnds ==
    /\ streamUp
    /\ streamUp' = FALSE
    /\ CancelRuns(DOMAIN runs, "stream")
    /\ UNCHANGED <<jobs, shutdown>>

StreamStarts ==
    /\ ~streamUp /\ ~shutdown
    /\ streamUp' = TRUE
    /\ UNCHANGED <<jobs, runs, shutdown>>

\* runBuild returns.  Its deferred RemoveAll of the work directory may fail,
\* which is only logged: nothing later depends on it.
Return(r, code) ==
    runs' = [runs EXCEPT ![r].pc = "finish", ![r].err = code]

\* A failed call reads as "cancelled" once the context has ended.
Fail(r, code) == Return(r, IF Done(r) THEN "cancelled" ELSE code)

Workdir(r) ==
    /\ runs[r].pc = "workdir"
    /\ \/ runs' = [runs EXCEPT ![r].pc = "acquire"]
       \/ Return(r, "workdir_failed")
    /\ UNCHANGED <<jobs, streamUp, shutdown>>

\* git clone, or the archive's download and extraction: it ends well, it
\* fails (moving an extracted archive into place whatever the context), or
\* the context's end kills it.
AcquireOk(r) ==
    /\ runs[r].pc = "acquire" /\ ~runs[r].stuck
    /\ runs' = [runs EXCEPT ![r].pc = "steps"]
    /\ UNCHANGED <<jobs, streamUp, shutdown>>

AcquireFails(r) ==
    /\ runs[r].pc = "acquire" /\ ~runs[r].stuck
    /\ Fail(r, "clone_failed") \/ Return(r, "source_failed")
    /\ UNCHANGED <<jobs, streamUp, shutdown>>

\* The context is checked before each step.
StepBoundary(r) ==
    /\ runs[r].pc = "steps" /\ ~runs[r].stuck
    /\ runs[r].step < NumSteps /\ Done(r)
    /\ Return(r, "cancelled")
    /\ UNCHANGED <<jobs, streamUp, shutdown>>

\* The step's sh -c ends with success, maybe just as the context ends.
StepOk(r) ==
    /\ runs[r].pc = "steps" /\ ~runs[r].stuck /\ runs[r].step < NumSteps
    /\ runs' = [runs EXCEPT ![r].step = @ + 1]
    /\ UNCHANGED <<jobs, streamUp, shutdown>>

StepFails(r) ==
    /\ runs[r].pc = "steps" /\ ~runs[r].stuck /\ runs[r].step < NumSteps
    /\ Fail(r, "step_failed")
    /\ UNCHANGED <<jobs, streamUp, shutdown>>

\* The killed command leaves a descendant that holds its output pipe.
Stuck(r) ==
    /\ runs[r].pc \in {"acquire", "steps"} /\ Done(r) /\ ~runs[r].stuck
    /\ runs[r].pc = "steps" => runs[r].step < NumSteps
    /\ runs' = [runs EXCEPT ![r].stuck = TRUE]
    /\ UNCHANGED <<jobs, streamUp, shutdown>>

\* Every step has run: the glob and the checksum, no context involved.
Package(r) ==
    /\ runs[r].pc = "steps" /\ runs[r].step = NumSteps /\ ~runs[r].stuck
    /\ \/ runs' = [runs EXCEPT ![r].pc = "upload"]
       \/ Return(r, "artifact_not_found")
    /\ UNCHANGED <<jobs, streamUp, shutdown>>

\* The POST of the artifact: stored, or failed - and then perhaps stored
\* all the same, its answer cut off.
UploadOk(r) ==
    /\ runs[r].pc = "upload"
    /\ runs' = [runs EXCEPT ![r].pc = "finish", ![r].uploaded = TRUE]
    /\ UNCHANGED <<jobs, streamUp, shutdown>>

\* Mutant: the upload's error is dropped.
UploadFails_saysOk(r) ==
    /\ runs[r].pc = "upload"
    /\ runs' = [runs EXCEPT ![r].pc = "finish"]
    /\ UNCHANGED <<jobs, streamUp, shutdown>>

UploadFails(r) ==
    /\ runs[r].pc = "upload"
    /\ \E stored \in BOOLEAN :
         runs' = [runs EXCEPT ![r].pc = "finish", ![r].uploaded = stored,
                      ![r].err = IF Done(r) THEN "cancelled"
                                 ELSE "upload_failed"]
    /\ UNCHANGED <<jobs, streamUp, shutdown>>

\* finish: the terminal event and the result frame, logged when there is no
\* stream to carry it.
Finish(r) ==
    /\ runs[r].pc = "finish"
    /\ runs' = [runs EXCEPT ![r].pc = "delete", ![r].results = @ + 1]
    /\ UNCHANGED <<jobs, streamUp, shutdown>>

\* The goroutine's deferred delete.
Delete(r) ==
    /\ runs[r].pc = "delete"
    /\ jobs' = jobs \ {runs[r].id}
    /\ runs' = [runs EXCEPT ![r].pc = "gone"]
    /\ UNCHANGED <<streamUp, shutdown>>

\* What a run does by itself; a command may also take for ever.
RunStep(r) ==
    \/ Workdir(r) \/ StepBoundary(r) \/ Package(r) \/ Finish(r) \/ Delete(r)
CommandEnds(r) ==
    \/ AcquireOk(r) \/ AcquireFails(r) \/ StepOk(r) \/ StepFails(r)
    \/ UploadOk(r) \/ UploadFails(r)

Next ==
    \/ \E b \in Builds : Start(b) \/ Cancel(b)
    \/ \E r \in DOMAIN runs :
         RunStep(r) \/ CommandEnds(r) \/ Stuck(r) \/ Timeout(r)
    \/ StopAll \/ StreamEnds \/ StreamStarts

\* Timers fire and goroutines run.  A command need not end, but one whose
\* context has ended is killed, and returns unless a descendant survives.
Fairness ==
    \A r \in 1..MaxRuns :
        /\ WF_vars(r \in DOMAIN runs /\ RunStep(r))
        /\ WF_vars(r \in DOMAIN runs /\ Timeout(r))
        /\ WF_vars(r \in DOMAIN runs /\ Done(r) /\ CommandEnds(r))

Spec == Init /\ [][Next]_vars /\ Fairness

-----------------------------------------------------------------------------
\* A retried dispatch never runs a build twice at once (Start, lines 111-113:
\* "accepted idempotently"), and the table holds exactly the builds whose run
\* has not ended, so that a Cancel finds every one of them.
OneRunPerBuild ==
    /\ \A r, s \in DOMAIN runs :
          Live(r) /\ Live(s) /\ runs[r].id = runs[s].id => r = s
    /\ \A r \in DOMAIN runs : Live(r) => runs[r].id \in jobs
    /\ \A b \in jobs : \E r \in DOMAIN runs : Live(r) /\ runs[r].id = b

\* A result that says ok is of a build whose every step ran and whose artifact
\* the server holds.
OkIsUploaded ==
    \A r \in DOMAIN runs :
        runs[r].results > 0 /\ runs[r].err = "" =>
            runs[r].uploaded /\ runs[r].step = NumSteps

\* An accepted build always ends, whatever its commands do: the timeout kills
\* them.  The exception is a killed command whose descendant keeps the output
\* pipe open, for which exec (line 444) waits without bound.
BuildEnds ==
    \A r \in 1..MaxRuns :
        (r \in DOMAIN runs) ~>
            (r \in DOMAIN runs /\ (~Live(r) \/ runs[r].stuck))

\* streamctx.go:21-22: "losing the stream is never a reason to abort the work".
LostStreamAbortsNothing ==
    \A r \in DOMAIN runs : runs[r].err = "cancelled" => runs[r].ctx # "stream"
=============================================================================
