------------------------------ MODULE MCJobs ------------------------------
(***************************************************************************)
(* The commands a node runs for the server, for TLC: builds (BuildRunner), *)
(* Xcode installs (XcodeJob) and managed tools (ToolRun). They share no    *)
(* state, so a behaviour is one of exactly one of them, chosen at the      *)
(* start.                                                                  *)
(***************************************************************************)
EXTENDS BuildRunner, XcodeJob, ToolRun

VARIABLE part       \* the component this behaviour is of

allVars == <<part, vars, xcodeVars, toolVars>>

AllInit ==
    /\ part \in {"build", "xcode", "tool"}
    /\ Init
    /\ XcodeInit
    /\ ToolInit
    /\ part # "xcode" => apps = "none"

\* Only the chosen component takes steps.
AllNext ==
    \/ part = "build" /\ Next /\ UNCHANGED <<part, xcodeVars, toolVars>>
    \/ part = "xcode" /\ XcodeNext /\ UNCHANGED <<part, vars, toolVars>>
    \/ part = "tool" /\ ToolNext /\ UNCHANGED <<part, vars, xcodeVars>>

\* Each component's fairness, as its module states it.
AllFairness ==
    /\ \A r \in 1..MaxRuns :
         /\ WF_vars(part = "build" /\ r \in DOMAIN runs /\ RunStep(r))
         /\ WF_vars(part = "build" /\ r \in DOMAIN runs /\ Timeout(r))
         /\ WF_vars(/\ part = "build" /\ r \in DOMAIN runs
                         /\ Done(r) /\ CommandEnds(r))
    /\ \A r \in 1..MaxXcodeRuns :
         /\ WF_xcodeVars(part = "xcode" /\ r \in DOMAIN xcodeRuns /\ XcodeStep(r))
         /\ WF_xcodeVars(part = "xcode" /\ r \in DOMAIN xcodeRuns /\ ContextEnds(r))
         /\ WF_xcodeVars(/\ part = "xcode" /\ r \in DOMAIN xcodeRuns
                         /\ xcodeRuns[r].ctxDone /\ XcodeCommandEnds(r))
    /\ WF_toolVars(part = "tool" /\ startStep)
    /\ \A p \in Procs :
         /\ WF_toolVars(part = "tool" /\ StopTimer(p))
         /\ WF_toolVars(part = "tool" /\ Kill(p))
         /\ WF_toolVars(part = "tool" /\ waiterStep(p))

AllSpec == AllInit /\ [][AllNext]_allVars /\ AllFairness

-----------------------------------------------------------------------------
\* The shape of every component's state.
AllTypeOK ==
    /\ TypeOK /\ XcodeTypeOK /\ ToolTypeOK
=============================================================================
