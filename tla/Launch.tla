------------------------------- MODULE Launch -------------------------------
(***************************************************************************)
(* management/launch.go: a management node starts execution nodes as       *)
(* docker containers, named after the launch id, and keeps a handle of     *)
(* each in memory so that a later frame can remove it.  Each create and    *)
(* delete frame runs in a goroutine of its own.  Launches without docker   *)
(* ("standalone") leave a handle that removes nothing and are left out.    *)
(* The model follows one launch id, whose frames the server may repeat.    *)
(***************************************************************************)
EXTENDS Naturals, FiniteSets

CONSTANTS
    Frames          \* goroutines of create and delete frames

VARIABLES
    container,      \* the container exists in the docker daemon
    handle,         \* the registry has a handle for the launch id
    launchPc,       \* where each goroutine is
    launchAck,      \* its answer
    lost            \* the container's handle went without it: a docker call
                    \* that failed or was cut off, or a process that ended

launchVars == <<container, handle, launchPc, launchAck, lost>>

\* The state's shape.
LaunchTypeOK ==
    /\ container \in BOOLEAN /\ handle \in BOOLEAN /\ lost \in BOOLEAN
    /\ launchPc \in [Frames -> {"idle", "run", "put", "take", "rm"}]
    /\ launchAck \in [Frames -> {"none", "created", "deleted", "error"}]

LaunchInit ==
    /\ container = FALSE /\ handle = FALSE /\ lost = FALSE
    /\ launchPc = [f \in Frames |-> "idle"]
    /\ launchAck = [f \in Frames |-> "none"]

LaunchGoto(f, l) == launchPc' = [launchPc EXCEPT ![f] = l]
SendAck(f, a) == LaunchGoto(f, "idle") /\ launchAck' = [launchAck EXCEPT ![f] = a]

\* A frame arrives.
HandleFrame(f) ==
    /\ launchPc[f] = "idle"
    /\ LaunchGoto(f, "run") \/ LaunchGoto(f, "take")
    /\ launchAck' = [launchAck EXCEPT ![f] = "none"]
    /\ UNCHANGED <<container, handle, lost>>

\* docker run, on the stream's context: the name may be taken, and the command
\* may fail, or be killed as the stream ends, with the container created.
dockerRun(f) ==
    /\ launchPc[f] = "run"
    /\ \/ ~container /\ container' = TRUE /\ LaunchGoto(f, "put") /\ UNCHANGED <<launchAck, lost>>
       \/ SendAck(f, "error") /\ UNCHANGED <<container, lost>>
       \/ ~container /\ container' = TRUE /\ lost' = TRUE /\ SendAck(f, "error")
    /\ UNCHANGED handle

\* The handle is registered and the frame answered.
put(f) ==
    /\ launchPc[f] = "put"
    /\ handle' = TRUE
    /\ SendAck(f, "created")
    /\ UNCHANGED <<container, lost>>

\* The handle is taken out of the registry; without one there is nothing to do.
take(f) ==
    /\ launchPc[f] = "take"
    /\ handle' = FALSE
    /\ \/ handle /\ LaunchGoto(f, "rm") /\ UNCHANGED launchAck
       \/ ~handle /\ SendAck(f, "deleted")
    /\ UNCHANGED <<container, lost>>

\* Mutant: a failed removal is answered like a successful one.
stopExecutionNode_ignoresError(f) ==
    /\ launchPc[f] = "rm"
    /\ container' \in {FALSE, container}
    /\ SendAck(f, "deleted")
    /\ UNCHANGED <<handle, lost>>

\* docker rm -f; when it fails the handle is gone.
stopExecutionNode(f) ==
    /\ launchPc[f] = "rm"
    /\ \/ container' = FALSE /\ lost' = FALSE /\ SendAck(f, "deleted")
       \/ SendAck(f, "error") /\ lost' = container /\ UNCHANGED container
    /\ UNCHANGED handle

\* The node process ends and starts again; containers go on.
LaunchRestart ==
    /\ handle' = FALSE
    /\ lost' = (lost \/ container)
    /\ launchPc' = [f \in Frames |-> "idle"]
    /\ launchAck' = [f \in Frames |-> "none"]
    /\ UNCHANGED container

LaunchNext ==
    \/ \E f \in Frames :
         \/ HandleFrame(f) \/ dockerRun(f) \/ put(f) \/ take(f) \/ stopExecutionNode(f)
    \/ LaunchRestart

LaunchSpec == LaunchInit /\ [][LaunchNext]_launchVars

-----------------------------------------------------------------------------
\* A running execution node can be deleted: the registry has its handle, or a
\* goroutine is between docker and the registry, about to register it or to
\* remove the container.  Three faults are excused, for the container they
\* strike: a docker run that fails with the container made, a docker rm that
\* fails, and the end of the process (launch.go:17-22, 53-70, 178-186).
RunningIsTracked ==
    container /\ ~lost =>
        handle \/ \E f \in Frames : launchPc[f] \in {"put", "rm"}

\* The step that answers a delete with success leaves no container, unless a
\* fault lost this container's handle, or another frame was between docker and
\* the registry: a delete that finds no handle does not wait for the create that
\* is about to register one, nor for the delete that took it (launch.go:61-70).
DeletedIsGone ==
    [][\A f \in Frames :
         launchAck[f] # "deleted" /\ launchAck'[f] = "deleted" /\ ~lost =>
           ~container' \/ \E g \in Frames \ {f} : launchPc[g] \in {"put", "rm"}]_launchVars
=============================================================================
