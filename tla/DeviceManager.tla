--------------------------- MODULE DeviceManager ---------------------------
(***************************************************************************)
(* One iPhone in the device manager of an iOS host                         *)
(* (src/common/ioshost/manager.go, its frames in frames.go): claim,        *)
(* release, configuration, start/stop/restart of the device-control loop,  *)
(* the prober that restarts loops, and devices.json across a restart of    *)
(* the process.  Discovery is a module of its own: here a rescan may find  *)
(* the phone or not, and an event may come at any time.                    *)
(*                                                                         *)
(* Every critical section of m.mu is one step.  A frame's goroutine takes  *)
(* several where it leaves the lock: to redeem a pairing code, to cancel   *)
(* the loop it took the handle of, to wait for it (at most ten seconds).   *)
(* One device is modelled.  Two interact only through a credential file    *)
(* they share when their labels give it the same name, which is left out.  *)
(***************************************************************************)
EXTENDS Naturals, Sequences, FiniteSets, WdaAxis

CONSTANTS Handlers,    \* bound: goroutines serving claim, release, control and configure
          MaxFrames    \* bound: frames the server sends

VARIABLES
    dev,       \* managedDevice
    disk,      \* its entry in devices.json: "none", "bare" or "cred" (with credential_path)
    loops,     \* the device-control loops started so far
    tasks,     \* handler -> the frame it serves
    probing,   \* probeControl has collected the device and not started it yet
    stopped, started,   \* m.stopped; StartClaimedDevices has run
    job,       \* a WDA job runs for the device
    frames     \* frames received, for the bound

vars == <<dev, disk, loops, tasks, probing, stopped, started, job, frames>>

Idle == [op |-> "idle", pc |-> "idle", loop |-> 0, live |-> TRUE]

TypeOK ==
    /\ dev \in [known : BOOLEAN, present : BOOLEAN, claimed : BOOLEAN, claiming : BOOLEAN,
                cred : BOOLEAN, ctlOn : BOOLEAN, wda : WdaStates,
                userStopped : BOOLEAN, handle : 0 .. Len(loops)]
    /\ disk \in {"none", "bare", "cred"}
    /\ loops \in Seq([st : {"run", "conn", "ending", "dead"}, ctx : {"process", "stream"},
                      cancelled : BOOLEAN])
    /\ tasks \in [Handlers -> [op : {"idle", "claim", "stop", "restart", "release", "configure"},
                               pc : {"idle", "pair", "cancel", "wait", "start"},
                               loop : 0 .. Len(loops), live : BOOLEAN]]
    /\ {probing, stopped, started, job} \subseteq BOOLEAN
    /\ frames \in 0 .. MaxFrames

\* adoptConfiguredDevices: what a process makes of devices.json.
adoptConfigured ==
    [known |-> disk # "none", present |-> FALSE, claimed |-> disk = "cred", claiming |-> FALSE,
     cred |-> disk = "cred", ctlOn |-> FALSE, wda |-> "unspecified",
     userStopped |-> FALSE, handle |-> 0]

Init ==
    /\ disk \in {"none", "cred"} /\ dev = adoptConfigured
    /\ loops = <<>> /\ tasks = [h \in Handlers |-> Idle]
    /\ probing = FALSE /\ stopped = FALSE /\ started = FALSE /\ job = FALSE /\ frames = 0

Live(l) == loops[l].st # "dead"

----------------------------------------------------------------------------
(* The device-control loop.                                                *)

\* Mutant: a loop is started beside one that runs.
startDevice_alwaysStarts(d, ctx, live) ==
    IF stopped THEN dev' = d /\ UNCHANGED loops
    ELSE /\ dev' = [d EXCEPT !.handle = Len(loops) + 1]
         /\ loops' = Append(loops, [st |-> "run", ctx |-> ctx, cancelled |-> ~live])

\* startDeviceLocked on device d: a loop that was started and not taken away
\* counts as running, whether or not its goroutine is still there.
startDevice(d, ctx, live) ==
    IF d.handle # 0 \/ stopped THEN dev' = d /\ UNCHANGED loops
    ELSE /\ dev' = [d EXCEPT !.handle = Len(loops) + 1]
         /\ loops' = Append(loops, [st |-> "run", ctx |-> ctx, cancelled |-> ~live])

\* onDeviceState: only a change of deviceControlOn does anything.
setOnline(d, online) ==
    IF d.ctlOn = online THEN d
    ELSE [d EXCEPT !.ctlOn = online, !.wda = onState(d.wda, online)]

\* The callback asks neither whose loop it is nor whether it was cancelled.
LoopConnected(l) ==
    /\ loops[l].st = "run"
    /\ loops' = [loops EXCEPT ![l].st = "conn"] /\ dev' = setOnline(dev, TRUE)
    /\ UNCHANGED <<disk, tasks, probing, stopped, started, job, frames>>

LoopDisconnected(l) ==
    /\ loops[l].st = "conn"
    /\ loops' = [loops EXCEPT ![l].st = "run"] /\ dev' = setOnline(dev, FALSE)
    /\ UNCHANGED <<disk, tasks, probing, stopped, started, job, frames>>

\* onDeviceWipe: the server revoked the device's token; the loop ends next.
LoopWiped(l) ==
    /\ loops[l].st = "run"
    /\ loops' = [loops EXCEPT ![l].st = "ending"]
    /\ dev' = [dev EXCEPT !.claimed = FALSE, !.ctlOn = FALSE]
    /\ UNCHANGED <<disk, tasks, probing, stopped, started, job, frames>>

\* Mutant: the end of the goroutine leaves deviceControlOn alone.
LoopEnd_keepsControl(l) ==
    /\ Live(l) /\ loops' = [loops EXCEPT ![l].st = "dead"] /\ UNCHANGED dev
    /\ UNCHANGED <<disk, tasks, probing, stopped, started, job, frames>>

\* The goroutine of startDeviceLocked after Run returned: on a cancelled
\* context, a fatal close or a wipe.  d.cancel is left as it is.
LoopEnd(l) ==
    /\ Live(l)
    /\ loops' = [loops EXCEPT ![l].st = "dead"] /\ dev' = [dev EXCEPT !.ctlOn = FALSE]
    /\ UNCHANGED <<disk, tasks, probing, stopped, started, job, frames>>

\* StartClaimedDevices, once the server approved the node.
StartClaimedDevices ==
    /\ ~started /\ started' = TRUE
    /\ IF dev.claimed /\ dev.cred THEN startDevice(dev, "process", TRUE)
       ELSE UNCHANGED <<dev, loops>>
    /\ UNCHANGED <<disk, tasks, probing, stopped, job, frames>>

----------------------------------------------------------------------------
(* Frames: each is served by a goroutine of its own, with the context of   *)
(* the stream it came from.                                                *)

\* A frame arrives and handler h takes it.
Frame(h) ==
    /\ frames < MaxFrames /\ frames' = frames + 1
    /\ tasks[h] = Idle
    /\ UNCHANGED <<probing, stopped, started>>

Serve(h, op, pc, l) == tasks' = [tasks EXCEPT ![h] = [op |-> op, pc |-> pc, loop |-> l, live |-> TRUE]]
Done(h) == tasks' = [tasks EXCEPT ![h] = Idle]

\* Claim up to the pairing request: the device is reserved first.  The file
\* for the credential is named after the device's label.
Claim(h) ==
    /\ Frame(h) /\ UNCHANGED <<disk, loops, job>>
    /\ dev.known /\ ~dev.claimed /\ ~dev.claiming
    /\ dev' = [dev EXCEPT !.claiming = TRUE] /\ Serve(h, "claim", "pair", 0)

\* SaveDevicesConfig under the lock: the file is replaced whole, or not at all.
save(entry) ==
    \/ disk' = entry
    \/ UNCHANGED disk

\* Claim after the pairing request failed, or minted a credential.
ClaimEnds(h) ==
    /\ tasks[h].op = "claim" /\ Done(h)
    /\ \/ /\ dev' = [dev EXCEPT !.claiming = FALSE] /\ UNCHANGED <<disk, loops>>
       \/ /\ save("cred")
          /\ startDevice([dev EXCEPT !.claiming = FALSE, !.claimed = TRUE, !.cred = TRUE],
                         "stream", tasks[h].live)
    /\ UNCHANGED <<probing, stopped, started, job, frames>>

\* ControlRunner START; ctx is the frame's, or the prober's.
startRunner(ctx) ==
    IF dev.cred /\ dev.handle = 0 /\ ~stopped
    THEN startDevice([dev EXCEPT !.userStopped = FALSE], ctx, TRUE)
    ELSE UNCHANGED <<dev, loops>>

ControlStart(h) ==
    /\ Frame(h) /\ dev.known /\ startRunner("stream")
    /\ UNCHANGED <<disk, tasks, job>>

\* ControlRunner STOP and RESTART: the handle is taken under the lock.
ControlStop(h, op) ==
    /\ Frame(h) /\ dev.known /\ dev.cred /\ UNCHANGED <<disk, loops, job>>
    /\ dev' = [dev EXCEPT !.handle = 0, !.userStopped = (op = "stop"), !.ctlOn = FALSE]
    /\ IF dev.handle # 0 THEN Serve(h, op, "cancel", dev.handle)
       ELSE IF op = "restart" THEN Serve(h, op, "start", 0) ELSE UNCHANGED tasks

Release(h) ==
    /\ Frame(h) /\ dev.known /\ UNCHANGED <<loops, job>> /\ save("none")
    /\ \E deleteCredential \in BOOLEAN :
         dev' = [dev EXCEPT !.handle = 0, !.claimed = FALSE, !.ctlOn = FALSE, !.wda = "unspecified",
                            !.cred = @ /\ ~deleteCredential]
    /\ IF dev.handle # 0 THEN Serve(h, "release", "cancel", dev.handle) ELSE UNCHANGED tasks

\* ConfigureDevice, applied.  Revisions are left out: an older one is a no-op
\* and an unversioned one always applies, so that a frame may do either.
ConfigureDevice(h, changed) ==
    /\ Frame(h) /\ dev.known /\ UNCHANGED <<loops, job>>
    /\ save(IF dev.cred THEN "cred" ELSE "bare")
    /\ IF changed /\ dev.handle # 0
       THEN dev' = [dev EXCEPT !.handle = 0] /\ Serve(h, "configure", "cancel", dev.handle)
       ELSE UNCHANGED <<dev, tasks>>

\* The loop whose handle h took is cancelled; a release does not wait for it.
CancelLoop(h) ==
    /\ tasks[h].pc = "cancel" /\ loops' = [loops EXCEPT ![tasks[h].loop].cancelled = TRUE]
    /\ IF tasks[h].op = "release" THEN Done(h) ELSE tasks' = [tasks EXCEPT ![h].pc = "wait"]
    /\ UNCHANGED <<dev, disk, probing, stopped, started, job, frames>>

\* The loop ended, or ten seconds are over.
Waited(h) ==
    /\ tasks[h].pc = "wait"
    /\ IF tasks[h].op = "stop" THEN Done(h) ELSE tasks' = [tasks EXCEPT ![h].pc = "start"]
    /\ UNCHANGED <<dev, disk, loops, probing, stopped, started, job, frames>>

\* The second half of RESTART and of a ConfigureDevice that restarts.
StartAgain(h) ==
    /\ tasks[h].pc = "start" /\ Done(h)
    /\ IF dev.cred /\ (tasks[h].op = "configure" => dev.claimed)
       THEN startDevice(dev, "stream", tasks[h].live)
       ELSE UNCHANGED <<dev, loops>>
    /\ UNCHANGED <<disk, probing, stopped, started, job, frames>>

----------------------------------------------------------------------------
(* WDA jobs, as the manager sees them.                                     *)

JobStarted(h) ==
    /\ Frame(h) /\ dev.known /\ ~job /\ job' = TRUE
    /\ dev' = IF dev.present THEN [dev EXCEPT !.wda = NoteWdaJobStarted(@)] ELSE dev
    /\ UNCHANGED <<disk, loops, tasks>>

JobResult ==
    /\ job /\ job' = FALSE
    /\ \E outcome \in Outcomes :
         dev' = [dev EXCEPT !.wda = NoteWdaJobResult(@, dev.ctlOn, outcome)]
    /\ UNCHANGED <<disk, loops, tasks, probing, stopped, started, frames>>

----------------------------------------------------------------------------
(* Discovery, as far as claims and loops depend on it.                     *)

\* applySnapshot's critical section: the phone is seen or not, and a badge may
\* turn (the profile and the clock are left out).
applySnapshot(seen) ==
    /\ \E wda \in {refreshWdaExpiry(dev.wda, expiry) : expiry \in Expiries} :
         dev' = [dev EXCEPT !.known = @ \/ seen, !.present = seen, !.wda = wda]
    /\ UNCHANGED <<disk, loops, tasks, probing, stopped, started, job, frames>>

\* applyEvent: an attach clears the STOP pin (its rescan is a step of its own),
\* a detach clears presence and control.
applyEvent(attached) ==
    /\ dev' = CASE attached /\ dev.known -> [dev EXCEPT !.userStopped = FALSE]
                [] ~attached /\ dev.present -> [dev EXCEPT !.present = FALSE, !.ctlOn = FALSE]
                [] OTHER -> dev
    /\ UNCHANGED <<disk, loops, tasks, probing, stopped, started, job, frames>>

\* Devices probeControl collects.
Probed(d) ==
    d.wda = "installed" /\ ~d.userStopped /\ d.present /\ d.claimed /\ d.cred /\ ~d.ctlOn

probeCollect ==
    /\ Probed(dev) /\ ~probing /\ ~stopped /\ probing' = TRUE
    /\ UNCHANGED <<dev, disk, loops, tasks, stopped, started, job, frames>>

probeStart ==
    /\ probing /\ probing' = FALSE /\ startRunner("process")
    /\ UNCHANGED <<disk, tasks, stopped, started, job, frames>>

----------------------------------------------------------------------------
(* The environment.                                                        *)

\* The control stream breaks and is replaced: its context is cancelled, so
\* that loops started from its frames end.
StreamBreaks ==
    /\ loops' = [l \in DOMAIN loops |->
                   [loops[l] EXCEPT !.cancelled = @ \/ loops[l].ctx = "stream"]]
    /\ tasks' = [h \in Handlers |-> [tasks[h] EXCEPT !.live = tasks[h] = Idle]]
    /\ UNCHANGED <<dev, disk, probing, stopped, started, job, frames>>

\* Stop: stopped is set without the lock, handles are collected under it.
Stop ==
    /\ ~stopped /\ stopped' = TRUE
    /\ loops' = [l \in DOMAIN loops |-> [loops[l] EXCEPT !.cancelled = @ \/ l = dev.handle]]
    /\ UNCHANGED <<dev, disk, tasks, probing, started, job, frames>>

\* The process is killed and started again: only devices.json is left.
Crash ==
    /\ UNCHANGED <<disk, frames>> /\ dev' = adoptConfigured /\ loops' = <<>>
    /\ tasks' = [h \in Handlers |-> Idle] /\ probing' = FALSE
    /\ stopped' = FALSE /\ started' = FALSE /\ job' = FALSE

----------------------------------------------------------------------------
LoopStep == \E l \in DOMAIN loops :
    LoopConnected(l) \/ LoopDisconnected(l) \/ LoopWiped(l) \/ LoopEnd(l)

Serving(h) ==
    \/ Claim(h) \/ ControlStart(h) \/ Release(h) \/ JobStarted(h)
    \/ \E op \in {"stop", "restart"} : ControlStop(h, op)
    \/ \E changed \in BOOLEAN : ConfigureDevice(h, changed)

TaskStep(h) == ClaimEnds(h) \/ CancelLoop(h) \/ Waited(h) \/ StartAgain(h)

Next ==
    \/ LoopStep \/ StartClaimedDevices
    \/ \E h \in Handlers : Serving(h) \/ TaskStep(h)
    \/ JobResult
    \/ \E b \in BOOLEAN : applySnapshot(b) \/ applyEvent(b)
    \/ probeCollect \/ probeStart
    \/ StreamBreaks \/ Stop \/ Crash

\* Every rescan, at least one in 30 seconds, runs the prober to its end.
Fairness == WF_vars(probeCollect) /\ WF_vars(probeStart)

Spec == Init /\ [][Next]_vars /\ Fairness

----------------------------------------------------------------------------
\* A loop nobody cancelled is the one the device holds the handle of, or a
\* frame that took the handle is about to cancel it: no restart, release or
\* probe leaves a second loop driving the phone.
UncancelledIsOwned ==
    \A l \in DOMAIN loops : Live(l) /\ ~loops[l].cancelled =>
        \/ dev.handle = l
        \/ \E h \in Handlers : tasks[h].pc = "cancel" /\ tasks[h].loop = l

\* device_control_online is reported only while some loop is connected,
\* whichever of the old and new loops reported last (onDeviceState and the end
\* of the goroutine in startDeviceLocked).
ControlOnHasLoop == dev.ctlOn => \E l \in DOMAIN loops : loops[l].st = "conn"

\* A claim survives a restart: while the device is claimed, a write of
\* devices.json leaves its credential there (Claim, Release and ConfigureDevice
\* save under the lock).  A write that fails leaves the file as it was, which
\* persistLocked only logs.
ClaimIsPersisted == [][dev'.claimed /\ disk' # disk => disk' = "cred"]_vars

\* A phone's pairing code is redeemed by one claim at a time, and by none while
\* the phone is claimed ("two concurrent claims for one phone cannot both mint a
\* credential", Claim).
OneMint ==
    \A h \in Handlers : tasks[h].op = "claim" =>
        dev.claiming /\ ~dev.claimed /\ \A g \in Handlers : tasks[g].op = "claim" => g = h

\* The link going up and down, discovery and the clock never lose the fact that
\* the runner is installed; only a job, a release or a restart of the process does.
InstalledIsKept ==
    [][dev.wda \in Provisioned /\ dev'.wda \notin Provisioned =>
         frames' # frames \/ job' # job \/ dev' = adoptConfigured]_vars

\* "This is the periodic batch prober ... the real probe cost is only paid by
\* devices whose loop has died" (probeControl): a device that qualifies for the
\* prober does not stay without a loop.
Undriven == Probed(dev) /\ ~stopped /\ \A l \in DOMAIN loops : ~Live(l)
DeadLoopRevived == Undriven ~> ~Undriven
=============================================================================
