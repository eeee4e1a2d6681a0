# Verification of the node programs

This directory holds TLA+ models of the node programs of this repository, the
TLC runs that check them on small instances, and the TLAPS proofs of what holds
for every instance. `PROJECT.json` indexes all of it: components, runs,
mutants, the lines each definition models, findings, hazards and theorems.

## The system

A node keeps one bidirectional stream (NodeConnect) to the control plane. There
are three roles, built from shared packages:

| part | source | concurrency and state |
|---|---|---|
| node client | `common/agent/client.go` | reconnect loop; per connection a dispatch loop, a heartbeat goroutine and a public-IP goroutine; every emitter shares the stream under one mutex |
| session manager | `execution/session.go` | one provisioning goroutine per session, one goroutine `run()` per run of its editor, the dispatch loop |
| output queue | `execution/queue.go` | per session; two pumps append, a flusher per run sends |
| session input | `execution/session.go`, `stream_executor.go` | FIFO per session, drained by the dispatch loop and by `run()` |
| structured output | `execution/stream_parser.go` | line scanner on the runtime's stdout |
| session configuration | `execution/session.go`, `editorconfig.go` | revisions of split config pushes, provider files |
| worktrees, environments | `execution/worktree.go`, `environments.go`, `common/workspaces` | checkouts shared between tasks |
| files, tunnels | `execution/fileservice.go`, `tunnel.go` | HTTP relays |
| terminals | `common/agent/terminal.go` | PTY pump per terminal, replay buffer, reaper |
| tool runs | `common/agent/toolrun.go` | process per run id, waiter, grace timer |
| file upload | `common/agent/host_file_upload.go` | chunked uploads, a goroutine per frame |
| Xcode jobs | `common/agent/xcodejob.go` | one install at a time |
| upgrades, host tools | `common/agent/hosttool.go`, `runtimeupgrade.go`, `selfupgrade.go` | downloads and file swaps |
| local state, locks | `common/agent/localstate.go`, `lock*.go`, `autostart*.go` | one instance per host |
| build runner | `common/build` | one goroutine per build, cancel, upload |
| iOS devices | `common/ioshost/manager.go` | device registry, per-device loops, snapshots from the enumerator |
| iOS WDA jobs | `common/ioshost/wdajob.go`, `wdapipeline.go` | one job per device |
| iOS tunnel, LAN | `common/ioshost/tunnel.go`, `lan.go` | reconcile loops |
| management node | `management` | starts and supervises other nodes |
| JS runtime, go-ios fork | `runtime`, `third_party` | separate programs and a vendored library |

The core is the path of a session on an execution node. The control plane
creates a session and commands it over the stream; the session's editor process
writes output, which the queue carries upstream across lost connections; user
messages go the other way into the process's stdin. This is where goroutines of
several runs, a provisioning goroutine, a dispatch loop that blocks inside its
handlers and a connection that comes and goes meet on one set of variables.
Around it stand the parts that keep something on the host: working trees, caches,
uploads, installs, builds, terminals, phones and launched nodes. They share the
stream and the dispatch loop, and hardly anything else.

## Modules

| module | models | state and actions |
|---|---|---|
| `OutputQueue` | `queue.go`, used by one run | the fields of `outputQueue`, the waiters of its condition variable, the program counters of the flusher and of `run()`; one action per critical section or blocking point |
| `OutputChannel` | what the queue promises | written, delivered, ended |
| `SessionRuntime` | the lifecycle in `session.go` | composes the queue's actions (`Q == INSTANCE OutputQueue`) with several runs, the provisioning goroutine, the dispatch loop and the connection |
| `SessionInputs` | `deliverInput`, `drainPending`, `failPendingInputs`, the stream executor | the FIFO, the reserved keys, the drain mutex and the writers, around the same lifecycle in coarser steps |
| `Provisioning` | `create`, `provisionSession`, config pushes and `delete`, with `worktree.go`, `environments.go`, `git_workspace.go` | sessions of one task under several ids, each with its runtime directory, and the tree they share; git's record of it, the shared checkout; git commands and removals that fail or are killed |
| `ResourceCache` | `fetchResource`, `fetchArchive`, `extractTarGz`, `copyTree` of `editorconfig.go` | cache directory, marker and destination, entry by entry |
| `NodeClient` | `client.go` | dial, registration, approval, heartbeat, emitters under `c.mu`, public-IP configuration and lookups |
| `Terminal` | `terminal.go` | terminals, replay buffers, the pump, attach, detach, the reaper; each store of `attached` and `detachedAt` is a step |
| `ToolRun` | `toolrun.go` | start, replacement, stop and its timer, pumps and waiter of each process |
| `FileUpload` | `host_file_upload.go` | sessions by id, temp files by sanitized id, the destination; a goroutine per chunk |
| `BuildRunner` | `common/build/runner.go` | the job table and the runs, stage by stage, with the four ends of a context |
| `XcodeJob` | `xcodejob.go` | the one slot, attempts and their directories, `/Applications` |
| `StagedInstall` | `runtimeupgrade.go` | target, backup, stage and archive; a fault or the end of the process between any two steps |
| `SelfUpgrade` | `selfupgrade.go`, `progressdownload.go` | file names and the files behind them, blocks read, checksum and length present or not |
| `Launch` | `management/launch.go` | the launch table and the container; docker calls that fail |
| `DeviceManager` | `ioshost/manager.go` | one phone: claim, configuration, loops and their handle, wipe, prober, `devices.json` |
| `WdaAxis` | the installation state in `manager.go` | operators shared by `DeviceManager` and `IosJobs` |
| `Discovery` | enumeration and events in `manager.go` | the cable, lists under way, the event stream |
| `IosJobs` | `wdajob.go` | the job table, the stages, the result, pause and resume |
| `TunnelAgent` | `tunnel.go`, `lan.go`, the registry of `tunnel_api.go` | the USB reconcile loop and the LAN passes of one phone, and the one registry entry both write |
| `*Proofs` | theorems, of one or several components | see Proofs |
| `MC...` | instances for TLC | `MCWork`, `MCJobs` and `MCIos` put several components into one run (below) |

Each definition keeps the name of the function it models where it can; "map" in
`PROJECT.json` gives its lines. What is abstracted:

* A chunk is its offset and length or its number; a message is its dedupe key and
  the number of its acceptance. Frames without a message id are not modelled.
* `sync.Cond` is a FIFO of blocked goroutines, as the Go runtime implements it.
* `EmitUpstream` succeeds while a registered stream is live and fails otherwise. A
  frame that was sent and lost with the connection counts as sent.
* Frames of one stream are dispatched one at a time (`client.go:385`); a handler
  that starts a goroutine returns at once.
* A process whose context is cancelled is killed, but its run ends only when its output
  does: something else may hold the output open for ever (`clings` in `SessionRuntime`,
  the drain of the queue in `SessionInputs`). A spawn may fail.
* The sanitizing of an upload id is a map from ids to the names of temp files,
  chosen at the start, so that two ids may share one.
* An unrecovered panic, or the abort of the Go runtime on a map race, ends the node.
* Files are their completeness: absent, partial, whole, or the set of parts written.
* `Provisioning` has one task on one environment, or one session of no task;
  `TunnelAgent` and `DeviceManager` have one phone, `Launch` one launch id. Two phones of a
  `DeviceManager` meet only where their labels give one name to a credential file.
* In `SessionInputs` the two critical sections of a restart's start and those of the
  auto-start are one step each; their races are the subject of `SessionRuntime`.
  `Failures` names the steps that may fail on their own.

**Composition.** `SessionRuntime` composes the queue with the lifecycle, `IosJobs` and
`DeviceManager` share `WdaAxis`. `MCWork`, `MCJobs` and `MCIos` are of another kind:
one part is chosen at the start, and only that component moves. That is a way to run
several independent models under one configuration. It does not check an
interaction between them, and none is claimed: they have no variable in common.
The composition extends the modules, so the names of the components are their own:
`ProvNext`, `CacheNext`, `UploadNext`, `InstallNext`, `SelfNext`, `LaunchNext`, `XcodeNext`,
`ToolNext`, `WdaNext`. `TunnelAgent` and `Discovery` are instantiated in `MCIos`.

## Runs

| run | parts | bounds |
|---|---|---|
| `queue` | `OutputQueue`: order, refinement of `OutputChannel`, liveness | 4 chunks of 1 or 2 bytes |
| `work_safety` | `SessionRuntime`, `Provisioning`, `ResourceCache`, `FileUpload`, `StagedInstall`, `SelfUpgrade`, `Launch` | 2 runs, 1 drop, 1 chunk; 2 creates under 2 session ids; 1 fetcher of 3 entries; 3 uploads of 2, 1 and 1 chunks with 2 temp names and 3 sessions; 1 installer with 1 fault; 2 upgrades of 2 blocks; 3 frames |
| `session_liveness` | a restart returns; a delete ends every editor | 2 runs, 1 chunk, no lost connection; runs whose output is held open |
| `inputs` | messages reach the runtimes once and in order, and settle | 2 messages, 2 runs, 1 drop, failures of provisioning, pre-flight and spawn; writes and drains that hang |
| `terminal` | replay, removal, reaping | 1 terminal, 3 chunks with room for 2, 1 broken stream |
| `node` | registration first, dead stream, approval, public-IP report | 2 streams, 2 revisions, 1 family |
| `jobs` | `BuildRunner`, `XcodeJob`, `ToolRun` | 2 runs of a build of 2 steps; 2 installs of 3 attempts; 2 starts of one id |
| `ios` | `IosJobs`, `TunnelAgent`, `Discovery` | 2 jobs, 2 frames; 2 changes; 3 plugs |
| `devices` | `DeviceManager` | 2 frame goroutines, 2 frames, crashes, failed saves |

The bounds are the smallest at which the case a property is about occurs: an old
and a new run on one queue, a retry of what has finished, a buffer that evicts, a
second frame during the wait of the first. Every property of a run has a mutant in
`PROJECT.json`: a small change of the modelled code under which the run fails.

The runs keep the properties closest to a hazard. TLC found these to hold in the same
instances too; no configuration lists them and no mutant is kept for them, so a
change of the models does not re-check them unless they are proved: `TypeOK` of each
module; `RunningShellListed`;
`OneResult`, `InstalledNeverFails`, `LanViewsAgree`, `ReleasedIsDropped`;
`OneAttemptOnDisk`, `ExistingIsKept`, `EventsInOrder`, `ListedUnlessReused`,
`TargetEnds`; `FailedLeavesNoTemp`, `MappedIsUsable`; and, proved below, `RunningIsLive`,
`OutputBeforeResult`, `OffsetsContiguous`, `InstallsNeverOverlap`,
`InstalledIsWhole`, `RunningIsTracked`, `ClaimIsPersisted`, `OneMint`, `InstalledIsKept`.

Small bounds can hide a counterexample, and did: a property that said overlapping
editors are always cancelled held with two runs and fails with three, and was
dropped. The safety properties were therefore also simulated at larger bounds, with
random behaviours of up to 150 steps for 150 seconds per module, and none was
violated: `SessionRuntime` (5 runs, 3 drops, 3 chunks), `SessionInputs` (3 messages,
4 runs, 5 frames, 2 drops), `Provisioning` (6 creates under 3 ids, 3 revisions, 2 kinds), `Terminal`
(2 ids, 4 opens, 5 chunks, 3 breaks), `NodeClient` (5 streams, 4 revisions, 2 families),
`DeviceManager` (3 goroutines, 6 frames), `BuildRunner` (2 builds, 3 steps, 5 runs),
`XcodeJob` (4 attempts, 4 runs), `ToolRun` (2 ids, 5 starts), `IosJobs` (3 jobs, 5 frames),
`TunnelAgent` (6 changes), `FileUpload` (3 uploads of 3 chunks, 8 sessions), `SelfUpgrade` (4 blocks, 6 files) and
`Launch` (5 frames). Simulation is not exhaustive, and says nothing of liveness.
`ResourceCache`, `StagedInstall` and `Discovery` were not taken beyond the bounds of
their runs, nor was the queue by itself. `Provisioning` was also run exhaustively with 3
creates (5.8 million states). In `work_safety` no configuration is sent before a session is
ready (`Early`) and no run clings: the properties there do not depend on either.

Three runs end in a violation. Each states what a comment of the code says:

* `session_orphan`: `markStopped` does not look at whose run ended. After a lost
  connection the late end of the old run turns the new run's state to stopped, the
  next start launches a third, and the second has lost its cancel function.
* `session_panic`: two runs mean two flushers on one queue, and both may pop the
  same chunk.
* `devices_dead_loop`: a device loop that ends by itself leaves `d.cancel` set, so the
  prober that is there to revive it does nothing.

The properties that hold are stated as strongly as the code keeps them, and name their
exceptions: `OneEditorUntilDrop` stops at the first lost connection and leaves
auto-started sessions aside, as does `NoOrphanEditor`; `RestartReturns` is about a
connection that holds, and with `DeletedDies` about runs whose output nobody else holds
open (`clings`); `ApprovalWakes` leaves out a peer that stops reading, and
`DeadStreamReplaced` is about sends that fail, not about sends that hang; `PreparingEnds` a frame that put the phone into preparation and was
refused, or retried a job that had already reported (`unanswered`), and a stage that runs
without a timeout (`Untimed`); `SettleUnlessStranded` names the states in which a message is
left behind (`Stranded`) and the waits without an end (`Hangs`): a write to a runtime that
does not read, and the pumps or the drain of a one-shot run; those of an interactive
run hold no message back; `NoStaleRegistration` excuses a cut or failed git command or removal (`torn`);
`WorkKept` the removals somebody asked for; `LiveKeepsTree` the removal of the environment
and the delete of another session of the task; `DestWhole` an upload whose temp file is
another's too (`Alone`); `ClaimIsPersisted`
a failed save, which leaves the file as it was; `BinaryIsWhole` an upgrade with neither checksum nor length and two at
once that lack one (`unguarded`); `RunningIsTracked` and `DeletedIsGone` the container whose
handle a failed docker call or a restart lost (`lost`), and frames between docker and the
table; `DetachedIsReaped` a terminal detached without a time; `ListedUnlessReused` an id used twice; `FetchedIsWhole`, `InstalledIsWhole` and
`InstallKept` are about one fetch or install at a time, `InstallKept` with one fault.

These are stated in the modules too, each from a comment of the code, and TLC finds
them violated; no run is kept for them, and "Behaviour seen on the way" says what
happens: `ResultAfterOutput`, `DrainReturns` (`SessionRuntime`), `LastStatusIsFailed`,
`MessagesSettle` (`SessionInputs`), `SafeForConcurrentUse` (`Terminal`), `UnknownIsGone`
(`ToolRun`), `PipelinedIsAccepted` (`FileUpload`), `WorkingIsPreparing`,
`PausedWhileRunning` (`IosJobs`), `UnplugTearsDown` (`TunnelAgent`),
`LostStreamAbortsNothing` (`BuildRunner`), `ProvisionedIsWhole`, `SessionKept`,
`OnDiskIsEffective` (`Provisioning`), `ReadyIsWhole` (`ResourceCache`, two fetchers).

### Fairness

Every goroutine that can take a step takes it in the end (weak fairness), timers
fire, and a cancelled process exits with its output unless something else holds that
open. No fairness is assumed of what has no timeout in the code: in `SessionInputs` the
write to a runtime, its pumps and the drain of the queue; in `IosJobs` the developer mode,
signing and installation steps (`TimedStep` names the others). Strong fairness is assumed of waiters for a
mutex (Go hands a mutex over to a starving waiter), of a ready channel in a `select`,
and, in `TunnelAgent`, of an enumeration, a start or an open that is tried for ever. The ticker of
the heartbeat fires although the mutex it needs comes and goes. In `SessionRuntime`
the dispatch loop notices a dead stream and the reconnect succeeds, as it is retried
for ever. In `DeviceManager` only the prober is fair. Nothing makes the server send a command, the connection
drop, a shell or a tool end, or a command of a job finish; a killed command whose
descendant holds the pipe may never return, nor may `activateDeveloperDir`, which does not
watch the context of its job (`Stuck`, `XcodeStuck`). In `OutputQueue` the return of
the connection is a hypothesis of `DrainEnds`. Deadlock is not checked: a system with
nothing left to do may stop.

## Proofs

Each theorem is about the definition the run checks: the run's module extends the
component's module, and so does the proof module. TLC shows the property on the small
instance, the theorem for every value of the constants that the assumption allows.

| module | about | theorems | assumptions |
|---|---|---|---|
| `OutputQueueProofs` | queue | `TypeCorrect`, `NothingLost`, `ResultAfterOutput`, `Contiguous`, `NoPanic`; `Implements`: `Spec => ChannelSpec` | lengths are positive, the number of chunks is a natural number |
| `SessionInputsProofs` | `SessionInputs` | `StrictFifo`, `AtMostOnce`, `FailedCanBeResent` | `InputsAssumption`: at least one run; any keys, frames, drops |
| `NodeClientProofs` | `NodeClient` | `RegisterComesFirst`, `ReportIsCurrent` | any number of streams and revisions |
| `WorkProofs` | `SessionRuntime` | `RunningMeansLive`, `OneEditor` | `SessionAssumption`: at least one run, any number of drops |
| | `Provisioning` | `PruneIsEnough`; action properties `WorkIsKept`, `TreeStaysUnderSession` | `IdsAssumption`: at least one session id |
| | `Launch` | `Tracked`; action property `AckedDelete` | none |
| | `ResourceCache` | `OneFetcher` | one fetcher, any number of entries |
| | `StagedInstall` | `NeverPartial`, `OneFaultLeavesAnInstall` | one installer; any number of faults, at most one for the second |
| `FileUploadProofs` | `FileUpload` | `UploadIsAtomic` | any uploads to one path, any temp names, any numbers of chunks |
| `SelfUpgradeProofs` | `SelfUpgrade` | `UpgradeIsAtomic` | two upgrades (or one), any number of blocks and files |
| `JobsProofs` | `BuildRunner` | `NoBuildTwice`, `OkMeansStored` | any number of steps |
| | `XcodeJob` | `OneInstall`, `WholeApps` | any number of runs, at least one attempt |
| | `ToolRun` | `StopHitsItsTarget` | any run ids, any number of starts |
| `DeviceProofs` | `DeviceManager` | `OneLoopDrives`, `ControlIsReal`, `OneClaim`; action properties `ClaimSurvives`, `RunnerStaysInstalled` | any number of goroutines and frames |
| | `IosJobs` | `PausedForAJob` | any jobs, any number of frames |

The scopes that are left are those of the properties: two fetchers or two installs at
once do break `FetchedIsWhole`, `InstalledIsWhole` and `InstallKept`, and so do two faults
the last one. For `BinaryIsWhole` the proof counts on who else is writing, and covers two.

Few of these properties are inductive. What each invariant adds:

* `IInv` (queue): at most one run uses the queue (`OneRun`) and only its flusher
  exists; the chunk a flusher holds is still the head while it sends and pops, which
  is what makes the pop without a second look right; the queue is closed only after
  the run stopped; nothing is produced before the spawn and nothing queued after
  `drain`; offsets are contiguous. In `Implements`, `append` is a write, `flushSend` a
  delivery, the end of `drain` or of a failed spawn the end, the rest stutters.
  `OneRun` is what `SessionRuntime` breaks after a restart, and `session_panic` is
  what remains of `NoPanic` without it.
* `InputsInv` (messages) has two halves. `Hands` says who may hold a frame: the holder of
  `drainMu` is a drainer and it alone writes; frames are reported failed by that holder,
  by the dispatch loop or by a run that has ended, each its own. `Flow` says what the
  frames are like wherever they are: delivered ones come before the one being written,
  that before the queued ones, those before the one arriving; no frame is in two hands;
  and `seenMessageIDs` holds exactly the keys of the frames in some hand, each key
  once. The last is why a key freed by a failure cannot be that of another frame, which
  is the heart of at-most-once. `Flow` is a predicate on sets; one lemma per move of a
  frame (`Accept`, `Enqueue`, `Pop`, `Deliver`, `Doom`, `Forget`) is proved away from the
  state, and each action is one of those moves or none (`Quiet`).
* `RtInv` (session): `run()` reaches its tail only with the process gone, and, until
  a connection is lost and unless the session starts itself, every run but the
  current one is over, and the current one too unless the state is running. That is
  why `markStopped`, which does not know whose state it changes, is right until then.
* `ProvInv` (provisioning): a record of a tree that is gone is about to be pruned or one
  of a cut operation (`TreeInv`); the map holds sessions under their own ids, and while a
  delete is under way the id of its session is not in it, so no session of that id
  works in the tree that is removed (`MapInv`).
* `NInv`, `CInv` (client): the gate is open only on a stream the register frame went out
  on, and who sends through it holds `c.mu`, so neither deferred reset comes in between;
  a lookup under way carries a revision that was in force, and while it still is, only
  configured families are looked up.
* `UploadInv` (upload): an open session is the one its id is mapped to, and if the name of
  its temp file is no other upload's the file has exactly the chunks counted in it; a final
  chunk that passed its checks keeps the id until its file is in place, so no other
  goroutine writes to it meanwhile.
* `SelfInv` (upgrade): the three names refer to different files; a sized download that
  reaches its rename has read every block; a lone writer's file is `exe.new.part`; what
  passed the check, by sum or by length, is whole as long as the name is there.
* `XInv` (Xcode): what is moved was found in a directory extracted to the end.
* `BInv` (build): before it finishes a run has neither verdict nor result, and a verdict
  of ok means the upload was answered.
* `ToolInv` (tools): a timer, and a replacement under way, hold a process that was asked
  to end, and processes that were not spawned yet are neither registered nor cancelled.
* `CInv` (cache, in `WorkProofs`): between the removal of a half-made entry and the
  marker there is no `.ready`, and the fetcher that writes it has every entry.
* `StagedInv`, `KeptInv` (install): current and set-aside directories are whole or absent,
  and from the validation on so is the staged one; one of the three is whole.
* `LInv` (launch): the property is inductive with the type of the state.
* `DevInv` (phone): a frame that is about to cancel took its handle from the device, and
  the handle is that of a loop that exists.
* `MintInv` (claims): a claim being served holds the reservation, alone, and a claimed
  device has a credential, which is why a configuration that is saved keeps it.
* `WdaInv` (WDA jobs): a job that runs is in the table, and so is the one that the
  dispatch loop registered and has not launched.

TLC checked the two largest, `InputsInv` and `MintInv`, on the instances of their runs
before they were proved.

Only model-checked:

* liveness under fairness, which the prover does not do: `DrainEnds`, `FlusherEnds`,
  `RestartReturns`, `DeletedDies`, `SettleUnlessStranded`, `ClosedIsRemoved`,
  `DetachedIsReaped`, `DeadStreamReplaced`, `ApprovalWakes`, `BuildEnds`, `JobEnds`,
  `EndedIsDelisted`, `PreparingEnds`, `PluggedGetsTunnel`, `AbsentIsServed`,
  `PresenceConverges`;
* `AttachCovers`. `terminalBuffer.replay` is a filter over the buffer (`SelectSeq`) and
  `terminalBuffer.append` evicts by the sum of the sizes (`FoldLeft`): what they return for
  a buffer of any length takes an induction over the buffer, which the provers at hand
  cannot do.

## Running it

    tlc -config OutputQueue_queue.cfg MCOutputQueue
    tlapm OutputQueueProofs.tla

and likewise for the other configurations; `PROJECT.json` names the module of each.

## Behaviour seen on the way

What the models do at the places where a comment promises more, or where a
reader would ask. Where no property is named it was met while modelling.

**Sessions.** `queue.closed` is never reset, so after a restart a run's `drain` returns
at once and its result may overtake its output (`ResultAfterOutput`; queue.go:120-122).
The flusher of a cancelled run gives up, and `drain` then waits for a queue nobody
empties (`DrainReturns`; queue.go:160, session.go:718-719). An acknowledgement may
follow the failure of the same message (`LastStatusIsFailed`; session.go:1537), and a
message taken after a failed spawn is neither delivered nor failed (`MessagesSettle`;
stream_executor.go:250). A restart frame during provisioning skips the guard of
`startRuntime` (session.go:684). Two flushers may send a chunk twice. A delete that
races the auto-start does not wait for the run it starts.

**Working trees and configuration.** `delete` removes the tree with uncommitted work in
it (worktree.go:285-287). The tree is the task's and the delete the session's: deleting
one session of a task removes the tree under another (session.go:1777). A node killed, or a failed prune, between two git steps leaves
a registration without a tree. Provisioning that outlives its session's delete
recreates the runtime directory, and `removeFailedSession` removes by id, whosever
session that is by then (`SessionKept`). A clone that failed half-way leaves a partial
checkout, which the next create of the session takes for a whole one
(`ProvisionedIsWhole`; session.go:1271-1273). A config push acknowledged while the
session is being provisioned is overwritten by the initial configuration
(`OnDiskIsEffective`; session.go:822-823); `configureLLM` also stores its revision
before a write that may fail. Removing an environment pulls the tree from under its
sessions. Two fetchers of one archive can mark a
half-made entry as ready (`ReadyIsWhole`; editorconfig.go:976).

**Terminals and tool runs.** `m.buffers` is read without the lock (terminal.go:317, 348),
which the Go runtime may answer with an abort (`SafeForConcurrentUse`). The reaper
loads `detachedAt` twice (635, 638) and closes a terminal attached in between (644). A
`markAttached` that interleaves with a detach leaves a terminal that is never reaped.
A background process that keeps the PTY open keeps the terminal of a shell that exited.
Output can follow the exit frame, and the tail is lost if the shell ends while the
stream is down. The waiter of a replaced tool run deregisters its successor
(`UnknownIsGone`). `StopAll` (toolrun.go:236) has no caller.

**Uploads, installs, upgrades.** Pipelined chunks are handled by goroutines in any order
and refused when the second comes first (`PipelinedIsAccepted`). Two ids that sanitize
to one name share a temp file, and without a checksum one can be put in place with chunks
of the other (host_file_upload.go:70-71, 122); an upload whose last chunk never comes
keeps its temp file.
Two runtime upgrades at once may activate a partial runtime, and two faults may lose
it. A self upgrade with neither checksum nor content length may install a truncated
binary (progressdownload.go:138).

**Jobs.** A lost stream cancels a running build (`LostStreamAbortsNothing`;
streamctx.go:21-22). A timeout is reported as a cancellation. The results of builds and
WDA jobs are sent once, and lost if the stream is down. A dispatch retried between the
result and the removal from the table is acknowledged and runs nothing. An Xcode job
right after a result can be refused; a cancellation during activation is reported as a
failed probe with the app in place.

**Client.** `approved` stays true after a revocation (client.go:1018); the broadcast of a
cancelled `WaitApproved` can be lost (1004-1012); no heartbeat runs before the
acknowledgement of the registration. `cancel` is the outermost deferred call of `serve`,
so an emitter stalled in `Send` can hold up the end of a revoked stream.

**Phones.** Loops started from a frame run on the context of its stream, so they die
with it (streamctx.go:17-19), and a loop that has died is not restarted
(`devices_dead_loop`). READY may stay
with control off, and the end of an old loop turns off its successor's
`deviceControlOn` (manager.go:962). A `Configure` after a `Release` writes a
`devices.json` entry that is claimed again after a restart. A STOP during the wait of a
RESTART is undone. A WDA job does not always show PREPARING, and the pause can end
while another job runs (`WorkingIsPreparing`, `PausedWhileRunning`). A WDA frame
without a job id marks the phone PREPARING before it is refused, and a developer mode,
signing or install command that never returns keeps it there (frames.go:123-136,
wdapipeline.go:297-305, 416-482). A tunnel opened by a forced update, which records no set
of devices, outlives an unplug until the set changes again (`UnplugTearsDown`). A stop of the LAN agent
that races an open leaks a tunnel.

**Launches.** A delete after a failed `docker rm`, or after a restart of the management
node, is acknowledged as gone while the container runs on. A delete that overtakes its
create is acknowledged too. A create sent again fails because the name is taken.

### Lesser hazards

`PROJECT.json` lists the main hazards. These are further ones:

* `execution/session.go:1452`: the result is sent once; it is lost with the stream.
* `execution/session.go:482`: delete during provisioning stops a file service that
  does not exist yet; provisioning then starts one that nobody stops.
* `execution/session.go:1716`: an event's number is taken under the lock and the event
  sent after it, so numbers can arrive out of order.
* `execution/stream_executor.go:240`: a runtime that stops reading stdin blocks the
  write under two mutexes, and with them the dispatch loop.
* `execution/handler.go:375`: two upgrade frames share staging and backup directories.
* `common/agent/toolrun.go:139`: `Start` releases the lock to cancel a run of its id.
* `common/agent/host_file_upload.go:69`: a repeated first chunk after the end of an
  upload opens a session that nothing ends.
* `common/agent/localstate.go:189`: the owner file is read after the lock was refused;
  another node may have taken the lock by then.
* `common/ioshost/tunnel.go:139`: a failed reconcile after a change of membership is
  retried every second; the throttle applies to an unchanged set only.

## Not modelled

The map covers a small part of the lines under `src/`. About 30,000 of some 52,000 are
generated protocol bindings, which have no state to model; the rest of what is left
out is I/O and formatting rather than interleaving:

* structured output parser: a sequential line scanner, whose one hazard is the limit on
  a line (stream_parser.go:31);
* executors, node programs: choice and start of processes; their outcomes are inputs of
  the session models;
* file service and tunnels, system environment and editor inventory, host facts, logs:
  HTTP relays, directory scans and probes;
* local state, locks, autostart: a record beside a lock file, files for service managers;
* one-time passwords: a cryptographic function;
* the JavaScript runtime, another program, and the vendored go-ios fork apart from the
  registry of tunnels.

Of the components marked `partly`, these operations are missing: input, resize,
interrupt, list and `CloseAll` of terminals; the pruning of resources and the content
of provider files; sync and inspection of environments and imported checkouts; the
Node.js install of `hosttool.go`, whose steps are those of the runtime upgrade; the
standalone launch, which keeps no handle; enumeration and device facts; frames without
a message id. No module composes `NodeClient` with `SessionRuntime`: the session sees
the stream as up or down.
