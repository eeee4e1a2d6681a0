--------------------------- MODULE SessionRuntime ---------------------------
(***************************************************************************)
(* The life of one session on an execution node                            *)
(* (src/execution/session.go): the goroutine that provisions it, the       *)
(* dispatch loop that starts, restarts and deletes it and that stops every *)
(* editor when the connection drops, and the goroutine run() of each run   *)
(* of the editor, which uses the session's one output queue.               *)
(*                                                                         *)
(* The dispatch loop handles one frame at a time and blocks inside         *)
(* restart and delete until the run it read has finished; while it blocks  *)
(* it neither notices a dead stream nor reconnects.                        *)
(***************************************************************************)
EXTENDS Naturals, Sequences, FiniteSets

CONSTANTS MaxRuns,     \* bound: runs of the editor
          MaxDrops,    \* bound: times the connection is lost
          MaxChunks,   \* bound: chunks the editors write
          Lens         \* lengths of those chunks

ASSUME SessionAssumption ==
    /\ MaxRuns \in Nat \ {0}
    /\ MaxDrops \in Nat

VARIABLES
    \* the output queue and the runs' use of it (OutputQueue)
    items, offset, closed, waiters, flusher, held, caller, ctxDone, up,
    produced, sent, panicked,
    \* the session
    autoStart, \* ~spec.defer_start: provisioning ends by starting the editor
    inMap,     \* m.sessions holds it
    state,     \* session.state
    cur,       \* number of the current run; 0: none yet (runCancel = nil)
    baseDone,  \* session.baseCtx is cancelled
    \* the goroutines
    tail,      \* what run() of each run has left to do after drain
    prov,      \* the provisioning goroutine
    disp,      \* the dispatch loop
    target,    \* the run whose runDone restart or delete waits for
    \* the environment and history
    drops,     \* connections lost so far
    clings,    \* runs whose output does not end with their context
    written,   \* written[r]: chunks produced when run r last appended
    result     \* what became of each run's terminal result

Runs == 1 .. MaxRuns

Q == INSTANCE OutputQueue

\* queueRest: the queue's variables that no step of the session manager touches.
queueRest == <<items, offset, closed, waiters, flusher, held, caller, produced, sent,
               panicked>>
queueAll == <<queueRest, ctxDone, up>>
sessionVars == <<autoStart, inMap, state, cur, baseDone>>
actorVars == <<tail, prov, disp, target>>
ghostVars == <<drops, clings, written, result>>
svars == <<queueAll, sessionVars, actorVars, ghostVars>>

SessionStates == {"provisioning", "provisioned", "running", "stopped"}
TailStates == {"report", "mark", "stop", "close", "closed"}
ProvStates == {"prep", "lookup", "apply", "done"}
DispStates == {"idle", "restartWait", "restartStart", "deleteCancel", "deleteWait",
               "offline"}

TypeOK ==
    /\ Q!TypeOK
    /\ autoStart \in BOOLEAN
    /\ inMap \in BOOLEAN
    /\ state \in SessionStates
    /\ cur \in 0 .. MaxRuns
    /\ baseDone \in BOOLEAN
    /\ tail \in [Runs -> TailStates]
    /\ prov \in ProvStates
    /\ disp \in DispStates
    /\ target \in 0 .. MaxRuns
    /\ drops \in 0 .. MaxDrops
    /\ clings \subseteq Runs
    /\ written \in [Runs -> 0 .. MaxChunks]
    /\ result \in [Runs -> {"none", "sent", "lost"}]

\* create has registered the session and launched provisionSession.
Init ==
    /\ Q!Init
    /\ autoStart \in BOOLEAN
    /\ inMap = TRUE
    /\ state = "provisioning"
    /\ cur = 0
    /\ baseDone = FALSE
    /\ tail = [r \in Runs |-> "report"]
    /\ prov = "prep"
    /\ disp = "idle"
    /\ target = 0
    /\ drops = 0
    /\ clings = {}
    /\ written = [r \in Runs |-> 0]
    /\ result = [r \in Runs |-> "none"]

-----------------------------------------------------------------------------
\* Mutant of startRuntime: the run's context does not descend from the
\* session's.
startRuntime_detached ==
    \/ UNCHANGED <<state, cur, ctxDone>>
    \/ /\ state \in {"provisioned", "stopped"}
       /\ cur < MaxRuns
       /\ cur' = cur + 1
       /\ state' = "running"
       /\ UNCHANGED ctxDone

\* startRuntime, from the lock on: a no-op while running or provisioning, a
\* failed pre-flight, or a new run on a context derived from the session's.
startRuntime ==
    \/ /\ state \in {"running", "provisioning"}
       /\ UNCHANGED <<state, cur, ctxDone>>
    \/ /\ state \in {"provisioned", "stopped"}
       /\ UNCHANGED <<state, cur, ctxDone>>
    \/ /\ state \in {"provisioned", "stopped"}
       /\ cur < MaxRuns
       /\ cur' = cur + 1
       /\ state' = "running"
       /\ ctxDone' = [ctxDone EXCEPT ![cur + 1] = baseDone]

cancelRun(r) == ctxDone' = [q \in Runs |-> ctxDone[q] \/ q = r]

RunDone(r) == \A q \in Runs : q = r => tail[q] = "closed"

-----------------------------------------------------------------------------
\* The provisioning goroutine.

\* A step that must succeed failed (clone, adopted checkout).
removeFailedSession ==
    /\ prov = "prep"
    /\ inMap' = FALSE
    /\ prov' = "done"
    /\ UNCHANGED <<queueRest, autoStart, up, ctxDone, state, cur, baseDone, tail, disp, target,
                   ghostVars>>

\* Ready: leave provisioning, unless somebody moved the state on already.
provisioned ==
    /\ prov = "prep"
    /\ state' = IF state = "provisioning" THEN "provisioned" ELSE state
    /\ prov' = IF autoStart THEN "lookup" ELSE "done"
    /\ UNCHANGED <<queueRest, autoStart, up, ctxDone, inMap, cur, baseDone, tail, disp, target,
                   ghostVars>>

\* The auto-start: startRuntime looks the session up, then locks it.
autoStartLookup ==
    /\ prov = "lookup"
    /\ prov' = IF inMap THEN "apply" ELSE "done"
    /\ UNCHANGED <<queueRest, up, ctxDone, sessionVars, tail, disp, target, ghostVars>>

autoStartApply ==
    /\ prov = "apply"
    /\ startRuntime
    /\ prov' = "done"
    /\ UNCHANGED <<queueRest, autoStart, up, inMap, baseDone, tail, disp, target, ghostVars>>

Provisioner == removeFailedSession \/ provisioned \/ autoStartLookup \/ autoStartApply

-----------------------------------------------------------------------------
\* The dispatch loop.

\* A StartSessionRuntime frame.
startFrame ==
    /\ disp = "idle"
    /\ inMap
    /\ startRuntime
    /\ UNCHANGED <<queueRest, autoStart, up, inMap, baseDone, actorVars, ghostVars>>

\* A RestartSessionRuntime frame: cancel the run there is and wait for it.
restartFrame ==
    /\ disp = "idle"
    /\ inMap
    /\ disp' = "restartWait"
    /\ target' = cur
    /\ cancelRun(cur)
    /\ UNCHANGED <<queueRest, up, sessionVars, tail, prov, ghostVars>>

\* Mutant of restartWaited: it does not wait for the old run.
restartWaited_noWait ==
    /\ disp = "restartWait"
    /\ disp' = "restartStart"
    /\ state' = "provisioned"
    /\ target' = 0
    /\ UNCHANGED <<queueRest, autoStart, up, ctxDone, inMap, cur, baseDone, tail, prov, ghostVars>>

\* <-done returned: clear the conversation state if asked to, which may fail,
\* and reset the state.
restartWaited ==
    /\ disp = "restartWait"
    /\ RunDone(target)
    /\ \/ disp' = "restartStart" /\ state' = "provisioned"
       \/ disp' = "idle" /\ UNCHANGED state
    /\ target' = 0
    /\ UNCHANGED <<queueRest, autoStart, up, ctxDone, inMap, cur, baseDone, tail, prov, ghostVars>>

\* restartRuntime ends in startRuntime, which looks the session up again.
restartStart ==
    /\ disp = "restartStart"
    /\ \/ inMap /\ startRuntime
       \/ ~inMap /\ UNCHANGED <<state, cur, ctxDone>>
    /\ disp' = "idle"
    /\ UNCHANGED <<queueRest, autoStart, up, inMap, baseDone, tail, prov, target, ghostVars>>

\* A DeleteSession frame: unregister the session and read its runDone.
deleteFrame ==
    /\ disp = "idle"
    /\ inMap
    /\ inMap' = FALSE
    /\ disp' = "deleteCancel"
    /\ target' = cur
    /\ UNCHANGED <<queueRest, autoStart, up, ctxDone, state, cur, baseDone, tail, prov, ghostVars>>

\* sessionCancel: every run's context descends from the session's.
sessionCancel ==
    /\ disp = "deleteCancel"
    /\ disp' = "deleteWait"
    /\ baseDone' = TRUE
    /\ ctxDone' = [r \in Runs |-> ctxDone[r] \/ r <= cur]
    /\ UNCHANGED <<queueRest, autoStart, up, inMap, state, cur, tail, prov, target, ghostVars>>

\* <-runDone returned: the session's directories are removed.
deleteWaited ==
    /\ disp = "deleteWait"
    /\ RunDone(target)
    /\ disp' = "idle"
    /\ target' = 0
    /\ UNCHANGED <<queueRest, up, ctxDone, sessionVars, tail, prov, ghostVars>>

\* The loop sees the stream broken: serve() calls stopAll, which cancels the
\* run of every registered session and leaves the session provisioned.
stopAll ==
    /\ disp = "idle"
    /\ ~up
    /\ disp' = "offline"
    /\ state' = IF inMap /\ state = "running" THEN "provisioned" ELSE state
    /\ IF inMap THEN cancelRun(cur) ELSE UNCHANGED ctxDone
    /\ UNCHANGED <<queueRest, autoStart, up, inMap, cur, baseDone, tail, prov, target, ghostVars>>

\* The reconnect loop registered again.
reconnect ==
    /\ disp = "offline"
    /\ disp' = "idle"
    /\ up' = TRUE
    /\ UNCHANGED <<queueRest, ctxDone, sessionVars, tail, prov, target, ghostVars>>

\* What the loop does of itself, and what the server asks of it.
DispatcherWork ==
    restartWaited \/ restartStart \/ sessionCancel \/ deleteWaited \/ stopAll \/ reconnect

Commands == startFrame \/ restartFrame \/ deleteFrame

-----------------------------------------------------------------------------
\* The stream breaks.
streamDown ==
    /\ drops < MaxDrops
    /\ drops' = drops + 1
    /\ Q!streamDown
    /\ UNCHANGED <<sessionVars, actorVars, clings, written, result>>

\* run() of run r: the queue's flusher, the process and its pumps, drain.
runSpawn(r) ==
    /\ r <= cur
    /\ Q!start(r) \/ Q!spawn(r) \/ Q!spawnFail(r)
    /\ UNCHANGED <<sessionVars, actorVars, ghostVars>>

runAppend(r) ==
    /\ \E n \in Lens : Q!append(r, n)
    /\ written' = [written EXCEPT ![r] = Len(produced')]
    /\ UNCHANGED <<sessionVars, actorVars, drops, clings, result>>

\* Both pumps have read to the end of the output and the process is reaped.
runExit(r) ==
    /\ Q!exit(r)
    /\ UNCHANGED <<sessionVars, actorVars, ghostVars>>

Alive(r) == caller[r] = "pumping"

\* The end of the output no longer follows from the end of the run's context:
\* a process the editor started holds the pipe, or the editor runs in a
\* container, whose attached stream is closed after the pumps have ended.
runClings(r) ==
    /\ Alive(r)
    /\ clings' = clings \cup {r}
    /\ UNCHANGED <<queueAll, sessionVars, actorVars, drops, written, result>>

runDrain(r) ==
    /\ Q!drain(r)
    /\ UNCHANGED <<sessionVars, actorVars, ghostVars>>

\* The terminal result is sent once, and dropped if the stream is down.
reportResult(r) ==
    /\ caller[r] = "drained"
    /\ tail[r] = "report"
    /\ tail' = [tail EXCEPT ![r] = "mark"]
    /\ result' = [result EXCEPT ![r] = IF up THEN "sent" ELSE "lost"]
    /\ UNCHANGED <<queueAll, sessionVars, prov, disp, target, drops, clings, written>>

\* The state leaves running, unless somebody moved it on already.
markStopped(r) ==
    /\ tail[r] = "mark"
    /\ tail' = [tail EXCEPT ![r] = "stop"]
    /\ state' = IF state = "running" THEN "stopped" ELSE state
    /\ UNCHANGED <<queueAll, autoStart, inMap, cur, baseDone, prov, disp, target, ghostVars>>

\* The deferred calls: the queue's stop, then close(runDone).
runStop(r) ==
    /\ tail[r] = "stop"
    /\ Q!stop(r)
    /\ tail' = [tail EXCEPT ![r] = "close"]
    /\ UNCHANGED <<sessionVars, prov, disp, target, ghostVars>>

\* Mutant of closeDone: a cancelled run returns without closing runDone.
closeDone_notWhenCancelled(r) ==
    /\ tail[r] = "close"
    /\ ~ctxDone[r]
    /\ tail' = [tail EXCEPT ![r] = "closed"]
    /\ UNCHANGED <<queueAll, sessionVars, prov, disp, target, ghostVars>>

closeDone(r) ==
    /\ tail[r] = "close"
    /\ tail' = [tail EXCEPT ![r] = "closed"]
    /\ UNCHANGED <<queueAll, sessionVars, prov, disp, target, ghostVars>>

\* The steps run() takes of itself once its process has gone.
runTail(r) ==
    runDrain(r) \/ reportResult(r) \/ markStopped(r) \/ runStop(r) \/ closeDone(r)

runFlush(r) ==
    /\ Q!flush(r)
    /\ UNCHANGED <<sessionVars, actorVars, ghostVars>>

Run(r) ==
    runSpawn(r) \/ runAppend(r) \/ runExit(r) \/ runClings(r) \/ runTail(r) \/ runFlush(r)

Next ==
    /\ ~panicked
    /\ Provisioner \/ DispatcherWork \/ Commands \/ streamDown \/ \E r \in Runs : Run(r)

Spec == Init /\ [][Next]_svars

(***************************************************************************)
(* Fairness.  Every goroutine that can run does; a cancelled process is    *)
(* killed (exec.CommandContext), which ends its output unless something    *)
(* else holds it; the dispatch loop notices a dead stream (a heartbeat     *)
(* fails) and the reconnect loop succeeds in the end.  Nothing makes the   *)
(* server send commands, the connection drop, an uncancelled editor exit   *)
(* or an output end that the editor's death did not end.                   *)
(***************************************************************************)
Fairness ==
    /\ WF_svars(~panicked /\ Provisioner)
    /\ WF_svars(~panicked /\ DispatcherWork)
    /\ \A r \in Runs : /\ WF_svars(runSpawn(r))
                       /\ WF_svars(~panicked /\ ctxDone[r] /\ r \notin clings /\ runExit(r))
                       /\ WF_svars(~panicked /\ runTail(r))
                       /\ WF_svars(runFlush(r))

FairSpec == Spec /\ Fairness

-----------------------------------------------------------------------------
\* Properties.

\* "At most one running provider process" (session.go:32-34, 124-126), as far
\* as the code keeps it: until the connection is lost, for a session that the
\* server starts itself, the only editor is the one session.runCancel cancels.
OneEditorUntilDrop == drops = 0 /\ ~autoStart => \A r \in Runs : Alive(r) => r = cur

\* No editor goes on running that nothing can reach any more: a run that is
\* not cancelled is the one session.runCancel cancels (session.go:616-620,
\* "the first becomes an orphan"), a session's auto-start left aside.
NoOrphanEditor ==
    ~autoStart => \A r \in Runs : Alive(r) /\ ~ctxDone[r] => r = cur

\* A session that says it is running has a run that is not yet over, so that
\* a start probe answered "already running" (session.go:607-610) and a
\* message accepted for it are not accepted for a dead editor.
RunningIsLive == state = "running" => cur > 0 /\ tail[cur] \in {"report", "mark"}

\* The terminal result of a run "is only reported once all output is
\* upstream" (queue.go:120-122).
ResultAfterOutput ==
    \A r \in Runs : result[r] = "sent" =>
        \A i \in 1 .. written[r] : \E j \in 1 .. Len(sent) : sent[j] = produced[i]

\* A connection drop "only slows delivery ... and the session process keeps
\* running regardless" (queue.go:19-21): no flusher pops a queue another one
\* has emptied (queue.go:166-169), which would end the node's process.
NodeStaysUp == ~panicked

\* Deleting a session ends all of its editors for good, the ones a
\* concurrent auto-start or an earlier connection left behind included
\* (session.go:1749-1757, 641), but for one whose output is held open
\* (session.go:765, docker_executor.go:121-136).
DeletedDies == baseDone ~> []((\A r \in Runs \ clings : ~Alive(r)) \/ panicked)

\* While the connection holds, a restart gets past the wait for the old run
\* (session.go:673-678), so the dispatch loop goes on, unless that run's
\* output is held open (session.go:765).
RestartReturns ==
    (disp = "restartWait" /\ drops = 0)
        ~> (disp # "restartWait" \/ drops > 0 \/ panicked \/ target \in clings)

\* "The queue survives connection drops; run itself does not block on the
\* network" (session.go:718-719): a run whose process is gone gets through
\* drain, since the connection always comes back.
DrainReturns == \A r \in Runs : caller[r] = "drain" ~> (caller[r] # "drain" \/ panicked)
=============================================================================
