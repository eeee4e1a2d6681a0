--------------------------- MODULE SessionInputs ---------------------------
(***************************************************************************)
(* User messages on their way to a session's runtime                       *)
(* (src/execution/session.go:1475-1736, stream_executor.go).               *)
(*                                                                         *)
(* The dispatch loop (actor 0) accepts a message, acknowledges it and      *)
(* drains the session's FIFO; the goroutine run() of each run drains it    *)
(* once the process is up and fails what is left when the process is gone. *)
(* drainMu makes one of them at a time the writer to the runtime's stdin.  *)
(*                                                                         *)
(* A message is its dedupe key (client message id and delivery attempt);   *)
(* an accepted frame also has the number of its acceptance.  Each run has  *)
(* a stream executor of its own, and session.executor is the one of the    *)
(* current run.                                                            *)
(***************************************************************************)
EXTENDS Naturals, Sequences, Functions

CONSTANTS Keys,        \* messageKey of the messages the server sends
          MaxRuns,     \* bound: runs of the runtime
          MaxFrames,   \* bound: input frames the server sends, replays included
          MaxDrops,    \* bound: times the connection is lost
          Failures     \* what may fail: "provision", "preflight", "spawn"

ASSUME InputsAssumption ==
    /\ MaxRuns \in Nat \ {0} /\ MaxFrames \in Nat /\ MaxDrops \in Nat
    /\ Failures \subseteq {"provision", "preflight", "spawn"}

Runs == 1 .. MaxRuns
Actors == {0} \cup Runs     \* the dispatch loop and the goroutines run()
Frame == [key : Keys, no : 1 .. MaxFrames]
NoFrame == [key |-> "none", no |-> 0]
Free == MaxRuns + 1         \* nobody holds drainMu

VARIABLES
    interactive, \* the session's executors are stream executors
    state,      \* session.state; "removed": no longer in m.sessions
    cur,        \* the current run; 0: session.executor is nil
    stream,     \* the stream executor and the process of each run
    cancelled,  \* runs whose context is cancelled
    run,        \* where run() of each run is
    prov,       \* the provisioning goroutine
    disp,       \* where the dispatch loop is
    target,     \* the run whose runDone restart or delete waits for
    incoming,   \* the frame deliverInput is handling
    pending,    \* session.pendingInputs
    seen,       \* session.seenMessageIDs
    drainMu,    \* the holder of session.drainMu, or Free
    writing,    \* the frame a drainer has popped, and the stream it goes to
    failing,    \* the frames an actor is reporting failed
    unreserved, \* the actor has deleted the key of the first of them
    after,      \* what a drainer does once they are reported
    frames,     \* input frames sent so far
    drops,      \* connections lost so far
    delivered,  \* history: frames written to a runtime
    status      \* the last input_status emitted for each key

inputVars == <<pending, seen, drainMu, writing, failing, unreserved, after>>
setup == <<interactive, prov>>
runVars == <<setup, state, cur, stream, cancelled, run>>
bounds == <<frames, drops>>
loopVars == <<disp, target, incoming>>
vars == <<runVars, loopVars, inputVars, bounds, delivered, status>>

\* "spawning": stdin not attached; "dead": exited, not waited for yet;
\* "closed": waited for; "failed": start returned an error.
StreamStates == {"none", "spawning", "ready", "dead", "closed", "failed"}
RunStates == {"none", "start", "drain", "pump", "queue", "fail", "failing", "done"}
DispStates == {"idle", "enqueue", "ack", "drain", "report", "restartWait",
               "deleteWait", "offline"}

TypeOK ==
    /\ interactive \in BOOLEAN
    /\ state \in {"provisioning", "provisioned", "running", "stopped", "removed"}
    /\ cur \in 0 .. MaxRuns
    /\ stream \in [Runs -> StreamStates]
    /\ cancelled \subseteq Runs
    /\ run \in [Runs -> RunStates]
    /\ prov \in {"prep", "done"}
    /\ disp \in DispStates
    /\ target \in 0 .. MaxRuns
    /\ incoming \in Frame \cup {NoFrame}
    /\ pending \in Seq(Frame)
    /\ seen \subseteq Keys
    /\ drainMu \in Actors \cup {Free}
    /\ writing \in [Actors -> [frame : Frame \cup {NoFrame}, to : 0 .. MaxRuns]]
    /\ failing \in [Actors -> Seq(Frame)]
    /\ unreserved \in [Actors -> BOOLEAN]
    /\ after \in [Actors -> {"loop", "return"}]
    /\ frames \in 0 .. MaxFrames
    /\ drops \in 0 .. MaxDrops
    /\ delivered \in Seq(Frame)
    /\ status \in [Keys -> {"none", "received", "failed"}]

Idle == [frame |-> NoFrame, to |-> 0]

Init ==
    /\ interactive \in BOOLEAN
    /\ state = "provisioning"
    /\ cur = 0
    /\ stream = [r \in Runs |-> "none"]
    /\ cancelled = {}
    /\ run = [r \in Runs |-> "none"]
    /\ prov = "prep"
    /\ disp = "idle"
    /\ target = 0
    /\ incoming = NoFrame
    /\ pending = <<>>
    /\ seen = {}
    /\ drainMu = Free
    /\ writing = [a \in Actors |-> Idle]
    /\ failing = [a \in Actors |-> <<>>]
    /\ unreserved = [a \in Actors |-> FALSE]
    /\ after = [a \in Actors |-> "loop"]
    /\ frames = 0
    /\ drops = 0
    /\ delivered = <<>>
    /\ status = [k \in Keys |-> "none"]

-----------------------------------------------------------------------------
\* deliverInput, on the dispatch loop.

\* Mutant of receive: the key is checked and never reserved.
receive_notReserved(k) ==
    /\ disp = "idle"
    /\ state # "removed"
    /\ frames < MaxFrames
    /\ frames' = frames + 1
    /\ k \notin seen
    /\ incoming' = [key |-> k, no |-> frames + 1]
    /\ disp' = "enqueue"
    /\ UNCHANGED <<runVars, target, inputVars, drops, delivered, status>>

\* A frame arrives.  A key that is reserved already is acknowledged and
\* dropped; a new one is reserved.
receive(k) ==
    /\ disp = "idle"
    /\ state # "removed"
    /\ frames < MaxFrames
    /\ frames' = frames + 1
    /\ \/ /\ k \in seen
          /\ status' = [status EXCEPT ![k] = "received"]
          /\ UNCHANGED <<disp, incoming, seen>>
       \/ /\ k \notin seen
          /\ seen' = seen \cup {k}
          /\ incoming' = [key |-> k, no |-> frames + 1]
          /\ disp' = "enqueue"
          /\ UNCHANGED status
    /\ UNCHANGED <<runVars, target, pending, drainMu, writing, failing, unreserved, after,
                   drops, delivered>>

\* A one-shot run has no stdin: the frame is reported failed.  Otherwise it
\* joins the FIFO, whether or not there is a runtime yet.
enqueue ==
    /\ disp = "enqueue"
    /\ \/ /\ cur > 0 /\ ~interactive
          /\ failing' = [failing EXCEPT ![0] = <<incoming>>]
          /\ incoming' = NoFrame
          /\ disp' = "report"
          /\ UNCHANGED pending
       \/ /\ cur = 0 \/ interactive
          /\ pending' = Append(pending, incoming)
          /\ disp' = "ack"
          /\ UNCHANGED <<failing, incoming>>
    /\ UNCHANGED <<runVars, target, seen, drainMu, writing, unreserved, after, bounds,
                   delivered, status>>

\* The loop has reported what it had to report failed.
reported ==
    /\ disp = "report"
    /\ failing[0] = <<>>
    /\ disp' = "idle"
    /\ UNCHANGED <<runVars, target, incoming, inputVars, bounds, delivered, status>>

\* The acknowledgement goes out after the lock is released.
ack ==
    /\ disp = "ack"
    /\ status' = [status EXCEPT ![incoming.key] = "received"]
    /\ incoming' = NoFrame
    /\ disp' = "drain"
    /\ UNCHANGED <<runVars, target, inputVars, bounds, delivered>>

-----------------------------------------------------------------------------
\* drainPending, by actor a.

Draining(a) == (a = 0 /\ disp = "drain") \/ (a \in Runs /\ run[a] = "drain")

lockDrain(a) ==
    /\ Draining(a)
    /\ drainMu = Free
    /\ drainMu' = a
    /\ UNCHANGED <<runVars, loopVars, pending, seen, writing, failing, unreserved,
                   after, bounds, delivered, status>>

\* Between two frames of the loop.
AtLoop(a) == drainMu = a /\ writing[a] = Idle /\ failing[a] = <<>>

CurStream == IF cur = 0 THEN "none" ELSE stream[cur]

\* Nothing to do, or a runtime that cannot take input yet: unlock and return.
drainReturn(a) ==
    /\ AtLoop(a)
    /\ \/ after[a] = "return"
       \/ pending = <<>>
       \/ cur = 0 \/ ~interactive
       \/ CurStream \in {"spawning", "failed"}
    /\ drainMu' = Free
    /\ after' = [after EXCEPT ![a] = "loop"]
    /\ disp' = IF a = 0 THEN "idle" ELSE disp
    /\ run' = [r \in Runs |-> IF r = a THEN "pump" ELSE run[r]]
    /\ UNCHANGED <<setup, state, cur, stream, cancelled, target, incoming, pending, seen, writing,
                   failing, unreserved, bounds, delivered, status>>

\* The stream is closed for good: fail the whole queue, then return.
drainClosed(a) ==
    /\ AtLoop(a)
    /\ after[a] = "loop"
    /\ pending # <<>>
    /\ interactive
    /\ CurStream = "closed"
    /\ failing' = [failing EXCEPT ![a] = pending]
    /\ pending' = <<>>
    /\ after' = [after EXCEPT ![a] = "return"]
    /\ UNCHANGED <<runVars, loopVars, seen, drainMu, writing, unreserved, bounds,
                   delivered, status>>

\* Mutant of drainPop: it takes the newest frame.
drainPop_newest(a) ==
    /\ AtLoop(a)
    /\ after[a] = "loop"
    /\ pending # <<>>
    /\ interactive
    /\ CurStream \in {"ready", "dead"}
    /\ writing' = [writing EXCEPT ![a] = [frame |-> pending[Len(pending)], to |-> cur]]
    /\ pending' = SubSeq(pending, 1, Len(pending) - 1)
    /\ UNCHANGED <<runVars, loopVars, seen, drainMu, failing, unreserved, after, bounds,
                   delivered, status>>

\* Pop the first frame for the executor of the moment.
drainPop(a) ==
    /\ AtLoop(a)
    /\ after[a] = "loop"
    /\ pending # <<>>
    /\ interactive
    /\ CurStream \in {"ready", "dead"}
    /\ writing' = [writing EXCEPT ![a] = [frame |-> Head(pending), to |-> cur]]
    /\ pending' = Tail(pending)
    /\ UNCHANGED <<runVars, loopVars, seen, drainMu, failing, unreserved, after,
                   bounds, delivered, status>>

\* stream.deliver: the write succeeds, or the process is gone.
deliver(a) ==
    /\ writing[a] # Idle
    /\ \/ /\ stream[writing[a].to] = "ready"
          /\ delivered' = Append(delivered, writing[a].frame)
          /\ UNCHANGED failing
       \/ /\ stream[writing[a].to] \in {"dead", "closed"}
          /\ failing' = [failing EXCEPT ![a] = <<writing[a].frame>>]
          /\ UNCHANGED delivered
    /\ writing' = [writing EXCEPT ![a] = Idle]
    /\ UNCHANGED <<runVars, loopVars, pending, seen, drainMu, unreserved, after,
                   bounds, status>>

drainPending(a) == lockDrain(a) \/ drainReturn(a) \/ drainClosed(a) \/ drainPop(a)

\* Mutant of unreserve: the key of a failed frame stays reserved.
unreserve_forgets(a) ==
    /\ failing[a] # <<>>
    /\ ~unreserved[a]
    /\ unreserved' = [unreserved EXCEPT ![a] = TRUE]
    /\ UNCHANGED <<runVars, loopVars, pending, seen, drainMu, writing, failing, after, bounds,
                   delivered, status>>

\* reportInputFailure: un-reserve the key under the lock, then emit.
unreserve(a) ==
    /\ failing[a] # <<>>
    /\ ~unreserved[a]
    /\ seen' = seen \ {Head(failing[a]).key}
    /\ unreserved' = [unreserved EXCEPT ![a] = TRUE]
    /\ UNCHANGED <<runVars, loopVars, pending, drainMu, writing, failing, after,
                   bounds, delivered, status>>

emitFailed(a) ==
    /\ unreserved[a]
    /\ status' = [status EXCEPT ![Head(failing[a]).key] = "failed"]
    /\ failing' = [failing EXCEPT ![a] = Tail(@)]
    /\ unreserved' = [unreserved EXCEPT ![a] = FALSE]
    /\ UNCHANGED <<runVars, loopVars, pending, seen, drainMu, writing, after,
                   bounds, delivered>>

reportInputFailure(a) == unreserve(a) \/ emitFailed(a)

-----------------------------------------------------------------------------
\* The runs.

\* startRuntime of a registered session, entered with session.state = from: a
\* no-op while provisioning or running, a failed pre-flight, or a new run.
startRuntime(from) ==
    \/ /\ from \in {"provisioning", "running"} \/ "preflight" \in Failures
       /\ state' = from
       /\ UNCHANGED <<cur, stream, run>>
    \/ /\ from \in {"provisioned", "stopped"}
       /\ cur < MaxRuns
       /\ cur' = cur + 1
       /\ state' = "running"
       /\ stream' = [stream EXCEPT ![cur + 1] = "spawning"]
       /\ run' = [run EXCEPT ![cur + 1] = "start"]

\* Provisioning fails and the session is unregistered, or it ends with the
\* auto-start.
provisionSession ==
    /\ prov = "prep"
    /\ prov' = "done"
    /\ \/ /\ "provision" \in Failures \/ state = "removed"
          /\ state' = "removed"
          /\ UNCHANGED <<cur, stream, run>>
       \/ /\ state # "removed"
          /\ startRuntime(IF state = "provisioning" THEN "provisioned" ELSE state)
    /\ UNCHANGED <<interactive, cancelled, loopVars, inputVars, bounds, delivered, status>>

\* StartSessionRuntime.
startFrame ==
    /\ disp = "idle"
    /\ state # "removed"
    /\ startRuntime(state)
    /\ UNCHANGED <<setup, cancelled, loopVars, inputVars, bounds, delivered, status>>

\* RestartSessionRuntime: cancel the run there is and wait for it.  The bound
\* keeps a run for the restart and one for a pending auto-start.
restartRuntime ==
    /\ disp = "idle"
    /\ state # "removed"
    /\ cur < MaxRuns /\ (prov = "prep" => cur + 1 < MaxRuns)
    /\ cancelled' = cancelled \cup ({cur} \cap Runs)
    /\ disp' = "restartWait"
    /\ target' = cur
    /\ UNCHANGED <<setup, state, cur, stream, run, incoming, inputVars, bounds, delivered,
                   status>>

RunDone(r) == \A q \in Runs : q = r => run[q] = "done"

\* <-done returned: start again from provisioned, if still registered.
restartWaited ==
    /\ disp = "restartWait"
    /\ RunDone(target)
    /\ \/ /\ state # "removed"
          /\ startRuntime("provisioned")
       \/ /\ state = "removed"
          /\ UNCHANGED <<state, cur, stream, run>>
    /\ disp' = "idle"
    /\ target' = 0
    /\ UNCHANGED <<setup, cancelled, incoming, inputVars, bounds, delivered, status>>

\* delete: unregister, cancel every run, wait for the current one and fail
\* what is still queued.
deleteSession ==
    /\ disp = "idle"
    /\ state # "removed"
    /\ state' = "removed"
    /\ cancelled' = Runs
    /\ disp' = "deleteWait"
    /\ target' = cur
    /\ UNCHANGED <<setup, cur, stream, run, incoming, inputVars, bounds, delivered, status>>

deleteWaited ==
    /\ disp = "deleteWait"
    /\ RunDone(target)
    /\ failing' = [failing EXCEPT ![0] = pending]
    /\ pending' = <<>>
    /\ disp' = "report"
    /\ target' = 0
    /\ UNCHANGED <<runVars, incoming, seen, drainMu, writing, unreserved, after, bounds,
                   delivered, status>>

\* The connection is lost: stopAll cancels the current run of a registered
\* session.
stopAll ==
    /\ disp = "idle"
    /\ drops < MaxDrops
    /\ drops' = drops + 1
    /\ state' = IF state = "running" THEN "provisioned" ELSE state
    /\ cancelled' = IF state = "removed" THEN cancelled ELSE cancelled \cup ({cur} \cap Runs)
    /\ disp' = "offline"
    /\ UNCHANGED <<setup, cur, stream, run, target, incoming, inputVars, frames, delivered,
                   status>>

reconnect ==
    /\ disp = "offline"
    /\ disp' = "idle"
    /\ UNCHANGED <<runVars, target, incoming, inputVars, bounds, delivered, status>>

\* Mutant of spawn: no drain once the process is up.
spawn_noDrain(r) ==
    /\ run[r] = "start"
    /\ \/ /\ r \notin cancelled
          /\ stream' = [stream EXCEPT ![r] = "ready"]
          /\ run' = [run EXCEPT ![r] = "pump"]
       \/ /\ r \in cancelled
          /\ stream' = [stream EXCEPT ![r] = "failed"]
          /\ run' = [run EXCEPT ![r] = "fail"]
    /\ UNCHANGED <<setup, state, cur, cancelled, loopVars, inputVars, bounds, delivered,
                   status>>

\* exectr.start returns: stdin is attached; or there is no process; or it died
\* before it read the start frame, with stdin attached and nobody to wait for
\* it.
spawn(r) ==
    /\ run[r] = "start"
    /\ \/ /\ r \notin cancelled
          /\ stream' = [stream EXCEPT ![r] = "ready"]
          /\ run' = [run EXCEPT ![r] = "drain"]
       \/ /\ r \in cancelled \/ "spawn" \in Failures
          /\ \E s \in {"failed", "dead"} : stream' = [stream EXCEPT ![r] = s]
          /\ run' = [run EXCEPT ![r] = "fail"]
    /\ UNCHANGED <<setup, state, cur, cancelled, loopVars, inputVars, bounds, delivered,
                   status>>

\* The process exits, of itself or killed.
exit(r) ==
    /\ stream[r] = "ready"
    /\ stream' = [stream EXCEPT ![r] = "dead"]
    /\ UNCHANGED <<setup, state, cur, cancelled, run, loopVars, inputVars, bounds,
                   delivered, status>>

\* Both pumps saw EOF; exec.wait marks the stream closed.
wait(r) ==
    /\ run[r] = "pump"
    /\ stream[r] = "dead"
    /\ stream' = [stream EXCEPT ![r] = "closed"]
    /\ run' = [run EXCEPT ![r] = "queue"]
    /\ UNCHANGED <<setup, state, cur, cancelled, loopVars, inputVars, bounds, delivered,
                   status>>

\* queue.drain returns, and the result is reported.
drainQueue(r) ==
    /\ run[r] = "queue"
    /\ run' = [run EXCEPT ![r] = "fail"]
    /\ UNCHANGED <<setup, state, cur, stream, cancelled, loopVars, inputVars, bounds,
                   delivered, status>>

failPendingInputs(r) ==
    /\ run[r] = "fail"
    /\ failing' = [failing EXCEPT ![r] = pending]
    /\ pending' = <<>>
    /\ run' = [run EXCEPT ![r] = "failing"]
    /\ UNCHANGED <<setup, state, cur, stream, cancelled, loopVars, seen, drainMu, writing,
                   unreserved, after, bounds, delivered, status>>

markStopped(r) ==
    /\ run[r] = "failing"
    /\ failing[r] = <<>>
    /\ run' = [run EXCEPT ![r] = "done"]
    /\ state' = IF state = "running" THEN "stopped" ELSE state
    /\ UNCHANGED <<setup, cur, stream, cancelled, loopVars, inputVars, bounds, delivered,
                   status>>

-----------------------------------------------------------------------------
Dispatcher ==
    \/ enqueue \/ ack \/ reported
    \/ restartWaited \/ deleteWaited \/ reconnect

Commands == (\E k \in Keys : receive(k)) \/ startFrame \/ restartRuntime \/ deleteSession

RunStep(r) == spawn(r) \/ failPendingInputs(r) \/ markStopped(r)

\* What run() may wait for without end: the editor's exit, the end of its
\* output, and its delivery.
RunWaits(r) == exit(r) \/ wait(r) \/ drainQueue(r)

Next ==
    \/ Dispatcher
    \/ Commands
    \/ stopAll
    \/ provisionSession
    \/ \E r \in Runs : RunStep(r) \/ RunWaits(r)
    \/ \E a \in Actors : drainPending(a) \/ deliver(a) \/ reportInputFailure(a)

Spec == Init /\ [][Next]_vars

(***************************************************************************)
(* Fairness: every goroutine that can run does, and provisioning ends.     *)
(* Nothing makes the server send anything, a runtime read its stdin or     *)
(* exit, its pumps see EOF (a process it left behind may hold the pipe) or *)
(* queue.drain return (after a connection loss nobody may flush).          *)
(***************************************************************************)
Fairness ==
    /\ WF_vars(Dispatcher)
    /\ WF_vars(provisionSession)
    /\ \A r \in Runs : WF_vars(RunStep(r))
    /\ \A a \in Actors : WF_vars(drainPending(a)) /\ WF_vars(reportInputFailure(a))

FairSpec == Spec /\ Fairness

-----------------------------------------------------------------------------
\* Properties.

\* "A strict FIFO drained in arrival order" (session.go:190-193): no message
\* overtakes one accepted before it, across drainers and restarts.
DeliveredInOrder ==
    \A i, j \in 1 .. Len(delivered) : i < j => delivered[i].no < delivered[j].no

\* A message is "never delivered twice" (session.go:186-188), whatever the
\* gateway replays and however often the runtime restarts.
DeliveredOnce ==
    \A i, j \in 1 .. Len(delivered) : delivered[i].key = delivered[j].key => i = j

\* The frames on their way: accepted, not delivered, not reported failed.
Carried ==
    {incoming} \cup Range(pending) \cup {writing[a].frame : a \in Actors}
        \cup UNION {Range(failing[a]) : a \in Actors}

\* A key stays reserved only while its frame is on its way or once it was
\* delivered, so that a message reported failed can be sent again
\* (session.go:1653-1656).
ReservedIsCarried ==
    \A k \in seen : \E f \in Carried \cup Range(delivered) : f.key = k

\* A turn the node could not hand to the runtime is visible as failed
\* "instead of leaving the message in-flight forever" (session.go:1688-1690):
\* the last status of a message that is neither on its way nor delivered is
\* failed.
LastStatusIsFailed ==
    \A k \in Keys :
        /\ status[k] # "none"
        /\ \A f \in Carried \cup Range(delivered) : f.key # k
        => status[k] = "failed"

\* Every accepted message leaves the queue, delivered or reported failed
\* (session.go:1530-1535, 1640-1642).
MessagesSettle ==
    \A n \in 1 .. MaxFrames :
        (\E f \in Range(pending) : f.no = n) ~> (\A f \in Range(pending) : f.no # n)

\* The session has no executor that can take or refuse a message: the last
\* spawn failed, or there has been no run and no auto-start is to come.
Stranded == CurStream = "failed" \/ (cur = 0 /\ prov = "done")

\* A drainer is in a write to a runtime that does not read, or a one-shot run,
\* which settles at its end what came before it, is not over.
Hangs ==
    \/ \E a \in Actors : writing[a] # Idle
    \/ ~interactive /\ \E r \in Runs : run[r] \in {"pump", "queue"}

\* A message stays queued for ever only where the session has come to rest
\* without an executor that could take or refuse it (session.go:1590-1613), or
\* behind a write or a one-shot run that never ends.  Replays, restarts, drops,
\* exits and a delete strand none, and neither does an interactive run whose
\* output never ends or is never delivered (session.go:765-768): what is queued
\* by then is settled by the next drain and not by that run's end.
SettleUnlessStranded == <>[]Stranded \/ <>[]Hangs \/ MessagesSettle
=============================================================================
