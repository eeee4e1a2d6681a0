---------------------------- MODULE OutputQueue ----------------------------
(***************************************************************************)
(* The in-order buffer between a session's stdout/stderr and the upstream  *)
(* stream (src/execution/queue.go).                                        *)
(*                                                                         *)
(* A queue belongs to a session and is used by the runs of the session's   *)
(* editor: every run starts a flusher of its own, its two pumps append     *)
(* chunks, and when the process has exited the run drains the queue and    *)
(* stops the flusher.  This module has the operations of the queue, each   *)
(* parameterised by the run that performs it, and the specification of     *)
(* the use the queue is written for: one run.  SessionRuntime composes     *)
(* the same operations with runs that follow and overlap each other.       *)
(*                                                                         *)
(* Mutex-protected sections are single steps.  The condition variable is   *)
(* the sequence of goroutines blocked in Wait: Signal wakes the one that   *)
(* has waited longest, Broadcast all of them, and both waits re-check      *)
(* their condition.                                                        *)
(***************************************************************************)
EXTENDS Naturals, Sequences

CONSTANTS Runs,       \* runs of the session's editor
          Lens,       \* lengths of the chunks the pumps read
          MaxChunks   \* bound: chunks appended over the queue's life

ASSUME LensAssumption == Lens \subseteq Nat \ {0}
ASSUME MaxChunksAssumption == MaxChunks \in Nat

VARIABLES
    items,     \* q.items
    offset,    \* q.offset
    closed,    \* q.closed
    waiters,   \* goroutines blocked in q.cond.Wait, oldest first
    flusher,   \* where the flusher of each run is
    held,      \* the chunk a flusher copied out of the queue
    caller,    \* where the goroutine run() of each run is in its use of q
    ctxDone,   \* the context of the run is cancelled
    up,        \* emit succeeds: a registered stream is live
    produced,  \* history: chunks appended
    sent,      \* history: chunks emit accepted
    panicked   \* the process died on q.items[1:] of an empty slice

queueVars == <<items, offset, closed, waiters>>
histVars == <<produced, sent>>
vars == <<items, offset, closed, waiters, flusher, held, caller, ctxDone,
          up, produced, sent, panicked>>

Chunk == [offset : Nat, len : Lens]
NoChunk == [offset |-> 0, len |-> 0]

FlusherStates == {"none", "check", "send", "backoff", "pop", "exited"}
CallerStates == {"idle", "spawning", "pumping", "drain", "drained", "stopped"}

TypeOK ==
    /\ items \in Seq(Chunk)
    /\ offset \in Nat
    /\ closed \in BOOLEAN
    /\ waiters \in Seq({"flush", "drain"} \X Runs)
    /\ flusher \in [Runs -> FlusherStates]
    /\ held \in [Runs -> Chunk \cup {NoChunk}]
    /\ caller \in [Runs -> CallerStates]
    /\ ctxDone \in [Runs -> BOOLEAN]
    /\ up \in BOOLEAN
    /\ produced \in Seq(Chunk)
    /\ sent \in Seq(Chunk)
    /\ panicked \in BOOLEAN

-----------------------------------------------------------------------------
\* sync.Cond.

Blocked(g) == \E i \in DOMAIN waiters : waiters[i] = g
Wait(g) == waiters' = Append(waiters, g)
Signal == waiters' = IF waiters = <<>> THEN <<>> ELSE Tail(waiters)
Broadcast == waiters' = <<>>

-----------------------------------------------------------------------------
Init ==
    /\ items = <<>>
    /\ offset = 0
    /\ closed = FALSE
    /\ waiters = <<>>
    /\ flusher = [r \in Runs |-> "none"]
    /\ held = [r \in Runs |-> NoChunk]
    /\ caller = [r \in Runs |-> "idle"]
    /\ ctxDone = [r \in Runs |-> FALSE]
    /\ up = TRUE
    /\ produced = <<>>
    /\ sent = <<>>
    /\ panicked = FALSE

\* go q.flush(ctx): run r begins to use the queue.
start(r) ==
    /\ ~panicked
    /\ caller[r] = "idle"
    /\ caller' = [caller EXCEPT ![r] = "spawning"]
    /\ flusher' = [flusher EXCEPT ![r] = "check"]
    /\ UNCHANGED <<queueVars, held, ctxDone, up, histVars, panicked>>

\* exectr.start returned: the process is alive and its pipes are attached.
\* A command whose context is done does not start.
spawn(r) ==
    /\ ~panicked
    /\ caller[r] = "spawning"
    /\ ~ctxDone[r]
    /\ caller' = [caller EXCEPT ![r] = "pumping"]
    /\ UNCHANGED <<queueVars, flusher, held, ctxDone, up, histVars, panicked>>

\* exectr.start failed: run() reports its result without draining.
spawnFail(r) ==
    /\ ~panicked
    /\ caller[r] = "spawning"
    /\ caller' = [caller EXCEPT ![r] = "drained"]
    /\ UNCHANGED <<queueVars, flusher, held, ctxDone, up, histVars, panicked>>

\* A pump of run r read n bytes of stdout or stderr.
append(r, n) ==
    /\ ~panicked
    /\ caller[r] = "pumping"
    /\ Len(produced) < MaxChunks
    /\ LET chunk == [offset |-> offset, len |-> n]
       IN  /\ items' = Append(items, chunk)
           /\ produced' = Append(produced, chunk)
    /\ offset' = offset + n
    /\ Signal
    /\ UNCHANGED <<closed, flusher, held, caller, ctxDone, up, sent, panicked>>

\* Both pumps reached EOF and the process was waited for.
exit(r) ==
    /\ ~panicked
    /\ caller[r] = "pumping"
    /\ caller' = [caller EXCEPT ![r] = "drain"]
    /\ UNCHANGED <<queueVars, flusher, held, ctxDone, up, histVars, panicked>>

\* One turn of drain's loop: wait, or see the queue empty or closed.
drain(r) ==
    /\ ~panicked
    /\ caller[r] = "drain"
    /\ ~Blocked(<<"drain", r>>)
    /\ \/ /\ items # <<>> /\ ~closed
          /\ Wait(<<"drain", r>>)
          /\ UNCHANGED caller
       \/ /\ items = <<>> \/ closed
          /\ caller' = [caller EXCEPT ![r] = "drained"]
          /\ UNCHANGED waiters
    /\ UNCHANGED <<items, offset, closed, flusher, held, ctxDone, up, histVars,
                   panicked>>

\* Mutant of stop: nobody is woken.
stop_noBroadcast(r) ==
    /\ ~panicked
    /\ caller[r] = "drained"
    /\ caller' = [caller EXCEPT ![r] = "stopped"]
    /\ closed' = TRUE
    /\ UNCHANGED <<items, offset, waiters, flusher, held, ctxDone, up, histVars, panicked>>

\* The stop function start returned, deferred by run().
stop(r) ==
    /\ ~panicked
    /\ caller[r] = "drained"
    /\ caller' = [caller EXCEPT ![r] = "stopped"]
    /\ closed' = TRUE
    /\ Broadcast
    /\ UNCHANGED <<items, offset, flusher, held, ctxDone, up, histVars, panicked>>

-----------------------------------------------------------------------------
\* The flusher of run r.

\* Under the lock: wait for a chunk, return when closed and empty, or copy
\* the head out and release the lock.
flushCheck(r) ==
    /\ ~panicked
    /\ flusher[r] = "check"
    /\ ~Blocked(<<"flush", r>>)
    /\ \/ /\ items = <<>> /\ ~closed
          /\ Wait(<<"flush", r>>)
          /\ UNCHANGED <<flusher, held>>
       \/ /\ items = <<>> /\ closed
          /\ flusher' = [flusher EXCEPT ![r] = "exited"]
          /\ UNCHANGED <<waiters, held>>
       \/ /\ items # <<>>
          /\ held' = [held EXCEPT ![r] = Head(items)]
          /\ flusher' = [flusher EXCEPT ![r] = "send"]
          /\ UNCHANGED waiters
    /\ UNCHANGED <<items, offset, closed, caller, ctxDone, up, histVars, panicked>>

\* q.emit(frame) succeeds.
flushSend(r) ==
    /\ ~panicked
    /\ flusher[r] = "send"
    /\ up
    /\ sent' = Append(sent, held[r])
    /\ flusher' = [flusher EXCEPT ![r] = "pop"]
    /\ UNCHANGED <<queueVars, held, caller, ctxDone, up, produced, panicked>>

\* Mutant of flushFail: the chunk is dropped when the emit fails.
flushFail_drops(r) ==
    /\ ~panicked
    /\ flusher[r] = "send"
    /\ ~up
    /\ items' = Tail(items)
    /\ flusher' = [flusher EXCEPT ![r] = "backoff"]
    /\ UNCHANGED <<offset, closed, waiters, held, caller, ctxDone, up, histVars, panicked>>

\* q.emit(frame) fails: the stream is down.
flushFail(r) ==
    /\ ~panicked
    /\ flusher[r] = "send"
    /\ ~up
    /\ flusher' = [flusher EXCEPT ![r] = "backoff"]
    /\ UNCHANGED <<queueVars, held, caller, ctxDone, up, histVars, panicked>>

\* The select after a failed emit: the timer, or the cancelled context.
flushBackoff(r) ==
    /\ ~panicked
    /\ flusher[r] = "backoff"
    /\ \/ flusher' = [flusher EXCEPT ![r] = "check"]
       \/ /\ ctxDone[r]
          /\ flusher' = [flusher EXCEPT ![r] = "exited"]
    /\ UNCHANGED <<queueVars, held, caller, ctxDone, up, histVars, panicked>>

\* Mutants of flushPop: the head stays and is sent again; drain is not woken.
flushPop_keepsHead(r) ==
    /\ ~panicked
    /\ flusher[r] = "pop"
    /\ flusher' = [flusher EXCEPT ![r] = "check"]
    /\ Broadcast
    /\ UNCHANGED <<items, offset, closed, held, caller, ctxDone, up, histVars, panicked>>

flushPop_noBroadcast(r) ==
    /\ ~panicked
    /\ flusher[r] = "pop"
    /\ items' = Tail(items)
    /\ flusher' = [flusher EXCEPT ![r] = "check"]
    /\ UNCHANGED <<offset, closed, waiters, held, caller, ctxDone, up, histVars, panicked>>

\* Delivered: pop the head and wake the waiters.  q.items[1:] of an empty
\* slice panics, and an unrecovered panic ends the node's process.
flushPop(r) ==
    /\ ~panicked
    /\ flusher[r] = "pop"
    /\ \/ /\ items # <<>>
          /\ items' = Tail(items)
          /\ flusher' = [flusher EXCEPT ![r] = "check"]
          /\ Broadcast
          /\ UNCHANGED panicked
       \/ /\ items = <<>>
          /\ panicked' = TRUE
          /\ UNCHANGED <<items, flusher, waiters>>
    /\ UNCHANGED <<offset, closed, held, caller, ctxDone, up, histVars>>

flush(r) ==
    flushCheck(r) \/ flushSend(r) \/ flushFail(r) \/ flushBackoff(r) \/ flushPop(r)

-----------------------------------------------------------------------------
\* The run's context is cancelled (a restart, a delete, a lost connection).
cancel(r) ==
    /\ ~panicked
    /\ caller[r] # "idle"
    /\ ~ctxDone[r]
    /\ ctxDone' = [ctxDone EXCEPT ![r] = TRUE]
    /\ UNCHANGED <<queueVars, flusher, held, caller, up, histVars, panicked>>

\* The connection to the control plane goes away and comes back.
streamDown ==
    /\ up
    /\ up' = FALSE
    /\ UNCHANGED <<queueVars, flusher, held, caller, ctxDone, histVars, panicked>>

streamUp ==
    /\ ~up
    /\ up' = TRUE
    /\ UNCHANGED <<queueVars, flusher, held, caller, ctxDone, histVars, panicked>>

-----------------------------------------------------------------------------
\* One run uses the queue.

firstStart(r) == (\A q \in Runs : caller[q] = "idle") /\ start(r)

Run(r) ==
    \/ firstStart(r)
    \/ spawn(r)
    \/ spawnFail(r)
    \/ \E n \in Lens : append(r, n)
    \/ exit(r)
    \/ drain(r)
    \/ stop(r)
    \/ cancel(r)

Next == (\E r \in Runs : Run(r) \/ flush(r)) \/ streamDown \/ streamUp

Spec == Init /\ [][Next]_vars

(***************************************************************************)
(* Fairness: a goroutine that can run does run.  That the connection comes *)
(* back for good is not a fairness of this code but a hypothesis of the    *)
(* liveness property that needs it (<>[]up).                               *)
(***************************************************************************)
Fairness ==
    \A r \in Runs : WF_vars(flush(r)) /\ WF_vars(drain(r)) /\ WF_vars(stop(r))

FairSpec == Spec /\ Fairness

-----------------------------------------------------------------------------
\* Properties.

\* The chunks that no emit has accepted yet: a flusher between its send and
\* its pop has had the head accepted already.
Unsent ==
    IF \E r \in Runs : flusher[r] = "pop" THEN Tail(items) ELSE items

\* "It never loses or reorders output" (queue.go:15-21): at every moment the
\* chunks accepted upstream, followed by the ones still queued, are exactly
\* the chunks the process wrote, each once and in order.
NothingLostOrReordered == produced = sent \o Unsent

\* The result is reported only once all output is upstream
\* (queue.go:120-122): drain lets run() go on only with every chunk sent.
OutputBeforeResult ==
    \A r \in Runs : caller[r] \in {"drained", "stopped"} => sent = produced

\* Offsets let the server reassemble the output: each accepted chunk starts
\* where the previous one ended (queue.go:107-118).
OffsetsContiguous ==
    \A i \in 1 .. Len(sent) - 1 :
        sent[i + 1].offset = sent[i].offset + sent[i].len

\* A flusher never pops a queue that another step has emptied under it
\* (queue.go:166-169 reads q.items again after releasing the lock).
NeverPanics == ~panicked

\* A finished process gets through drain (queue.go:123-129) once the
\* connection is back for good, however often it dropped before, unless the
\* run is cancelled.
DrainEnds ==
    <>[]up => \A r \in Runs : caller[r] = "drain" ~>
                                  (caller[r] = "stopped" \/ ctxDone[r])

\* No flusher goroutine outlives a run that has stopped (queue.go:52-60,
\* 139-142).
FlusherEnds ==
    \A r \in Runs : caller[r] = "stopped" ~> flusher[r] = "exited"

\* The queue implements the abstract output channel.
Channel == INSTANCE OutputChannel WITH
    in <- produced,
    out <- sent,
    ended <- \E r \in Runs : caller[r] \in {"drained", "stopped"}

ChannelSpec == Channel!Spec
=============================================================================
