------------------------------- MODULE ToolRun -------------------------------
(***************************************************************************)
(* Long-running tools of the tunnel manager (src/common/agent/toolrun.go). *)
(* The dispatch loop starts and stops them by run id; each process has two *)
(* pumps for its output and a waiter that ends the run.  A start under an  *)
(* id in use replaces the run.  Processes are numbered in the order of     *)
(* their start; the number stands for the revision of the request.         *)
(***************************************************************************)
EXTENDS Naturals, Sequences, FiniteSets

CONSTANTS RunIds,     \* run ids the server uses
          MaxStarts,  \* bound: processes spawned
          MaxChunks   \* bound: chunks of output per process

ASSUME StartsAssumption == MaxStarts \in Nat

VARIABLES toolRuns,  \* m.runs and m.cancel: run id -> process, 0 when absent
          runOf,    \* the run id of every process
          proc,     \* "none", "running" or "exited"
          ctx,      \* processes whose runCtx is cancelled
          timers,   \* processes the grace timer of a Stop will kill
          disp,     \* program counter of the dispatch loop
          old,      \* the run a Start found under its id
          pumps,    \* pumps of each process that still read
          waiter,   \* program counter of each waiter
          chunks,   \* chunks of output each process wrote
          events,   \* the NodeToolRunEvents a stream took, in the order of emission
          asked     \* history: processes a Stop or a replacing Start aimed at

toolVars == <<toolRuns, runOf, proc, ctx, timers, disp, old, pumps, waiter, chunks, events, asked>>

Procs == 1 .. MaxStarts
Streams == {"stdout", "stderr"}
Spawned == Len(runOf)
Event == [kind : {"started", "out", "exited"}, run : RunIds, proc : 0 .. MaxStarts]

ToolTypeOK ==
    /\ toolRuns \in [RunIds -> 0 .. MaxStarts] /\ runOf \in Seq(RunIds) /\ Spawned <= MaxStarts
    /\ proc \in [Procs -> {"none", "running", "exited"}]
    /\ ctx \subseteq Procs /\ timers \subseteq Procs /\ asked \subseteq Procs
    /\ disp \in {"idle", "spawned", "replacing", "registering", "launching"}
    /\ old \in 0 .. MaxStarts /\ pumps \in [Procs -> SUBSET Streams]
    /\ waiter \in [Procs -> {"none", "wait", "lock", "emit", "done"}]
    /\ chunks \in [Procs -> 0 .. MaxChunks] /\ events \in Seq(Event)

ToolInit ==
    /\ toolRuns = [r \in RunIds |-> 0] /\ runOf = <<>>
    /\ proc = [p \in Procs |-> "none"] /\ ctx = {} /\ timers = {} /\ asked = {}
    /\ disp = "idle" /\ old = 0 /\ pumps = [p \in Procs |-> {}] /\ waiter = [p \in Procs |-> "none"]
    /\ chunks = [p \in Procs |-> 0] /\ events = <<>>

\* m.emit, whose error is discarded: without a stream the event is lost.
Emit(k, r, p) == events' \in {events, Append(events, [kind |-> k, run |-> r, proc |-> p])}

-----------------------------------------------------------------------------
\* Start, in the dispatch loop.

\* No binary, no pipe or no process: one exit event without a revision.
StartFail(r) ==
    /\ disp = "idle" /\ \A i \in 1 .. Len(events) : events[i].proc # 0  \* bound: one of them
    /\ Emit("exited", r, 0)
    /\ UNCHANGED <<toolRuns, runOf, proc, ctx, timers, disp, old, pumps, waiter, chunks, asked>>

\* The process runs before anything is registered.
StartSpawn(r) ==
    /\ disp = "idle" /\ Spawned < MaxStarts
    /\ runOf' = Append(runOf, r)
    /\ proc' = [proc EXCEPT ![Spawned + 1] = "running"]
    /\ disp' = "spawned"
    /\ UNCHANGED <<toolRuns, ctx, timers, old, pumps, waiter, chunks, events, asked>>

\* Under m.mu: a run with this id makes Start release the lock and cancel it.
StartLookup ==
    LET p == Spawned  r == runOf[Spawned] IN
    /\ disp = "spawned"
    /\ \/ /\ toolRuns[r] = 0
          /\ toolRuns' = [toolRuns EXCEPT ![r] = p]
          /\ disp' = "launching"
          /\ UNCHANGED <<asked, old>>
       \/ /\ toolRuns[r] # 0
          /\ asked' = asked \cup {toolRuns[r]}
          /\ old' = toolRuns[r]
          /\ disp' = "replacing"
          /\ toolRuns' = toolRuns
    /\ UNCHANGED <<runOf, proc, ctx, timers, pumps, waiter, chunks, events>>

\* existing() cancels the run found, whether or not it is still registered.
StartReplace ==
    /\ disp = "replacing"
    /\ ctx' = ctx \cup {old}
    /\ disp' = "registering"
    /\ UNCHANGED <<toolRuns, runOf, proc, timers, old, pumps, waiter, chunks, events, asked>>

StartRegister ==
    /\ disp = "registering"
    /\ toolRuns' = [toolRuns EXCEPT ![runOf[Spawned]] = Spawned]
    /\ disp' = "launching"
    /\ UNCHANGED <<runOf, proc, ctx, timers, old, pumps, waiter, chunks, events, asked>>

\* The STARTED event, then the pumps and the waiter.
StartLaunch ==
    /\ disp = "launching"
    /\ Emit("started", runOf[Spawned], Spawned)
    /\ pumps' = [pumps EXCEPT ![Spawned] = Streams]
    /\ waiter' = [waiter EXCEPT ![Spawned] = "wait"]
    /\ disp' = "idle"
    /\ UNCHANGED <<toolRuns, runOf, proc, ctx, timers, old, chunks, asked>>

-----------------------------------------------------------------------------
\* Stop: an interrupt, which the process may or may not obey (ProcExit), and a
\* timer that holds the run found now.  An unknown id is a no-op and no step.
Stop(r) ==
    /\ disp = "idle" /\ toolRuns[r] # 0 /\ toolRuns[r] \notin timers  \* a second timer adds nothing
    /\ timers' = timers \cup {toolRuns[r]}
    /\ asked' = asked \cup {toolRuns[r]}
    /\ UNCHANGED <<toolRuns, runOf, proc, ctx, disp, old, pumps, waiter, chunks, events>>

\* Mutant of StopTimer: the run is looked up again when the timer fires.
StopTimer_looksUp(p) ==
    /\ p \in timers
    /\ timers' = timers \ {p}
    /\ ctx' = ctx \cup {p} \cup ({toolRuns[runOf[p]]} \ {0})
    /\ UNCHANGED <<toolRuns, runOf, proc, disp, old, pumps, waiter, chunks, events, asked>>

\* The grace window is over: the process is killed and its context cancelled.
StopTimer(p) ==
    /\ p \in timers
    /\ timers' = timers \ {p}
    /\ ctx' = ctx \cup {p}
    /\ UNCHANGED <<toolRuns, runOf, proc, disp, old, pumps, waiter, chunks, events, asked>>

\* The command's context kills the process.
Kill(p) ==
    /\ p \in ctx /\ proc[p] = "running"
    /\ proc' = [proc EXCEPT ![p] = "exited"]
    /\ UNCHANGED <<toolRuns, runOf, ctx, timers, disp, old, pumps, waiter, chunks, events, asked>>

\* The process ends by itself.
ProcExit(p) ==
    /\ proc[p] = "running"
    /\ proc' = [proc EXCEPT ![p] = "exited"]
    /\ UNCHANGED <<toolRuns, runOf, ctx, timers, disp, old, pumps, waiter, chunks, events, asked>>

\* A pump forwards a chunk, tagged with the run id only; what the process wrote
\* before it ended may still be in the pipe.
pumpOut(p) ==
    /\ pumps[p] # {} /\ chunks[p] < MaxChunks
    /\ chunks' = [chunks EXCEPT ![p] = @ + 1]
    /\ Emit("out", runOf[p], p)
    /\ UNCHANGED <<toolRuns, runOf, proc, ctx, timers, disp, old, pumps, waiter, asked>>

\* End of file on one stream.
pumpEnd(p) ==
    /\ proc[p] = "exited"
    /\ \E s \in pumps[p] : pumps' = [pumps EXCEPT ![p] = @ \ {s}]
    /\ UNCHANGED <<toolRuns, runOf, proc, ctx, timers, disp, old, waiter, chunks, events, asked>>

\* Both pumps are done and the process is reaped.
Wait(p) ==
    /\ waiter[p] = "wait" /\ pumps[p] = {} /\ proc[p] = "exited"
    /\ ctx' = ctx \cup {p}
    /\ waiter' = [waiter EXCEPT ![p] = "lock"]
    /\ UNCHANGED <<toolRuns, runOf, proc, timers, disp, old, pumps, chunks, events, asked>>

\* Mutant of Deregister: only a process that was stopped is taken off the list.
Deregister_keeps(p) ==
    /\ waiter[p] = "lock"
    /\ toolRuns' = IF p \in asked THEN [toolRuns EXCEPT ![runOf[p]] = 0] ELSE toolRuns
    /\ waiter' = [waiter EXCEPT ![p] = "emit"]
    /\ UNCHANGED <<runOf, proc, ctx, timers, disp, old, pumps, chunks, events, asked>>

\* Under m.mu: the run id is deleted, whichever process is registered under it.
Deregister(p) ==
    /\ waiter[p] = "lock"
    /\ toolRuns' = [toolRuns EXCEPT ![runOf[p]] = 0]
    /\ waiter' = [waiter EXCEPT ![p] = "emit"]
    /\ UNCHANGED <<runOf, proc, ctx, timers, disp, old, pumps, chunks, events, asked>>

emitExitRevision(p) ==
    /\ waiter[p] = "emit"
    /\ Emit("exited", runOf[p], p)
    /\ waiter' = [waiter EXCEPT ![p] = "done"]
    /\ UNCHANGED <<toolRuns, runOf, proc, ctx, timers, disp, old, pumps, chunks, asked>>

-----------------------------------------------------------------------------
startStep == StartLookup \/ StartReplace \/ StartRegister \/ StartLaunch
waiterStep(p) == Wait(p) \/ Deregister(p) \/ emitExitRevision(p)

ToolNext ==
    \/ \E r \in RunIds : StartFail(r) \/ StartSpawn(r) \/ Stop(r)
    \/ startStep
    \/ \E p \in Procs : \/ StopTimer(p) \/ Kill(p) \/ ProcExit(p)
                        \/ pumpOut(p) \/ pumpEnd(p) \/ waiterStep(p)

\* Goroutines run, timers fire and a killed process dies.  Nothing makes the
\* server send frames, a tool end by itself, or a pipe reach its end: a child
\* of the tool may hold it (toolrun.go:103-108 trusts that none does).
ToolFairness ==
    /\ WF_toolVars(startStep)
    /\ \A p \in Procs : /\ WF_toolVars(StopTimer(p)) /\ WF_toolVars(Kill(p))
                        /\ WF_toolVars(waiterStep(p))

ToolSpec == ToolInit /\ [][ToolNext]_toolVars /\ ToolFairness

-----------------------------------------------------------------------------
\* The server can follow one process through the events that reach it: STARTED
\* comes first, EXITED comes last and once, with all output in between, although
\* pumps, waiter and dispatch loop emit independently (toolrun.go:147-191).
EventsInOrder ==
    \A i, j \in 1 .. Len(events) :
        (i < j /\ events[i].proc = events[j].proc /\ events[i].proc # 0) =>
            events[i].kind # "exited" /\ events[j].kind # "started"

\* A process that runs under a cancelled context was itself the target of a
\* Stop or was replaced: neither the timer of an old Stop nor the end of an
\* older run under the same id kills a later one (toolrun.go:137-145, 216-229).
OnlyTargetsKilled ==
    \A p \in ctx : proc[p] = "running" => p \in asked

\* The list the heartbeat reports and Stop searches has every running process
\* of an id used once, from the end of its Start on (toolrun.go:65-79, 136-145,
\* 172-175).  For an id used again see UnknownIsGone.
ListedUnlessReused ==
    \A p \in Procs :
        (/\ proc[p] = "running" /\ waiter[p] # "none"
         /\ \A q \in Procs \ {p} : q <= Spawned => runOf[q] # runOf[p]) => toolRuns[runOf[p]] = p

\* A process that a Stop aimed at, or that was replaced, ends (toolrun.go:139-141,
\* 219-229).
TargetEnds == \A p \in Procs : p \in asked ~> proc[p] = "exited"

\* A tool that ended and whose two pipes are at their end leaves the heartbeat's
\* list for good, however it was replaced or stopped meanwhile (toolrun.go:64-79,
\* 168-175).  The list is what the server reconciles by: the EXITED event, whose
\* loss with the stream nobody notices (toolrun.go:279), need not reach it.
EndedIsDelisted ==
    \A p \in Procs :
        (waiter[p] # "none" /\ proc[p] = "exited" /\ pumps[p] = {}) ~>
            [](\A r \in RunIds : toolRuns[r] # p)

\* What the comment on Stop promises (toolrun.go:198-200: "A no-op if the run_id
\* is unknown (already exited)"): an id that is not registered has no process.
UnknownIsGone ==
    disp = "idle" =>
        \A p \in Procs : proc[p] = "running" => toolRuns[runOf[p]] # 0
=============================================================================
