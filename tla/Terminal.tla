------------------------------ MODULE Terminal ------------------------------
(***************************************************************************)
(* Host terminals (src/common/agent/terminal.go): shells that outlive the  *)
(* control stream.  Three kinds of goroutine share them:                   *)
(*  - the dispatch loop opens, feeds, attaches and closes terminals, and   *)
(*    marks all of them detached when the stream breaks (DetachAll);       *)
(*  - one pump per terminal numbers, buffers and emits the shell's output; *)
(*  - the reaper closes terminals that were detached for too long.         *)
(* TerminalManager.mu guards terms, but m.buffers is read without it, and  *)
(* attached and detachedAt are two independent atomics.                    *)
(*                                                                         *)
(* A broken stream is noticed late: until then an emit may still report    *)
(* success and reach nobody.  Time is the age of each detachedAt.          *)
(***************************************************************************)
EXTENDS Integers, Sequences, FiniteSets, SequencesExt

CONSTANTS Ids,            \* terminal ids the server uses
          MaxOpens,       \* bound: shells started
          MaxSeq,         \* bound: chunks one shell writes
          MaxBreaks,      \* bound: times the stream breaks
          Sizes,          \* sizes of a chunk
          Limit,          \* termReplayLimit, in the unit of Sizes
          DetachTimeout   \* termDetachTimeout, in clock ticks

ASSUME TerminalAssumption ==
    /\ MaxOpens \in Nat \ {0} /\ MaxSeq \in Nat \ {0} /\ MaxBreaks \in Nat
    /\ DetachTimeout \in Nat \ {0}
    /\ Limit \in Nat
    /\ \A z \in Sizes : z \in 1 .. Limit  \* termReadChunk <= termReplayLimit

VARIABLES
    link,       \* the stream: "up", "broken" (not noticed yet) or "down"
    breaks,     \* streams broken so far
    nodeUp,     \* FALSE once the runtime aborted the process
    \* TerminalManager
    terms,      \* m.terms: id -> session, 0 when absent
    buffers,    \* m.buffers: id -> retained entries
    \* terminalSession, numbered in the order of opening
    idOf,       \* the ids of the sessions made so far
    pty,        \* "none", "open" or "closed" (shell gone or PTY closed)
    attached,
    age,        \* age of detachedAt; Never when it is 0
    seq,        \* chunks numbered
    \* goroutines
    pump,       \* program counter of each pump
    chunk,      \* size of the chunk each pump holds
    disp,       \* program counter of the dispatch loop
    cur,        \* the session it works on
    want,       \* the id it opens
    after,      \* after_sequence of its attach
    replaying,  \* entries it still has to replay
    truncated,  \* flag of the next replayed frame
    todo,       \* sessions DetachAll still has to mark
    reaper,     \* program counter of the reaper
    scan,       \* sessions it still has to look at
    look,       \* the session it looks at
    doomed,     \* sessions it collected
    \* what the server saw on this stream, per session
    got,        \* sequence numbers received
    gone,       \* sequence numbers announced as lost
    from        \* after_sequence of an attach completed on this stream; -1: none

linkVars == <<link, breaks, nodeUp>>
mapVars == <<terms, buffers>>
sessVars == <<idOf, pty, attached, age, seq>>
pumpVars == <<pump, chunk>>
dispVars == <<disp, cur, want, after, replaying, truncated, todo>>
reapVars == <<reaper, scan, look, doomed>>
seenVars == <<got, gone, from>>
vars == <<linkVars, mapVars, sessVars, pumpVars, dispVars, reapVars, seenVars>>

Never == -1
Sess == 1 .. MaxOpens
PumpStates == {"none", "read", "append", "emit", "mark1", "mark2", "wait", "removing",
               "exit", "done"}
DispStates == {"idle", "starting", "registering", "lookup", "replay", "mark2",
               "detach", "detach2", "down"}
ReapStates == {"idle", "load1", "load2", "close"}
Entry == [seq : 1 .. MaxSeq, size : Sizes]

TypeOK ==
    /\ link \in {"up", "broken", "down"} /\ breaks \in 0 .. MaxBreaks /\ nodeUp \in BOOLEAN
    /\ terms \in [Ids -> 0 .. MaxOpens]
    /\ DOMAIN buffers = Ids /\ \A i \in Ids : buffers[i] \in Seq(Entry)
    /\ idOf \in Seq(Ids) /\ Len(idOf) <= MaxOpens
    /\ pty \in [Sess -> {"none", "open", "closed"}]
    /\ attached \in [Sess -> BOOLEAN] /\ age \in [Sess -> Never .. DetachTimeout]
    /\ seq \in [Sess -> 0 .. MaxSeq]
    /\ pump \in [Sess -> PumpStates] /\ chunk \in [Sess -> Sizes \cup {0}]
    /\ disp \in DispStates /\ cur \in 0 .. MaxOpens /\ want \in Ids /\ after \in 0 .. MaxSeq
    /\ replaying \in Seq(Entry) /\ truncated \in BOOLEAN /\ todo \subseteq Sess
    /\ reaper \in ReapStates /\ scan \subseteq Sess /\ look \in 0 .. MaxOpens
    /\ doomed \subseteq Sess
    /\ got \in [Sess -> SUBSET (1 .. MaxSeq)] /\ gone \in [Sess -> SUBSET (1 .. MaxSeq)]
    /\ from \in [Sess -> -1 .. MaxSeq]

Init ==
    /\ link = "up" /\ breaks = 0 /\ nodeUp = TRUE
    /\ terms = [i \in Ids |-> 0] /\ buffers = [i \in Ids |-> <<>>]
    /\ idOf = <<>> /\ pty = [s \in Sess |-> "none"]
    /\ attached = [s \in Sess |-> FALSE] /\ age = [s \in Sess |-> Never]
    /\ seq = [s \in Sess |-> 0]
    /\ pump = [s \in Sess |-> "none"] /\ chunk = [s \in Sess |-> 0]
    /\ disp = "idle" /\ cur = 0 /\ want \in Ids /\ after = 0
    /\ replaying = <<>> /\ truncated = FALSE /\ todo = {}
    /\ reaper = "idle" /\ scan = {} /\ look = 0 /\ doomed = {}
    /\ got = [s \in Sess |-> {}] /\ gone = [s \in Sess |-> {}]
    /\ from = [s \in Sess |-> -1]

-----------------------------------------------------------------------------
\* m.mu is free: neither a removal, a registration nor the reaper's scan holds it.
MuFree == /\ reaper \notin {"load1", "load2"}
          /\ disp # "registering"
          /\ \A s \in Sess : pump[s] # "removing"

\* m.buffers is being written under m.mu.
MapWrite == disp = "registering" \/ \E s \in Sess : pump[s] = "removing"

\* What Client.EmitUpstream may answer.
EmitOk == CASE link = "up" -> {TRUE} [] link = "down" -> {FALSE} [] OTHER -> BOOLEAN

\* The server gets output chunk q of s, flagged when lost is not empty.
Received(s, q, lost) ==
    IF link = "up"
    THEN /\ got' = [got EXCEPT ![s] = @ \cup {q}]
         /\ gone' = [gone EXCEPT ![s] = @ \cup lost]
    ELSE UNCHANGED <<got, gone>>

Weight(entries) == FoldLeft(LAMBDA w, e : w + e.size, 0, entries)

\* terminalBuffer.append: the oldest entries go while the rest exceeds the limit.
append(entries, q, z) ==
    LET all == Append(entries, [seq |-> q, size |-> z])
        fit == {k \in 0 .. Len(all) : Weight(SubSeq(all, k + 1, Len(all))) <= Limit}
    IN  SubSeq(all, (CHOOSE k \in fit : \A j \in fit : k <= j) + 1, Len(all))

\* Mutant of replay: the entry after the requested point is skipped.
replay_skipsOne(entries, a) ==
    [entries |-> SelectSeq(entries, LAMBDA e : e.seq > a + 1),
     truncated |-> entries # <<>> /\ a + 1 < Head(entries).seq]

\* terminalBuffer.replay.
replay(entries, a) ==
    [entries |-> SelectSeq(entries, LAMBDA e : e.seq > a),
     truncated |-> entries # <<>> /\ a + 1 < Head(entries).seq]

\* terminalSession.close: once, and a PTY whose shell is gone stays so.
Closed(S) == pty' = [s \in Sess |-> IF s \in S THEN "closed" ELSE pty[s]]

-----------------------------------------------------------------------------
\* The dispatch loop: one frame at a time.

\* Open of an id that exists is a no-op (and no step); otherwise the PTY is
\* started outside the lock.
Open ==
    /\ disp = "idle" /\ MuFree
    /\ \E i \in Ids : terms[i] = 0 /\ want' = i
    /\ disp' = "starting"
    /\ UNCHANGED <<linkVars, mapVars, sessVars, pumpVars, cur, after, replaying, truncated,
                   todo, reapVars, seenVars>>

\* The shell cannot be started: an exit frame, no terminal.
OpenFail ==
    /\ disp = "starting"
    /\ disp' = "idle"
    /\ UNCHANGED <<linkVars, mapVars, sessVars, pumpVars, cur, want, after, replaying,
                   truncated, todo, reapVars, seenVars>>

\* The shell runs and the session is entered into the maps, detached as of now.
OpenRegister ==
    /\ disp = "starting" /\ MuFree
    /\ Len(idOf) < MaxOpens
    /\ LET s == Len(idOf) + 1 IN
       /\ idOf' = Append(idOf, want)
       /\ pty' = [pty EXCEPT ![s] = "open"]
       /\ age' = [age EXCEPT ![s] = 0]
       /\ terms' = [terms EXCEPT ![want] = s]
       /\ buffers' = [buffers EXCEPT ![want] = <<>>]
    /\ disp' = "registering"
    /\ UNCHANGED <<linkVars, attached, seq, pumpVars, cur, want, after,
                   replaying, truncated, todo, reapVars, seenVars>>

\* The lock is released and the pump launched.
OpenDone ==
    /\ disp = "registering"
    /\ pump' = [pump EXCEPT ![terms[want]] = "read"]
    /\ disp' = "idle"
    /\ UNCHANGED <<linkVars, mapVars, sessVars, chunk, cur, want, after, replaying,
                   truncated, todo, reapVars, seenVars>>

\* Attach: the session is looked up under the lock.  An unknown id is answered
\* with an exit frame, which changes nothing here.
Attach ==
    /\ disp = "idle" /\ MuFree
    /\ \E i \in Ids : terms[i] # 0 /\ cur' = terms[i]
    /\ \E a \in {0} \cup got[cur'] \cup {q \in 1 .. MaxSeq : q < seq[cur']} : after' = a
    /\ disp' = "lookup"
    /\ UNCHANGED <<linkVars, mapVars, sessVars, pumpVars, want, replaying, truncated, todo,
                   reapVars, seenVars>>

\* Attach reads m.buffers without the lock, before or after a removal that is
\* under way (see AbortOnRace); an absent buffer is an empty one.
AttachReplay ==
    /\ disp = "lookup"
    /\ \E entries \in {buffers[idOf[cur]]} \cup (IF pump[cur] = "removing" THEN {<<>>} ELSE {}) :
         LET r == replay(entries, after) IN
         /\ replaying' = r.entries
         /\ truncated' = r.truncated
    /\ disp' = "replay"
    /\ UNCHANGED <<linkVars, mapVars, sessVars, pumpVars, cur, want, after, todo, reapVars,
                   seenVars>>

\* One replayed frame; only the first carries the truncation.
AttachEmit ==
    /\ disp = "replay" /\ replaying # <<>>
    /\ LET q == Head(replaying).seq IN
       Received(cur, q, IF truncated THEN after + 1 .. q - 1 ELSE {})
    /\ replaying' = Tail(replaying)
    /\ truncated' = FALSE
    /\ UNCHANGED <<linkVars, mapVars, sessVars, pumpVars, disp, cur, want, after, todo,
                   reapVars, from>>

\* The replay is over; markAttached sets attached, then clears detachedAt.
AttachReplayed ==
    /\ disp = "replay" /\ replaying = <<>>
    /\ attached' = [attached EXCEPT ![cur] = TRUE]
    /\ from' = [from EXCEPT ![cur] = after]
    /\ disp' = "mark2"
    /\ UNCHANGED <<linkVars, mapVars, idOf, pty, age, seq, pumpVars, cur, want,
                   after, replaying, truncated, todo, reapVars, got, gone>>

AttachDone ==
    /\ disp = "mark2"
    /\ age' = [age EXCEPT ![cur] = Never]
    /\ disp' = "idle"
    /\ UNCHANGED <<linkVars, mapVars, idOf, pty, attached, seq, pumpVars, cur,
                   want, after, replaying, truncated, todo, reapVars, seenVars>>

\* Close of one terminal.
Close ==
    /\ disp = "idle" /\ MuFree
    /\ \E i \in Ids : terms[i] # 0 /\ Closed({terms[i]})
    /\ UNCHANGED <<linkVars, mapVars, idOf, attached, age, seq, pumpVars,
                   dispVars, reapVars, seenVars>>

\* The loop meets the broken stream: serve calls StopAll, whose DetachAll
\* takes a snapshot of the terminals.
DetachAll ==
    /\ disp = "idle" /\ link = "broken" /\ MuFree
    /\ todo' = {terms[i] : i \in Ids} \ {0}
    /\ disp' = "detach"
    /\ UNCHANGED <<linkVars, mapVars, sessVars, pumpVars, cur, want, after, replaying,
                   truncated, reapVars, seenVars>>

\* markDetached: the swap; only a terminal that was attached gets a time.
markDetached ==
    /\ disp = "detach"
    /\ \E s \in todo :
         /\ todo' = todo \ {s}
         /\ cur' = s
         /\ attached' = [attached EXCEPT ![s] = FALSE]
         /\ disp' = IF attached[s] THEN "detach2" ELSE "detach"
    /\ UNCHANGED <<linkVars, mapVars, idOf, pty, age, seq, pumpVars, want,
                   after, replaying, truncated, reapVars, seenVars>>

stampDetached ==
    /\ disp = "detach2"
    /\ age' = [age EXCEPT ![cur] = 0]
    /\ disp' = "detach"
    /\ UNCHANGED <<linkVars, mapVars, idOf, pty, attached, seq, pumpVars, cur,
                   want, after, replaying, truncated, todo, reapVars, seenVars>>

\* serve returns: the stream is unset.
Disconnect ==
    /\ disp = "detach" /\ todo = {}
    /\ link' = "down"
    /\ disp' = "down"
    /\ UNCHANGED <<breaks, nodeUp, mapVars, sessVars, pumpVars, cur, want, after, replaying,
                   truncated, todo, reapVars, seenVars>>

\* Run reconnects and registers: a new stream on which nothing was seen yet.
Reconnect ==
    /\ disp = "down"
    /\ link' = "up"
    /\ disp' = "idle"
    /\ got' = [s \in Sess |-> {}] /\ gone' = [s \in Sess |-> {}]
    /\ from' = [s \in Sess |-> -1]
    /\ UNCHANGED <<breaks, nodeUp, mapVars, sessVars, pumpVars, cur, want, after, replaying,
                   truncated, todo, reapVars>>

-----------------------------------------------------------------------------
\* The pump of session s.

\* A chunk is read and numbered.
pumpRead(s) ==
    /\ pump[s] = "read" /\ pty[s] = "open" /\ seq[s] < MaxSeq
    /\ \E z \in Sizes : chunk' = [chunk EXCEPT ![s] = z]
    /\ seq' = [seq EXCEPT ![s] = @ + 1]
    /\ pump' = [pump EXCEPT ![s] = "append"]
    /\ UNCHANGED <<linkVars, mapVars, idOf, pty, attached, age, dispVars,
                   reapVars, seenVars>>

\* It is buffered before it is emitted; m.buffers is read without the lock.
pumpAppend(s) ==
    /\ pump[s] = "append"
    /\ buffers' = [buffers EXCEPT ![idOf[s]] = append(@, seq[s], chunk[s])]
    /\ pump' = [pump EXCEPT ![s] = "emit"]
    /\ UNCHANGED <<linkVars, terms, sessVars, chunk, dispVars, reapVars, seenVars>>

\* The live frame.  Whether or not it went out the pump reads on; success
\* counts as somebody watching.
pumpEmit(s) ==
    /\ pump[s] = "emit"
    /\ Received(s, seq[s], {})
    /\ \E ok \in EmitOk : pump' = [pump EXCEPT ![s] = IF ok THEN "mark1" ELSE "read"]
    /\ chunk' = [chunk EXCEPT ![s] = 0]
    /\ UNCHANGED <<linkVars, mapVars, sessVars, dispVars, reapVars, from>>

\* markAttached: two stores.
pumpMark1(s) ==
    /\ pump[s] = "mark1"
    /\ attached' = [attached EXCEPT ![s] = TRUE]
    /\ pump' = [pump EXCEPT ![s] = "mark2"]
    /\ UNCHANGED <<linkVars, mapVars, idOf, pty, age, seq, chunk, dispVars,
                   reapVars, seenVars>>

pumpMark2(s) ==
    /\ pump[s] = "mark2"
    /\ age' = [age EXCEPT ![s] = Never]
    /\ pump' = [pump EXCEPT ![s] = "read"]
    /\ UNCHANGED <<linkVars, mapVars, idOf, pty, attached, seq, chunk, dispVars,
                   reapVars, seenVars>>

\* The read fails: the shell is gone or its PTY was closed.
pumpEof(s) ==
    /\ pump[s] = "read" /\ pty[s] = "closed"
    /\ pump' = [pump EXCEPT ![s] = "wait"]
    /\ UNCHANGED <<linkVars, mapVars, sessVars, chunk, dispVars, reapVars, seenVars>>

\* Wait has reaped the shell; remove takes the lock, deletes both entries by id
\* and releases it.
pumpLock(s) ==
    /\ pump[s] = "wait" /\ MuFree
    /\ pump' = [pump EXCEPT ![s] = "removing"]
    /\ UNCHANGED <<linkVars, mapVars, sessVars, chunk, dispVars, reapVars, seenVars>>

\* Mutant of remove: the terminal stays listed.
remove_keepsTerm(s) ==
    /\ pump[s] = "removing"
    /\ buffers' = [buffers EXCEPT ![idOf[s]] = <<>>]
    /\ pump' = [pump EXCEPT ![s] = "exit"]
    /\ UNCHANGED <<terms, linkVars, sessVars, chunk, dispVars, reapVars, seenVars>>

remove(s) ==
    /\ pump[s] = "removing"
    /\ terms' = [terms EXCEPT ![idOf[s]] = 0]
    /\ buffers' = [buffers EXCEPT ![idOf[s]] = <<>>]
    /\ pump' = [pump EXCEPT ![s] = "exit"]
    /\ UNCHANGED <<linkVars, sessVars, chunk, dispVars, reapVars, seenVars>>

\* The exit frame, sent once whether or not it arrives.
emitExit(s) ==
    /\ pump[s] = "exit"
    /\ pump' = [pump EXCEPT ![s] = "done"]
    /\ UNCHANGED <<linkVars, mapVars, sessVars, chunk, dispVars, reapVars, seenVars>>

pumpStep(s) == \/ pumpRead(s) \/ pumpAppend(s) \/ pumpEmit(s) \/ pumpMark1(s) \/ pumpMark2(s)
               \/ pumpEof(s) \/ pumpLock(s) \/ remove(s) \/ emitExit(s)

-----------------------------------------------------------------------------
\* The reaper.

\* A tick of its timer: it takes the lock and looks at every terminal.
reapDetached ==
    /\ reaper = "idle" /\ MuFree
    /\ scan' = {terms[i] : i \in Ids} \ {0}
    /\ scan' # {}
    /\ reaper' = "load1"
    /\ UNCHANGED <<linkVars, mapVars, sessVars, pumpVars, dispVars, look, doomed, seenVars>>

\* First load of detachedAt: an attached terminal is skipped.
reapLoad1 ==
    /\ reaper = "load1"
    /\ \E s \in scan :
         /\ scan' = scan \ {s}
         /\ look' = IF age[s] = Never THEN 0 ELSE s
         /\ reaper' = IF age[s] = Never THEN "load1" ELSE "load2"
    /\ UNCHANGED <<linkVars, mapVars, sessVars, pumpVars, dispVars, doomed, seenVars>>

\* Mutant of reapLoad2: a terminal is never old enough.
reapLoad2_offByOne ==
    /\ reaper = "load2"
    /\ doomed' = IF age[look] = Never \/ age[look] > DetachTimeout THEN doomed \cup {look}
                 ELSE doomed
    /\ look' = 0
    /\ reaper' = "load1"
    /\ UNCHANGED <<linkVars, mapVars, sessVars, pumpVars, dispVars, scan, seenVars>>

\* Second load: the age is computed from it.  A 0 stored meanwhile is the
\* start of 1970, long past any timeout.
reapLoad2 ==
    /\ reaper = "load2"
    /\ doomed' = IF age[look] \in {Never, DetachTimeout} THEN doomed \cup {look} ELSE doomed
    /\ look' = 0
    /\ reaper' = "load1"
    /\ UNCHANGED <<linkVars, mapVars, sessVars, pumpVars, dispVars, scan, seenVars>>

\* The lock is released, then the collected terminals are closed one by one.
reapUnlock ==
    /\ reaper = "load1" /\ scan = {}
    /\ reaper' = IF doomed = {} THEN "idle" ELSE "close"
    /\ UNCHANGED <<linkVars, mapVars, sessVars, pumpVars, dispVars, scan, look, doomed,
                   seenVars>>

reapClose ==
    /\ reaper = "close"
    /\ \E s \in doomed :
         /\ Closed({s})
         /\ doomed' = doomed \ {s}
         /\ reaper' = IF doomed = {s} THEN "idle" ELSE "close"
    /\ UNCHANGED <<linkVars, mapVars, idOf, attached, age, seq, pumpVars,
                   dispVars, scan, look, seenVars>>

reapStep == reapDetached \/ reapLoad1 \/ reapLoad2 \/ reapUnlock \/ reapClose

-----------------------------------------------------------------------------
\* The environment.

\* A shell ends by itself.
ShellExit ==
    /\ \E s \in Sess : pty[s] = "open" /\ Closed({s})
    /\ UNCHANGED <<linkVars, mapVars, idOf, attached, age, seq, pumpVars,
                   dispVars, reapVars, seenVars>>

\* The stream breaks; nobody knows yet.
Break ==
    /\ link = "up" /\ breaks < MaxBreaks
    /\ link' = "broken"
    /\ breaks' = breaks + 1
    /\ UNCHANGED <<nodeUp, mapVars, sessVars, pumpVars, dispVars, reapVars, seenVars>>

Tick ==
    /\ \E s \in Sess : age[s] \in 0 .. DetachTimeout - 1
    /\ age' = [s \in Sess |-> IF age[s] \in 0 .. DetachTimeout - 1 THEN age[s] + 1 ELSE age[s]]
    /\ UNCHANGED <<linkVars, mapVars, idOf, pty, attached, seq, pumpVars,
                   dispVars, reapVars, seenVars>>

\* The Go runtime detects an unlocked read of m.buffers beside a write of it
\* and aborts the process.
AbortOnRace ==
    /\ MapWrite
    /\ disp = "lookup" \/ \E s \in Sess : pump[s] = "append"
    /\ nodeUp' = FALSE
    /\ UNCHANGED <<link, breaks, mapVars, sessVars, pumpVars, dispVars, reapVars, seenVars>>

dispStep == \/ OpenFail \/ OpenRegister \/ OpenDone \/ AttachReplay \/ AttachEmit
            \/ AttachReplayed \/ AttachDone \/ DetachAll \/ markDetached \/ stampDetached
            \/ Disconnect \/ Reconnect

Next == /\ nodeUp
        /\ \/ Open \/ Attach \/ Close \/ dispStep
           \/ \E s \in Sess : pumpStep(s)
           \/ reapStep
           \/ ShellExit \/ Break \/ Tick \/ AbortOnRace

\* Every goroutine runs, the reaper's timer fires and time passes; a goroutine
\* that waits for m.mu gets it (Go's mutex hands over to a starving waiter).
\* Nothing makes the server send frames, shells write or exit, streams break.
Fairness == /\ WF_vars(nodeUp /\ dispStep)
            /\ SF_vars(nodeUp /\ (OpenRegister \/ DetachAll))
            /\ \A s \in Sess : /\ WF_vars(nodeUp /\ pumpStep(s))
                              /\ SF_vars(nodeUp /\ pumpLock(s))
            /\ WF_vars(nodeUp /\ reapStep)
            /\ SF_vars(nodeUp /\ reapDetached)
            /\ WF_vars(nodeUp /\ Tick)

Spec == Init /\ [][Next]_vars /\ Fairness

-----------------------------------------------------------------------------
\* After an attach the server misses nothing: on the stream of a completed
\* attach, every chunk after the requested point was received, is announced
\* as lost by the truncation flag of the first replayed frame, or is in the
\* pump's hands, until the terminal is removed.  The buffer is read without
\* the pump's cooperation and evicts meanwhile (terminal.go:154-169, 316-324,
\* 346-351).
AttachCovers ==
    link = "up" =>
        \A s \in Sess :
            (from[s] >= 0 /\ pump[s] \notin {"removing", "exit", "done"}) =>
                \A q \in from[s] + 1 .. seq[s] :
                    \/ q \in got[s] \cup gone[s]
                    \/ q = seq[s] /\ pump[s] \in {"append", "emit"}

\* No shell is forgotten: a shell that runs is listed under its id, where
\* Close, Attach and the reaper find it, whatever the stream does
\* (terminal.go:335-338, 378-384).
RunningShellListed ==
    \A s \in Sess : pty[s] = "open" => terms[idOf[s]] = s

\* A terminal that ended, was closed or was reaped disappears from the list,
\* also with the stream down (terminal.go:376-384, 483-491).
ClosedIsRemoved ==
    \A s \in Sess :
        pty[s] = "closed" ~> (~nodeUp \/ \A i \in Ids : terms[i] # s)

\* A terminal whose detachedAt is set is closed in the end unless somebody
\* attaches: output alone, without an emit that succeeds, does not keep it
\* (terminal.go:84-87, 631-649).
DetachedIsReaped ==
    \A s \in Sess :
        age[s] # Never ~> (~nodeUp \/ age[s] = Never \/ pty[s] = "closed")

\* What the comment on TerminalManager promises (terminal.go:173-175: "It is
\* safe for concurrent use"): no frame and no output brings the node down.
SafeForConcurrentUse == nodeUp
=============================================================================
