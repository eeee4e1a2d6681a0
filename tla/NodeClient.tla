----------------------------- MODULE NodeClient -----------------------------
(***************************************************************************)
(* The node's connection to its server (src/common/agent/client.go): the   *)
(* reconnect loop, hello and registration, the heartbeat that detects a    *)
(* dead stream, the upstream gate every emitter goes through, the approval *)
(* others wait for, and the configuration the server pushes (public IP     *)
(* lookup, egress proxy).                                                  *)
(*                                                                         *)
(* c.mu is held while EmitUpstream sends, and a send blocks while the peer *)
(* does not read; every other critical section is short and needs c.mu     *)
(* free.  A stream may break so that only sends notice it.                 *)
(***************************************************************************)
EXTENDS Naturals, FiniteSets, FiniteSetsExt

CONSTANTS MaxStreams,  \* bound: streams opened
          MaxRev,      \* bound: revisions of pushed configuration
          Families,    \* address families of the public IP lookup
          MaxBackoff   \* opts.MaxBackoff, in units of opts.MinBackoff

ASSUME RevAssumption == MaxRev \in Nat

VARIABLES
    \* serve and Run
    phase,       \* program counter of serve and Run
    stream,      \* number of the stream
    link,        \* "ok", "stalled", "sendFails" (reads just hang) or "closed"
    cancelled,   \* streamCtx is cancelled
    backoff,
    \* Client, guarded by mu
    mu,          \* who holds it over a send: "free", "heartbeat", "emitter" or "dispatch"
    current,     \* currentStream; 0: nil
    registered, approved,
    proxyRev,    \* proxy.revision
    ipRev,       \* publicIP.configRevision
    sources,     \* families the lookup configuration has URLs for
    disabled,    \* families reported as disabled
    address,     \* family -> revision the stored address was looked up under; 0: none
    \* other goroutines
    heartbeat,   \* "off", "wait" or "send"
    emitter,     \* a background emitter: "idle" or "send"
    ipLoop,      \* "off", "idle" or "lookup"
    wake,        \* a token is in publicIPWake
    snapshot,    \* revision refreshPublicIPs works under
    lookups,     \* families it still looks up
    waiter,      \* WaitApproved: "check", "waiting" or "done"
    \* the server
    first        \* stream -> the first frame it got: "none", "register" or "other"

muVars == <<current, registered, approved, proxyRev, ipRev, sources, disabled, address>>
ipVars == <<ipLoop, wake, snapshot, lookups>>
serveVars == <<phase, stream, link, cancelled, backoff>>
vars == <<serveVars, mu, muVars, heartbeat, emitter, ipVars, waiter, first>>

Streams == 1 .. MaxStreams
Phases == {"dial", "hello", "ack", "serving", "acking", "unwind", "unregister", "unset", "backoff"}

TypeOK ==
    /\ phase \in Phases /\ stream \in 0 .. MaxStreams
    /\ link \in {"ok", "stalled", "sendFails", "closed"} /\ cancelled \in BOOLEAN
    /\ backoff \in 1 .. MaxBackoff /\ mu \in {"free", "heartbeat", "emitter", "dispatch"}
    /\ current \in 0 .. MaxStreams /\ registered \in BOOLEAN /\ approved \in BOOLEAN
    /\ proxyRev \in 0 .. MaxRev /\ ipRev \in 0 .. MaxRev
    /\ sources \subseteq Families /\ disabled \subseteq Families
    /\ address \in [Families -> 0 .. MaxRev]
    /\ heartbeat \in {"off", "wait", "send"} /\ emitter \in {"idle", "send"}
    /\ ipLoop \in {"off", "idle", "lookup"} /\ wake \in BOOLEAN /\ snapshot \in 0 .. MaxRev
    /\ lookups \subseteq Families /\ waiter \in {"check", "waiting", "done"}
    /\ first \in [Streams -> {"none", "register", "other"}]

Init ==
    /\ phase = "dial" /\ stream = 0 /\ link = "closed" /\ cancelled = TRUE /\ backoff = 1
    /\ mu = "free" /\ current = 0 /\ registered = FALSE /\ approved = FALSE
    /\ proxyRev = 0 /\ ipRev = 0 /\ sources = {} /\ disabled = {}
    /\ address = [f \in Families |-> 0]
    /\ heartbeat = "off" /\ emitter = "idle"
    /\ ipLoop = "off" /\ wake = FALSE /\ snapshot = 0 /\ lookups = {}
    /\ waiter = "check" /\ first = [n \in Streams |-> "none"]

-----------------------------------------------------------------------------
\* serve: from the dial to the registration ack.

\* The stream is set before its first byte is sent.
Dial ==
    /\ phase = "dial" /\ stream < MaxStreams /\ mu = "free"
    /\ stream' = stream + 1
    /\ current' = stream + 1
    /\ link' = "ok" /\ cancelled' = FALSE
    /\ phase' = "hello"
    /\ UNCHANGED <<backoff, mu, registered, approved, proxyRev, ipRev, sources, disabled, address,
                   heartbeat, emitter, ipVars, waiter, first>>

\* What a frame that reaches the server does to its first frame.
Arrives(n, kind) == first' = [first EXCEPT ![n] = IF @ = "none" THEN kind ELSE @]

\* The hello arrives; after the capability probes the register frame is sent,
\* on the stream itself and not through EmitUpstream.
Register ==
    /\ phase = "hello" /\ link = "ok" /\ mu = "free"
    /\ Arrives(stream, "register")
    /\ phase' = "ack"
    /\ UNCHANGED <<stream, link, cancelled, backoff, mu, muVars, heartbeat, emitter, ipVars, waiter>>

\* Hello, register or ack fails (no answer, a wrong frame, a broken stream).
ConnectFails ==
    /\ phase \in {"hello", "ack"}
    /\ phase' = "unregister"
    /\ UNCHANGED <<stream, link, cancelled, backoff, mu, muVars, heartbeat, emitter, ipVars, waiter,
                   first>>

\* The ack says revoked: serve returns with approved as it was, without StopAll
\* and with the stream not cancelled yet.
Revoked ==
    /\ phase = "ack" /\ link = "ok" /\ mu = "free"
    /\ registered' = TRUE
    /\ phase' = "unregister"
    /\ UNCHANGED <<stream, link, cancelled, backoff, mu, current, approved, proxyRev, ipRev, sources,
                   disabled, address, heartbeat, emitter, ipVars, waiter, first>>

\* Mutant of setApproved: the waiter is only woken when nothing changed.
setApproved_wrongEdge(v) ==
    /\ approved' = v
    /\ waiter' = IF approved = v /\ v /\ waiter = "waiting" THEN "check" ELSE waiter

\* setApproved wakes the waiters on the change to TRUE.
setApproved(v) ==
    /\ approved' = v
    /\ waiter' = IF approved # v /\ v /\ waiter = "waiting" THEN "check" ELSE waiter

\* The ack opens the gate; heartbeat and public IP loop start.
Registered ==
    /\ phase = "ack" /\ link = "ok" /\ mu = "free"
    /\ registered' = TRUE
    /\ \E v \in BOOLEAN : setApproved(v)
    /\ heartbeat' = "wait" /\ ipLoop' = "idle"
    /\ phase' = "serving"
    /\ UNCHANGED <<stream, link, cancelled, backoff, mu, current, proxyRev, ipRev, sources, disabled,
                   address, emitter, wake, snapshot, lookups, first>>

-----------------------------------------------------------------------------
\* EmitUpstream, for its three kinds of caller.

GateOpen == current # 0 /\ registered

\* A send on stream n ends: with the frame delivered, or with an error.
SendOk == link = "ok" /\ ~cancelled
SendError == link \in {"sendFails", "closed"} \/ cancelled

\* Any goroutine that outlives the stream; refused at once when the gate is shut.
emitStart ==
    /\ emitter = "idle" /\ mu = "free" /\ GateOpen
    /\ emitter' = "send" /\ mu' = "emitter"
    /\ UNCHANGED <<serveVars, muVars, heartbeat, ipVars, waiter, first>>

emitEnd ==
    /\ emitter = "send"
    /\ \/ SendOk /\ Arrives(current, "other")
       \/ SendError /\ first' = first
    /\ emitter' = "idle" /\ mu' = "free"
    /\ UNCHANGED <<serveVars, muVars, heartbeat, ipVars, waiter>>

\* heartbeatLoop: a tick; a gate that is shut is a failed send.
heartbeatTick ==
    /\ heartbeat = "wait" /\ mu = "free" /\ ~cancelled
    /\ heartbeat' = IF GateOpen THEN "send" ELSE "off"
    /\ mu' = IF GateOpen THEN "heartbeat" ELSE "free"
    /\ cancelled' = ~GateOpen
    /\ UNCHANGED <<phase, stream, link, backoff, muVars, emitter, ipVars, waiter, first>>

\* Mutant of heartbeatSent: the loop ends without cancelling the stream.
heartbeatSent_noCancel ==
    /\ heartbeat = "send"
    /\ \/ SendOk /\ Arrives(current, "other") /\ heartbeat' = "wait"
       \/ SendError /\ heartbeat' = "off" /\ first' = first
    /\ mu' = "free"
    /\ UNCHANGED <<serveVars, muVars, emitter, ipVars, waiter>>

\* A failed send cancels the stream, which ends the blocked Receive.
heartbeatSent ==
    /\ heartbeat = "send"
    /\ \/ SendOk /\ Arrives(current, "other") /\ heartbeat' = "wait" /\ cancelled' = cancelled
       \/ SendError /\ heartbeat' = "off" /\ cancelled' = TRUE /\ first' = first
    /\ mu' = "free"
    /\ UNCHANGED <<phase, stream, link, backoff, muVars, emitter, ipVars, waiter>>

heartbeatDone ==
    /\ heartbeat = "wait" /\ cancelled
    /\ heartbeat' = "off"
    /\ UNCHANGED <<serveVars, mu, muVars, emitter, ipVars, waiter, first>>

-----------------------------------------------------------------------------
\* dispatchLoop.

Receiving == phase = "serving" /\ ~cancelled /\ link = "ok"

\* A command; its handler answers through EmitUpstream before the next frame.
HandleFrame ==
    /\ Receiving /\ mu = "free" /\ GateOpen
    /\ phase' = "acking" /\ mu' = "dispatch"
    /\ UNCHANGED <<stream, link, cancelled, backoff, muVars, heartbeat, emitter, ipVars, waiter, first>>

SendAck ==
    /\ phase = "acking"
    /\ \/ SendOk /\ Arrives(current, "other")
       \/ SendError /\ first' = first
    /\ phase' = "serving" /\ mu' = "free"
    /\ UNCHANGED <<stream, link, cancelled, backoff, muVars, heartbeat, emitter, ipVars, waiter>>

\* The egress proxy; an older or repeated revision is ignored and no step.
applyNodeProxyConfig ==
    /\ Receiving /\ mu = "free"
    /\ \E r \in 1 .. MaxRev : (r > proxyRev \/ proxyRev = 0) /\ proxyRev' = r
    /\ UNCHANGED <<serveVars, mu, current, registered, approved, ipRev, sources, disabled, address,
                   heartbeat, emitter, ipVars, waiter, first>>

\* The lookup configuration: families without URLs are disabled and lose their
\* address, and the loop is woken (one token at most).
applyPublicIPConfig ==
    /\ Receiving /\ mu = "free"
    /\ \E r \in 1 .. MaxRev, S \in SUBSET Families :
         /\ r > ipRev
         /\ ipRev' = r /\ sources' = S /\ disabled' = Families \ S
         /\ address' = [f \in Families |-> IF f \in S THEN address[f] ELSE 0]
    /\ wake' = TRUE
    /\ UNCHANGED <<serveVars, mu, current, registered, approved, proxyRev, heartbeat, emitter,
                   ipLoop, snapshot, lookups, waiter, first>>

\* Receive fails, the context is cancelled, or a terminal error frame arrives:
\* serve cancels the stream and waits for its goroutines.
dispatchEnds ==
    /\ phase = "serving"
    /\ cancelled \/ link \in {"closed", "ok"}
    /\ phase' = "unwind"
    /\ cancelled' = TRUE
    /\ UNCHANGED <<stream, link, backoff, mu, muVars, heartbeat, emitter, ipVars, waiter, first>>

-----------------------------------------------------------------------------
\* publicIPLoop.

\* A wake-up or the ticker: the configuration is copied under mu.
refreshPublicIPs ==
    /\ ipLoop = "idle" /\ mu = "free" /\ ~cancelled
    /\ wake' \in {FALSE, wake}
    /\ snapshot' = ipRev
    /\ lookups' = sources
    /\ ipLoop' = IF sources = {} THEN "idle" ELSE "lookup"
    /\ UNCHANGED <<serveVars, mu, muVars, heartbeat, emitter, waiter, first>>

\* Mutant of updatePublicIPResult: the revision is not compared.
updatePublicIPResult_anyRevision(f) ==
    /\ address' = [address EXCEPT ![f] = snapshot]
    /\ disabled' = disabled \ {f}

\* A result found under an older configuration is dropped.
updatePublicIPResult(f) ==
    /\ address' = [address EXCEPT ![f] = IF snapshot = ipRev THEN snapshot ELSE @]
    /\ disabled' = IF snapshot = ipRev THEN disabled \ {f} ELSE disabled

\* One family's lookup ends: with an address, or without.
lookupEnds(f) ==
    /\ ipLoop = "lookup" /\ f \in lookups
    /\ \/ mu = "free" /\ updatePublicIPResult(f)
       \/ UNCHANGED <<address, disabled>>
    /\ lookups' = lookups \ {f}
    /\ ipLoop' = IF lookups = {f} THEN "idle" ELSE "lookup"
    /\ UNCHANGED <<serveVars, mu, current, registered, approved, proxyRev, ipRev, sources,
                   heartbeat, emitter, wake, snapshot, waiter, first>>

ipLoopDone ==
    /\ ipLoop = "idle" /\ cancelled
    /\ ipLoop' = "off"
    /\ UNCHANGED <<serveVars, mu, muVars, heartbeat, emitter, wake, snapshot, lookups, waiter, first>>

-----------------------------------------------------------------------------
\* serve unwinds and Run backs off.

\* Heartbeat and loop have ended; the handler stops its sessions.
StopAll ==
    /\ phase = "unwind" /\ heartbeat = "off" /\ ipLoop = "off"
    /\ phase' = "unregister"
    /\ UNCHANGED <<stream, link, cancelled, backoff, mu, muVars, heartbeat, emitter, ipVars, waiter,
                   first>>

\* Mutant of Unregister: the gate stays open.
Unregister_staysOpen ==
    /\ phase = "unregister" /\ mu = "free"
    /\ phase' = "unset"
    /\ UNCHANGED <<stream, link, cancelled, backoff, mu, muVars, heartbeat, emitter, ipVars, waiter,
                   first>>

\* The deferred setRegistered(false).
Unregister ==
    /\ phase = "unregister" /\ mu = "free"
    /\ registered' = FALSE
    /\ phase' = "unset"
    /\ UNCHANGED <<stream, link, cancelled, backoff, mu, current, approved, proxyRev, ipRev, sources,
                   disabled, address, heartbeat, emitter, ipVars, waiter, first>>

\* The deferred setCurrentStream(nil), then the stream is closed and cancelled.
UnsetStream ==
    /\ phase = "unset" /\ mu = "free"
    /\ current' = 0
    /\ link' = "closed" /\ cancelled' = TRUE
    /\ phase' = "backoff"
    /\ UNCHANGED <<stream, backoff, mu, registered, approved, proxyRev, ipRev, sources,
                   disabled, address, heartbeat, emitter, ipVars, waiter, first>>

\* Run waits and dials again; a connection that lasted resets the back-off
\* before it is doubled.
Backoff ==
    /\ phase = "backoff"
    /\ \E b \in {1, backoff} : backoff' = Min({2 * b, MaxBackoff})
    /\ phase' = "dial"
    /\ UNCHANGED <<stream, link, cancelled, mu, muVars, heartbeat, emitter, ipVars, waiter, first>>

-----------------------------------------------------------------------------
\* WaitApproved of the goroutine that starts the devices: the check and the
\* wait are one critical section.
WaitApproved ==
    /\ waiter = "check" /\ mu = "free"
    /\ waiter' = IF approved THEN "done" ELSE "waiting"
    /\ UNCHANGED <<serveVars, mu, muVars, heartbeat, emitter, ipVars, first>>

\* The network and the peer.
LinkChanges ==
    /\ phase \notin {"dial", "backoff"}
    /\ \/ link = "ok" /\ link' \in {"stalled", "sendFails", "closed"}
       \/ link = "stalled" /\ link' \in {"ok", "sendFails", "closed"}
    /\ UNCHANGED <<phase, stream, cancelled, backoff, mu, muVars, heartbeat, emitter, ipVars, waiter,
                   first>>

-----------------------------------------------------------------------------
serveStep == \/ Dial \/ Register \/ Revoked \/ Registered \/ StopAll \/ Unregister
             \/ UnsetStream \/ Backoff \/ SendAck

Next == \/ serveStep \/ ConnectFails \/ dispatchEnds
        \/ emitStart \/ emitEnd \/ heartbeatTick \/ heartbeatSent \/ heartbeatDone
        \/ HandleFrame \/ applyNodeProxyConfig \/ applyPublicIPConfig
        \/ refreshPublicIPs \/ (\E f \in Families : lookupEnds(f)) \/ ipLoopDone
        \/ WaitApproved \/ LinkChanges

\* Goroutines run, the heartbeat's ticker fires and lookups time out; a
\* goroutine that waits for c.mu gets it (Go's mutex hands over to a starving
\* waiter).  A stalled stream may stay stalled, and nothing makes the server
\* send frames.
Fairness == /\ WF_vars(serveStep) /\ SF_vars(Unregister) /\ SF_vars(UnsetStream)
            /\ WF_vars(emitEnd) /\ SF_vars(heartbeatTick) /\ WF_vars(heartbeatSent)
            /\ WF_vars(heartbeatDone) /\ WF_vars(ipLoopDone) /\ SF_vars(WaitApproved)
            /\ WF_vars(phase = "serving" /\ cancelled /\ dispatchEnds)
            /\ \A f \in Families : WF_vars(lookupEnds(f))

Spec == Init /\ [][Next]_vars /\ Fairness

-----------------------------------------------------------------------------
\* The first frame of every stream is the registration, although background
\* emitters outlive streams and never wait for one (client.go:157-164, 742-746).
FirstIsRegister == \A n \in Streams : first[n] # "other"

\* The report never shows an address for a family the current configuration
\* switched off, and shows a family as disabled exactly when it has no sources,
\* with a lookup under an older configuration still under way
\* (client.go:625-637, 694-713).
ReportFitsConfig ==
    ipRev # 0 => /\ disabled = Families \ sources
                 /\ \A f \in disabled : address[f] = 0

\* A stream that only fails on sends is given up, so the node comes back
\* (client.go:374-378, 530-537); c.mu held by another sender does not prevent
\* the heartbeat from finding out.
DeadStreamReplaced ==
    (phase = "serving" /\ link = "sendFails") ~> (phase = "backoff")

\* The goroutine that starts the claimed devices is woken by the approval,
\* whichever of the two comes first, and on whichever stream.  A peer that stops
\* reading can hold it up: c.mu is kept over the send (client.go:754-762,
\* 983-1016, execution/handler.go:181-190).
ApprovalWakes == approved ~> (waiter = "done" \/ ~approved \/ link = "stalled")
=============================================================================
