-------------------------- MODULE NodeClientProofs --------------------------
(***************************************************************************)
(* Proofs about NodeClient, for any number of streams, revisions and       *)
(* address families: no emitter gets ahead of the registration, although   *)
(* emitters outlive the stream they last wrote to and check the gate only  *)
(* before they send; and the reported addresses fit the configuration in   *)
(* force, although a lookup outlives the configuration it started under.   *)
(***************************************************************************)
EXTENDS NodeClient, TLAPS

\* The inductive invariant.  The gate is open only on a stream the register
\* frame went out on, and who sends through it holds mu, which keeps the gate
\* as it is until the send ends: neither deferred reset gets in between.
NInv ==
    /\ first \in [Streams -> {"none", "register", "other"}]
    /\ stream \in 0 .. MaxStreams /\ current \in {0, stream}
    /\ phase # "dial" => stream \in Streams
    /\ phase \in {"ack", "serving", "acking", "unwind"} => first[stream] = "register"
    /\ registered => /\ phase \in {"serving", "acking", "unwind", "unregister"}
                     /\ first[stream] = "register"
    /\ emitter = "send" => mu = "emitter"
    /\ heartbeat = "send" => mu = "heartbeat"
    /\ phase = "acking" => mu = "dispatch"
    /\ mu # "free" => current # 0 /\ registered = TRUE
    /\ FirstIsRegister

\* A client that has not dialled yet satisfies the invariant.
LEMMA InitFirst ==
    ASSUME MaxStreams \in Nat
    PROVE  Init => NInv
BY DEF Init, NInv, Streams, FirstIsRegister

\* Every step of serve, its goroutines, the emitters and the network
\* preserves it (common/agent/client.go:289-390, 754-762).
LEMMA StepFirst ==
    ASSUME MaxStreams \in Nat, NInv, [Next]_vars
    PROVE  NInv'
<1> USE DEF NInv, Streams, FirstIsRegister, muVars, ipVars, serveVars
<1>1. CASE Dial
  BY <1>1 DEF Dial
<1>2. CASE Register
  BY <1>2 DEF Register, Arrives
<1>3. CASE ConnectFails
  BY <1>3 DEF ConnectFails
<1>4. CASE Revoked
  BY <1>4 DEF Revoked
<1>5. CASE Registered
  BY <1>5 DEF Registered
<1>6. CASE emitStart
  BY <1>6 DEF emitStart, GateOpen
<1>7. CASE emitEnd
  BY <1>7 DEF emitEnd, Arrives
<1>8. CASE heartbeatTick
  BY <1>8 DEF heartbeatTick, GateOpen
<1>9. CASE heartbeatSent
  BY <1>9 DEF heartbeatSent, Arrives
<1>10. CASE heartbeatDone
  BY <1>10 DEF heartbeatDone
<1>11. CASE HandleFrame
  BY <1>11 DEF HandleFrame, GateOpen, Receiving
<1>12. CASE SendAck
  BY <1>12 DEF SendAck, Arrives
<1>13. CASE applyNodeProxyConfig
  BY <1>13 DEF applyNodeProxyConfig
<1>14. CASE applyPublicIPConfig
  BY <1>14 DEF applyPublicIPConfig
<1>15. CASE dispatchEnds
  BY <1>15 DEF dispatchEnds
<1>16. CASE refreshPublicIPs
  BY <1>16 DEF refreshPublicIPs
<1>17. CASE ipLoopDone
  BY <1>17 DEF ipLoopDone
<1>18. CASE StopAll
  BY <1>18 DEF StopAll
<1>19. CASE Unregister
  BY <1>19 DEF Unregister
<1>20. CASE UnsetStream
  BY <1>20 DEF UnsetStream
<1>21. CASE Backoff
  BY <1>21 DEF Backoff
<1>22. CASE WaitApproved
  BY <1>22 DEF WaitApproved
<1>23. CASE LinkChanges
  BY <1>23 DEF LinkChanges
<1>24. ASSUME NEW f \in Families, lookupEnds(f) PROVE NInv'
  BY <1>24 DEF lookupEnds
<1>25. CASE UNCHANGED vars
  BY <1>25 DEF vars
<1>26. QED
  BY Zenon, Zenon, <1>1, <1>2, <1>3, <1>4, <1>5, <1>6, <1>7, <1>8, <1>9, <1>10, <1>11,
     <1>12, <1>13, <1>14, <1>15, <1>16, <1>17, <1>18, <1>19, <1>20, <1>21,
     <1>22, <1>23, <1>24, <1>25
     DEF Next, serveStep

\* The first frame on every stream is the registration
\* (common/agent/client.go:157-164, 742-746).
THEOREM RegisterComesFirst ==
    ASSUME MaxStreams \in Nat
    PROVE  Spec => []FirstIsRegister
<1>1. NInv => FirstIsRegister
  BY DEF NInv
<1>2. NInv /\ [Next]_vars => NInv'
  BY StepFirst
<1>3. QED
  BY InitFirst, <1>1, <1>2, PTL DEF Spec

-----------------------------------------------------------------------------
\* The invariant behind the report.  A lookup under way works under a revision
\* that was in force once, so a configuration that comes later has a higher
\* one; while the two are the same, only configured families are looked up.
CInv ==
    /\ ipRev \in Nat /\ snapshot \in Nat /\ snapshot <= ipRev
    /\ sources \subseteq Families /\ disabled \subseteq Families
    /\ address \in [Families -> Nat]
    /\ snapshot = ipRev => lookups \subseteq sources
    /\ ReportFitsConfig

\* Only three steps touch what the invariant speaks of: the rest of the client
\* never writes the configuration, the report or the lookup under way.
LEMMA ElsewhereKept ==
    ASSUME [Next]_vars, ~applyPublicIPConfig, ~refreshPublicIPs,
           \A f \in Families : ~lookupEnds(f)
    PROVE  UNCHANGED <<ipRev, sources, disabled, address, snapshot, lookups>>
<1> USE DEF muVars, ipVars, serveVars
<1>1. CASE serveStep
  BY <1>1 DEF serveStep, Dial, Register, Revoked, Registered, StopAll, Unregister,
     UnsetStream, Backoff, SendAck
<1>2. CASE ConnectFails \/ dispatchEnds \/ LinkChanges \/ WaitApproved \/ ipLoopDone
  BY <1>2 DEF ConnectFails, dispatchEnds, LinkChanges, WaitApproved, ipLoopDone
<1>3. CASE emitStart \/ emitEnd \/ heartbeatTick \/ heartbeatSent \/ heartbeatDone
  BY <1>3 DEF emitStart, emitEnd, heartbeatTick, heartbeatSent, heartbeatDone
<1>4. CASE HandleFrame \/ applyNodeProxyConfig
  BY <1>4 DEF HandleFrame, applyNodeProxyConfig
<1>5. CASE UNCHANGED vars
  BY <1>5 DEF vars
<1>6. QED
  BY <1>1, <1>2, <1>3, <1>4, <1>5 DEF Next

\* Every step preserves it: a result that arrives under an older revision is
\* dropped, one under the current revision is for a configured family
\* (common/agent/client.go:625-637, 694-713).
LEMMA StepReport ==
    ASSUME CInv, [Next]_vars
    PROVE  CInv'
<1> USE DEF CInv, ReportFitsConfig
<1>1. CASE applyPublicIPConfig
  <2>1. PICK r \in 1 .. MaxRev, S \in SUBSET Families :
             /\ r > ipRev
             /\ ipRev' = r /\ sources' = S /\ disabled' = Families \ S
             /\ address' = [f \in Families |-> IF f \in S THEN address[f] ELSE 0]
    BY <1>1 DEF applyPublicIPConfig
  <2>2. UNCHANGED <<snapshot, lookups>>
    BY <1>1 DEF applyPublicIPConfig
  <2>3. QED
    BY RevAssumption, <2>1, <2>2
<1>2. CASE refreshPublicIPs
  BY <1>2 DEF refreshPublicIPs, muVars
<1>3. ASSUME NEW f \in Families, lookupEnds(f) PROVE CInv'
  <2>1. UNCHANGED <<ipRev, sources, snapshot>> /\ lookups' = lookups \ {f} /\ f \in lookups
    BY <1>3 DEF lookupEnds
  <2>2. CASE UNCHANGED <<address, disabled>>
    BY <2>1, <2>2
  <2>3. CASE updatePublicIPResult(f)
    BY <2>1, <2>3 DEF updatePublicIPResult
  <2>4. QED
    BY <1>3, <2>2, <2>3 DEF lookupEnds
<1>4. QED
  BY <1>1, <1>2, <1>3, ElsewhereKept

\* The report fits the lookup configuration in force in every reachable state
\* (common/agent/client.go:625-637, 694-713).
THEOREM ReportIsCurrent == Spec => []ReportFitsConfig
<1>1. Init => CInv
  BY DEF Init, CInv, ReportFitsConfig
<1>2. CInv => ReportFitsConfig
  BY DEF CInv
<1>3. CInv /\ [Next]_vars => CInv'
  BY StepReport
<1>4. QED
  BY <1>1, <1>2, <1>3, PTL DEF Spec
=============================================================================
