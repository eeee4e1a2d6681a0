------------------------ MODULE SessionInputsProofs ------------------------
(***************************************************************************)
(* Proofs about SessionInputs: user messages reach the runtime in the      *)
(* order they were accepted, at most once, and a message reported failed   *)
(* can be sent again.  One invariant carries all three: every frame is at  *)
(* one stage between deliverInput and the runtime, the stages are ordered  *)
(* by the frames' numbers, and seenMessageIDs holds exactly the keys of    *)
(* the frames at some stage.                                               *)
(***************************************************************************)
EXTENDS SessionInputs, SequenceTheorems, TLAPS

\* A frame as deliverInput makes it; frames are numbered as they are accepted.
Frames == [key : Keys, no : Nat]

\* The later frame has the higher number.
Increasing(s) == \A i, j \in 1 .. Len(s) : i < j => s[i].no < s[j].no
Before(S, T) == \A f \in S, g \in T : f.no < g.no

\* The frames after one is queued.
LEMMA SetAppend ==
    ASSUME NEW s \in Seq(Frames), NEW e \in Frames
    PROVE  /\ Append(s, e) \in Seq(Frames) /\ Range(Append(s, e)) = Range(s) \cup {e}
           /\ Increasing(s) /\ Before(Range(s), {e}) => Increasing(Append(s, e))
<1>1. /\ Append(s, e) \in Seq(Frames) /\ Len(Append(s, e)) = Len(s) + 1
      /\ Len(s) \in Nat /\ DOMAIN s = 1 .. Len(s) /\ DOMAIN Append(s, e) = 1 .. Len(s) + 1
      /\ \A i \in 1 .. Len(s) : Append(s, e)[i] = s[i]
      /\ Append(s, e)[Len(s) + 1] = e
  BY AppendProperties, LenProperties
<1>2. Range(Append(s, e)) = Range(s) \cup {e}
  BY <1>1 DEF Range
<1>3. ASSUME Increasing(s), Before(Range(s), {e}) PROVE Increasing(Append(s, e))
  BY <1>1, <1>3 DEF Increasing, Before, Range
<1>4. QED
  BY <1>1, <1>2, <1>3

\* The first frame of a queue and the ones behind it.
LEMMA SetTail ==
    ASSUME NEW s \in Seq(Frames), s # <<>>
    PROVE  /\ Head(s) \in Frames /\ Tail(s) \in Seq(Frames)
           /\ Range(s) = {Head(s)} \cup Range(Tail(s))
           /\ Increasing(s) => Increasing(Tail(s)) /\ Before({Head(s)}, Range(Tail(s)))
<1>1. /\ Head(s) \in Frames /\ Tail(s) \in Seq(Frames) /\ Len(Tail(s)) = Len(s) - 1
      /\ \A i \in 1 .. Len(Tail(s)) : Tail(s)[i] = s[i + 1]
      /\ Len(s) \in Nat \ {0} /\ DOMAIN s = 1 .. Len(s) /\ DOMAIN Tail(s) = 1 .. Len(s) - 1
      /\ Head(s) = s[1]
  BY HeadTailProperties, LenProperties, EmptySeq
<1>2. Range(s) = {Head(s)} \cup Range(Tail(s))
  <2>1. ASSUME NEW i \in 2 .. Len(s) PROVE i - 1 \in 1 .. Len(s) - 1 /\ s[i] = Tail(s)[i - 1]
    BY <1>1
  <2>2. ASSUME NEW i \in 1 .. Len(s) - 1 PROVE i + 1 \in 1 .. Len(s) /\ s[i + 1] = Tail(s)[i]
    BY <1>1
  <2>3. Range(Tail(s)) \subseteq Range(s)
    BY <1>1, <2>2 DEF Range
  <2>4. Head(s) \in Range(s)
    BY <1>1 DEF Range
  <2>5. ASSUME NEW i \in 1 .. Len(s) PROVE s[i] \in {Head(s)} \cup Range(Tail(s))
    <3>1. CASE i = 1
      BY <1>1, <3>1
    <3>2. CASE i # 1
      <4>1. i \in 2 .. Len(s)
        BY <3>2
      <4>2. i - 1 \in DOMAIN Tail(s) /\ s[i] = Tail(s)[i - 1]
        BY <1>1, <2>1, <4>1
      <4>3. QED
        BY Zenon, <4>2 DEF Range
    <3>3. QED
      BY <3>1, <3>2
  <2>6. Range(s) \subseteq {Head(s)} \cup Range(Tail(s))
    <3>1. ASSUME NEW f \in Range(s) PROVE \E i \in 1 .. Len(s) : f = s[i]
      BY <1>1 DEF Range
    <3>2. QED
      BY <2>5, <3>1
  <2>7. QED
    BY <2>3, <2>4, <2>6
<1>3. ASSUME Increasing(s) PROVE Increasing(Tail(s)) /\ Before({Head(s)}, Range(Tail(s)))
  BY <1>1, <1>3 DEF Increasing, Before, Range
<1>4. QED
  BY <1>1, <1>2, <1>3

\* Queues of one frame and of none.
LEMMA SetSmall ==
    /\ <<>> \in Seq(Frames) /\ Range(<<>>) = {} /\ Increasing(<<>>)
    /\ \A e \in Frames : <<e>> \in Seq(Frames) /\ Range(<<e>>) = {e} /\ Increasing(<<e>>)
BY DEF Range, Increasing

\* What holds of the frames handed on: delivered D, being written W, queued P,
\* arriving A, and the ones an actor has yet to report failed, d; sn is the set
\* of reserved keys and n the number of frames sent.
Held(D, W, P, A, d) == D \cup W \cup P \cup A \cup UNION {d[a] : a \in Actors}

Flow(D, W, P, A, d, sn, n) ==
    /\ D \subseteq Frames /\ W \subseteq Frames /\ P \subseteq Frames /\ A \subseteq Frames
    /\ d \in [Actors -> SUBSET Frames]
    /\ Before(D, W \cup P \cup A) /\ Before(W, P \cup A) /\ Before(P, A)
    /\ \A f \in Held(D, W, P, A, d) : f.no <= n
    /\ \A a \in Actors : d[a] \cap (D \cup W \cup P \cup A) = {}
    /\ \A a, b \in Actors : a # b => d[a] \cap d[b] = {}
    /\ sn = {f.key : f \in Held(D, W, P, A, d)}
    /\ \A f, g \in Held(D, W, P, A, d) : f.key = g.key => f = g

\* A frame is accepted and its key reserved.
LEMMA Accept ==
    ASSUME NEW D, NEW W, NEW P, NEW d, NEW sn, NEW n \in Nat, Flow(D, W, P, {}, d, sn, n),
           NEW k \in Keys, k \notin sn
    PROVE  Flow(D, W, P, {[key |-> k, no |-> n + 1]}, d, sn \cup {k}, n + 1)
<1> DEFINE e == [key |-> k, no |-> n + 1]
           H == Held(D, W, P, {}, d)
<1>1. e \in Frames /\ e.key = k /\ e.no = n + 1
  BY DEF Frames
<1>2. Held(D, W, P, {e}, d) = H \cup {e} /\ H \subseteq Frames
  BY DEF Held, Flow
<1>3. \A f \in H : f.no <= n /\ f.key # k /\ f.no \in Nat
  BY <1>2 DEF Flow, Frames
<1>4. e \notin H
  BY <1>1, <1>3
<1> HIDE DEF e, H
<1>5. /\ Before(D, W \cup P \cup {e}) /\ Before(W, P \cup {e}) /\ Before(P, {e})
  BY <1>1, <1>2, <1>3 DEF Flow, Before, H, Held
<1>6. \A f \in H \cup {e} : f.no <= n + 1
  BY <1>1, <1>3
<1>7. \A a \in Actors : d[a] \cap (D \cup W \cup P \cup {e}) = {}
  BY <1>4 DEF Flow, H, Held
<1>8. sn \cup {k} = {f.key : f \in H \cup {e}}
  BY <1>1 DEF Flow, H
<1>9. \A f, g \in H \cup {e} : f.key = g.key => f = g
  BY <1>1, <1>3 DEF Flow, H
<1>10. Flow(D, W, P, {e}, d, sn \cup {k}, n + 1)
  BY <1>1, <1>2, <1>5, <1>6, <1>7, <1>8, <1>9 DEF Flow
<1>11. QED
  BY <1>10 DEF e

\* More frames are sent, and dropped as replays.
LEMMA Replay ==
    ASSUME NEW D, NEW W, NEW P, NEW A, NEW d, NEW sn, NEW n \in Nat,
           Flow(D, W, P, A, d, sn, n)
    PROVE  Flow(D, W, P, A, d, sn, n + 1)
<1>1. \A f \in Held(D, W, P, A, d) : f \in Frames /\ f.no \in Nat
  BY DEF Held, Flow, Frames
<1>2. \A f \in Held(D, W, P, A, d) : f.no <= n + 1
  BY <1>1 DEF Flow
<1>3. QED
  BY <1>2 DEF Flow

\* The arriving frame joins the queue.
LEMMA Enqueue ==
    ASSUME NEW D, NEW W, NEW P, NEW e, NEW d, NEW sn, NEW n \in Nat,
           Flow(D, W, P, {e}, d, sn, n)
    PROVE  Flow(D, W, P \cup {e}, {}, d, sn, n)
<1>1. Held(D, W, P \cup {e}, {}, d) = Held(D, W, P, {e}, d)
  BY DEF Held
<1>2. W \cup (P \cup {e}) \cup {} = W \cup P \cup {e} /\ (P \cup {e}) \cup {} = P \cup {e}
      /\ D \cup W \cup (P \cup {e}) \cup {} = D \cup W \cup P \cup {e}
  OBVIOUS
<1>3. Before(P \cup {e}, {})
  BY DEF Before
<1>4. QED
  BY Zenon, <1>1, <1>2, <1>3 DEF Flow

\* The first of the queue is popped.
LEMMA Pop ==
    ASSUME NEW D, NEW Q, NEW A, NEW e, NEW d, NEW sn, NEW n \in Nat,
           Flow(D, {}, {e} \cup Q, A, d, sn, n), Before({e}, Q)
    PROVE  Flow(D, {e}, Q, A, d, sn, n)
<1>1. Held(D, {e}, Q, A, d) = Held(D, {}, {e} \cup Q, A, d)
  BY DEF Held
<1>2. D \cup {e} \cup Q \cup A = D \cup {} \cup ({e} \cup Q) \cup A
      /\ {e} \cup Q \cup A = {} \cup ({e} \cup Q) \cup A
  OBVIOUS
<1>3. Before({e}, Q \cup A) /\ Before(Q, A)
  BY DEF Flow, Before
<1>4. QED
  BY Zenon, <1>1, <1>2, <1>3 DEF Flow

\* The popped frame is written to the runtime.
LEMMA Deliver ==
    ASSUME NEW D, NEW P, NEW A, NEW e, NEW d, NEW sn, NEW n \in Nat,
           Flow(D, {e}, P, A, d, sn, n)
    PROVE  Flow(D \cup {e}, {}, P, A, d, sn, n)
<1>1. Held(D \cup {e}, {}, P, A, d) = Held(D, {e}, P, A, d)
  BY DEF Held
<1>2. (D \cup {e}) \cup {} \cup P \cup A = D \cup {e} \cup P \cup A
      /\ {} \cup P \cup A = P \cup A
  OBVIOUS
<1>3. Before(D \cup {e}, P \cup A) /\ Before({}, P \cup A)
  BY DEF Flow, Before
<1>4. QED
  BY Zenon, <1>1, <1>2, <1>3 DEF Flow

\* An actor takes frames that are not delivered, to report them failed.
LEMMA Doom ==
    ASSUME NEW D, NEW W, NEW P, NEW A, NEW S, NEW d, NEW sn, NEW n \in Nat,
           Flow(D, W, P, A, d, sn, n), NEW a \in Actors, d[a] = {},
           S \subseteq W \cup P \cup A, S \cap D = {}
    PROVE  Flow(D, W \ S, P \ S, A \ S, [d EXCEPT ![a] = S], sn, n)
<1> DEFINE c == [d EXCEPT ![a] = S]
<1>1. /\ c \in [Actors -> SUBSET Frames] /\ c[a] = S
      /\ \A b \in Actors : b # a => c[b] = d[b]
  BY DEF Flow
<1> HIDE DEF c
<1>2. Held(D, W \ S, P \ S, A \ S, c) = Held(D, W, P, A, d)
  <2>1. UNION {c[b] : b \in Actors} = S \cup UNION {d[b] : b \in Actors}
    BY <1>1
  <2>2. QED
    BY <2>1 DEF Held
<1>3. Before(D, (W \ S) \cup (P \ S) \cup (A \ S)) /\ Before(W \ S, (P \ S) \cup (A \ S))
      /\ Before(P \ S, A \ S)
  BY DEF Flow, Before
<1>4. ASSUME NEW b \in Actors PROVE c[b] \cap (D \cup (W \ S) \cup (P \ S) \cup (A \ S)) = {}
  BY <1>1 DEF Flow
<1>5. ASSUME NEW b \in Actors, NEW x \in Actors, b # x PROVE c[b] \cap c[x] = {}
  BY <1>1, <1>5 DEF Flow
<1>6. Flow(D, W \ S, P \ S, A \ S, c, sn, n)
  <2>1. /\ D \subseteq Frames /\ W \ S \subseteq Frames
        /\ P \ S \subseteq Frames /\ A \ S \subseteq Frames
    BY DEF Flow
  <2>2. QED
    BY Zenon, <1>1, <1>2, <1>3, <1>4, <1>5, <2>1 DEF Flow
<1>7. QED
  BY <1>6 DEF c

\* The key of a failed frame is freed.
LEMMA Forget ==
    ASSUME NEW D, NEW W, NEW P, NEW A, NEW d, NEW sn, NEW n \in Nat, NEW e, NEW Q,
           Flow(D, W, P, A, d, sn, n), NEW a \in Actors, d[a] = {e} \cup Q, e \notin Q
    PROVE  Flow(D, W, P, A, [d EXCEPT ![a] = Q], sn \ {e.key}, n)
<1> DEFINE c == [d EXCEPT ![a] = Q]
           H == Held(D, W, P, A, d)
<1>1. /\ c \in [Actors -> SUBSET Frames] /\ c[a] = Q
      /\ \A b \in Actors : b # a => c[b] = d[b]
  BY DEF Flow
<1> HIDE DEF c
<1>2. e \in H /\ H = D \cup W \cup P \cup A \cup UNION {d[b] : b \in Actors}
  BY DEF Held
<1> HIDE DEF H
<1>3. \A b \in Actors : e \notin c[b]
  BY <1>1 DEF Flow
<1>4. e \notin D \cup W \cup P \cup A
  BY DEF Flow
<1>5. Held(D, W, P, A, c) = H \ {e}
  <2>1. ASSUME NEW b \in Actors PROVE c[b] = d[b] \ {e}
    <3>1. CASE b = a
      BY <1>1, <3>1
    <3>2. CASE b # a
      BY <1>1, <1>3, <3>2
    <3>3. QED
      BY <3>1, <3>2
  <2>2. ASSUME NEW f PROVE f \in Held(D, W, P, A, c) <=> f \in H \ {e}
    BY <1>2, <1>4, <2>1 DEF Held
  <2>3. QED
    BY <2>2
<1>6. sn \ {e.key} = {f.key : f \in H \ {e}}
  BY <1>2 DEF Flow, H
<1>7. \A b \in Actors : c[b] \cap (D \cup W \cup P \cup A) = {}
  BY <1>1 DEF Flow
<1>8. ASSUME NEW b \in Actors, NEW x \in Actors, b # x PROVE c[b] \cap c[x] = {}
  BY <1>1, <1>8 DEF Flow
<1>9. Flow(D, W, P, A, c, sn \ {e.key}, n)
  BY <1>1, <1>5, <1>6, <1>7, <1>8 DEF Flow, H
<1>10. QED
  BY <1>9 DEF c

-----------------------------------------------------------------------------
\* The stages of a frame in the state.
Written == {writing[a].frame : a \in {b \in Actors : writing[b] # Idle}}
Arriving == IF disp = "enqueue" THEN {incoming} ELSE {}
Doomed ==
    [a \in Actors |-> IF unreserved[a] THEN Range(Tail(failing[a])) ELSE Range(failing[a])]

FramesTyped ==
    /\ pending \in Seq(Frames) /\ delivered \in Seq(Frames)
    /\ failing \in [Actors -> Seq(Frames)] /\ unreserved \in [Actors -> BOOLEAN]
    /\ writing \in [Actors -> [frame : Frames \cup {NoFrame}, to : Nat]]
    /\ frames \in Nat

ControlTyped ==
    /\ cur \in 0 .. MaxRuns /\ run \in [Runs -> RunStates] /\ drainMu \in Actors \cup {Free}

\* Who may hold a frame: the holder of drainMu is a drainer, it alone writes, and
\* frames are reported failed by the holder, by the dispatch loop in its report or
\* by a run that has ended.
Hands ==
    /\ \A a \in Actors :
        /\ unreserved[a] => failing[a] # <<>>
        /\ writing[a] # Idle => drainMu = a /\ failing[a] = <<>>
        /\ drainMu = a => Draining(a)
    /\ failing[0] # <<>> => disp = "report" \/ drainMu = 0
    /\ \A r \in Runs : failing[r] # <<>> => run[r] = "failing" \/ drainMu = r
    /\ \A r \in Runs : r > cur => run[r] = "none"

Orders ==
    /\ Increasing(delivered) /\ Increasing(pending)
    /\ \A a \in Actors : Increasing(failing[a])

Flows == Flow(Range(delivered), Written, Range(pending), Arriving, Doomed, seen, frames)

\* The inductive invariant: the frames are in the hands they should be in, in
\* order, and their keys are exactly the reserved ones.
InputsInv == FramesTyped /\ ControlTyped /\ Hands /\ Orders /\ Flows

LEMMA Ids ==
    /\ MaxRuns \in Nat \ {0} /\ Runs = 1 .. MaxRuns
    /\ 0 \in Actors /\ Runs \subseteq Actors /\ 0 \notin Runs /\ Free \notin Actors
    /\ \A a \in Actors : a = 0 \/ a \in Runs
BY InputsAssumption DEF Runs, Actors, Free

LEMMA InitInputs == Init => InputsInv
<1> SUFFICES ASSUME Init PROVE InputsInv
  OBVIOUS
<1>1. Idle \in [frame : Frames \cup {NoFrame}, to : Nat]
  BY DEF Idle
<1>2. FramesTyped
  BY <1>1, SetSmall DEF Init, FramesTyped
<1>3. ControlTyped /\ Hands
  BY Ids DEF Init, ControlTyped, Hands, RunStates, Runs, Draining
<1>4. Orders
  BY SetSmall DEF Init, Orders
<1>5. Flows
  <2>1. Range(delivered) = {} /\ Range(pending) = {} /\ Written = {} /\ Arriving = {}
    BY SetSmall DEF Init, Written, Arriving
  <2>2. Doomed = [a \in Actors |-> {}]
    BY SetSmall DEF Init, Doomed
  <2>3. Held({}, {}, {}, {}, [a \in Actors |-> {}]) = {}
    BY DEF Held
  <2>4. Flow({}, {}, {}, {}, [a \in Actors |-> {}], {}, 0)
    BY Zenon, <2>3 DEF Flow, Before
  <2>5. QED
    BY Zenon, <2>1, <2>2, <2>4 DEF Init, Flows
<1>6. QED
  BY <1>2, <1>3, <1>4, <1>5 DEF InputsInv

\* A step that moves no frame.
LEMMA Quiet ==
    ASSUME InputsInv, Arriving' = Arriving,
           UNCHANGED <<delivered, writing, pending, failing, unreserved, seen, frames>>
    PROVE  FramesTyped' /\ Orders' /\ Flows'
<1>1. FramesTyped' /\ Orders'
  BY DEF InputsInv, FramesTyped, Orders
<1>2. Written' = Written /\ Doomed' = Doomed
  BY DEF Written, Doomed
<1>3. QED
  BY <1>1, <1>2 DEF InputsInv, Flows

\* startRuntime hands a new run nothing.
LEMMA StartHands ==
    ASSUME InputsInv, NEW s, startRuntime(s), UNCHANGED <<drainMu, writing, failing, unreserved>>,
           (disp = "drain") = (disp' = "drain"), disp = "report" => disp' = "report"
    PROVE  ControlTyped' /\ Hands'
<1>1. CASE UNCHANGED <<cur, run>>
  BY <1>1, Ids DEF InputsInv, ControlTyped, Hands, Draining
<1>2. CASE cur < MaxRuns /\ cur' = cur + 1 /\ run' = [run EXCEPT ![cur + 1] = "start"]
  <2>1. cur + 1 \in Runs /\ cur' \in 0 .. MaxRuns /\ run[cur + 1] = "none"
    BY <1>2, Ids DEF InputsInv, ControlTyped, Hands
  <2>2. /\ run' \in [Runs -> RunStates]
        /\ \A r \in Runs : r # cur + 1 => run'[r] = run[r]
    BY <1>2, <2>1 DEF InputsInv, ControlTyped, RunStates
  <2>3. failing[cur + 1] = <<>> /\ drainMu # cur + 1
    BY <2>1, Ids DEF InputsInv, Hands, Draining
  <2>4. \A a \in Actors : drainMu = a => Draining(a)'
    BY <2>2, <2>3, Ids DEF InputsInv, Hands, Draining
  <2>5. \A r \in Runs : r > cur' => run'[r] = "none"
    BY <1>2, <2>2, Ids DEF InputsInv, Hands, ControlTyped
  <2>6. \A r \in Runs : failing[r] # <<>> => run'[r] = "failing" \/ drainMu = r
    BY <2>2, <2>3 DEF InputsInv, Hands
  <2>7. QED
    BY <2>1, <2>2, <2>4, <2>5, <2>6 DEF InputsInv, Hands, ControlTyped
<1>3. QED
  BY <1>1, <1>2 DEF startRuntime

\* The dispatch loop goes on without a frame in hand, and run r of a goroutine
\* that neither drains nor reports goes on.
LEMMA LoopHands ==
    ASSUME InputsInv, UNCHANGED <<drainMu, writing, failing, unreserved, cur, run>>,
           (disp = "drain") => (disp' = "drain"),
           disp = "report" => disp' = "report" \/ failing[0] = <<>>
    PROVE  ControlTyped' /\ Hands'
BY Ids DEF InputsInv, ControlTyped, Hands, Draining

LEMMA RunHands ==
    ASSUME InputsInv, UNCHANGED <<drainMu, writing, failing, unreserved, cur, disp>>,
           NEW r \in Runs, NEW s \in RunStates, run' = [run EXCEPT ![r] = s],
           run[r] \notin {"drain", "none"}, run[r] = "failing" => failing[r] = <<>>
    PROVE  ControlTyped' /\ Hands'
<1>1. /\ run' \in [Runs -> RunStates]
      /\ \A q \in Runs : q # r => run'[q] = run[q]
  BY DEF InputsInv, ControlTyped
<1>2. drainMu # r /\ failing[r] = <<>> /\ ~(r > cur)
  BY Ids DEF InputsInv, Hands, Draining
<1>3. \A a \in Actors : drainMu = a => Draining(a)'
  BY <1>1, <1>2, Ids DEF InputsInv, Hands, Draining
<1>4. \A q \in Runs : failing[q] # <<>> => run'[q] = "failing" \/ drainMu = q
  BY <1>1, <1>2 DEF InputsInv, Hands
<1>5. \A q \in Runs : q > cur => run'[q] = "none"
  BY <1>1, <1>2 DEF InputsInv, Hands
<1>6. QED
  BY <1>1, <1>3, <1>4, <1>5 DEF InputsInv, ControlTyped, Hands

\* The steps that move no frame: of the loop, of the runs, and of a drainer that
\* takes or leaves drainMu.
LEMMA LoopSteps ==
    ASSUME InputsInv,
           \/ reported \/ ack \/ restartWaited \/ reconnect \/ startFrame \/ restartRuntime
           \/ deleteSession \/ stopAll \/ provisionSession
    PROVE  InputsInv'
<1>1. CASE reported \/ ack \/ reconnect \/ restartRuntime \/ deleteSession \/ stopAll
  <2>1. /\ Arriving' = Arriving
        /\ UNCHANGED <<delivered, writing, pending, failing, unreserved, seen, frames>>
    BY <1>1 DEF reported, ack, reconnect, restartRuntime, deleteSession, stopAll, Arriving,
                inputVars, bounds
  <2>2. /\ UNCHANGED <<drainMu, writing, failing, unreserved, cur, run>>
        /\ (disp = "drain") => (disp' = "drain")
        /\ disp = "report" => disp' = "report" \/ failing[0] = <<>>
    BY <1>1 DEF reported, ack, reconnect, restartRuntime, deleteSession, stopAll,
                inputVars, runVars
  <2>3. QED
    BY <2>1, <2>2, Quiet, LoopHands DEF InputsInv
<1>2. CASE restartWaited \/ startFrame \/ provisionSession
  <2>1. /\ Arriving' = Arriving
        /\ UNCHANGED <<delivered, writing, pending, failing, unreserved, seen, frames, drainMu>>
    BY <1>2 DEF restartWaited, startFrame, provisionSession, Arriving, inputVars, bounds, loopVars
  <2>2. FramesTyped' /\ Orders' /\ Flows'
    BY <2>1, Quiet
  <2>3. /\ (disp = "drain") = (disp' = "drain")
        /\ disp = "report" => disp' = "report"
    BY <1>2 DEF restartWaited, startFrame, provisionSession, loopVars
  <2>4. CASE UNCHANGED <<cur, run>>
    <3>1. ControlTyped' /\ Hands'
      BY <2>1, <2>3, <2>4, LoopHands
    <3>2. QED
      BY <2>2, <3>1 DEF InputsInv
  <2>5. CASE \E s : startRuntime(s)
    <3>1. ControlTyped' /\ Hands'
      BY <2>1, <2>3, <2>5, StartHands
    <3>2. QED
      BY <2>2, <3>1 DEF InputsInv
  <2>6. UNCHANGED <<cur, run>> \/ \E s : startRuntime(s)
    <3>1. CASE restartWaited
      BY <3>1 DEF restartWaited
    <3>2. CASE startFrame
      BY <3>2 DEF startFrame
    <3>3. CASE provisionSession
      BY <3>3 DEF provisionSession
    <3>4. QED
      BY <1>2, <3>1, <3>2, <3>3
  <2>7. QED
    BY <2>4, <2>5, <2>6
<1>3. QED
  BY <1>1, <1>2

LEMMA RunSteps ==
    ASSUME InputsInv, NEW r \in Runs,
           spawn(r) \/ exit(r) \/ wait(r) \/ drainQueue(r) \/ markStopped(r)
    PROVE  InputsInv'
<1>1. /\ Arriving' = Arriving
      /\ UNCHANGED <<delivered, writing, pending, failing, unreserved, seen, frames>>
  BY Zenon DEF spawn, exit, wait, drainQueue, markStopped, Arriving, inputVars, bounds, loopVars
<1>2. UNCHANGED <<drainMu, writing, failing, unreserved, cur, disp>>
  BY DEF spawn, exit, wait, drainQueue, markStopped, inputVars, loopVars
<1>3. FramesTyped' /\ Orders' /\ Flows'
  BY <1>1, Quiet
<1>4. CASE exit(r)
  <2>1. UNCHANGED run
    BY <1>4 DEF exit
  <2>2. QED
    BY <1>2, <1>3, <2>1, LoopHands DEF InputsInv
<1>5. CASE spawn(r) \/ wait(r) \/ drainQueue(r) \/ markStopped(r)
  <2>1. \E s \in RunStates : run' = [run EXCEPT ![r] = s]
    BY Zenon, <1>5 DEF spawn, wait, drainQueue, markStopped, RunStates
  <2>2. run[r] \notin {"drain", "none"} /\ (run[r] = "failing" => failing[r] = <<>>)
    BY <1>5 DEF spawn, wait, drainQueue, markStopped
  <2>3. QED
    BY Zenon, <1>2, <1>3, <2>1, <2>2, RunHands DEF InputsInv
<1>6. QED
  BY <1>4, <1>5

-----------------------------------------------------------------------------
\* The steps that move frames.

\* No frame is at two stages.
LEMMA Apart ==
    ASSUME NEW D, NEW W, NEW P, NEW A, NEW d, NEW sn, NEW n, Flow(D, W, P, A, d, sn, n)
    PROVE  D \cap (W \cup P \cup A) = {} /\ W \cap (P \cup A) = {} /\ P \cap A = {}
<1>1. \A f \in Frames : ~(f.no < f.no)
  BY DEF Frames
<1>2. QED
  BY <1>1 DEF Flow, Before

\* An actor with nothing to report is given the frames s to report.
LEMMA DoomedTake ==
    ASSUME FramesTyped, Hands, NEW a \in Actors, failing[a] = <<>>, NEW s \in Seq(Frames),
           failing' = [failing EXCEPT ![a] = s], unreserved' = unreserved, Increasing(s),
           Orders
    PROVE  /\ Doomed[a] = {} /\ Doomed' = [Doomed EXCEPT ![a] = Range(s)]
           /\ failing' \in [Actors -> Seq(Frames)]
           /\ \A b \in Actors : Increasing(failing'[b])
           /\ failing'[a] = s /\ \A b \in Actors : b # a => failing'[b] = failing[b]
<1>1. unreserved[a] = FALSE
  BY DEF Hands, FramesTyped
<1>2. /\ failing' \in [Actors -> Seq(Frames)] /\ failing'[a] = s
      /\ \A b \in Actors : b # a => failing'[b] = failing[b]
  BY DEF FramesTyped
<1>3. Doomed[a] = {}
  BY <1>1, SetSmall DEF Doomed
<1>4. Doomed' = [Doomed EXCEPT ![a] = Range(s)]
  BY Zenon, <1>1, <1>2 DEF Doomed
<1>5. QED
  BY <1>2, <1>3, <1>4 DEF Orders

\* The whole queue is taken, to be reported failed by a.
LEMMA TakeAll ==
    ASSUME InputsInv, NEW a \in Actors, failing[a] = <<>>,
           failing' = [failing EXCEPT ![a] = pending], pending' = <<>>, Arriving' = Arriving,
           UNCHANGED <<delivered, writing, unreserved, seen, frames>>
    PROVE  /\ FramesTyped' /\ Orders' /\ Flows'
           /\ \A b \in Actors : b # a => failing'[b] = failing[b]
<1>1. /\ Doomed[a] = {} /\ Doomed' = [Doomed EXCEPT ![a] = Range(pending)]
      /\ failing' \in [Actors -> Seq(Frames)]
      /\ \A b \in Actors : Increasing(failing'[b])
      /\ \A b \in Actors : b # a => failing'[b] = failing[b]
  BY Zenon, DoomedTake DEF InputsInv, FramesTyped, Orders
<1>2. FramesTyped' /\ Orders'
  BY <1>1, SetSmall DEF InputsInv, FramesTyped, Orders
<1>3. Written' = Written /\ Range(pending') = {}
  BY SetSmall DEF Written
<1> DEFINE P == Range(pending)
           D == Range(delivered)
<1>4. Flow(D, Written, P, Arriving, Doomed, seen, frames) /\ frames \in Nat
  BY DEF InputsInv, Flows, FramesTyped
<1> HIDE DEF P, D
<1>5. /\ P \ P = {} /\ Written \ P = Written /\ Arriving \ P = Arriving
      /\ P \subseteq Written \cup P \cup Arriving /\ P \cap D = {}
  BY <1>4, Apart
<1>6. Flow(D, Written \ P, P \ P, Arriving \ P, [Doomed EXCEPT ![a] = P], seen, frames)
  BY Zenon, <1>1, <1>4, <1>5, Doom
<1>7. Flow(D, Written, {}, Arriving, [Doomed EXCEPT ![a] = P], seen, frames)
  BY Zenon, <1>5, <1>6
<1>8. Flows'
  BY Zenon, <1>1, <1>3, <1>7 DEF Flows, P, D
<1>9. QED
  BY <1>1, <1>2, <1>8

LEMMA TakeSteps ==
    ASSUME InputsInv,
           deleteWaited \/ \E a \in Actors : drainClosed(a) \/ (a \in Runs /\ failPendingInputs(a))
    PROVE  InputsInv'
<1>1. CASE deleteWaited
  <2>1. failing[0] = <<>>
    BY <1>1, Ids DEF deleteWaited, InputsInv, Hands, Draining
  <2>2. /\ FramesTyped' /\ Orders' /\ Flows'
        /\ \A b \in Actors : b # 0 => failing'[b] = failing[b]
    <3>1. /\ failing' = [failing EXCEPT ![0] = pending] /\ pending' = <<>> /\ Arriving' = Arriving
          /\ UNCHANGED <<delivered, writing, unreserved, seen, frames>>
      BY <1>1 DEF deleteWaited, Arriving, bounds
    <3>2. QED
      BY Zenon, <2>1, <3>1, TakeAll, Ids
  <2>3. /\ UNCHANGED <<drainMu, writing, unreserved, cur, run>>
        /\ disp = "deleteWait" /\ disp' = "report"
    BY <1>1 DEF deleteWaited, runVars
  <2>4. drainMu # 0 /\ writing[0] = Idle /\ unreserved[0] = FALSE
    BY <2>1, <2>3, Ids DEF InputsInv, Hands, Draining, FramesTyped
  <2>5. ControlTyped' /\ Hands'
    BY <2>2, <2>3, <2>4, Ids DEF InputsInv, ControlTyped, Hands, Draining
  <2>6. QED
    BY <2>2, <2>5 DEF InputsInv
<1>2. ASSUME NEW a \in Actors, drainClosed(a) PROVE InputsInv'
  <2>1. failing[a] = <<>> /\ drainMu = a /\ writing[a] = Idle
    BY <1>2 DEF drainClosed, AtLoop
  <2>2. /\ FramesTyped' /\ Orders' /\ Flows'
        /\ \A b \in Actors : b # a => failing'[b] = failing[b]
    <3>1. /\ failing' = [failing EXCEPT ![a] = pending] /\ pending' = <<>> /\ Arriving' = Arriving
          /\ UNCHANGED <<delivered, writing, unreserved, seen, frames>>
      BY <1>2 DEF drainClosed, Arriving, bounds, loopVars
    <3>2. QED
      BY Zenon, <2>1, <3>1, TakeAll
  <2>3. UNCHANGED <<drainMu, writing, unreserved, cur, run, disp>>
    BY <1>2 DEF drainClosed, runVars, loopVars
  <2>4. unreserved[a] = FALSE
    BY <2>1 DEF InputsInv, Hands, FramesTyped
  <2>5. ControlTyped' /\ Hands'
    BY <2>1, <2>2, <2>3, <2>4, Ids DEF InputsInv, ControlTyped, Hands, Draining
  <2>6. QED
    BY <2>2, <2>5 DEF InputsInv
<1>3. ASSUME NEW r \in Runs, failPendingInputs(r) PROVE InputsInv'
  <2>1. drainMu # r /\ failing[r] = <<>> /\ writing[r] = Idle /\ unreserved[r] = FALSE /\ ~(r > cur)
    BY <1>3, Ids DEF failPendingInputs, InputsInv, Hands, Draining, FramesTyped
  <2>2. /\ FramesTyped' /\ Orders' /\ Flows'
        /\ \A b \in Actors : b # r => failing'[b] = failing[b]
    <3>1. /\ failing' = [failing EXCEPT ![r] = pending] /\ pending' = <<>> /\ Arriving' = Arriving
          /\ UNCHANGED <<delivered, writing, unreserved, seen, frames>>
      BY <1>3 DEF failPendingInputs, Arriving, bounds, loopVars
    <3>2. QED
      BY Zenon, <2>1, <3>1, TakeAll, Ids
  <2>3. /\ UNCHANGED <<drainMu, writing, unreserved, cur, disp>>
        /\ run' \in [Runs -> RunStates] /\ run'[r] = "failing"
        /\ \A q \in Runs : q # r => run'[q] = run[q]
    BY <1>3 DEF failPendingInputs, loopVars, InputsInv, ControlTyped, RunStates
  <2>4. \A b \in Actors : drainMu = b => Draining(b)'
    BY <2>1, <2>3, Ids DEF InputsInv, Hands, Draining
  <2>5. ControlTyped' /\ Hands'
    BY <2>1, <2>2, <2>3, <2>4, Ids DEF InputsInv, ControlTyped, Hands
  <2>6. QED
    BY <2>2, <2>5 DEF InputsInv
<1>4. QED
  BY <1>1, <1>2, <1>3

\* deliverInput: a frame is accepted or dropped, and queued or refused.
LEMMA ReceiveStep ==
    ASSUME InputsInv, NEW k \in Keys, receive(k)
    PROVE  InputsInv'
<1>1. /\ disp = "idle" /\ frames \in Nat /\ frames' = frames + 1
      /\ UNCHANGED <<delivered, writing, pending, failing, unreserved, drainMu, cur, run>>
  BY DEF receive, InputsInv, FramesTyped, runVars
<1>2. FramesTyped' /\ Orders' /\ Written' = Written /\ Doomed' = Doomed /\ Arriving = {}
  BY <1>1 DEF InputsInv, FramesTyped, Orders, Written, Doomed, Arriving
<1>3. ControlTyped' /\ Hands'
  <2>1. (disp = "drain") => (disp' = "drain")
    BY <1>1
  <2>2. disp = "report" => disp' = "report" \/ failing[0] = <<>>
    BY <1>1
  <2>3. QED
    BY <1>1, <2>1, <2>2, LoopHands
<1>4. Flow(Range(delivered), Written, Range(pending), {}, Doomed, seen, frames)
  BY <1>2 DEF InputsInv, Flows
<1>5. CASE k \in seen /\ UNCHANGED <<disp, incoming, seen>>
  <2>1. Arriving' = {}
    BY <1>1, <1>5 DEF Arriving
  <2>2. Flow(Range(delivered), Written, Range(pending), {}, Doomed, seen, frames + 1)
    BY <1>1, <1>4, Replay
  <2>3. Flows'
    BY <1>1, <1>2, <1>5, <2>1, <2>2 DEF Flows
  <2>4. QED
    BY <1>2, <1>3, <2>3 DEF InputsInv
<1>6. CASE /\ k \notin seen /\ seen' = seen \cup {k} /\ disp' = "enqueue"
           /\ incoming' = [key |-> k, no |-> frames + 1]
  <2>1. Arriving' = {[key |-> k, no |-> frames + 1]}
    BY <1>6 DEF Arriving
  <2>2. Flow(Range(delivered), Written, Range(pending), {[key |-> k, no |-> frames + 1]},
             Doomed, seen \cup {k}, frames + 1)
    BY <1>1, <1>4, <1>6, Accept
  <2>3. Flows'
    BY <1>1, <1>2, <1>6, <2>1, <2>2 DEF Flows
  <2>4. QED
    BY <1>2, <1>3, <2>3 DEF InputsInv
<1>7. QED
  BY <1>5, <1>6 DEF receive

LEMMA EnqueueStep ==
    ASSUME InputsInv, enqueue
    PROVE  InputsInv'
<1> DEFINE D == Range(delivered)
           P == Range(pending)
<1>1. /\ disp = "enqueue" /\ Arriving = {incoming}
      /\ UNCHANGED <<delivered, writing, unreserved, drainMu, cur, run, seen, frames>>
  BY DEF enqueue, runVars, bounds, Arriving
<1>2. Flow(D, Written, P, {incoming}, Doomed, seen, frames) /\ frames \in Nat
  BY <1>1 DEF InputsInv, Flows, FramesTyped
<1>3. incoming \in Frames /\ Before(P, {incoming}) /\ Written' = Written
  <2>1. Written' = Written
    BY <1>1 DEF Written
  <2>2. QED
    BY <1>2, <2>1 DEF Flow
<1>4. drainMu # 0 /\ failing[0] = <<>> /\ unreserved[0] = FALSE /\ writing[0] = Idle
  BY <1>1, Ids DEF InputsInv, Hands, Draining, FramesTyped
<1>5. CASE failing' = [failing EXCEPT ![0] = <<incoming>>] /\ disp' = "report" /\ UNCHANGED pending
  <2>1. /\ Doomed[0] = {} /\ Doomed' = [Doomed EXCEPT ![0] = {incoming}]
        /\ failing' \in [Actors -> Seq(Frames)]
        /\ \A b \in Actors : Increasing(failing'[b])
        /\ \A b \in Actors : b # 0 => failing'[b] = failing[b]
    <3> DEFINE s == <<incoming>>
    <3>1. s \in Seq(Frames) /\ Range(s) = {incoming} /\ Increasing(s)
      BY <1>3, SetSmall
    <3>2. failing' = [failing EXCEPT ![0] = s] /\ unreserved' = unreserved
      BY <1>1, <1>5
    <3> HIDE DEF s
    <3>3. FramesTyped /\ Hands /\ Orders /\ 0 \in Actors
      BY Ids DEF InputsInv
    <3>4. /\ Doomed[0] = {} /\ Doomed' = [Doomed EXCEPT ![0] = Range(s)]
          /\ failing' \in [Actors -> Seq(Frames)]
          /\ \A b \in Actors : Increasing(failing'[b])
          /\ \A b \in Actors : b # 0 => failing'[b] = failing[b]
      BY Zenon, <1>4, <3>1, <3>2, <3>3, DoomedTake
    <3>5. QED
      BY <3>1, <3>4
  <2>2. FramesTyped' /\ Orders'
    BY Zenon, <1>1, <1>5, <2>1 DEF InputsInv, FramesTyped, Orders
  <2>3. /\ {incoming} \ {incoming} = {} /\ Written \ {incoming} = Written
        /\ P \ {incoming} = P /\ {incoming} \subseteq Written \cup P \cup {incoming}
        /\ {incoming} \cap D = {}
    BY <1>2, Apart
  <2>4. Flow(D, Written \ {incoming}, P \ {incoming}, {incoming} \ {incoming},
             [Doomed EXCEPT ![0] = {incoming}], seen, frames)
    BY Zenon, <1>2, <2>1, <2>3, Doom, Ids
  <2>5. Flow(D, Written, P, {}, [Doomed EXCEPT ![0] = {incoming}], seen, frames)
    BY Zenon, <2>3, <2>4
  <2>6. Arriving' = {}
    BY <1>5 DEF Arriving
  <2>7. Flows'
    BY <1>1, <1>3, <1>5, <2>1, <2>5, <2>6 DEF Flows
  <2>8. ControlTyped' /\ Hands'
    BY <1>1, <1>4, <1>5, <2>1, Ids DEF InputsInv, ControlTyped, Hands, Draining
  <2>9. QED
    BY <2>2, <2>7, <2>8 DEF InputsInv
<1>6. CASE pending' = Append(pending, incoming) /\ disp' = "ack" /\ UNCHANGED failing
  <2>1. /\ pending' \in Seq(Frames) /\ Range(pending') = P \cup {incoming} /\ Increasing(pending')
    BY <1>3, <1>6, SetAppend DEF InputsInv, FramesTyped, Orders
  <2>2. FramesTyped' /\ Orders'
    BY <1>1, <1>6, <2>1 DEF InputsInv, FramesTyped, Orders
  <2>3. Flow(D, Written, P \cup {incoming}, {}, Doomed, seen, frames)
    BY Zenon, <1>2, Enqueue
  <2>4. Arriving' = {} /\ Doomed' = Doomed
    BY <1>1, <1>6 DEF Arriving, Doomed
  <2>5. Flows'
    BY <1>1, <1>3, <2>1, <2>3, <2>4 DEF Flows
  <2>6. ControlTyped' /\ Hands'
    BY <1>1, <1>4, <1>6, LoopHands
  <2>7. QED
    BY <2>2, <2>5, <2>6 DEF InputsInv
<1>7. QED
  BY <1>5, <1>6 DEF enqueue

\* A drainer takes drainMu, or leaves it with nothing in hand.
LEMMA LockSteps ==
    ASSUME InputsInv, NEW a \in Actors, lockDrain(a) \/ drainReturn(a)
    PROVE  InputsInv'
<1>1. CASE lockDrain(a)
  <2>1. /\ Draining(a) /\ drainMu = Free /\ drainMu' = a /\ Arriving' = Arriving
        /\ UNCHANGED <<delivered, writing, pending, failing, unreserved, seen, frames>>
        /\ UNCHANGED <<cur, run, disp>>
    BY <1>1 DEF lockDrain, Arriving, runVars, loopVars, bounds
  <2>2. ControlTyped' /\ Hands'
    BY <2>1, Ids DEF InputsInv, ControlTyped, Hands, Draining
  <2>3. QED
    BY <2>1, <2>2, Quiet DEF InputsInv
<1>2. CASE drainReturn(a)
  <2>1. /\ drainMu = a /\ writing[a] = Idle /\ failing[a] = <<>> /\ drainMu' = Free
        /\ UNCHANGED <<delivered, writing, pending, failing, unreserved, seen, frames, cur>>
        /\ run' = [r \in Runs |-> IF r = a THEN "pump" ELSE run[r]]
        /\ disp' = IF a = 0 THEN "idle" ELSE disp
        /\ UNCHANGED incoming
    BY <1>2 DEF drainReturn, AtLoop, bounds
  <2>2. a = 0 => disp = "drain"
    BY Zenon, <2>1, Ids DEF InputsInv, Hands, Draining
  <2>3. Arriving' = Arriving
    BY <2>1, <2>2 DEF Arriving
  <2>4. \A r \in Runs : r = a => run[r] = "drain"
    BY Zenon, <2>1, Ids DEF InputsInv, Hands, Draining
  <2>5. run' \in [Runs -> RunStates] /\ \A r \in Runs : r # a => run'[r] = run[r]
    BY <2>1 DEF InputsInv, ControlTyped, RunStates
  <2>6. \A b \in Actors : writing[b] = Idle
    BY <2>1 DEF InputsInv, Hands
  <2>7. ControlTyped'
    BY <2>1, <2>5 DEF InputsInv, ControlTyped
  <2>8. Hands'
    BY <2>1, <2>2, <2>4, <2>5, <2>6, Ids DEF InputsInv, Hands, Draining
  <2>9. QED
    BY Zenon, <2>1, <2>3, <2>7, <2>8, Quiet DEF InputsInv
<1>3. QED
  BY <1>1, <1>2

LEMMA PopStep ==
    ASSUME InputsInv, NEW a \in Actors, drainPop(a)
    PROVE  InputsInv'
<1> DEFINE e == Head(pending)
           Q == Range(Tail(pending))
           D == Range(delivered)
<1>1. /\ drainMu = a /\ failing[a] = <<>> /\ pending # <<>> /\ pending' = Tail(pending)
      /\ writing' = [writing EXCEPT ![a] = [frame |-> e, to |-> cur]]
      /\ UNCHANGED <<delivered, failing, unreserved, seen, frames, drainMu, cur, run, disp>>
      /\ Arriving' = Arriving /\ \A b \in Actors : writing[b] = Idle
  BY DEF drainPop, AtLoop, runVars, loopVars, bounds, Arriving, InputsInv, Hands
<1>2. cur \in Nat \ {0}
  BY DEF drainPop, CurStream, InputsInv, ControlTyped
<1>3. /\ e \in Frames /\ Tail(pending) \in Seq(Frames) /\ Range(pending) = {e} \cup Q
      /\ Increasing(Tail(pending)) /\ Before({e}, Q)
  BY Zenon, <1>1, SetTail DEF InputsInv, FramesTyped, Orders
<1> HIDE DEF e, Q
<1>4. /\ writing' \in [Actors -> [frame : Frames \cup {NoFrame}, to : Nat]]
      /\ writing'[a].frame = e /\ writing'[a].to = cur
      /\ \A b \in Actors : b # a => writing'[b] = Idle
  BY <1>1, <1>2, <1>3 DEF InputsInv, FramesTyped
<1>5. writing'[a] # Idle
  BY <1>2, <1>4 DEF Idle
<1>6. FramesTyped' /\ Orders'
  BY <1>1, <1>3, <1>4 DEF InputsInv, FramesTyped, Orders
<1>7. Written = {} /\ Written' = {e} /\ Doomed' = Doomed
  BY <1>1, <1>4, <1>5 DEF Written, Doomed
<1>8. Flow(D, {}, {e} \cup Q, Arriving, Doomed, seen, frames) /\ frames \in Nat
  BY <1>3, <1>7 DEF InputsInv, Flows, FramesTyped
<1>9. Flow(D, {e}, Q, Arriving, Doomed, seen, frames)
  BY Zenon, <1>3, <1>8, Pop
<1>10. Flows'
  BY <1>1, <1>7, <1>9 DEF Flows, Q
<1>11. ControlTyped' /\ Hands'
  BY <1>1, <1>4, Ids DEF InputsInv, ControlTyped, Hands, Draining
<1>12. QED
  BY <1>6, <1>10, <1>11 DEF InputsInv

LEMMA DeliverStep ==
    ASSUME InputsInv, NEW a \in Actors, deliver(a)
    PROVE  InputsInv'
<1> DEFINE e == writing[a].frame
           D == Range(delivered)
           P == Range(pending)
<1>1. /\ writing[a] # Idle /\ writing' = [writing EXCEPT ![a] = Idle]
      /\ UNCHANGED <<pending, unreserved, seen, frames, drainMu, cur, run, disp>>
      /\ Arriving' = Arriving
  BY Zenon DEF deliver, runVars, loopVars, bounds, Arriving
<1>2. /\ drainMu = a /\ failing[a] = <<>> /\ unreserved[a] = FALSE
      /\ \A b \in Actors : b # a => writing[b] = Idle
  BY <1>1 DEF InputsInv, Hands, FramesTyped
<1>3. /\ writing' \in [Actors -> [frame : Frames \cup {NoFrame}, to : Nat]]
      /\ \A b \in Actors : writing'[b] = Idle
  BY <1>1, <1>2 DEF InputsInv, FramesTyped, Idle
<1>4. Written = {e} /\ Written' = {}
  BY <1>1, <1>2, <1>3 DEF Written
<1>5. Flow(D, {e}, P, Arriving, Doomed, seen, frames) /\ frames \in Nat
  BY <1>4 DEF InputsInv, Flows, FramesTyped
<1>6. e \in Frames /\ Before(D, {e})
  BY Zenon, <1>5 DEF Flow, Before
<1> HIDE DEF e
<1>7. CASE delivered' = Append(delivered, e) /\ UNCHANGED failing
  <2>1. delivered' \in Seq(Frames) /\ Range(delivered') = D \cup {e} /\ Increasing(delivered')
    BY <1>6, <1>7, SetAppend DEF InputsInv, FramesTyped, Orders
  <2>2. FramesTyped' /\ Orders'
    BY <1>1, <1>3, <1>7, <2>1 DEF InputsInv, FramesTyped, Orders
  <2>3. Flow(D \cup {e}, {}, P, Arriving, Doomed, seen, frames)
    BY <1>5, Deliver
  <2>4. Doomed' = Doomed
    BY <1>1, <1>7 DEF Doomed
  <2>5. Flows'
    BY <1>1, <1>4, <2>1, <2>3, <2>4 DEF Flows
  <2>6. ControlTyped' /\ Hands'
    BY <1>1, <1>3, <1>7, Ids DEF InputsInv, ControlTyped, Hands, Draining
  <2>7. QED
    BY <2>2, <2>5, <2>6 DEF InputsInv
<1>8. CASE failing' = [failing EXCEPT ![a] = <<e>>] /\ UNCHANGED delivered
  <2>1. /\ Doomed[a] = {} /\ Doomed' = [Doomed EXCEPT ![a] = {e}]
        /\ failing' \in [Actors -> Seq(Frames)]
        /\ \A b \in Actors : Increasing(failing'[b])
        /\ \A b \in Actors : b # a => failing'[b] = failing[b]
    <3> DEFINE s == <<e>>
    <3>1. s \in Seq(Frames) /\ Range(s) = {e} /\ Increasing(s)
      BY <1>6, SetSmall
    <3>2. failing' = [failing EXCEPT ![a] = s] /\ unreserved' = unreserved
      BY <1>1, <1>8
    <3> HIDE DEF s
    <3>3. FramesTyped /\ Hands /\ Orders
      BY DEF InputsInv
    <3>4. /\ Doomed[a] = {} /\ Doomed' = [Doomed EXCEPT ![a] = Range(s)]
          /\ failing' \in [Actors -> Seq(Frames)]
          /\ \A b \in Actors : Increasing(failing'[b])
          /\ \A b \in Actors : b # a => failing'[b] = failing[b]
      BY Zenon, <1>2, <3>1, <3>2, <3>3, DoomedTake
    <3>5. QED
      BY <3>1, <3>4
  <2>2. FramesTyped' /\ Orders'
    BY Zenon, <1>1, <1>3, <1>8, <2>1 DEF InputsInv, FramesTyped, Orders
  <2>3. /\ {e} \ {e} = {} /\ P \ {e} = P /\ Arriving \ {e} = Arriving
        /\ {e} \subseteq {e} \cup P \cup Arriving /\ {e} \cap D = {}
    BY <1>5, Apart
  <2>4. Flow(D, {e} \ {e}, P \ {e}, Arriving \ {e}, [Doomed EXCEPT ![a] = {e}], seen, frames)
    BY Zenon, <1>5, <2>1, <2>3, Doom
  <2>5. Flow(D, {}, P, Arriving, [Doomed EXCEPT ![a] = {e}], seen, frames)
    BY Zenon, <2>3, <2>4
  <2>6. Flows'
    BY <1>1, <1>4, <1>8, <2>1, <2>5 DEF Flows
  <2>7. ControlTyped' /\ Hands'
    BY Zenon, <1>1, <1>2, <1>3, <2>1, Ids DEF InputsInv, ControlTyped, Hands, Draining
  <2>8. QED
    BY <2>2, <2>6, <2>7 DEF InputsInv
<1>9. QED
  BY <1>7, <1>8 DEF deliver, e

\* reportInputFailure: the key is freed, then the failure is sent.
LEMMA ReportSteps ==
    ASSUME InputsInv, NEW a \in Actors, reportInputFailure(a)
    PROVE  InputsInv'
<1> DEFINE f == failing[a]
           e == Head(failing[a])
           Q == Range(Tail(failing[a]))
<1>1. f # <<>> /\ f \in Seq(Frames) /\ Increasing(f)
  BY DEF reportInputFailure, unreserve, emitFailed, InputsInv, Hands, FramesTyped, Orders
<1>2. /\ e \in Frames /\ Tail(f) \in Seq(Frames) /\ Range(f) = {e} \cup Q
      /\ Increasing(Tail(f)) /\ Before({e}, Q)
  BY Zenon, <1>1, SetTail
<1>3. e \notin Q
  <2>1. ~(e.no < e.no)
    BY <1>2 DEF Frames
  <2>2. QED
    BY <1>2, <2>1 DEF Before
<1>4. writing[a] = Idle
  BY <1>1 DEF InputsInv, Hands
<1>5. CASE unreserve(a)
  <2>1. /\ unreserved[a] = FALSE /\ seen' = seen \ {e.key}
        /\ unreserved' = [unreserved EXCEPT ![a] = TRUE]
        /\ UNCHANGED <<delivered, pending, writing, failing, frames, drainMu, cur, run, disp>>
        /\ Arriving' = Arriving
    BY <1>5 DEF unreserve, runVars, loopVars, bounds, Arriving, InputsInv, FramesTyped
  <2>2. /\ unreserved' \in [Actors -> BOOLEAN] /\ unreserved'[a] = TRUE
        /\ \A b \in Actors : b # a => unreserved'[b] = unreserved[b]
    BY <2>1 DEF InputsInv, FramesTyped
  <2>3. FramesTyped' /\ Orders' /\ Written' = Written
    BY <2>1, <2>2 DEF InputsInv, FramesTyped, Orders, Written
  <2>4. Doomed[a] = {e} \cup Q /\ Doomed' = [Doomed EXCEPT ![a] = Q]
    BY Zenon, <1>2, <2>1, <2>2 DEF Doomed
  <2>5. /\ Flow(Range(delivered), Written, Range(pending), Arriving, Doomed, seen, frames)
        /\ frames \in Nat
    BY DEF InputsInv, Flows, FramesTyped
  <2> HIDE DEF e, Q
  <2>6. Flow(Range(delivered), Written, Range(pending), Arriving, [Doomed EXCEPT ![a] = Q],
             seen \ {e.key}, frames)
    BY Zenon, <1>3, <2>4, <2>5, Forget
  <2>7. Flows'
    BY <2>1, <2>3, <2>4, <2>6 DEF Flows
  <2>8. ControlTyped' /\ Hands'
    BY Zenon, <1>1, <2>1, <2>2, Ids DEF InputsInv, ControlTyped, Hands, Draining
  <2>9. QED
    BY <2>3, <2>7, <2>8 DEF InputsInv
<1>6. CASE emitFailed(a)
  <2>1. /\ unreserved[a] = TRUE /\ failing' = [failing EXCEPT ![a] = Tail(f)]
        /\ unreserved' = [unreserved EXCEPT ![a] = FALSE]
        /\ UNCHANGED <<delivered, pending, writing, seen, frames, drainMu, cur, run, disp>>
        /\ Arriving' = Arriving
    BY <1>6 DEF emitFailed, runVars, loopVars, bounds, Arriving, InputsInv, FramesTyped
  <2>2. /\ unreserved' \in [Actors -> BOOLEAN] /\ unreserved'[a] = FALSE
        /\ \A b \in Actors : b # a => unreserved'[b] = unreserved[b]
    BY <2>1 DEF InputsInv, FramesTyped
  <2>3. /\ failing' \in [Actors -> Seq(Frames)] /\ failing'[a] = Tail(f)
        /\ \A b \in Actors : b # a => failing'[b] = failing[b]
    BY <1>2, <2>1 DEF InputsInv, FramesTyped
  <2>4. FramesTyped' /\ Orders' /\ Written' = Written
    BY <1>2, <2>1, <2>2, <2>3 DEF InputsInv, FramesTyped, Orders, Written
  <2>5. Doomed' = Doomed
    BY <2>1, <2>2, <2>3 DEF Doomed
  <2>6. Flows'
    BY <2>1, <2>4, <2>5 DEF InputsInv, Flows
  <2>7. ControlTyped' /\ Hands'
    BY <1>1, <1>4, <2>1, <2>2, <2>3, Ids DEF InputsInv, ControlTyped, Hands, Draining
  <2>8. QED
    BY <2>4, <2>6, <2>7 DEF InputsInv
<1>7. QED
  BY <1>5, <1>6 DEF reportInputFailure

LEMMA StepInputs == InputsInv /\ [Next]_vars => InputsInv'
<1> SUFFICES ASSUME InputsInv, [Next]_vars PROVE InputsInv'
  OBVIOUS
<1>1. CASE Dispatcher
  BY <1>1, EnqueueStep, LoopSteps, TakeSteps DEF Dispatcher
<1>2. CASE Commands
  BY <1>2, ReceiveStep, LoopSteps DEF Commands
<1>3. CASE stopAll \/ provisionSession
  BY <1>3, LoopSteps
<1>4. CASE \E r \in Runs : RunStep(r) \/ RunWaits(r)
  BY <1>4, RunSteps, TakeSteps, Ids DEF RunStep, RunWaits
<1>5. CASE \E a \in Actors : drainPending(a) \/ deliver(a) \/ reportInputFailure(a)
  BY <1>5, LockSteps, TakeSteps, PopStep, DeliverStep, ReportSteps DEF drainPending
<1>6. CASE UNCHANGED vars
  <2>1. /\ UNCHANGED <<drainMu, writing, failing, unreserved, cur, run, disp, incoming>>
        /\ UNCHANGED <<delivered, pending, seen, frames>>
    BY <1>6 DEF vars, runVars, loopVars, inputVars, bounds
  <2>2. Arriving' = Arriving
    BY <2>1 DEF Arriving
  <2>3. QED
    BY <2>1, <2>2, Quiet, LoopHands DEF InputsInv
<1>7. QED
  BY <1>1, <1>2, <1>3, <1>4, <1>5, <1>6 DEF Next

\* What the reserved keys and the order of the frames say of the deliveries.
LEMMA InputsMeans == InputsInv => DeliveredInOrder /\ DeliveredOnce /\ ReservedIsCarried
<1> SUFFICES ASSUME InputsInv PROVE DeliveredInOrder /\ DeliveredOnce /\ ReservedIsCarried
  OBVIOUS
<1>1. DeliveredInOrder
  BY DEF InputsInv, Orders, Increasing, DeliveredInOrder
<1>2. ASSUME NEW i \in 1 .. Len(delivered), NEW j \in 1 .. Len(delivered), i < j,
             delivered[i].key = delivered[j].key
      PROVE  FALSE
  <2>1. delivered[i] \in Range(delivered) /\ delivered[j] \in Range(delivered)
    BY LenProperties DEF Range, InputsInv, FramesTyped
  <2>2. delivered[i] = delivered[j]
    BY <1>2, <2>1 DEF InputsInv, Flows, Flow, Held
  <2>3. delivered[i] \in Frames
    BY Zenon, <2>1 DEF InputsInv, Flows, Flow
  <2>4. QED
    BY <1>2, <2>2, <2>3 DEF InputsInv, Orders, Increasing, Frames
<1>3. DeliveredOnce
  <2>1. Len(delivered) \in Nat
    BY LenProperties DEF InputsInv, FramesTyped
  <2>2. QED
    BY <1>2, <2>1 DEF DeliveredOnce
<1>4. ASSUME NEW k \in seen PROVE \E g \in Carried \cup Range(delivered) : g.key = k
  <2>1. PICK g \in Held(Range(delivered), Written, Range(pending), Arriving, Doomed) : g.key = k
    BY Zenon DEF InputsInv, Flows, Flow
  <2>2. Written \subseteq Carried /\ Arriving \subseteq Carried /\ Range(pending) \subseteq Carried
    BY DEF Carried, Written, Arriving
  <2>3. ASSUME NEW a \in Actors PROVE Doomed[a] \subseteq Carried
    <3>1. failing[a] \in Seq(Frames) /\ (unreserved[a] => failing[a] # <<>>)
      BY DEF InputsInv, FramesTyped, Hands
    <3>2. Doomed[a] \subseteq Range(failing[a])
      BY Zenon, <3>1, SetTail DEF Doomed
    <3>3. QED
      BY <3>2 DEF Carried
  <2>4. g \in Carried \cup Range(delivered)
    BY <2>1, <2>2, <2>3 DEF Held
  <2>5. QED
    BY <2>1, <2>4
<1>5. QED
  BY <1>1, <1>3, <1>4 DEF ReservedIsCarried

\* The stages, hands and orders of the frames hold in every reachable state
\* (session.go:1475-1736).
THEOREM InputsSafe == Spec => []InputsInv
<1>1. QED
  BY InitInputs, StepInputs, PTL DEF Spec

\* Messages reach the runtime in the order deliverInput accepted them, whichever
\* goroutine drains the queue and however often the runtime is restarted
\* (session.go:190-193).
THEOREM StrictFifo == Spec => []DeliveredInOrder
<1>1. QED
  BY InputsSafe, InputsMeans, PTL

\* No message is written to a runtime twice: its key is reserved from the moment
\* it is accepted, and freed only by a failure of a frame nobody else holds
\* (session.go:186-188).
THEOREM AtMostOnce == Spec => []DeliveredOnce
<1>1. QED
  BY InputsSafe, InputsMeans, PTL

\* A key is reserved only for a frame that is on its way or was delivered, so a
\* message reported failed is accepted when it is sent again
\* (session.go:1653-1656).
THEOREM FailedCanBeResent == Spec => []ReservedIsCarried
<1>1. QED
  BY InputsSafe, InputsMeans, PTL
=============================================================================
