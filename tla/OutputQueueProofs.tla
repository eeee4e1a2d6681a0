------------------------- MODULE OutputQueueProofs -------------------------
(***************************************************************************)
(* Proofs about the output queue used by one run, for any set of runs to   *)
(* pick it from, any chunk lengths and any number of chunks.               *)
(***************************************************************************)
EXTENDS OutputQueue, TLAPS

(***************************************************************************)
(* The inductive invariant.  What makes NothingLostOrReordered inductive   *)
(* is HeldIsHead: between copying the head and popping it the flusher      *)
(* holds no lock, so one must know that nobody else removed the head.      *)
(* That is so because there is one flusher (OneRun, FlusherOfRun).         *)
(***************************************************************************)
OneRun ==
    \A r, q \in Runs : caller[r] # "idle" /\ caller[q] # "idle" => r = q

FlusherOfRun == \A r \in Runs : flusher[r] # "none" => caller[r] # "idle"

HeldIsHead ==
    \A r \in Runs : flusher[r] \in {"send", "pop"} =>
                        items # <<>> /\ held[r] = Head(items)

ClosedByStop == closed => \E r \in Runs : caller[r] = "stopped"

NothingBeforeSpawn ==
    (\A r \in Runs : caller[r] \in {"idle", "spawning"}) =>
        items = <<>> /\ produced = <<>>

EmptyAfterDrain ==
    \A r \in Runs : caller[r] \in {"drained", "stopped"} => items = <<>>

OffsetsOfProduced ==
    /\ \A i \in 1 .. Len(produced) - 1 :
           produced[i + 1].offset = produced[i].offset + produced[i].len
    /\ produced # <<>> =>
           offset = produced[Len(produced)].offset + produced[Len(produced)].len

IInv ==
    /\ TypeOK
    /\ OneRun
    /\ FlusherOfRun
    /\ HeldIsHead
    /\ ClosedByStop
    /\ NothingBeforeSpawn
    /\ EmptyAfterDrain
    /\ NeverPanics
    /\ NothingLostOrReordered
    /\ OffsetsOfProduced

-----------------------------------------------------------------------------
\* Lemmas on sequences.

\* Moving the head of the second part to the end of the first leaves the
\* concatenation as it was: what an accepted send does to sent and Unsent.
LEMMA ShiftHead ==
    ASSUME NEW S, NEW s \in Seq(S), NEW t \in Seq(S), t # <<>>
    PROVE  s \o t = Append(s, Head(t)) \o Tail(t)
<1>1. Len(s \o t) = Len(Append(s, Head(t)) \o Tail(t))
  OBVIOUS
<1>2. \A i \in 1 .. Len(s \o t) : (s \o t)[i] = (Append(s, Head(t)) \o Tail(t))[i]
  OBVIOUS
<1>3. s \o t \in Seq(S) /\ Append(s, Head(t)) \o Tail(t) \in Seq(S)
  OBVIOUS
<1> QED
  BY SMTT(40), <1>1, <1>2, <1>3

\* Appending to the second part appends to the concatenation: what an append
\* does to items.
LEMMA AppendConcat ==
    ASSUME NEW S, NEW s \in Seq(S), NEW t \in Seq(S), NEW e \in S
    PROVE  s \o Append(t, e) = Append(s \o t, e)
  OBVIOUS

LEMMA TailAppend ==
    ASSUME NEW S, NEW t \in Seq(S), t # <<>>, NEW e \in S
    PROVE  /\ Tail(Append(t, e)) = Append(Tail(t), e)
           /\ Head(Append(t, e)) = Head(t)
           /\ Append(t, e) # <<>>
  OBVIOUS

LEMMA TailType ==
    ASSUME NEW S, NEW t \in Seq(S), t # <<>>
    PROVE  Tail(t) \in Seq(S) /\ Head(t) \in S
  OBVIOUS

LEMMA AppendType ==
    ASSUME NEW S, NEW t \in Seq(S), NEW e \in S
    PROVE  Append(t, e) \in Seq(S)
  OBVIOUS

LEMMA ConcatEmpty ==
    ASSUME NEW S, NEW s \in Seq(S)
    PROVE  s \o <<>> = s
  OBVIOUS

-----------------------------------------------------------------------------
\* The types of the state are preserved by every step.

LEMMA InitType == Init => TypeOK
<1> SUFFICES ASSUME Init PROVE TypeOK
  OBVIOUS
<1>1. held \in [Runs -> Chunk \cup {NoChunk}]
  BY DEF Init
<1>2. flusher \in [Runs -> FlusherStates] /\ caller \in [Runs -> CallerStates]
  BY DEF Init, FlusherStates, CallerStates
<1>3. closed \in BOOLEAN /\ up \in BOOLEAN /\ panicked \in BOOLEAN
  BY Zenon DEF Init
<1>4. ctxDone \in [Runs -> BOOLEAN]
  BY DEF Init
<1>5. /\ items \in Seq(Chunk) /\ produced \in Seq(Chunk) /\ sent \in Seq(Chunk)
      /\ waiters \in Seq({"flush", "drain"} \X Runs) /\ offset \in Nat
  BY DEF Init
<1> QED
  BY <1>1, <1>2, <1>3, <1>4, <1>5 DEF TypeOK

\* HeldIsHead is what types the chunk a send accepts.
LEMMA TypeStep == TypeOK /\ HeldIsHead /\ [Next]_vars => TypeOK'
<1> SUFFICES ASSUME TypeOK, HeldIsHead, [Next]_vars
             PROVE  TypeOK'
  OBVIOUS
<1> USE DEF TypeOK, queueVars, histVars
<1>1. ASSUME NEW r \in Runs, firstStart(r) PROVE TypeOK'
  BY <1>1 DEF firstStart, start, FlusherStates, CallerStates
<1>2. ASSUME NEW r \in Runs, spawn(r) \/ spawnFail(r) PROVE TypeOK'
  BY <1>2 DEF spawn, spawnFail, CallerStates
<1>3. ASSUME NEW r \in Runs, NEW n \in Lens, append(r, n) PROVE TypeOK'
  <2>1. [offset |-> offset, len |-> n] \in Chunk /\ offset + n \in Nat
    BY LensAssumption DEF Chunk
  <2>2. waiters' \in Seq({"flush", "drain"} \X Runs)
    BY <1>3, TailType DEF append, Signal
  <2> QED
    BY <1>3, <2>1, <2>2 DEF append
<1>4. ASSUME NEW r \in Runs, exit(r) PROVE TypeOK'
  BY <1>4 DEF exit, CallerStates
<1>5. ASSUME NEW r \in Runs, drain(r) PROVE TypeOK'
  <2>1. CASE Wait(<<"drain", r>>) /\ UNCHANGED caller
    <3>1. waiters' \in Seq({"flush", "drain"} \X Runs)
      BY <2>1, AppendType DEF Wait
    <3> QED
      BY <1>5, <2>1, <3>1 DEF drain
  <2>2. CASE caller' = [caller EXCEPT ![r] = "drained"] /\ UNCHANGED waiters
    BY <1>5, <2>2 DEF drain, CallerStates
  <2> QED
    BY <1>5, <2>1, <2>2 DEF drain
<1>6. ASSUME NEW r \in Runs, stop(r) PROVE TypeOK'
  BY <1>6 DEF stop, Broadcast, CallerStates
<1>7. ASSUME NEW r \in Runs, cancel(r) PROVE TypeOK'
  BY <1>7 DEF cancel
<1>8. ASSUME NEW r \in Runs, flushCheck(r) PROVE TypeOK'
  <2>1. CASE Wait(<<"flush", r>>) /\ UNCHANGED <<flusher, held>>
    <3>1. waiters' \in Seq({"flush", "drain"} \X Runs)
      BY <2>1, AppendType DEF Wait
    <3> QED
      BY <1>8, <2>1, <3>1 DEF flushCheck
  <2>2. CASE flusher' = [flusher EXCEPT ![r] = "exited"] /\ UNCHANGED <<waiters, held>>
    BY <1>8, <2>2 DEF flushCheck, FlusherStates
  <2>3. CASE /\ items # <<>>
             /\ held' = [held EXCEPT ![r] = Head(items)]
             /\ flusher' = [flusher EXCEPT ![r] = "send"]
             /\ UNCHANGED waiters
    <3>1. Head(items) \in Chunk
      BY <2>3, TailType
    <3> QED
      BY <1>8, <2>3, <3>1 DEF flushCheck, FlusherStates
  <2> QED
    BY <1>8, <2>1, <2>2, <2>3 DEF flushCheck
<1>9. ASSUME NEW r \in Runs, flushSend(r) PROVE TypeOK'
  <2>1. held[r] \in Chunk
    BY Zenon, <1>9, TailType DEF flushSend, HeldIsHead
  <2> QED
    BY <1>9, <2>1 DEF flushSend, FlusherStates
<1>10. ASSUME NEW r \in Runs, flushFail(r) PROVE TypeOK'
  BY <1>10 DEF flushFail, FlusherStates
<1>11. ASSUME NEW r \in Runs, flushBackoff(r) PROVE TypeOK'
  BY Zenon, <1>11 DEF flushBackoff, FlusherStates
<1>12. ASSUME NEW r \in Runs, flushPop(r) PROVE TypeOK'
  <2>1. CASE items # <<>>
    <3>1. items' = Tail(items) /\ UNCHANGED panicked
      BY <1>12, <2>1 DEF flushPop
    <3>2. flusher' = [flusher EXCEPT ![r] = "check"] /\ waiters' = <<>>
      BY <1>12, <2>1 DEF flushPop, Broadcast
    <3>3. items' \in Seq(Chunk)
      BY <2>1, <3>1, TailType
    <3> QED
      BY <1>12, <3>1, <3>2, <3>3 DEF flushPop, FlusherStates
  <2>2. CASE items = <<>>
    BY <1>12, <2>2 DEF flushPop
  <2> QED
    BY <2>1, <2>2
<1>13. CASE streamDown \/ streamUp
  BY Zenon, <1>13 DEF streamDown, streamUp
<1>14. CASE UNCHANGED vars
  BY <1>14 DEF vars
<1> QED
  BY <1>1, <1>2, <1>3, <1>4, <1>5, <1>6, <1>7, <1>8, <1>9, <1>10, <1>11,
     <1>12, <1>13, <1>14 DEF Next, Run, flush

-----------------------------------------------------------------------------
\* What each action preserves.  Shape is about the run, Flow about the chunks.

Shape ==
    OneRun /\ FlusherOfRun /\ ClosedByStop /\ NothingBeforeSpawn /\ EmptyAfterDrain

Flow == HeldIsHead /\ NeverPanics /\ NothingLostOrReordered /\ OffsetsOfProduced

LEMMA FlowUnchanged ==
    ASSUME Flow, UNCHANGED <<items, offset, flusher, held, produced, sent, panicked>>
    PROVE  Flow'
  BY Zenon DEF Flow, HeldIsHead, NeverPanics, NothingLostOrReordered, Unsent,
         OffsetsOfProduced

\* The steps that leave the queue, its histories and every flusher alone.
Quiet(r) == spawn(r) \/ spawnFail(r) \/ exit(r) \/ cancel(r) \/ drain(r)

LEMMA QuietStep ==
    ASSUME NEW r \in Runs, IInv, Quiet(r)
    PROVE  Shape' /\ Flow'
<1> USE DEF IInv, TypeOK, Quiet, spawn, spawnFail, exit, cancel, drain, queueVars,
            histVars
<1>1. OneRun'
  BY DEF OneRun
<1>2. FlusherOfRun'
  BY DEF FlusherOfRun
<1>3. ClosedByStop'
  BY Zenon DEF ClosedByStop
<1>4. NothingBeforeSpawn'
  BY DEF NothingBeforeSpawn
<1>5. EmptyAfterDrain'
  BY DEF EmptyAfterDrain, OneRun, NothingBeforeSpawn, ClosedByStop
<1>6. UNCHANGED <<items, offset, flusher, held, produced, sent, panicked>>
  OBVIOUS
<1>7. Flow'
  BY <1>6, FlowUnchanged DEF Flow
<1> QED
  BY <1>1, <1>2, <1>3, <1>4, <1>5, <1>7 DEF Shape

LEMMA StartStep ==
    ASSUME NEW r \in Runs, IInv, firstStart(r)
    PROVE  Shape' /\ Flow'
<1> USE DEF IInv, TypeOK, firstStart, start, queueVars, histVars
<1>1. OneRun' /\ FlusherOfRun' /\ EmptyAfterDrain' /\ ClosedByStop' /\ NothingBeforeSpawn'
  BY DEF OneRun, FlusherOfRun, EmptyAfterDrain, ClosedByStop, NothingBeforeSpawn
<1>2. HeldIsHead' /\ NeverPanics' /\ OffsetsOfProduced'
  BY DEF HeldIsHead, NeverPanics, OffsetsOfProduced
<1>3. \A q \in Runs : flusher[q] = "none"
  BY DEF FlusherOfRun
<1>4. Unsent' = Unsent
  BY <1>3 DEF Unsent
<1> QED
  BY <1>1, <1>2, <1>4 DEF Shape, Flow, NothingLostOrReordered

LEMMA StopStep ==
    ASSUME NEW r \in Runs, IInv, stop(r)
    PROVE  Shape' /\ Flow'
<1> USE DEF IInv, TypeOK, stop, queueVars, histVars
<1>1. OneRun' /\ FlusherOfRun' /\ EmptyAfterDrain' /\ ClosedByStop' /\ NothingBeforeSpawn'
  BY DEF OneRun, FlusherOfRun, EmptyAfterDrain, ClosedByStop, NothingBeforeSpawn
<1>2. UNCHANGED <<items, offset, flusher, held, produced, sent, panicked>>
  OBVIOUS
<1>3. Flow'
  BY <1>2, FlowUnchanged DEF Flow
<1> QED
  BY <1>1, <1>3 DEF Shape

\* An append goes behind the head a flusher may hold, and starts where the
\* last chunk ended.
LEMMA AppendStep ==
    ASSUME NEW r \in Runs, NEW n \in Lens, IInv, append(r, n)
    PROVE  Shape' /\ Flow'
<1> DEFINE chunk == [offset |-> offset, len |-> n]
<1>1. chunk \in Chunk
  BY DEF IInv, TypeOK, Chunk
<1>2. /\ items' = Append(items, chunk) /\ produced' = Append(produced, chunk)
      /\ offset' = offset + n /\ ~panicked /\ caller[r] = "pumping"
      /\ UNCHANGED <<closed, flusher, held, caller, sent, panicked>>
  BY DEF append
<1>3. items \in Seq(Chunk) /\ produced \in Seq(Chunk) /\ sent \in Seq(Chunk)
  BY DEF IInv, TypeOK
<1> HIDE DEF chunk
<1>4. OneRun' /\ FlusherOfRun' /\ ClosedByStop' /\ NothingBeforeSpawn'
  BY <1>2 DEF IInv, OneRun, FlusherOfRun, ClosedByStop, NothingBeforeSpawn
<1>5. EmptyAfterDrain'
  BY <1>2 DEF IInv, EmptyAfterDrain, OneRun
<1>6. HeldIsHead' /\ NeverPanics'
  BY <1>1, <1>2, <1>3, TailAppend DEF IInv, HeldIsHead, NeverPanics
<1>7. Unsent' = Append(Unsent, chunk) /\ Unsent \in Seq(Chunk)
  <2>1. CASE \E q \in Runs : flusher[q] = "pop"
    <3>1. items # <<>>
      BY <2>1 DEF IInv, HeldIsHead
    <3> QED
      BY <1>1, <1>2, <1>3, <2>1, <3>1, TailAppend, TailType DEF Unsent
  <2>2. CASE ~ \E q \in Runs : flusher[q] = "pop"
    BY <1>2, <1>3, <2>2 DEF Unsent
  <2> QED
    BY <2>1, <2>2
<1>8. NothingLostOrReordered'
  <2>1. sent \o Append(Unsent, chunk) = Append(sent \o Unsent, chunk)
    BY SMTT(40), <1>1, <1>3, <1>7, AppendConcat
  <2> QED
    BY <1>2, <1>7, <2>1 DEF IInv, NothingLostOrReordered
<1>9. OffsetsOfProduced'
  <2>1. \A i \in 1 .. Len(produced) : produced'[i] = produced[i]
    BY <1>1, <1>2, <1>3
  <2>2. Len(produced') = Len(produced) + 1 /\ produced'[Len(produced) + 1] = chunk
    BY <1>1, <1>2, <1>3
  <2>3. chunk.offset = offset /\ chunk.len = n
    BY DEF chunk
  <2>4. Len(produced) \in Nat /\ (produced # <<>> => Len(produced) >= 1)
    BY <1>3
  <2> QED
    BY <1>2, <2>1, <2>2, <2>3, <2>4 DEF IInv, OffsetsOfProduced
<1> QED
  BY <1>4, <1>5, <1>6, <1>8, <1>9 DEF Shape, Flow

\* The flusher looks at the queue: it holds the head from here on.
LEMMA CheckStep ==
    ASSUME NEW r \in Runs, IInv, flushCheck(r)
    PROVE  Shape' /\ Flow'
<1> USE DEF IInv, TypeOK, flushCheck, queueVars, histVars
<1>1. OneRun' /\ FlusherOfRun' /\ EmptyAfterDrain' /\ ClosedByStop' /\ NothingBeforeSpawn'
  BY DEF OneRun, FlusherOfRun, EmptyAfterDrain, ClosedByStop, NothingBeforeSpawn
<1>2. HeldIsHead'
  BY Zenon DEF HeldIsHead
<1>3. NeverPanics' /\ OffsetsOfProduced'
  BY DEF NeverPanics, OffsetsOfProduced
<1>4. \A q \in Runs : flusher'[q] = "pop" <=> flusher[q] = "pop"
  OBVIOUS
<1>5. Unsent' = Unsent
  BY <1>4 DEF Unsent
<1> QED
  BY <1>1, <1>2, <1>3, <1>5 DEF Shape, Flow, NothingLostOrReordered

\* A failed emit and the wait after it move nothing.
LEMMA RetryStep ==
    ASSUME NEW r \in Runs, IInv, flushFail(r) \/ flushBackoff(r)
    PROVE  Shape' /\ Flow'
<1> USE DEF IInv, TypeOK, flushFail, flushBackoff, queueVars, histVars
<1>1. OneRun' /\ FlusherOfRun' /\ EmptyAfterDrain' /\ ClosedByStop' /\ NothingBeforeSpawn'
  BY DEF OneRun, FlusherOfRun, EmptyAfterDrain, ClosedByStop, NothingBeforeSpawn
<1>2. HeldIsHead'
  BY DEF HeldIsHead
<1>3. NeverPanics' /\ OffsetsOfProduced'
  BY DEF NeverPanics, OffsetsOfProduced
<1>4. \A q \in Runs : flusher'[q] = "pop" <=> flusher[q] = "pop"
  OBVIOUS
<1>5. Unsent' = Unsent
  BY <1>4 DEF Unsent
<1> QED
  BY Zenon, <1>1, <1>2, <1>3, <1>5 DEF Shape, Flow, NothingLostOrReordered

\* No other flusher is active beside that of r.
LEMMA OnlyFlusher ==
    ASSUME NEW r \in Runs, IInv, flusher[r] # "none"
    PROVE  \A q \in Runs \ {r} : flusher[q] = "none"
  BY DEF IInv, OneRun, FlusherOfRun

\* An accepted send moves the head from the queued to the sent chunks.
LEMMA SendStep ==
    ASSUME NEW r \in Runs, IInv, flushSend(r)
    PROVE  Shape' /\ Flow'
<1>1. /\ flusher[r] = "send" /\ sent' = Append(sent, held[r])
      /\ flusher' = [flusher EXCEPT ![r] = "pop"]
      /\ UNCHANGED <<items, offset, closed, held, caller, produced, panicked>>
  BY DEF flushSend, queueVars
<1>2. flusher \in [Runs -> FlusherStates] /\ items \in Seq(Chunk) /\ sent \in Seq(Chunk)
  BY DEF IInv, TypeOK
<1>3. OneRun' /\ FlusherOfRun' /\ EmptyAfterDrain' /\ ClosedByStop' /\ NothingBeforeSpawn'
  BY <1>1, <1>2 DEF IInv, OneRun, FlusherOfRun, EmptyAfterDrain, ClosedByStop,
                    NothingBeforeSpawn
<1>4. HeldIsHead' /\ NeverPanics' /\ OffsetsOfProduced'
  BY <1>1, <1>2 DEF IInv, HeldIsHead, NeverPanics, OffsetsOfProduced
<1>5. items # <<>> /\ held[r] = Head(items)
  BY <1>1 DEF IInv, HeldIsHead
<1>6. \A q \in Runs : flusher[q] # "pop"
  BY <1>1, OnlyFlusher
<1>7. Unsent = items /\ Unsent' = Tail(items)
  BY <1>1, <1>2, <1>6 DEF Unsent
<1>8. sent \o items = Append(sent, Head(items)) \o Tail(items)
  BY <1>2, <1>5, ShiftHead
<1>9. NothingLostOrReordered'
  BY <1>1, <1>5, <1>7, <1>8 DEF IInv, NothingLostOrReordered
<1> QED
  BY <1>3, <1>4, <1>9 DEF Shape, Flow

\* The pop removes the chunk that was sent, because no other flusher took it.
LEMMA PopStep ==
    ASSUME NEW r \in Runs, IInv, flushPop(r)
    PROVE  Shape' /\ Flow'
<1>1. flusher[r] = "pop"
  BY DEF flushPop
<1>2. items # <<>>
  BY <1>1 DEF IInv, HeldIsHead
<1>3. /\ items' = Tail(items) /\ flusher' = [flusher EXCEPT ![r] = "check"]
      /\ UNCHANGED <<offset, closed, held, caller, produced, sent, panicked>>
  BY <1>2 DEF flushPop, histVars
<1>4. flusher \in [Runs -> FlusherStates] /\ items \in Seq(Chunk)
  BY DEF IInv, TypeOK
<1>5. Shape'
  <2>1. OneRun' /\ FlusherOfRun' /\ ClosedByStop'
    BY <1>1, <1>3, <1>4 DEF IInv, OneRun, FlusherOfRun, ClosedByStop
  <2>2. ~ \A q \in Runs : caller[q] \in {"idle", "spawning"}
    BY <1>2 DEF IInv, NothingBeforeSpawn
  <2>3. \A q \in Runs : caller[q] \notin {"drained", "stopped"}
    BY <1>2 DEF IInv, EmptyAfterDrain
  <2>4. NothingBeforeSpawn' /\ EmptyAfterDrain'
    BY <1>3, <2>2, <2>3 DEF NothingBeforeSpawn, EmptyAfterDrain
  <2> QED
    BY <2>1, <2>4 DEF Shape
<1>6. \A q \in Runs : flusher'[q] \notin {"send", "pop"}
  BY <1>1, <1>3, <1>4, OnlyFlusher
<1>7. HeldIsHead' /\ NeverPanics' /\ OffsetsOfProduced'
  BY <1>3, <1>6 DEF IInv, HeldIsHead, NeverPanics, OffsetsOfProduced
<1>8. Unsent' = Unsent
  BY <1>1, <1>3, <1>6 DEF Unsent
<1>9. NothingLostOrReordered'
  BY <1>3, <1>8 DEF IInv, NothingLostOrReordered
<1> QED
  BY <1>5, <1>7, <1>9 DEF Flow

LEMMA InitIInv == Init => IInv
<1> SUFFICES ASSUME Init PROVE IInv
  OBVIOUS
<1>1. TypeOK
  BY InitType
<1>2. OneRun /\ FlusherOfRun /\ HeldIsHead /\ EmptyAfterDrain
  BY DEF Init, OneRun, FlusherOfRun, HeldIsHead, EmptyAfterDrain
<1>3. ClosedByStop /\ NeverPanics
  BY DEF Init, ClosedByStop, NeverPanics
<1>4. NothingBeforeSpawn /\ OffsetsOfProduced
  BY DEF Init, NothingBeforeSpawn, OffsetsOfProduced
<1>5. NothingLostOrReordered
  BY DEF Init, NothingLostOrReordered, Unsent
<1> QED
  BY <1>1, <1>2, <1>3, <1>4, <1>5 DEF IInv

LEMMA IInvStep == IInv /\ [Next]_vars => IInv'
<1> SUFFICES ASSUME IInv, [Next]_vars PROVE Shape' /\ Flow'
  BY TypeStep DEF IInv, Shape, Flow
<1>1. ASSUME NEW r \in Runs, Run(r) PROVE Shape' /\ Flow'
  BY <1>1, StartStep, QuietStep, AppendStep, StopStep DEF Run, Quiet
<1>2. ASSUME NEW r \in Runs, flush(r) PROVE Shape' /\ Flow'
  BY <1>2, CheckStep, SendStep, RetryStep, PopStep DEF flush
<1>3. CASE streamDown \/ streamUp \/ UNCHANGED vars
  <2>1. UNCHANGED <<items, offset, closed, flusher, held, caller, produced, sent, panicked>>
    BY <1>3 DEF streamDown, streamUp, vars, queueVars, histVars
  <2>2. Shape'
    BY <2>1 DEF IInv, Shape, OneRun, FlusherOfRun, ClosedByStop, NothingBeforeSpawn,
                EmptyAfterDrain
  <2> QED
    BY <2>1, <2>2, FlowUnchanged DEF IInv, Flow
<1> QED
  BY <1>1, <1>2, <1>3 DEF Next

\* The inductive invariant holds in every reachable state.
THEOREM Invariant == Spec => []IInv
  BY InitIInv, IInvStep, PTL DEF Spec

\* The state keeps its types.
THEOREM TypeCorrect == Spec => []TypeOK
<1>1. IInv => TypeOK
  BY DEF IInv
<1> QED
  BY <1>1, Invariant, PTL

\* The output queue of a run never loses, duplicates or reorders a chunk,
\* however the connection drops and whenever the run is cancelled.
THEOREM NothingLost == Spec => []NothingLostOrReordered
<1>1. IInv => NothingLostOrReordered
  BY DEF IInv
<1> QED
  BY <1>1, Invariant, PTL

\* The flusher never slices an empty queue.
THEOREM NoPanic == Spec => []NeverPanics
<1>1. IInv => NeverPanics
  BY DEF IInv
<1> QED
  BY <1>1, Invariant, PTL

\* When drain has returned, every chunk is upstream.
LEMMA DrainedIsSent == IInv => OutputBeforeResult
<1> SUFFICES ASSUME IInv, NEW r \in Runs, caller[r] \in {"drained", "stopped"}
             PROVE  sent = produced
  BY DEF OutputBeforeResult
<1>1. items = <<>>
  BY DEF IInv, EmptyAfterDrain
<1>2. \A q \in Runs : flusher[q] # "pop"
  BY <1>1 DEF IInv, HeldIsHead
<1>3. Unsent = <<>> /\ sent \in Seq(Chunk)
  BY <1>1, <1>2 DEF Unsent, IInv, TypeOK
<1> QED
  BY <1>3, ConcatEmpty DEF IInv, NothingLostOrReordered

\* The result of a run follows all of its output.
THEOREM ResultAfterOutput == Spec => []OutputBeforeResult
  BY Invariant, DrainedIsSent, PTL

\* The chunks upstream have contiguous offsets, whatever their lengths.
THEOREM Contiguous == Spec => []OffsetsContiguous
<1>1. ASSUME IInv PROVE OffsetsContiguous
  <2>1. sent \in Seq(Chunk) /\ items \in Seq(Chunk)
    BY <1>1 DEF IInv, TypeOK
  <2>2. Unsent \in Seq(Chunk)
    BY <1>1, <2>1, TailType DEF Unsent, IInv, HeldIsHead
  <2>3. Len(sent) <= Len(produced) /\ Len(sent) \in Nat /\ Len(produced) \in Nat
    BY <1>1, <2>1, <2>2 DEF IInv, NothingLostOrReordered
  <2>4. \A i \in 1 .. Len(sent) : sent[i] = produced[i]
    BY <1>1, <2>1, <2>2 DEF IInv, NothingLostOrReordered
  <2> QED
    BY <1>1, <2>3, <2>4 DEF IInv, OffsetsOfProduced, OffsetsContiguous
<1> QED
  BY <1>1, Invariant, PTL

-----------------------------------------------------------------------------
\* The queue implements OutputChannel.

Ended == \E r \in Runs : caller[r] \in {"drained", "stopped"}

\* A step that keeps the histories and the end of the run is a stutter of
\* the channel.
LEMMA Stutter ==
    ASSUME UNCHANGED <<produced, sent>>, Ended' <=> Ended
    PROVE  UNCHANGED Channel!chanVars
<1>1. (\E r \in Runs : caller[r] \in {"drained", "stopped"})'
        = (\E r \in Runs : caller[r] \in {"drained", "stopped"})
  BY Zenon, Zenon DEF Ended
<1> QED
  BY Zenon, <1>1, Zenon DEF Channel!chanVars

LEMMA AppendIsWrite ==
    ASSUME NEW r \in Runs, NEW n \in Lens, IInv, append(r, n)
    PROVE  Channel!Write
<1> DEFINE chunk == [offset |-> offset, len |-> n]
<1>1. chunk \in Chunk /\ produced \in Seq(Chunk)
  BY DEF IInv, TypeOK, Chunk
<1>2. /\ produced' = Append(produced, chunk) /\ caller[r] = "pumping"
      /\ UNCHANGED <<caller, sent>>
  BY DEF append
<1> HIDE DEF chunk
<1>3. ~Ended
  BY <1>2 DEF IInv, OneRun, Ended
<1>4. Len(produced') = Len(produced) + 1 /\ \A i \in 1 .. Len(produced) : produced'[i] = produced[i]
  BY <1>1, <1>2
<1>5. (\E q \in Runs : caller[q] \in {"drained", "stopped"})'
        = (\E q \in Runs : caller[q] \in {"drained", "stopped"})
  BY Zenon, <1>2, Zenon
<1> QED
  BY Zenon, <1>2, <1>3, <1>4, <1>5, Zenon DEF Channel!Write, Ended

LEMMA SendIsDeliver ==
    ASSUME NEW r \in Runs, IInv, flushSend(r)
    PROVE  Channel!Deliver
<1>1. /\ flusher[r] = "send" /\ sent' = Append(sent, held[r])
      /\ UNCHANGED <<caller, produced>>
  BY DEF flushSend
<1>2. sent \in Seq(Chunk) /\ items \in Seq(Chunk)
  BY DEF IInv, TypeOK
<1>3. items # <<>> /\ held[r] = Head(items)
  BY <1>1 DEF IInv, HeldIsHead
<1>4. produced = sent \o items
  <2>1. \A q \in Runs : flusher[q] # "pop"
    BY <1>1, OnlyFlusher
  <2> QED
    BY <2>1 DEF IInv, NothingLostOrReordered, Unsent
<1>5. Len(sent) < Len(produced) /\ held[r] = produced[Len(sent) + 1]
  BY <1>2, <1>3, <1>4
<1>6. (\E q \in Runs : caller[q] \in {"drained", "stopped"})'
        = (\E q \in Runs : caller[q] \in {"drained", "stopped"})
  BY Zenon, <1>1, Zenon
<1> QED
  BY Zenon, <1>1, <1>5, <1>6, Zenon DEF Channel!Deliver

LEMMA DrainedIsEnd ==
    ASSUME OutputBeforeResult', ~Ended, Ended', UNCHANGED <<produced, sent>>
    PROVE  Channel!End
<1>1. sent' = produced'
  BY DEF OutputBeforeResult, Ended
<1>2. (\E r \in Runs : caller[r] \in {"drained", "stopped"})' = TRUE
  BY Zenon, Zenon DEF Ended
<1> QED
  BY Zenon, <1>1, <1>2, Zenon DEF Channel!End, Ended

\* The queue, used by one run, is an output channel: chunks leave one at a
\* time in the order they were written, and the run ends with nothing left.
THEOREM Implements == Spec => ChannelSpec
<1>1. Init => Channel!Init
  <2> SUFFICES ASSUME Init PROVE Channel!Init
    OBVIOUS
  <2>1. (\E r \in Runs : caller[r] \in {"drained", "stopped"}) = FALSE
    BY DEF Init
  <2> QED
    BY Zenon, <2>1, Zenon DEF Init, Channel!Init
<1>2. IInv /\ OutputBeforeResult' /\ [Next]_vars => [Channel!Next]_Channel!chanVars
  <2> SUFFICES ASSUME IInv, OutputBeforeResult', [Next]_vars
               PROVE  Channel!Next \/ UNCHANGED Channel!chanVars
    OBVIOUS
  <2>1. ASSUME NEW r \in Runs, NEW n \in Lens, append(r, n) PROVE Channel!Next
    BY <2>1, AppendIsWrite DEF Channel!Next
  <2>2. ASSUME NEW r \in Runs, flushSend(r) PROVE Channel!Next
    BY <2>2, SendIsDeliver DEF Channel!Next
  <2>3. CASE UNCHANGED <<produced, sent>> /\ (Ended => Ended')
    BY <2>3, Stutter, DrainedIsEnd DEF Channel!Next
  <2>4. ASSUME NEW r \in Runs, Run(r), ~ \E n \in Lens : append(r, n)
        PROVE  UNCHANGED <<produced, sent>> /\ (Ended => Ended')
    <3>1. UNCHANGED <<produced, sent>>
      BY <2>4 DEF Run, firstStart, start, spawn, spawnFail, exit, drain, stop, cancel,
                  histVars
    <3>2. ASSUME NEW q \in Runs, caller[q] \in {"drained", "stopped"}
          PROVE  caller'[q] \in {"drained", "stopped"}
      BY <2>4, <3>2 DEF Run, firstStart, start, spawn, spawnFail, exit, drain, stop,
                        cancel, IInv, TypeOK
    <3> QED
      BY <3>1, <3>2 DEF Ended
  <2>5. ASSUME NEW r \in Runs, flush(r), ~flushSend(r)
        PROVE  UNCHANGED <<produced, sent>> /\ (Ended => Ended')
    BY <2>5 DEF flush, flushCheck, flushFail, flushBackoff, flushPop, histVars, Ended
  <2>6. CASE streamDown \/ streamUp \/ UNCHANGED vars
    BY <2>6, <2>3 DEF streamDown, streamUp, vars, histVars, Ended
  <2> QED
    BY <2>1, <2>2, <2>3, <2>4, <2>5, <2>6 DEF Next
<1> QED
  BY <1>1, <1>2, Invariant, ResultAfterOutput, PTL DEF Spec, ChannelSpec, Channel!Spec
=============================================================================
