---------------------------- MODULE DeviceProofs ----------------------------
(***************************************************************************)
(* Proofs about an iOS host: the loops that drive a phone (DeviceManager), *)
(* for any number of goroutines serving frames, and the pause of the       *)
(* tunnel agent while jobs run (IosJobs), for any jobs.                    *)
(***************************************************************************)
EXTENDS DeviceManager, IosJobs, SequenceTheorems, TLAPS


-----------------------------------------------------------------------------
(* The device-control loops.                                               *)

\* A loop, a frame being served, and the device.
Loops == [st : {"run", "conn", "ending", "dead"}, ctx : {"process", "stream"}, cancelled : BOOLEAN]
Tasks == [op : {"idle", "claim", "stop", "restart", "release", "configure"},
          pc : {"idle", "pair", "cancel", "wait", "start"}, loop : Nat, live : BOOLEAN]
Device == [known : BOOLEAN, present : BOOLEAN, claimed : BOOLEAN, claiming : BOOLEAN,
           cred : BOOLEAN, ctlOn : BOOLEAN, wda : WdaStates, userStopped : BOOLEAN, handle : Nat]

\* The inductive invariant: what is checked, with the shapes it needs, and that
\* a frame of a claim is not one that took a handle.
DevInv ==
    /\ dev \in Device /\ loops \in Seq(Loops) /\ tasks \in [Handlers -> Tasks]
    /\ \A h \in Handlers : tasks[h].op = "claim" => tasks[h].pc # "cancel"
    /\ \A h \in Handlers : tasks[h].pc = "cancel" => tasks[h].loop \in DOMAIN loops
    /\ dev.handle \in 0 .. Len(loops)
    /\ UncancelledIsOwned /\ ControlOnHasLoop

\* The transitions of wda_state stay within its values
\* (common/ioshost/manager.go:805-838, 987-1014, 1043-1140).
LEMMA AxisClosed ==
    ASSUME NEW w \in WdaStates, NEW on \in BOOLEAN
    PROVE  /\ onState(w, on) \in WdaStates
           /\ \A e \in Expiries : refreshWdaExpiry(w, e) \in WdaStates
           /\ NoteWdaJobStarted(w) \in WdaStates
           /\ \A o \in Outcomes : NoteWdaJobResult(w, on, o) \in WdaStates
BY DEF WdaStates, onState, refreshWdaExpiry, NoteWdaJobStarted, NoteWdaJobResult, Expiries, Outcomes

\* The frames being served after one of them changed.
LEMMA TaskSet ==
    ASSUME DevInv, NEW h \in Handlers, NEW t \in Tasks, tasks' = [tasks EXCEPT ![h] = t]
    PROVE  /\ tasks' \in [Handlers -> Tasks] /\ tasks'[h] = t
           /\ \A g \in Handlers \ {h} : tasks'[g] = tasks[g]
BY DEF DevInv

\* A step that changes the device, but neither its handle nor a loop, and serves
\* or ends frames that took no handle.
LEMMA DeviceMoves ==
    ASSUME DevInv, dev' \in Device, dev'.handle = dev.handle, dev'.ctlOn => dev.ctlOn,
           UNCHANGED loops, tasks' \in [Handlers -> Tasks],
           \A h \in Handlers : tasks'[h] = tasks[h] \/ (tasks[h].pc # "cancel" /\ tasks'[h].pc # "cancel")
    PROVE  DevInv'
<1>1. UncancelledIsOwned'
  BY DEF DevInv, UncancelledIsOwned, Live
<1>2. ControlOnHasLoop'
  BY DEF DevInv, ControlOnHasLoop
<1>3. QED
  BY <1>1, <1>2 DEF DevInv

\* startDeviceLocked: the new loop is the one the device holds; an older one
\* that runs is somebody's to cancel (common/ioshost/manager.go:930-985).
LEMMA StartMoves ==
    ASSUME DevInv, NEW d \in Device, d.handle = dev.handle, d.ctlOn = dev.ctlOn,
           NEW ctx \in {"process", "stream"}, NEW live \in BOOLEAN, startDevice(d, ctx, live),
           tasks' \in [Handlers -> Tasks],
           \A h \in Handlers : tasks'[h] = tasks[h] \/ (tasks[h].pc # "cancel" /\ tasks'[h].pc # "cancel")
    PROVE  DevInv'
<1>1. CASE d.handle # 0 \/ stopped
  <2>1. dev' = d /\ UNCHANGED loops
    BY <1>1 DEF startDevice
  <2>2. QED
    BY <2>1, DeviceMoves
<1>2. CASE ~(d.handle # 0 \/ stopped)
  <2> DEFINE n == Len(loops)
             new == [st |-> "run", ctx |-> ctx, cancelled |-> ~live]
  <2>1. dev' = [d EXCEPT !.handle = n + 1] /\ loops' = Append(loops, new) /\ dev.handle = 0
    BY <1>2 DEF startDevice
  <2>2. new \in Loops /\ loops \in Seq(Loops) /\ n \in Nat
    BY LenProperties DEF Loops, DevInv
  <2> HIDE DEF new
  <2>3. /\ loops' \in Seq(Loops) /\ Len(loops') = n + 1 /\ DOMAIN loops' = 1 .. n + 1
        /\ DOMAIN loops = 1 .. n /\ \A l \in 1 .. n : loops'[l] = loops[l]
    BY <2>1, <2>2, AppendProperties, LenProperties
  <2>4. dev' \in Device /\ dev'.handle = n + 1 /\ dev'.ctlOn = dev.ctlOn
    BY <2>1, <2>2 DEF Device
  <2> HIDE DEF n
  <2>5. UncancelledIsOwned'
    BY <2>1, <2>2, <2>3, <2>4 DEF DevInv, UncancelledIsOwned, Live
  <2>6. ControlOnHasLoop'
    BY <2>2, <2>3, <2>4 DEF DevInv, ControlOnHasLoop
  <2>7. dev'.handle \in 0 .. Len(loops')
    BY <2>2, <2>3, <2>4
  <2>8. \A h \in Handlers : tasks'[h].pc = "cancel" => tasks'[h].loop \in DOMAIN loops'
    BY <2>2, <2>3 DEF DevInv
  <2>9. \A h \in Handlers : tasks'[h].op = "claim" => tasks'[h].pc # "cancel"
    BY DEF DevInv
  <2>10. QED
    BY <2>3, <2>4, <2>5, <2>6, <2>7, <2>8, <2>9 DEF DevInv
<1>3. QED
  BY <1>1, <1>2

\* A step of the loops: none is added, and one that is still uncancelled was
\* (common/ioshost/manager.go:930-1040).
LEMMA LoopsMove ==
    ASSUME DevInv, dev' \in Device, dev'.handle = dev.handle,
           loops' \in Seq(Loops), Len(loops') = Len(loops),
           \A l \in DOMAIN loops : loops'[l].st # "dead" /\ ~loops'[l].cancelled =>
                                   loops[l].st # "dead" /\ ~loops[l].cancelled,
           tasks' \in [Handlers -> Tasks],
           \A h \in Handlers : tasks'[h].op = tasks[h].op /\ tasks'[h].pc = tasks[h].pc
                               /\ tasks'[h].loop = tasks[h].loop,
           dev'.ctlOn => \E l \in DOMAIN loops : loops'[l].st = "conn"
    PROVE  DevInv'
<1>1. DOMAIN loops' = DOMAIN loops
  BY LenProperties DEF DevInv
<1>2. UncancelledIsOwned'
  BY <1>1 DEF DevInv, UncancelledIsOwned, Live
<1>3. ControlOnHasLoop'
  BY <1>1 DEF ControlOnHasLoop
<1>4. QED
  BY Zenon, <1>1, <1>2, <1>3 DEF DevInv

\* A frame takes the handle of the loop: from then on it is the frame that will
\* cancel it (common/ioshost/manager.go:387-595).
LEMMA HandleTaken ==
    ASSUME DevInv, NEW h \in Handlers, tasks[h] = Idle, dev' \in Device, dev'.handle = 0,
           dev'.ctlOn => dev.ctlOn, UNCHANGED loops,
           NEW op \in {"stop", "restart", "release", "configure"},
           IF dev.handle # 0 THEN Serve(h, op, "cancel", dev.handle)
           ELSE UNCHANGED tasks \/ Serve(h, op, "start", 0)
    PROVE  DevInv'
<1>1. CASE dev.handle = 0
  <2>1. CASE UNCHANGED tasks
    BY <1>1, <2>1, DeviceMoves DEF DevInv
  <2>2. CASE Serve(h, op, "start", 0)
    <3> DEFINE t == [op |-> op, pc |-> "start", loop |-> 0, live |-> TRUE]
    <3>1. t \in Tasks /\ t.pc # "cancel" /\ Idle.pc # "cancel"
      BY DEF Tasks, Idle
    <3> HIDE DEF t
    <3>2. tasks' = [tasks EXCEPT ![h] = t]
      BY <2>2 DEF Serve, t
    <3>3. QED
      BY Zenon, <1>1, <3>1, <3>2, TaskSet, DeviceMoves
  <2>3. QED
    BY <1>1, <2>1, <2>2
<1>2. CASE dev.handle # 0
  <2> DEFINE t == [op |-> op, pc |-> "cancel", loop |-> dev.handle, live |-> TRUE]
  <2>1. /\ t \in Tasks /\ t.pc = "cancel" /\ t.op # "claim" /\ t.loop = dev.handle
        /\ dev.handle \in DOMAIN loops /\ Idle.pc # "cancel"
    BY <1>2, LenProperties DEF Tasks, DevInv, Device, Idle
  <2> HIDE DEF t
  <2>2. tasks' = [tasks EXCEPT ![h] = t]
    BY <1>2 DEF Serve, t
  <2>3. /\ tasks' \in [Handlers -> Tasks] /\ tasks'[h] = t
        /\ \A g \in Handlers \ {h} : tasks'[g] = tasks[g]
    BY Zenon, <2>1, <2>2, TaskSet
  <2>4. UncancelledIsOwned'
    BY <2>1, <2>3 DEF DevInv, UncancelledIsOwned, Live
  <2>5. ControlOnHasLoop'
    BY DEF DevInv, ControlOnHasLoop
  <2>6. /\ \A g \in Handlers : tasks'[g].op = "claim" => tasks'[g].pc # "cancel"
        /\ \A g \in Handlers : tasks'[g].pc = "cancel" => tasks'[g].loop \in DOMAIN loops
    BY <2>1, <2>3 DEF DevInv
  <2>7. dev'.handle \in 0 .. Len(loops)
    BY LenProperties DEF DevInv
  <2>8. QED
    BY <2>3, <2>4, <2>5, <2>6, <2>7 DEF DevInv
<1>3. QED
  BY <1>1, <1>2

\* ControlRunner START, from a frame or from the prober.
LEMMA RunnerKeeps ==
    ASSUME DevInv, NEW ctx \in {"process", "stream"}, startRunner(ctx), UNCHANGED tasks
    PROVE  DevInv'
<1>0. dev \in Device /\ tasks \in [Handlers -> Tasks]
  BY DEF DevInv
<1>1. CASE dev.cred /\ dev.handle = 0 /\ ~stopped
  <2> DEFINE d == [dev EXCEPT !.userStopped = FALSE]
  <2>1. d \in Device /\ d.handle = dev.handle /\ d.ctlOn = dev.ctlOn
    BY Zenon, <1>0 DEF Device
  <2>2. startDevice(d, ctx, TRUE)
    BY Zenon, <1>1 DEF startRunner
  <2> HIDE DEF d
  <2>3. QED
    BY Zenon, <1>0, <2>1, <2>2, StartMoves
<1>2. CASE ~(dev.cred /\ dev.handle = 0 /\ ~stopped)
  BY Zenon, <1>0, <1>2, DeviceMoves DEF startRunner
<1>3. QED
  BY <1>1, <1>2

\* The loop goroutine's steps (common/ioshost/manager.go:930-1040).
LEMMA LoopKeeps ==
    ASSUME DevInv, LoopStep
    PROVE  DevInv'
<1>1. PICK l \in DOMAIN loops :
           LoopConnected(l) \/ LoopDisconnected(l) \/ LoopWiped(l) \/ LoopEnd(l)
  BY DEF LoopStep
<1>2. UNCHANGED tasks
  BY Zenon, <1>1 DEF LoopConnected, LoopDisconnected, LoopWiped, LoopEnd
<1>3. PICK st \in {"run", "conn", "ending", "dead"} : loops' = [loops EXCEPT ![l].st = st]
  BY Zenon, <1>1 DEF LoopConnected, LoopDisconnected, LoopWiped, LoopEnd
<1>4. /\ loops[l] \in Loops /\ DOMAIN loops = 1 .. Len(loops) /\ loops \in Seq(Loops)
      /\ Len(loops) \in Nat
  BY ElementOfSeq, LenProperties DEF DevInv
<1>5. /\ loops' \in Seq(Loops) /\ Len(loops') = Len(loops)
      /\ loops'[l] = [loops[l] EXCEPT !.st = st]
      /\ \A k \in DOMAIN loops : k # l => loops'[k] = loops[k]
  <2> DEFINE e == [loops[l] EXCEPT !.st = st]
  <2>1. e \in Loops
    BY <1>4 DEF Loops
  <2>2. loops' = [loops EXCEPT ![l] = e]
    BY <1>3
  <2> HIDE DEF e
  <2>3. loops' \in Seq(Loops) /\ Len(loops') = Len(loops)
    BY <1>4, <2>1, <2>2, ExceptSeq
  <2>4. loops'[l] = e /\ \A k \in DOMAIN loops : k # l => loops'[k] = loops[k]
    BY <1>4, <2>2
  <2>5. QED
    BY <2>3, <2>4 DEF e
<1>6. loops'[l].st = st /\ loops'[l].cancelled = loops[l].cancelled
  BY <1>4, <1>5 DEF Loops
<1>7. /\ loops[l].st # "dead"
      /\ dev' \in Device /\ dev'.handle = dev.handle
      /\ dev'.ctlOn => st = "conn"
  <2>1. CASE LoopConnected(l)
    <3>1. dev' = setOnline(dev, TRUE) /\ loops[l].st = "run"
      BY <2>1 DEF LoopConnected
    <3>2. loops'[l].st = "conn"
      BY <1>4, <2>1 DEF LoopConnected, Loops
    <3>3. onState(dev.wda, TRUE) \in WdaStates
      BY Zenon, AxisClosed DEF DevInv, Device
    <3>4. QED
      BY Zenon, <1>6, <3>1, <3>2, <3>3 DEF setOnline, DevInv, Device
  <2>2. CASE LoopDisconnected(l)
    <3>1. dev' = setOnline(dev, FALSE) /\ loops[l].st = "conn"
      BY <2>2 DEF LoopDisconnected
    <3>2. onState(dev.wda, FALSE) \in WdaStates
      BY Zenon, AxisClosed DEF DevInv, Device
    <3>3. QED
      BY Zenon, <3>1, <3>2 DEF setOnline, DevInv, Device
  <2>3. CASE LoopWiped(l)
    BY Zenon, <2>3 DEF LoopWiped, DevInv, Device
  <2>4. CASE LoopEnd(l)
    BY Zenon, <2>4 DEF LoopEnd, Live, DevInv, Device
  <2>5. QED
    BY <1>1, <2>1, <2>2, <2>3, <2>4
<1>8. tasks' \in [Handlers -> Tasks]
  BY <1>2 DEF DevInv
<1>9. QED
  BY Zenon, <1>2, <1>5, <1>6, <1>7, <1>8, LoopsMove

\* The frames that take a handle, or change nothing of the loop
\* (common/ioshost/manager.go:303-595, 1043-1053).
LEMMA ServingKeeps ==
    ASSUME DevInv, NEW h \in Handlers, Serving(h)
    PROVE  DevInv'
<1> USE DEF Frame
<1>0. dev \in Device /\ tasks \in [Handlers -> Tasks]
  BY DEF DevInv
<1>1. CASE Claim(h)
  <2> DEFINE t == [op |-> "claim", pc |-> "pair", loop |-> 0, live |-> TRUE]
  <2>1. t \in Tasks /\ t.pc # "cancel" /\ Idle.pc # "cancel"
    BY DEF Tasks, Idle
  <2> HIDE DEF t
  <2>2. tasks' = [tasks EXCEPT ![h] = t] /\ tasks[h] = Idle
    BY <1>1 DEF Claim, Serve, t
  <2>3. /\ dev' \in Device /\ dev'.handle = dev.handle /\ dev'.ctlOn = dev.ctlOn
        /\ UNCHANGED loops
    BY Zenon, <1>0, <1>1 DEF Claim, Device
  <2>4. QED
    BY Zenon, <2>1, <2>2, <2>3, TaskSet, DeviceMoves
<1>2. CASE ControlStart(h)
  <2>1. startRunner("stream") /\ UNCHANGED tasks
    BY <1>2 DEF ControlStart
  <2>2. QED
    BY <2>1, RunnerKeeps
<1>3. ASSUME NEW op \in {"stop", "restart"}, ControlStop(h, op) PROVE DevInv'
  <2>1. dev' \in Device /\ dev'.handle = 0 /\ dev'.ctlOn = FALSE
    BY Zenon, <1>0, <1>3 DEF ControlStop, Device
  <2>2. /\ tasks[h] = Idle /\ UNCHANGED loops
        /\ IF dev.handle # 0 THEN Serve(h, op, "cancel", dev.handle)
           ELSE UNCHANGED tasks \/ Serve(h, op, "start", 0)
    BY <1>3 DEF ControlStop
  <2>3. QED
    BY <2>1, <2>2, HandleTaken
<1>4. CASE Release(h)
  <2>1. dev' \in Device /\ dev'.handle = 0 /\ dev'.ctlOn = FALSE
    <3>1. PICK deleteCredential \in BOOLEAN :
               dev' = [dev EXCEPT !.handle = 0, !.claimed = FALSE, !.ctlOn = FALSE,
                                  !.wda = "unspecified", !.cred = @ /\ ~deleteCredential]
      BY Zenon, <1>4 DEF Release
    <3> DEFINE c == dev.cred /\ ~deleteCredential
    <3>2. c \in BOOLEAN /\ "unspecified" \in WdaStates
      BY DEF WdaStates
    <3>3. dev' = [dev EXCEPT !.handle = 0, !.claimed = FALSE, !.ctlOn = FALSE,
                             !.wda = "unspecified", !.cred = c]
      BY <3>1
    <3> HIDE DEF c
    <3>4. QED
      BY Zenon, <1>0, <3>2, <3>3 DEF Device
  <2>2. /\ tasks[h] = Idle /\ UNCHANGED loops
        /\ IF dev.handle # 0 THEN Serve(h, "release", "cancel", dev.handle)
           ELSE UNCHANGED tasks \/ Serve(h, "release", "start", 0)
    BY <1>4 DEF Release
  <2>3. QED
    BY <2>1, <2>2, HandleTaken
<1>5. ASSUME NEW changed \in BOOLEAN, ConfigureDevice(h, changed) PROVE DevInv'
  <2>1. CASE changed /\ dev.handle # 0
    <3>1. dev' \in Device /\ dev'.handle = 0 /\ dev'.ctlOn = dev.ctlOn
      BY <1>0, <1>5, <2>1 DEF ConfigureDevice, Device
    <3>2. tasks[h] = Idle /\ UNCHANGED loops /\ Serve(h, "configure", "cancel", dev.handle)
      BY <1>5, <2>1 DEF ConfigureDevice
    <3>3. QED
      BY <2>1, <3>1, <3>2, HandleTaken
  <2>2. CASE ~(changed /\ dev.handle # 0)
    BY <1>0, <1>5, <2>2, DeviceMoves DEF ConfigureDevice
  <2>3. QED
    BY <2>1, <2>2
<1>6. CASE JobStarted(h)
  <2>1. dev' \in Device /\ dev'.handle = dev.handle /\ dev'.ctlOn = dev.ctlOn
    BY <1>0, <1>6 DEF JobStarted, Device, NoteWdaJobStarted, WdaStates
  <2>2. UNCHANGED <<loops, tasks>>
    BY <1>6 DEF JobStarted
  <2>3. QED
    BY <1>0, <2>1, <2>2, DeviceMoves
<1>7. QED
  BY <1>1, <1>2, <1>3, <1>4, <1>5, <1>6 DEF Serving

\* The later steps of a frame: a claim ends, a loop whose handle was taken is
\* cancelled, waited for and started again (common/ioshost/manager.go:340-595).
LEMMA TaskKeeps ==
    ASSUME DevInv, NEW h \in Handlers, TaskStep(h)
    PROVE  DevInv'
<1>0. /\ dev \in Device /\ tasks \in [Handlers -> Tasks] /\ tasks[h] \in Tasks
      /\ Idle \in Tasks /\ Idle.pc # "cancel"
  BY DEF DevInv, Idle, Tasks
<1>1. CASE ClaimEnds(h)
  <2>1. tasks[h].pc # "cancel" /\ tasks' = [tasks EXCEPT ![h] = Idle]
    BY <1>1 DEF ClaimEnds, Done, DevInv
  <2>2. /\ tasks' \in [Handlers -> Tasks] /\ tasks'[h] = Idle
        /\ \A g \in Handlers \ {h} : tasks'[g] = tasks[g]
    BY <1>0, <2>1, TaskSet
  <2>3. CASE dev' = [dev EXCEPT !.claiming = FALSE] /\ UNCHANGED loops
    <3>1. dev' \in Device /\ dev'.handle = dev.handle /\ dev'.ctlOn = dev.ctlOn
      BY Zenon, <1>0, <2>3 DEF Device
    <3>2. QED
      BY <1>0, <2>1, <2>2, <2>3, <3>1, DeviceMoves
  <2>4. CASE startDevice([dev EXCEPT !.claiming = FALSE, !.claimed = TRUE, !.cred = TRUE],
                         "stream", tasks[h].live)
    <3> DEFINE d == [dev EXCEPT !.claiming = FALSE, !.claimed = TRUE, !.cred = TRUE]
    <3>1. d \in Device /\ d.handle = dev.handle /\ d.ctlOn = dev.ctlOn /\ tasks[h].live \in BOOLEAN
      BY Zenon, <1>0 DEF Device, Tasks
    <3>2. startDevice(d, "stream", tasks[h].live)
      BY <2>4
    <3> HIDE DEF d
    <3>3. QED
      BY <1>0, <2>1, <2>2, <3>1, <3>2, StartMoves
  <2>5. QED
    BY <1>1, <2>3, <2>4 DEF ClaimEnds
<1>2. CASE CancelLoop(h)
  <2> DEFINE l == tasks[h].loop
             e == [loops[l] EXCEPT !.cancelled = TRUE]
  <2>1. /\ l \in DOMAIN loops /\ loops[l] \in Loops /\ loops \in Seq(Loops)
        /\ DOMAIN loops = 1 .. Len(loops) /\ Len(loops) \in Nat /\ tasks[h].pc = "cancel"
    BY <1>2, ElementOfSeq, LenProperties DEF CancelLoop, DevInv
  <2>2. e \in Loops /\ e.st = loops[l].st /\ e.cancelled = TRUE /\ loops' = [loops EXCEPT ![l] = e]
    BY Zenon, <1>2, <2>1 DEF CancelLoop, Loops
  <2>3. /\ tasks' \in [Handlers -> Tasks] /\ tasks'[h].pc # "cancel"
        /\ \A g \in Handlers \ {h} : tasks'[g] = tasks[g]
    <3>1. CASE tasks' = [tasks EXCEPT ![h] = Idle]
      BY <1>0, <3>1, TaskSet
    <3>2. CASE tasks' = [tasks EXCEPT ![h].pc = "wait"]
      <4> DEFINE t == [tasks[h] EXCEPT !.pc = "wait"]
      <4>1. t \in Tasks /\ t.pc # "cancel" /\ tasks' = [tasks EXCEPT ![h] = t]
        BY <1>0, <3>2 DEF Tasks
      <4> HIDE DEF t
      <4>2. QED
        BY Zenon, <4>1, TaskSet
    <3>3. QED
      BY <1>2, <3>1, <3>2 DEF CancelLoop, Done
  <2>4. UNCHANGED dev
    BY <1>2 DEF CancelLoop
  <2> HIDE DEF e
  <2>5. /\ loops' \in Seq(Loops) /\ Len(loops') = Len(loops)
        /\ loops'[l] = e /\ \A k \in DOMAIN loops : k # l => loops'[k] = loops[k]
    BY <2>1, <2>2, ExceptSeq
  <2>6. DOMAIN loops' = DOMAIN loops
    BY <2>1, <2>5, LenProperties
  <2>7. UncancelledIsOwned'
    <3> SUFFICES ASSUME NEW k \in DOMAIN loops, loops'[k].st # "dead", ~loops'[k].cancelled
                 PROVE  \/ dev.handle = k
                        \/ \E g \in Handlers : tasks'[g].pc = "cancel" /\ tasks'[g].loop = k
      BY <2>4, <2>6 DEF UncancelledIsOwned, Live
    <3>1. k # l /\ loops'[k] = loops[k]
      BY <2>2, <2>5
    <3>2. \/ dev.handle = k
          \/ \E g \in Handlers \ {h} : tasks[g].pc = "cancel" /\ tasks[g].loop = k
      BY <3>1 DEF DevInv, UncancelledIsOwned, Live
    <3>3. QED
      BY <2>3, <3>2
  <2>8. ControlOnHasLoop'
    BY <2>2, <2>4, <2>5, <2>6 DEF DevInv, ControlOnHasLoop
  <2>9. \A g \in Handlers : /\ tasks'[g].op = "claim" => tasks'[g].pc # "cancel"
                            /\ tasks'[g].pc = "cancel" => tasks'[g].loop \in DOMAIN loops
    BY <2>3 DEF DevInv
  <2>10. QED
    BY <2>3, <2>4, <2>5, <2>6, <2>7, <2>8, <2>9 DEF DevInv
<1>3. CASE Waited(h)
  <2>1. /\ tasks' \in [Handlers -> Tasks] /\ tasks'[h].pc # "cancel" /\ tasks[h].pc # "cancel"
        /\ \A g \in Handlers \ {h} : tasks'[g] = tasks[g]
    <3>1. CASE tasks' = [tasks EXCEPT ![h] = Idle]
      BY <1>0, <1>3, <3>1, TaskSet DEF Waited
    <3>2. CASE tasks' = [tasks EXCEPT ![h].pc = "start"]
      <4> DEFINE t == [tasks[h] EXCEPT !.pc = "start"]
      <4>1. t \in Tasks /\ t.pc # "cancel" /\ tasks' = [tasks EXCEPT ![h] = t]
        BY <1>0, <3>2 DEF Tasks
      <4> HIDE DEF t
      <4>2. QED
        BY Zenon, <1>3, <4>1, TaskSet DEF Waited
    <3>3. QED
      BY <1>3, <3>1, <3>2 DEF Waited, Done
  <2>2. UNCHANGED <<dev, loops>>
    BY <1>3 DEF Waited
  <2>3. QED
    BY <1>0, <2>1, <2>2, DeviceMoves
<1>4. CASE StartAgain(h)
  <2>1. /\ tasks' \in [Handlers -> Tasks] /\ tasks'[h] = Idle /\ tasks[h].pc # "cancel"
        /\ \A g \in Handlers \ {h} : tasks'[g] = tasks[g]
    BY <1>0, <1>4, TaskSet DEF StartAgain, Done
  <2>2. tasks[h].live \in BOOLEAN
    BY <1>0 DEF Tasks
  <2>3. startDevice(dev, "stream", tasks[h].live) \/ UNCHANGED <<dev, loops>>
    BY <1>4 DEF StartAgain
  <2>4. QED
    BY <1>0, <2>1, <2>2, <2>3, StartMoves, DeviceMoves
<1>5. QED
  BY <1>1, <1>2, <1>3, <1>4 DEF TaskStep

\* Jobs, discovery and the prober leave the handle alone, or start a loop.
LEMMA DiscoveryKeeps ==
    ASSUME DevInv,
           \/ JobResult \/ probeCollect \/ probeStart \/ StartClaimedDevices
           \/ \E b \in BOOLEAN : applySnapshot(b) \/ applyEvent(b)
    PROVE  DevInv'
<1>0. dev \in Device /\ tasks \in [Handlers -> Tasks] /\ dev.wda \in WdaStates /\ dev.ctlOn \in BOOLEAN
  BY DEF DevInv, Device
<1>1. CASE JobResult
  <2>1. PICK o \in Outcomes : dev' = [dev EXCEPT !.wda = NoteWdaJobResult(@, dev.ctlOn, o)]
    BY <1>1 DEF JobResult
  <2>2. NoteWdaJobResult(dev.wda, dev.ctlOn, o) \in WdaStates
    BY Zenon, <1>0, AxisClosed
  <2>3. dev' \in Device /\ dev'.handle = dev.handle /\ dev'.ctlOn = dev.ctlOn
    BY <1>0, <2>1, <2>2 DEF Device
  <2>4. UNCHANGED <<loops, tasks>>
    BY <1>1 DEF JobResult
  <2>5. QED
    BY <1>0, <2>3, <2>4, DeviceMoves
<1>2. CASE probeCollect
  BY <1>0, <1>2, DeviceMoves DEF probeCollect
<1>3. CASE probeStart
  BY <1>3, RunnerKeeps DEF probeStart
<1>4. CASE StartClaimedDevices
  BY Zenon, <1>0, <1>4, StartMoves, DeviceMoves DEF StartClaimedDevices
<1>5. ASSUME NEW b \in BOOLEAN, applySnapshot(b) PROVE DevInv'
  <2>1. PICK e \in Expiries :
             dev' = [dev EXCEPT !.known = @ \/ b, !.present = b, !.wda = refreshWdaExpiry(dev.wda, e)]
    BY Zenon, <1>5 DEF applySnapshot
  <2> DEFINE k == dev.known \/ b
             w == refreshWdaExpiry(dev.wda, e)
  <2>2. w \in WdaStates /\ k \in BOOLEAN
    BY <1>0, AxisClosed
  <2>3. dev' = [dev EXCEPT !.known = k, !.present = b, !.wda = w]
    BY <2>1
  <2> HIDE DEF k, w
  <2>4. dev' \in Device /\ dev'.handle = dev.handle /\ dev'.ctlOn = dev.ctlOn
    BY Zenon, <1>0, <2>2, <2>3 DEF Device
  <2>5. UNCHANGED <<loops, tasks>>
    BY Zenon, <1>5 DEF applySnapshot
  <2>6. QED
    BY <1>0, <2>4, <2>5, DeviceMoves
<1>6. ASSUME NEW b \in BOOLEAN, applyEvent(b) PROVE DevInv'
  <2>1. dev' \in {dev, [dev EXCEPT !.userStopped = FALSE],
                  [dev EXCEPT !.present = FALSE, !.ctlOn = FALSE]}
    BY <1>6 DEF applyEvent
  <2>2. dev' \in Device /\ dev'.handle = dev.handle /\ (dev'.ctlOn => dev.ctlOn)
    BY Zenon, <1>0, <2>1 DEF Device
  <2>3. UNCHANGED <<loops, tasks>>
    BY <1>6 DEF applyEvent
  <2>4. QED
    BY <1>0, <2>2, <2>3, DeviceMoves
<1>7. QED
  BY <1>1, <1>2, <1>3, <1>4, <1>5, <1>6

\* A fresh process: no loop and no frame.
Fresh == /\ dev \in Device /\ dev.handle = 0 /\ dev.ctlOn = FALSE /\ loops = <<>>
         /\ tasks = [h \in Handlers |-> Idle]

\* It satisfies the invariant.
LEMMA FreshProcess == Fresh => DevInv
<1> SUFFICES ASSUME Fresh PROVE DevInv
  OBVIOUS
<1> USE DEF Fresh
<1>1. /\ Idle \in Tasks /\ Idle.op # "claim" /\ Idle.pc # "cancel"
      /\ \A h \in Handlers : tasks[h] = Idle
  BY DEF Idle, Tasks
<1>2. tasks \in [Handlers -> Tasks]
  BY <1>1
<1>3. loops \in Seq(Loops) /\ Len(loops) = 0 /\ DOMAIN loops = {}
  OBVIOUS
<1>4. UncancelledIsOwned /\ ControlOnHasLoop
  BY <1>3 DEF UncancelledIsOwned, ControlOnHasLoop
<1>5. QED
  BY <1>1, <1>2, <1>3, <1>4 DEF DevInv

\* What adoptConfiguredDevices makes of any devices.json.
LEMMA Adopted ==
    /\ adoptConfigured \in Device
    /\ adoptConfigured.handle = 0 /\ adoptConfigured.ctlOn = FALSE
<1> DEFINE k == disk # "none"
           c == disk = "cred"
<1>1. k \in BOOLEAN /\ c \in BOOLEAN
  OBVIOUS
<1>2. adoptConfigured =
        [known |-> k, present |-> FALSE, claimed |-> c, claiming |-> FALSE, cred |-> c,
         ctlOn |-> FALSE, wda |-> "unspecified", userStopped |-> FALSE, handle |-> 0]
  BY DEF adoptConfigured
<1> HIDE DEF k, c
<1>3. QED
  BY <1>1, <1>2 DEF Device, WdaStates

\* The environment: a stream that breaks and Stop only cancel loops; a new
\* process starts from devices.json (common/ioshost/manager.go:237-302).
LEMMA EnvironmentKeeps ==
    ASSUME DevInv, StreamBreaks \/ Stop \/ Crash
    PROVE  DevInv'
<1>0. /\ dev \in Device /\ tasks \in [Handlers -> Tasks] /\ loops \in Seq(Loops)
      /\ DOMAIN loops = 1 .. Len(loops) /\ Len(loops) \in Nat
      /\ \A l \in DOMAIN loops : loops[l] \in Loops
  BY ElementOfSeq, LenProperties DEF DevInv
<1>1. ASSUME NEW D, D \subseteq DOMAIN loops,
             loops' = [l \in DOMAIN loops |->
                         [loops[l] EXCEPT !.cancelled = @ \/ l \in D]]
      PROVE  /\ loops' \in Seq(Loops) /\ Len(loops') = Len(loops)
             /\ \A l \in DOMAIN loops : /\ loops'[l].st = loops[l].st
                                        /\ ~loops'[l].cancelled => ~loops[l].cancelled
  <2>1. ASSUME NEW l \in DOMAIN loops
        PROVE  /\ loops'[l] \in Loops /\ loops'[l].st = loops[l].st
               /\ ~loops'[l].cancelled => ~loops[l].cancelled
    <3> DEFINE c == loops[l].cancelled \/ l \in D
    <3>1. c \in BOOLEAN /\ (~c => ~loops[l].cancelled)
      OBVIOUS
    <3>2. loops'[l] = [loops[l] EXCEPT !.cancelled = c]
      BY <1>1
    <3> HIDE DEF c
    <3>3. QED
      BY <1>0, <3>1, <3>2 DEF Loops
  <2>2. DOMAIN loops' = 1 .. Len(loops) /\ loops' = [l \in 1 .. Len(loops) |-> loops'[l]]
    BY <1>0, <1>1
  <2>3. loops' \in Seq(Loops) /\ Len(loops') = Len(loops)
    <3>1. loops' \in [1 .. Len(loops) -> Loops]
      BY <1>0, <2>1, <2>2
    <3>2. loops' \in Seq(Loops)
      BY <1>0, <3>1, SeqDef
    <3>3. Len(loops') \in Nat /\ 1 .. Len(loops') = 1 .. Len(loops)
      BY <2>2, <3>2, LenProperties
    <3>4. ASSUME NEW m \in Nat, NEW n \in Nat, 1 .. m = 1 .. n PROVE m = n
      BY <3>4, m \in 1 .. n \/ m = 0, n \in 1 .. m \/ n = 0
    <3>5. QED
      BY Zenon, Zenon, <1>0, <3>2, <3>3, <3>4
  <2>4. QED
    BY <2>1, <2>3
<1>2. CASE StreamBreaks
  <2> DEFINE D == {l \in DOMAIN loops : loops[l].ctx = "stream"}
  <2>1. loops' = [l \in DOMAIN loops |-> [loops[l] EXCEPT !.cancelled = @ \/ l \in D]]
    BY <1>2 DEF StreamBreaks
  <2>2. ASSUME NEW h \in Handlers
        PROVE  /\ tasks'[h] \in Tasks /\ tasks'[h].op = tasks[h].op /\ tasks'[h].pc = tasks[h].pc
               /\ tasks'[h].loop = tasks[h].loop
    <3> DEFINE b == tasks[h] = Idle
    <3>1. b \in BOOLEAN /\ tasks'[h] = [tasks[h] EXCEPT !.live = b]
      BY <1>2 DEF StreamBreaks
    <3> HIDE DEF b
    <3>2. QED
      BY <1>0, <3>1 DEF Tasks
  <2>3. tasks' \in [Handlers -> Tasks]
    <3>1. tasks' = [h \in Handlers |-> tasks'[h]]
      BY <1>2 DEF StreamBreaks
    <3>2. QED
      BY <2>2, <3>1
  <2>4. UNCHANGED dev /\ (dev.ctlOn => \E l \in DOMAIN loops : loops[l].st = "conn")
    BY <1>2 DEF StreamBreaks, DevInv, ControlOnHasLoop
  <2> HIDE DEF D
  <2>5. D \subseteq DOMAIN loops
    BY DEF D
  <2>6. QED
    BY Zenon, <1>0, <1>1, <2>1, <2>2, <2>3, <2>4, <2>5, LoopsMove
<1>3. CASE Stop
  <2> DEFINE D == {dev.handle} \cap DOMAIN loops
  <2>1. loops' = [l \in DOMAIN loops |-> [loops[l] EXCEPT !.cancelled = @ \/ l \in D]]
    BY <1>3 DEF Stop
  <2>2. UNCHANGED <<dev, tasks>> /\ (dev.ctlOn => \E l \in DOMAIN loops : loops[l].st = "conn")
    BY <1>3 DEF Stop, DevInv, ControlOnHasLoop
  <2> HIDE DEF D
  <2>3. D \subseteq DOMAIN loops
    BY DEF D
  <2>4. QED
    BY Zenon, <1>0, <1>1, <2>1, <2>2, <2>3, LoopsMove
<1>4. CASE Crash
  <2>1. Fresh'
    BY <1>4, Adopted DEF Crash, Fresh
  <2>2. QED
    BY <2>1, FreshProcess, PTL
<1>5. QED
  BY <1>2, <1>3, <1>4

\* Every step preserves the invariant.
LEMMA StepDev ==
    ASSUME DevInv, [Next]_vars
    PROVE  DevInv'
<1>1. CASE UNCHANGED vars
  BY <1>1, DeviceMoves DEF vars, DevInv
<1>2. CASE Next
  BY <1>2, LoopKeeps, ServingKeeps, TaskKeeps, DiscoveryKeeps, EnvironmentKeeps DEF Next
<1>3. QED
  BY <1>1, <1>2

\* It holds of a process that starts.
LEMMA InitDev == Init => DevInv
BY Adopted, FreshProcess DEF Init, Fresh

\* For any number of goroutines serving frames, whatever they interleave: a
\* loop nobody cancelled is the one the device holds, or a frame is about to
\* cancel it (common/ioshost/manager.go:387-595).
THEOREM OneLoopDrives == Spec => []UncancelledIsOwned
<1>1. DevInv => UncancelledIsOwned
  BY DEF DevInv
<1>2. DevInv /\ [Next]_vars => DevInv'
  BY StepDev
<1>3. QED
  BY InitDev, <1>1, <1>2, PTL DEF Spec

\* The device is reported as controlled only while a loop is connected
\* (common/ioshost/manager.go:930-1040).
THEOREM ControlIsReal == Spec => []ControlOnHasLoop
<1>1. DevInv => ControlOnHasLoop
  BY DEF DevInv
<1>2. DevInv /\ [Next]_vars => DevInv'
  BY StepDev
<1>3. QED
  BY InitDev, <1>1, <1>2, PTL DEF Spec

-----------------------------------------------------------------------------
(* Claims.                                                                 *)

\* The inductive invariant: one claim at a time holds the reservation, and a
\* claimed device has a credential.
MintInv == DevInv /\ OneMint /\ (dev.claimed => dev.cred) /\ frames \in Nat

\* A step that leaves the reservation and the claims being served alone, and
\* claims nothing.
LEMMA ClaimsRest ==
    ASSUME MintInv, DevInv', dev'.claiming = dev.claiming, dev'.claimed => dev.claimed /\ dev'.cred,
           \A h \in Handlers : tasks'[h].op = "claim" => tasks[h].op = "claim", frames' \in Nat
    PROVE  MintInv'
BY DEF MintInv, OneMint

\* startDeviceLocked touches the handle only.
LEMMA StartRests ==
    ASSUME NEW d \in Device, NEW ctx, NEW live, startDevice(d, ctx, live)
    PROVE  /\ dev'.claiming = d.claiming /\ dev'.claimed = d.claimed /\ dev'.cred = d.cred
           /\ dev'.wda = d.wda
BY DEF startDevice, Device

\* A loop tells the manager of its link, or that the token was revoked: it
\* claims nothing, and the runner stays installed.
LEMMA LoopRests ==
    ASSUME MintInv, LoopStep
    PROVE  /\ dev'.claiming = dev.claiming /\ (dev'.claimed => dev.claimed) /\ dev'.cred = dev.cred
           /\ dev.wda \in Provisioned => dev'.wda \in Provisioned
           /\ UNCHANGED <<tasks, disk, frames>>
<1>1. PICK l \in DOMAIN loops :
           LoopConnected(l) \/ LoopDisconnected(l) \/ LoopWiped(l) \/ LoopEnd(l)
  BY DEF LoopStep
<1>2. UNCHANGED <<tasks, disk, frames>>
  BY Zenon, <1>1 DEF LoopConnected, LoopDisconnected, LoopWiped, LoopEnd
<1>3. \/ \E on \in BOOLEAN : dev' = setOnline(dev, on)
      \/ dev' = [dev EXCEPT !.claimed = FALSE, !.ctlOn = FALSE]
      \/ dev' = [dev EXCEPT !.ctlOn = FALSE]
  BY Zenon, <1>1 DEF LoopConnected, LoopDisconnected, LoopWiped, LoopEnd
<1>4. ASSUME NEW on \in BOOLEAN
      PROVE  dev.wda \in Provisioned => onState(dev.wda, on) \in Provisioned
  BY DEF onState, Provisioned
<1>5. dev \in Device
  BY DEF MintInv, DevInv
<1>6. QED
  BY Zenon, <1>2, <1>3, <1>4, <1>5 DEF setOnline, Device

\* The frames: a claim reserves the device, the others reserve nothing
\* (common/ioshost/manager.go:303-595).
LEMMA ServingMints ==
    ASSUME MintInv, DevInv', NEW h \in Handlers, Serving(h)
    PROVE  MintInv' /\ frames' # frames /\ (dev'.claimed /\ disk' # disk => disk' = "cred")
<1> USE DEF Frame
<1>0. /\ dev \in Device /\ tasks \in [Handlers -> Tasks] /\ frames \in Nat
      /\ tasks[h].op # "claim" \/ tasks[h] # Idle
  BY DEF MintInv, DevInv, Idle
<1>1. frames' = frames + 1 /\ tasks[h] = Idle
  BY Zenon DEF Serving, Claim, ControlStart, ControlStop, Release, ConfigureDevice, JobStarted
<1>2. CASE Claim(h)
  <2>1. /\ ~dev.claimed /\ ~dev.claiming /\ UNCHANGED disk
        /\ tasks' = [tasks EXCEPT ![h] = [op |-> "claim", pc |-> "pair", loop |-> 0, live |-> TRUE]]
        /\ dev' = [dev EXCEPT !.claiming = TRUE]
    BY <1>2 DEF Claim, Serve
  <2>2. dev'.claiming /\ ~dev'.claimed
    BY <1>0, <2>1 DEF Device
  <2>3. \A g \in Handlers : tasks[g].op # "claim"
    BY <2>1 DEF MintInv, OneMint
  <2>4. \A g \in Handlers : g # h => tasks'[g].op # "claim"
    BY <1>0, <2>1, <2>3
  <2>5. QED
    BY <1>0, <1>1, <2>1, <2>2, <2>4 DEF MintInv, OneMint
<1>3. CASE ~Claim(h)
  <2>1. /\ dev'.claiming = dev.claiming
        /\ dev'.claimed => dev.claimed /\ dev'.cred = dev.cred
    <3>1. CASE ControlStart(h)
      <4>1. dev' = dev \/ startDevice([dev EXCEPT !.userStopped = FALSE], "stream", TRUE)
        BY Zenon, <3>1 DEF ControlStart, startRunner
      <4> DEFINE d == [dev EXCEPT !.userStopped = FALSE]
      <4>2. /\ d \in Device /\ d.claiming = dev.claiming /\ d.claimed = dev.claimed
            /\ d.cred = dev.cred
        BY Zenon, <1>0 DEF Device
      <4> HIDE DEF d
      <4>3. dev' = dev \/ startDevice(d, "stream", TRUE)
        BY Zenon, <4>1 DEF d
      <4>4. QED
        BY Zenon, <4>2, <4>3, StartRests
    <3>2. CASE \E op \in {"stop", "restart"} : ControlStop(h, op)
      BY Zenon, <1>0, <3>2 DEF ControlStop, Device
    <3>3. CASE Release(h)
      <4>1. PICK deleteCredential \in BOOLEAN :
                 dev' = [dev EXCEPT !.handle = 0, !.claimed = FALSE, !.ctlOn = FALSE,
                                    !.wda = "unspecified", !.cred = @ /\ ~deleteCredential]
        BY Zenon, <3>3 DEF Release
      <4>2. dev'.claiming = dev.claiming /\ dev'.claimed = FALSE
        BY <1>0, <4>1 DEF Device
      <4>3. QED
        BY <4>2
    <3>4. CASE \E changed \in BOOLEAN : ConfigureDevice(h, changed)
      BY <1>0, <3>4 DEF ConfigureDevice, Device
    <3>5. CASE JobStarted(h)
      BY <1>0, <3>5 DEF JobStarted, Device
    <3>6. QED
      BY <1>3, <3>1, <3>2, <3>3, <3>4, <3>5 DEF Serving
  <2>2. \A g \in Handlers : tasks'[g].op = "claim" => tasks[g].op = "claim"
    <3>1. ASSUME NEW op \in {"stop", "restart", "release", "configure"}, NEW to, NEW l,
                 Serve(h, op, to, l)
          PROVE  \A g \in Handlers : tasks'[g].op = "claim" => tasks[g].op = "claim"
      BY <1>0, <3>1 DEF Serve
    <3>2. CASE ControlStart(h) \/ JobStarted(h)
      BY <3>2 DEF ControlStart, JobStarted
    <3>3. CASE \E op \in {"stop", "restart"} : ControlStop(h, op)
      BY <3>1, <3>3 DEF ControlStop
    <3>4. CASE Release(h)
      <4>1. UNCHANGED tasks \/ Serve(h, "release", "cancel", dev.handle)
        BY <3>4 DEF Release
      <4>2. QED
        BY <3>1, <4>1
    <3>5. CASE \E changed \in BOOLEAN : ConfigureDevice(h, changed)
      BY <3>1, <3>5 DEF ConfigureDevice
    <3>6. QED
      BY <1>3, <3>2, <3>3, <3>4, <3>5 DEF Serving
  <2>3. dev'.claimed /\ disk' # disk => disk' = "cred"
    <3>1. \/ UNCHANGED disk \/ Release(h) \/ disk' = "cred"
          \/ (~dev.cred /\ \E changed \in BOOLEAN : ConfigureDevice(h, changed))
      BY <1>3 DEF Serving, ControlStart, ControlStop, JobStarted, ConfigureDevice, save
    <3>2. CASE Release(h)
      <4>1. PICK deleteCredential \in BOOLEAN :
                 dev' = [dev EXCEPT !.handle = 0, !.claimed = FALSE, !.ctlOn = FALSE,
                                    !.wda = "unspecified", !.cred = @ /\ ~deleteCredential]
        BY Zenon, <3>2 DEF Release
      <4>2. dev'.claimed = FALSE
        BY <1>0, <4>1 DEF Device
      <4>3. QED
        BY <4>2
    <3>3. QED
      BY <2>1, <3>1, <3>2 DEF MintInv
  <2>4. QED
    BY <1>0, <1>1, <2>1, <2>2, <2>3, ClaimsRest DEF MintInv
<1>4. QED
  BY <1>0, <1>1, <1>2, <1>3

\* The later steps of a frame: a claim that ends gives up the reservation it
\* held (common/ioshost/manager.go:340-595).
LEMMA TaskMints ==
    ASSUME MintInv, DevInv', NEW h \in Handlers, TaskStep(h)
    PROVE  /\ MintInv' /\ (dev'.claimed /\ disk' # disk => disk' = "cred")
           /\ dev'.wda = dev.wda
<1>0. dev \in Device /\ tasks \in [Handlers -> Tasks] /\ frames \in Nat /\ Idle.op # "claim"
  BY DEF MintInv, DevInv, Idle
<1>1. UNCHANGED frames /\ \A g \in Handlers : tasks'[g].op = "claim" => tasks[g].op = "claim"
  BY <1>0 DEF TaskStep, ClaimEnds, CancelLoop, Waited, StartAgain, Done, Tasks
<1>2. CASE ClaimEnds(h)
  <2>1. \A g \in Handlers : tasks'[g].op # "claim"
    <3>1. /\ tasks[h].op = "claim" /\ tasks' = [tasks EXCEPT ![h] = Idle]
      BY <1>2 DEF ClaimEnds, Done
    <3>2. QED
      BY <1>0, <3>1 DEF MintInv, OneMint
  <2>2. ~dev.claimed
    BY <1>2 DEF ClaimEnds, MintInv, OneMint
  <2>3. CASE dev' = [dev EXCEPT !.claiming = FALSE]
    <3>1. ~dev'.claimed /\ dev'.wda = dev.wda
      BY <1>0, <2>2, <2>3 DEF Device
    <3>2. QED
      BY <1>0, <1>1, <2>1, <3>1 DEF MintInv, OneMint
  <2>4. CASE /\ save("cred")
             /\ startDevice([dev EXCEPT !.claiming = FALSE, !.claimed = TRUE, !.cred = TRUE],
                            "stream", tasks[h].live)
    <3> DEFINE d == [dev EXCEPT !.claiming = FALSE, !.claimed = TRUE, !.cred = TRUE]
    <3>1. d \in Device /\ d.cred = TRUE /\ d.wda = dev.wda
      BY Zenon, <1>0 DEF Device
    <3>2. startDevice(d, "stream", tasks[h].live)
      BY <2>4
    <3> HIDE DEF d
    <3>3. dev'.cred = TRUE /\ dev'.wda = dev.wda
      BY <3>1, <3>2, StartRests
    <3>4. disk' # disk => disk' = "cred"
      BY <2>4 DEF save
    <3>5. QED
      BY <1>0, <1>1, <2>1, <3>3, <3>4 DEF MintInv, OneMint
  <2>5. QED
    BY <1>2, <2>3, <2>4 DEF ClaimEnds
<1>3. CASE CancelLoop(h) \/ Waited(h) \/ StartAgain(h)
  <2>1. UNCHANGED disk /\ (dev' = dev \/ startDevice(dev, "stream", tasks[h].live))
    BY <1>3 DEF CancelLoop, Waited, StartAgain
  <2>2. /\ dev'.claiming = dev.claiming /\ dev'.claimed = dev.claimed /\ dev'.cred = dev.cred
        /\ dev'.wda = dev.wda
    BY <1>0, <2>1, StartRests
  <2>3. QED
    BY <1>0, <1>1, <2>1, <2>2, ClaimsRest DEF MintInv
<1>4. QED
  BY <1>2, <1>3 DEF TaskStep

\* Jobs, discovery and the prober claim nothing, and only a job takes the badge
\* of an installed runner away.
LEMMA DiscoveryMints ==
    ASSUME MintInv, DevInv',
           \/ JobResult \/ probeCollect \/ probeStart \/ StartClaimedDevices
           \/ \E b \in BOOLEAN : applySnapshot(b) \/ applyEvent(b)
    PROVE  /\ MintInv' /\ UNCHANGED disk
           /\ dev.wda \in Provisioned => dev'.wda \in Provisioned \/ job' # job
<1>0. dev \in Device /\ tasks \in [Handlers -> Tasks] /\ frames \in Nat
  BY DEF MintInv, DevInv
<1>1. UNCHANGED <<disk, tasks, frames>>
  BY Zenon DEF JobResult, probeCollect, probeStart, StartClaimedDevices, applySnapshot, applyEvent
<1>2. ASSUME dev'.claiming = dev.claiming, dev'.claimed = dev.claimed, dev'.cred = dev.cred,
             dev.wda \in Provisioned => dev'.wda \in Provisioned \/ job' # job
      PROVE  /\ MintInv' /\ UNCHANGED disk
             /\ dev.wda \in Provisioned => dev'.wda \in Provisioned \/ job' # job
  BY <1>0, <1>1, <1>2, ClaimsRest DEF MintInv
<1>3. CASE JobResult
  <2>1. job' # job /\ \E w : dev' = [dev EXCEPT !.wda = w]
    BY Zenon, <1>3 DEF JobResult
  <2>2. QED
    BY <1>0, <1>2, <2>1 DEF Device
<1>4. CASE probeCollect
  BY <1>2, <1>4 DEF probeCollect
<1>5. CASE probeStart
  <2> DEFINE d == [dev EXCEPT !.userStopped = FALSE]
  <2>1. /\ d \in Device /\ d.claiming = dev.claiming /\ d.claimed = dev.claimed
        /\ d.cred = dev.cred /\ d.wda = dev.wda
    BY Zenon, <1>0 DEF Device
  <2>2. dev' = dev \/ startDevice(d, "process", TRUE)
    BY Zenon, <1>5 DEF probeStart, startRunner
  <2> HIDE DEF d
  <2>3. QED
    BY Zenon, <1>2, <2>1, <2>2, StartRests
<1>6. CASE StartClaimedDevices
  BY Zenon, <1>0, <1>2, <1>6, StartRests DEF StartClaimedDevices
<1>7. ASSUME NEW b \in BOOLEAN, applySnapshot(b)
      PROVE  /\ MintInv' /\ UNCHANGED disk
             /\ dev.wda \in Provisioned => dev'.wda \in Provisioned \/ job' # job
  <2>1. PICK e \in Expiries :
             dev' = [dev EXCEPT !.known = @ \/ b, !.present = b, !.wda = refreshWdaExpiry(dev.wda, e)]
    BY Zenon, <1>7 DEF applySnapshot
  <2>2. dev.wda \in Provisioned => refreshWdaExpiry(dev.wda, e) \in Provisioned
    BY DEF refreshWdaExpiry, Provisioned
  <2> DEFINE k == dev.known \/ b
             w == refreshWdaExpiry(dev.wda, e)
  <2>3. dev' = [dev EXCEPT !.known = k, !.present = b, !.wda = w]
    BY <2>1
  <2>4. dev.wda \in Provisioned => w \in Provisioned
    BY <2>2
  <2> HIDE DEF k, w
  <2>5. QED
    BY <1>0, <1>2, <2>3, <2>4 DEF Device
<1>8. ASSUME NEW b \in BOOLEAN, applyEvent(b)
      PROVE  /\ MintInv' /\ UNCHANGED disk
             /\ dev.wda \in Provisioned => dev'.wda \in Provisioned \/ job' # job
  <2>1. dev' \in {dev, [dev EXCEPT !.userStopped = FALSE],
                  [dev EXCEPT !.present = FALSE, !.ctlOn = FALSE]}
    BY <1>8 DEF applyEvent
  <2>2. QED
    BY Zenon, <1>0, <1>2, <2>1 DEF Device
<1>9. QED
  BY <1>3, <1>4, <1>5, <1>6, <1>7, <1>8

\* The environment: a new process has what devices.json holds
\* (common/ioshost/manager.go:237-302).
LEMMA EnvironmentMints ==
    ASSUME MintInv, DevInv', StreamBreaks \/ Stop \/ Crash
    PROVE  MintInv' /\ UNCHANGED disk /\ (dev' = dev \/ dev' = adoptConfigured)
<1>0. dev \in Device /\ tasks \in [Handlers -> Tasks] /\ frames \in Nat
  BY DEF MintInv, DevInv
<1>1. CASE StreamBreaks
  <2>1. UNCHANGED <<dev, disk, frames>>
    BY <1>1 DEF StreamBreaks
  <2>2. \A h \in Handlers : tasks'[h].op = tasks[h].op
    BY <1>0, <1>1 DEF StreamBreaks, Tasks
  <2>3. QED
    BY <1>0, <2>1, <2>2, ClaimsRest DEF MintInv
<1>2. CASE Stop
  <2>1. UNCHANGED <<dev, disk, frames, tasks>>
    BY <1>2 DEF Stop
  <2>2. QED
    BY <1>0, <2>1, ClaimsRest DEF MintInv
<1>3. CASE Crash
  <2>1. UNCHANGED <<disk, frames>> /\ dev' = adoptConfigured
    BY <1>3 DEF Crash
  <2>2. dev'.claimed => dev'.cred
    BY <2>1 DEF adoptConfigured
  <2>3. \A h \in Handlers : tasks'[h].op # "claim"
    BY <1>3 DEF Crash, Idle
  <2>4. QED
    BY <1>0, <2>1, <2>2, <2>3 DEF MintInv, OneMint
<1>4. QED
  BY <1>1, <1>2, <1>3

\* What a step keeps, and may not do.
LEMMA StepMint ==
    ASSUME MintInv, [Next]_vars
    PROVE  /\ MintInv'
           /\ dev'.claimed /\ disk' # disk => disk' = "cred"
           /\ dev.wda \in Provisioned /\ dev'.wda \notin Provisioned =>
                frames' # frames \/ job' # job \/ dev' = adoptConfigured
<1>0. DevInv'
  BY StepDev DEF MintInv
<1>1. CASE UNCHANGED vars
  BY <1>0, <1>1, ClaimsRest DEF vars, MintInv
<1>2. CASE LoopStep
  <2>1. MintInv'
    BY <1>0, <1>2, LoopRests, ClaimsRest DEF MintInv
  <2>2. QED
    BY <1>2, <2>1, LoopRests
<1>3. ASSUME NEW h \in Handlers, Serving(h) \/ TaskStep(h)
      PROVE  /\ MintInv'
             /\ dev'.claimed /\ disk' # disk => disk' = "cred"
             /\ dev.wda \in Provisioned /\ dev'.wda \notin Provisioned => frames' # frames
  BY <1>0, <1>3, ServingMints, TaskMints
<1>4. CASE \/ JobResult \/ probeCollect \/ probeStart \/ StartClaimedDevices
           \/ \E b \in BOOLEAN : applySnapshot(b) \/ applyEvent(b)
  BY <1>0, <1>4, DiscoveryMints
<1>5. CASE StreamBreaks \/ Stop \/ Crash
  BY <1>0, <1>5, EnvironmentMints
<1>6. QED
  BY <1>1, <1>2, <1>3, <1>4, <1>5 DEF Next

\* It holds of a process that starts.
LEMMA InitMint == Init => MintInv
<1> SUFFICES ASSUME Init PROVE MintInv
  OBVIOUS
<1>1. DevInv
  BY InitDev
<1>2. (dev.claimed => dev.cred) /\ frames \in Nat
  BY DEF Init, adoptConfigured
<1>3. OneMint
  BY DEF Init, Idle, OneMint
<1>4. QED
  BY <1>1, <1>2, <1>3 DEF MintInv

\* A phone's pairing code is redeemed by one claim at a time, and by none while
\* the phone is claimed (common/ioshost/manager.go:303-386).
THEOREM OneClaim == Spec => []OneMint
<1>1. MintInv => OneMint
  BY DEF MintInv
<1>2. MintInv /\ [Next]_vars => MintInv'
  BY StepMint
<1>3. QED
  BY InitMint, <1>1, <1>2, PTL DEF Spec

\* While the device is claimed, whatever is written to devices.json keeps its
\* credential (common/ioshost/manager.go:303-595).
THEOREM ClaimSurvives == Spec => ClaimIsPersisted
<1>1. MintInv /\ [Next]_vars => MintInv'
  BY StepMint
<1>2. MintInv /\ [Next]_vars => [dev'.claimed /\ disk' # disk => disk' = "cred"]_vars
  BY StepMint
<1>3. QED
  BY InitMint, <1>1, <1>2, PTL DEF Spec, ClaimIsPersisted

\* The link, discovery and the clock never lose the fact that the runner is
\* installed (common/ioshost/manager.go:805-838, 987-1140).
THEOREM RunnerStaysInstalled == Spec => InstalledIsKept
<1>1. MintInv /\ [Next]_vars => MintInv'
  BY StepMint
<1>2. MintInv /\ [Next]_vars =>
        [dev.wda \in Provisioned /\ dev'.wda \notin Provisioned =>
           frames' # frames \/ job' # job \/ dev' = adoptConfigured]_vars
  BY StepMint
<1>3. QED
  BY InitMint, <1>1, <1>2, PTL DEF Spec, InstalledIsKept

-----------------------------------------------------------------------------
(* WDA jobs.                                                               *)

\* The inductive invariant.  A goroutine that runs a job has it in the table,
\* so the job that the dispatch loop registered and has not launched is not
\* deleted under it.
WdaInv ==
    /\ table \subseteq Jobs
    /\ pc \in [Jobs -> Running \cup {"none", "resume"}]
    /\ disp \in {<<"idle">>} \cup ({"start", "pause", "go"} \X Jobs)
    /\ \A j \in Jobs : pc[j] \in Running => j \in table
    /\ \A j \in Jobs : disp \in {<<"pause", j>>, <<"go", j>>} =>
                          j \in table /\ pc[j] \notin Running
    /\ PausedHasJob

\* What a goroutine does until its job is over changes only its own counter.
LEMMA WorkingKeeps ==
    ASSUME WdaInv, NEW j \in Jobs, NEW to \in Running, pc[j] \in Running,
           pc' = [pc EXCEPT ![j] = to], UNCHANGED <<table, disp, paused>>
    PROVE  WdaInv'
<1>1. ~(pc[j] = "resume") /\ ~(to = "resume")
  BY DEF Running, Stages
<1>2. PausedHasJob'
  BY <1>1 DEF WdaInv, PausedHasJob
<1>3. QED
  BY <1>2 DEF WdaInv

\* Such are all steps but the last ones (common/ioshost/wdajob.go:275-590).
LEMMA WorkingSteps ==
    ASSUME WdaInv, NEW j \in Jobs,
           \/ Queued(j) \/ WaitForDevice(j) \/ Check(j) \/ Stage(j) \/ LaunchStage(j)
           \/ Finish(j) \/ Terminal(j)
    PROVE  WdaInv'
<1>1. ASSUME NEW stage \in Stages, NEW next \in After(stage) PROVE next \in Running
  BY <1>1 DEF Stages, After, Running
<1>2. /\ Running = Stages \cup {"queued", "wait", "check", "launch", "finish", "terminal",
                                "delete"}
      /\ "fetch" \in Stages
  BY DEF Running, Stages
<1>3. /\ pc[j] \in Running /\ UNCHANGED <<table, disp, paused>>
      /\ \E to \in Running : pc' = [pc EXCEPT ![j] = to]
  <2>1. CASE Queued(j)
    BY Zenon, Zenon, <1>2, <2>1 DEF Queued, At, Local, To, Ends
  <2>2. CASE WaitForDevice(j)
    BY Zenon, Zenon, <1>2, <2>2 DEF WaitForDevice, At, Local, To, Ends
  <2>3. CASE Check(j)
    BY Zenon, Zenon, <1>2, <2>3 DEF Check, At, Local, To, Ends
  <2>4. CASE Stage(j)
    BY Zenon, Zenon, <1>1, <1>2, <2>4 DEF Stage, At, Local, To, Ends
  <2>5. CASE LaunchStage(j)
    BY Zenon, Zenon, <1>2, <2>5 DEF LaunchStage, At, Local, To, Ends
  <2>6. CASE Finish(j)
    BY Zenon, Zenon, <1>2, <2>6 DEF Finish, At, To
  <2>7. CASE Terminal(j)
    BY Zenon, Zenon, <1>2, <2>7 DEF Terminal, At, To
  <2>8. QED
    BY <2>1, <2>2, <2>3, <2>4, <2>5, <2>6, <2>7
<1>4. QED
  BY Zenon, <1>3, WorkingKeeps

\* Every step of the dispatch loop and of the jobs' goroutines preserves it.
LEMMA StepWda ==
    ASSUME WdaInv, [WdaNext]_wdaVars
    PROVE  WdaInv'
<1>1. ASSUME NEW j \in Jobs, Start(j) PROVE WdaInv'
  BY <1>1 DEF Start, WdaInv, PausedHasJob
<1>2. CASE Pause
  <2>1. PICK j \in Jobs : disp = <<"pause", j>> /\ disp' = <<"go", j>> /\ paused' = TRUE
    BY <1>2 DEF Pause, WdaInv
  <2>2. UNCHANGED <<table, pc>> /\ j \in table
    BY <1>2, <2>1 DEF Pause, WdaInv
  <2>3. QED
    BY <2>1, <2>2 DEF WdaInv, PausedHasJob
<1>3. CASE Launch
  <2>1. PICK j \in Jobs : disp = <<"go", j>> /\ pc[j] = "none" /\ pc' = [pc EXCEPT ![j] = "queued"]
    <3>1. PICK j \in Jobs : disp = <<"go", j>>
      BY <1>3 DEF Launch, WdaInv
    <3>2. disp[2] = j
      BY <3>1
    <3>3. QED
      BY Zenon, Zenon, <1>3, <3>1, <3>2 DEF Launch
  <2>2. UNCHANGED <<table, paused>> /\ disp' = <<"idle">> /\ j \in table
    BY <1>3, <2>1 DEF Launch, WdaInv
  <2>3. "queued" \in Running
    BY DEF Running
  <2>4. QED
    BY <2>1, <2>2, <2>3 DEF WdaInv, PausedHasJob
<1>4. ASSUME NEW j \in Jobs, Delete(j) PROVE WdaInv'
  <2>1. /\ pc[j] = "delete" /\ table' = table \ {j} /\ UNCHANGED <<disp, paused>>
        /\ pc' = [pc EXCEPT ![j] = IF table = {j} THEN "resume" ELSE "none"]
    BY <1>4 DEF Delete, To
  <2>2. "delete" \in Running /\ "none" \notin Running /\ "resume" \notin Running
    BY DEF Running, Stages
  <2>3. PausedHasJob'
    BY <2>1, <2>2 DEF WdaInv, PausedHasJob
  <2>4. QED
    BY <2>1, <2>2, <2>3 DEF WdaInv
<1>5. ASSUME NEW j \in Jobs, Resume(j) PROVE WdaInv'
  <2>1. /\ pc[j] = "resume" /\ pc' = [pc EXCEPT ![j] = "none"] /\ paused' = FALSE
        /\ UNCHANGED <<disp, table>>
    BY <1>5 DEF Resume, At, To
  <2>2. "none" \notin Running
    BY DEF Running, Stages
  <2>3. QED
    BY <2>1, <2>2 DEF WdaInv, PausedHasJob
<1>6. ASSUME NEW j \in Jobs, WdaJobFrame(j) PROVE WdaInv'
  BY <1>6 DEF WdaJobFrame, WdaInv, PausedHasJob
<1>7. ASSUME NEW j \in Jobs, Cancel(j) PROVE WdaInv'
  BY <1>7 DEF Cancel, WdaInv, PausedHasJob
<1>8. CASE Presence \/ ControlLink \/ Expire \/ UNCHANGED wdaVars
  <2>1. UNCHANGED <<table, pc, disp, paused>>
    BY <1>8 DEF Presence, ControlLink, Expire, wdaVars
  <2>2. QED
    BY <2>1 DEF WdaInv, PausedHasJob
<1>9. QED
  BY <1>1, <1>2, <1>3, <1>4, <1>5, <1>6, <1>7, <1>8, WorkingSteps
     DEF WdaNext, Dispatch, JobStep

\* For any jobs: the tunnel agent is paused only while a job is registered or
\* one is about to resume it, in whatever order the calls of OnActiveChanged
\* arrive (common/ioshost/wdajob.go:177-226).
THEOREM PausedForAJob == WdaSpec => []PausedHasJob
<1>1. WdaInit => WdaInv
  BY DEF WdaInit, WdaInv, PausedHasJob, Running, Stages
<1>2. WdaInv => PausedHasJob
  BY DEF WdaInv
<1>3. WdaInv /\ [WdaNext]_wdaVars => WdaInv'
  BY StepWda
<1>4. QED
  BY <1>1, <1>2, <1>3, PTL DEF WdaSpec
=============================================================================
