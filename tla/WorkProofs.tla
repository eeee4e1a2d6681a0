----------------------------- MODULE WorkProofs -----------------------------
(***************************************************************************)
(* Proofs about what a node runs and keeps, a section each: the session    *)
(* runtime (SessionRuntime), for any number of runs, connection losses and *)
(* chunks; the provisioning of workspaces (Provisioning), for any numbers  *)
(* of creates and configurations; launched execution nodes (Launch); the   *)
(* resource cache (ResourceCache), for archives of every length; and       *)
(* staged installs (StagedInstall).                                        *)
(***************************************************************************)
EXTENDS SessionRuntime, Provisioning, Launch, ResourceCache, StagedInstall, TLAPS


-----------------------------------------------------------------------------
(* The session runtime.                                                    *)

\* A run that has left the session's state for good.
Over == {"stop", "close", "closed"}

\* The inductive invariant.  Runs not started yet have done nothing, and run()
\* gets to its tail only with the process gone.  As long as the connection has
\* not been lost and nothing starts by itself, every run but the current one is
\* over, and the current one too unless the state is running: this is what lets
\* markStopped, which does not know whose state it changes, be right.
RtInv ==
    /\ caller \in [Runs -> {"idle", "spawning", "pumping", "drain", "drained", "stopped"}]
    /\ tail \in [Runs -> TailStates]
    /\ cur \in 0 .. MaxRuns /\ drops \in Nat
    /\ \A r \in Runs : r > cur => caller[r] = "idle" /\ tail[r] = "report"
    /\ \A r \in Runs : tail[r] # "report" => caller[r] \in {"drained", "stopped"}
    /\ RunningIsLive
    /\ up = TRUE \/ drops > 0
    /\ drops = 0 /\ autoStart = FALSE =>
          /\ prov \in {"prep", "done"}
          /\ disp = "restartWait" => target = cur
          /\ \A r \in Runs : r < cur => tail[r] \in Over
          /\ cur > 0 /\ state # "running" => tail[cur] \in Over

\* A session just registered satisfies the invariant.
LEMMA InitRt == Init => RtInv
BY SessionAssumption
   DEF Init, RtInv, Q!Init, Runs, TailStates, RunningIsLive

\* Every step of the provisioning goroutine, the dispatch loop, the runs and
\* the connection preserves it (execution/session.go:541-796, 1738-1806).
LEMMA StepRt == RtInv /\ [Next]_svars => RtInv'
<1> SUFFICES ASSUME RtInv, [Next]_svars PROVE RtInv'
  OBVIOUS
<1> USE SessionAssumption
    DEF RtInv, Over, Runs, TailStates, RunningIsLive, queueRest, queueAll, sessionVars,
        actorVars, ghostVars
<1>1. CASE removeFailedSession
  BY <1>1 DEF removeFailedSession
<1>2. CASE provisioned
  BY <1>2 DEF provisioned
<1>3. CASE autoStartLookup
  BY <1>3 DEF autoStartLookup
<1>4. CASE autoStartApply
  BY <1>4 DEF autoStartApply, startRuntime
<1>5. CASE startFrame
  BY <1>5 DEF startFrame, startRuntime
<1>6. CASE restartFrame
  BY <1>6 DEF restartFrame, cancelRun
<1>7. CASE restartWaited
  BY <1>7 DEF restartWaited, RunDone
<1>8. CASE restartStart
  BY <1>8 DEF restartStart, startRuntime
<1>9. CASE deleteFrame
  BY <1>9 DEF deleteFrame
<1>10. CASE sessionCancel
  BY <1>10 DEF sessionCancel
<1>11. CASE deleteWaited
  BY <1>11 DEF deleteWaited
<1>12. CASE stopAll
  BY <1>12 DEF stopAll, cancelRun
<1>13. CASE reconnect
  BY <1>13 DEF reconnect
<1>14. CASE streamDown
  BY <1>14 DEF streamDown, Q!streamDown
<1>15. ASSUME NEW r \in Runs, runSpawn(r) PROVE RtInv'
  BY <1>15 DEF runSpawn, Q!start, Q!spawn, Q!spawnFail
<1>16. ASSUME NEW r \in Runs, runAppend(r) PROVE RtInv'
  BY <1>16 DEF runAppend, Q!append
<1>17. ASSUME NEW r \in Runs, runExit(r) PROVE RtInv'
  BY <1>17 DEF runExit, Q!exit
<1>18. ASSUME NEW r \in Runs, runDrain(r) PROVE RtInv'
  BY <1>18 DEF runDrain, Q!drain
<1>19. ASSUME NEW r \in Runs, reportResult(r) PROVE RtInv'
  BY <1>19 DEF reportResult
<1>20. ASSUME NEW r \in Runs, markStopped(r) PROVE RtInv'
  BY <1>20 DEF markStopped
<1>21. ASSUME NEW r \in Runs, runStop(r) PROVE RtInv'
  BY <1>21 DEF runStop, Q!stop
<1>22. ASSUME NEW r \in Runs, closeDone(r) PROVE RtInv'
  BY <1>22 DEF closeDone
<1>23. ASSUME NEW r \in Runs, runFlush(r) PROVE RtInv'
  BY <1>23 DEF runFlush, Q!flush, Q!flushCheck, Q!flushSend, Q!flushFail, Q!flushBackoff, Q!flushPop
<1>24. ASSUME NEW r \in Runs, runClings(r) PROVE RtInv'
  BY <1>24 DEF runClings
<1>25. CASE UNCHANGED svars
  BY <1>25 DEF svars
<1>26. QED
  BY Zenon, <1>1, <1>2, <1>3, <1>4, <1>5, <1>6, <1>7, <1>8, <1>9, <1>10, <1>11,
     <1>12, <1>13, <1>14, <1>15, <1>16, <1>17, <1>18, <1>19, <1>20, <1>21,
     <1>22, <1>23, <1>24, <1>25
     DEF Next, Provisioner, DispatcherWork, Commands, Run, runTail

\* A session in state running has a run that is not over
\* (execution/session.go:607-610, 787-796).
THEOREM RunningMeansLive == Spec => []RunningIsLive
<1>1. RtInv => RunningIsLive
  BY DEF RtInv
<1>2. QED
  BY InitRt, StepRt, <1>1, PTL DEF Spec

\* Until the connection is lost, a session the server starts itself has no
\* editor but the current run's (execution/session.go:32-34, 606-655).
THEOREM OneEditor == Spec => []OneEditorUntilDrop
<1>1. RtInv => OneEditorUntilDrop
  BY SessionAssumption DEF RtInv, OneEditorUntilDrop, Alive, Over, Runs
<1>2. QED
  BY InitRt, StepRt, <1>1, PTL DEF Spec

-----------------------------------------------------------------------------
(* The provisioning of a workspace.                                        *)

\* Git's record of a tree that is gone is one a prune is about to remove, or
\* one of a cut operation; it has none of a clone.
TreeInv ==
    /\ tree = "absent" /\ reg /\ provDisp # "prune" => torn
    /\ reg => mode = "worktree"

\* The map holds sessions that were created, under their own ids; while a delete
\* is under way the id of its session is not in it, since creates wait for the
\* dispatch loop; and the sessions of no task that share a tree share the id.
MapInv ==
    /\ sessions \in [SessionIds -> {0} \cup Ids]
    /\ sessionID \in [Ids -> SessionIds]
    /\ provPc \in [Ids -> {"none", "checkout", "config", "flip", "done"}]
    /\ \A s \in SessionIds :
          sessions[s] # 0 => Created(sessions[s]) /\ sessionID[sessions[s]] = s
    /\ provDisp # "idle" =>
          victim \in Ids /\ Created(victim) /\ sessions[sessionID[victim]] = 0
    /\ mode = "own" =>
          \A i, j \in Ids : Created(i) /\ Created(j) => sessionID[i] = sessionID[j]

ProvInv == TreeInv /\ MapInv

\* Before the first create there is nothing.
LEMMA InitProv == ProvInit => ProvInv
<1> SUFFICES ASSUME ProvInit PROVE ProvInv
  OBVIOUS
<1>1. (CHOOSE s \in SessionIds : TRUE) \in SessionIds
  BY IdsAssumption
<1>2. QED
  BY <1>1 DEF ProvInit, ProvInv, TreeInv, MapInv, Created

\* The provisioning goroutine makes a tree only where none is
\* (execution/worktree.go:165-235, git_workspace.go:46-81).
LEMMA CheckoutTree ==
    ASSUME NEW i \in Ids, Checkout(i)
    PROVE  /\ provDisp' = provDisp /\ repo' = repo /\ mode' = mode
           /\ reg' # reg => mode = "worktree"
           /\ \/ UNCHANGED <<tree, reg, torn>>
              \/ /\ tree = "absent"
                 /\ \/ UNCHANGED <<reg, torn>>
                    \/ tree' # "absent" /\ torn' = torn
                    \/ torn'
<1>1. CASE mode # "worktree" /\ provisionGit(i)
  BY <1>1 DEF Checkout, delVars, provisionGit, ResetStaleWorkspace, GitClone,
              HostWorkspaceInitialized
<1>2. CASE mode = "worktree" /\ prepareWorktree(i)
  BY <1>2 DEF Checkout, delVars, prepareWorktree, WorktreeAdd, WorktreeCut,
              HostWorkspaceInitialized
<1>3. QED
  BY <1>1, <1>2 DEF Checkout

\* A step of a provisioning goroutine changes the map only to take its own id
\* out of it (execution/session.go:541-610).
LEMMA ProvisionMap ==
    ASSUME MapInv, NEW i \in Ids, Provision(i)
    PROVE  /\ \A s \in SessionIds : sessions'[s] \in {0, sessions[s]}
           /\ sessions' \in [SessionIds -> {0} \cup Ids]
           /\ \E l \in {"config", "flip", "done"} : provPc' = [provPc EXCEPT ![i] = l]
           /\ Created(i)
           /\ UNCHANGED <<mode, sessionID, provDisp, victim>>
<1>1. CASE Checkout(i)
  <2>1. \E l \in {"config", "done"} : provPc' = [provPc EXCEPT ![i] = l]
    BY <1>1 DEF Checkout, provisionGit, ResetStaleWorkspace, GitClone, prepareWorktree, WorktreeAdd
  <2>2. sessions' = removeFailed(i) /\ provPc[i] = "checkout"
        /\ UNCHANGED <<mode, sessionID, provDisp, victim>>
    BY <1>1 DEF Checkout, delVars
  <2>3. sessions' \in {sessions, [sessions EXCEPT ![sessionID[i]] = 0]}
    BY <2>2 DEF removeFailed
  <2>4. sessions \in [SessionIds -> {0} \cup Ids]
    BY Zenon DEF MapInv
  <2>5. /\ \A s \in SessionIds : sessions'[s] \in {0, sessions[s]}
        /\ sessions' \in [SessionIds -> {0} \cup Ids]
    BY <2>3, <2>4
  <2>6. \E l \in {"config", "flip", "done"} : provPc' = [provPc EXCEPT ![i] = l]
    BY Zenon, <2>1
  <2>7. Created(i)
    BY <2>2 DEF Created
  <2>8. QED
    BY Zenon, <2>2, <2>5, <2>6, <2>7
<1>2. CASE applyInitialConfig(i) \/ Flip(i)
  BY <1>2 DEF MapInv, applyInitialConfig, Flip, delVars, Created
<1>3. QED
  BY <1>1, <1>2 DEF Provision

\* Every step keeps git's record right: the delete prunes what it removed, and
\* what is cut or fails half-way is marked.
LEMMA StepTree == TreeInv /\ [ProvNext]_provVars => TreeInv'
<1> SUFFICES ASSUME TreeInv, [ProvNext]_provVars PROVE TreeInv'
  OBVIOUS
<1> USE DEF TreeInv, treeVars, delVars
<1>1. CASE \E i \in Ids, s \in SessionIds : create(i, s)
  BY <1>1 DEF create, Register
<1>2. CASE \E i \in Ids : Checkout(i)
  BY <1>2, CheckoutTree
<1>3. CASE \E i \in Ids : applyInitialConfig(i) \/ Flip(i)
  <2>1. UNCHANGED <<mode, provDisp, tree, reg, torn>>
    BY Zenon, <1>3 DEF applyInitialConfig, Flip
  <2>2. QED
    BY <2>1
<1>4. CASE (\E s \in SessionIds, k \in Kinds : Configure(s, k)) \/ EditorWrites \/ ensureEnvRepo
  BY <1>4 DEF Configure, EditorWrites, ensureEnvRepo
<1>5. CASE RemoveEnv
  BY Zenon, <1>5 DEF RemoveEnv
<1>6. CASE \E s \in SessionIds : delete(s)
  <2>1. UNCHANGED <<mode, tree, reg, torn>> /\ provDisp = "idle"
    BY Zenon, <1>6 DEF delete, Idle
  <2>2. QED
    BY <2>1
<1>7. CASE RemoveRuntimeDir
  <2>1. /\ provDisp = "runtime" /\ reg' = reg /\ torn' = torn /\ mode' = mode
        /\ mode # "own" => tree' = tree
    BY Zenon, <1>7 DEF RemoveRuntimeDir
  <2>2. QED
    BY <2>1
<1>8. CASE RemoveTree
  BY <1>8 DEF RemoveTree, DeleteGoesTo
<1>9. CASE Prune
  <2>1. UNCHANGED <<mode, tree>>
    BY <1>9 DEF Prune
  <2>2. (reg' => reg /\ tree # "absent") \/ (torn' = TRUE /\ reg' = reg)
    BY Zenon, <1>9 DEF Prune
  <2>3. QED
    BY <2>1, <2>2
<1>10. CASE ProvRestart
  <2>1. mode' = mode /\ (reg' = reg \/ mode = "worktree")
    BY <1>10 DEF ProvRestart
  <2>2. tree' = "absent" /\ reg' => torn'
    <3>1. CASE torn' = (torn \/ ~Idle) /\ UNCHANGED <<tree, reg>>
      <4>1. provDisp = "prune" => torn'
        BY Zenon, <3>1 DEF Idle
      <4>2. torn => torn'
        BY Zenon, <3>1
      <4>3. QED
        BY <3>1, <4>1, <4>2
    <3>2. CASE tree' = "partial"
      BY <3>2
    <3>3. CASE torn' = TRUE
      BY <3>3
    <3>4. QED
      BY Zenon, <1>10, <3>1, <3>2, <3>3 DEF ProvRestart, WorktreeCut
  <2>3. QED
    BY <2>1, <2>2
<1>11. CASE UNCHANGED provVars
  BY <1>11 DEF provVars
<1>12. QED
  BY <1>1, <1>2, <1>3, <1>4, <1>5, <1>6, <1>7, <1>8, <1>9, <1>10, <1>11 DEF ProvNext, Provision

\* Every step keeps the map right: create and delete exclude each other in the
\* dispatch loop (execution/session.go:232-381, 1738-1806).
LEMMA StepMap == MapInv /\ [ProvNext]_provVars => MapInv'
<1> SUFFICES ASSUME MapInv, [ProvNext]_provVars PROVE MapInv'
  OBVIOUS
<1>1. ASSUME NEW i \in Ids, NEW s \in SessionIds, create(i, s) PROVE MapInv'
  <2>1. /\ provDisp' = "idle" /\ mode' = mode /\ ~Created(i)
        /\ sessions' = [sessions EXCEPT ![s] = i]
        /\ sessionID' = [sessionID EXCEPT ![i] = s]
        /\ provPc' = [provPc EXCEPT ![i] = "checkout"]
        /\ mode = "own" => \A j \in Ids : Created(j) => sessionID[j] = s
    BY Zenon, <1>1 DEF create, Register, NextUnder, Idle, delVars
  <2>2. \A j \in Ids : j # i => sessionID'[j] = sessionID[j] /\ provPc'[j] = provPc[j]
    BY <2>1 DEF MapInv
  <2>3. sessionID'[i] = s /\ provPc'[i] = "checkout"
    BY <2>1 DEF MapInv
  <2>4. /\ sessions' \in [SessionIds -> {0} \cup Ids] /\ sessionID' \in [Ids -> SessionIds]
        /\ provPc' \in [Ids -> {"none", "checkout", "config", "flip", "done"}]
    BY <2>1 DEF MapInv
  <2>5. ASSUME NEW t \in SessionIds, sessions'[t] # 0
        PROVE  provPc'[sessions'[t]] # "none" /\ sessionID'[sessions'[t]] = t
    <3>1. CASE t = s
      BY <2>1, <2>3, <3>1 DEF MapInv
    <3>2. CASE t # s
      BY <2>1, <2>2, <2>5, <3>2 DEF MapInv, Created
    <3>3. QED
      BY <3>1, <3>2
  <2>6. mode = "own" => \A j \in Ids : provPc'[j] # "none" => sessionID'[j] = s
    BY <2>1, <2>2, <2>3 DEF Created
  <2>7. QED
    BY <2>1, <2>4, <2>5, <2>6 DEF MapInv, Created
<1>2. ASSUME NEW i \in Ids, Provision(i) PROVE MapInv'
  <2>1. PICK l \in {"config", "flip", "done"} : provPc' = [provPc EXCEPT ![i] = l]
    BY <1>2, ProvisionMap
  <2>2. provPc \in [Ids -> {"none", "checkout", "config", "flip", "done"}] /\ provPc[i] # "none"
    BY Zenon, <1>2, ProvisionMap DEF MapInv, Created
  <2>3. /\ \A j \in Ids : provPc'[j] # "none" <=> provPc[j] # "none"
        /\ provPc' \in [Ids -> {"none", "checkout", "config", "flip", "done"}]
    BY <2>1, <2>2
  <2>4. /\ UNCHANGED <<mode, sessionID, provDisp, victim>>
        /\ \A s \in SessionIds : sessions'[s] \in {0, sessions[s]}
        /\ sessions' \in [SessionIds -> {0} \cup Ids]
    BY Zenon, <1>2, ProvisionMap
  <2>5. QED
    BY <2>3, <2>4 DEF MapInv, Created
<1>3. ASSUME NEW s \in SessionIds, delete(s) PROVE MapInv'
  <2>1. /\ sessions[s] # 0 /\ victim' = sessions[s]
        /\ sessions' = [sessions EXCEPT ![s] = 0]
        /\ UNCHANGED <<mode, sessionID, provPc>>
    BY Zenon, <1>3 DEF delete
  <2>2. sessions[s] \in Ids /\ Created(sessions[s]) /\ sessionID[sessions[s]] = s
    BY <2>1 DEF MapInv
  <2>3. sessions' \in [SessionIds -> {0} \cup Ids] /\ sessions'[s] = 0
    BY <2>1 DEF MapInv
  <2>4. \A t \in SessionIds : sessions'[t] \in {0, sessions[t]}
    BY <2>1 DEF MapInv
  <2>5. QED
    BY <2>1, <2>2, <2>3, <2>4 DEF MapInv, Created
<1>4. CASE RemoveRuntimeDir \/ RemoveTree \/ Prune
  <2>1. UNCHANGED <<mode, sessions, sessionID, provPc>>
    BY Zenon, <1>4 DEF RemoveRuntimeDir, RemoveTree, Prune, sessVars
  <2>2. provDisp' # "idle" => provDisp # "idle" /\ victim' = victim
    BY <1>4 DEF RemoveRuntimeDir, RemoveTree, Prune, DeleteGoesTo
  <2>3. QED
    BY <2>1, <2>2 DEF MapInv, Created
<1>5. CASE ProvRestart
  <2>1. /\ provDisp' = "idle" /\ mode' = mode /\ sessionID' = sessionID
        /\ sessions' = [s \in SessionIds |-> 0]
        /\ provPc' = [i \in Ids |-> IF Created(i) THEN "done" ELSE "none"]
    BY Zenon, <1>5 DEF ProvRestart
  <2>2. QED
    BY <2>1 DEF MapInv, Created
<1>6. CASE (\E s \in SessionIds, k \in Kinds : Configure(s, k)) \/ EditorWrites \/ ensureEnvRepo
           \/ RemoveEnv \/ UNCHANGED provVars
  <2>1. UNCHANGED <<mode, sessions, sessionID, provPc, provDisp, victim>>
    BY Zenon, <1>6
       DEF Configure, EditorWrites, ensureEnvRepo, RemoveEnv, provVars, sessVars, delVars
  <2>2. QED
    BY <2>1 DEF MapInv, Created
<1>7. QED
  BY <1>1, <1>2, <1>3, <1>4, <1>5, <1>6 DEF ProvNext

\* A step that takes the tree, or the work in it, is a removal somebody asked for.
LEMMA TreeGoes ==
    ASSUME [ProvNext]_provVars, tree # "absent",
           tree' = "absent" \/ (tree = "dirty" /\ tree' # "dirty")
    PROVE  RemoveEnv \/ RemoveTree \/ (mode = "own" /\ RemoveRuntimeDir)
<1>1. CASE \E i \in Ids, s \in SessionIds : create(i, s)
  BY <1>1 DEF create, Register, treeVars
<1>2. CASE \E i \in Ids : Checkout(i)
  BY <1>2, CheckoutTree
<1>3. CASE \E i \in Ids : applyInitialConfig(i) \/ Flip(i)
  BY Zenon, <1>3 DEF applyInitialConfig, Flip, treeVars
<1>4. CASE (\E s \in SessionIds, k \in Kinds : Configure(s, k)) \/ ensureEnvRepo
  BY <1>4 DEF Configure, ensureEnvRepo, treeVars
<1>5. CASE EditorWrites
  BY <1>5 DEF EditorWrites
<1>6. CASE \E s \in SessionIds : delete(s)
  BY Zenon, <1>6 DEF delete, treeVars
<1>7. CASE RemoveRuntimeDir
  <2>1. mode # "own" => tree' = tree
    BY Zenon, <1>7 DEF RemoveRuntimeDir
  <2>2. QED
    BY <1>7, <2>1
<1>8. CASE Prune
  BY <1>8 DEF Prune
<1>9. CASE ProvRestart
  BY <1>9 DEF ProvRestart
<1>10. CASE UNCHANGED provVars
  BY <1>10 DEF provVars, treeVars
<1>11. QED
  BY <1>1, <1>2, <1>3, <1>4, <1>5, <1>6, <1>7, <1>8, <1>9, <1>10 DEF ProvNext, Provision

\* Git keeps no record of a worktree that is gone, unless an operation was cut
\* or failed half-way, or the prune failed (execution/worktree.go:292-305).
THEOREM PruneIsEnough == ProvSpec => []NoStaleRegistration
<1>1. ProvInit => TreeInv
  BY InitProv DEF ProvInv
<1>2. TreeInv => NoStaleRegistration
  BY DEF TreeInv, NoStaleRegistration, Idle
<1>3. QED
  BY <1>1, <1>2, StepTree, PTL DEF ProvSpec

\* Uncommitted work is lost only to the removal of the environment, the delete
\* of a session of no task, or the delete of a session of the worktree's task
\* (execution/worktree.go:165-235, git_workspace.go:46-81).
THEOREM WorkIsKept == ProvSpec => WorkKept
<1>1. [ProvNext]_provVars =>
        [tree = "dirty" /\ tree' # "dirty" =>
            RemoveEnv \/ RemoveTree \/ (mode = "own" /\ RemoveRuntimeDir)]_provVars
  BY TreeGoes
<1>2. QED
  BY <1>1, PTL DEF ProvSpec, WorkKept

\* The tree stays under a session that is ready, for any number of sessions of
\* the task, unless its environment goes or another session of its task is
\* deleted: no delete of its own id, however slow, is left when it is created
\* (execution/session.go:1738-1778).
THEOREM TreeStaysUnderSession == ProvSpec => LiveKeepsTree
<1> DEFINE Stays(s) == Ready(s) /\ tree # "absent" /\ tree' = "absent" =>
                         RemoveEnv \/ (RemoveTree /\ sessionID[victim] # s)
           AllStay == \A s \in SessionIds : Stays(s)
<1>1. MapInv /\ [ProvNext]_provVars => [AllStay]_provVars
  <2> SUFFICES ASSUME MapInv, [ProvNext]_provVars, NEW s \in SessionIds,
                      Ready(s), tree # "absent", tree' = "absent"
               PROVE  RemoveEnv \/ (RemoveTree /\ sessionID[victim] # s)
    BY Zenon
  <2>1. sessions[s] # 0 /\ sessions[s] \in Ids /\ Created(sessions[s]) /\ sessionID[sessions[s]] = s
    BY DEF Ready, MapInv
  <2>2. RemoveEnv \/ RemoveTree \/ (mode = "own" /\ RemoveRuntimeDir)
    BY TreeGoes
  <2>3. CASE RemoveTree
    <3>1. sessions[sessionID[victim]] = 0
      BY <2>3 DEF RemoveTree, MapInv
    <3>2. QED
      BY Zenon, <2>1, <2>3, <3>1
  <2>4. CASE mode = "own" /\ RemoveRuntimeDir
    <3>1. provDisp = "runtime"
      BY Zenon, <2>4 DEF RemoveRuntimeDir
    <3>2. victim \in Ids /\ Created(victim) /\ sessions[sessionID[victim]] = 0
      BY <3>1 DEF MapInv
    <3>3. sessionID[victim] = sessionID[sessions[s]]
      BY <2>1, <2>4, <3>2 DEF MapInv
    <3>4. QED
      BY <2>1, <3>2, <3>3
  <2>5. QED
    BY Zenon, <2>2, <2>3, <2>4
<1>2. ProvInit => MapInv
  BY InitProv DEF ProvInv
<1>3. QED
  BY <1>1, <1>2, StepMap, PTL DEF ProvSpec, LiveKeepsTree

-----------------------------------------------------------------------------
(* Launched execution nodes.                                               *)

\* Inductive as it stands: the state's shape and the property.
LInv == LaunchTypeOK /\ RunningIsTracked

\* Initially there is no container.
LEMMA InitTracked == LaunchInit => LInv
BY Zenon DEF LaunchInit, LInv, LaunchTypeOK, RunningIsTracked

\* Every step of a handler, and a restart, keeps the container tracked: docker
\* run hands it to put, take to docker rm (management/launch.go:53-70).
LEMMA StepTracked == LInv /\ [LaunchNext]_launchVars => LInv'
<1> SUFFICES ASSUME LInv, [LaunchNext]_launchVars PROVE LInv'
  OBVIOUS
<1> USE DEF LInv, LaunchTypeOK, RunningIsTracked, LaunchGoto, SendAck
<1>1. ASSUME NEW f \in Frames, HandleFrame(f) PROVE LInv'
  <2>1. LaunchTypeOK'
    BY <1>1 DEF HandleFrame
  <2>2. \A g \in Frames : launchPc[g] \in {"put", "rm"} => launchPc'[g] = launchPc[g]
    BY <1>1 DEF HandleFrame
  <2>3. QED
    BY <1>1, <2>1, <2>2 DEF HandleFrame
<1>2. ASSUME NEW f \in Frames, dockerRun(f) PROVE LInv'
  <2>1. LaunchTypeOK'
    BY Zenon, <1>2 DEF dockerRun
  <2>2. \A g \in Frames : launchPc[g] \in {"put", "rm"} => launchPc'[g] = launchPc[g]
    BY <1>2 DEF dockerRun
  <2>3. ~container /\ container' => lost' \/ launchPc'[f] = "put"
    BY Zenon, <1>2 DEF dockerRun
  <2>4. QED
    BY <1>2, <2>1, <2>2, <2>3 DEF dockerRun
<1>3. ASSUME NEW f \in Frames, put(f) PROVE LInv'
  BY <1>3 DEF put
<1>4. ASSUME NEW f \in Frames, take(f) PROVE LInv'
  <2>1. LaunchTypeOK'
    BY Zenon, <1>4 DEF take
  <2>2. \A g \in Frames : launchPc[g] \in {"put", "rm"} => launchPc'[g] = launchPc[g]
    BY <1>4 DEF take
  <2>3. handle => launchPc'[f] = "rm"
    BY <1>4 DEF take
  <2>4. QED
    BY <1>4, <2>1, <2>2, <2>3 DEF take
<1>5. ASSUME NEW f \in Frames, stopExecutionNode(f) PROVE LInv'
  <2>1. LaunchTypeOK'
    BY Zenon, <1>5 DEF stopExecutionNode
  <2>2. /\ handle' = handle /\ lost' = container'
        /\ \A g \in Frames : launchPc'[g] = IF g = f THEN "idle" ELSE launchPc[g]
    BY Zenon, <1>5 DEF stopExecutionNode
  <2>3. QED
    BY <2>1, <2>2
<1>6. CASE LaunchRestart
  BY Zenon, <1>6 DEF LaunchRestart
<1>7. CASE UNCHANGED launchVars
  BY <1>7 DEF launchVars
<1>8. QED
  BY <1>1, <1>2, <1>3, <1>4, <1>5, <1>6, <1>7 DEF LaunchNext

\* A running execution node stays deletable: its container is tracked by the
\* registry or by a handler on its way, unless a fault lost it
\* (management/launch.go:17-70).
THEOREM Tracked == LaunchSpec => []RunningIsTracked
<1>1. LInv => RunningIsTracked
  BY DEF LInv
<1>2. QED
  BY InitTracked, StepTracked, <1>1, PTL DEF LaunchSpec

\* The step that acknowledges a delete leaves no container, unless a fault lost
\* its handle or another handler was between docker and the registry
\* (management/launch.go:61-70, 178-186).
THEOREM AckedDelete == LaunchSpec => DeletedIsGone
<1> DEFINE Gone(f) == launchAck[f] # "deleted" /\ launchAck'[f] = "deleted" /\ ~lost =>
                        ~container' \/ \E g \in Frames \ {f} : launchPc[g] \in {"put", "rm"}
           AllGone == \A f \in Frames : Gone(f)
<1>1. LInv /\ [LaunchNext]_launchVars => [AllGone]_launchVars
  <2> SUFFICES ASSUME LInv, LaunchNext, NEW f \in Frames,
                      launchAck[f] # "deleted", launchAck'[f] = "deleted", ~lost, container'
               PROVE  \E g \in Frames \ {f} : launchPc[g] \in {"put", "rm"}
    BY DEF launchVars
  <2> USE DEF LInv, LaunchTypeOK, RunningIsTracked, LaunchGoto, SendAck
  <2>1. CASE take(f)
    <3>1. ~handle /\ container /\ launchPc[f] = "take"
      BY <2>1 DEF take
    <3>2. QED
      BY <3>1
  <2>2. CASE stopExecutionNode(f)
    BY <2>2 DEF stopExecutionNode
  <2>3. ASSUME NEW g \in Frames, g # f,
               HandleFrame(g) \/ dockerRun(g) \/ put(g) \/ take(g) \/ stopExecutionNode(g)
        PROVE  FALSE
    BY Zenon, <2>3 DEF HandleFrame, dockerRun, put, take, stopExecutionNode
  <2>4. CASE HandleFrame(f) \/ dockerRun(f) \/ put(f)
    BY Zenon, <2>4 DEF HandleFrame, dockerRun, put
  <2>5. CASE LaunchRestart
    BY <2>5 DEF LaunchRestart
  <2>6. QED
    BY <2>1, <2>2, <2>3, <2>4, <2>5 DEF LaunchNext
<1>2. QED
  BY InitTracked, StepTracked, <1>1, PTL DEF LaunchSpec, DeletedIsGone

-----------------------------------------------------------------------------
(* The resource cache.                                                     *)

\* The inductive invariant.  Between the removal of a half-made entry and the
\* marker there is no ".ready"; the fetcher that writes it has every entry.
CInv(f) ==
    /\ CacheTypeOK
    /\ ready => dir /\ content = Archive
    /\ cachePc[f] \in {"mkdir", "extract", "drop", "mark"} => ~ready
    /\ cachePc[f] = "extract" => dir /\ 1..(next[f] - 1) \subseteq content
    /\ cachePc[f] = "mark" => dir /\ content = Archive
    /\ cachePc[f] = "copy" => ready
    /\ cachePc[f] = "ok" => copied[f] = Archive

\* An empty cache satisfies the invariant.
LEMMA InitCache ==
    ASSUME NEW f, Fetchers = {f}, Entries \in Nat
    PROVE  CacheInit => CInv(f)
<1> SUFFICES ASSUME CacheInit PROVE CInv(f)
  OBVIOUS
<1>1. CacheTypeOK
  <2>1. next \in [Fetchers -> 1..(Entries + 1)]
    BY DEF CacheInit
  <2>2. cachePc \in [Fetchers -> {"idle"}] /\ copied \in [Fetchers -> SUBSET Archive]
    BY DEF CacheInit
  <2>3. content \subseteq Archive /\ dir \in BOOLEAN /\ ready \in BOOLEAN
    BY Zenon DEF CacheInit
  <2>4. QED
    BY <2>1, <2>2, <2>3 DEF CacheTypeOK
<1>2. cachePc[f] = "idle" /\ ~ready
  BY DEF CacheInit
<1>3. QED
  BY <1>1, <1>2 DEF CInv

\* Every step of fetchArchive and a restart preserve it
\* (execution/editorconfig.go:957-988).
LEMMA StepCache ==
    ASSUME NEW f, Fetchers = {f}, Entries \in Nat, CInv(f), [CacheNext]_cacheVars
    PROVE  CInv(f)'
<1> USE DEF CInv, CacheTypeOK, Archive, CacheGoto
<1>1. CASE fetchResource(f)
  BY <1>1 DEF fetchResource
<1>2. CASE Stat(f)
  BY <1>2 DEF Stat
<1>3. CASE DownloadEntry(f)
  BY <1>3 DEF DownloadEntry
<1>4. CASE extractTarGz(f)
  <2>1. CASE next[f] <= Entries /\ content' = content \cup {next[f]} /\ dir' = TRUE
             /\ next' = [next EXCEPT ![f] = @ + 1] /\ UNCHANGED cachePc
    <3>1. next'[f] = next[f] + 1 /\ next[f] \in Archive
      BY <1>4, <2>1 DEF extractTarGz
    <3>2. 1..(next'[f] - 1) \subseteq content'
      BY <1>4, <2>1, <3>1 DEF extractTarGz
    <3>3. CacheTypeOK'
      <4>1. next' \in [Fetchers -> 1..(Entries + 1)]
        BY <2>1, <3>1
      <4>2. content' \subseteq Archive
        BY Zenon, <2>1, <3>1
      <4>3. QED
        BY <1>4, <2>1, <4>1, <4>2 DEF extractTarGz
    <3>4. QED
      BY <1>4, <2>1, <3>2, <3>3 DEF extractTarGz
  <2>2. CASE next[f] > Entries /\ CacheGoto(f, "mark") /\ UNCHANGED <<dir, content, next>>
    <3>1. next[f] = Entries + 1
      <4>1. next[f] \in 1..(Entries + 1)
        OBVIOUS
      <4>2. QED
        BY <2>2, <4>1
    <3>2. content = Archive
      <4>1. 1..(next[f] - 1) \subseteq content /\ content \subseteq 1..Entries
        BY <1>4 DEF extractTarGz
      <4>2. next[f] - 1 = Entries
        BY <3>1
      <4>3. QED
        BY Zenon, <4>1, <4>2
    <3>3. QED
      BY <1>4, <2>2, <3>2 DEF extractTarGz
  <2>3. CASE CacheGoto(f, "drop") /\ UNCHANGED <<dir, content, next>>
    BY <1>4, <2>3 DEF extractTarGz
  <2>4. QED
    BY Zenon, <1>4, <2>1, <2>2, <2>3 DEF extractTarGz
<1>5. CASE Drop(f)
  BY Zenon, <1>5 DEF Drop
<1>6. CASE Mark(f)
  BY <1>6 DEF Mark
<1>7. CASE Copy(f)
  BY <1>7 DEF Copy
<1>8. CASE CacheRestart
  BY <1>8 DEF CacheRestart
<1>9. CASE UNCHANGED cacheVars
  BY <1>9 DEF cacheVars
<1>10. QED
  BY Zenon, <1>1, <1>2, <1>3, <1>4, <1>5, <1>6, <1>7, <1>8, <1>9 DEF CacheNext

\* With one fetcher a successful fetch installs the whole archive, of any
\* length, after any number of broken downloads and restarts
\* (execution/editorconfig.go:957-988).
THEOREM OneFetcher ==
    ASSUME NEW f, Fetchers = {f}
    PROVE  CacheSpec => []FetchedIsWhole
<1>1. CInv(f) => FetchedIsWhole
  BY DEF CInv, FetchedIsWhole
<1>2. CInv(f) /\ [CacheNext]_cacheVars => CInv(f)'
  BY EntriesAssumption, StepCache
<1>3. QED
  BY EntriesAssumption, InitCache, <1>1, <1>2, PTL DEF CacheSpec

-----------------------------------------------------------------------------
(* Staged installs.                                                        *)

\* The inductive invariant.  The current and the set-aside directory are whole
\* or absent; from the validation on, so is the staged one, because while it is
\* extracted it has its entry point exactly when the archive has.
StagedInv(i) ==
    /\ InstallTypeOK
    /\ current \in WholeInstall \cup {"none"}
    /\ backup \in WholeInstall \cup {"none"}
    /\ installPc[i] = "rest" => stage = (IF open[i] = "bad" THEN "bare" ELSE "part")
    /\ installPc[i] = "validate" => stage \in {"new", "bare"}
    /\ installPc[i] \in {"drop", "aside", "activate"} => stage = "new"

\* A node with one whole installation satisfies the invariant.
LEMMA InitStaged ==
    ASSUME NEW i, Installers = {i}, MaxFaults \in Nat
    PROVE  InstallInit => StagedInv(i)
BY DEF InstallInit, StagedInv, InstallTypeOK, Dirs, WholeInstall

\* Every step of the upgrade and a restart preserve it
\* (common/agent/runtimeupgrade.go:170-270).
LEMMA StepStaged ==
    ASSUME NEW i, Installers = {i}, MaxFaults \in Nat, StagedInv(i), [InstallNext]_installVars
    PROVE  StagedInv(i)'
<1> USE DEF StagedInv, InstallTypeOK, Dirs, WholeInstall, InstallGoto, Step, Return
<1>1. CASE InstallFrame(i)
  BY <1>1 DEF InstallFrame
<1>2. CASE DownloadArchive(i)
  BY <1>2 DEF DownloadArchive
<1>3. CASE Verify(i)
  BY <1>3 DEF Verify
<1>4. CASE Extract(i)
  BY <1>4 DEF Extract
<1>5. CASE Rest(i)
  <2>1. CASE open[i] = "good"
    <3>1. installPc[i] = "rest" /\ RestWritten = {"new"}
      BY <1>5, <2>1 DEF Rest, RestWritten
    <3>2. QED
      BY <1>5, <2>1, <3>1 DEF Rest
  <2>2. CASE open[i] = "bad"
    BY <1>5, <2>2 DEF Rest
  <2>3. QED
    BY <2>1, <2>2
<1>6. CASE Validate(i)
  BY <1>6 DEF Validate
<1>7. CASE DropBackup(i)
  BY <1>7 DEF DropBackup
<1>8. CASE MoveAside(i)
  BY <1>8 DEF MoveAside
<1>9. CASE ActivateOk(i)
  BY <1>9 DEF ActivateOk
<1>10. CASE ActivateFails(i)
  BY <1>10 DEF ActivateFails
<1>11. CASE CleanUp(i)
  BY <1>11 DEF CleanUp
<1>12. CASE InstallRestart
  BY <1>12 DEF InstallRestart
<1>13. CASE UNCHANGED installVars
  BY <1>13 DEF installVars
<1>14. QED
  BY Zenon, <1>1, <1>2, <1>3, <1>4, <1>5, <1>6, <1>7, <1>8, <1>9, <1>10, <1>11,
     <1>12, <1>13 DEF InstallNext


\* With one installer the managed directory is never a partial one, however
\* many times the process ends or an activation fails
\* (common/agent/runtimeupgrade.go:232-270).
THEOREM NeverPartial ==
    ASSUME NEW i, Installers = {i}, MaxFaults \in Nat
    PROVE  InstallSpec => []InstalledIsWhole
<1>1. StagedInv(i) => InstalledIsWhole
  BY DEF StagedInv, InstalledIsWhole
<1>2. StagedInv(i) /\ [InstallNext]_installVars => StagedInv(i)'
  BY StepStaged
<1>3. InstallInit => StagedInv(i)
  BY InitStaged
<1>4. QED
  BY <1>1, <1>2, <1>3, PTL DEF InstallSpec

\* What is kept across one fault.  Before it, the current directory is whole
\* except between the two renames, when the one set aside is; the clean-up that
\* removes that one runs only with a whole one in place.
KeptInv(i) ==
    /\ StagedInv(i)
    /\ installPc[i] = "clean" => current \in WholeInstall
    /\ faults = 0 =>
         \/ current \in WholeInstall
         \/ installPc[i] = "activate" /\ backup \in WholeInstall
    /\ \/ current \in WholeInstall \/ backup \in WholeInstall
       \/ stage = "new" /\ installPc[i] \in {"aside", "activate"}

\* Every step preserves it, the fault included
\* (common/agent/runtimeupgrade.go:236-258).
LEMMA StepKept ==
    ASSUME NEW i, Installers = {i}, MaxFaults \in {0, 1}, KeptInv(i), [InstallNext]_installVars
    PROVE  KeptInv(i)'
<1> USE DEF KeptInv, WholeInstall, InstallGoto, Step, Return
<1>1. StagedInv(i)'
  <2>1. MaxFaults \in Nat
    OBVIOUS
  <2>2. QED
    BY <2>1, StepStaged
<1>a. /\ installPc = [j \in {i} |-> installPc[i]] /\ faults \in {0, 1}
      /\ current \in {"old", "new", "none"}
      /\ installPc[i] \in {"drop", "aside", "activate"} => stage = "new"
  BY DEF StagedInv, InstallTypeOK
<1>2. CASE InstallFrame(i)
  BY <1>1, <1>a, <1>2 DEF InstallFrame
<1>3. CASE DownloadArchive(i)
  BY <1>1, <1>a, <1>3 DEF DownloadArchive
<1>4. CASE Verify(i)
  BY <1>1, <1>a, <1>4 DEF Verify
<1>5. CASE Extract(i)
  BY <1>1, <1>a, <1>5 DEF Extract
<1>6. CASE Rest(i)
  BY <1>1, <1>a, <1>6 DEF Rest
<1>7. CASE Validate(i)
  BY <1>1, <1>a, <1>7 DEF Validate
<1>8. CASE DropBackup(i)
  <2>1. /\ installPc[i] = "drop" /\ installPc'[i] = "aside" /\ stage' = "new"
        /\ UNCHANGED <<current, faults>>
    BY <1>a, <1>8 DEF DropBackup
  <2>2. QED
    BY <1>1, <2>1
<1>9. CASE MoveAside(i)
  BY <1>1, <1>a, <1>9 DEF MoveAside
<1>10. CASE ActivateOk(i)
  BY <1>1, <1>a, <1>10 DEF ActivateOk
<1>11. CASE ActivateFails(i)
  <2>1. faults = 0 /\ installPc[i] = "activate" /\ installPc'[i] = "idle" /\ faults' # 0
    BY <1>a, <1>11 DEF ActivateFails
  <2>2. current' \in WholeInstall \/ backup' \in WholeInstall
    BY <1>11, <1>a, <2>1 DEF ActivateFails
  <2>3. QED
    BY <1>1, <2>1, <2>2
<1>12. CASE CleanUp(i)
  BY <1>1, <1>a, <1>12 DEF CleanUp
<1>13. CASE InstallRestart
  BY <1>1, <1>a, <1>13 DEF InstallRestart
<1>14. CASE UNCHANGED installVars
  BY <1>1, <1>a, <1>14 DEF installVars
<1>15. QED
  BY Zenon, <1>2, <1>3, <1>4, <1>5, <1>6, <1>7, <1>8, <1>9, <1>10, <1>11, <1>12,
     <1>13, <1>14 DEF InstallNext

\* With one installer, one fault at any point (the process ends, or an
\* activation fails and perhaps its roll-back too) leaves a whole installation
\* on disk or about to be put in place
\* (common/agent/runtimeupgrade.go:163-164, 236-258).
THEOREM OneFaultLeavesAnInstall ==
    ASSUME NEW i, Installers = {i}, MaxFaults \in {0, 1}
    PROVE  InstallSpec => []InstallKept
<1>1. KeptInv(i) => InstallKept
  BY DEF KeptInv, InstallKept
<1>2. KeptInv(i) /\ [InstallNext]_installVars => KeptInv(i)'
  BY StepKept
<1>3. InstallInit => KeptInv(i)
  <2>1. MaxFaults \in Nat
    OBVIOUS
  <2>2. InstallInit => StagedInv(i)
    BY <2>1, InitStaged
  <2>3. InstallInit => current = "old" /\ installPc[i] = "idle"
    BY DEF InstallInit
  <2>4. QED
    BY <2>2, <2>3 DEF KeptInv, WholeInstall
<1>4. QED
  BY <1>1, <1>2, <1>3, PTL DEF InstallSpec
=============================================================================
