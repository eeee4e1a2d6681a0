----------------------------- MODULE JobsProofs -----------------------------
(***************************************************************************)
(* Proofs about the commands a node runs for the server, a section each:   *)
(* builds (BuildRunner), for any builds, steps and runs; Xcode installs    *)
(* (XcodeJob), for any jobs and attempts; and managed tools (ToolRun), for *)
(* any run ids and numbers of starts.                                      *)
(***************************************************************************)
EXTENDS BuildRunner, XcodeJob, ToolRun, SequenceTheorems, TLAPS


-----------------------------------------------------------------------------
(* Builds.                                                                 *)

\* What a run's stage says of it: before it finishes there is no verdict and no
\* result; from then on a verdict of ok means that the upload, which only the
\* last step leads to, was answered.
BuildRun(q) ==
    /\ q.pc \in Stages => q.err = "" /\ q.results = 0
    /\ q.pc = "finish" => q.results = 0
    /\ q.pc = "upload" => q.step = NumSteps
    /\ q.pc \notin Stages /\ q.err = "" => q.uploaded = TRUE /\ q.step = NumSteps

\* The inductive invariant.
BInv ==
    /\ jobs \subseteq Builds /\ runs \in Seq(Run)
    /\ \A r \in DOMAIN runs : BuildRun(runs[r])
    /\ OneRunPerBuild

\* A runner without builds satisfies the invariant.
LEMMA InitBuild == Init => BInv
BY DEF Init, BInv, BuildRun, OneRunPerBuild, Live

\* Steps that keep each run's id and end none leave table and runs in accord.
LEMMA RunsMove ==
    ASSUME BInv, jobs' = jobs, runs' \in Seq(Run), DOMAIN runs' = DOMAIN runs,
           \A s \in DOMAIN runs : /\ runs'[s].id = runs[s].id
                                  /\ BuildRun(runs'[s])
                                  /\ runs'[s].pc = "gone" <=> runs[s].pc = "gone"
    PROVE  BInv'
<1>1. OneRunPerBuild'
  BY DEF BInv, OneRunPerBuild, Live
<1>2. QED
  BY Zenon, <1>1 DEF BInv, BuildRun

\* The same for a step of one live run.
LEMMA RunMoves ==
    ASSUME BInv, jobs' = jobs, NEW r \in DOMAIN runs, NEW q \in Run,
           q.id = runs[r].id, q.pc # "gone", runs[r].pc # "gone", BuildRun(q),
           runs' = [runs EXCEPT ![r] = q]
    PROVE  BInv'
<1>1. runs' \in Seq(Run) /\ DOMAIN runs' = DOMAIN runs
  BY DEF BInv
<1>2. \A s \in DOMAIN runs : runs'[s] = IF s = r THEN q ELSE runs[s]
  BY DEF BInv
<1>3. QED
  BY <1>1, <1>2, RunsMove DEF BInv

\* cancel() only marks contexts.
LEMMA CancelMoves ==
    ASSUME BInv, jobs' = jobs, NEW R, NEW reason \in Reasons, CancelRuns(R, reason)
    PROVE  BInv'
<1>1. \A s \in DOMAIN runs : runs[s] \in Run /\ runs'[s] \in {runs[s], [runs[s] EXCEPT !.ctx = reason]}
  BY DEF CancelRuns, BInv
<1>2. \A s \in DOMAIN runs : runs'[s] \in Run /\ runs'[s].id = runs[s].id
                             /\ BuildRun(runs'[s]) /\ runs'[s].pc = runs[s].pc
  <2> SUFFICES ASSUME NEW s \in DOMAIN runs
               PROVE  /\ runs'[s] \in Run /\ runs'[s].id = runs[s].id
                      /\ BuildRun(runs'[s]) /\ runs'[s].pc = runs[s].pc
    OBVIOUS
  <2>1. BuildRun(runs[s])
    BY DEF BInv
  <2>2. CASE runs'[s] = runs[s]
    BY <1>1, <2>1, <2>2
  <2>3. CASE runs'[s] = [runs[s] EXCEPT !.ctx = reason]
    <3>1. /\ runs'[s] \in Run /\ runs'[s].id = runs[s].id /\ runs'[s].pc = runs[s].pc
          /\ runs'[s].err = runs[s].err /\ runs'[s].results = runs[s].results
          /\ runs'[s].step = runs[s].step /\ runs'[s].uploaded = runs[s].uploaded
      BY Zenon, <1>1, <2>3 DEF Run
    <3>2. QED
      BY Zenon, <2>1, <3>1 DEF BuildRun
  <2>4. QED
    BY <1>1, <2>2, <2>3
<1>3. DOMAIN runs' = DOMAIN runs /\ runs' \in Seq(Run)
  BY <1>2 DEF CancelRuns, BInv
<1>4. QED
  BY <1>2, <1>3, RunsMove

\* Every step of the runner, its builds, the stream and the timers preserves
\* it (common/build/runner.go:111-408).
LEMMA StepBuild ==
    ASSUME NumSteps \in Nat, BInv, [Next]_vars
    PROVE  BInv'
<1>1. ASSUME NEW b \in Builds, Start(b) PROVE BInv'
  <2>1. NewRun(b) \in Run /\ BuildRun(NewRun(b)) /\ NewRun(b).id = b /\ NewRun(b).pc = "workdir"
    BY DEF NewRun, Run, Stages, Reasons, ErrCodes, BuildRun
  <2>2. runs' = Append(runs, NewRun(b)) /\ b \notin jobs /\ jobs' = jobs \cup {b}
    BY <1>1 DEF Start
  <2> HIDE DEF NewRun
  <2>3. runs' \in Seq(Run) /\ DOMAIN runs' = DOMAIN runs \cup {Len(runs) + 1}
    BY <2>1, <2>2 DEF BInv
  <2>4. runs'[Len(runs) + 1] = NewRun(b) /\ \A s \in DOMAIN runs : runs'[s] = runs[s]
    BY <2>2 DEF BInv
  <2>5. \A s \in DOMAIN runs : Live(s) => runs[s].id # b
    BY <2>2 DEF BInv, OneRunPerBuild
  <2>6. \A s \in DOMAIN runs' :
           Live(s)' <=> s = Len(runs) + 1 \/ (s \in DOMAIN runs /\ Live(s))
    <3>1. NewRun(b).pc # "gone"
      BY <2>1
    <3>2. QED
      BY <2>3, <2>4, <3>1 DEF Live
  <2>7. OneRunPerBuild'
    <3>1. runs'[Len(runs) + 1].id = b
      BY <2>1, <2>4
    <3>2. \A s, u \in DOMAIN runs' :
             Live(s)' /\ Live(u)' /\ runs'[s].id = runs'[u].id => s = u
      BY <2>3, <2>4, <2>5, <2>6, <3>1 DEF BInv, OneRunPerBuild
    <3>3. \A s \in DOMAIN runs' : Live(s)' => runs'[s].id \in jobs'
      BY <2>2, <2>3, <2>4, <2>6, <3>1 DEF BInv, OneRunPerBuild
    <3>4. \A c \in jobs' : \E s \in DOMAIN runs' : Live(s)' /\ runs'[s].id = c
      <4> SUFFICES ASSUME NEW c \in jobs'
                   PROVE  \E s \in DOMAIN runs' : Live(s)' /\ runs'[s].id = c
        OBVIOUS
      <4>1. CASE c = b
        BY <2>3, <2>6, <3>1, <4>1
      <4>2. CASE c \in jobs
        <5>1. PICK s \in DOMAIN runs : Live(s) /\ runs[s].id = c
          BY <4>2 DEF BInv, OneRunPerBuild
        <5>2. s \in DOMAIN runs' /\ Live(s)' /\ runs'[s].id = c
          BY <2>3, <2>4, <2>6, <5>1
        <5>3. QED
          BY <5>2
      <4>3. QED
        BY <2>2, <4>1, <4>2
    <3>5. QED
      BY <3>2, <3>3, <3>4 DEF OneRunPerBuild
  <2>8. \A s \in DOMAIN runs' : BuildRun(runs'[s])
    <3>1. \A s \in DOMAIN runs : BuildRun(runs[s])
      BY DEF BInv
    <3>2. QED
      BY <2>1, <2>3, <2>4, <3>1
  <2>9. jobs' \subseteq Builds /\ runs' \in Seq(Run)
    BY <2>1, <2>2, <2>3, <2>4 DEF BInv
  <2>10. QED
    BY Zenon, <2>7, <2>8, <2>9 DEF BInv, BuildRun
<1>2. ASSUME NEW b \in Builds, Cancel(b) PROVE BInv'
  BY <1>2, CancelMoves DEF Cancel, Reasons
<1>3. ASSUME NEW r \in DOMAIN runs, Timeout(r) PROVE BInv'
  BY <1>3, CancelMoves DEF Timeout, Reasons
<1>4. CASE StopAll
  BY <1>4, CancelMoves DEF StopAll, Reasons
<1>5. CASE StreamEnds
  BY <1>5, CancelMoves DEF StreamEnds, Reasons
<1>6. ASSUME NEW r \in DOMAIN runs, RunStep(r) \/ CommandEnds(r) \/ Stuck(r)
      PROVE  BInv'
  <2> DEFINE was == runs[r]
             Moves(q) == runs' = [runs EXCEPT ![r] = q]
             Good(q) == q \in Run /\ q.id = was.id /\ q.pc # "gone" /\ BuildRun(q)
             end(code) == [was EXCEPT !.pc = "finish", !.err = code]
  <2>1. was \in Run /\ BuildRun(was) /\ runs \in Seq(Run)
    BY DEF BInv
  <2>2. \A code \in ErrCodes \ {""} : was.pc \in Stages => Good(end(code))
    <3> SUFFICES ASSUME NEW code \in ErrCodes \ {""}, was.pc \in Stages
                 PROVE  Good(end(code))
      BY Zenon
    <3>1. /\ end(code).pc = "finish" /\ end(code).err = code
          /\ end(code).id = was.id
          /\ end(code).results = was.results
      BY Zenon, <2>1 DEF Run
    <3>2. end(code) \in Run
      BY Zenon, <2>1 DEF Run
    <3>3. was.results = 0
      BY Zenon, <2>1 DEF BuildRun
    <3>4. BuildRun(end(code))
      <4> HIDE DEF end
      <4>1. QED
        BY Zenon, <3>1, <3>3 DEF BuildRun, Stages
    <3>5. QED
      BY Zenon, <3>1, <3>2, <3>4
  <2>3. \A code : Return(r, code) => Moves(end(code))
    BY Zenon, <2>1 DEF Return
  <2>4. \A code : Fail(r, code) => Moves(end(code)) \/ Moves(end("cancelled"))
    BY Zenon, <2>3 DEF Fail
  <2>5. ASSUME NEW q, Moves(q), Good(q), jobs' = jobs, was.pc # "gone" PROVE BInv'
    BY Zenon, <2>5, RunMoves
  <2> HIDE DEF Moves, Good
  <2>6. CASE Workdir(r)
    <3>1. Moves([was EXCEPT !.pc = "acquire"]) \/ Moves(end("workdir_failed"))
      BY Zenon, <2>1, <2>3, <2>6 DEF Workdir, Moves
    <3>2. Good([was EXCEPT !.pc = "acquire"])
      BY Zenon, <2>1, <2>6 DEF Workdir, Good, Run, BuildRun, Stages
    <3>3. Good(end("workdir_failed"))
      BY Zenon, <2>2, <2>6 DEF Workdir, Stages, ErrCodes
    <3>4. QED
      BY <2>5, <2>6, <3>1, <3>2, <3>3 DEF Workdir
  <2>7. CASE AcquireOk(r)
    <3>1. Moves([was EXCEPT !.pc = "steps"]) /\ Good([was EXCEPT !.pc = "steps"])
      BY Zenon, <2>1, <2>7 DEF AcquireOk, Moves, Good, Run, BuildRun, Stages
    <3>2. QED
      BY <2>5, <2>7, <3>1 DEF AcquireOk
  <2>8. CASE AcquireFails(r)
    BY Zenon, <2>2, <2>3, <2>4, <2>5, <2>8 DEF AcquireFails, Stages, ErrCodes
  <2>9. CASE StepBoundary(r)
    BY Zenon, <2>2, <2>3, <2>5, <2>9 DEF StepBoundary, Stages, ErrCodes
  <2>10. CASE StepOk(r)
    <3>1. Moves([was EXCEPT !.step = @ + 1])
      BY <2>1, <2>10 DEF StepOk, Moves
    <3>2. was.step + 1 \in 0..NumSteps
      BY <2>1, <2>10 DEF StepOk, Run
    <3>3. Good([was EXCEPT !.step = @ + 1])
      BY Zenon, <2>1, <2>10, <3>2 DEF StepOk, Good, Run, BuildRun, Stages
    <3>4. QED
      BY <2>5, <2>10, <3>1, <3>3 DEF StepOk
  <2>11. CASE StepFails(r)
    BY Zenon, <2>2, <2>4, <2>5, <2>11 DEF StepFails, Stages, ErrCodes
  <2>12. CASE Stuck(r)
    <3>1. Moves([was EXCEPT !.stuck = TRUE]) /\ Good([was EXCEPT !.stuck = TRUE])
      BY Zenon, <2>1, <2>12 DEF Stuck, Moves, Good, Run, BuildRun, Stages
    <3>2. QED
      BY <2>5, <2>12, <3>1 DEF Stuck
  <2>13. CASE Package(r)
    <3>1. Moves([was EXCEPT !.pc = "upload"]) \/ Moves(end("artifact_not_found"))
      BY Zenon, <2>1, <2>3, <2>13 DEF Package, Moves
    <3>2. Good([was EXCEPT !.pc = "upload"])
      BY Zenon, <2>1, <2>13 DEF Package, Good, Run, BuildRun, Stages
    <3>3. Good(end("artifact_not_found"))
      BY Zenon, <2>2, <2>13 DEF Package, Stages, ErrCodes
    <3>4. QED
      BY <2>5, <2>13, <3>1, <3>2, <3>3 DEF Package
  <2>14. CASE UploadOk(r)
    <3> DEFINE q == [was EXCEPT !.pc = "finish", !.uploaded = TRUE]
    <3>1. Moves(q)
      BY Zenon, <2>1, <2>14 DEF UploadOk, Moves
    <3>2. Good(q)
      BY Zenon, <2>1, <2>14 DEF UploadOk, Good, Run, BuildRun, Stages
    <3>3. QED
      BY <2>5, <2>14, <3>1, <3>2 DEF UploadOk
  <2>15. CASE UploadFails(r)
    <3> DEFINE q(stored, code) ==
                 [was EXCEPT !.pc = "finish", !.uploaded = stored, !.err = code]
    <3>1. \E stored \in BOOLEAN, code \in {"cancelled", "upload_failed"} :
             Moves(q(stored, code))
      <4>1. PICK stored \in BOOLEAN :
               runs' = [runs EXCEPT ![r].pc = "finish", ![r].uploaded = stored,
                            ![r].err = IF Done(r) THEN "cancelled" ELSE "upload_failed"]
        BY Zenon, <2>15 DEF UploadFails
      <4>2. Moves(q(stored, IF Done(r) THEN "cancelled" ELSE "upload_failed"))
        BY Zenon, <2>1, <4>1 DEF Moves
      <4> HIDE DEF q
      <4>3. QED
        BY <4>2
    <3>2. \A stored \in BOOLEAN, code \in {"cancelled", "upload_failed"} :
             Good(q(stored, code))
      <4> SUFFICES ASSUME NEW stored \in BOOLEAN,
                          NEW code \in {"cancelled", "upload_failed"}
                   PROVE  Good(q(stored, code))
        BY Zenon
      <4>1. [end(code) EXCEPT !.uploaded = stored] = q(stored, code)
        BY Zenon, <2>1 DEF Run
      <4>2. Good(end(code))
        BY Zenon, <2>2, <2>15 DEF UploadFails, Stages, ErrCodes
      <4>3. end(code).err # "" /\ end(code).pc = "finish"
        BY Zenon, <2>1 DEF Run
      <4> HIDE DEF end, q
      <4>4. QED
        BY Zenon, <4>1, <4>2, <4>3 DEF Good, Run, BuildRun
    <3>3. QED
      BY Zenon, <2>5, <2>15, <3>1, <3>2 DEF UploadFails
  <2>16. CASE Finish(r)
    <3>1. Moves([was EXCEPT !.pc = "delete", !.results = @ + 1])
      BY Zenon, <2>1, <2>16 DEF Finish, Moves
    <3>2. Good([was EXCEPT !.pc = "delete", !.results = @ + 1])
      <4>1. was.pc = "finish" /\ was.results = 0
        BY Zenon, <2>1, <2>16 DEF Finish, BuildRun
      <4>2. [was EXCEPT !.pc = "delete", !.results = @ + 1]
              = [was EXCEPT !.pc = "delete", !.results = 1]
        BY <4>1
      <4>3. Good([was EXCEPT !.pc = "delete", !.results = 1])
        <5> DEFINE q == [was EXCEPT !.pc = "delete", !.results = 1]
        <5>1. q \in Run
          <6>1. [was EXCEPT !.pc = "delete"] \in Run
            BY <2>1 DEF Run
          <6>2. 1 \in 0..1
            OBVIOUS
          <6>3. QED
            BY Zenon, <6>1, <6>2 DEF Run
        <5>2. /\ q.id = was.id /\ q.pc = "delete" 
              /\ q.err = was.err /\ q.uploaded = was.uploaded /\ q.step = was.step
          BY <2>1 DEF Run
        <5> HIDE DEF q
        <5>3. Good(q)
          BY Zenon, <2>1, <4>1, <5>1, <5>2 DEF Good, BuildRun, Stages
        <5>4. QED
          BY <5>3 DEF q
      <4>4. QED
        BY <4>2, <4>3
    <3>3. QED
      BY <2>5, <2>16, <3>1, <3>2 DEF Finish
  <2>17. CASE Delete(r)
    <3> DEFINE q == [was EXCEPT !.pc = "gone"]
    <3>1. q \in Run /\ BuildRun(q) /\ q.pc = "gone" /\ q.id = was.id
      BY Zenon, <2>1, <2>17 DEF Delete, Run, BuildRun, Stages
    <3>2. runs' = [runs EXCEPT ![r] = q] /\ jobs' = jobs \ {was.id} /\ Live(r)
      BY <2>1, <2>17 DEF Delete, Live
    <3> HIDE DEF q
    <3>3. /\ runs' \in Seq(Run) /\ DOMAIN runs' = DOMAIN runs
          /\ \A s \in DOMAIN runs : runs'[s] = IF s = r THEN q ELSE runs[s]
      BY <2>1, <3>1, <3>2
    <3>4. \A s \in DOMAIN runs : Live(s)' <=> Live(s) /\ s # r
      BY <3>1, <3>3 DEF Live
    <3>5. \A s \in DOMAIN runs : Live(s) /\ s # r => runs[s].id # was.id
      BY <3>2 DEF BInv, OneRunPerBuild
    <3>6. OneRunPerBuild'
      BY <3>2, <3>3, <3>4, <3>5 DEF BInv, OneRunPerBuild
    <3>7. QED
      BY Zenon, <3>1, <3>2, <3>3, <3>6 DEF BInv, BuildRun
  <2>18. QED
    BY <1>6, <2>6, <2>7, <2>8, <2>9, <2>10, <2>11, <2>12, <2>13, <2>14, <2>15,
       <2>16, <2>17 DEF RunStep, CommandEnds
<1>7. CASE StreamStarts \/ UNCHANGED vars
  <2>1. jobs' = jobs /\ runs' = runs
    BY <1>7 DEF StreamStarts, vars
  <2>2. QED
    BY Zenon, <2>1 DEF BInv, BuildRun, OneRunPerBuild, Live
<1>8. QED
  BY <1>1, <1>2, <1>3, <1>4, <1>5, <1>6, <1>7 DEF Next

\* A run that sent its result has left its stages.
LEMMA ResultEnds ==
    ASSUME BInv, NEW r \in DOMAIN runs, runs[r].results > 0
    PROVE  runs[r].pc \notin Stages /\ BuildRun(runs[r])
<1>1. BuildRun(runs[r])
  BY DEF BInv
<1>2. runs[r].results # 0
  <2>1. runs[r] \in Run
    BY DEF BInv
  <2>2. runs[r].results \in 0..1
    BY <2>1 DEF Run
  <2>3. QED
    BY <2>2
<1>3. QED
  BY Zenon, <1>1, <1>2 DEF BuildRun

\* The table is exactly the runs under way, one per build
\* (common/build/runner.go:111-165).
THEOREM NoBuildTwice == Spec => []OneRunPerBuild
<1>1. BInv => OneRunPerBuild
  BY DEF BInv
<1>2. BInv /\ [Next]_vars => BInv'
  BY StepsAssumption, StepBuild
<1>3. QED
  BY InitBuild, <1>1, <1>2, PTL DEF Spec

\* A result of ok is of a build whose steps all ran and whose artifact was
\* accepted (common/build/runner.go:237-276).
THEOREM OkMeansStored == Spec => []OkIsUploaded
<1>1. BInv => OkIsUploaded
  <2> SUFFICES ASSUME BInv, NEW r \in DOMAIN runs, runs[r].results > 0,
                      runs[r].err = ""
               PROVE  runs[r].uploaded /\ runs[r].step = NumSteps
    BY Zenon DEF OkIsUploaded
  <2>1. runs[r].pc \notin Stages /\ BuildRun(runs[r])
    BY Zenon, ResultEnds
  <2>2. runs[r].uploaded = TRUE /\ runs[r].step = NumSteps
    BY Zenon, <2>1 DEF BuildRun
  <2>3. QED
    BY Zenon, <2>2
<1>2. BInv /\ [Next]_vars => BInv'
  BY StepsAssumption, StepBuild
<1>3. QED
  BY InitBuild, <1>1, <1>2, PTL DEF Spec

-----------------------------------------------------------------------------
(* Xcode installs.                                                         *)

\* What a run knows of its attempt: there is a next one when it goes back for
\* it, there is a current one from the download to the move, and what is moved
\* was found in a directory that was extracted to the end.
XcodeRunInv(q) ==
    /\ q.pc = "checking" => q.try = 0
    /\ q.pc = "attempt" => q.try < MaxAttempts
    /\ q.pc \in {"downloading", "verifying", "extracting", "moving"}
          => q.try \in 1..MaxAttempts
    /\ q.pc = "moving" => q.app = "whole"

\* The inductive invariant.
XInv ==
    /\ XcodeTypeOK
    /\ \A r \in DOMAIN xcodeRuns : XcodeRunInv(xcodeRuns[r])
    /\ InstallsNeverOverlap
    /\ OnlyWholeInstalled

\* A node without jobs satisfies the invariant.
LEMMA InitXcode ==
    ASSUME MaxXcodeRuns \in Nat
    PROVE  XcodeInit => XInv
BY DEF XcodeInit, XInv, XcodeTypeOK, XcodeRunInv, InstallsNeverOverlap, OnlyWholeInstalled,
       XcodeLive

\* A step of one live run that keeps its id and stays live disturbs no other
\* run, and the table still names exactly the live one.
LEMMA XcodeRunMoves ==
    ASSUME XInv, NEW r \in DOMAIN xcodeRuns, XcodeLive(r),
           NEW q \in XcodeRun, q.id = xcodeRuns[r].id, q.pc # "gone", XcodeRunInv(q),
           xcodeRuns' = [xcodeRuns EXCEPT ![r] = q], xcodeJobs' = xcodeJobs,
           apps' \in {"none", "other", "whole"}
    PROVE  XInv'
<1>1. xcodeRuns' \in Seq(XcodeRun) /\ Len(xcodeRuns') = Len(xcodeRuns) /\ DOMAIN xcodeRuns' = DOMAIN xcodeRuns
  BY DEF XInv, XcodeTypeOK
<1>2. \A s \in DOMAIN xcodeRuns : xcodeRuns'[s] = IF s = r THEN q ELSE xcodeRuns[s]
  BY DEF XInv, XcodeTypeOK
<1>3. XcodeTypeOK' /\ OnlyWholeInstalled'
  BY <1>1 DEF XInv, XcodeTypeOK, OnlyWholeInstalled
<1>4. \A s \in DOMAIN xcodeRuns' : XcodeRunInv(xcodeRuns'[s])
  BY <1>1, <1>2 DEF XInv
<1>5. \A s \in DOMAIN xcodeRuns : xcodeRuns'[s].id = xcodeRuns[s].id /\ (XcodeLive(s)' <=> XcodeLive(s))
  BY <1>2 DEF XcodeLive
<1>6. InstallsNeverOverlap'
  BY <1>1, <1>5 DEF XInv, InstallsNeverOverlap
<1>7. QED
  BY <1>3, <1>4, <1>6 DEF XInv, XcodeRunInv

\* Every step of a job, the frames and the operator preserve it
\* (common/agent/xcodejob.go:93-480).
LEMMA StepXcode ==
    ASSUME MaxXcodeRuns \in Nat, MaxAttempts \in Nat \ {0}, XInv, [XcodeNext]_xcodeVars
    PROVE  XInv'
<1>1. ASSUME NEW j \in Jobs, XcodeStart(j) PROVE XInv'
  <2>1. NewXcodeRun(j) \in XcodeRun /\ XcodeRunInv(NewXcodeRun(j))
    BY DEF NewXcodeRun, NoDirs, XcodeRun, Contents, XcodeRunInv
  <2>2. xcodeRuns' \in Seq(XcodeRun) /\ Len(xcodeRuns') = Len(xcodeRuns) + 1
    BY <1>1, <2>1 DEF XcodeStart, XInv, XcodeTypeOK
  <2>3. DOMAIN xcodeRuns' = DOMAIN xcodeRuns \cup {Len(xcodeRuns) + 1}
    BY <1>1, <2>2 DEF XcodeStart, XInv, XcodeTypeOK
  <2>4. xcodeRuns'[Len(xcodeRuns) + 1] = NewXcodeRun(j) /\ \A s \in DOMAIN xcodeRuns : xcodeRuns'[s] = xcodeRuns[s]
    BY <1>1 DEF XcodeStart, XInv, XcodeTypeOK
  <2>5. \A s \in DOMAIN xcodeRuns : ~XcodeLive(s)
    BY Zenon, <1>1 DEF XcodeStart, XInv, InstallsNeverOverlap
  <2>6. XcodeTypeOK' /\ OnlyWholeInstalled'
    BY <1>1, <2>2 DEF XcodeStart, XInv, XcodeTypeOK, OnlyWholeInstalled
  <2>7. \A s \in DOMAIN xcodeRuns' : XcodeRunInv(xcodeRuns'[s])
    BY <2>1, <2>3, <2>4 DEF XInv
  <2>8. \A s \in DOMAIN xcodeRuns' : XcodeLive(s)' <=> s = Len(xcodeRuns) + 1
    <3>1. Len(xcodeRuns) + 1 \notin DOMAIN xcodeRuns
      BY DEF XInv, XcodeTypeOK
    <3>2. QED
      BY <2>3, <2>4, <2>5, <3>1 DEF XcodeLive, NewXcodeRun
  <2>9. InstallsNeverOverlap'
    BY <1>1, <2>3, <2>4, <2>8 DEF InstallsNeverOverlap, XcodeStart, NewXcodeRun
  <2>10. QED
    BY <2>6, <2>7, <2>9 DEF XInv, XcodeRunInv
<1>2. ASSUME NEW r \in DOMAIN xcodeRuns,
             ContextEnds(r) \/ XcodeStep(r) \/ XcodeCommandEnds(r) \/ XcodeStuck(r)
      PROVE  XInv'
  <2> DEFINE was == xcodeRuns[r]
             Moves(q) == xcodeRuns' = [xcodeRuns EXCEPT ![r] = q]
             Good(q) == q \in XcodeRun /\ q.id = was.id /\ q.pc # "gone" /\ XcodeRunInv(q)
             finish == [was EXCEPT !.pc = "finish", !.dirs = NoDirs]
  <2>1. was \in XcodeRun /\ XcodeRunInv(was) /\ xcodeRuns \in Seq(XcodeRun)
    BY DEF XInv, XcodeTypeOK
  <2>2. apps \in {"none", "other", "whole"}
    BY DEF XInv, XcodeTypeOK, OnlyWholeInstalled
  <2>3. Good(finish)
    BY Zenon, <2>1 DEF XcodeRun, NoDirs, Contents, XcodeRunInv
  <2>4. XcodeReturn(r) => Moves(finish)
    BY Zenon, <2>1 DEF XcodeReturn, XcodeRun
  <2>5. Retry(r) => Moves(finish) \/ (Again(r) /\ Moves([was EXCEPT !.pc = "attempt"]))
    BY <2>1, <2>4 DEF Retry
  <2>6. XcodeLive(r) \/ ~(\/ ContextEnds(r) \/ XcodeStep(r) \/ XcodeCommandEnds(r) \/ XcodeStuck(r))
    BY Zenon DEF XcodeLive, ContextEnds, XcodeStep, XcodeCommandEnds, XcodeStuck, Attempt, Verifying,
           Moving, XcodeFinish, XcodeDelete, Checking, Downloading, ExtractOk,
           ExtractFails, Activating, Probing
  <2>7. ASSUME NEW q, Moves(q), Good(q), xcodeJobs' = xcodeJobs,
               apps' \in {"none", "other", "whole"}
        PROVE  XInv'
    BY Zenon, <1>2, <2>6, <2>7, XcodeRunMoves
  <2> HIDE DEF Moves, Good
  <2>8. CASE ContextEnds(r)
    <3>1. Moves([was EXCEPT !.ctxDone = TRUE]) /\ Good([was EXCEPT !.ctxDone = TRUE])
      BY Zenon, <2>1, <2>8 DEF ContextEnds, Moves, Good, XcodeRun, XcodeRunInv, XcodeLive
    <3>2. QED
      BY <2>2, <2>7, <2>8, <3>1 DEF ContextEnds
  <2>9. CASE XcodeStuck(r)
    <3>1. Moves([was EXCEPT !.stuck = TRUE]) /\ Good([was EXCEPT !.stuck = TRUE])
      BY Zenon, <2>1, <2>9 DEF XcodeStuck, Moves, Good, XcodeRun, XcodeRunInv
    <3>2. QED
      BY <2>2, <2>7, <2>9, <3>1 DEF XcodeStuck
  <2>10. CASE Checking(r)
    <3>1. Good([was EXCEPT !.pc = "attempt"])
      <4>1. was.try = 0 /\ 0 < MaxAttempts
        BY <2>1, <2>10 DEF Checking, XcodeRunInv
      <4>2. QED
        BY Zenon, <2>1, <4>1 DEF Good, XcodeRun, XcodeRunInv
    <3>2. Moves(finish) \/ Moves([was EXCEPT !.pc = "attempt"])
      BY <2>4, <2>10 DEF Checking, Moves
    <3>3. QED
      BY <2>2, <2>3, <2>7, <2>10, <3>1, <3>2 DEF Checking
  <2>11. CASE Attempt(r)
    <3> DEFINE n == was.try + 1
               Fresh == [was.dirs EXCEPT ![n] = "empty"]
               Dropped == [k \in 1..MaxAttempts |->
                              IF k = n - 1 THEN "absent" ELSE Fresh[k]]
               q(d, l) == [was EXCEPT !.pc = "downloading", !.try = n,
                                      !.dirs = d, !.leftover = l]
    <3>1. Moves(finish) \/ \E failed \in BOOLEAN :
              Moves(q(IF failed THEN Fresh ELSE Dropped, was.leftover \/ (failed /\ n > 1)))
      <4>1. ASSUME NEW d, NEW failed \in BOOLEAN,
                   xcodeRuns' = [xcodeRuns EXCEPT ![r].pc = "downloading", ![r].try = n,
                                ![r].dirs = d,
                                ![r].leftover = @ \/ (failed /\ n > 1)]
            PROVE  Moves(q(d, was.leftover \/ (failed /\ n > 1)))
        BY Zenon, <2>1, <4>1 DEF Moves, XcodeRun
      <4>2. XcodeReturn(r) \/ \E failed \in BOOLEAN :
               xcodeRuns' = [xcodeRuns EXCEPT ![r].pc = "downloading", ![r].try = n,
                            ![r].dirs = IF failed THEN Fresh ELSE Dropped,
                            ![r].leftover = @ \/ (failed /\ n > 1)]
        BY Zenon, <2>11 DEF Attempt
      <4> HIDE DEF q, Fresh, Dropped, n
      <4>3. QED
        BY Zenon, <2>4, <4>1, <4>2
    <3>2. n \in 1..MaxAttempts
      <4>1. was.try \in 0..MaxAttempts /\ was.try < MaxAttempts
        BY Zenon, <2>1, <2>11 DEF Attempt, XcodeRun, XcodeRunInv
      <4>2. QED
        BY <4>1
    <3>3. Fresh \in [1..MaxAttempts -> Contents] /\ Dropped \in [1..MaxAttempts -> Contents]
      BY <2>1, <3>2 DEF XcodeRun, Contents
    <3> HIDE DEF Fresh, Dropped, n
    <3>4. \A d \in [1..MaxAttempts -> Contents], l \in BOOLEAN : Good(q(d, l))
      <4> SUFFICES ASSUME NEW d \in [1..MaxAttempts -> Contents], NEW l \in BOOLEAN
                   PROVE  Good(q(d, l))
        BY Zenon
      <4>1. q(d, l) \in XcodeRun
        <5>1. n \in 0..MaxAttempts
          BY <3>2
        <5>2. [was EXCEPT !.pc = "downloading", !.try = n] \in XcodeRun
          BY Zenon, <2>1, <5>1 DEF XcodeRun
        <5>3. [was EXCEPT !.pc = "downloading", !.try = n, !.dirs = d] \in XcodeRun
          BY Zenon, <5>2 DEF XcodeRun
        <5>4. QED
          BY Zenon, <5>3 DEF XcodeRun
      <4>2. /\ q(d, l).id = was.id /\ q(d, l).pc = "downloading"
            /\ q(d, l).try = n
        BY <2>1 DEF XcodeRun
      <4>3. QED
        BY <3>2, <4>1, <4>2 DEF Good, XcodeRunInv
    <3>5. \A failed \in BOOLEAN : (was.leftover \/ (failed /\ n > 1)) \in BOOLEAN
      OBVIOUS
    <3>6. \E x : Moves(x) /\ Good(x)
      BY Zenon, <2>3, <3>1, <3>3, <3>4, <3>5
    <3>7. QED
      BY Zenon, <2>2, <2>7, <2>11, <3>6 DEF Attempt
  <2>12. CASE Downloading(r)
    <3> DEFINE q(c) == [was EXCEPT !.pc = "verifying", !.dirs[was.try] = c]
    <3>1. Moves(finish) \/ \E c \in {"sound", "damaged"} : Moves(q(c))
      <4>1. ASSUME NEW c,
                   xcodeRuns' = [xcodeRuns EXCEPT ![r].pc = "verifying",
                                        ![r].dirs[xcodeRuns[r].try] = c]
            PROVE  Moves(q(c))
        BY Zenon, <2>1, <4>1 DEF Moves, XcodeRun
      <4> HIDE DEF q
      <4>2. QED
        BY Zenon, <2>4, <2>12, <4>1 DEF Downloading
    <3>2. \A c \in {"sound", "damaged"} : Good(q(c))
      BY Zenon, <2>1, <2>12 DEF Downloading, Good, XcodeRun, XcodeRunInv, Contents
    <3>3. QED
      BY <2>2, <2>3, <2>7, <2>12, <3>1, <3>2 DEF Downloading
  <2>13. Again(r) /\ was.pc \in {"verifying", "extracting"}
            => Good([was EXCEPT !.pc = "attempt"])
    BY Zenon, <2>1 DEF Again, Good, XcodeRun, XcodeRunInv
  <2>14. CASE Verifying(r)
    <3>1. \/ Moves(finish) \/ (Again(r) /\ Moves([was EXCEPT !.pc = "attempt"]))
          \/ Moves([was EXCEPT !.pc = "extracting"])
      BY <2>5, <2>14 DEF Verifying, Moves
    <3>2. Good([was EXCEPT !.pc = "extracting"])
      BY Zenon, <2>1, <2>14 DEF Verifying, Good, XcodeRun, XcodeRunInv
    <3>3. QED
      BY <2>2, <2>3, <2>7, <2>13, <2>14, <3>1, <3>2 DEF Verifying
  <2>15. CASE ExtractOk(r)
    <3> DEFINE dirs == [was.dirs EXCEPT ![was.try] = "whole"]
               q == [was EXCEPT !.pc = "moving", !.app = "whole", !.dirs = dirs]
    <3>1. was.try \in 1..MaxAttempts
      BY <2>1, <2>15 DEF ExtractOk, XcodeRunInv
    <3>2. Scan(dirs, was.try) = {"whole"}
      BY Zenon, <2>1, <3>1 DEF Scan, XcodeRun
    <3>3. Moves(q)
      BY Zenon, <2>1, <2>15, <3>2 DEF ExtractOk, Moves
    <3>4. Good(q)
      BY Zenon, <2>1, <3>1 DEF Good, XcodeRun, XcodeRunInv, Contents
    <3>5. QED
      BY <2>2, <2>7, <2>15, <3>3, <3>4 DEF ExtractOk
  <2>16. CASE ExtractFails(r)
    <3> DEFINE q(c) == [was EXCEPT !.pc = "attempt", !.dirs[was.try] = c]
    <3>1. was.try \in 1..MaxAttempts
      BY <2>1, <2>16 DEF ExtractFails, XcodeRunInv
    <3>2. \/ Moves(finish)
          \/ Again(r) /\ \E c \in {"half", was.dirs[was.try]} : Moves(q(c))
      <4>1. ASSUME NEW c,
                   xcodeRuns' = [xcodeRuns EXCEPT ![r].pc = "attempt",
                                        ![r].dirs[xcodeRuns[r].try] = c]
            PROVE  Moves(q(c))
        BY Zenon, <2>1, <4>1 DEF Moves, XcodeRun
      <4> HIDE DEF q
      <4>2. QED
        BY Zenon, <2>4, <2>16, <4>1 DEF ExtractFails
    <3>3. Again(r) => \A c \in {"half", was.dirs[was.try]} : Good(q(c))
      BY Zenon, <2>1, <3>1 DEF Again, Good, XcodeRun, XcodeRunInv, Contents
    <3>4. QED
      BY <2>2, <2>3, <2>7, <2>16, <3>2, <3>3 DEF ExtractFails
  <2>17. CASE Moving(r)
    <3> DEFINE q == [was EXCEPT !.pc = "activating", !.dirs[was.try] = "empty"]
    <3>1. was.try \in 1..MaxAttempts /\ was.app = "whole"
      BY <2>1, <2>17 DEF Moving, XcodeRunInv
    <3>2. Moves(finish) \/ Moves(q)
      BY Zenon, <2>1, <2>4, <2>17 DEF Moving, moveXcodeApp, Moves, XcodeRun
    <3>3. Good(q)
      BY Zenon, <2>1, <3>1 DEF Good, XcodeRun, XcodeRunInv, Contents
    <3>4. apps' \in {"none", "other", "whole"}
      BY <2>2, <2>17, <3>1 DEF Moving, moveXcodeApp
    <3>5. QED
      BY <2>3, <2>7, <2>17, <3>2, <3>3, <3>4 DEF Moving
  <2>18. CASE Activating(r)
    <3>1. Moves(finish) \/ Moves([was EXCEPT !.pc = "probing"])
      BY <2>4, <2>18 DEF Activating, Moves
    <3>2. Good([was EXCEPT !.pc = "probing"])
      BY Zenon, <2>1 DEF Good, XcodeRun, XcodeRunInv
    <3>3. QED
      BY <2>2, <2>3, <2>7, <2>18, <3>1, <3>2 DEF Activating
  <2>19. CASE Probing(r)
    BY <2>2, <2>3, <2>4, <2>7, <2>19 DEF Probing
  <2>20. CASE XcodeFinish(r)
    <3>1. Moves([was EXCEPT !.pc = "delete"]) /\ Good([was EXCEPT !.pc = "delete"])
      BY Zenon, <2>1, <2>20 DEF XcodeFinish, Moves, Good, XcodeRun, XcodeRunInv
    <3>2. QED
      BY <2>2, <2>7, <2>20, <3>1 DEF XcodeFinish
  <2>21. CASE XcodeDelete(r)
    <3> DEFINE q == [NewXcodeRun(was.id) EXCEPT !.pc = "gone"]
    <3>1. q \in XcodeRun /\ XcodeRunInv(q) /\ q.pc = "gone"
      <4>1. NoDirs \in [1..MaxAttempts -> Contents] /\ was.id \in Jobs
        BY <2>1 DEF NoDirs, XcodeRun, Contents
      <4>2. NewXcodeRun(was.id) \in XcodeRun
        BY <4>1 DEF NewXcodeRun, XcodeRun
      <4>3. q \in XcodeRun /\ q.pc = "gone"
        BY <4>2 DEF XcodeRun
      <4>4. QED
        BY <4>3 DEF XcodeRunInv
    <3>2. xcodeRuns' = [xcodeRuns EXCEPT ![r] = q]
      BY <2>1, <2>21 DEF XcodeDelete
    <3> HIDE DEF q
    <3>3. /\ xcodeRuns' \in Seq(XcodeRun) /\ Len(xcodeRuns') = Len(xcodeRuns)
          /\ DOMAIN xcodeRuns' = DOMAIN xcodeRuns
          /\ \A s \in DOMAIN xcodeRuns : xcodeRuns'[s] = IF s = r THEN q ELSE xcodeRuns[s]
      BY <2>1, <3>1, <3>2
    <3>4. \A s \in DOMAIN xcodeRuns : XcodeLive(s) <=> s = r
      BY <2>21 DEF XcodeDelete, XInv, InstallsNeverOverlap, XcodeLive
    <3>5. \A s \in DOMAIN xcodeRuns : ~XcodeLive(s)'
      BY <3>1, <3>3, <3>4 DEF XcodeLive
    <3>6. xcodeJobs' = {}
      BY <2>21, <3>4 DEF XcodeDelete, XInv, InstallsNeverOverlap
    <3>7. InstallsNeverOverlap'
      BY <3>3, <3>5, <3>6 DEF InstallsNeverOverlap
    <3>8. XcodeTypeOK' /\ OnlyWholeInstalled'
      BY <2>21, <3>3, <3>6 DEF XcodeDelete, XInv, XcodeTypeOK, OnlyWholeInstalled
    <3>9. \A s \in DOMAIN xcodeRuns' : XcodeRunInv(xcodeRuns'[s])
      BY <3>1, <3>3 DEF XInv
    <3>10. QED
      BY <3>7, <3>8, <3>9 DEF XInv, XcodeRunInv
  <2>22. QED
    BY <1>2, <2>8, <2>9, <2>10, <2>11, <2>12, <2>14, <2>15, <2>16, <2>17, <2>18,
       <2>19, <2>20, <2>21 DEF XcodeStep, XcodeCommandEnds
<1>3. CASE Operator
  BY <1>3 DEF Operator, XInv, XcodeTypeOK, XcodeRunInv, InstallsNeverOverlap, OnlyWholeInstalled, XcodeLive
<1>4. CASE UNCHANGED xcodeVars
  BY <1>4 DEF xcodeVars, XInv, XcodeTypeOK, XcodeRunInv, InstallsNeverOverlap, OnlyWholeInstalled, XcodeLive
<1>5. QED
  BY <1>1, <1>2, <1>3, <1>4 DEF XcodeNext

\* One install at a time, and the table names exactly the one that runs
\* (common/agent/xcodejob.go:93-144).
THEOREM OneInstall == XcodeSpec => []InstallsNeverOverlap
<1>1. XInv => InstallsNeverOverlap
  BY DEF XInv
<1>2. XInv /\ [XcodeNext]_xcodeVars => XInv'
  BY XcodeAssumption, StepXcode
<1>3. QED
  BY XcodeAssumption, InitXcode, <1>1, <1>2, PTL DEF XcodeSpec

\* What a job puts in /Applications was extracted to the end, however many
\* attempts failed before (common/agent/xcodejob.go:261-434).
THEOREM WholeApps == XcodeSpec => []OnlyWholeInstalled
<1>1. XInv => OnlyWholeInstalled
  BY DEF XInv
<1>2. XInv /\ [XcodeNext]_xcodeVars => XInv'
  BY XcodeAssumption, StepXcode
<1>3. QED
  BY XcodeAssumption, InitXcode, <1>1, <1>2, PTL DEF XcodeSpec

-----------------------------------------------------------------------------
(* Managed tools.                                                          *)

\* The inductive invariant.  Only processes that were spawned are registered,
\* timed or cancelled; a timer and a replacement hold a process that was asked
\* to end.
ToolInv ==
    /\ runOf \in Seq(RunIds) /\ Spawned <= MaxStarts
    /\ toolRuns \in [RunIds -> 0 .. Spawned]
    /\ proc \in [Procs -> {"none", "running", "exited"}]
    /\ \A p \in Procs : proc[p] # "none" => p <= Spawned
    /\ ctx \subseteq 1 .. Spawned /\ asked \subseteq 1 .. Spawned /\ timers \subseteq asked
    /\ disp \in {"spawned", "replacing", "registering", "launching"} => Spawned > 0
    /\ disp = "replacing" => old \in asked
    /\ OnlyTargetsKilled

\* Every step of the dispatch loop, the timers, the processes, the pumps and
\* the waiters preserves it (common/agent/toolrun.go:81-229).
LEMMA StepTool ==
    ASSUME ToolInv, [ToolNext]_toolVars
    PROVE  ToolInv'
<1> USE StartsAssumption DEF ToolInv, OnlyTargetsKilled, Spawned, Procs
<1>0. Len(runOf) \in Nat
  BY LenProperties
<1>1. ASSUME NEW r \in RunIds, StartSpawn(r) PROVE ToolInv'
  <2>1. runOf' \in Seq(RunIds) /\ Len(runOf') = Len(runOf) + 1
    BY <1>1, AppendProperties DEF StartSpawn
  <2>2. Len(runOf) + 1 \in Procs /\ Len(runOf) + 1 \notin ctx
    BY <1>0, <1>1 DEF StartSpawn
  <2>3. QED
    BY <1>0, <1>1, <2>1, <2>2 DEF StartSpawn
<1>2. ASSUME NEW r \in RunIds, StartFail(r) PROVE ToolInv'
  BY <1>2 DEF StartFail
<1>b. ASSUME NEW r \in RunIds, Stop(r) PROVE ToolInv'
  <2>1. toolRuns[r] \in 1 .. Len(runOf)
    BY <1>0, <1>b DEF Stop
  <2>2. QED
    BY Zenon, <1>b, <2>1 DEF Stop
<1>3. CASE StartLookup
  <2>1. runOf[Len(runOf)] \in RunIds
    BY <1>0, <1>3, ElementOfSeq DEF StartLookup
  <2>2. CASE toolRuns[runOf[Len(runOf)]] = 0
    <3>1. toolRuns' \in [RunIds -> 0 .. Len(runOf)]
      BY <1>0, <1>3, <2>2 DEF StartLookup
    <3>2. /\ UNCHANGED <<runOf, proc, ctx, asked, timers>>
          /\ disp' = "launching" /\ disp = "spawned"
      BY <1>3, <2>2 DEF StartLookup
    <3>3. QED
      BY <3>1, <3>2
  <2>3. CASE toolRuns[runOf[Len(runOf)]] # 0
    <3>1. toolRuns[runOf[Len(runOf)]] \in 1 .. Len(runOf)
      BY <1>0, <2>1, <2>3
    <3>2. QED
      BY Zenon, <1>3, <2>3, <3>1 DEF StartLookup
  <2>4. QED
    BY Zenon, <2>2, <2>3
<1>4. CASE StartReplace \/ StartLaunch
  BY Zenon, <1>0, <1>4 DEF StartReplace, StartLaunch
<1>5. CASE StartRegister
  BY <1>0, <1>5 DEF StartRegister
<1>6. ASSUME NEW p \in Procs, StopTimer(p) PROVE ToolInv'
  BY <1>6 DEF StopTimer
<1>c. ASSUME NEW p \in Procs, Kill(p) \/ ProcExit(p) PROVE ToolInv'
  <2>1. proc' = [proc EXCEPT ![p] = "exited"] /\ proc[p] = "running"
    BY <1>c DEF Kill, ProcExit
  <2>2. UNCHANGED <<runOf, toolRuns, ctx, asked, timers, disp, old>>
    BY <1>c DEF Kill, ProcExit
  <2>3. QED
    BY <2>1, <2>2
<1>7. ASSUME NEW p \in Procs, pumpOut(p) \/ pumpEnd(p) \/ emitExitRevision(p) PROVE ToolInv'
  BY Zenon, <1>0, <1>7 DEF pumpOut, pumpEnd, emitExitRevision
<1>8. ASSUME NEW p \in Procs, Wait(p) PROVE ToolInv'
  <2>1. p \in 1 .. Len(runOf) /\ proc[p] = "exited" /\ ctx' = ctx \cup {p}
    BY <1>0, <1>8 DEF Wait
  <2>2. UNCHANGED <<runOf, toolRuns, proc, asked, timers, disp, old>>
    BY <1>8 DEF Wait
  <2>3. QED
    BY <2>1, <2>2
<1>d. ASSUME NEW p \in Procs, Deregister(p) PROVE ToolInv'
  <2>1. toolRuns' \in [RunIds -> 0 .. Len(runOf)]
    <3>1. ASSUME NEW r PROVE [toolRuns EXCEPT ![r] = 0] \in [RunIds -> 0 .. Len(runOf)]
      <4> DEFINE after == [toolRuns EXCEPT ![r] = 0]
      <4>1. DOMAIN after = RunIds /\ after = [s \in DOMAIN after |-> after[s]]
        BY Zenon
      <4>2. \A s \in RunIds : after[s] \in {0, toolRuns[s]}
        OBVIOUS
      <4>3. \A s \in RunIds : after[s] \in 0 .. Len(runOf)
        BY <1>0, <4>2
      <4> HIDE DEF after
      <4>4. after \in [RunIds -> 0 .. Len(runOf)]
        BY <4>1, <4>3
      <4>5. QED
        BY <4>4 DEF after
    <3>2. QED
      BY Zenon, <1>d, <3>1 DEF Deregister
  <2>2. UNCHANGED <<runOf, proc, ctx, asked, timers, disp, old>>
    BY <1>d DEF Deregister
  <2>3. QED
    BY <2>1, <2>2
<1>9. CASE UNCHANGED toolVars
  BY <1>9 DEF toolVars
<1>10. QED
  BY <1>1, <1>2, <1>3, <1>4, <1>5, <1>6, <1>7, <1>8, <1>9, <1>b, <1>c, <1>d
     DEF ToolNext, startStep, waiterStep

\* For any run ids and any number of starts: a process that runs under a
\* cancelled context was asked to end, so neither the timer of an old Stop nor
\* the end of an older run of the id kills a later one
\* (common/agent/toolrun.go:137-145, 216-229).
THEOREM StopHitsItsTarget == ToolSpec => []OnlyTargetsKilled
<1>1. ToolInit => ToolInv
  BY StartsAssumption DEF ToolInit, ToolInv, OnlyTargetsKilled, Spawned, Procs
<1>2. ToolInv => OnlyTargetsKilled
  BY DEF ToolInv
<1>3. ToolInv /\ [ToolNext]_toolVars => ToolInv'
  BY StepTool
<1>4. QED
  BY <1>1, <1>2, <1>3, PTL DEF ToolSpec
=============================================================================
