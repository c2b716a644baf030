------------------------ MODULE ApplyPipeline_proofs ------------------------
(***************************************************************************)
(* Proofs about ApplyPipeline, for any sets of applications and callers,   *)
(* any number of attempts and any faults.                                  *)
(*                                                                         *)
(* The properties are not inductive: whether a second filing is possible   *)
(* depends on which jobs can exist together and how far Stage 1 got, and   *)
(* whether an applied application may go back depends on what its other    *)
(* jobs are about to write. IInv says both.                                *)
(***************************************************************************)
EXTENDS ApplyPipeline, TLAPS

Ends == {"returned", "lost", "fail", "error"}
StepsOf(j) == (IF j.stage = "ai_prep" THEN PrepSteps ELSE ApplySteps) \cup Ends

(* A job counts its attempts, and runs the Work of its own stage.           *)
JobInv ==
  \A j \in Jobs :
    /\ queue[j] = "absent" => attempt[j] = 0
    /\ queue[j] = "available" => attempt[j] < MaxAttempts
    /\ queue[j] = "running" => attempt[j] >= 1 /\ at[j] \in StepsOf(j)

(* A session belongs to an attempt that was made, and Stage 2 gets past the *)
(* pool only with a filed form.                                             *)
SessionInv ==
  /\ \A s \in open \cup filed : s[2] <= attempt[s[1]]
  /\ \A j \in Jobs : At(j, "apply_screenshot") \/ At(j, "apply_mark") =>
       <<j, attempt[j]>> \in filed

(* Without a row there is nothing.                                          *)
RowInv ==
  \A a \in Apps : row[a].status = "absent" => JobsOf(a) = {} /\ row[a].content = "none"

(* One call of Submit at most is between its INSERTs, before any job.       *)
CallInv ==
  \A c \in Callers, a \in Apps : call[c][a] # "idle" =>
    /\ row[a].status # "absent"
    /\ JobsOf(a) = {}
    /\ row[a].content = IF call[c][a] = "insert_raw" THEN "raw" ELSE "none"
    /\ \A d \in Callers : call[d][a] # "idle" => d = c

(* Stage 1 writes the documents before it names them in the row.            *)
PrepInv ==
  \A j \in Stage1Jobs : queue[j] # "absent" =>
    /\ row[j.app].content \in {"none", "tailored"}
    /\ At(j, "prep_put_cover") => "resume" \in stored[j.app]
    /\ At(j, "prep_persist") \/ At(j, "prep_enqueue") => stored[j.app] = Documents
    /\ At(j, "prep_enqueue") => row[j.app].content = "tailored"

(* A Stage 2 job is the only job of its application, or was inserted by an  *)
(* attempt of Stage 1 that does nothing more.                               *)
ApplyInv ==
  \A j \in Stage2Jobs : queue[j] # "absent" =>
    IF j.by = 0
    THEN row[j.app].content = "raw" /\ JobsOf(j.app) = {j}
    ELSE /\ queue[AIPrep(j.app)] # "absent"
         /\ j.by <= attempt[AIPrep(j.app)]
         /\ j.by = attempt[AIPrep(j.app)] /\ queue[AIPrep(j.app)] = "running"
              => at[AIPrep(j.app)] \in Ends
         /\ row[j.app].content = "tailored"
         /\ stored[j.app] = Documents

FiledInv ==
  \A a \in Apps : row[a].status = "applied" \/ row[a].applied_at => FiledOf(a) # {}

(* An applied application without a redelivery: no job of it has a write    *)
(* ahead except that of failApp.                                            *)
ReopenInv ==
  \A a \in Apps : row[a].status = "applied" /\ ~Redelivered(a) =>
    \A j \in JobsOf(a) : attempt[j] = 1 /\ (queue[j] = "running" => at[j] \in Ends)

IInv ==
  /\ TypeOK /\ JobInv /\ SessionInv /\ RowInv /\ CallInv
  /\ PrepInv /\ ApplyInv /\ FiledInv /\ ReopenInv

-----------------------------------------------------------------------------
(* Names of jobs.                                                           *)

LEMMA AIPrepName == ASSUME NEW a \in Apps
                    PROVE  AIPrep(a) \in Stage1Jobs /\ AIPrep(a).app = a /\ AIPrep(a).by = 0
                           /\ AIPrep(a).stage = "ai_prep"
BY DEF AIPrep, Stage1Jobs

LEMMA BrowserApplyName ==
  ASSUME NEW a \in Apps, NEW n \in 0..MaxAttempts
  PROVE  /\ BrowserApply(a, n) \in Stage2Jobs
         /\ BrowserApply(a, n).app = a /\ BrowserApply(a, n).by = n
         /\ BrowserApply(a, n).stage = "browser_apply"
BY DEF BrowserApply, Stage2Jobs

LEMMA Stage1Name == ASSUME NEW j \in Stage1Jobs
                    PROVE  j.app \in Apps /\ j = AIPrep(j.app) /\ j.stage = "ai_prep"
BY DEF AIPrep, Stage1Jobs

LEMMA Stage2Name ==
  ASSUME NEW j \in Stage2Jobs
  PROVE  /\ j.app \in Apps /\ j.by \in 0..MaxAttempts
         /\ j = BrowserApply(j.app, j.by) /\ j.stage = "browser_apply"
BY DEF BrowserApply, Stage2Jobs

LEMMA JobNames ==
  /\ Jobs = Stage1Jobs \cup Stage2Jobs
  /\ Stage1Jobs \cap Stage2Jobs = {}
  /\ \A j \in Jobs : j.app \in Apps
  /\ \A j \in Jobs : j.stage = "ai_prep" <=> j \in Stage1Jobs
BY Stage1Name, Stage2Name DEF Jobs

-----------------------------------------------------------------------------
(* Type correctness.                                                        *)

LEMMA RowUpdateType ==
  ASSUME TypeOK, NEW j \in Jobs, NEW new \in Row, NEW next \in Steps, NEW onError \in Steps,
         UpdateRow(j, new, next, onError)
  PROVE  row' \in [Apps -> Row] /\ at' \in [Jobs -> Steps]
<1>1. j.app \in Apps
  BY JobNames
<1>2. row' = [row EXCEPT ![j.app] = new] \/ row' = row
  BY DEF UpdateRow
<1>3. row' \in [Apps -> Row]
  BY <1>1, <1>2 DEF TypeOK
<1>4. at' = [at EXCEPT ![j] = next] \/ at' = [at EXCEPT ![j] = onError]
  BY DEF UpdateRow, Goto
<1>5. at' \in [Jobs -> Steps]
  BY <1>4 DEF TypeOK
<1> QED BY <1>3, <1>5

LEMMA TypeInit == Init => TypeOK
BY PipelineAssumption
DEF Init, TypeOK, Row, Statuses, Contents, SubmitSteps, QueueStates, Steps, NullableText

LEMMA SubmitGotoType ==
  ASSUME TypeOK, NEW c \in Callers, NEW a \in Apps, NEW step \in SubmitSteps,
         SubmitGoto(c, a, step)
  PROVE  call' \in [Callers -> [Apps -> SubmitSteps]]
<1>1. [call[c] EXCEPT ![a] = step] \in [Apps -> SubmitSteps]
  BY DEF TypeOK
<1>2. call' = [call EXCEPT ![c] = [call[c] EXCEPT ![a] = step]]
  BY DEF SubmitGoto
<1> QED BY <1>1, <1>2 DEF TypeOK

LEMMA TypeSubmit ==
  ASSUME TypeOK, NEW c \in Callers, NEW a \in Apps,
         SubmitCreate(c, a) \/ Submitting(c, a) \/ SubmitCrash(c, a)
  PROVE  TypeOK'
<1>s. {"idle", "link_raw", "insert_tailored", "insert_raw"} = SubmitSteps
  BY DEF SubmitSteps
<1>1. CASE SubmitCreate(c, a)
  <2>1. call' \in [Callers -> [Apps -> SubmitSteps]]
    BY <1>1, <1>s, SubmitGotoType DEF SubmitCreate, TypeOK
  <2>2. row' \in [Apps -> Row]
    BY <1>1, ZenonT(60) DEF SubmitCreate, TypeOK, Row, Statuses
  <2> QED BY <1>1, <2>1, <2>2 DEF SubmitCreate, TypeOK, jobVars, poolVars
<1>2. CASE SubmitLink(c, a)
  <2>1. call' \in [Callers -> [Apps -> SubmitSteps]]
    BY <1>2, <1>s, SubmitGotoType DEF SubmitLink
  <2>2. row' \in [Apps -> Row]
    BY <1>2, ZenonT(60) DEF SubmitLink, TypeOK, Row, Contents
  <2> QED BY <1>2, <2>1, <2>2 DEF SubmitLink, TypeOK, jobVars, poolVars
<1>3. CASE SubmitInsert(c, a)
  <2>1. AIPrep(a) \in Jobs /\ BrowserApply(a, 0) \in Jobs
    BY AIPrepName, BrowserApplyName, JobNames, PipelineAssumption
  <2>2. call' \in [Callers -> [Apps -> SubmitSteps]]
    BY <1>3, <1>s, SubmitGotoType DEF SubmitInsert
  <2>3. queue' \in [Jobs -> QueueStates]
    BY <1>3, <2>1 DEF SubmitInsert, TypeOK, QueueStates
  <2> QED BY <1>3, <2>2, <2>3 DEF SubmitInsert, TypeOK, poolVars
<1>4. CASE SubmitCrash(c, a)
  <2>1. call' \in [Callers -> [Apps -> SubmitSteps]]
    BY <1>4, <1>s, SubmitGotoType DEF SubmitCrash
  <2> QED BY <1>4, <2>1 DEF SubmitCrash, TypeOK, jobVars, poolVars
<1> QED BY <1>1, <1>2, <1>3, <1>4 DEF Submitting

LEMMA TypeRiver ==
  ASSUME TypeOK, JobInv, NEW j \in Jobs, River(j) \/ Deadline(j)
  PROVE  TypeOK'
<1> USE DEF TypeOK, Goto, Leave, jobVars, poolVars
<1>1. CASE Fetch(j)
  <2>1. attempt[j] + 1 \in 0..MaxAttempts
    BY <1>1, PipelineAssumption DEF Fetch, JobInv
  <2>2. "prep_status" \in Steps /\ "apply_status" \in Steps
    BY DEF Steps, WorkSteps, PrepSteps, ApplySteps
  <2> QED BY <1>1, <2>1, <2>2 DEF Fetch, QueueStates
<1>2. CASE Complete(j)
  BY <1>2 DEF Complete, QueueStates, Steps
<1>3. CASE Retry(j)
  BY <1>3 DEF Retry, QueueStates, Steps
<1>4. CASE Deadline(j)
  BY <1>4 DEF Deadline, Steps
<1> QED BY <1>1, <1>2, <1>3, <1>4 DEF River

LEMMA TypeWork ==
  ASSUME TypeOK, JobInv, NEW j \in Jobs, Work(j)
  PROVE  TypeOK'
<1> DEFINE r == row[j.app]
<1>0. j.app \in Apps /\ r \in Row
  BY JobNames DEF TypeOK
<1>s. WorkSteps \cup {"idle", "error", "returned", "lost"} \subseteq Steps
  BY DEF Steps
<1>r. /\ \A status \in Statuses : [r EXCEPT !.status = status] \in Row
      /\ \A status \in Statuses, content \in Contents :
           [r EXCEPT !.status = status, !.content = content] \in Row
      /\ \A status \in Statuses, n \in NullableText :
           [r EXCEPT !.status = status, !.nulls = @ \ {n}] \in Row
      /\ \A n \in NullableText : [r EXCEPT !.nulls = @ \ {n}] \in Row
      /\ \A status \in Statuses : [r EXCEPT !.status = status, !.applied_at = TRUE] \in Row
  BY <1>0 DEF Row
<1>1. CASE PrepStatus(j)
  BY <1>1, <1>r, <1>s, RowUpdateType DEF PrepStatus, TypeOK, poolVars, Statuses, WorkSteps, PrepSteps
<1>2. CASE PrepGenerate(j)
  BY <1>2, <1>s DEF PrepGenerate, CallOut, Goto, TypeOK, poolVars, WorkSteps, PrepSteps
<1>3. CASE PrepPut(j)
  BY <1>0, <1>3, <1>s, SMTT(30)
  DEF PrepPut, PutText, Goto, TypeOK, poolVars, WorkSteps, PrepSteps, Documents
<1>4. CASE PrepPersist(j)
  BY <1>4, <1>r, <1>s, RowUpdateType
  DEF PrepPersist, TypeOK, poolVars, Statuses, Contents, WorkSteps, PrepSteps
<1>5. CASE PrepEnqueue(j)
  <2>1. At(j, "prep_enqueue") /\ BrowserApply(j.app, attempt[j]) \in Jobs
    BY <1>0, <1>5, BrowserApplyName, JobNames DEF PrepEnqueue, TypeOK
  <2> QED BY <1>5, <1>s, <2>1 DEF PrepEnqueue, Goto, TypeOK, poolVars, WorkSteps, QueueStates
<1>6. CASE ApplyStatus(j)
  BY <1>6, <1>r, <1>s, RowUpdateType DEF ApplyStatus, TypeOK, poolVars, Statuses, WorkSteps, ApplySteps
<1>7. CASE ApplyLoad(j)
  BY <1>7, <1>s DEF ApplyLoad, CallOut, Goto, TypeOK, poolVars, WorkSteps, ApplySteps
<1>8. CASE ApplyFetch(j)
  BY <1>8, <1>s DEF ApplyFetch, CallOut, Goto, TypeOK, poolVars, WorkSteps, ApplySteps
<1>9. CASE ApplyCall(j)
  <2>1. j \in Stage2Jobs /\ attempt[j] \in 1..MaxAttempts
    BY <1>9, JobNames DEF ApplyCall, At, JobInv, StepsOf, PrepSteps, Ends, TypeOK
  <2> QED BY <1>9, <1>s, <2>1 DEF ApplyCall, Goto, TypeOK, WorkSteps, ApplySteps
<1>10. CASE ApplyAbort(j)
  BY <1>10, <1>s DEF ApplyAbort, Goto, TypeOK, poolVars, WorkSteps
<1>11. CASE ApplyScreenshot(j)
  <2>1. "apply_mark" \in Steps
    BY <1>s DEF WorkSteps, ApplySteps
  <2>2. CASE UNCHANGED row /\ Goto(j, "apply_mark")
    BY <1>11, <2>1, <2>2 DEF ApplyScreenshot, Goto, TypeOK, poolVars
  <2>3. CASE UpdateRow(j, [row[j.app] EXCEPT !.nulls = @ \ {"screenshot_s3"}],
                       "apply_mark", "apply_mark")
    BY <1>11, <1>r, <2>1, <2>3, RowUpdateType DEF ApplyScreenshot, TypeOK, poolVars, NullableText
  <2> QED BY <1>11, <2>2, <2>3 DEF ApplyScreenshot
<1>12. CASE ApplyMark(j)
  BY <1>12, <1>r, <1>s, RowUpdateType DEF ApplyMark, TypeOK, poolVars, Statuses, WorkSteps
<1>13. CASE FailApp(j)
  BY <1>13, <1>r, <1>s, RowUpdateType DEF FailApp, TypeOK, poolVars, Statuses, NullableText
<1> QED BY <1>1, <1>2, <1>3, <1>4, <1>5, <1>6, <1>7, <1>8, <1>9, <1>10, <1>11, <1>12, <1>13
        DEF Work

LEMMA TypePool ==
  ASSUME TypeOK, JobInv, NEW j \in Stage2Jobs, NEW n \in 1..MaxAttempts, Pool(j, n)
  PROVE  TypeOK'
BY JobNames DEF TypeOK, Pool, PoolFile, PoolAnswer, Waiting, Goto, jobVars, Steps, WorkSteps, ApplySteps

LEMMA TypeEngine ==
  ASSUME TypeOK, EngineCrash \/ EmergencyStop
  PROVE  TypeOK'
<1>1. CASE EngineCrash
  BY <1>1 DEF EngineCrash, TypeOK, poolVars, Steps
<1>2. CASE EmergencyStop
  BY <1>2 DEF EmergencyStop, TypeOK, Steps, WorkSteps
<1> QED BY <1>1, <1>2

-----------------------------------------------------------------------------
(* What the steps do, as the rest of the proof uses them.                   *)

Resting(j) == queue[j] = "running" => at[j] \in Ends

(* What one step of River, the pool or the user makes of a job.             *)
JobMove(k) ==
  \/ queue'[k] = queue[k] /\ attempt'[k] = attempt[k] /\ at'[k] = at[k]
  \/ /\ queue[k] = "available" /\ queue'[k] = "running"
     /\ attempt'[k] = attempt[k] + 1
     /\ at'[k] = IF k.stage = "ai_prep" THEN "prep_status" ELSE "apply_status"
  \/ /\ queue[k] = "running" /\ queue'[k] \in {"completed", "available", "discarded"}
     /\ attempt'[k] = attempt[k]
     /\ queue'[k] = "available" => attempt[k] < MaxAttempts
  \/ /\ queue[k] = "running" /\ queue'[k] = "running"
     /\ attempt'[k] = attempt[k]
     /\ at'[k] \in Ends
  \/ /\ queue[k] = "running" /\ queue'[k] = "running"
     /\ attempt'[k] = attempt[k]
     /\ at[k] = "apply_await" /\ at'[k] = "apply_screenshot"
     /\ <<k, attempt[k]>> \in filed

ControlStep ==
  /\ UNCHANGED <<row, stored, call>>
  /\ filed \subseteq filed' /\ filed' \subseteq filed \cup open
  /\ open' \subseteq open
  /\ \A k \in Jobs : JobMove(k)

LEMMA ControlShape ==
  ASSUME TypeOK,
         \/ \E j \in Jobs : River(j) \/ Deadline(j)
         \/ \E j \in Stage2Jobs, n \in 1..MaxAttempts : Pool(j, n)
         \/ EngineCrash \/ EmergencyStop \/ UNCHANGED vars
  PROVE  ControlStep
<1> USE DEF TypeOK
<1>1. ASSUME NEW j \in Jobs, Fetch(j) PROVE ControlStep
  BY <1>1 DEF Fetch, Goto, ControlStep, JobMove, poolVars
<1>2. ASSUME NEW j \in Jobs, Complete(j) \/ Retry(j) PROVE ControlStep
  BY <1>2 DEF Complete, Retry, Leave, At, Goto, ControlStep, JobMove, poolVars
<1>3. ASSUME NEW j \in Jobs, Deadline(j) PROVE ControlStep
  BY <1>3 DEF Deadline, Goto, ControlStep, JobMove, poolVars, Ends
<1>4. ASSUME NEW j \in Stage2Jobs, NEW n \in 1..MaxAttempts, PoolFile(j, n)
      PROVE  ControlStep
  BY <1>4 DEF PoolFile, ControlStep, JobMove, jobVars
<1>5. ASSUME NEW j \in Stage2Jobs, NEW n \in 1..MaxAttempts, PoolAnswer(j, n)
      PROVE  ControlStep
  BY <1>5, JobNames DEF PoolAnswer, Waiting, At, Goto, ControlStep, JobMove, Ends
<1>6. CASE EngineCrash
  BY <1>6 DEF EngineCrash, ControlStep, JobMove, poolVars, Ends
<1>7. CASE EmergencyStop
  BY <1>7 DEF EmergencyStop, Waiting, At, ControlStep, JobMove, Ends
<1>8. CASE UNCHANGED vars
  BY <1>8 DEF vars, ControlStep, JobMove
<1> QED BY <1>1, <1>2, <1>3, <1>4, <1>5, <1>6, <1>7, <1>8 DEF River, Pool

(* No job appears or vanishes, and no count of attempts goes back.          *)
LEMMA ControlJobs ==
  ASSUME TypeOK, TypeOK', ControlStep
  PROVE  /\ \A k \in Jobs : queue'[k] = "absent" <=> queue[k] = "absent"
         /\ \A k \in Jobs : attempt[k] <= attempt'[k]
         /\ \A a \in Apps : JobsOf(a)' = JobsOf(a)
         /\ \A a \in Apps : Redelivered(a) => Redelivered(a)'
<1>1. \A k \in Jobs : queue'[k] = "absent" <=> queue[k] = "absent"
  BY DEF ControlStep, JobMove
<1>2. ASSUME NEW k \in Jobs PROVE attempt[k] <= attempt'[k]
  <2>1. attempt[k] \in Nat
    BY PipelineAssumption DEF TypeOK
  <2>2. attempt'[k] = attempt[k] \/ attempt'[k] = attempt[k] + 1
    BY DEF ControlStep, JobMove
  <2> QED BY <2>1, <2>2
<1>3. \A a \in Apps : JobsOf(a)' = JobsOf(a)
  BY <1>1 DEF JobsOf
<1>4. ASSUME NEW a \in Apps, Redelivered(a) PROVE Redelivered(a)'
  <2>1. PICK k \in JobsOf(a) : attempt[k] > 1
    BY <1>4 DEF Redelivered
  <2>2. k \in Jobs /\ k \in JobsOf(a)'
    BY <1>3 DEF JobsOf
  <2>3. attempt[k] <= attempt'[k]
    BY <1>2, <2>2
  <2>4. attempt[k] \in Nat /\ attempt'[k] \in Nat
    BY <2>2, PipelineAssumption DEF TypeOK
  <2> QED BY <2>1, <2>2, <2>3, <2>4 DEF Redelivered
<1> QED BY <1>1, <1>2, <1>3, <1>4

(* A step of Work moves its own job, writes its own row, and adds at most   *)
(* the Stage 2 job of its attempt.                                          *)
WorkStep(j) ==
  /\ queue[j] = "running"
  /\ UNCHANGED <<call, attempt, filed>>
  /\ open' \subseteq open \cup {<<j, attempt[j]>>}
  /\ \/ queue' = queue
     \/ /\ at[j] = "prep_enqueue" /\ at'[j] \in Ends
        /\ queue' = [queue EXCEPT ![BrowserApply(j.app, attempt[j])] = "available"]
  /\ at'[j] \in StepsOf(j)
  /\ \A k \in Jobs : k # j => at'[k] = at[k]
  /\ at[j] \in Ends => at'[j] \in Ends
  /\ at'[j] # "apply_screenshot"
  /\ at'[j] = "apply_mark" => at[j] = "apply_screenshot"
  /\ \A a \in Apps : stored[a] \subseteq stored'[a] /\ (a # j.app => row'[a] = row[a])

(* What it writes into the row.                                             *)
WorkWrite(j) ==
  LET old == row[j.app]
      new == row'[j.app]
  IN  /\ new.status # old.status =>
           \/ at[j] = "prep_status" /\ new.status = "ai_preparing"
           \/ at[j] = "prep_persist" /\ new.status = "ai_ready"
           \/ at[j] = "apply_status" /\ new.status = "applying"
           \/ at[j] = "apply_mark" /\ new.status = "applied"
           \/ at[j] = "fail" /\ new.status = "failed"
      /\ new.content # old.content => at[j] = "prep_persist" /\ new.content = "tailored"
      /\ new.applied_at # old.applied_at => at[j] = "apply_mark" /\ new.applied_at
      /\ new.status = "applied" => at'[j] \in Ends \/ old.status = "applied"

(* How Stage 1 gets to its later steps.                                     *)
PrepProgress(j) ==
  /\ at'[j] = "prep_put_cover" => "resume" \in stored'[j.app]
  /\ at'[j] = "prep_persist" => at[j] = "prep_put_cover" /\ "cover" \in stored'[j.app]
  /\ at'[j] = "prep_enqueue" => at[j] = "prep_persist" /\ row'[j.app].content = "tailored"

LEMMA WorkShape ==
  ASSUME TypeOK, JobInv, NEW j \in Jobs, Work(j)
  PROVE  WorkStep(j)
<1> USE DEF At, WorkStep, StepsOf, Ends, PrepSteps, ApplySteps
<1>0. j.app \in Apps
  BY JobNames
<1>1. ASSUME NEW new, NEW next, NEW onError, UpdateRow(j, new, next, onError)
      PROVE  /\ \A a \in Apps : a # j.app => row'[a] = row[a]
             /\ at'[j] \in {next, onError}
             /\ \A k \in Jobs : k # j => at'[k] = at[k]
  BY <1>0, <1>1 DEF UpdateRow, Goto, TypeOK
<1>2. CASE PrepStatus(j)
  BY <1>1, <1>2 DEF PrepStatus, poolVars, JobInv, TypeOK
<1>3. CASE PrepGenerate(j)
  BY <1>3 DEF PrepGenerate, CallOut, Goto, poolVars, JobInv, TypeOK
<1>4. CASE PrepPut(j)
  BY <1>0, <1>4 DEF PrepPut, PutText, Goto, poolVars, JobInv, TypeOK
<1>5. CASE PrepPersist(j)
  BY <1>1, <1>5 DEF PrepPersist, poolVars, JobInv, TypeOK
<1>6. CASE PrepEnqueue(j)
  BY <1>6 DEF PrepEnqueue, Goto, poolVars, JobInv, TypeOK
<1>7. CASE ApplyStatus(j)
  BY <1>1, <1>7 DEF ApplyStatus, poolVars, JobInv, TypeOK
<1>8. CASE ApplyLoad(j)
  BY <1>8 DEF ApplyLoad, CallOut, Goto, poolVars, JobInv, TypeOK
<1>9. CASE ApplyFetch(j)
  BY <1>9 DEF ApplyFetch, CallOut, Goto, poolVars, JobInv, TypeOK
<1>10. CASE ApplyCall(j)
  BY <1>10 DEF ApplyCall, Goto, JobInv, TypeOK
<1>11. CASE ApplyAbort(j)
  BY <1>11 DEF ApplyAbort, Goto, poolVars, JobInv, TypeOK
<1>12. CASE ApplyScreenshot(j)
  <2>1. /\ \A a \in Apps : a # j.app => row'[a] = row[a]
        /\ at'[j] = "apply_mark"
        /\ \A k \in Jobs : k # j => at'[k] = at[k]
    BY <1>1, <1>12 DEF ApplyScreenshot, Goto, TypeOK
  <2> QED BY <1>12, <2>1 DEF ApplyScreenshot, poolVars, JobInv, TypeOK
<1>13. CASE ApplyMark(j)
  BY <1>1, <1>13 DEF ApplyMark, poolVars, JobInv, TypeOK
<1>14. CASE FailApp(j)
  BY <1>1, <1>14 DEF FailApp, poolVars, JobInv, TypeOK
<1> QED BY <1>2, <1>3, <1>4, <1>5, <1>6, <1>7, <1>8, <1>9, <1>10, <1>11, <1>12, <1>13, <1>14
        DEF Work

LEMMA WriteShape ==
  ASSUME TypeOK, NEW j \in Jobs, Work(j)
  PROVE  WorkWrite(j)
<1> DEFINE r == row[j.app]
<1> USE DEF At, WorkWrite, Ends
<1>0. j.app \in Apps /\ r \in Row
  BY JobNames DEF TypeOK
<1>1. ASSUME NEW new, NEW next, NEW onError, UpdateRow(j, new, next, onError)
      PROVE  row'[j.app] \in {r, new} /\ at'[j] \in {next, onError}
  BY <1>0, <1>1 DEF UpdateRow, Goto, TypeOK
<1>2. CASE PrepStatus(j)
  <2> DEFINE new == [r EXCEPT !.status = "ai_preparing"]
  <2>1. new.status = "ai_preparing" /\ new.content = r.content /\ new.applied_at = r.applied_at
    BY <1>0 DEF Row
  <2> HIDE DEF new
  <2>2. row'[j.app] \in {r, new} /\ at[j] = "prep_status"
    BY <1>1, <1>2 DEF PrepStatus, new
  <2> QED BY <2>1, <2>2
<1>3. CASE UNCHANGED row
  BY <1>3
<1>4. CASE PrepPersist(j)
  <2> DEFINE new == [r EXCEPT !.status = "ai_ready", !.content = "tailored"]
  <2>1. /\ new.status = "ai_ready" /\ new.content = "tailored"
        /\ new.applied_at = r.applied_at
    BY <1>0 DEF Row
  <2> HIDE DEF new
  <2>2. row'[j.app] \in {r, new} /\ at[j] = "prep_persist"
    BY <1>1, <1>4 DEF PrepPersist, new
  <2> QED BY <2>1, <2>2
<1>5. CASE ApplyStatus(j)
  <2> DEFINE new == [r EXCEPT !.status = "applying"]
  <2>1. new.status = "applying" /\ new.content = r.content /\ new.applied_at = r.applied_at
    BY <1>0 DEF Row
  <2> HIDE DEF new
  <2>2. row'[j.app] \in {r, new} /\ at[j] = "apply_status"
    BY <1>1, <1>5 DEF ApplyStatus, new
  <2> QED BY <2>1, <2>2
<1>6. CASE ApplyScreenshot(j)
  <2> DEFINE new == [r EXCEPT !.nulls = @ \ {"screenshot_s3"}]
  <2>1. new.status = r.status /\ new.content = r.content /\ new.applied_at = r.applied_at
    BY <1>0 DEF Row
  <2> HIDE DEF new
  <2>2. row'[j.app] \in {r, new} /\ at[j] = "apply_screenshot"
    BY <1>1, <1>6 DEF ApplyScreenshot, new
  <2> QED BY <2>1, <2>2
<1>7. CASE ApplyMark(j)
  <2> DEFINE new == [r EXCEPT !.status = "applied", !.applied_at = TRUE]
  <2>1. new.status = "applied" /\ new.content = r.content /\ new.applied_at
    BY <1>0 DEF Row
  <2> HIDE DEF new
  <2>2. UpdateRow(j, new, "returned", "fail") /\ at[j] = "apply_mark"
    BY <1>7 DEF ApplyMark, new
  <2>3. row'[j.app] \in {r, new} /\ at'[j] \in {"returned", "fail"}
    BY <1>1, <2>2
  <2> QED BY <2>1, <2>2, <2>3
<1>8. CASE FailApp(j)
  <2> DEFINE new == [r EXCEPT !.status = "failed", !.nulls = @ \ {"error_message"}]
  <2>1. new.status = "failed" /\ new.content = r.content /\ new.applied_at = r.applied_at
    BY <1>0 DEF Row
  <2> HIDE DEF new
  <2>2. UpdateRow(j, new, "error", "error") /\ at[j] = "fail"
    BY <1>8 DEF FailApp, new
  <2>3. row'[j.app] \in {r, new}
    BY <1>1, <2>2
  <2> QED BY <2>1, <2>2, <2>3
<1> QED
  BY <1>2, <1>3, <1>4, <1>5, <1>6, <1>7, <1>8
  DEF Work, PrepGenerate, PrepPut, PrepEnqueue, ApplyLoad, ApplyFetch, ApplyCall, ApplyAbort

LEMMA PrepShape ==
  ASSUME TypeOK, NEW j \in Jobs, Work(j)
  PROVE  PrepProgress(j)
<1> DEFINE r == row[j.app]
<1> USE DEF At, PrepProgress
<1>0. j.app \in Apps /\ r \in Row
  BY JobNames DEF TypeOK
<1>1. ASSUME NEW new, NEW next, NEW onError, UpdateRow(j, new, next, onError)
      PROVE  at'[j] \in {next, onError}
  BY <1>1 DEF UpdateRow, Goto, TypeOK
<1>2. CASE PrepPut(j)
  BY <1>0, <1>2 DEF PrepPut, PutText, Goto, TypeOK
<1>3. CASE PrepPersist(j)
  <2> DEFINE new == [r EXCEPT !.status = "ai_ready", !.content = "tailored"]
  <2>1. new.content = "tailored"
    BY <1>0 DEF Row
  <2> HIDE DEF new
  <2>2. /\ UpdateRow(j, new, "prep_enqueue", "fail")
        /\ at[j] = "prep_persist"
    BY <1>3 DEF PrepPersist, new
  <2>3. at'[j] = "prep_enqueue" => row'[j.app] = new
    BY <1>0, <2>2 DEF UpdateRow, Goto, TypeOK
  <2>4. at'[j] \in {"prep_enqueue", "fail"}
    BY <1>1, <2>2
  <2> QED BY <2>1, <2>2, <2>3, <2>4
<1>4. CASE PrepStatus(j)
  BY <1>1, <1>4 DEF PrepStatus
<1>5. CASE PrepGenerate(j)
  BY <1>5 DEF PrepGenerate, CallOut, Goto, TypeOK
<1>6. CASE PrepEnqueue(j)
  BY <1>6 DEF PrepEnqueue, Goto, TypeOK
<1>7. CASE ApplyStatus(j)
  BY <1>1, <1>7 DEF ApplyStatus
<1>8. CASE ApplyLoad(j) \/ ApplyFetch(j)
  BY <1>8 DEF ApplyLoad, ApplyFetch, CallOut, Goto, TypeOK
<1>9. CASE ApplyCall(j) \/ ApplyAbort(j)
  BY <1>9 DEF ApplyCall, ApplyAbort, Goto, TypeOK
<1>10. CASE ApplyScreenshot(j)
  BY <1>1, <1>10 DEF ApplyScreenshot, Goto, TypeOK
<1>11. CASE ApplyMark(j)
  BY <1>1, <1>11 DEF ApplyMark
<1>12. CASE FailApp(j)
  BY <1>1, <1>12 DEF FailApp
<1> QED BY <1>2, <1>3, <1>4, <1>5, <1>6, <1>7, <1>8, <1>9, <1>10, <1>11, <1>12 DEF Work

-----------------------------------------------------------------------------
(* The invariant, kept by River, the pool and the user.                     *)

LEMMA ControlKeeps ==
  ASSUME IInv, TypeOK', ControlStep
  PROVE  IInv'
<1> USE DEF IInv
<1>0. /\ \A k \in Jobs : queue'[k] = "absent" <=> queue[k] = "absent"
      /\ \A k \in Jobs : attempt[k] <= attempt'[k]
      /\ \A a \in Apps : JobsOf(a)' = JobsOf(a)
      /\ \A a \in Apps : Redelivered(a) => Redelivered(a)'
      /\ UNCHANGED <<row, stored, call>>
  BY ControlJobs DEF ControlStep
<1>n. \A k \in Jobs : attempt[k] \in Nat /\ attempt'[k] \in Nat
  BY PipelineAssumption DEF TypeOK
<1>1. JobInv'
  <2> SUFFICES ASSUME NEW k \in Jobs
               PROVE  /\ queue'[k] = "absent" => attempt'[k] = 0
                      /\ queue'[k] = "available" => attempt'[k] < MaxAttempts
                      /\ queue'[k] = "running" => attempt'[k] >= 1 /\ at'[k] \in StepsOf(k)
    BY DEF JobInv
  <2>1. JobMove(k)
    BY DEF ControlStep
  <2>2. k.stage = "ai_prep" <=> k \in Stage1Jobs
    BY JobNames
  <2>3. CASE at[k] = "apply_await" /\ at'[k] = "apply_screenshot"
    BY <1>n, <2>1, <2>3 DEF JobInv, JobMove, StepsOf, PrepSteps, ApplySteps, Ends
  <2> QED BY <1>n, <2>1, <2>3 DEF JobInv, JobMove, StepsOf, PrepSteps, ApplySteps, Ends
<1>2. SessionInv'
  <2>1. ASSUME NEW s \in open' \cup filed' PROVE s[2] <= attempt'[s[1]]
    <3>1. s \in open \cup filed /\ s[1] \in Jobs /\ s[2] \in Nat
      BY <2>1, JobNames DEF ControlStep, TypeOK
    <3> QED BY <1>0, <1>n, <3>1 DEF SessionInv
  <2>2. ASSUME NEW k \in Jobs, queue'[k] = "running", at'[k] \in {"apply_screenshot", "apply_mark"}
        PROVE  <<k, attempt'[k]>> \in filed'
    BY <2>2 DEF ControlStep, JobMove, SessionInv, At, Ends
  <2> QED BY <2>1, <2>2 DEF SessionInv, At
<1>3. RowInv' /\ CallInv'
  BY <1>0 DEF RowInv, CallInv
<1>4. PrepInv'
  <2> SUFFICES ASSUME NEW k \in Stage1Jobs, queue'[k] # "absent"
               PROVE  /\ row'[k.app].content \in {"none", "tailored"}
                      /\ At(k, "prep_put_cover")' => "resume" \in stored'[k.app]
                      /\ At(k, "prep_persist")' \/ At(k, "prep_enqueue")'
                           => stored'[k.app] = Documents
                      /\ At(k, "prep_enqueue")' => row'[k.app].content = "tailored"
    BY DEF PrepInv
  <2>1. k \in Jobs /\ JobMove(k) /\ queue[k] # "absent"
    BY <1>0, JobNames DEF ControlStep
  <2> QED BY <1>0, <2>1 DEF PrepInv, JobMove, At, Ends
<1>5. ApplyInv'
  <2> SUFFICES ASSUME NEW k \in Stage2Jobs, queue'[k] # "absent"
               PROVE  IF k.by = 0
                      THEN row'[k.app].content = "raw" /\ JobsOf(k.app)' = {k}
                      ELSE /\ queue'[AIPrep(k.app)] # "absent"
                           /\ k.by <= attempt'[AIPrep(k.app)]
                           /\ k.by = attempt'[AIPrep(k.app)] /\ queue'[AIPrep(k.app)] = "running"
                                => at'[AIPrep(k.app)] \in Ends
                           /\ row'[k.app].content = "tailored"
                           /\ stored'[k.app] = Documents
    BY DEF ApplyInv
  <2>1. k.app \in Apps /\ k.by \in Nat /\ k \in Jobs /\ queue[k] # "absent"
    BY <1>0, Stage2Name, JobNames
  <2>2. AIPrep(k.app) \in Jobs
    BY <2>1, AIPrepName, JobNames
  <2>3. JobMove(AIPrep(k.app))
    BY <2>2 DEF ControlStep
  <2>4. CASE k.by = 0
    BY <1>0, <2>1, <2>4 DEF ApplyInv
  <2>5. CASE k.by # 0
    <3>1. /\ queue[AIPrep(k.app)] # "absent"
          /\ k.by <= attempt[AIPrep(k.app)]
          /\ k.by = attempt[AIPrep(k.app)] /\ queue[AIPrep(k.app)] = "running"
               => at[AIPrep(k.app)] \in Ends
          /\ row[k.app].content = "tailored"
          /\ stored[k.app] = Documents
      BY <2>1, <2>5 DEF ApplyInv
    <3> HIDE DEF IInv
    <3>2. k.by <= attempt'[AIPrep(k.app)]
      BY <1>0, <1>n, <2>1, <2>2, <3>1
    <3>3. k.by = attempt'[AIPrep(k.app)] /\ queue'[AIPrep(k.app)] = "running"
            => at'[AIPrep(k.app)] \in Ends
      BY <1>n, <2>1, <2>2, <2>3, <3>1 DEF JobMove, Ends
    <3> QED BY <1>0, <2>2, <2>5, <3>1, <3>2, <3>3
  <2> QED BY <2>4, <2>5
<1>6. FiledInv'
  BY <1>0 DEF FiledInv, FiledOf, ControlStep
<1>7. ReopenInv'
  <2> SUFFICES ASSUME NEW a \in Apps, row'[a].status = "applied", ~Redelivered(a)',
                      NEW k \in JobsOf(a)'
               PROVE  attempt'[k] = 1 /\ (queue'[k] = "running" => at'[k] \in Ends)
    BY DEF ReopenInv
  <2>1. k \in JobsOf(a) /\ k \in Jobs /\ ~(attempt'[k] > 1)
    BY <1>0 DEF JobsOf, Redelivered
  <2>2. attempt[k] = 1 /\ (queue[k] = "running" => at[k] \in Ends)
    BY <1>0, <2>1 DEF ReopenInv
  <2>3. JobMove(k)
    BY <2>1 DEF ControlStep
  <2> QED BY <2>1, <2>2, <2>3 DEF JobMove, Ends
<1> QED BY <1>1, <1>2, <1>3, <1>4, <1>5, <1>6, <1>7

-----------------------------------------------------------------------------
(* The invariant, kept by a step of Work.                                   *)

(* The jobs of one application: those of Stage 2 have different attempts of *)
(* Stage 1 behind them, so two of them mean that Stage 1 ran twice.         *)
LEMMA Company ==
  ASSUME IInv, NEW j \in Stage2Jobs, queue[j] # "absent",
         NEW k \in Jobs, queue[k] # "absent", k.app = j.app, k # j,
         ~Redelivered(j.app)
  PROVE  k = AIPrep(j.app) /\ attempt[k] = 1 /\ Resting(k)
<1>1. j \in Jobs /\ j.app \in Apps /\ j.by \in Nat /\ j = BrowserApply(j.app, j.by)
  BY Stage2Name, JobNames
<1>2. k \in JobsOf(j.app) /\ j \in JobsOf(j.app)
  BY <1>1 DEF JobsOf
<1>3. j.by # 0
  BY <1>2 DEF IInv, ApplyInv
<1> DEFINE p == AIPrep(j.app)
<1>4. p \in Jobs /\ p.app = j.app
  BY <1>1, AIPrepName, JobNames
<1>5. /\ queue[p] # "absent" /\ j.by <= attempt[p]
      /\ j.by = attempt[p] /\ queue[p] = "running" => at[p] \in Ends
  BY <1>3 DEF IInv, ApplyInv
<1> HIDE DEF p
<1>6. p \in JobsOf(j.app)
  BY <1>4, <1>5 DEF JobsOf
<1>7. attempt[p] \in Nat /\ ~(attempt[p] > 1)
  BY <1>4, <1>6, PipelineAssumption DEF Redelivered, IInv, TypeOK
<1>8. j.by = 1 /\ attempt[p] = 1
  BY <1>1, <1>3, <1>5, <1>7
<1>9. k \notin Stage2Jobs
  <2> SUFFICES ASSUME k \in Stage2Jobs PROVE FALSE
    OBVIOUS
  <2>1. k.by \in Nat /\ k = BrowserApply(k.app, k.by)
    BY Stage2Name
  <2>2. k.by # 0
    BY <1>2 DEF IInv, ApplyInv
  <2>3. k.by <= attempt[p]
    BY <2>2 DEF IInv, ApplyInv, p
  <2>4. k.by = 1
    BY <1>8, <2>1, <2>2, <2>3
  <2> QED BY <1>1, <1>8, <2>1, <2>4
<1>10. k = p
  BY <1>9, JobNames, Stage1Name DEF p
<1> QED BY <1>5, <1>8, <1>10 DEF Resting, p

LEMMA WorkKeeps ==
  ASSUME IInv, TypeOK', NEW j \in Jobs, WorkStep(j), WorkWrite(j), PrepProgress(j)
  PROVE  IInv'
<1> DEFINE b == BrowserApply(j.app, attempt[j])
<1>0. /\ TypeOK /\ JobInv /\ SessionInv /\ RowInv /\ CallInv
      /\ PrepInv /\ ApplyInv /\ FiledInv /\ ReopenInv
  BY DEF IInv
<1>j. /\ j.app \in Apps /\ queue[j] = "running" /\ attempt[j] \in 1..MaxAttempts
      /\ at[j] \in StepsOf(j) /\ j \in JobsOf(j.app)
  BY <1>0, JobNames DEF WorkStep, JobInv, TypeOK, JobsOf
<1>n. \A k \in Jobs : attempt[k] \in Nat
  BY <1>0, PipelineAssumption DEF TypeOK
<1>b. /\ b \in Stage2Jobs /\ b \in Jobs /\ b.app = j.app /\ b.by = attempt[j]
      /\ b.stage = "browser_apply"
  BY <1>j, BrowserApplyName, JobNames
<1>p. ASSUME at[j] = "prep_enqueue" PROVE j = AIPrep(j.app) /\ j \in Stage1Jobs
  <2>1. j \in Stage1Jobs
    BY <1>j, <1>p, JobNames DEF StepsOf, ApplySteps, Ends
  <2> QED BY <2>1, Stage1Name
<1>a. ASSUME at[j] = "prep_enqueue" PROVE queue[b] = "absent"
  <2>1. b.by # 0 /\ b.by = attempt[AIPrep(b.app)]
    BY <1>j, <1>b, <1>p, <1>a
  <2>2. queue[AIPrep(b.app)] = "running" /\ at[AIPrep(b.app)] \notin Ends
    BY <1>j, <1>b, <1>p, <1>a DEF Ends
  <2> QED BY <1>0, <1>b, <2>1, <2>2 DEF ApplyInv
<1> HIDE DEF b
<1>q. /\ attempt' = attempt /\ call' = call /\ filed' = filed
      /\ \/ queue' = queue
         \/ /\ at[j] = "prep_enqueue" /\ at'[j] \in Ends
            /\ queue' = [queue EXCEPT ![b] = "available"]
  BY DEF WorkStep, b
<1>k. \A k \in Jobs : queue'[k] = queue[k] \/ (k = b /\ at[j] = "prep_enqueue"
                         /\ at'[j] \in Ends /\ queue'[k] = "available" /\ queue[k] = "absent")
  BY <1>0, <1>a, <1>b, <1>q DEF TypeOK
<1>f. \A a \in Apps : /\ JobsOf(a) \subseteq JobsOf(a)'
                      /\ a # j.app => JobsOf(a)' = JobsOf(a)
                      /\ Redelivered(a) => Redelivered(a)'
                      /\ queue' = queue => JobsOf(a)' = JobsOf(a)
  BY <1>b, <1>k, <1>q DEF JobsOf, Redelivered
<1>1. JobInv'
  <2> SUFFICES ASSUME NEW k \in Jobs
               PROVE  /\ queue'[k] = "absent" => attempt'[k] = 0
                      /\ queue'[k] = "available" => attempt'[k] < MaxAttempts
                      /\ queue'[k] = "running" => attempt'[k] >= 1 /\ at'[k] \in StepsOf(k)
    BY DEF JobInv
  <2> QED BY <1>0, <1>k, <1>q, PipelineAssumption DEF JobInv, WorkStep
<1>2. SessionInv'
  <2>1. ASSUME NEW s \in open' \cup filed' PROVE s[2] <= attempt'[s[1]]
    <3>1. CASE s \in open \cup filed
      BY <1>0, <1>q, <3>1 DEF SessionInv
    <3>2. CASE s = <<j, attempt[j]>>
      BY <1>n, <1>q, <3>2
    <3> QED BY <2>1, <1>q, <3>1, <3>2 DEF WorkStep
  <2>2. ASSUME NEW k \in Jobs, queue'[k] = "running", at'[k] \in {"apply_screenshot", "apply_mark"}
        PROVE  <<k, attempt'[k]>> \in filed'
    BY <1>0, <1>k, <1>q, <2>2 DEF WorkStep, SessionInv, At
  <2> QED BY <2>1, <2>2 DEF SessionInv, At
<1>3. RowInv'
  <2> SUFFICES ASSUME NEW a \in Apps, row'[a].status = "absent"
               PROVE  JobsOf(a)' = {} /\ row'[a].content = "none"
    BY DEF RowInv
  <2>1. CASE a = j.app
    <3>1. row[a].status = "absent"
      BY <2>1 DEF WorkWrite
    <3> QED BY <1>0, <1>j, <2>1, <3>1 DEF RowInv
  <2>2. CASE a # j.app
    BY <1>0, <1>f, <2>2 DEF RowInv, WorkStep
  <2> QED BY <2>1, <2>2
<1>4. CallInv'
  <2> SUFFICES ASSUME NEW c \in Callers, NEW a \in Apps, call'[c][a] # "idle"
               PROVE  /\ row'[a].status # "absent"
                      /\ JobsOf(a)' = {}
                      /\ row'[a].content = IF call'[c][a] = "insert_raw" THEN "raw" ELSE "none"
                      /\ \A d \in Callers : call'[d][a] # "idle" => d = c
    BY DEF CallInv
  <2>1. /\ row[a].status # "absent" /\ JobsOf(a) = {}
        /\ row[a].content = IF call[c][a] = "insert_raw" THEN "raw" ELSE "none"
        /\ \A d \in Callers : call[d][a] # "idle" => d = c
    BY <1>0, <1>q DEF CallInv
  <2>2. a # j.app
    BY <1>j, <2>1
  <2>3. row'[a] = row[a] /\ JobsOf(a)' = {}
    BY <1>f, <2>1, <2>2 DEF WorkStep
  <2> QED BY <1>q, <2>1, <2>3
<1>5. PrepInv'
  <2> SUFFICES ASSUME NEW k \in Stage1Jobs, queue'[k] # "absent"
               PROVE  /\ row'[k.app].content \in {"none", "tailored"}
                      /\ At(k, "prep_put_cover")' => "resume" \in stored'[k.app]
                      /\ At(k, "prep_persist")' \/ At(k, "prep_enqueue")'
                           => stored'[k.app] = Documents
                      /\ At(k, "prep_enqueue")' => row'[k.app].content = "tailored"
    BY DEF PrepInv
  <2>1. k \in Jobs /\ k.app \in Apps /\ k = AIPrep(k.app) /\ k # b
    BY <1>b, Stage1Name, JobNames
  <2>2. queue'[k] = queue[k] /\ queue[k] # "absent"
    BY <1>k, <2>1
  <2>3. /\ row[k.app].content \in {"none", "tailored"}
        /\ At(k, "prep_put_cover") => "resume" \in stored[k.app]
        /\ At(k, "prep_persist") \/ At(k, "prep_enqueue") => stored[k.app] = Documents
        /\ At(k, "prep_enqueue") => row[k.app].content = "tailored"
    BY <1>0, <2>2 DEF PrepInv
  <2>4. stored[k.app] \subseteq stored'[k.app] /\ stored'[k.app] \subseteq Documents
    BY <1>j, <2>1 DEF WorkStep, TypeOK
  <2>5. row'[k.app].content \in {row[k.app].content, "tailored"}
    BY <2>1 DEF WorkStep, WorkWrite
  <2>6. CASE k = j
    <3>1. At(j, at[j])
      BY <1>j DEF At
    <3>2. CASE at'[j] = "prep_put_cover"
      BY <2>3, <2>5, <2>6, <3>2 DEF PrepProgress, At
    <3>3. CASE at'[j] = "prep_persist"
      <4>1. "resume" \in stored[j.app] /\ "cover" \in stored'[j.app]
        BY <2>3, <2>6, <3>1, <3>3 DEF PrepProgress
      <4> QED BY <2>3, <2>4, <2>5, <2>6, <3>3, <4>1 DEF At, Documents
    <3>4. CASE at'[j] = "prep_enqueue"
      <4>1. stored[j.app] = Documents /\ row'[j.app].content = "tailored"
        BY <2>3, <2>6, <3>1, <3>4 DEF PrepProgress
      <4> QED BY <2>4, <2>6, <3>4, <4>1 DEF At
    <3> QED BY <2>3, <2>5, <2>6, <3>2, <3>3, <3>4 DEF At
  <2>7. CASE k # j
    <3>1. \A step \in Steps : At(k, step)' <=> At(k, step)
      BY <2>1, <2>2, <2>7 DEF WorkStep, At
    <3>2. {"prep_put_cover", "prep_persist", "prep_enqueue"} \subseteq Steps
      BY DEF Steps, WorkSteps, PrepSteps
    <3> HIDE DEF At
    <3> QED BY <2>3, <2>4, <2>5, <3>1, <3>2
  <2> QED BY <2>6, <2>7
<1>6. ApplyInv'
  <2> SUFFICES ASSUME NEW k \in Stage2Jobs, queue'[k] # "absent"
               PROVE  IF k.by = 0
                      THEN row'[k.app].content = "raw" /\ JobsOf(k.app)' = {k}
                      ELSE /\ queue'[AIPrep(k.app)] # "absent"
                           /\ k.by <= attempt'[AIPrep(k.app)]
                           /\ k.by = attempt'[AIPrep(k.app)] /\ queue'[AIPrep(k.app)] = "running"
                                => at'[AIPrep(k.app)] \in Ends
                           /\ row'[k.app].content = "tailored"
                           /\ stored'[k.app] = Documents
    BY DEF ApplyInv
  <2> DEFINE p == AIPrep(k.app)
  <2>1. k.app \in Apps /\ k.by \in Nat /\ k \in Jobs /\ p \in Jobs /\ p # b /\ p \in Stage1Jobs
        /\ p.app = k.app
    BY <1>b, Stage2Name, AIPrepName, JobNames
  <2>2. CASE queue[k] = "absent"
    <3>1. k = b /\ at[j] = "prep_enqueue" /\ at'[j] \in Ends
      BY <1>k, <2>1, <2>2
    <3>2. j = p /\ j \in Stage1Jobs /\ k.by = attempt[p] /\ k.by # 0 /\ k.app = j.app
      BY <1>b, <1>j, <1>p, <3>1
    <3>3. row[j.app].content = "tailored" /\ stored[j.app] = Documents
      BY <1>0, <1>j, <3>1, <3>2 DEF PrepInv, At
    <3>4. row'[j.app].content = "tailored"
      BY <3>3 DEF WorkWrite
    <3>5. stored'[j.app] = Documents
      BY <1>j, <3>3, ZenonT(60) DEF WorkStep, TypeOK
    <3>6. queue'[p] = queue[p] /\ queue[p] # "absent"
      BY <1>j, <1>k, <2>1, <3>2
    <3>7. k.by <= attempt'[p]
      BY <1>n, <1>q, <2>1, <3>2
    <3> HIDE DEF p
    <3>8. at'[p] \in Ends
      BY <3>1, <3>2
    <3> QED BY <3>2, <3>4, <3>5, <3>6, <3>7, <3>8 DEF p
  <2>3. CASE queue[k] # "absent" /\ k.by = 0
    <3>1. row[k.app].content = "raw" /\ JobsOf(k.app) = {k}
      BY <1>0, <2>3 DEF ApplyInv
    <3>2. CASE j.app = k.app
      <4>1. j = k
        BY <1>j, <3>1, <3>2
      <4>2. j \notin Stage1Jobs
        BY <4>1, JobNames
      <4>3. at[j] # "prep_persist" /\ queue' = queue
        BY <1>j, <1>p, <1>q, <4>2, JobNames DEF StepsOf, ApplySteps, Ends
      <4> QED BY <1>f, <2>1, <2>3, <3>1, <3>2, <4>3 DEF WorkWrite
    <3>3. CASE j.app # k.app
      BY <1>f, <2>1, <2>3, <3>1, <3>3 DEF WorkStep
    <3> QED BY <3>2, <3>3
  <2>4. CASE queue[k] # "absent" /\ k.by # 0
    <3>1. /\ queue[p] # "absent" /\ k.by <= attempt[p]
          /\ k.by = attempt[p] /\ queue[p] = "running" => at[p] \in Ends
          /\ row[k.app].content = "tailored" /\ stored[k.app] = Documents
      BY <1>0, <2>4 DEF ApplyInv
    <3> HIDE DEF p
    <3>2. queue'[p] = queue[p] /\ attempt'[p] = attempt[p]
      BY <1>k, <1>q, <2>1
    <3>3. at[p] \in Ends => at'[p] \in Ends
      BY <2>1 DEF WorkStep
    <3>4. row'[k.app].content = "tailored"
      BY <2>1, <3>1 DEF WorkStep, WorkWrite
    <3>5. stored'[k.app] = Documents
      BY <2>1, <3>1, ZenonT(60) DEF WorkStep, TypeOK
    <3> QED BY <2>4, <3>1, <3>2, <3>3, <3>4, <3>5 DEF p
  <2> QED BY <2>2, <2>3, <2>4
<1>7. FiledInv'
  <2> SUFFICES ASSUME NEW a \in Apps, row'[a].status = "applied" \/ row'[a].applied_at
               PROVE  FiledOf(a)' # {}
    BY DEF FiledInv
  <2>1. FiledOf(a)' = FiledOf(a)
    BY <1>q DEF FiledOf
  <2>2. CASE row[a].status = "applied" \/ row[a].applied_at
    BY <1>0, <2>1, <2>2 DEF FiledInv
  <2>3. CASE ~(row[a].status = "applied" \/ row[a].applied_at)
    <3>1. a = j.app /\ at[j] = "apply_mark"
      BY <1>0, <2>3 DEF WorkStep, WorkWrite, TypeOK, Row
    <3>2. <<j, attempt[j]>> \in filed
      BY <1>0, <1>j, <3>1 DEF SessionInv, At
    <3>3. <<j, attempt[j]>> \in FiledOf(a)
      BY <3>1, <3>2 DEF FiledOf
    <3> QED BY <2>1, <3>3
  <2> QED BY <2>2, <2>3
<1>8. ReopenInv'
  <2> SUFFICES ASSUME NEW a \in Apps, row'[a].status = "applied", ~Redelivered(a)',
                      NEW k \in JobsOf(a)'
               PROVE  attempt'[k] = 1 /\ (queue'[k] = "running" => at'[k] \in Ends)
    BY DEF ReopenInv
  <2>1. ~Redelivered(a) /\ k \in Jobs /\ k.app = a /\ queue'[k] # "absent"
    BY <1>f DEF JobsOf
  <2>2. CASE row[a].status = "applied" /\ a # j.app
    <3>1. k # j /\ k \in JobsOf(a)
      BY <1>f, <2>1, <2>2
    <3> QED BY <1>0, <1>k, <1>q, <2>1, <2>2, <3>1, <1>b DEF ReopenInv, WorkStep
  <2>3. CASE row[a].status = "applied" /\ a = j.app
    <3>1. at[j] \in Ends
      BY <1>0, <1>j, <2>1, <2>3 DEF ReopenInv
    <3>2. queue' = queue /\ JobsOf(a)' = JobsOf(a)
      BY <1>f, <1>q, <3>1 DEF Ends
    <3> QED BY <1>0, <1>q, <2>1, <2>3, <3>1, <3>2 DEF ReopenInv, WorkStep
  <2>4. CASE row[a].status # "applied"
    <3>1. a = j.app /\ at[j] = "apply_mark" /\ at'[j] \in Ends
      BY <2>4 DEF WorkStep, WorkWrite
    <3>2. j \in Stage2Jobs /\ queue' = queue
      BY <1>j, <1>q, <3>1, JobNames DEF StepsOf, PrepSteps, Ends
    <3>3. CASE k = j
      <4>1. j \in JobsOf(a)
        BY <1>j, <3>1
      <4>2. ~(attempt[j] > 1)
        BY <2>1, <4>1 DEF Redelivered
      <4> QED BY <1>j, <1>q, <3>1, <3>3, <4>2
    <3>4. CASE k # j
      BY <1>j, <1>q, <2>1, <3>1, <3>2, <3>4, Company DEF WorkStep, Resting
    <3> QED BY <3>3, <3>4
  <2> QED BY <2>2, <2>3, <2>4
<1> QED BY <1>1, <1>2, <1>3, <1>4, <1>5, <1>6, <1>7, <1>8 DEF IInv

-----------------------------------------------------------------------------
(* The invariant, kept by a step of Submit.                                 *)

(* A step of Submit writes its own row and inserts at most one first job.   *)
SubmitStep(c, a) ==
  LET old == row[a]
      new == row'[a]
      first == IF call[c][a] = "insert_raw" THEN BrowserApply(a, 0) ELSE AIPrep(a)
  IN  /\ UNCHANGED <<stored, attempt, at, open, filed, stopped>>
      /\ \A b \in Apps : b # a => row'[b] = row[b]
      /\ \A d \in Callers, b \in Apps : d # c \/ b # a => call'[d][b] = call[d][b]
      /\ new.applied_at = old.applied_at
      /\ \/ /\ old.status = "absent" /\ new.status = "queued"
            /\ new.content = old.content /\ queue' = queue
            /\ call[c][a] = "idle" /\ call'[c][a] \in {"idle", "insert_tailored", "link_raw"}
         \/ /\ call[c][a] = "link_raw" /\ new.status = old.status /\ queue' = queue
            /\ call'[c][a] = "insert_raw" => new.content = "raw"
            /\ call'[c][a] \in {"idle", "insert_raw"}
         \/ /\ call[c][a] \in {"insert_tailored", "insert_raw"} /\ row' = row
            /\ call'[c][a] = "idle"
            /\ queue' \in {queue, [queue EXCEPT ![first] = "available"]}
         \/ /\ call[c][a] # "idle" /\ call'[c][a] = "idle" /\ row' = row /\ queue' = queue

LEMMA SubmitShape ==
  ASSUME TypeOK, NEW c \in Callers, NEW a \in Apps,
         SubmitCreate(c, a) \/ Submitting(c, a) \/ SubmitCrash(c, a)
  PROVE  SubmitStep(c, a)
<1>1. ASSUME NEW step, SubmitGoto(c, a, step)
      PROVE  /\ call'[c][a] = step
             /\ \A d \in Callers, b \in Apps : d # c \/ b # a => call'[d][b] = call[d][b]
  BY <1>1 DEF SubmitGoto, TypeOK
<1>2. row[a] \in Row
  BY DEF TypeOK
<1>3. CASE SubmitCreate(c, a)
  <2> DEFINE new == [row[a] EXCEPT !.status = "queued"]
  <2>1. /\ new.status = "queued" /\ new.content = row[a].content
        /\ new.applied_at = row[a].applied_at
    BY <1>2 DEF Row
  <2> HIDE DEF new
  <2>2. row'[a] = new /\ \A b \in Apps : b # a => row'[b] = row[b]
    BY <1>3 DEF SubmitCreate, TypeOK, new
  <2>3. /\ call'[c][a] \in {"idle", "insert_tailored", "link_raw"}
        /\ \A d \in Callers, b \in Apps : d # c \/ b # a => call'[d][b] = call[d][b]
    BY <1>1, <1>3 DEF SubmitCreate
  <2> QED BY <1>3, <2>1, <2>2, <2>3 DEF SubmitCreate, SubmitStep, jobVars, poolVars
<1>4. CASE SubmitLink(c, a)
  <2> DEFINE new == [row[a] EXCEPT !.content = "raw"]
  <2>1. /\ new.status = row[a].status /\ new.content = "raw"
        /\ new.applied_at = row[a].applied_at
    BY <1>2 DEF Row
  <2> HIDE DEF new
  <2>2. /\ \A b \in Apps : b # a => row'[b] = row[b]
        /\ \/ row'[a] = new /\ SubmitGoto(c, a, "insert_raw")
           \/ row'[a] \in {new, row[a]} /\ SubmitGoto(c, a, "idle")
    BY <1>4 DEF SubmitLink, TypeOK, new
  <2>3. /\ \/ row'[a] = new /\ call'[c][a] = "insert_raw"
           \/ row'[a] \in {new, row[a]} /\ call'[c][a] = "idle"
        /\ \A d \in Callers, b \in Apps : d # c \/ b # a => call'[d][b] = call[d][b]
    BY <1>1, <2>2
  <2> QED BY <1>4, <2>1, <2>2, <2>3 DEF SubmitLink, SubmitStep, jobVars, poolVars
<1>5. CASE SubmitInsert(c, a)
  <2>1. SubmitGoto(c, a, "idle")
    BY <1>5 DEF SubmitInsert
  <2> QED BY <1>1, <1>5, <2>1 DEF SubmitInsert, SubmitStep, poolVars
<1>6. CASE SubmitCrash(c, a)
  <2>1. SubmitGoto(c, a, "idle")
    BY <1>6 DEF SubmitCrash
  <2> QED BY <1>1, <1>6, <2>1 DEF SubmitCrash, SubmitStep, jobVars, poolVars
<1> QED BY <1>3, <1>4, <1>5, <1>6 DEF Submitting

(* An application that was filed has a job.                                 *)
LEMMA FiledHasJob ==
  ASSUME TypeOK, JobInv, SessionInv, NEW a \in Apps, FiledOf(a) # {}
  PROVE  JobsOf(a) # {}
<1>1. PICK s \in filed : s[1].app = a
  BY DEF FiledOf
<1>2. s[1] \in Jobs /\ s[2] \in 1..MaxAttempts /\ s[2] <= attempt[s[1]]
  BY JobNames DEF TypeOK, SessionInv
<1>3. attempt[s[1]] # 0
  BY <1>2, PipelineAssumption DEF TypeOK
<1> QED BY <1>1, <1>2, <1>3 DEF JobInv, JobsOf

LEMMA SubmitKeeps ==
  ASSUME IInv, TypeOK', NEW c \in Callers, NEW a \in Apps, SubmitStep(c, a)
  PROVE  IInv'
<1> DEFINE first == IF call[c][a] = "insert_raw" THEN BrowserApply(a, 0) ELSE AIPrep(a)
<1>0. /\ TypeOK /\ JobInv /\ SessionInv /\ RowInv /\ CallInv
      /\ PrepInv /\ ApplyInv /\ FiledInv /\ ReopenInv
  BY DEF IInv
<1>1. /\ UNCHANGED <<stored, attempt, at, open, filed>>
      /\ \A b \in Apps : b # a => row'[b] = row[b]
      /\ row'[a].applied_at = row[a].applied_at
      /\ row'[a].status # "absent"
      /\ row'[a].status = "applied" => row[a].status = "applied"
  BY <1>0 DEF SubmitStep, CallInv
(* No job of the application exists yet.                                    *)
<1>2. JobsOf(a) = {}
  BY <1>0 DEF SubmitStep, RowInv, CallInv
<1>3. row[a].status # "applied" /\ ~row[a].applied_at
  BY <1>0, <1>2, FiledHasJob DEF FiledInv
<1>4. /\ first \in Jobs /\ first.app = a /\ queue[first] = "absent" /\ attempt[first] = 0
      /\ first \in Stage2Jobs => call[c][a] = "insert_raw" /\ first.by = 0
      /\ first \in Stage1Jobs => call[c][a] # "insert_raw"
  <2>1. first \in Jobs /\ first.app = a
    BY AIPrepName, BrowserApplyName, JobNames, PipelineAssumption
  <2>2. /\ first \in Stage2Jobs => call[c][a] = "insert_raw" /\ first.by = 0
        /\ first \in Stage1Jobs => call[c][a] # "insert_raw"
    BY AIPrepName, BrowserApplyName, JobNames, PipelineAssumption
  <2> HIDE DEF first
  <2>3. queue[first] = "absent" /\ attempt[first] = 0
    BY <1>0, <1>2, <2>1 DEF JobsOf, JobInv
  <2> QED BY <2>1, <2>2, <2>3
<1>5. \/ queue' = queue
      \/ /\ queue' = [queue EXCEPT ![first] = "available"] /\ row' = row
         /\ call[c][a] \in {"insert_tailored", "insert_raw"} /\ call'[c][a] = "idle"
  BY DEF SubmitStep
<1> HIDE DEF first
<1>6. \A k \in Jobs : queue'[k] = queue[k]
        \/ (k = first /\ queue'[k] = "available" /\ row' = row /\ call'[c][a] = "idle"
            /\ call[c][a] \in {"insert_tailored", "insert_raw"})
  BY <1>0, <1>5 DEF TypeOK
<1>7. \A k \in Jobs : k.app # a => queue'[k] = queue[k]
  BY <1>4, <1>6
<1>8. /\ \A b \in Apps : b # a => JobsOf(b)' = JobsOf(b)
      /\ call'[c][a] # "idle" => JobsOf(a)' = {}
      /\ JobsOf(a)' \subseteq {first}
  BY <1>2, <1>6, <1>7 DEF JobsOf
<1>9. JobInv'
  BY <1>0, <1>1, <1>4, <1>6, PipelineAssumption DEF JobInv
<1>10. SessionInv'
  <2>1. \A k \in Jobs, step \in Steps : At(k, step)' => At(k, step)
    BY <1>1, <1>6 DEF At
  <2>2. {"apply_screenshot", "apply_mark"} \subseteq Steps
    BY DEF Steps, WorkSteps, ApplySteps
  <2> HIDE DEF At
  <2> QED BY <1>0, <1>1, <2>1, <2>2 DEF SessionInv
<1>11. RowInv'
  BY <1>0, <1>1, <1>8 DEF RowInv
<1>12. CallInv'
  <2> SUFFICES ASSUME NEW d \in Callers, NEW b \in Apps, call'[d][b] # "idle"
               PROVE  /\ row'[b].status # "absent"
                      /\ JobsOf(b)' = {}
                      /\ row'[b].content = IF call'[d][b] = "insert_raw" THEN "raw" ELSE "none"
                      /\ \A e \in Callers : call'[e][b] # "idle" => e = d
    BY DEF CallInv
  <2>1. CASE b # a
    BY <1>0, <1>1, <1>8, <2>1 DEF CallInv, SubmitStep
  <2>2. CASE b = a /\ d # c
    (* Another caller is at work on the application: c is idle and creates   *)
    (* nothing, for the row exists.                                          *)
    <3>1. call[d][a] # "idle"
      BY <2>2 DEF SubmitStep
    <3>2. row[a].status # "absent" /\ call[c][a] = "idle"
      BY <1>0, <2>2, <3>1 DEF CallInv
    <3> QED BY <3>2 DEF SubmitStep
  <2>3. CASE b = a /\ d = c
    <3>1. \A e \in Callers : call[e][a] # "idle" => e = c
      BY <1>0 DEF CallInv, SubmitStep
    <3>2. \A e \in Callers : call'[e][a] # "idle" => e = c
      BY <3>1 DEF SubmitStep
    <3>3. row'[a].content = IF call'[c][a] = "insert_raw" THEN "raw" ELSE "none"
      BY <1>0, <2>3 DEF SubmitStep, RowInv
    <3> QED BY <1>1, <1>8, <2>3, <3>2, <3>3
  <2> QED BY <2>1, <2>2, <2>3
<1>13. PrepInv'
  <2> SUFFICES ASSUME NEW k \in Stage1Jobs, queue'[k] # "absent"
               PROVE  /\ row'[k.app].content \in {"none", "tailored"}
                      /\ At(k, "prep_put_cover")' => "resume" \in stored'[k.app]
                      /\ At(k, "prep_persist")' \/ At(k, "prep_enqueue")'
                           => stored'[k.app] = Documents
                      /\ At(k, "prep_enqueue")' => row'[k.app].content = "tailored"
    BY DEF PrepInv
  <2>1. k \in Jobs /\ k.app \in Apps
    BY JobNames
  <2>2. CASE k.app # a
    BY <1>0, <1>1, <1>7, <2>1, <2>2 DEF PrepInv, At
  <2>3. CASE k.app = a
    <3>1. k = first /\ queue[k] = "absent"
      BY <1>4, <1>8, <2>1, <2>3 DEF JobsOf
    <3>2. /\ queue'[k] = "available" /\ row' = row
          /\ call[c][a] = "insert_tailored"
      BY <1>4, <1>6, <2>1, <3>1
    <3>3. row[a].content = "none"
      BY <1>0, <3>2 DEF CallInv
    <3> QED BY <2>3, <3>2, <3>3 DEF At
  <2> QED BY <2>2, <2>3
<1>14. ApplyInv'
  <2> SUFFICES ASSUME NEW k \in Stage2Jobs, queue'[k] # "absent"
               PROVE  IF k.by = 0
                      THEN row'[k.app].content = "raw" /\ JobsOf(k.app)' = {k}
                      ELSE /\ queue'[AIPrep(k.app)] # "absent"
                           /\ k.by <= attempt'[AIPrep(k.app)]
                           /\ k.by = attempt'[AIPrep(k.app)] /\ queue'[AIPrep(k.app)] = "running"
                                => at'[AIPrep(k.app)] \in Ends
                           /\ row'[k.app].content = "tailored"
                           /\ stored'[k.app] = Documents
    BY DEF ApplyInv
  <2> DEFINE p == AIPrep(k.app)
  <2>1. k \in Jobs /\ k.app \in Apps /\ p \in Jobs /\ p.app = k.app
    BY JobNames, AIPrepName
  <2>2. CASE k.app # a
    <3>1. queue[k] # "absent" /\ row'[k.app] = row[k.app] /\ JobsOf(k.app)' = JobsOf(k.app)
      BY <1>1, <1>7, <1>8, <2>1, <2>2
    <3>2. queue'[p] = queue[p]
      BY <1>7, <2>1, <2>2
    <3> QED BY <1>0, <1>1, <3>1, <3>2 DEF ApplyInv
  <2>3. CASE k.app = a
    <3>1. k = first /\ queue[k] = "absent" /\ JobsOf(a)' = {k}
      BY <1>4, <1>8, <2>1, <2>3 DEF JobsOf
    <3>2. row' = row /\ call[c][a] = "insert_raw" /\ k.by = 0
      BY <1>4, <1>6, <2>1, <3>1
    <3>3. row[a].content = "raw"
      BY <1>0, <3>2 DEF CallInv
    <3> QED BY <2>3, <3>1, <3>2, <3>3
  <2> QED BY <2>2, <2>3
<1>15. FiledInv'
  BY <1>0, <1>1 DEF FiledInv, FiledOf
<1>16. ReopenInv'
  BY <1>0, <1>1, <1>3, <1>7, <1>8 DEF ReopenInv, Redelivered, JobsOf
<1> QED BY <1>9, <1>10, <1>11, <1>12, <1>13, <1>14, <1>15, <1>16 DEF IInv

-----------------------------------------------------------------------------
(* The theorems.                                                            *)

LEMMA InvInit == Init => IInv
<1> SUFFICES ASSUME Init PROVE IInv
  OBVIOUS
<1>1. TypeOK
  BY TypeInit
<1>2. \A a \in Apps : JobsOf(a) = {}
  BY DEF Init, JobsOf
<1>3. ReopenInv /\ RowInv /\ CallInv
  BY <1>2 DEF Init, ReopenInv, RowInv, CallInv
<1>4. JobInv /\ SessionInv /\ PrepInv /\ ApplyInv /\ FiledInv
  BY JobNames DEF Init, JobInv, SessionInv, At, PrepInv, ApplyInv, FiledInv
<1> QED BY <1>1, <1>3, <1>4 DEF IInv

LEMMA InvNext == IInv /\ [Next]_vars => IInv'
<1> SUFFICES ASSUME IInv, [Next]_vars PROVE IInv'
  OBVIOUS
<1>0. TypeOK /\ JobInv
  BY DEF IInv
<1>1. ASSUME NEW c \in Callers, NEW a \in Apps,
             SubmitCreate(c, a) \/ Submitting(c, a) \/ SubmitCrash(c, a)
      PROVE  IInv'
  BY <1>0, <1>1, TypeSubmit, SubmitShape, SubmitKeeps
<1>2. ASSUME NEW j \in Jobs, Work(j) PROVE IInv'
  BY <1>0, <1>2, TypeWork, WorkShape, WriteShape, PrepShape, WorkKeeps
<1>3. CASE \/ \E j \in Jobs : River(j) \/ Deadline(j)
           \/ \E j \in Stage2Jobs, n \in 1..MaxAttempts : Pool(j, n)
           \/ EngineCrash \/ EmergencyStop \/ UNCHANGED vars
  <2>1. TypeOK'
    <3>1. CASE UNCHANGED vars
      BY <1>0, <3>1 DEF TypeOK, vars
    <3> QED BY <1>0, <1>3, <3>1, TypeRiver, TypePool, TypeEngine
  <2>2. ControlStep
    BY <1>0, <1>3, ControlShape
  <2> QED BY <2>1, <2>2, ControlKeeps
<1> QED BY <1>1, <1>2, <1>3 DEF Next

(* IInv is an invariant of the pipeline: the fact every theorem rests on.   *)
THEOREM Invariance == Spec => []IInv
<1> QED BY InvInit, InvNext, PTL DEF Spec

(* The state of the pipeline keeps its type; no job is attempted more often *)
(* than River's max_attempts allows.                                        *)
THEOREM TypeCorrect == Spec => []TypeOK
<1>1. IInv => TypeOK
  BY DEF IInv
<1> QED BY <1>1, Invariance, PTL

(* A browser_apply job never exists without the documents it is to send.    *)
THEOREM ContentAlwaysReady == Spec => []ContentReady
<1>1. IInv => ContentReady
  <2> SUFFICES ASSUME IInv, NEW j \in Stage2Jobs, queue[j] # "absent"
               PROVE  /\ row[j.app].content # "none"
                      /\ row[j.app].content = "tailored" => stored[j.app] = Documents
    BY DEF ContentReady
  <2> QED BY DEF IInv, ApplyInv
<1> QED BY <1>1, Invariance, PTL

(* Two attempts that reach the pool for one application, open or filed,     *)
(* need a redelivery.                                                       *)
LEMMA TwoSessions ==
  ASSUME IInv, NEW s \in open \cup filed, NEW t \in open \cup filed,
         s # t, s[1].app = t[1].app
  PROVE  Redelivered(s[1].app)
<1> SUFFICES ASSUME ~Redelivered(s[1].app) PROVE FALSE
  OBVIOUS
<1>1. /\ s[1] \in Stage2Jobs /\ s[2] \in 1..MaxAttempts /\ s = <<s[1], s[2]>>
      /\ t[1] \in Stage2Jobs /\ t[2] \in 1..MaxAttempts /\ t = <<t[1], t[2]>>
  BY DEF IInv, TypeOK
<1>2. s[1] \in Jobs /\ t[1] \in Jobs
  BY <1>1, JobNames
<1>3. s[2] <= attempt[s[1]] /\ t[2] <= attempt[t[1]]
  BY DEF IInv, SessionInv
<1>4. attempt[s[1]] \in Nat /\ attempt[t[1]] \in Nat
  BY <1>2, PipelineAssumption DEF IInv, TypeOK
<1>5. attempt[s[1]] # 0 /\ attempt[t[1]] # 0
  BY <1>1, <1>3, <1>4
<1>6. queue[s[1]] # "absent" /\ queue[t[1]] # "absent"
  BY <1>2, <1>5 DEF IInv, JobInv
<1>7. s[1] = t[1]
  <2> SUFFICES ASSUME s[1] # t[1] PROVE FALSE
    OBVIOUS
  <2>1. t[1] = AIPrep(s[1].app)
    BY <1>1, <1>2, <1>6, Company
  <2> QED BY <1>1, <2>1, AIPrepName, Stage2Name, JobNames
<1>8. s[1] \in JobsOf(s[1].app)
  BY <1>2, <1>6 DEF JobsOf
<1>9. ~(attempt[s[1]] > 1)
  BY <1>8 DEF Redelivered
<1>10. s[2] = 1 /\ t[2] = 1
  BY <1>1, <1>3, <1>4, <1>7, <1>9
<1> QED BY <1>1, <1>7, <1>10

(* The employer gets an application twice only after a redelivery.          *)
THEOREM DuplicateOnlyByRedelivery == Spec => []DuplicateNeedsRedelivery
<1>1. IInv => DuplicateNeedsRedelivery
  BY TwoSessions DEF DuplicateNeedsRedelivery
<1> QED BY <1>1, Invariance, PTL

(* An applied application is not taken back without a redelivery.           *)
THEOREM AppliedStays == Spec => AppliedReopenedOnlyByRedelivery
<1> DEFINE Stays == \A a \in Apps :
       row[a].status = "applied" => \/ row'[a].status \in {"applied", "failed"}
                                   \/ Redelivered(a)
<1>1. IInv /\ [Next]_vars => [Stays]_vars
  <2> SUFFICES ASSUME IInv, [Next]_vars, NEW a \in Apps, row[a].status = "applied",
                      ~Redelivered(a)
               PROVE  row'[a].status \in {"applied", "failed"}
    OBVIOUS
  <2>0. TypeOK /\ JobInv /\ ReopenInv /\ CallInv
    BY DEF IInv
  <2>1. ASSUME NEW c \in Callers, NEW b \in Apps,
               SubmitCreate(c, b) \/ Submitting(c, b) \/ SubmitCrash(c, b)
        PROVE  row'[a].status = "applied"
    <3>1. SubmitStep(c, b)
      BY <2>0, <2>1, SubmitShape
    <3> QED BY <3>1 DEF SubmitStep
  <2>2. ASSUME NEW j \in Jobs, Work(j) PROVE row'[a].status \in {"applied", "failed"}
    <3>1. WorkStep(j) /\ WorkWrite(j)
      BY <2>0, <2>2, WorkShape, WriteShape
    <3>2. CASE a # j.app
      BY <3>1, <3>2 DEF WorkStep
    <3>3. CASE a = j.app
      <4>1. j \in JobsOf(a) /\ queue[j] = "running"
        BY <3>1, <3>3 DEF WorkStep, JobsOf
      <4>2. at[j] \in Ends
        BY <2>0, <4>1 DEF ReopenInv
      <4> QED BY <3>1, <3>3, <4>2 DEF WorkWrite, Ends
    <3> QED BY <3>2, <3>3
  <2>3. CASE \/ \E j \in Jobs : River(j) \/ Deadline(j)
             \/ \E j \in Stage2Jobs, n \in 1..MaxAttempts : Pool(j, n)
             \/ EngineCrash \/ EmergencyStop \/ UNCHANGED vars
    <3>1. ControlStep
      BY <2>0, <2>3, ControlShape
    <3> QED BY <3>1 DEF ControlStep
  <2> QED BY <2>1, <2>2, <2>3 DEF Next
<1> QED BY <1>1, Invariance, PTL DEF Spec, AppliedReopenedOnlyByRedelivery

-----------------------------------------------------------------------------
(* How applications end when the workers themselves do not fail. Each of    *)
(* the faults that are excluded here breaks the property by itself: it lets *)
(* an attempt begin while the session of another is open, or an attempt end *)
(* without a word.                                                          *)

(* No process dies, no worker loses an answer or runs out of time.          *)
SteadyWorkers == Faults \cap {"ack", "deadline", "slow_pool", "crash"} = {}

(* Moreover, each of their statements commits.                              *)
SteadyStatements == SteadyWorkers /\ "db" \notin Faults

(* Moreover, each waits for the pool to the end.                            *)
SteadyConnections == SteadyWorkers /\ "connection" \notin Faults

HandedOver(j) == queue[j] = "completed" \/ At(j, "returned")

(* Stage 1 has returned when its Stage 2 job is there, and not before; it   *)
(* was its last attempt that inserted the job.                              *)
HandOver ==
  /\ \A j \in Jobs : queue[j] = "running" => at[j] # "lost"
  /\ \A j \in Stage2Jobs : queue[j] # "absent" /\ j.by # 0 =>
       j.by = attempt[AIPrep(j.app)] /\ HandedOver(AIPrep(j.app))
  /\ \A j \in Stage1Jobs : HandedOver(j) => queue[BrowserApply(j.app, attempt[j])] # "absent"

(* A failed attempt has written so, and so has a successful one.            *)
Outcome ==
  /\ \A j \in Jobs : At(j, "error") \/ queue[j] = "discarded" => row[j.app].status = "failed"
  /\ \A j \in Stage2Jobs : HandedOver(j) => row[j.app].status = "applied"

(* Somebody waits for every session.                                        *)
Attended == \A s \in open : At(s[1], "apply_await") /\ attempt[s[1]] = s[2]

(* Two jobs of an application are its Stage 1, which has returned, and the  *)
(* one Stage 2 job that Stage 1 inserted.                                   *)
LEMMA Pair ==
  ASSUME IInv, HandOver, NEW j \in Jobs, NEW k \in Jobs, j.app = k.app, j # k,
         queue[j] # "absent", queue[k] # "absent"
  PROVE  \/ j \in Stage1Jobs /\ k \in Stage2Jobs /\ HandedOver(j)
         \/ k \in Stage1Jobs /\ j \in Stage2Jobs /\ HandedOver(k)
<1>1. ASSUME NEW x \in Stage2Jobs, NEW y \in Jobs, queue[x] # "absent", queue[y] # "absent",
             x.app = y.app, x # y
      PROVE  /\ x.by # 0 /\ x.by = attempt[AIPrep(x.app)] /\ HandedOver(AIPrep(x.app))
  <2>1. x \in Jobs /\ y \in JobsOf(x.app)
    BY <1>1, JobNames DEF JobsOf
  <2>2. x.by # 0
    BY <1>1, <2>1 DEF IInv, ApplyInv
  <2> QED BY <1>1, <2>2 DEF HandOver
<1>2. ~(j \in Stage2Jobs /\ k \in Stage2Jobs)
  <2> SUFFICES ASSUME j \in Stage2Jobs, k \in Stage2Jobs PROVE FALSE
    OBVIOUS
  <2>1. j.by = k.by
    BY <1>1
  <2> QED BY <2>1, Stage2Name
<1>3. ~(j \in Stage1Jobs /\ k \in Stage1Jobs)
  BY Stage1Name
<1>4. CASE j \in Stage2Jobs /\ k \in Stage1Jobs
  BY <1>1, <1>4, Stage1Name
<1>5. CASE k \in Stage2Jobs /\ j \in Stage1Jobs
  BY <1>1, <1>5, Stage1Name
<1> QED BY <1>2, <1>3, <1>4, <1>5, JobNames

(* A job that goes on within an attempt, or begins or ends one, when no job *)
(* is inserted.                                                             *)
LEMMA HandOverMove ==
  ASSUME TypeOK, TypeOK', IInv, HandOver, NEW j \in Jobs, queue[j] # "absent", ~HandedOver(j),
         queue'[j] # "absent", queue'[j] = "running" => at'[j] # "lost",
         j \in Stage1Jobs => ~HandedOver(j)',
         \A k \in Jobs : k # j => queue'[k] = queue[k] /\ at'[k] = at[k] /\ attempt'[k] = attempt[k]
  PROVE  HandOver'
<1>1. \A k \in Jobs : k # j => (HandedOver(k)' <=> HandedOver(k))
  BY DEF HandedOver, At
<1>2. ASSUME NEW k \in Jobs, queue'[k] = "running" PROVE at'[k] # "lost"
  BY <1>2 DEF HandOver
<1>3. ASSUME NEW k \in Stage2Jobs, queue'[k] # "absent", k.by # 0
      PROVE  k.by = attempt'[AIPrep(k.app)] /\ HandedOver(AIPrep(k.app))'
  <2>1. k \in Jobs /\ AIPrep(k.app) \in Jobs
    BY JobNames, AIPrepName
  <2>2. queue[k] # "absent"
    BY <1>3, <2>1
  <2>3. k.by = attempt[AIPrep(k.app)] /\ HandedOver(AIPrep(k.app))
    BY <1>3, <2>2 DEF HandOver
  <2>4. AIPrep(k.app) # j
    BY <2>3
  <2> QED BY <1>1, <2>1, <2>3, <2>4
<1>4. ASSUME NEW k \in Stage1Jobs, HandedOver(k)'
      PROVE  queue'[BrowserApply(k.app, attempt'[k])] # "absent"
  <2>1. k \in Jobs /\ k # j
    BY <1>4, JobNames
  <2>2. HandedOver(k) /\ attempt'[k] = attempt[k]
    BY <1>1, <1>4, <2>1
  <2>3. queue[BrowserApply(k.app, attempt[k])] # "absent"
    BY <2>2 DEF HandOver
  <2>4. BrowserApply(k.app, attempt[k]) \in Jobs
    BY <2>1, BrowserApplyName, JobNames DEF TypeOK
  <2> QED BY <2>2, <2>3, <2>4
<1> QED BY <1>2, <1>3, <1>4 DEF HandOver

(* The same when only the names of steps change.                            *)
LEMMA HandOverSame ==
  ASSUME HandOver, \A k \in Jobs : HandedOver(k)' <=> HandedOver(k),
         \A k \in Jobs : queue'[k] = "absent" <=> queue[k] = "absent",
         \A k \in Jobs : attempt'[k] = attempt[k], TypeOK,
         \A k \in Jobs : queue'[k] = "running" => at'[k] # "lost"
  PROVE  HandOver'
<1>1. ASSUME NEW k \in Stage2Jobs, queue'[k] # "absent", k.by # 0
      PROVE  k.by = attempt'[AIPrep(k.app)] /\ HandedOver(AIPrep(k.app))'
  <2>1. k \in Jobs /\ AIPrep(k.app) \in Jobs
    BY JobNames, AIPrepName
  <2> QED BY <1>1, <2>1 DEF HandOver
<1>2. ASSUME NEW k \in Stage1Jobs, HandedOver(k)'
      PROVE  queue'[BrowserApply(k.app, attempt'[k])] # "absent"
  <2>1. k \in Jobs /\ k.app \in Apps /\ attempt[k] \in 0..MaxAttempts
    BY JobNames DEF TypeOK
  <2>2. BrowserApply(k.app, attempt[k]) \in Jobs
    BY <2>1, BrowserApplyName, JobNames
  <2> QED BY <1>2, <2>1, <2>2 DEF HandOver
<1> QED BY <1>1, <1>2 DEF HandOver

(* What a step of Work does when nothing is lost.                           *)
SteadyStep(j) ==
  /\ at[j] = "apply_await" => "connection" \in Faults
  /\ at[j] \notin {"returned", "lost", "error"}
  /\ at'[j] # "lost"
  /\ \/ /\ queue' = queue
        /\ at'[j] = "returned" => at[j] = "apply_mark" /\ row'[j.app].status = "applied"
     \/ /\ at[j] = "prep_enqueue" /\ at'[j] = "returned"
        /\ queue' = [queue EXCEPT ![BrowserApply(j.app, attempt[j])] = "available"]
  /\ "db" \notin Faults /\ at'[j] = "error" => row'[j.app].status = "failed"
  /\ open' = open \/ (open' = open \cup {<<j, attempt[j]>>} /\ at'[j] = "apply_await")

LEMMA SteadyShape ==
  ASSUME TypeOK, SteadyWorkers, NEW j \in Jobs, Work(j)
  PROVE  SteadyStep(j)
<1> DEFINE r == row[j.app]
<1> USE DEF At, SteadyStep, SteadyWorkers
<1>0. j.app \in Apps /\ r \in Row
  BY JobNames DEF TypeOK
<1>1. ASSUME NEW new, NEW next, NEW onError, UpdateRow(j, new, next, onError)
      PROVE  \/ row'[j.app] = new /\ at'[j] = next
             \/ "db" \in Faults /\ at'[j] = onError
  BY <1>0, <1>1 DEF UpdateRow, Goto, TypeOK
<1>2. CASE PrepStatus(j)
  BY <1>1, <1>2 DEF PrepStatus, poolVars
<1>3. CASE PrepGenerate(j) \/ ApplyLoad(j) \/ ApplyFetch(j)
  BY <1>3 DEF PrepGenerate, ApplyLoad, ApplyFetch, CallOut, Goto, TypeOK, poolVars
<1>4. CASE PrepPut(j)
  BY <1>4 DEF PrepPut, PutText, Goto, TypeOK, poolVars
<1>5. CASE PrepPersist(j)
  BY <1>1, <1>5 DEF PrepPersist, poolVars
<1>6. CASE PrepEnqueue(j)
  BY <1>6 DEF PrepEnqueue, Goto, TypeOK, poolVars
<1>7. CASE ApplyStatus(j)
  BY <1>1, <1>7 DEF ApplyStatus, poolVars
<1>8. CASE ApplyCall(j)
  BY <1>8 DEF ApplyCall, Goto, TypeOK
<1>9. CASE ApplyAbort(j)
  BY <1>9 DEF ApplyAbort, Goto, TypeOK, poolVars
<1>10. CASE ApplyScreenshot(j)
  <2>1. at'[j] = "apply_mark"
    BY <1>1, <1>10 DEF ApplyScreenshot, Goto, TypeOK
  <2> QED BY <1>10, <2>1 DEF ApplyScreenshot, poolVars
<1>11. CASE ApplyMark(j)
  <2> DEFINE new == [r EXCEPT !.status = "applied", !.applied_at = TRUE]
  <2>1. new.status = "applied"
    BY <1>0 DEF Row
  <2> HIDE DEF new
  <2>2. UpdateRow(j, new, "returned", "fail") /\ at[j] = "apply_mark"
    BY <1>11 DEF ApplyMark, new
  <2>3. \/ row'[j.app] = new /\ at'[j] = "returned"
        \/ at'[j] = "fail"
    BY <1>1, <2>2
  <2> QED BY <1>11, <2>1, <2>2, <2>3 DEF ApplyMark, poolVars
<1>12. CASE FailApp(j)
  <2> DEFINE new == [r EXCEPT !.status = "failed", !.nulls = @ \ {"error_message"}]
  <2>1. new.status = "failed"
    BY <1>0 DEF Row
  <2> HIDE DEF new
  <2>2. UpdateRow(j, new, "error", "error") /\ at[j] = "fail"
    BY <1>12 DEF FailApp, new
  <2>3. at'[j] = "error" /\ (row'[j.app] = new \/ "db" \in Faults)
    BY <1>1, <2>2
  <2> QED BY <1>12, <2>1, <2>2, <2>3 DEF FailApp, poolVars
<1> QED BY <1>2, <1>3, <1>4, <1>5, <1>6, <1>7, <1>8, <1>9, <1>10, <1>11, <1>12 DEF Work

LEMMA WorkHandsOver ==
  ASSUME IInv, TypeOK', HandOver, NEW j \in Jobs, WorkStep(j), SteadyStep(j)
  PROVE  HandOver'
<1>1. /\ queue[j] = "running" /\ ~HandedOver(j) /\ at'[j] # "lost" /\ at[j] \in StepsOf(j)
      /\ \A k \in Jobs : k # j => at'[k] = at[k] /\ attempt'[k] = attempt[k]
      /\ attempt' = attempt /\ TypeOK
  BY DEF WorkStep, SteadyStep, HandedOver, At, IInv, JobInv
<1>2. CASE queue' = queue /\ (at'[j] = "returned" => at[j] = "apply_mark")
  <2>1. j \in Stage1Jobs => ~HandedOver(j)'
    <3>1. ASSUME j \in Stage1Jobs PROVE at[j] # "apply_mark"
      BY <1>1, <3>1, Stage1Name DEF StepsOf, PrepSteps, Ends
    <3> QED BY <1>1, <1>2, <3>1 DEF HandedOver, At
  <2> QED BY <1>1, <1>2, <2>1, HandOverMove
<1>3. CASE /\ at[j] = "prep_enqueue" /\ at'[j] = "returned"
           /\ queue' = [queue EXCEPT ![BrowserApply(j.app, attempt[j])] = "available"]
  <2> DEFINE b == BrowserApply(j.app, attempt[j])
  <2>1. at[j] = "prep_enqueue" /\ at'[j] = "returned" /\ queue' = [queue EXCEPT ![b] = "available"]
    BY <1>3
  <2>2. j \in Stage1Jobs /\ j = AIPrep(j.app) /\ j.app \in Apps
    BY <1>1, <2>1, Stage1Name, JobNames DEF StepsOf, ApplySteps, Ends
  <2>3. b \in Stage2Jobs /\ b \in Jobs /\ b.app = j.app /\ b.by = attempt[j] /\ b # j
    BY <1>1, <2>2, BrowserApplyName, JobNames DEF TypeOK
  <2> HIDE DEF b
  <2>4. HandedOver(j)' /\ \A k \in Jobs \ {b} : HandedOver(k) => HandedOver(k)'
    BY <1>1, <2>1, <2>3 DEF HandedOver, At, WorkStep, TypeOK
  <2>5. ASSUME NEW k \in Jobs, queue'[k] = "running" PROVE at'[k] # "lost"
    <3>1. k # b /\ queue[k] = "running"
      BY <2>1, <2>3, <2>5 DEF TypeOK, IInv
    <3> QED BY <1>1, <3>1 DEF HandOver
  <2>6. ASSUME NEW k \in Stage2Jobs, queue'[k] # "absent", k.by # 0
        PROVE  k.by = attempt'[AIPrep(k.app)] /\ HandedOver(AIPrep(k.app))'
    <3>1. CASE k = b
      BY <1>1, <2>2, <2>3, <2>4, <3>1
    <3>2. CASE k # b
      <4>1. k \in Jobs /\ queue[k] # "absent" /\ AIPrep(k.app) \in Jobs /\ AIPrep(k.app) # b
        BY <1>1, <2>1, <2>3, <2>6, <3>2, JobNames, AIPrepName DEF TypeOK
      <4>2. k.by = attempt[AIPrep(k.app)] /\ HandedOver(AIPrep(k.app))
        BY <2>6, <4>1 DEF HandOver
      <4> QED BY <1>1, <2>4, <4>1, <4>2
    <3> QED BY <3>1, <3>2
  <2>7. ASSUME NEW k \in Stage1Jobs, HandedOver(k)'
        PROVE  queue'[BrowserApply(k.app, attempt'[k])] # "absent"
    <3>1. CASE k = j
      BY <1>1, <2>1, <2>3, <3>1 DEF b, TypeOK
    <3>2. CASE k # j
      <4>1. k \in Jobs /\ k # b /\ HandedOver(k)
        BY <1>1, <2>1, <2>3, <2>7, <3>2, JobNames DEF HandedOver, At, TypeOK
      <4>2. /\ queue[BrowserApply(k.app, attempt[k])] # "absent"
            /\ BrowserApply(k.app, attempt[k]) \in Jobs
        BY <1>1, <4>1, BrowserApplyName, JobNames DEF HandOver, TypeOK
      <4> QED BY <1>1, <2>1, <4>2 DEF TypeOK
    <3> QED BY <3>1, <3>2
  <2> QED BY <2>5, <2>6, <2>7 DEF HandOver
<1> QED BY <1>2, <1>3 DEF SteadyStep

(* River, the pool and the user do not disturb it either.                   *)
LEMMA ControlHandsOver ==
  ASSUME IInv, TypeOK', HandOver, SteadyWorkers,
         \/ \E j \in Jobs : River(j) \/ Deadline(j)
         \/ \E j \in Stage2Jobs, n \in 1..MaxAttempts : Pool(j, n)
         \/ EngineCrash \/ EmergencyStop \/ UNCHANGED vars
  PROVE  HandOver'
<1> USE DEF HandedOver, At
<1>0. TypeOK /\ MaxAttempts \in Nat
  BY PipelineAssumption DEF IInv
<1>1. ASSUME NEW j \in Jobs, Fetch(j) PROVE HandOver'
  <2>1. /\ queue[j] = "available" /\ queue'[j] = "running"
        /\ at'[j] \in {"prep_status", "apply_status"}
        /\ \A k \in Jobs : k # j => queue'[k] = queue[k] /\ at'[k] = at[k] /\ attempt'[k] = attempt[k]
    BY <1>0, <1>1 DEF Fetch, Goto, TypeOK
  <2> QED BY <1>0, <2>1, HandOverMove
<1>2. ASSUME NEW j \in Jobs, Retry(j) PROVE HandOver'
  <2>1. /\ queue[j] = "running" /\ at[j] \in {"error", "lost"} /\ queue'[j] \in {"available", "discarded"}
        /\ \A k \in Jobs : k # j => queue'[k] = queue[k] /\ at'[k] = at[k] /\ attempt'[k] = attempt[k]
    BY <1>0, <1>2 DEF Retry, Leave, Goto, TypeOK
  <2> QED BY <1>0, <2>1, HandOverMove
<1>3. CASE \E j \in Jobs : Complete(j)
  BY <1>0, <1>3, HandOverSame DEF Complete, Leave, Goto, TypeOK, HandOver
<1>4. CASE \E j \in Jobs : Deadline(j)
  BY <1>4 DEF Deadline, SteadyWorkers
<1>5. CASE \E j \in Stage2Jobs, n \in 1..MaxAttempts : PoolFile(j, n)
  BY <1>0, <1>5, HandOverSame DEF PoolFile, jobVars, HandOver
<1>6. CASE \E j \in Stage2Jobs, n \in 1..MaxAttempts : PoolAnswer(j, n)
  <2>1. \A k \in Jobs : at'[k] = at[k] \/ (at[k] = "apply_await" /\ at'[k] \in {"apply_screenshot", "fail"})
    BY <1>0, <1>6, JobNames DEF PoolAnswer, Waiting, Goto, TypeOK
  <2> QED BY <1>0, <1>6, <2>1, HandOverSame DEF PoolAnswer, HandOver
<1>7. CASE EngineCrash
  BY <1>7 DEF EngineCrash, SteadyWorkers
<1>8. CASE EmergencyStop
  <2>1. \A k \in Jobs : at'[k] = at[k] \/ (at[k] = "apply_await" /\ at'[k] = "fail")
    BY <1>0, <1>8 DEF EmergencyStop, Waiting, TypeOK
  <2> QED BY <1>0, <1>8, <2>1, HandOverSame DEF EmergencyStop, HandOver
<1>9. CASE UNCHANGED vars
  BY <1>0, <1>9, HandOverSame DEF vars, HandOver
<1> QED BY <1>1, <1>2, <1>3, <1>4, <1>5, <1>6, <1>7, <1>8, <1>9 DEF River, Pool

LEMMA SubmitHandsOver ==
  ASSUME IInv, TypeOK', HandOver, NEW c \in Callers, NEW a \in Apps, SubmitStep(c, a)
  PROVE  HandOver'
<1> DEFINE first == IF call[c][a] = "insert_raw" THEN BrowserApply(a, 0) ELSE AIPrep(a)
<1> USE DEF HandedOver, At
<1>0. TypeOK /\ 0 \in 0..MaxAttempts
  BY PipelineAssumption DEF IInv
<1>1. /\ UNCHANGED <<attempt, at>>
      /\ \/ queue' = queue
         \/ call[c][a] # "idle" /\ queue' = [queue EXCEPT ![first] = "available"]
  BY DEF SubmitStep
<1>2. first \in Jobs /\ first.app = a /\ first.by = 0
  BY <1>0, AIPrepName, BrowserApplyName, JobNames
<1> HIDE DEF first
<1>3. CASE queue' = queue
  BY <1>0, <1>1, <1>3, HandOverSame DEF HandOver
<1>4. CASE call[c][a] # "idle" /\ queue' = [queue EXCEPT ![first] = "available"]
  <2>1. queue[first] = "absent"
    BY <1>2, <1>4 DEF IInv, CallInv, JobsOf
  <2>2. \A k \in Jobs : HandedOver(k)' <=> HandedOver(k)
    BY <1>0, <1>1, <1>2, <1>4, <2>1 DEF TypeOK
  <2>3. ASSUME NEW k \in Jobs, queue'[k] = "running" PROVE at'[k] # "lost"
    BY <1>0, <1>1, <1>2, <1>4, <2>3 DEF HandOver, TypeOK
  <2>4. ASSUME NEW k \in Stage2Jobs, queue'[k] # "absent", k.by # 0
        PROVE  k.by = attempt'[AIPrep(k.app)] /\ HandedOver(AIPrep(k.app))'
    <3>1. k \in Jobs /\ AIPrep(k.app) \in Jobs /\ queue[k] # "absent"
      BY <1>0, <1>2, <1>4, <2>4, JobNames, AIPrepName DEF TypeOK
    <3> HIDE DEF HandedOver
    <3> QED BY <1>1, <2>2, <2>4, <3>1 DEF HandOver
  <2>5. ASSUME NEW k \in Stage1Jobs, HandedOver(k)'
        PROVE  queue'[BrowserApply(k.app, attempt'[k])] # "absent"
    <3>1. k \in Jobs /\ BrowserApply(k.app, attempt[k]) \in Jobs
      BY <1>0, BrowserApplyName, JobNames DEF TypeOK
    <3> HIDE DEF HandedOver
    <3>2. queue[BrowserApply(k.app, attempt[k])] # "absent"
      BY <2>2, <2>5, <3>1 DEF HandOver
    <3> QED BY <1>0, <1>1, <1>2, <1>4, <3>1, <3>2 DEF TypeOK
  <2> QED BY <2>3, <2>4, <2>5 DEF HandOver
<1> QED BY <1>1, <1>3, <1>4

(* While one job of an application is at work, no other has failed, and no  *)
(* Stage 2 has succeeded.                                                   *)
LEMMA OutcomeWork ==
  ASSUME IInv, TypeOK', HandOver, Outcome, SteadyStatements,
         NEW j \in Jobs, WorkStep(j), WorkWrite(j), SteadyStep(j)
  PROVE  Outcome'
<1>1. /\ queue[j] = "running" /\ ~HandedOver(j) /\ at[j] \in StepsOf(j) /\ TypeOK /\ j.app \in Apps
      /\ at[j] # "error"
  BY JobNames DEF WorkStep, SteadyStep, HandedOver, At, IInv, JobInv
<1>2. ASSUME NEW k \in Jobs, k # j, k.app = j.app, queue[k] # "absent"
      PROVE  k \in Stage1Jobs /\ HandedOver(k)
  BY <1>1, <1>2, Pair
<1>3. ASSUME NEW k \in Jobs, k # j, queue'[k] # "available"
      PROVE  queue'[k] = queue[k] /\ at'[k] = at[k]
  BY <1>1, <1>3 DEF WorkStep, TypeOK
<1>4. queue'[j] \in {"running", "available"}
  BY <1>1 DEF WorkStep, TypeOK
<1>5. ASSUME NEW k \in Jobs, At(k, "error")' \/ queue'[k] = "discarded"
      PROVE  row'[k.app].status = "failed"
  <2>1. CASE k = j
    BY <1>4, <1>5, <2>1 DEF At, SteadyStep, SteadyStatements
  <2>2. CASE k # j
    <3>1. At(k, "error") \/ queue[k] = "discarded"
      BY <1>3, <1>5, <2>2 DEF At
    <3>2. queue[k] # "absent" /\ ~HandedOver(k) /\ k.app \in Apps
      BY <3>1, JobNames DEF At, HandedOver
    <3>3. k.app # j.app
      BY <1>2, <2>2, <3>2
    <3>4. row[k.app].status = "failed"
      BY <3>1 DEF Outcome
    <3> QED BY <3>2, <3>3, <3>4 DEF WorkStep
  <2> QED BY <2>1, <2>2
<1>6. ASSUME NEW k \in Stage2Jobs, HandedOver(k)' PROVE row'[k.app].status = "applied"
  <2>0. k \in Jobs /\ k.app \in Apps
    BY JobNames
  <2>1. CASE k = j
    <3>1. at[j] # "prep_enqueue"
      BY <1>1, <2>1, Stage2Name DEF StepsOf, ApplySteps, Ends
    <3> QED BY <1>4, <1>6, <2>1, <3>1 DEF At, HandedOver, SteadyStep
  <2>2. CASE k # j
    <3>1. HandedOver(k)
      BY <1>3, <1>6, <2>0, <2>2 DEF HandedOver, At
    <3>2. queue[k] # "absent" /\ k \notin Stage1Jobs
      BY <3>1, JobNames DEF HandedOver, At
    <3>3. k.app # j.app
      BY <1>2, <2>0, <2>2, <3>2
    <3>4. row[k.app].status = "applied"
      BY <3>1 DEF Outcome
    <3> QED BY <2>0, <3>3, <3>4 DEF WorkStep
  <2> QED BY <2>1, <2>2
<1> QED BY <1>5, <1>6 DEF Outcome

LEMMA OutcomeControl ==
  ASSUME IInv, HandOver, Outcome, SteadyStatements,
         \/ \E j \in Jobs : River(j) \/ Deadline(j)
         \/ \E j \in Stage2Jobs, n \in 1..MaxAttempts : Pool(j, n)
         \/ EngineCrash \/ EmergencyStop \/ UNCHANGED vars
  PROVE  Outcome'
<1> USE DEF At, HandedOver
<1>0. TypeOK
  BY DEF IInv
<1> DEFINE Quiet(k) ==
      /\ At(k, "error")' \/ queue'[k] = "discarded" => At(k, "error") \/ queue[k] = "discarded"
      /\ HandedOver(k)' => HandedOver(k)
<1>1. SUFFICES UNCHANGED row /\ \A k \in Jobs : Quiet(k)
  BY JobNames DEF Outcome
<1>2. ASSUME NEW j \in Jobs, Fetch(j) PROVE UNCHANGED row /\ \A k \in Jobs : Quiet(k)
  BY <1>0, <1>2 DEF Fetch, Goto, TypeOK
<1>3. ASSUME NEW j \in Jobs, Retry(j) PROVE UNCHANGED row /\ \A k \in Jobs : Quiet(k)
  <2>1. at[j] = "error" /\ queue[j] = "running"
    BY <1>3 DEF Retry, HandOver
  <2> QED BY <1>0, <1>3, <2>1 DEF Retry, Leave, Goto, TypeOK
<1>4. ASSUME NEW j \in Jobs, Complete(j) PROVE UNCHANGED row /\ \A k \in Jobs : Quiet(k)
  BY <1>0, <1>4 DEF Complete, Leave, Goto, TypeOK
<1>5. CASE (\E j \in Jobs : Deadline(j)) \/ EngineCrash
  BY <1>5 DEF Deadline, EngineCrash, SteadyStatements, SteadyWorkers
<1>6. CASE \E j \in Stage2Jobs, n \in 1..MaxAttempts : PoolFile(j, n)
  BY <1>6 DEF PoolFile, jobVars
<1>7. CASE \E j \in Stage2Jobs, n \in 1..MaxAttempts : PoolAnswer(j, n)
  <2>1. \A k \in Jobs : at'[k] \in {at[k], "apply_screenshot", "fail"}
    BY <1>0, <1>7, JobNames DEF PoolAnswer, Waiting, Goto, TypeOK
  <2> QED BY <1>7, <2>1 DEF PoolAnswer
<1>8. CASE EmergencyStop
  <2>1. \A k \in Jobs : at'[k] \in {at[k], "fail"}
    BY <1>0, <1>8 DEF EmergencyStop, TypeOK
  <2> QED BY <1>8, <2>1 DEF EmergencyStop
<1>9. CASE UNCHANGED vars
  BY <1>9 DEF vars
<1> QED BY <1>2, <1>3, <1>4, <1>5, <1>6, <1>7, <1>8, <1>9 DEF River, Pool

LEMMA OutcomeSubmit ==
  ASSUME IInv, TypeOK', Outcome, NEW c \in Callers, NEW a \in Apps, SubmitStep(c, a)
  PROVE  Outcome'
<1> USE DEF At, HandedOver
<1>0. TypeOK /\ 0 \in 0..MaxAttempts
  BY PipelineAssumption DEF IInv
<1>1. \A k \in Jobs : at'[k] = at[k] /\ (queue'[k] = queue[k] \/ queue'[k] = "available")
  <2>1. AIPrep(a) \in Jobs /\ BrowserApply(a, 0) \in Jobs
    BY <1>0, AIPrepName, BrowserApplyName, JobNames
  <2> QED BY <1>0, <2>1 DEF SubmitStep, TypeOK
<1>2. ASSUME NEW k \in Jobs, queue[k] # "absent" PROVE row'[k.app].status = row[k.app].status
  <2>1. CASE k.app = a
    <3>1. row[a].status # "absent"
      BY <1>2, <2>1 DEF IInv, RowInv, JobsOf
    <3> QED BY <2>1, <3>1 DEF SubmitStep
  <2>2. CASE k.app # a
    BY <2>2, JobNames DEF SubmitStep
  <2> QED BY <2>1, <2>2
<1> QED BY <1>1, <1>2, JobNames DEF Outcome

(* Nobody leaves a session that is open.                                    *)
LEMMA AttendedWork ==
  ASSUME IInv, TypeOK', Attended, SteadyConnections,
         NEW j \in Jobs, WorkStep(j), SteadyStep(j)
  PROVE  Attended'
<1>0. TypeOK /\ queue[j] = "running" /\ at[j] # "apply_await" /\ at[j] \in StepsOf(j)
      /\ attempt' = attempt /\ j.app \in Apps
  BY JobNames DEF IInv, JobInv, WorkStep, SteadyStep, SteadyConnections
<1>1. ASSUME NEW k \in Jobs, k # j, At(k, "apply_await") PROVE At(k, "apply_await")'
  <2>1. at'[k] = at[k]
    BY <1>1 DEF WorkStep
  <2>2. CASE queue' = queue
    BY <1>1, <2>1, <2>2 DEF At
  <2>3. CASE /\ at[j] = "prep_enqueue"
             /\ queue' = [queue EXCEPT ![BrowserApply(j.app, attempt[j])] = "available"]
    <3>1. j \in Stage1Jobs /\ j = AIPrep(j.app)
      BY <1>0, <2>3, Stage1Name, JobNames DEF StepsOf, ApplySteps, Ends
    <3>2. ASSUME k = BrowserApply(j.app, attempt[j]) PROVE FALSE
      <4>1. k \in Stage2Jobs /\ k.by = attempt[j] /\ k.app = j.app /\ queue[k] = "running"
        BY <1>0, <1>1, <3>2, BrowserApplyName DEF TypeOK, At
      <4>2. k.by # 0
        BY <1>0, <4>1, PipelineAssumption DEF IInv, JobInv, TypeOK
      <4>3. at[j] \in Ends
        BY <1>0, <3>1, <4>1, <4>2 DEF IInv, ApplyInv
      <4> QED BY <2>3, <4>3 DEF Ends
    <3> QED BY <1>0, <1>1, <2>1, <2>3, <3>2 DEF At, TypeOK
  <2> QED BY <2>2, <2>3 DEF WorkStep
<1>2. ASSUME NEW s \in open' PROVE At(s[1], "apply_await")' /\ attempt'[s[1]] = s[2]
  <2>1. CASE s \in open
    <3>1. s[1] \in Jobs /\ At(s[1], "apply_await") /\ attempt[s[1]] = s[2]
      BY <1>0, <2>1, JobNames DEF Attended, TypeOK
    <3>2. s[1] # j
      BY <1>0, <3>1 DEF At
    <3> QED BY <1>0, <1>1, <3>1, <3>2
  <2>2. CASE s \notin open
    <3>1. s = <<j, attempt[j]>> /\ at'[j] = "apply_await"
      BY <2>2 DEF SteadyStep
    <3>2. queue' = queue
      BY <3>1 DEF WorkStep, Ends
    <3> QED BY <1>0, <3>1, <3>2 DEF At
  <2> QED BY <2>1, <2>2
<1> QED BY <1>2 DEF Attended

LEMMA AttendedControl ==
  ASSUME IInv, Attended, SteadyConnections,
         \/ \E j \in Jobs : River(j) \/ Deadline(j)
         \/ \E j \in Stage2Jobs, n \in 1..MaxAttempts : Pool(j, n)
         \/ EngineCrash \/ EmergencyStop \/ UNCHANGED vars
  PROVE  Attended'
<1> USE DEF At
<1>0. TypeOK /\ \A s \in open : s[1] \in Jobs /\ s = <<s[1], s[2]>>
  BY JobNames DEF IInv, TypeOK
<1>1. ASSUME NEW j \in Jobs, River(j) PROVE Attended'
  <2>1. /\ queue[j] # "running" \/ at[j] \in {"returned", "error", "lost"}
        /\ open' = open
        /\ \A k \in Jobs : k # j => queue'[k] = queue[k] /\ at'[k] = at[k] /\ attempt'[k] = attempt[k]
    BY <1>0, <1>1 DEF River, Fetch, Complete, Retry, Leave, Goto, TypeOK, poolVars
  <2> QED BY <1>0, <2>1 DEF Attended
<1>2. CASE (\E j \in Jobs : Deadline(j)) \/ EngineCrash
  BY <1>2 DEF Deadline, EngineCrash, SteadyConnections, SteadyWorkers
<1>3. CASE \E j \in Stage2Jobs, n \in 1..MaxAttempts : PoolFile(j, n)
  BY <1>3 DEF PoolFile, jobVars, Attended
<1>4. ASSUME NEW j \in Stage2Jobs, NEW n \in 1..MaxAttempts, PoolAnswer(j, n) PROVE Attended'
  <2>1. <<j, n>> \in open /\ open' = open \ {<<j, n>>} /\ UNCHANGED <<queue, attempt>>
    BY <1>4 DEF PoolAnswer
  <2>2. attempt[j] = n
    BY <2>1 DEF Attended
  <2>3. \A k \in Jobs : k # j => at'[k] = at[k]
    BY <1>0, <1>4, JobNames DEF PoolAnswer, Goto, TypeOK
  <2>4. \A s \in open' : s[1] # j /\ s \in open
    BY <1>0, <2>1, <2>2 DEF Attended
  <2> QED BY <1>0, <2>1, <2>3, <2>4 DEF Attended
<1>5. CASE EmergencyStop
  BY <1>5 DEF EmergencyStop, Attended
<1>6. CASE UNCHANGED vars
  BY <1>6 DEF vars, Attended
<1> QED BY <1>1, <1>2, <1>3, <1>4, <1>5, <1>6 DEF Pool

LEMMA AttendedSubmit ==
  ASSUME IInv, Attended, NEW c \in Callers, NEW a \in Apps, SubmitStep(c, a)
  PROVE  Attended'
<1>0. TypeOK /\ 0 \in 0..MaxAttempts
  BY PipelineAssumption DEF IInv
<1> DEFINE first == IF call[c][a] = "insert_raw" THEN BrowserApply(a, 0) ELSE AIPrep(a)
<1>1. first \in Jobs /\ first.app = a
  BY <1>0, AIPrepName, BrowserApplyName, JobNames
<1>2. UNCHANGED <<attempt, at, open>>
  BY DEF SubmitStep
<1>3. queue' = queue \/ (call[c][a] # "idle" /\ queue' = [queue EXCEPT ![first] = "available"])
  BY DEF SubmitStep
<1> HIDE DEF first
<1>4. ASSUME NEW s \in open PROVE At(s[1], "apply_await")'
  <2>1. s[1] \in Jobs /\ At(s[1], "apply_await")
    BY <1>0, JobNames DEF Attended, TypeOK
  <2>2. call[c][a] # "idle" => queue[first] = "absent"
    BY <1>1 DEF IInv, CallInv, JobsOf
  <2> QED BY <1>0, <1>1, <1>2, <1>3, <2>1, <2>2 DEF At, TypeOK
<1> QED BY <1>2, <1>4 DEF Attended

-----------------------------------------------------------------------------
LEMMA SteadyNext ==
  ASSUME IInv, IInv', [Next]_vars, HandOver, SteadyWorkers
  PROVE  /\ HandOver'
         /\ SteadyStatements /\ Outcome => Outcome'
         /\ SteadyConnections /\ Attended => Attended'
<1>0. TypeOK /\ JobInv /\ TypeOK'
  BY DEF IInv
<1>1. ASSUME NEW c \in Callers, NEW a \in Apps,
             SubmitCreate(c, a) \/ Submitting(c, a) \/ SubmitCrash(c, a)
      PROVE  HandOver' /\ (Outcome => Outcome') /\ (Attended => Attended')
  <2>1. SubmitStep(c, a)
    BY <1>0, <1>1, SubmitShape
  <2> QED BY <1>0, <2>1, SubmitHandsOver, OutcomeSubmit, AttendedSubmit
<1>2. ASSUME NEW j \in Jobs, Work(j)
      PROVE  /\ HandOver'
             /\ SteadyStatements /\ Outcome => Outcome'
             /\ SteadyConnections /\ Attended => Attended'
  <2>1. WorkStep(j) /\ WorkWrite(j) /\ SteadyStep(j)
    BY <1>0, <1>2, WorkShape, WriteShape, SteadyShape
  <2> QED BY <1>0, <2>1, WorkHandsOver, OutcomeWork, AttendedWork
<1>3. CASE \/ \E j \in Jobs : River(j) \/ Deadline(j)
           \/ \E j \in Stage2Jobs, n \in 1..MaxAttempts : Pool(j, n)
           \/ EngineCrash \/ EmergencyStop \/ UNCHANGED vars
  BY <1>0, <1>3, ControlHandsOver, OutcomeControl, AttendedControl
<1> QED BY <1>1, <1>2, <1>3 DEF Next

LEMMA SteadyInit == Init => HandOver /\ Outcome /\ Attended
<1> SUFFICES ASSUME Init PROVE HandOver /\ Outcome /\ Attended
  OBVIOUS
<1>1. open = {} /\ \A j \in Jobs : queue[j] = "absent" /\ ~HandedOver(j)
  BY DEF Init, HandedOver, At
<1> QED BY <1>1, JobNames DEF HandOver, Outcome, Attended, At

(* A worker that always waits for its session, in a process that does not   *)
(* die, is alone with its application: services that fail, statements that  *)
(* fail, retries and emergency stops do not make the pool work twice.       *)
THEOREM PoolWorksOnce ==
  ASSUME SteadyConnections
  PROVE  Spec => []OneSessionAtATime
<1>0. SteadyWorkers
  BY DEF SteadyConnections
<1>1. IInv /\ HandOver /\ Attended => OneSessionAtATime
  <2> SUFFICES ASSUME IInv, HandOver, Attended, NEW s \in open, NEW t \in open,
                      s[1].app = t[1].app
               PROVE  s = t
    BY DEF OneSessionAtATime
  <2>1. /\ s[1] \in Stage2Jobs /\ t[1] \in Stage2Jobs /\ s = <<s[1], s[2]>> /\ t = <<t[1], t[2]>>
        /\ s[1] \in Jobs /\ t[1] \in Jobs
    BY JobNames DEF IInv, TypeOK
  <2>2. /\ queue[s[1]] = "running" /\ queue[t[1]] = "running"
        /\ attempt[s[1]] = s[2] /\ attempt[t[1]] = t[2]
    BY DEF Attended, At
  <2>3. s[1] = t[1]
    BY <2>1, <2>2, Pair, JobNames
  <2> QED BY <2>1, <2>2, <2>3
<1>2. IInv /\ IInv' /\ HandOver /\ Attended /\ [Next]_vars => HandOver' /\ Attended'
  BY <1>0, SteadyNext
<1> QED BY <1>1, <1>2, SteadyInit, Invariance, PTL DEF Spec

(* When nothing of what the workers write is lost, the status tells how an  *)
(* application ended, whatever failed around them.                          *)
THEOREM StatusTellsTheEnd ==
  ASSUME SteadyStatements
  PROVE  Spec => []SettledStatus
<1>0. SteadyWorkers
  BY DEF SteadyStatements
<1>1. IInv /\ HandOver /\ Outcome => SettledStatus
  <2> SUFFICES ASSUME IInv, HandOver, Outcome, NEW a \in Apps, JobsOf(a) # {},
                      ~ \E j \in JobsOf(a) : Unfinished(j)
               PROVE  row[a].status = IF \E j \in JobsOf(a) \cap Stage2Jobs : queue[j] = "completed"
                                      THEN "applied" ELSE "failed"
    BY DEF SettledStatus
  <2>0. TypeOK /\ MaxAttempts \in Nat
    BY PipelineAssumption DEF IInv
  <2>1. \A j \in JobsOf(a) : queue[j] \in {"completed", "discarded"} /\ j \in Jobs /\ j.app = a
    BY <2>0 DEF JobsOf, Unfinished, TypeOK, QueueStates
  <2>2. CASE \E j \in JobsOf(a) \cap Stage2Jobs : queue[j] = "completed"
    BY <2>1, <2>2 DEF Outcome, HandedOver
  <2>3. CASE \E j \in JobsOf(a) : queue[j] = "discarded"
    <3>1. row[a].status = "failed"
      BY <2>1, <2>3 DEF Outcome
    <3> QED BY <2>2, <3>1
  <2>4. CASE \A j \in JobsOf(a) : j \in Stage1Jobs /\ queue[j] = "completed"
    <3>1. PICK j \in JobsOf(a) : j \in Stage1Jobs /\ queue[j] = "completed" /\ j \in Jobs /\ j.app = a
      BY <2>1, <2>4
    <3> DEFINE b == BrowserApply(a, attempt[j])
    <3>2. b \in Stage2Jobs /\ b \in Jobs /\ b.app = a
      BY <2>0, <3>1, BrowserApplyName, JobNames DEF TypeOK
    <3>3. queue[b] # "absent"
      BY <3>1 DEF HandOver, HandedOver
    <3> QED BY <2>4, <3>2, <3>3, JobNames DEF JobsOf
  <2> QED BY <2>1, <2>2, <2>3, <2>4, JobNames
<1>2. IInv /\ IInv' /\ HandOver /\ Outcome /\ [Next]_vars => HandOver' /\ Outcome'
  BY <1>0, SteadyNext
<1> QED BY <1>1, <1>2, SteadyInit, Invariance, PTL DEF Spec

=============================================================================
