--------------------------- MODULE ApplyPipeline ---------------------------
(***************************************************************************)
(* The two-stage application pipeline: Submit (application_service.go)     *)
(* writes an applications row and inserts a River job; AIPrepWorker        *)
(* (Stage 1) writes tailored documents to S3 and inserts the Stage 2 job;  *)
(* BrowserApplyWorker (Stage 2) asks the browser pool to file the form and *)
(* marks the row as applied.                                               *)
(*                                                                         *)
(* No two of these writes share a transaction, River redelivers a job      *)
(* whose attempt failed or whose process died, and nothing in the workers  *)
(* looks at the status it overwrites: the module keeps every write a step  *)
(* of its own and lets calls fail, answers get lost, deadlines expire and  *)
(* processes crash between any two of them.                                *)
(***************************************************************************)
EXTENDS Naturals

CONSTANTS
  Apps,         \* (user_id, job_id) pairs: the UNIQUE key of applications
  Callers,      \* concurrent callers of Submit: HTTP requests, the scheduler
  MaxAttempts,  \* River's max_attempts (25 by default)
  Faults,       \* what may go wrong in the behaviours considered
  NullColumns   \* TRUE: text columns without a DEFAULT start as SQL NULL

(* db: a statement fails;  insert: a River insert fails;  ack: a statement  *)
(* commits but its caller sees an error;  ai, s3, pool: the service fails;  *)
(* ats: job, user or ATS plugin missing;  connection: it breaks while the   *)
(* pool works;  deadline: the job's context ends, anywhere;  slow_pool: it  *)
(* ends while the pool works;  crash: a process dies;  stop: the user       *)
(* presses emergency stop.                                                  *)
FaultKinds == {"db", "insert", "ack", "ai", "s3", "pool", "ats", "connection",
               "deadline", "slow_pool", "crash", "stop"}

ASSUME PipelineAssumption ==
  /\ MaxAttempts \in Nat \ {0}
  /\ Faults \subseteq FaultKinds
  /\ NullColumns \in BOOLEAN

(***************************************************************************)
(* A River job is named by what inserted it: attempt n of Stage 1, or      *)
(* Submit (n = 0). Each attempt reaches the insert at most once.           *)
(***************************************************************************)
AIPrep(a) == [app |-> a, stage |-> "ai_prep", by |-> 0]
BrowserApply(a, n) == [app |-> a, stage |-> "browser_apply", by |-> n]
Stage1Jobs == {AIPrep(a) : a \in Apps}
Stage2Jobs == {BrowserApply(a, n) : a \in Apps, n \in 0..MaxAttempts}
Jobs == Stage1Jobs \cup Stage2Jobs

VARIABLES
  row,      \* the applications row of each app
  stored,   \* which tailored documents of each app are in S3
  call,     \* where each caller is inside Submit
  queue,    \* river_job.state
  attempt,  \* river_job.attempt
  at,       \* where the goroutine running the job is inside Work
  open,     \* browser sessions in progress: <<job, attempt>>
  filed,    \* sessions that submitted the ATS form: <<job, attempt>>
  stopped   \* unfinished jobs of the user when emergency stop was pressed

vars == <<row, stored, call, queue, attempt, at, open, filed, stopped>>
jobVars == <<queue, attempt, at>>
poolVars == <<open, filed>>

Statuses ==
  {"absent", "queued", "ai_preparing", "ai_ready", "applying", "applied", "failed"}
Contents == {"none", "tailored", "raw"}   \* tailored_resume_s3 and cover_letter_s3
Documents == {"resume", "cover"}
SubmitSteps == {"idle", "link_raw", "insert_tailored", "insert_raw"}
QueueStates == {"absent", "available", "running", "completed", "discarded"}
PrepSteps == {"prep_status", "prep_generate", "prep_put_resume", "prep_put_cover",
              "prep_persist", "prep_enqueue"}
ApplySteps == {"apply_status", "apply_load", "apply_fetch", "apply_call",
               "apply_await", "apply_screenshot", "apply_mark"}
WorkSteps == PrepSteps \cup ApplySteps \cup {"fail"}
Steps == WorkSteps \cup {"idle", "error", "returned", "lost"}

NullableText == {"screenshot_s3", "error_message"}

Row == [status : Statuses, content : Contents, nulls : SUBSET NullableText,
        applied_at : BOOLEAN]

Init ==
  /\ row = [a \in Apps |-> [status |-> "absent", content |-> "none", applied_at |-> FALSE,
                            nulls |-> IF NullColumns THEN NullableText ELSE {}]]
  /\ stored = [a \in Apps |-> {}]
  /\ call = [c \in Callers |-> [a \in Apps |-> "idle"]]
  /\ queue = [j \in Jobs |-> "absent"]
  /\ attempt = [j \in Jobs |-> 0]
  /\ at = [j \in Jobs |-> "idle"]
  /\ open = {}
  /\ filed = {}
  /\ stopped = {}

-----------------------------------------------------------------------------
(* Service.Submit, for caller c and application a.                          *)

SubmitGoto(c, a, step) == call' = [call EXCEPT ![c][a] = step]

(* Mutant: ON CONFLICT (user_id, job_id) DO UPDATE SET status = 'queued'.   *)
SubmitCreateUpsert(c, a) ==
  /\ call[c][a] = "idle"
  /\ row' = [row EXCEPT ![a].status = "queued"]
  /\ \E next \in {"insert_tailored", "link_raw"} : SubmitGoto(c, a, next)
  /\ UNCHANGED <<stored, jobVars, poolVars, stopped>>

(* Read the resume and the preferences, then INSERT INTO applications: the  *)
(* preference read decides whether AI tailoring is bypassed, and a call     *)
(* that fails before the INSERT, or at UNIQUE (user_id, job_id), writes     *)
(* nothing.                                                                 *)
SubmitCreate(c, a) ==
  /\ call[c][a] = "idle"
  /\ row[a].status = "absent"
  /\ row' = [row EXCEPT ![a].status = "queued"]
  /\ \/ \E next \in {"insert_tailored", "link_raw"} : SubmitGoto(c, a, next)
     \/ "ack" \in Faults /\ UNCHANGED call
  /\ UNCHANGED <<stored, jobVars, poolVars, stopped>>

(* Mutant: SetTailoredResumeAuth leaves out the "none" sentinel of the      *)
(* cover letter: only one of the two keys is set.                           *)
SubmitLinkResumeOnly(c, a) ==
  /\ call[c][a] = "link_raw"
  /\ row' = [row EXCEPT ![a].content = "raw_resume_only"]
  /\ SubmitGoto(c, a, "insert_raw")
  /\ UNCHANGED <<stored, jobVars, poolVars, stopped>>

(* AI bypass: SetTailoredResumeAuth maps the raw resume and "none".         *)
SubmitLink(c, a) ==
  LET linked == [row EXCEPT ![a].content = "raw"] IN
  /\ call[c][a] = "link_raw"
  /\ \/ row' = linked /\ SubmitGoto(c, a, "insert_raw")
     \/ "ack" \in Faults /\ row' = linked /\ SubmitGoto(c, a, "idle")
     \/ "db" \in Faults /\ UNCHANGED row /\ SubmitGoto(c, a, "idle")
  /\ UNCHANGED <<stored, jobVars, poolVars, stopped>>

(* Mutant: the bypass branch falls through to the insert of Stage 1.        *)
SubmitInsertBoth(c, a) ==
  LET inserted == IF call[c][a] = "insert_raw"
                  THEN {BrowserApply(a, 0), AIPrep(a)} ELSE {AIPrep(a)} IN
  /\ call[c][a] \in {"insert_tailored", "insert_raw"}
  /\ queue' = [j \in Jobs |-> IF j \in inserted THEN "available" ELSE queue[j]]
  /\ SubmitGoto(c, a, "idle")
  /\ UNCHANGED <<row, stored, attempt, at, poolVars, stopped>>

(* riverClient.Insert of the first job; its failure is only reported.       *)
SubmitInsert(c, a) ==
  LET j == IF call[c][a] = "insert_raw" THEN BrowserApply(a, 0) ELSE AIPrep(a) IN
  /\ call[c][a] \in {"insert_tailored", "insert_raw"}
  /\ \/ queue' = [queue EXCEPT ![j] = "available"]
     \/ "insert" \in Faults /\ UNCHANGED queue
  /\ SubmitGoto(c, a, "idle")
  /\ UNCHANGED <<row, stored, attempt, at, poolVars, stopped>>

(* The process serving the call dies, or its request context is cancelled.  *)
SubmitCrash(c, a) ==
  /\ "crash" \in Faults
  /\ call[c][a] # "idle"
  /\ SubmitGoto(c, a, "idle")
  /\ UNCHANGED <<row, stored, jobVars, poolVars, stopped>>

-----------------------------------------------------------------------------
(* River: at-least-once execution of a job (external library).              *)

At(j, step) == queue[j] = "running" /\ at[j] = step
Goto(j, step) == at' = [at EXCEPT ![j] = step]

Fetch(j) ==
  /\ queue[j] = "available"
  /\ queue' = [queue EXCEPT ![j] = "running"]
  /\ attempt' = [attempt EXCEPT ![j] = @ + 1]
  /\ Goto(j, IF j.stage = "ai_prep" THEN "prep_status" ELSE "apply_status")
  /\ UNCHANGED <<row, stored, call, poolVars, stopped>>

Leave(j, state) == queue' = [queue EXCEPT ![j] = state] /\ Goto(j, "idle")

Complete(j) ==
  /\ At(j, "returned")
  /\ Leave(j, "completed")
  /\ UNCHANGED <<row, stored, call, attempt, poolVars, stopped>>

(* An attempt that returned an error, or whose process died ("lost", found  *)
(* by River's rescuer), is retried until the attempts are used up.          *)
Retry(j) ==
  /\ At(j, "error") \/ At(j, "lost")
  /\ Leave(j, IF attempt[j] < MaxAttempts THEN "available" ELSE "discarded")
  /\ UNCHANGED <<row, stored, call, attempt, poolVars, stopped>>

(* The context given to Work ends: River's job timeout (a minute unless     *)
(* configured: neither worker is) or the shutdown that cancels the context  *)
(* of riverClient.Start. Every later call of the attempt fails at once, the *)
(* SetError of failApp included, so the attempt ends without another write. *)
Deadline(j) ==
  /\ queue[j] = "running"
  /\ \/ "deadline" \in Faults /\ at[j] \in WorkSteps
     \/ "slow_pool" \in Faults /\ at[j] = "apply_await"
  /\ Goto(j, "error")
  /\ UNCHANGED <<row, stored, call, queue, attempt, poolVars, stopped>>

EngineCrash ==
  /\ "crash" \in Faults
  /\ \E j \in Jobs : queue[j] = "running" /\ at[j] # "lost"
  /\ at' = [j \in Jobs |-> IF queue[j] = "running" THEN "lost" ELSE at[j]]
  /\ UNCHANGED <<row, stored, call, queue, attempt, poolVars, stopped>>

-----------------------------------------------------------------------------
(* What the steps of Work share.                                            *)

(* One UPDATE of the row of j.app: it commits, it fails, or it commits and  *)
(* the worker is told that it failed.                                       *)
UpdateRow(j, new, next, onError) ==
  \/ row' = [row EXCEPT ![j.app] = new] /\ Goto(j, next)
  \/ "ack" \in Faults /\ row' = [row EXCEPT ![j.app] = new] /\ Goto(j, onError)
  \/ "db" \in Faults /\ UNCHANGED row /\ Goto(j, onError)

(* A call that changes nothing here: it succeeds when ok, or it fails.      *)
CallOut(j, ok, kinds, next) ==
  \/ ok /\ Goto(j, next)
  \/ (kinds \cap Faults # {} \/ ~ok) /\ Goto(j, "fail")

(* Mutant: SetError stores the message and forgets the status.              *)
FailAppKeepingStatus(j) ==
  /\ At(j, "fail")
  /\ UpdateRow(j, [row[j.app] EXCEPT !.nulls = @ \ {"error_message"}],
               "error", "error")
  /\ UNCHANGED <<stored, call, queue, attempt, poolVars, stopped>>

(* failApp: SetError on the context of the job, then return the error.      *)
FailApp(j) ==
  /\ At(j, "fail")
  /\ UpdateRow(j, [row[j.app] EXCEPT !.status = "failed", !.nulls = @ \ {"error_message"}],
               "error", "error")
  /\ UNCHANGED <<stored, call, queue, attempt, poolVars, stopped>>

-----------------------------------------------------------------------------
(* AIPrepWorker.Work                                                        *)

PrepStatus(j) ==
  /\ At(j, "prep_status")
  /\ UpdateRow(j, [row[j.app] EXCEPT !.status = "ai_preparing"], "prep_generate", "error")
  /\ UNCHANGED <<stored, call, queue, attempt, poolVars, stopped>>

(* GetResume, GetJob, GetPreferences and the calls to the AI service.       *)
PrepGenerate(j) ==
  /\ At(j, "prep_generate")
  /\ CallOut(j, TRUE, {"db", "ai"}, "prep_put_resume")
  /\ UNCHANGED <<row, stored, call, queue, attempt, poolVars, stopped>>

PutText(j, doc, next) ==
  \/ /\ stored' = [stored EXCEPT ![j.app] = @ \cup {doc}]
     /\ Goto(j, next)
  \/ "s3" \in Faults /\ UNCHANGED stored /\ Goto(j, "fail")

PrepPut(j) ==
  /\ \/ At(j, "prep_put_resume") /\ PutText(j, "resume", "prep_put_cover")
     \/ At(j, "prep_put_cover") /\ PutText(j, "cover", "prep_persist")
  /\ UNCHANGED <<row, call, queue, attempt, poolVars, stopped>>

(* Mutant: an error of UpdateAIOutput is logged and ignored.                *)
PrepPersistUnchecked(j) ==
  /\ At(j, "prep_persist")
  /\ UpdateRow(j, [row[j.app] EXCEPT !.status = "ai_ready", !.content = "tailored"],
               "prep_enqueue", "prep_enqueue")
  /\ UNCHANGED <<stored, call, queue, attempt, poolVars, stopped>>

(* UpdateAIOutput: both keys and status ai_ready in one UPDATE.             *)
PrepPersist(j) ==
  /\ At(j, "prep_persist")
  /\ UpdateRow(j, [row[j.app] EXCEPT !.status = "ai_ready", !.content = "tailored"],
               "prep_enqueue", "fail")
  /\ UNCHANGED <<stored, call, queue, attempt, poolVars, stopped>>

PrepEnqueue(j) ==
  LET inserted == [queue EXCEPT ![BrowserApply(j.app, attempt[j])] = "available"] IN
  /\ At(j, "prep_enqueue")
  /\ \/ queue' = inserted /\ Goto(j, "returned")
     \/ "ack" \in Faults /\ queue' = inserted /\ Goto(j, "fail")
     \/ "insert" \in Faults /\ UNCHANGED queue /\ Goto(j, "fail")
  /\ UNCHANGED <<row, stored, call, attempt, poolVars, stopped>>

-----------------------------------------------------------------------------
(* BrowserApplyWorker.Work                                                  *)

ApplyStatus(j) ==
  /\ At(j, "apply_status")
  /\ UpdateRow(j, [row[j.app] EXCEPT !.status = "applying"], "apply_load", "error")
  /\ UNCHANGED <<stored, call, queue, attempt, poolVars, stopped>>

(* GetByID scans the text columns into Go strings, which refuses NULL.      *)
Scannable(a) ==
  row[a].nulls = {} /\ (NullColumns => row[a].content # "none")

(* GetByID, the check that both S3 keys are there, GetJob, the ATS plugin   *)
(* and GetUser.                                                             *)
ApplyLoad(j) ==
  /\ At(j, "apply_load")
  /\ CallOut(j, Scannable(j.app) /\ row[j.app].content # "none",
             {"db", "ats"}, "apply_fetch")
  /\ UNCHANGED <<row, stored, call, queue, attempt, poolVars, stopped>>

(* GetText of the documents the row names: the raw resume of a bypassed     *)
(* application is the user's own upload.                                    *)
ApplyFetch(j) ==
  /\ At(j, "apply_fetch")
  /\ CallOut(j, row[j.app].content = "tailored" => stored[j.app] = Documents,
             {"s3"}, "apply_call")
  /\ UNCHANGED <<row, stored, call, queue, attempt, poolVars, stopped>>

(* Mutant: an error of browserClient.Apply is ignored.                      *)
ApplyCallUnchecked(j) ==
  /\ At(j, "apply_call")
  /\ \/ open' = open \cup {<<j, attempt[j]>>} /\ Goto(j, "apply_await")
     \/ "pool" \in Faults /\ UNCHANGED open /\ Goto(j, "apply_screenshot")
  /\ UNCHANGED <<row, stored, call, queue, attempt, filed, stopped>>

(* browserClient.Apply: the request reaches the pool and opens a session.   *)
ApplyCall(j) ==
  /\ At(j, "apply_call")
  /\ \/ open' = open \cup {<<j, attempt[j]>>} /\ Goto(j, "apply_await")
     \/ "pool" \in Faults /\ UNCHANGED open /\ Goto(j, "fail")
  /\ UNCHANGED <<row, stored, call, queue, attempt, filed, stopped>>

(* The connection ends while Apply waits for the answer; the session goes   *)
(* on in the pool, as it does after Deadline.                               *)
ApplyAbort(j) ==
  /\ At(j, "apply_await")
  /\ "connection" \in Faults
  /\ Goto(j, "fail")
  /\ UNCHANGED <<row, stored, call, queue, attempt, poolVars, stopped>>

(* UpdateScreenshot, when the pool returned a key; a failure is logged.     *)
ApplyScreenshot(j) ==
  /\ At(j, "apply_screenshot")
  /\ \/ UpdateRow(j, [row[j.app] EXCEPT !.nulls = @ \ {"screenshot_s3"}],
                  "apply_mark", "apply_mark")
     \/ UNCHANGED row /\ Goto(j, "apply_mark")
  /\ UNCHANGED <<stored, call, queue, attempt, poolVars, stopped>>

(* Mutant: SetAppliedAt writes applied_at and leaves the status.            *)
ApplyMarkDateOnly(j) ==
  /\ At(j, "apply_mark")
  /\ UpdateRow(j, [row[j.app] EXCEPT !.applied_at = TRUE], "returned", "fail")
  /\ UNCHANGED <<stored, call, queue, attempt, poolVars, stopped>>

(* SetAppliedAt: status applied and applied_at in one UPDATE.               *)
ApplyMark(j) ==
  /\ At(j, "apply_mark")
  /\ UpdateRow(j, [row[j.app] EXCEPT !.status = "applied", !.applied_at = TRUE],
               "returned", "fail")
  /\ UNCHANGED <<stored, call, queue, attempt, poolVars, stopped>>

-----------------------------------------------------------------------------
(* The browser pool (external): a session files the form at most once, and  *)
(* reports success only for a form it filed.                                *)

Waiting(j, n) == At(j, "apply_await") /\ attempt[j] = n

PoolFile(j, n) ==
  /\ <<j, n>> \in open \ filed
  /\ filed' = filed \cup {<<j, n>>}
  /\ UNCHANGED <<row, stored, call, jobVars, open, stopped>>

PoolAnswer(j, n) ==
  /\ <<j, n>> \in open
  /\ open' = open \ {<<j, n>>}
  /\ \/ /\ <<j, n>> \in filed
        /\ IF Waiting(j, n) THEN Goto(j, "apply_screenshot") ELSE UNCHANGED at
     \/ /\ "pool" \in Faults
        /\ IF Waiting(j, n) THEN Goto(j, "fail") ELSE UNCHANGED at
  /\ UNCHANGED <<row, stored, call, queue, attempt, filed, stopped>>

(* Service.EmergencyStop asks the pool to kill the sessions of the user and *)
(* touches neither the row nor the jobs. All Apps belong to one user.       *)
EmergencyStop ==
  /\ "stop" \in Faults
  /\ stopped = {}
  /\ stopped' = {j \in Jobs : queue[j] \in {"available", "running"}}
  /\ open' = {}
  /\ at' = [j \in Jobs |-> IF Waiting(j, attempt[j]) THEN "fail" ELSE at[j]]
  /\ UNCHANGED <<row, stored, call, queue, attempt, filed>>

-----------------------------------------------------------------------------
Submitting(c, a) == SubmitLink(c, a) \/ SubmitInsert(c, a)

Work(j) ==
  \/ PrepStatus(j) \/ PrepGenerate(j) \/ PrepPut(j) \/ PrepPersist(j) \/ PrepEnqueue(j)
  \/ ApplyStatus(j) \/ ApplyLoad(j) \/ ApplyFetch(j) \/ ApplyCall(j) \/ ApplyAbort(j)
  \/ ApplyScreenshot(j) \/ ApplyMark(j) \/ FailApp(j)

River(j) == Fetch(j) \/ Complete(j) \/ Retry(j)

Pool(j, n) == PoolFile(j, n) \/ PoolAnswer(j, n)

Next ==
  \/ \E c \in Callers, a \in Apps :
       SubmitCreate(c, a) \/ Submitting(c, a) \/ SubmitCrash(c, a)
  \/ \E j \in Jobs : River(j) \/ Deadline(j) \/ Work(j)
  \/ \E j \in Stage2Jobs, n \in 1..MaxAttempts : Pool(j, n)
  \/ EngineCrash
  \/ EmergencyStop

Spec == Init /\ [][Next]_vars

(* A goroutine that can take its next step takes it, River's loops fetch,   *)
(* complete and rescue, and a browser session ends (http.Client gives up on *)
(* it after 180 s). Nobody is obliged to call Submit, and no fault has to   *)
(* happen.                                                                  *)
Fairness ==
  /\ \A c \in Callers, a \in Apps : WF_vars(Submitting(c, a))
  /\ \A j \in Jobs : WF_vars(River(j) \/ Work(j))
  /\ \A j \in Stage2Jobs, n \in 1..MaxAttempts : WF_vars(Pool(j, n))

FairSpec == Spec /\ Fairness

-----------------------------------------------------------------------------
(* Properties                                                               *)

TypeOK ==
  /\ row \in [Apps -> Row]
  /\ stored \in [Apps -> SUBSET Documents]
  /\ call \in [Callers -> [Apps -> SubmitSteps]]
  /\ queue \in [Jobs -> QueueStates]
  /\ attempt \in [Jobs -> 0..MaxAttempts]
  /\ at \in [Jobs -> Steps]
  /\ open \subseteq Stage2Jobs \X (1..MaxAttempts)
  /\ filed \subseteq Stage2Jobs \X (1..MaxAttempts)
  /\ stopped \subseteq Jobs

JobsOf(a) == {j \in Jobs : j.app = a /\ queue[j] # "absent"}
FiledOf(a) == {s \in filed : s[1].app = a}
Redelivered(a) == \E j \in JobsOf(a) : attempt[j] > 1
Unfinished(j) == queue[j] \in {"available", "running"}

(* A browser slot is never spent on an application without documents: while *)
(* a browser_apply job exists, the row names the documents to send and the  *)
(* tailored ones are in S3, whatever failed, crashed or ran twice before.   *)
ContentReady ==
  \A j \in Stage2Jobs : queue[j] # "absent" =>
    /\ row[j.app].content # "none"
    /\ row[j.app].content = "tailored" => stored[j.app] = Documents

(* The employer gets the same application twice only after River has        *)
(* redelivered one of its jobs: concurrent Submits, the two paths into      *)
(* Stage 2 and the two stages never file it twice by themselves.            *)
DuplicateNeedsRedelivery ==
  \A s, t \in filed : s[1].app = t[1].app /\ s # t => Redelivered(s[1].app)

(* No step takes an applied application back into the pipeline unless River *)
(* redelivered a job of it; the one other way out of "applied" is failApp   *)
(* of the attempt whose SetAppliedAt committed but seemed to fail.          *)
AppliedReopenedOnlyByRedelivery ==
  [][\A a \in Apps :
       row[a].status = "applied" => \/ row'[a].status \in {"applied", "failed"}
                                   \/ Redelivered(a)]_vars

(* The pipeline keeps the promise of ApplicationPromise, each of its steps  *)
(* being one step there or none.                                            *)
Promise == INSTANCE ApplicationPromise WITH
  Applications <- Apps,
  Filings <- Stage2Jobs \X (1..MaxAttempts),
  accepted <- {a \in Apps : row[a].status # "absent"},
  prepared <- {a \in Apps : row[a].content # "none"},
  forms <- [a \in Apps |-> FiledOf(a)],
  redelivered <- {a \in Apps : Redelivered(a)},
  recorded <- {a \in Apps : row[a].applied_at}

PromiseKept == Promise!Spec

(* When every job of an application has finished, its status tells how it   *)
(* ended: applied if Stage 2 succeeded, failed otherwise. (It does not when *)
(* failApp itself may fail, or when a lost answer made Stage 1 insert a     *)
(* second Stage 2 job: the run leaves those faults out.)                    *)
SettledStatus ==
  \A a \in Apps :
    (JobsOf(a) # {} /\ ~ \E j \in JobsOf(a) : Unfinished(j)) =>
      row[a].status = IF \E j \in JobsOf(a) \cap Stage2Jobs : queue[j] = "completed"
                      THEN "applied" ELSE "failed"

(* The pool never works on two sessions of one application at a time, as    *)
(* long as no worker stops waiting for a session that is still open.        *)
OneSessionAtATime ==
  \A s, t \in open : s[1].app = t[1].app => s = t

(* An application whose first job was inserted ends as applied or failed    *)
(* and stays there: no retry loop, no status that says "applying" forever.  *)
EventuallyDecided ==
  \A a \in Apps :
    (JobsOf(a) # {}) ~> [](row[a].status \in {"applied", "failed"})

-----------------------------------------------------------------------------
(* What the documents say of the pipeline and the code does not do          *)

(* A submitted application gets applied when nothing goes wrong.            *)
HealthyPipelineApplies ==
  \A a \in Apps : (JobsOf(a) # {}) ~> (row[a].status = "applied")

(* Emergency stop cancels the queued work too: it starts no further session.*)
NothingStartsAfterStop ==
  [][\A j \in stopped, n \in 1..MaxAttempts : <<j, n>> \in open' => <<j, n>> \in open]_vars

(* The row and the first job are written together: a queued application     *)
(* without a job is one whose Submit is still running.                      *)
NoOrphanedApplication ==
  \A a \in Apps :
    row[a].status = "queued" => JobsOf(a) # {} \/ \E c \in Callers : call[c][a] # "idle"

(* Stage 2 jobs that all timed out waiting for the pool leave their         *)
(* application as failed, for the user to see.                              *)
GivenUpIsFailed ==
  \A j \in Stage2Jobs :
    queue[j] = "discarded" /\ (\A k \in JobsOf(j.app) : ~Unfinished(k)) =>
      row[j.app].status \in {"applied", "failed"}

=============================================================================
