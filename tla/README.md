# AutoDreamApplier: TLA+ models, checks and proofs

AutoDreamApplier finds job postings, matches them with a user's profile, tailors a resume and a
cover letter with an AI service, and files the application form through a pool of browsers. This
directory holds formal models of its Go code: modules translated from the source, TLC runs that
check them on small instances, and theorems that TLAPS proves for every instance.

    tlasany ApplyPipeline.tla                                   # parse
    tlc -config PipelineSafety.cfg ApplyPipeline_proofs         # model-check one run
    tlapm ApplyPipeline_proofs.tla                              # check the proofs

`PROJECT.json` is the index: components, runs, the source lines of every definition, hazards,
findings and theorems. Paths below are relative to the root of the repository.

## 1. The system

### Parts, their state and how they interact

| part | state | operations | talks to |
|---|---|---|---|
| `internal/application/service` | rows of `applications` | `Submit`, `RecordOutcome`, `EmergencyStop` | Postgres, River, browser pool, SES |
| `internal/application/workers` | the same rows, documents in S3 | `AIPrepWorker.Work` (Stage 1), `BrowserApplyWorker.Work` (Stage 2) | AI service, S3, River, browser pool, webhooks |
| River (library, tables in Postgres) | jobs with state and attempt | insert, fetch, retry, discard, rescue | both workers |
| browser pool | open browser sessions | apply, emergency stop | called over HTTP by Stage 2 and by `EmergencyStop` |
| `internal/application/scheduler/auto_apply_scheduler.go` | rows of `matches` | hourly tick: count, fetch a batch, submit, mark | `Submit`, Postgres |
| `internal/application/scheduler/digest_scheduler.go` | `lastSent`, in memory and in a file | hourly check, weekly dispatch | SES |
| `internal/jobmatcher` | rows of `matches` | `RunForUser`, approve, reject, bulk actions, feedback | Postgres, embeddings |
| `internal/jobdiscovery` | rows of `jobs` | scrape, classify, upsert in batches | job boards |
| `internal/notification` | `follow_up_sent` flags | follow-up check, webhook delivery, mails | SES, Slack, Discord |
| `internal/user` | users, preferences, resumes | profile, upload, primary resume, A/B weights | S3, Postgres |
| `internal/auth` | cached signing keys | validate a token, refresh the keys | Cognito |
| `internal/salary`, `internal/analytics` | a Redis cache | read-only queries | Postgres, Redis |
| `internal/ratelimit`, `service/rate_limiter.go` | Redis counters | check and increment | Redis; no command wires them |
| `internal/ats`, `ai`, `embedding`, `crypto`, `resume`, `pkg` | none | lookups, clients, conversions | |
| `cmd/*`, `deployments/lambda/*` | none | wiring, start, shutdown | |

An application travels like this. A match is inserted by the matcher, approved by the matcher's
threshold or by the user, and submitted by the user over HTTP or by the auto-apply scheduler.
`Submit` inserts the row (`UNIQUE (user_id, job_id)`) and then a River job: Stage 1, or Stage 2
directly when the user switched AI tailoring off. Stage 1 generates documents, uploads them,
names them in the row and inserts the Stage 2 job. Stage 2 reads the row and the documents, asks
the browser pool to file the form and marks the row as applied. A worker that fails writes
`failed` and returns an error, so that River tries again.

`cmd/browser-pool` of this commit serves only `/health`; the routes that `internal/browser`
calls do not exist yet. The pool is therefore modelled from its client, as an external service.

### What makes it hard

* No two writes share a transaction: the row, the S3 objects, the River jobs, the pool and the
  match are five places, and a process may die, a statement fail or an answer be lost between
  any two of them.
* River delivers at least once, and the workers look at no status before they overwrite it.
* The context of a job ends after River's default timeout or at shutdown; the error handler runs
  on the same context. The browser session goes on without it.
* The scheduler acts on a count and a batch that it read earlier, while the user, midnight and
  other engines act.

For each component the properties that make it correct: `Submit` accepts a pair of user and job
once and always leads to a job; Stage 2 never runs without documents; a form is filed once,
unless a redelivery could not know that it was; a status tells how the application ended and
does not go back; the scheduler keeps the daily limit, submits only what was approved and gets
to everything that stays approved; digests and follow-ups are sent once; there is at most one
primary resume; a scrape loses no posting silently. `hazards` in `PROJECT.json` lists the lines
where each of these can go wrong.

## 2. Modules

| module | what it is | lines of the code |
|---|---|---|
| `ApplicationPromise` | abstract specification: accepted once, filed only when prepared, filed again only after a redelivery, recorded only when filed | the promise, not the code |
| `ApplyPipeline` | `Submit`, both workers, River, the pool, emergency stop | `application_service.go`, `ai_prep_worker.go`, `browser_apply_worker.go`, `application_repository.go`, `client.go` |
| `AutoApply` | matches, the user's decisions, the scheduler | `auto_apply_scheduler.go`, `match_repository.go`, `matching_service.go` |
| `Scrapers` | what each board's scraper makes of a page, and of a page it does not get | `scrapers/*.go` |
| `Discovery` | a scraping run: its goroutine, its channels, its consumer, the scam detector, the upsert transactions | `discovery_service.go`, `scrapers/*.go`, `scam/detector.go`, `job_repository.go` |
| `Scorer` | the score of a posting for a profile | `scorer.go`, `semantic_scorer.go` |
| `Matching` | matching runs, review by the user, auto-approve cycles | `matching_service.go`, `match_repository.go`, `auto_approve_service.go`, `jobmatcher/handler/handler.go` |
| `Digest` | the weekly digest | `digest_scheduler.go` |
| `FollowUp` | the follow-up reminders | `followup_scheduler.go`, `followup_service.go` |
| `Webhook` | the delivery of a webhook | `webhook_service.go` |
| `Embeddings` | embeddings of new jobs | `embed_jobs.go`, `embedding/client.go` |
| `Resumes` | uploads, the primary resume, A/B resumes, the choice in `Submit`, the counters | `user_handler.go`, `user_repository.go`, `application_service.go`, `migrations/000007` |
| `RateLimits` | the two daily limits in Redis | `rate_limiter.go`, `ratelimit/limiter.go` |
| `KeyCache` | the signing keys and their shared fetch | `auth/cognito.go` |
| `Salaries` | the salary benchmark, its rows and the copy in Redis | `internal/salary` |
| `MCDiscovery`, `MCMatching`, `MCBackground`, `MCAccount` | instances for TLC | |
| `*_proofs` | theorems (section 4) | |

### ApplyPipeline

An element of `Apps` is a pair of user and job. Every statement, upload, River insert or HTTP
call is a step: the code between two of them touches only local variables.

| model | code |
|---|---|
| `row[a]` | the `applications` row: status, which documents it names (`none`, `raw`, `tailored`), whether `applied_at` is set, and which of the text columns that nothing has written yet are NULL |
| `stored[a]` | the tailored documents in S3 |
| `call[c][a]` | where caller `c` is inside `Submit` |
| `queue`, `attempt` | `river_job.state` and `.attempt`; a job is named by what inserted it: `Submit` (0) or attempt n of Stage 1 |
| `at[j]` | where the goroutine of job `j` is inside `Work`, or how its attempt ended |
| `open`, `filed` | browser sessions in progress, and those that submitted the form, each named by job and attempt |
| `stopped` | a history variable: the unfinished jobs when emergency stop was pressed |

`SubmitCreate/Link/Insert` are the three writes of `Submit`. `Prep*` and `Apply*` are the steps
of the two `Work` functions in their order; `FailApp` is the step all their error paths lead to,
except a failed first `UpdateStatus`, which returns the error at once. `UpdateRow` gives each
UPDATE its three outcomes: committed, failed, or committed although the caller sees an error.
`Fetch`, `Complete`, `Retry`, `Deadline` and `EngineCrash` are River and the process.
`PoolFile` and `PoolAnswer` are a session: it files the form at most once and answers, also when
nobody waits any more.

`Faults` says what may go wrong in a run. The theorems hold for every subset. `NullColumns` says
whether a column without a DEFAULT starts as SQL NULL, as the migration declares. With TRUE, Stage
2 cannot load the row of an application (finding 1), which hides all behaviour after it; with
FALSE the columns read as empty strings, which is what the Go code and its test expect. The
passing runs use FALSE to reach that behaviour; the theorems hold for both.

Left out: audit events, mails and webhooks (their errors are only logged, nothing reads them
back), and the status `withdrawn`, which no code writes. The choice of the resume and
`RecordOutcome` touch neither jobs nor sessions and are in `Resumes`; the Redis limit that `Submit`
would ask is in `RateLimits`.

### AutoApply

One user, matches named by rank, any number of engines. `match`, `app` and `mode` are the columns
`matches.status`, the application of a match (none, of an earlier day, or who made it today) and
`users.apply_mode`. `at`, `quota` and `todo` are the local variables of `processUser`. Each
statement of `processUser` and `submitMatch` is a step. `Submit` is one step here, with its two
ways to fail: before the row exists or after it. A tick outside the apply window is no step. The
status `expired` of a match is written by no code.

### Scrapers and Discovery

A run `r` is a scraper's goroutine (`scraper[r]`: where it is in `Search`, its page, the postings it
still has to send), two channels (`jobsCh[r]`, `errCh[r]`) and the select loop of `runScraper`
(`run[r]`: its batch, the rows its transaction has written, its counts). Runs of one board share the
rows of `jobs` and the locks a transaction holds on them; runs of different boards never meet, so a
behaviour has one `board`, any of the four. `Scrapers` gives for each board which cards and which
embedded data of a page become postings, and which failures it takes for a block: Indeed and
ZipRecruiter go on, LinkedIn stops at 403 and 429, Glassdoor also reads the digits in an error's
text. `ReadPage`, `PageFails`, `SendJob`, `SendError`, `StopSending` and `Return` are the statements
of a `Search` at which it can block or end; `Receive*` and `Cancelled` are the cases of the select;
`UpsertRow`, `Commit` and `Rollback` are `BulkUpsert`. The code only adds up how many rows were new;
`counted` is the history of which. What a run answers is `JobsFound`: only the end of the channel
sets it, so a cancelled run says 0 found next to the new rows it has counted. A select that finds
the closed error channel ready loops: a stuttering step. `Classify` is the scam detector in
hundredths over the signals a text raises. `sent` and `dropped` are histories.

### Scorer and Matching

`Scorer` follows the five dimensions, the weights and the mix with the cosine in ten-thousandths,
rounded down, with titles as sequences of words and places and texts as sets of them. A
score on the border of a threshold may therefore fall on the other side than in floating point; no
property depends on that border.

`Matching` is one user. A run reads settings, profile, matches and jobs in four queries (`ReadUser`,
`ReadProfile`, `ReadMatched`, `ReadJobs`), scores job after job (`ScoreNext`) and inserts a batch
row by row in a transaction (`InsertRow`, `CommitBatch`, `CommitFails`): a row that another
transaction has written but not committed makes it wait, one that is committed is skipped (`ON
CONFLICT DO NOTHING`). The settings a run decides with are those it read first. The user approves,
rejects, gives feedback, acts in bulk and changes settings and profile at any moment; discovery
inserts jobs, with the `NOW()` of its transaction for all jobs of a batch, and reclassifies them;
the query orders by that time only, so `ReadJobs` returns jobs of one time in any order.
Transactions that wait in a circle are resolved by PostgreSQL, which aborts one. An auto-approve
cycle lists the pending matches and then updates one after the other without looking at the status
again. `decided`, `consents` and `owed` are histories: the user's last word on a match (`raced` when
a cycle had listed it before), the thresholds the user ever agreed to, and what a run must still
store.

### Digest, FollowUp, Webhook, Embeddings

`Digest`: time is the number of the week and whether it is the hour in which the digest is due;
`lastSent` is the scheduler's field and `stateFile` its file, `todo` the users its loop has not come
to. `RecordSent` writes memory and, unless the write fails, the file after the loop. Like the code,
the model mails every active user and does not ask for `email_digest_enabled`, the toggle of the
settings page. `StopSending` is the context ending the loop, `StopEngine` the end of the process,
between two dispatches or in the middle of one, and `StartEngine` its start, on the same machine or
on one that does not have the file. `lost` counts the records of a dispatch that were lost.

`FollowUp`: two schedulers (gateway and Lambda) read a list, mail its head and record
`follow_up_sent`, each a step, while the user dismisses reminders and records outcomes. A
scheduler whose mail client is nil marks without a mail.

`Webhook`: one delivery per URL, in units of five seconds: at most three attempts of up to two
units, a pause of one, six units in all. The pause does not look at the context.

`Embeddings`: the ticker and the Lambda read rows without an embedding, ask the AI service, and
write vector by vector, while discovery rewrites descriptions.

### Resumes, RateLimits, KeyCache, Salaries

`Resumes`: requests of one user overlap, each a series of calls to S3 and Postgres: an upload (user
row, file, count, insert), a change of the primary resume (a transaction that unsets what its
snapshot shows and then sets one row), A/B switches, deletions, and `Submit` with its choice among
the A/B resumes or the primary one. The triggers of migration 7 count applications, interviews and
offers when an application is inserted and when its outcome changes. `late`, `removed`
and `returned` are histories of what excuses a deviation.

`RateLimits`: time in hours; keys with a count and an hour they expire. `CheckAndIncrement` is the
Lua script of `RateLimiter` with the date in the user's zone, `Check` and `Increment` the two calls
of `ratelimit.Limiter`. A Redis error admits a submission that nothing counts.

`KeyCache`: requests look a key up, miss, and share one fetch (`singleflight`) that runs on the
context of the first; the pool publishes and retires keys meanwhile.

`Salaries`: a request reads the copy in Redis, else a row, and sets the copy. A title and location has
a row for each currency, and `LIMIT 1` without an order returns any of them. The rows are written
from outside (`WriteRow`): `RebuildBenchmarks`, which nothing calls, selects the bare column
`salary_currency` beside aggregates without `GROUP BY`, so PostgreSQL refuses its upsert for every
pair it finds and it changes no row; its test reads rows it inserts itself. `stored` has all versions
of the rows so that an answer can be dated.

## 3. Runs

| run | instance | what it shows |
|---|---|---|
| `pipeline_safety` | 1 application, 2 callers, 2 attempts, every fault but emergency stop; 292,210 states | `TypeOK`, `ContentReady`, `DuplicateNeedsRedelivery`, `AppliedReopenedOnlyByRedelivery`, `PromiseKept`, and the invariant `IInv` of the proofs |
| `pipeline_outcome` | 1 application, 2 callers, 4 attempts; services fail, the user may stop; 7,415 states | `SettledStatus`, `OneSessionAtATime`, and the liveness property `EventuallyDecided` |
| `auto_apply` | 1 engine, 3 matches, limit 2, batch 2, statements fail, restarts; 33,018 states | `TypeOK`, `AutoWithinLimit`, `AppliedHasApplication`, `OnlyDecidedMatchesSubmitted`, and the liveness property `ApprovedGetsSubmitted` |
| `discovery` | any board, 2 runs of 2 pages and 1, 2 ids, channel of 1, batches of 2, every fault; 239,734 states | `DiscoveryTypeOK`, `NothingLostQuietly`, `NewCountedOnce`, and the liveness properties `RunEnds` and `GoroutineEndsOrBlocks` |
| `matching` | 2 runs, 1 auto-approve service, 2 jobs, 3 profiles, 2 settings, 2 times of discovery, every fault, 2 moves of the user and discovery; 893,135 states up to the symmetry of the runs; deadlock checked | `MatchingTypeOK`, `DeadlocksNeedTies`, `RejectionStands`, `AutoApprovalWarranted`, `CandidatesStored`, `IllegalOnlyByRepetition` |
| `background` | 1 engine, 2 users, 2 weeks; 2 schedulers, 2 applications; 2 URLs; 2 embedders, 2 jobs; every fault; 46,072 states | `BackgroundTypeOK`, `DigestRepeatsNeedLoss`, `DigestReachesAll`, `RemindersBounded`, `DismissalFinal`, `WebhookGetsItsTries`, and the liveness properties `StaleGetsReminder` and `DescribedGetsEmbedded` |
| `account` | 2 resumes, 2 requests, 1 application; 2 zones, 2 limits, 2 days; 2 keys, 3 clients; 2 readers, 2 currencies, 3 rows written, 36 hours; every fault; 826,356 states | `AccountTypeOK`, `PrimaryKept`, `CountersTrue`, `ApplicationHasFile`, `LimitHeld`, `BenchmarkAnswers`, `KeyRefusedForCause` |
| `pipeline_nulls`, `pipeline_stop`, `pipeline_orphan`, `pipeline_deadline`, `auto_apply_starved` | one fault or none | counterexamples to what a document, comment or test says (section 5) |

`background` and `account` each hold four modules that share no state: the product of their state
spaces would say nothing that the parts do not. `focus` is chosen in the initial state; a behaviour
moves that module (of `RateLimits`, one of its two limiters) and leaves the others in their initial
states. Where two modules of a run state fairness, nothing that is fair is enabled in a resting one.

### Bounds

Named bounds in the guards: `MaxAttempts` (attempts of a job, as in River), `MaxWeek` and `MaxLost`
(`Digest`), `MaxUnmarked` (`FollowUp`), `MaxSends` (`Webhook`), `MaxMoves` (`Matching`: what discovery
and the user do), `MaxCount` (`Resumes`), `MaxHour` with `Stride` (`RateLimits`), `MaxRows`,
`LastHour` with `HourStride` (`Salaries`). `Buffer`, `BatchSize`, `MatchBatch`, `MaxJobsPerRun`,
`BulkLimit`, `EmbedLimit`, `DailyLimit` and the other limits of the code are parameters, given
small values so that they are reached.

Why they are enough. Applications share nothing but the job queue, whose capacity is not modelled,
so one is enough in `ApplyPipeline`. Two callers are the least that race at `UNIQUE`. Two attempts
are the least that redeliver a job of each stage and make Stage 1 insert Stage 2 twice;
`pipeline_outcome` has four, so that a stage fails in the middle of its retries and at their end. In
`AutoApply`, three matches and a batch of two let a match be left behind; limit and batch are equal
so that either bounds the other; the run has one engine, which has to keep to the limit by itself.
Two engines that read the same count exceed it together, as does a user who submits by hand
meanwhile. How far several engines can go is what `AutoWithinLimit` says of sets of them, and
`WithinDailyLimit` proves it for any number; with liveness two engines take TLC more than five
minutes, so they were only run for the invariants, with a limit of one and three matches (151,518
states): they exceed the limit by one, which is the bound there. In `Discovery`, two ids in two
orders are the least that make two transactions wait for each other, a page of two postings fills a
channel of one and, with a batch of two, is flushed at once or left for the last flush; two pages
are the least after which errors still come. In `Matching`, two jobs are the least that two runs can
insert in different orders, which they do when both have one time: the circle of `DeadlocksNeedTies`
is reached, and the two times let the query tell them apart as well. One of the profiles has a title
that repeats a word, with which the score of a posting is illegal. Two moves let the user change
settings and decide while both runs are on their way; liveness is not checked there, for TLC's
temporal check of that instance takes too long. `MCSpec` starts with no job, with both jobs of one
time or with the first newer than the second: the other starts differ from these in the names of the
times or are reached by discovery. In `Digest` two weeks show that a week starts anew; two
reminders, clients or readers are the least that meet; two days and zones of nine hours apart cross
midnight in either. In `Salaries` three rows let a row be replaced while that of another currency
stands, and 36 hours let a copy outlive its day, if a hit renewed it. `Resumes` was also run once
with three resumes and three requests (1,751,198 states). For the properties that are proved
(section 4) the size of the instance does not matter at all.

The properties that hold only without certain faults say so. `SettledStatus` needs the write in
`failApp` to succeed and no second Stage 2 job; `OneSessionAtATime` needs that nobody stops
waiting for an open session; `EventuallyDecided` needs what both need. The runs that leave these
faults out are not weaker by accident: with them the code does break the property, and
`pipeline_deadline` shows one such way.

### Fairness

`ApplyPipeline!Fairness` is weak fairness of each caller inside `Submit`, of each job (River fetches,
completes and retries it, its goroutine runs) and of each session (`http.Client` has a timeout of
180 s, so the pool's answer or its absence comes). No caller is obliged to submit and no fault
to happen. `AutoApply!Fairness` is weak fairness of each scheduler's next step and of midnight,
and strong fairness of the successful outcome of a count, a fetch and a submit, and of a refused
submit: a restart may disable a step again and again, and we assume that it and the database
do not interfere each time. The user owes nothing.

`DiscoveryFairness` is weak fairness of each goroutine of a run: page requests have timeouts,
and a ready select proceeds. It favours no case of the select and no success. `FollowUpFairness` is
weak fairness of the hourly tick and of the write after a mail, and strong fairness of a mail that
goes through: the mail service is not down for ever. `EmbeddingsFairness` is weak fairness of the
ticker and strong fairness of an answer of the AI service and of a stored vector.

## 4. Proofs

| theorem | module | statement |
|---|---|---|
| `Invariance`, `TypeCorrect` | `ApplyPipeline_proofs` | `Spec => []IInv`, `Spec => []TypeOK` |
| `ContentAlwaysReady` | | `Spec => []ContentReady` |
| `DuplicateOnlyByRedelivery` | | `Spec => []DuplicateNeedsRedelivery` |
| `AppliedStays` | | `Spec => AppliedReopenedOnlyByRedelivery` |
| `PipelineKeepsPromise` | `PipelinePromise_proofs` | `Spec => PromiseKept` |
| `PoolWorksOnce` | `ApplyPipeline_proofs` | `SteadyConnections` implies `Spec => []OneSessionAtATime` |
| `StatusTellsTheEnd` | | `SteadyStatements` implies `Spec => []SettledStatus` |
| `AutoTypes`, `WithinDailyLimit`, `AppliedIsBacked`, `OnlyDecidedSubmitted` | `AutoApply_proofs` | `TypeOK`, `AutoWithinLimit`, `AppliedHasApplication`, `OnlyDecidedMatchesSubmitted` |
| `PostingsAreAccountedFor`, `NewRowsAreCountedOnce`, `DiscoveryTypesHold` | `Discovery_proofs` | `NothingLostQuietly`, `NewCountedOnce`, `DiscoveryTypeOK` |
| `CirclesNeedTies`, `RejectionIsFinal`, `ApprovalHasConsent`, `NoCandidateLost` | `Matching_proofs` | `DeadlocksNeedTies`, `RejectionStands`, `AutoApprovalWarranted`, `CandidatesStored` |
| `MatchingTypesHold` | | `MatchingTypeOK` |
| `OnlyRepeatedWordsAreIllegal` | | `IllegalOnlyByRepetition` |
| `OneStaysPrimary`, `ResumeStays`, `CountersAreTrue` | `Resumes_proofs` | `PrimaryKept`, `ApplicationHasFile`, `CountersTrue` |
| `RepeatsNeedLoss`, `EveryoneReached` | `Background_proofs` | `DigestRepeatsNeedLoss`, `DigestReachesAll` |
| `RemindersAreBounded`, `DismissalIsFinal` | | `RemindersBounded`, `DismissalFinal` |
| `TriesMade` | | `WebhookGetsItsTries` |
| `BackgroundIsItsServices`, `BackgroundTypesHold` | | `MCSpec => DigestSpec /\ FollowUpSpec /\ WebhookSpec /\ EmbeddingsSpec`, `BackgroundTypeOK` |
| `RefusedForCause` | `Account_proofs` | `KeyRefusedForCause` |
| `LimitsAreHeld` | | `LimitHeld` |
| `AnswersAreFreshAndOrdered` | | `BenchmarkAnswers` |
| `AccountIsItsServices`, `AccountTypesHold` | | `MCSpec => ResumesSpec /\ LimitsSpec /\ KeyCacheSpec /\ SalariesSpec`, `AccountTypeOK` |

Each holds for every value of the constants that satisfies the assumption of its module:
`PipelineAssumption` (at least one attempt, faults among those named) and its like, which say that
sets are finite, limits are numbers and names do not clash. One is more: `ParsedPostings`
in `Discovery` says that what a scraper makes of a page is a sequence of postings. It follows from
the definition of `SelectSeq`, which is recursive and beyond the provers; TLC evaluates it
for the pages of the run.

Two theorems have a hypothesis of their own, because the code does not keep the property
without it. `SteadyConnections`: no process dies, no job's context ends early, no committed statement
looks failed and no worker loses its connection to an open session; services and statements may
fail, jobs be retried and the user stop. `SteadyStatements`: the same with statements that commit, and
connections that may drop. Neither can be weaker: with any one of the faults it excludes, TLC finds
the property violated (one application, one caller, two attempts). Both are satisfied by the instance
of a run.

The properties are not inductive, and the invariants that make them so say what is on its way.

**`IInv`** (`ApplyPipeline`). That no second form is filed without a redelivery depends on
which jobs of an application can exist together: `CallInv` (at most one `Submit` of an application
is past its INSERT, and no job exists until it is done), `ApplyInv` (a Stage 2 job is the only job,
or was inserted by an attempt of Stage 1 that does nothing more) and `PrepInv` (how far Stage
1 got tells what is stored and named). That an applied application stays applied depends on what
its other jobs are about to write: `ReopenInv`. `JobInv`, `SessionInv`, `RowInv` and `FiledInv` tie
jobs, attempts, sessions and rows together.

The proof that a step preserves `IInv` goes by the shape of steps, not action by action from
scratch: `ControlShape`, `WorkShape`, `WriteShape`, `PrepShape` and `SubmitShape` say what an
action of River, of a worker or of a caller may change at all, and `ControlKeeps`, `WorkKeeps`
and `SubmitKeeps` derive each conjunct from that. `Company` says what two jobs of one application
can be without a redelivery, `TwoSessions` that two sessions need one. The refinement maps
each action of `ApplyPipeline` to one action of `ApplicationPromise` or to a stutter, under the
substitution of the instance `Promise`.

When the workers are steady, three more conjuncts hold on top of `IInv`. `HandOver`: Stage 1 has
returned when, and only when, its Stage 2 job is there, and its last attempt inserted it; so two jobs
of an application are never at work together (`Pair`). `Attended`: every open session has its
attempt waiting for it. `Outcome`: an attempt that has failed, or succeeded, has written so, and
nobody else writes.

**`AutoInv`** (`AutoApply`). `SchedulerInv` says of a batch that it is not empty while it is worked
on, that somebody decided on each of its matches, and that the match about to be marked has an
application. The limit needs `EnginesInv` on top of it, because a quota comes from a count that is
stale when it is used: for every set of engines, the applications they have made today and those they
may still make stay below the limit and one batch for each engine but one. What they may still make is
`Claims`, a set with one pair for each application on its way, so that it is counted without a sum.
When an engine counts, its own claims and all applications of the day fit into the limit, and each of
the others has claimed a batch at most.

**`DiscoveryInv`**. `FlowInv` says where every posting is that was sent. That a run that is done has
left nothing on its way is decided at its last flush: `RunInv` says that a flush after which the run
is done found the scraper's goroutine ended and the channel empty. That a commit stores every id of
its batch needs the last posting with that id, hence a greatest index (`GreatestIndex`, from the
well-foundedness of the subsets of a finite set). `CountInv` says which run counts a row, in place
of a sum over the runs: the rows a transaction calls new are those it holds and the table does not
have, and no two transactions hold the same. `SizeInv` bounds what a channel, a batch and a
transaction hold. `FoundInv` says of a run none of whose batches has failed that its counts, its
batch and its channel together cover all it was sent, so that it answers at least as many when its
channel ends.

**`MatchingInv`**. `RunsInv` says of every run (`RunOK`) that its list and its batch follow the
order of the jobs (`Ordered`), that an approval in its batch has the user's consent (`Warranted`),
and that the rows behind it are in the table or in its transaction (`Kept`); `Apart`, that no two
transactions hold a row both. The query puts jobs in the order of their times, so a run that waits
waits for one that has gone on to another job, which is not newer. The run of a circle that has come
to the oldest job waits for one of the circle whose job is not older either: the two are of one
time. No other circle can be. `ReviewInv` says what a cycle may still do to a match that the user
has decided on. `GradeInv` follows the scores: what is in a batch is at least the minimum, and what
is stored is legal as well, since an illegal row is refused. That a score is illegal only for a
title that repeats a word is a fact about `Scorer`: every dimension but the title's is at most the
whole (`RangesBounded` and its like), that one is, too, when each word of the title is counted once
(by an injection, `OverlapBounded`), and the weights add up to the whole.

**`ResumesInv`**. `ChangeInv` says that a change of the primary resume that will find its resume
has every primary one in its snapshot, unless a late insert excuses it; `UploadInv`, that an upload
has its file and that nobody else inserts its row. `CounterInv` says of each column of a resume how many
applications it counts, and that an outcome an application has is among those it had.

**`DigestInv`**, **`ReminderInv`**, **`DeliveryInv`**. `MailInv` counts the mails a user had
together with the engines that may still send one, which each lost record raises by at most one.
`CountInv` counts reminders: until one is on record, each mail has a scheduler about to record it or
one that failed to; from then on only lists that were read before still hold the application.
`DeliveryInv` bounds what an attempt and its pause take of the thirty seconds.

**`CacheInv`**, **`LimitInv`**. `KeyInv` follows the key of a request through the shared fetch: in
the pool's set, in the answer the request waits for, in the map. `DailyInv` bounds from below the
hour at which the key of a date expires, so that a date never outlives its key while the user stays
in one time zone. **`SalaryInv`** bounds what is in the cache: it rests on enough samples, and the
copy of a version that was replaced expires a day after that, because whoever may still set it has
read it in the hour of its replacement.

`MCBackground` and `MCAccount` are the modules that TLC runs, four services each. That a
behaviour of such a composition is one of every service in it is a theorem, too (the other services
stutter), so that what is proved of a service holds in the runs and their type invariants
follow from those of the parts.

Every invariant and every action property of a passing run is a theorem. Only model-checked are
the liveness properties: `EventuallyDecided`, `ApprovedGetsSubmitted`, `RunEnds`,
`GoroutineEndsOrBlocks`, `StaleGetsReminder` and `DescribedGetsEmbedded` need fairness, hence
`ENABLED`, which the provers do not have.

## 5. Where code and documents disagree

1. `pipeline_nulls`: `GetByID` scans nullable text columns into Go strings
   (`application_repository.go:79`); the columns are NULL in a new row, so Stage 2 fails before it
   reaches the pool. The happy-path test of the worker expects `applied`.
2. `pipeline_stop`: emergency stop does not cancel queued jobs (`application_service.go:258`);
   `architecture_design.md:398` says that it does.
3. `pipeline_orphan`: `Submit` is not transactional (`application_service.go:104`);
   `docs/01_api_gateway.md:35` says that the workflow must be.
4. `pipeline_deadline`: after a job timeout the status stays `applying`
   (`browser_apply_worker.go:264`); `architecture_design.md:395` says `failed`.
5. `auto_apply_starved`: approved matches that already have an application stay at the head of
   the batch and may fill it (`match_repository.go:284`); `auto_apply_scheduler.go:26` says that the
   approved matches are picked up.

## 6. Plan

Done: the modules of section 2 with their runs, and the proofs of section 4. What is left, in the
order of its worth:

1. A composition of `AutoApply` and `ApplyPipeline` at `Submit`, in which the one-step `Submit` of
   `AutoApply` is shown to be implemented by the steps of `ApplyPipeline`, and of `Matching` and
   `AutoApply` at the matches, whose statuses both now have.
2. The columns an upsert of a job keeps (`apply_url`, `ats_type`, the embedding), together with the
   redirects that `enrichATSType` follows, and `Upsert` and `MarkInactiveExcept`, once something calls
   them.
3. An abstract specification of a periodic mail that `Digest` and `FollowUp` both implement, with the
   refinement proved for each.

## 7. Not modelled

ATS form tables, AI prompts, resume parsing, encryption and analytics are pure functions or
read-only queries over text and numbers; the models take their results as any result. So do they
with the building of search URLs, the normalizer of salary titles, and which text raises which
signal of the scam detector or holds which keyword. Mails other than digests and reminders and
the audit events are written and never read back. Board credentials, contact messages and the
development login are single statements. HTTP routing, the Python AI service, the frontend and
the deployment scripts hold no state of the system. River's backoff, priorities, worker counts and
poll interval appear only as the order of events; wall-clock time appears where a timeout or
an expiry is the point (`Webhook`, `RateLimits`, `Salaries`, the hour of `Digest`) and elsewhere
as the order of events. `PROJECT.json` lists each part with its status.
