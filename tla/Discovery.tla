------------------------------ MODULE Discovery ------------------------------
(***************************************************************************)
(* Discovery runs of one job board. A run is a scraper goroutine that      *)
(* fetches pages and feeds a channel of postings and a channel of errors,  *)
(* and a consumer that classifies the postings, collects them in batches   *)
(* and upserts each batch in one transaction (DiscoveryService.runScraper).*)
(*                                                                         *)
(* Runs of a board overlap: POST /discover in the service, and the Lambda  *)
(* every two hours. They share nothing but the rows of the jobs table,     *)
(* which a transaction locks one by one in the order of its batch.         *)
(* Runs of different boards write different rows and never meet.           *)
(***************************************************************************)
EXTENDS Scrapers, FiniteSets, FiniteSetsExt

CONSTANTS
  Boards,       \* the boards to look at
  Runs,         \* overlapping runs of the board
  Pages,        \* the result pages the board may answer with
  RequestPages, \* RequestPages[r]: max_pages of the request of run r
  Buffer,       \* capacity of jobsCh (50 in the code)
  BatchSize,    \* batchSize (20 in the code)
  RunFaults     \* page: a page fails;  ctx: the request's context ends;
                \* db: a statement fails;  ack: a commit goes through but reports an error

SignalNames == {"salary", "upfront", "nocompany", "title", "email", "url", "short", "buzz"}

ASSUME DiscoveryAssumption ==
  /\ Boards \subseteq AllBoards
  /\ IsFiniteSet(Ids) /\ IsFiniteSet(Runs)
  /\ Texts \subseteq Nat \ {0} /\ \A t \in Texts : Signals[t] \subseteq SignalNames
  /\ \A p \in Pages : p.cards \in Seq(Card) /\ p.listings \in Seq(Seq(Card))
  /\ RequestPages \in [Runs -> Nat] /\ Buffer \in Nat \ {0} /\ BatchSize \in Nat \ {0}
  /\ RunFaults \subseteq {"page", "ctx", "db", "ack"}

(* What a scraper makes of a page are postings: SelectSeq, of which Kept is *)
(* made, is recursive, and the provers know nothing of it.                  *)
ASSUME ParsedPostings == \A b \in Boards, p \in Pages : Parsed(b, p) \in Seq(Posting)

VARIABLES
  board,     \* the board of these runs
  jobs,      \* jobs table: the row of each id, or NoRow
  ctx,       \* ctx[r]: the context of run r is alive
  scraper,   \* scraper[r]: where its goroutine is, its page, and what it still has to send
  jobsCh,    \* jobsCh[r]: the postings in the channel
  errCh,     \* errCh[r]: the number of errors in the channel, whose capacity is one
  run,       \* run[r]: the consumer: where it is, its batch, its transaction, its counts,
             \* and the ids it counted as new (history)
  sent,      \* sent[r]: ids that were put into jobsCh (history)
  dropped    \* dropped[r]: ids of batches whose upsert reported an error (history)

discoveryVars == <<board, jobs, ctx, scraper, jobsCh, errCh, run, sent, dropped>>

-----------------------------------------------------------------------------
(* Detector.Classify in hundredths. A company that is missing cannot be     *)
(* compared with the URL.                                                   *)
Weight(s) ==
  CASE s = "upfront" -> 40 [] s = "salary" -> 30 [] s = "email" -> 25
    [] s \in {"nocompany", "title"} -> 20 [] s \in {"url", "short"} -> 15 [] s = "buzz" -> 10

Classify ==
  [t \in Texts |->
    LET seen == IF "nocompany" \in Signals[t] THEN Signals[t] \ {"url"} ELSE Signals[t]
        total == MapThenSumSet(Weight, seen)
    IN  [isScam |-> total >= 50, score |-> IF total > 100 THEN 100 ELSE total]]

NoRow == [text |-> 0, isScam |-> FALSE, score |-> 0]
Row(t) == [text |-> t, isScam |-> Classify[t].isScam, score |-> Classify[t].score]
Stored == {i \in Ids : jobs[i] # NoRow}

IdsOf(s) == {s[k].id : k \in DOMAIN s}

DiscoveryInit ==
  /\ board \in Boards
  /\ jobs = [i \in Ids |-> NoRow]
  /\ ctx = [r \in Runs |-> TRUE]
  /\ scraper = [r \in Runs |-> [at |-> "closed", page |-> 1, out |-> <<>>]]
  /\ jobsCh = [r \in Runs |-> <<>>]
  /\ errCh = [r \in Runs |-> 0]
  /\ run = [r \in Runs |-> [at |-> "idle", then |-> "select", batch |-> <<>>, row |-> 0,
                            fresh |-> {}, new |-> 0, dupe |-> 0, counted |-> {}]]
  /\ sent = [r \in Runs |-> {}]
  /\ dropped = [r \in Runs |-> {}]

-----------------------------------------------------------------------------
(* The scraper's goroutine: Search of each board.                           *)
PageLimit(r) == IF board = "linkedin" THEN LinkedInPages(RequestPages[r])
                                      ELSE Pages5(RequestPages[r])

GotoScraper(r, at, page, out) ==
  scraper' = [scraper EXCEPT ![r] = [at |-> at, page |-> page, out |-> out]]

(* A request to POST /discover, or the Lambda's timer: RunAll starts the    *)
(* goroutine of each board with its consumer.                               *)
Discover(r) ==
  /\ run[r].at = "idle"
  /\ run' = [run EXCEPT ![r].at = "select"]
  /\ GotoScraper(r, "fetch", 1, <<>>)
  /\ UNCHANGED <<board, jobs, ctx, jobsCh, errCh, sent, dropped>>

(* The goroutine returns: both channels are closed.                         *)
Return(r) ==
  /\ scraper[r].at = "fetch"
  /\ scraper[r].page > PageLimit(r) \/ ~ctx[r]
  /\ GotoScraper(r, "closed", scraper[r].page, <<>>)
  /\ UNCHANGED <<board, jobs, ctx, jobsCh, errCh, run, sent, dropped>>

ReadPage(r) ==
  /\ scraper[r].at = "fetch" /\ scraper[r].page <= PageLimit(r) /\ ctx[r]
  /\ \E page \in Pages :
       LET postings == Parsed(board, page)
       IN  GotoScraper(r, IF postings = <<>> THEN "closed" ELSE "send",
                       scraper[r].page, postings)
  /\ UNCHANGED <<board, jobs, ctx, jobsCh, errCh, run, sent, dropped>>

(* What Search does about an error. Indeed and ZipRecruiter go on with the  *)
(* next page once there is room for the error, even if the context has      *)
(* ended meanwhile.                                                         *)
NextPage(r) == GotoScraper(r, "fetch", scraper[r].page + 1, <<>>)
ThenSend(r, at) == GotoScraper(r, at, scraper[r].page, <<>>) /\ UNCHANGED errCh

IndeedSearch(r, blocked) ==
  board = "indeed" /\ ThenSend(r, "error")

ZipRecruiterSearch(r, blocked) ==
  board = "ziprecruiter" /\ ThenSend(r, "error")

(* LinkedIn gives up when it is blocked.                                    *)
LinkedInSearch(r, blocked) ==
  board = "linkedin" /\ ThenSend(r, IF blocked THEN "fatal" ELSE "error")

(* So does Glassdoor, which also looks at the context, and drops an error   *)
(* for which the channel has no room.                                       *)
GlassdoorSearch(r, blocked) ==
  /\ board = "glassdoor"
  /\ \/ blocked /\ ThenSend(r, "fatal")
     \/ ~blocked /\ ~ctx[r] /\ ThenSend(r, "closed")
     \/ ~blocked /\ ctx[r] /\ NextPage(r) /\ errCh' = [errCh EXCEPT ![r] = 1]

(* scrapePage gives no page: the board answers badly or not at all, or the  *)
(* context ends while it waits.                                             *)
PageFails(r) ==
  /\ scraper[r].at = "fetch" /\ scraper[r].page <= PageLimit(r)
  /\ \E answer \in IF ctx[r] THEN {a \in Answers : "page" \in RunFaults} ELSE {0} :
       \E blocked \in Blocked(board, answer) :
         \/ IndeedSearch(r, blocked) \/ ZipRecruiterSearch(r, blocked)
         \/ LinkedInSearch(r, blocked) \/ GlassdoorSearch(r, blocked)
  /\ UNCHANGED <<board, jobs, ctx, jobsCh, run, sent, dropped>>

(* errCh <- err, which blocks while an error is in the buffer.              *)
SendError(r) ==
  /\ scraper[r].at \in {"error", "fatal"} /\ errCh[r] = 0
  /\ errCh' = [errCh EXCEPT ![r] = 1]
  /\ IF scraper[r].at = "fatal" THEN GotoScraper(r, "closed", scraper[r].page, <<>>)
                                ELSE NextPage(r)
  /\ UNCHANGED <<board, jobs, ctx, jobsCh, run, sent, dropped>>

SendJob(r) ==
  /\ scraper[r].at = "send" /\ Len(jobsCh[r]) < Buffer
  /\ LET job == Head(scraper[r].out) rest == Tail(scraper[r].out)
     IN  /\ jobsCh' = [jobsCh EXCEPT ![r] = Append(@, job)]
         /\ sent' = [sent EXCEPT ![r] = @ \cup {job.id}]
         /\ IF rest = <<>> THEN NextPage(r)
                           ELSE GotoScraper(r, "send", scraper[r].page, rest)
  /\ UNCHANGED <<board, jobs, ctx, errCh, run, dropped>>

(* Mutant: a send that does not watch the context.                          *)
StopSendingNever(r) == FALSE /\ UNCHANGED discoveryVars

(* ctx.Done in the select of a send or of the pause between two pages.      *)
StopSending(r) ==
  /\ scraper[r].at = "send" /\ ~ctx[r]
  /\ GotoScraper(r, "closed", scraper[r].page, <<>>)
  /\ UNCHANGED <<board, jobs, ctx, jobsCh, errCh, run, sent, dropped>>

Scrape(r) ==
  Return(r) \/ ReadPage(r) \/ PageFails(r) \/ SendError(r) \/ SendJob(r) \/ StopSending(r)

-----------------------------------------------------------------------------
(* The consumer: the select loop of runScraper. A closed errCh is always    *)
(* ready and gives nothing: that turn of the loop is a stuttering step.     *)
Finished == {"done", "cancelled"}

FlushThen(r, batch, then) ==
  run' = [run EXCEPT ![r].at = IF batch = <<>> THEN then ELSE "flush",
                     ![r].then = then, ![r].batch = batch]

ReceiveJob(r) ==
  /\ run[r].at = "select" /\ jobsCh[r] # <<>>
  /\ LET batch == Append(run[r].batch, Head(jobsCh[r]))
     IN  IF Len(batch) >= BatchSize THEN FlushThen(r, batch, "select")
                                    ELSE run' = [run EXCEPT ![r].batch = batch]
  /\ jobsCh' = [jobsCh EXCEPT ![r] = Tail(@)]
  /\ UNCHANGED <<board, jobs, ctx, scraper, errCh, sent, dropped>>

(* Mutant: the loop stops listening to errors after the first page.         *)
ReceiveErrorOnce(r) ==
  /\ run[r].at = "select" /\ errCh[r] = 1 /\ scraper[r].page = 1
  /\ errCh' = [errCh EXCEPT ![r] = 0]
  /\ UNCHANGED <<board, jobs, ctx, scraper, jobsCh, run, sent, dropped>>

ReceiveError(r) ==
  /\ run[r].at = "select" /\ errCh[r] = 1
  /\ errCh' = [errCh EXCEPT ![r] = 0]
  /\ UNCHANGED <<board, jobs, ctx, scraper, jobsCh, run, sent, dropped>>

(* Mutant: the end of the channel is taken for the end of the run.          *)
ReceiveClosedUnflushed(r) ==
  /\ run[r].at = "select" /\ jobsCh[r] = <<>> /\ scraper[r].at = "closed"
  /\ run' = [run EXCEPT ![r].at = "done", ![r].batch = <<>>]
  /\ UNCHANGED <<board, jobs, ctx, scraper, jobsCh, errCh, sent, dropped>>

ReceiveClosed(r) ==
  /\ run[r].at = "select" /\ jobsCh[r] = <<>> /\ scraper[r].at = "closed"
  /\ FlushThen(r, run[r].batch, "done")
  /\ UNCHANGED <<board, jobs, ctx, scraper, jobsCh, errCh, sent, dropped>>

Cancelled(r) ==
  /\ run[r].at = "select" /\ ~ctx[r]
  /\ FlushThen(r, run[r].batch, "cancelled")
  /\ UNCHANGED <<board, jobs, ctx, scraper, jobsCh, errCh, sent, dropped>>

(* BulkUpsert: a transaction that holds the rows it has written.            *)
Holds(r, i) == run[r].at = "flush" /\ i \in IdsOf(SubSeq(run[r].batch, 1, run[r].row))
NextId(r) == run[r].batch[run[r].row + 1].id
AtRow(r) == run[r].at = "flush" /\ run[r].row < Len(run[r].batch)
WaitsFor(r, o) == AtRow(r) /\ r # o /\ Holds(o, NextId(r))

(* Mutant: newness is looked up before the row is locked.                   *)
UpsertRowUnlocked(r) ==
  /\ AtRow(r) /\ ctx[r]
  /\ run' = [run EXCEPT ![r].row = @ + 1,
       ![r].fresh = IF NextId(r) \in Stored THEN @ ELSE @ \cup {NextId(r)}]
  /\ UNCHANGED <<board, jobs, ctx, scraper, jobsCh, errCh, sent, dropped>>

UpsertRow(r) ==
  /\ AtRow(r) /\ ctx[r] /\ ~ \E o \in Runs : WaitsFor(r, o)
  /\ run' = [run EXCEPT ![r].row = @ + 1,
       ![r].fresh = IF NextId(r) \in Stored THEN @ ELSE @ \cup {NextId(r)}]
  /\ UNCHANGED <<board, jobs, ctx, scraper, jobsCh, errCh, sent, dropped>>

(* Mutant: the batch is kept for the next flush.                            *)
FlushedKeepingBatch(r, fresh, dupes) ==
  run' = [run EXCEPT ![r].at = run[r].then, ![r].row = 0, ![r].fresh = {},
                     ![r].new = @ + Cardinality(fresh), ![r].dupe = @ + dupes,
                     ![r].counted = @ \cup fresh]

(* The batch is emptied whatever became of it.                              *)
Flushed(r, fresh, dupes) ==
  run' = [run EXCEPT ![r] =
    [at |-> @.then, then |-> @.then, batch |-> <<>>, row |-> 0, fresh |-> {},
     new |-> @.new + Cardinality(fresh), dupe |-> @.dupe + dupes,
     counted |-> @.counted \cup fresh]]

(* What the run answers: only the end of the channel sets it, so a run that *)
(* was cancelled has found nothing, whatever it has stored.                 *)
JobsFound(r) == IF run[r].at = "done" THEN run[r].new + run[r].dupe ELSE 0

LastText(batch, i) == batch[Max({k \in DOMAIN batch : batch[k].id = i})].text

Commit(r) ==
  /\ run[r].at = "flush" /\ run[r].row = Len(run[r].batch)
  /\ jobs' = [i \in Ids |-> IF i \in IdsOf(run[r].batch) THEN Row(LastText(run[r].batch, i))
                                                         ELSE jobs[i]]
  /\ \/ /\ ctx[r]
        /\ Flushed(r, run[r].fresh, Len(run[r].batch) - Cardinality(run[r].fresh))
        /\ UNCHANGED dropped
     \/ /\ "ack" \in RunFaults
        /\ Flushed(r, {}, 0)
        /\ dropped' = [dropped EXCEPT ![r] = @ \cup IdsOf(run[r].batch)]
  /\ UNCHANGED <<board, ctx, scraper, jobsCh, errCh, sent>>

(* A statement fails: the context has ended, the database refuses, or two   *)
(* transactions wait for each other's rows and PostgreSQL aborts one.       *)
Rollback(r) ==
  /\ run[r].at = "flush"
  /\ \/ ~ctx[r] \/ "db" \in RunFaults
     \/ \E o \in Runs : WaitsFor(r, o) /\ WaitsFor(o, r)
  /\ Flushed(r, {}, 0)
  /\ dropped' = [dropped EXCEPT ![r] = @ \cup IdsOf(run[r].batch)]
  /\ UNCHANGED <<board, jobs, ctx, scraper, jobsCh, errCh, sent>>

Consume(r) ==
  \/ ReceiveJob(r) \/ ReceiveError(r) \/ ReceiveClosed(r) \/ Cancelled(r)
  \/ UpsertRow(r) \/ Commit(r) \/ Rollback(r)

(* The timeout of a minute, the client going away, the end of the Lambda.   *)
ContextEnds(r) ==
  /\ "ctx" \in RunFaults /\ ctx[r] /\ run[r].at \notin {"idle"} \cup Finished
  /\ ctx' = [ctx EXCEPT ![r] = FALSE]
  /\ UNCHANGED <<board, jobs, scraper, jobsCh, errCh, run, sent, dropped>>

DiscoveryNext == \E r \in Runs : Discover(r) \/ Scrape(r) \/ Consume(r) \/ ContextEnds(r)

(* Page requests have timeouts, so the goroutine goes on, and so does the   *)
(* consumer: select picks at random among the cases that are ready.         *)
DiscoveryFairness ==
  \A r \in Runs : WF_discoveryVars(Scrape(r)) /\ WF_discoveryVars(Consume(r))

DiscoverySpec == DiscoveryInit /\ [][DiscoveryNext]_discoveryVars /\ DiscoveryFairness

-----------------------------------------------------------------------------
(* Types. A run that holds rows holds them for a batch that is full or the  *)
(* last one, and never holds more rows than the batch has.                  *)
DiscoveryTypeOK ==
  /\ board \in Boards
  /\ jobs \in [Ids -> {NoRow} \cup {Row(t) : t \in Texts}]
  /\ ctx \in [Runs -> BOOLEAN] /\ errCh \in [Runs -> {0, 1}]
  /\ sent \in [Runs -> SUBSET Ids] /\ dropped \in [Runs -> SUBSET Ids]
  /\ \A r \in Runs :
       /\ scraper[r].at \in {"fetch", "send", "error", "fatal", "closed"}
       /\ scraper[r].page \in 1..(PageLimit(r) + 1) /\ scraper[r].out \in Seq(Posting)
       /\ (scraper[r].at = "send") <=> (scraper[r].out # <<>>)
       /\ jobsCh[r] \in Seq(Posting) /\ Len(jobsCh[r]) <= Buffer
       /\ run[r].at \in {"idle", "select", "flush"} \cup Finished
       /\ run[r].batch \in Seq(Posting) /\ run[r].row \in 0..Len(run[r].batch)
       /\ run[r].at = "select" => Len(run[r].batch) < BatchSize
       /\ run[r].at = "flush" => Len(run[r].batch) \in 1..BatchSize
       /\ run[r].fresh \subseteq IdsOf(run[r].batch) /\ run[r].new \in Nat /\ run[r].dupe \in Nat

(* Nothing is lost without a trace: what the scraper found is in the        *)
(* channel, in the batch, in the table, or in a batch whose upsert was      *)
(* reported to fail; and a run that was not cancelled leaves nothing in the *)
(* first two, although its batch is filled by a goroutine that may close    *)
(* the channel at any moment.                                               *)
NothingLostQuietly ==
  \A r \in Runs :
    /\ sent[r] \subseteq
         Stored \cup dropped[r] \cup IdsOf(jobsCh[r]) \cup IdsOf(run[r].batch)
    /\ run[r].at = "done" => sent[r] \subseteq Stored \cup dropped[r]
    /\ run[r].at \in Finished => run[r].batch = <<>>

(* JobsNew (xmax = 0) of all the runs together counts each new row once:    *)
(* a run's count is that of the rows it called new, they are in the table,  *)
(* two overlapping runs that find the same posting do not both call it new, *)
(* and only a row of a batch that was reported to fail goes uncounted. With *)
(* JobsDupe it accounts for all that was scraped: a run that is done and    *)
(* whose batches all succeeded has found no less than it was sent.          *)
NewCountedOnce ==
  /\ \A r \in Runs : run[r].new = Cardinality(run[r].counted) /\ run[r].counted \subseteq Stored
  /\ \A r, o \in Runs : r # o => run[r].counted \cap run[o].counted = {}
  /\ Stored \subseteq UNION {run[r].counted \cup dropped[r] : r \in Runs}
  /\ \A r \in Runs : run[r].at = "done" /\ dropped[r] = {} => Cardinality(sent[r]) <= JobsFound(r)

(* The request is answered: however pages fail, whichever channel is full,  *)
(* and although transactions may wait for each other, a run that starts     *)
(* ends.                                                                    *)
RunEnds == \A r \in Runs : run[r].at = "select" ~> run[r].at \in Finished

(* The goroutine of a run ends too, unless it is blocked on an error that   *)
(* nobody reads any more: a leak that takes a cancelled run and an error    *)
(* already in the buffer.                                                   *)
GoroutineEndsOrBlocks ==
  \A r \in Runs :
    <>[](\/ scraper[r].at = "closed"
         \/ scraper[r].at \in {"error", "fatal"} /\ errCh[r] = 1 /\ run[r].at = "cancelled")
=============================================================================
