-------------------------- MODULE Discovery_proofs --------------------------
(***************************************************************************)
(* Proofs about Discovery, for any board, pages, overlapping runs, sizes   *)
(* of the channel and of the batch, and faults.                            *)
(*                                                                         *)
(* That a run that is done has lost nothing depends on its last flush: the *)
(* consumer must have found the channel empty before, and nothing may have *)
(* been put into it since. RunInv says so of the flush already.            *)
(* CountInv says which run counts a row as new: the one whose transaction  *)
(* holds the row while the table does not have it. SizeInv bounds what is  *)
(* on its way. FoundInv follows the postings: what a run has counted, holds*)
(* in its batch and has in its channel is no less than what was sent, so   *)
(* that its answer, which is made only at the end, is not less either.     *)
(***************************************************************************)
EXTENDS Discovery, FiniteSetTheorems, SequenceTheorems, WellFoundedInduction, TLAPS

ScraperState == [at : {"fetch", "send", "error", "fatal", "closed"}, page : Nat, out : Seq(Posting)]

RunState ==
  [at : {"idle", "select", "flush", "done", "cancelled"},
   then : {"select", "done", "cancelled"},
   batch : Seq(Posting), row : Nat, fresh : SUBSET Ids, new : Nat, dupe : Int,
   counted : SUBSET Ids]

DiscoveryTypes ==
  /\ board \in Boards
  /\ scraper \in [Runs -> ScraperState] /\ jobsCh \in [Runs -> Seq(Posting)]
  /\ run \in [Runs -> RunState]
  /\ sent \in [Runs -> SUBSET Ids] /\ dropped \in [Runs -> SUBSET Ids]

(* The last flush of a run, and its end.                                    *)
Ending(r) == run[r].at = "done" \/ (run[r].at = "flush" /\ run[r].then = "done")

RunInv ==
  \A r \in Runs :
    /\ scraper[r].at = "send" => scraper[r].out # <<>>
    /\ run[r].at \in Finished => run[r].batch = <<>>
    /\ Ending(r) => scraper[r].at = "closed" /\ jobsCh[r] = <<>>

(* Where everything is that the scraper has sent.                           *)
FlowInv ==
  \A r \in Runs : sent[r] \subseteq Stored \cup dropped[r] \cup IdsOf(jobsCh[r]) \cup IdsOf(run[r].batch)

DiscoveryInv == DiscoveryTypes /\ RunInv /\ FlowInv

-----------------------------------------------------------------------------
(* The ids of a sequence of postings.                                       *)
LEMMA IdsOfSequences ==
  ASSUME NEW s \in Seq(Posting)
  PROVE  /\ IdsOf(s) \subseteq Ids /\ IdsOf(<<>>) = {}
         /\ \A x \in Posting :
              Append(s, x) \in Seq(Posting) /\ Append(s, x) # <<>> /\ IdsOf(Append(s, x)) = IdsOf(s) \cup {x.id}
         /\ s # <<>> => /\ Head(s) \in Posting /\ Tail(s) \in Seq(Posting)
                        /\ IdsOf(s) = {Head(s).id} \cup IdsOf(Tail(s))
<1>1. Len(s) \in Nat /\ DOMAIN s = 1..Len(s) /\ \A k \in DOMAIN s : s[k] \in Posting
  OBVIOUS
<1>2. \A x \in Posting : x.id \in Ids
  BY DEF Posting
<1>3. IdsOf(s) \subseteq Ids /\ IdsOf(<<>>) = {}
  BY <1>1, <1>2 DEF IdsOf
<1>4. ASSUME NEW x \in Posting
      PROVE  Append(s, x) \in Seq(Posting) /\ Append(s, x) # <<>> /\ IdsOf(Append(s, x)) = IdsOf(s) \cup {x.id}
  <2> DEFINE t == Append(s, x)
  <2>1. /\ t \in Seq(Posting) /\ t # <<>> /\ Len(t) = Len(s) + 1
        /\ \A k \in 1..Len(s) : t[k] = s[k]
        /\ t[Len(s) + 1] = x
    BY AppendProperties
  <2>2. DOMAIN t = 1..(Len(s) + 1)
    BY <2>1, <1>1, LenProperties
  <2> HIDE DEF t
  <2>3. 1..(Len(s) + 1) = (1..Len(s)) \cup {Len(s) + 1}
    BY <1>1
  <2>4. IdsOf(t) = {t[k].id : k \in (1..Len(s)) \cup {Len(s) + 1}}
    BY <2>2, <2>3 DEF IdsOf
  <2>5. IdsOf(t) = IdsOf(s) \cup {x.id}
    BY <2>4, <2>1, <1>1 DEF IdsOf
  <2> QED BY <2>1, <2>5 DEF t
<1>5. ASSUME s # <<>>
      PROVE  /\ Head(s) \in Posting /\ Tail(s) \in Seq(Posting)
             /\ IdsOf(s) = {Head(s).id} \cup IdsOf(Tail(s))
  <2> DEFINE t == Tail(s)
  <2>1. /\ t \in Seq(Posting) /\ Len(t) = Len(s) - 1
        /\ \A k \in 1..Len(t) : t[k] = s[k + 1]
    BY <1>5, HeadTailProperties
  <2>2. Len(s) >= 1 /\ Head(s) = s[1] /\ Head(s) \in Posting
    BY <1>1, <1>5, EmptySeq, HeadTailProperties
  <2>3. DOMAIN t = 1..(Len(s) - 1)
    BY <2>1, LenProperties
  <2> HIDE DEF t
  <2>4. \A k \in 1..Len(s) : k = 1 \/ k - 1 \in 1..(Len(s) - 1)
    BY <1>1
  <2>5. \A k \in 1..(Len(s) - 1) : k + 1 \in 1..Len(s)
    BY <1>1
  <2>6. IdsOf(s) \subseteq {s[1].id} \cup IdsOf(t)
    <3> SUFFICES ASSUME NEW k \in 1..Len(s), k # 1 PROVE s[k].id \in IdsOf(t)
      BY <1>1 DEF IdsOf
    <3>1. k - 1 \in DOMAIN t /\ t[k - 1] = s[k]
      BY <2>1, <2>3, <2>4, <1>1
    <3> QED BY <3>1 DEF IdsOf
  <2>7. {s[1].id} \cup IdsOf(t) \subseteq IdsOf(s)
    <3>1. 1 \in DOMAIN s
      BY <1>1, <2>2
    <3>2. ASSUME NEW k \in DOMAIN t PROVE t[k].id \in IdsOf(s)
      <4>1. k + 1 \in DOMAIN s /\ t[k] = s[k + 1]
        BY <2>1, <2>3, <2>5, <1>1
      <4> QED BY <4>1 DEF IdsOf
    <3> QED BY <3>1, <3>2 DEF IdsOf
  <2> QED BY <2>1, <2>2, <2>6, <2>7 DEF t
<1> QED BY <1>3, <1>4, <1>5

(* A set of indices of a sequence that is not empty has a greatest one: the *)
(* sets of those above each are ordered, and one is the least.              *)
LEMMA GreatestIndex ==
  ASSUME NEW n \in Nat, NEW K \in SUBSET (1..n), K # {}
  PROVE  Max(K) \in K
<1> DEFINE Above(k) == {m \in K : m > k}
           T == {Above(k) : k \in K}
<1>1. IsFiniteSet(1..n)
  BY FS_Interval
<1>2. IsFiniteSet(K)
  BY <1>1, FS_Subset
<1>3. IsWellFoundedOn(StrictSubsetOrdering(K), SUBSET K)
  BY <1>2, FS_FiniteSubsetsOfFinite, FS_StrictSubsetOrderingWellFounded
<1>4. T \subseteq SUBSET K /\ T # {}
  OBVIOUS
<1>5. PICK U \in T : \A V \in T : ~ (<<V, U>> \in StrictSubsetOrdering(K))
  BY <1>3, <1>4, WFMin
<1>6. PICK k \in K : U = Above(k)
  OBVIOUS
<1>7. \A m \in K : k >= m
  <2> SUFFICES ASSUME NEW m \in K, m > k PROVE FALSE
    OBVIOUS
  <2>1. m \in Above(k) /\ m \notin Above(m)
    OBVIOUS
  <2>2. Above(m) \subseteq Above(k)
    <3>1. \A j \in K : j \in Nat
      OBVIOUS
    <3>2. \A j \in K : j > m => j > k
      BY <3>1
    <3> QED BY <3>2
  <2>3. Above(m) \in T /\ Above(m) \in SUBSET K /\ U \in SUBSET K
    BY <1>4
  <2>4. <<Above(m), U>> \in StrictSubsetOrdering(K)
    BY <2>1, <2>2, <2>3, <1>6 DEF StrictSubsetOrdering
  <2> QED BY <2>3, <2>4, <1>5
<1> QED BY <1>7 DEF Max

(* The last posting of a batch with an id is one of its postings.           *)
LEMMA LastTextIsText ==
  ASSUME NEW batch \in Seq(Posting), NEW i \in IdsOf(batch)
  PROVE  LastText(batch, i) \in Texts
<1> DEFINE K == {k \in DOMAIN batch : batch[k].id = i}
<1>1. DOMAIN batch = 1..Len(batch) /\ Len(batch) \in Nat
  OBVIOUS
<1>2. K # {} /\ K \in SUBSET (1..Len(batch))
  BY <1>1 DEF IdsOf
<1>3. Max(K) \in K
  BY <1>1, <1>2, GreatestIndex
<1>4. batch[Max(K)] \in Posting
  BY <1>3, <1>1
<1> QED BY <1>4 DEF LastText, Posting

(* What a commit leaves: the rows of the batch, and those that were there.  *)
LEMMA CommitStores ==
  ASSUME NEW batch \in Seq(Posting),
         jobs' = [i \in Ids |-> IF i \in IdsOf(batch) THEN Row(LastText(batch, i)) ELSE jobs[i]]
  PROVE  IdsOf(batch) \subseteq Stored' /\ Stored \subseteq Stored'
<1>1. IdsOf(batch) \subseteq Ids
  BY IdsOfSequences
<1>2. ASSUME NEW i \in IdsOf(batch) PROVE Row(LastText(batch, i)) # NoRow
  <2>1. LastText(batch, i) # 0
    BY LastTextIsText, DiscoveryAssumption
  <2> QED BY <2>1 DEF Row, NoRow
<1>3. \A i \in Ids : jobs'[i] = IF i \in IdsOf(batch) THEN Row(LastText(batch, i)) ELSE jobs[i]
  OBVIOUS
<1> QED BY <1>1, <1>2, <1>3 DEF Stored

-----------------------------------------------------------------------------
(* A step of the scraper that sends nothing: the run has not ended, and     *)
(* only the goroutine moves.                                                *)
LEMMA ScraperMoves ==
  ASSUME DiscoveryInv, NEW r \in Runs, scraper[r].at # "closed",
         NEW at \in {"fetch", "send", "error", "fatal", "closed"}, NEW page \in Nat,
         NEW out \in Seq(Posting), at = "send" => out # <<>>,
         GotoScraper(r, at, page, out),
         UNCHANGED <<board, jobs, jobsCh, run, sent, dropped>>
  PROVE  DiscoveryInv'
<1>1. scraper' = [scraper EXCEPT ![r] = [at |-> at, page |-> page, out |-> out]]
  BY DEF GotoScraper
<1>2. DiscoveryTypes'
  BY <1>1 DEF DiscoveryInv, DiscoveryTypes, ScraperState
<1>3. \A o \in Runs : scraper'[o] = IF o = r THEN [at |-> at, page |-> page, out |-> out] ELSE scraper[o]
  BY <1>1 DEF DiscoveryInv, DiscoveryTypes
<1>4. RunInv'
  BY <1>3 DEF DiscoveryInv, RunInv, Ending
<1>5. FlowInv'
  BY DEF DiscoveryInv, FlowInv, Stored
<1> QED BY <1>2, <1>4, <1>5 DEF DiscoveryInv

(* A step of the consumer that takes nothing out of the channel.            *)
LEMMA ConsumerMoves ==
  ASSUME DiscoveryInv, NEW r \in Runs, NEW s \in RunState,
         run' = [run EXCEPT ![r] = s],
         UNCHANGED <<board, scraper, jobsCh, sent>>, Stored \subseteq Stored',
         dropped' \in [Runs -> SUBSET Ids], \A o \in Runs : dropped[o] \subseteq dropped'[o],
         s.at \in Finished => s.batch = <<>>,
         s.at = "done" \/ (s.at = "flush" /\ s.then = "done")
           => scraper[r].at = "closed" /\ jobsCh[r] = <<>>,
         IdsOf(run[r].batch) \subseteq Stored' \cup dropped'[r] \cup IdsOf(s.batch)
  PROVE  DiscoveryInv'
<1>1. DiscoveryTypes'
  BY DEF DiscoveryInv, DiscoveryTypes
<1>2. \A o \in Runs : run'[o] = IF o = r THEN s ELSE run[o]
  BY DEF DiscoveryInv, DiscoveryTypes
<1>3. RunInv'
  BY <1>2 DEF DiscoveryInv, RunInv, Ending
<1>4. FlowInv'
  BY <1>2 DEF DiscoveryInv, FlowInv
<1> QED BY <1>1, <1>3, <1>4 DEF DiscoveryInv

-----------------------------------------------------------------------------
(* The scraper's goroutine.                                                 *)
LEMMA ReturnKeeps == ASSUME DiscoveryInv, NEW r \in Runs, Return(r) PROVE DiscoveryInv'
<1>1. scraper[r].at # "closed" /\ scraper[r].page \in Nat
  BY DEF Return, DiscoveryInv, DiscoveryTypes, ScraperState
<1>2. GotoScraper(r, "closed", scraper[r].page, <<>>) /\ UNCHANGED <<board, jobs, jobsCh, run, sent, dropped>>
  BY DEF Return
<1>3. <<>> \in Seq(Posting)
  OBVIOUS
<1> QED BY <1>1, <1>2, <1>3, ScraperMoves

LEMMA ReadPageKeeps == ASSUME DiscoveryInv, NEW r \in Runs, ReadPage(r) PROVE DiscoveryInv'
<1>1. scraper[r].at # "closed" /\ scraper[r].page \in Nat
  BY DEF ReadPage, DiscoveryInv, DiscoveryTypes, ScraperState
<1>2. PICK page \in Pages :
        GotoScraper(r, IF Parsed(board, page) = <<>> THEN "closed" ELSE "send",
                    scraper[r].page, Parsed(board, page))
  BY DEF ReadPage
<1>3. Parsed(board, page) \in Seq(Posting)
  BY ParsedPostings DEF DiscoveryInv, DiscoveryTypes
<1>4. UNCHANGED <<board, jobs, jobsCh, run, sent, dropped>>
  BY DEF ReadPage
<1> DEFINE out == Parsed(board, page)  at == IF out = <<>> THEN "closed" ELSE "send"
<1>5. at \in {"fetch", "send", "error", "fatal", "closed"} /\ (at = "send" => out # <<>>)
  OBVIOUS
<1>6. GotoScraper(r, at, scraper[r].page, out)
  BY <1>2
<1> HIDE DEF out, at
<1> QED BY <1>1, <1>3, <1>4, <1>5, <1>6, ScraperMoves DEF out

LEMMA PageFailsKeeps == ASSUME DiscoveryInv, NEW r \in Runs, PageFails(r) PROVE DiscoveryInv'
<1>1. scraper[r].at # "closed" /\ scraper[r].page \in Nat /\ scraper[r].page + 1 \in Nat
  BY DEF PageFails, DiscoveryInv, DiscoveryTypes, ScraperState
<1>2. UNCHANGED <<board, jobs, jobsCh, run, sent, dropped>>
  BY DEF PageFails
<1>3. \/ \E at \in {"error", "fatal", "closed"} : GotoScraper(r, at, scraper[r].page, <<>>)
      \/ GotoScraper(r, "fetch", scraper[r].page + 1, <<>>)
  BY DEF PageFails, IndeedSearch, ZipRecruiterSearch, LinkedInSearch, GlassdoorSearch, ThenSend, NextPage
<1>4. <<>> \in Seq(Posting)
  OBVIOUS
<1>5. ASSUME NEW at \in {"error", "fatal", "closed"}, GotoScraper(r, at, scraper[r].page, <<>>)
      PROVE  DiscoveryInv'
  <2>1. at \in {"fetch", "send", "error", "fatal", "closed"} /\ at # "send"
    OBVIOUS
  <2> QED BY <2>1, <1>1, <1>2, <1>4, <1>5, ScraperMoves
<1>6. CASE GotoScraper(r, "fetch", scraper[r].page + 1, <<>>)
  BY <1>1, <1>2, <1>4, <1>6, ScraperMoves
<1> QED BY <1>3, <1>5, <1>6

LEMMA SendErrorKeeps == ASSUME DiscoveryInv, NEW r \in Runs, SendError(r) PROVE DiscoveryInv'
<1>1. scraper[r].at # "closed" /\ scraper[r].page \in Nat /\ scraper[r].page + 1 \in Nat
  BY DEF SendError, DiscoveryInv, DiscoveryTypes, ScraperState
<1>2. UNCHANGED <<board, jobs, jobsCh, run, sent, dropped>> /\ <<>> \in Seq(Posting)
  BY DEF SendError
<1>3. \/ GotoScraper(r, "closed", scraper[r].page, <<>>)
      \/ GotoScraper(r, "fetch", scraper[r].page + 1, <<>>)
  BY DEF SendError, NextPage
<1> QED BY <1>1, <1>2, <1>3, ScraperMoves

LEMMA StopSendingKeeps == ASSUME DiscoveryInv, NEW r \in Runs, StopSending(r) PROVE DiscoveryInv'
<1>1. scraper[r].at # "closed" /\ scraper[r].page \in Nat
  BY DEF StopSending, DiscoveryInv, DiscoveryTypes, ScraperState
<1>2. GotoScraper(r, "closed", scraper[r].page, <<>>) /\ UNCHANGED <<board, jobs, jobsCh, run, sent, dropped>>
  BY DEF StopSending
<1>3. <<>> \in Seq(Posting)
  OBVIOUS
<1> QED BY <1>1, <1>2, <1>3, ScraperMoves

(* The run has not ended, as its goroutine still sends.                     *)
LEMMA SendJobKeeps == ASSUME DiscoveryInv, NEW r \in Runs, SendJob(r) PROVE DiscoveryInv'
<1> DEFINE job == Head(scraper[r].out)  rest == Tail(scraper[r].out)
<1>1. /\ scraper[r] \in ScraperState /\ scraper[r].page \in Nat /\ scraper[r].page + 1 \in Nat
      /\ scraper[r].out \in Seq(Posting) /\ scraper[r].out # <<>> /\ jobsCh[r] \in Seq(Posting)
  BY DEF SendJob, DiscoveryInv, DiscoveryTypes, RunInv, ScraperState
<1>2. job \in Posting /\ rest \in Seq(Posting) /\ job.id \in Ids
  BY <1>1, IdsOfSequences DEF Posting
<1>3. /\ Append(jobsCh[r], job) \in Seq(Posting)
      /\ IdsOf(Append(jobsCh[r], job)) = IdsOf(jobsCh[r]) \cup {job.id}
  BY <1>1, <1>2, IdsOfSequences
<1>4. /\ jobsCh' = [jobsCh EXCEPT ![r] = Append(jobsCh[r], job)]
      /\ sent' = [sent EXCEPT ![r] = sent[r] \cup {job.id}]
      /\ UNCHANGED <<board, jobs, run, dropped>> /\ scraper[r].at = "send"
      /\ IF rest = <<>> THEN GotoScraper(r, "fetch", scraper[r].page + 1, <<>>)
                        ELSE GotoScraper(r, "send", scraper[r].page, rest)
  BY DEF SendJob, NextPage
<1> HIDE DEF job, rest
<1>5. PICK s \in ScraperState : scraper' = [scraper EXCEPT ![r] = s] /\ (s.at = "send" => s.out # <<>>)
  BY <1>1, <1>2, <1>4 DEF GotoScraper, ScraperState
<1>6. DiscoveryTypes'
  BY <1>2, <1>3, <1>4, <1>5 DEF DiscoveryInv, DiscoveryTypes
<1>7. \A o \in Runs : /\ scraper'[o] = IF o = r THEN s ELSE scraper[o]
                      /\ jobsCh'[o] = IF o = r THEN Append(jobsCh[r], job) ELSE jobsCh[o]
                      /\ sent'[o] = IF o = r THEN sent[r] \cup {job.id} ELSE sent[o]
  BY <1>4, <1>5 DEF DiscoveryInv, DiscoveryTypes
<1>8. ~ Ending(r)
  BY <1>4 DEF DiscoveryInv, RunInv
<1>9. RunInv'
  BY <1>4, <1>5, <1>7, <1>8 DEF DiscoveryInv, RunInv, Ending
<1>10. FlowInv'
  BY <1>3, <1>4, <1>7 DEF DiscoveryInv, FlowInv, Stored
<1> QED BY <1>6, <1>9, <1>10 DEF DiscoveryInv

-----------------------------------------------------------------------------
(* The consumer. A request starts a run that has nothing.                   *)
LEMMA DiscoverKeeps == ASSUME DiscoveryInv, NEW r \in Runs, Discover(r) PROVE DiscoveryInv'
<1>1. /\ scraper' = [scraper EXCEPT ![r] = [at |-> "fetch", page |-> 1, out |-> <<>>]]
      /\ run' = [run EXCEPT ![r].at = "select"]
      /\ UNCHANGED <<board, jobs, jobsCh, sent, dropped>>
  BY DEF Discover, GotoScraper
<1>2. [at |-> "fetch", page |-> 1, out |-> <<>>] \in ScraperState
  BY DEF ScraperState
<1>3. run' \in [Runs -> RunState]
  <2>1. run \in [Runs -> RunState] /\ run[r] \in RunState
    BY DEF DiscoveryInv, DiscoveryTypes
  <2>2. [run[r] EXCEPT !.at = "select"] \in RunState
    BY <2>1 DEF RunState
  <2> QED BY <1>1, <2>1, <2>2
<1>4. scraper' \in [Runs -> ScraperState]
  BY <1>1, <1>2 DEF DiscoveryInv, DiscoveryTypes
<1>5. DiscoveryTypes'
  BY <1>1, <1>3, <1>4 DEF DiscoveryInv, DiscoveryTypes
<1>6. /\ run'[r].at = "select" /\ scraper'[r].at = "fetch" /\ run'[r].batch = run[r].batch
      /\ \A o \in Runs : o # r => run'[o] = run[o] /\ scraper'[o] = scraper[o]
  BY <1>1 DEF DiscoveryInv, DiscoveryTypes, RunState
<1>7. RunInv'
  BY <1>1, <1>6 DEF DiscoveryInv, RunInv, Ending, Finished
<1>8. FlowInv'
  BY <1>1, <1>6 DEF DiscoveryInv, FlowInv, Stored
<1> QED BY <1>5, <1>7, <1>8 DEF DiscoveryInv

(* The posting goes from the channel to the batch.                          *)
LEMMA ReceiveJobKeeps == ASSUME DiscoveryInv, NEW r \in Runs, ReceiveJob(r) PROVE DiscoveryInv'
<1> DEFINE job == Head(jobsCh[r])  rest == Tail(jobsCh[r])  batch == Append(run[r].batch, job)
<1>1. /\ run[r] \in RunState /\ run[r].batch \in Seq(Posting) /\ run[r].at = "select"
      /\ jobsCh[r] \in Seq(Posting) /\ jobsCh[r] # <<>>
  BY DEF ReceiveJob, DiscoveryInv, DiscoveryTypes, RunState
<1>2. job \in Posting /\ rest \in Seq(Posting) /\ IdsOf(jobsCh[r]) = {job.id} \cup IdsOf(rest)
  BY <1>1, IdsOfSequences
<1>3. batch \in Seq(Posting) /\ batch # <<>> /\ IdsOf(batch) = IdsOf(run[r].batch) \cup {job.id}
  BY <1>1, <1>2, IdsOfSequences, SMTT(30)
<1>4. /\ jobsCh' = [jobsCh EXCEPT ![r] = rest]
      /\ UNCHANGED <<board, jobs, scraper, sent, dropped>>
      /\ \/ run' = [run EXCEPT ![r].at = "flush", ![r].then = "select", ![r].batch = batch]
         \/ run' = [run EXCEPT ![r].batch = batch]
  BY <1>3 DEF ReceiveJob, FlushThen
<1> HIDE DEF job, rest, batch
<1>5. PICK s \in RunState :
        /\ run' = [run EXCEPT ![r] = s] /\ s.batch = batch
        /\ s.at = "select" \/ (s.at = "flush" /\ s.then = "select")
  <2> DEFINE full == [run[r] EXCEPT !.at = "flush", !.then = "select", !.batch = batch]
             more == [run[r] EXCEPT !.batch = batch]
  <2>1. full \in RunState /\ full.batch = batch /\ full.at = "flush" /\ full.then = "select"
    BY <1>1, <1>3 DEF RunState
  <2>2. more \in RunState /\ more.batch = batch /\ more.at = "select"
    BY <1>1, <1>3 DEF RunState
  <2>3. CASE run' = [run EXCEPT ![r].at = "flush", ![r].then = "select", ![r].batch = batch]
    <3>1. run' = [run EXCEPT ![r] = full]
      BY <2>3 DEF DiscoveryInv, DiscoveryTypes
    <3> HIDE DEF full
    <3> QED BY <3>1, <2>1
  <2>4. CASE run' = [run EXCEPT ![r].batch = batch]
    <3>1. run' = [run EXCEPT ![r] = more]
      BY <2>4 DEF DiscoveryInv, DiscoveryTypes
    <3> HIDE DEF more
    <3> QED BY <3>1, <2>2
  <2> QED BY <1>4, <2>3, <2>4
<1>6. DiscoveryTypes'
  BY <1>2, <1>4, <1>5 DEF DiscoveryInv, DiscoveryTypes
<1>7. \A o \in Runs : /\ run'[o] = IF o = r THEN s ELSE run[o]
                      /\ jobsCh'[o] = IF o = r THEN rest ELSE jobsCh[o]
  BY <1>4, <1>5 DEF DiscoveryInv, DiscoveryTypes
<1>8. RunInv'
  BY <1>4, <1>5, <1>7 DEF DiscoveryInv, RunInv, Ending, Finished
<1>9. FlowInv'
  BY <1>2, <1>3, <1>4, <1>5, <1>7 DEF DiscoveryInv, FlowInv, Stored
<1> QED BY <1>6, <1>8, <1>9 DEF DiscoveryInv

(* The last flush begins when the channel is closed and empty, or the       *)
(* context has ended.                                                       *)
LEMMA LastFlushKeeps ==
  ASSUME DiscoveryInv, NEW r \in Runs, NEW then \in {"done", "cancelled"},
         FlushThen(r, run[r].batch, then),
         then = "done" => scraper[r].at = "closed" /\ jobsCh[r] = <<>>,
         UNCHANGED <<board, jobs, scraper, jobsCh, sent, dropped>>
  PROVE  DiscoveryInv'
<1> DEFINE s == [run[r] EXCEPT !.at = IF run[r].batch = <<>> THEN then ELSE "flush", !.then = then]
<1>1. run[r] \in RunState /\ run \in [Runs -> RunState]
  BY DEF DiscoveryInv, DiscoveryTypes
<1>2. s \in RunState /\ s.batch = run[r].batch /\ s.then = then
      /\ s.at = IF run[r].batch = <<>> THEN then ELSE "flush"
  BY <1>1 DEF RunState
<1>3. run' = [run EXCEPT ![r] = s]
  BY <1>1 DEF FlushThen, RunState
<1>4. dropped' \in [Runs -> SUBSET Ids] /\ \A o \in Runs : dropped[o] \subseteq dropped'[o]
  BY DEF DiscoveryInv, DiscoveryTypes
<1> HIDE DEF s
<1>5. s.at \in Finished => s.batch = <<>>
  BY <1>2 DEF Finished
<1>6. (s.at = "done" \/ (s.at = "flush" /\ s.then = "done"))
        => scraper[r].at = "closed" /\ jobsCh[r] = <<>>
  BY <1>2
<1>7. Stored \subseteq Stored' /\ UNCHANGED <<board, scraper, jobsCh, sent>>
  BY DEF Stored
<1>8. IdsOf(run[r].batch) \subseteq Stored' \cup dropped'[r] \cup IdsOf(s.batch)
  BY <1>2
<1> QED BY <1>2, <1>3, <1>4, <1>5, <1>6, <1>7, <1>8, ConsumerMoves

LEMMA ReceiveClosedKeeps == ASSUME DiscoveryInv, NEW r \in Runs, ReceiveClosed(r) PROVE DiscoveryInv'
  BY LastFlushKeeps DEF ReceiveClosed

LEMMA CancelledKeeps == ASSUME DiscoveryInv, NEW r \in Runs, Cancelled(r) PROVE DiscoveryInv'
  BY LastFlushKeeps DEF Cancelled

(* A row of the batch is only locked and written in the transaction.        *)
LEMMA UpsertRowKeeps == ASSUME DiscoveryInv, NEW r \in Runs, UpsertRow(r) PROVE DiscoveryInv'
<1> DEFINE fresh == IF NextId(r) \in Stored THEN run[r].fresh ELSE run[r].fresh \cup {NextId(r)}
           s == [run[r] EXCEPT !.row = run[r].row + 1, !.fresh = fresh]
<1>1. run[r] \in RunState /\ run \in [Runs -> RunState] /\ run[r].at = "flush"
  BY DEF UpsertRow, AtRow, DiscoveryInv, DiscoveryTypes
<1>2. NextId(r) \in Ids
  <2>1. run[r].batch \in Seq(Posting) /\ run[r].row \in Nat /\ run[r].row < Len(run[r].batch)
    BY <1>1 DEF UpsertRow, AtRow, RunState
  <2>2. run[r].row + 1 \in 1..Len(run[r].batch)
    BY <2>1
  <2>3. run[r].batch[run[r].row + 1] \in Posting
    BY <2>1, <2>2
  <2> QED BY <2>3 DEF NextId, Posting
<1>3. s \in RunState /\ s.batch = run[r].batch /\ s.then = run[r].then /\ s.at = "flush"
  <2>1. fresh \in SUBSET Ids /\ run[r].row + 1 \in Nat
    BY <1>1, <1>2 DEF RunState
  <2> HIDE DEF fresh
  <2> QED BY <1>1, <2>1 DEF RunState
<1>4. run' = [run EXCEPT ![r] = s]
  BY <1>1 DEF UpsertRow, RunState
<1>5. UNCHANGED <<board, jobs, scraper, jobsCh, sent, dropped>>
  BY DEF UpsertRow
<1>6. dropped' \in [Runs -> SUBSET Ids] /\ \A o \in Runs : dropped[o] \subseteq dropped'[o]
  BY <1>5 DEF DiscoveryInv, DiscoveryTypes
<1> HIDE DEF s
<1>7. s.at \notin Finished
  BY <1>3 DEF Finished
<1>8. s.then = "done" => scraper[r].at = "closed" /\ jobsCh[r] = <<>>
  BY <1>1, <1>3 DEF DiscoveryInv, RunInv, Ending
<1>9. Stored \subseteq Stored'
  BY <1>5 DEF Stored
<1>10. IdsOf(run[r].batch) \subseteq Stored' \cup dropped'[r] \cup IdsOf(s.batch)
  BY <1>3
<1> QED BY <1>3, <1>4, <1>5, <1>6, <1>7, <1>8, <1>9, <1>10, ConsumerMoves

LEMMA DupesAreNumber ==
  ASSUME NEW b \in Seq(Posting), NEW fresh \in SUBSET Ids
  PROVE  Len(b) - Cardinality(fresh) \in Int
<1>1. Cardinality(fresh) \in Nat
  BY DiscoveryAssumption, FS_Subset, FS_CardinalityType
<1>2. Len(b) \in Nat
  OBVIOUS
<1> QED BY <1>1, <1>2

(* The end of a transaction: the batch is emptied, whatever became of it,   *)
(* and was stored or is known to be dropped.                                *)
LEMMA FlushedKeeps ==
  ASSUME DiscoveryInv, NEW r \in Runs, NEW dupes \in Int, NEW fresh \in SUBSET Ids,
         run[r].at = "flush", Flushed(r, fresh, dupes),
         UNCHANGED <<board, scraper, jobsCh, sent>>, Stored \subseteq Stored',
         \/ dropped' = dropped /\ IdsOf(run[r].batch) \subseteq Stored'
         \/ dropped' = [dropped EXCEPT ![r] = @ \cup IdsOf(run[r].batch)]
  PROVE  DiscoveryInv'
<1> DEFINE s == [at |-> run[r].then, then |-> run[r].then, batch |-> <<>>, row |-> 0, fresh |-> {},
                 new |-> run[r].new + Cardinality(fresh), dupe |-> run[r].dupe + dupes,
                 counted |-> run[r].counted \cup fresh]
<1>1. run[r] \in RunState /\ run \in [Runs -> RunState] /\ dropped \in [Runs -> SUBSET Ids]
  BY DEF DiscoveryInv, DiscoveryTypes
<1>2. s \in RunState /\ s.batch = <<>> /\ s.at = run[r].then /\ s.at \in {"select", "done", "cancelled"}
  <2>1. /\ run[r].dupe + dupes \in Int /\ run[r].new + Cardinality(fresh) \in Nat
        /\ run[r].counted \cup fresh \in SUBSET Ids /\ <<>> \in Seq(Posting)
    <3>1. /\ run[r].dupe \in Int /\ run[r].new \in Nat /\ run[r].counted \in SUBSET Ids
          /\ <<>> \in Seq(Posting)
      BY <1>1 DEF RunState
    <3>2. Cardinality(fresh) \in Nat
      BY DiscoveryAssumption, FS_Subset, FS_CardinalityType
    <3> QED BY <3>1, <3>2
  <2>2. /\ run[r].then \in {"select", "done", "cancelled"}
        /\ run[r].then \in {"idle", "select", "flush", "done", "cancelled"}
        /\ {} \in SUBSET Ids /\ 0 \in Nat
    BY <1>1 DEF RunState
  <2> QED BY <2>1, <2>2 DEF RunState
<1>3. run' = [run EXCEPT ![r] = s]
  BY <1>1 DEF Flushed
<1>4. IdsOf(run[r].batch) \subseteq Ids
  BY <1>1, IdsOfSequences DEF RunState
<1>5. /\ dropped' \in [Runs -> SUBSET Ids] /\ \A o \in Runs : dropped[o] \subseteq dropped'[o]
      /\ IdsOf(run[r].batch) \subseteq Stored' \cup dropped'[r]
  BY <1>1, <1>4
<1> HIDE DEF s
<1>6. s.at = "done" => scraper[r].at = "closed" /\ jobsCh[r] = <<>>
  BY <1>2 DEF DiscoveryInv, RunInv, Ending
<1>7. s.at # "flush"
  BY <1>2
<1>8. IdsOf(run[r].batch) \subseteq Stored' \cup dropped'[r] \cup IdsOf(s.batch)
  BY <1>5
<1> QED BY <1>2, <1>3, <1>5, <1>6, <1>7, <1>8, ConsumerMoves

LEMMA CommitKeeps == ASSUME DiscoveryInv, NEW r \in Runs, Commit(r) PROVE DiscoveryInv'
<1>1. run[r].batch \in Seq(Posting) /\ run[r].fresh \in SUBSET Ids /\ run[r].at = "flush"
  BY DEF Commit, DiscoveryInv, DiscoveryTypes, RunState
<1>2. IdsOf(run[r].batch) \subseteq Stored' /\ Stored \subseteq Stored'
  BY <1>1, CommitStores DEF Commit
<1>3. Len(run[r].batch) - Cardinality(run[r].fresh) \in Int /\ 0 \in Int /\ {} \in SUBSET Ids
  BY <1>1, DupesAreNumber
<1>4. UNCHANGED <<board, scraper, jobsCh, sent>>
  BY DEF Commit
<1>5. \/ Flushed(r, run[r].fresh, Len(run[r].batch) - Cardinality(run[r].fresh)) /\ dropped' = dropped
      \/ Flushed(r, {}, 0) /\ dropped' = [dropped EXCEPT ![r] = @ \cup IdsOf(run[r].batch)]
  BY DEF Commit
<1> QED BY <1>1, <1>2, <1>3, <1>4, <1>5, FlushedKeeps

LEMMA RollbackKeeps == ASSUME DiscoveryInv, NEW r \in Runs, Rollback(r) PROVE DiscoveryInv'
<1>1. /\ run[r].at = "flush" /\ Flushed(r, {}, 0)
      /\ dropped' = [dropped EXCEPT ![r] = @ \cup IdsOf(run[r].batch)]
      /\ UNCHANGED <<board, jobs, scraper, jobsCh, sent>>
  BY DEF Rollback
<1>2. Stored \subseteq Stored' /\ 0 \in Int /\ {} \in SUBSET Ids
  BY <1>1 DEF Stored
<1> QED BY <1>1, <1>2, FlushedKeeps

-----------------------------------------------------------------------------
LEMMA DiscoveryInvInit == DiscoveryInit => DiscoveryInv
<1> SUFFICES ASSUME DiscoveryInit PROVE DiscoveryInv
  OBVIOUS
<1>1. <<>> \in Seq(Posting)
  OBVIOUS
<1>2. scraper \in [Runs -> ScraperState] /\ run \in [Runs -> RunState]
  BY <1>1 DEF DiscoveryInit, ScraperState, RunState
<1>3. DiscoveryTypes
  BY <1>1, <1>2 DEF DiscoveryInit, DiscoveryTypes
<1>4. RunInv /\ FlowInv
  BY DEF DiscoveryInit, RunInv, Ending, Finished, FlowInv
<1> QED BY <1>3, <1>4 DEF DiscoveryInv

LEMMA DiscoveryInvNext == DiscoveryInv /\ [DiscoveryNext]_discoveryVars => DiscoveryInv'
<1> SUFFICES ASSUME DiscoveryInv, [DiscoveryNext]_discoveryVars PROVE DiscoveryInv'
  OBVIOUS
<1>1. ASSUME NEW r \in Runs, Discover(r) PROVE DiscoveryInv'
  BY <1>1, DiscoverKeeps
<1>2. ASSUME NEW r \in Runs, Scrape(r) PROVE DiscoveryInv'
  BY <1>2, ReturnKeeps, ReadPageKeeps, PageFailsKeeps, SendErrorKeeps, SendJobKeeps, StopSendingKeeps
  DEF Scrape
<1>3. ASSUME NEW r \in Runs,
             UNCHANGED <<board, jobs, scraper, jobsCh, run, sent, dropped>>
      PROVE  DiscoveryInv'
  BY <1>3 DEF DiscoveryInv, DiscoveryTypes, RunInv, FlowInv, Ending, Stored
<1>4. ASSUME NEW r \in Runs, Consume(r) PROVE DiscoveryInv'
  <2>1. CASE ReceiveError(r)
    BY <2>1, <1>3 DEF ReceiveError
  <2> QED BY <1>4, <2>1, ReceiveJobKeeps, ReceiveClosedKeeps, CancelledKeeps, UpsertRowKeeps,
             CommitKeeps, RollbackKeeps DEF Consume
<1>5. ASSUME NEW r \in Runs, ContextEnds(r) PROVE DiscoveryInv'
  BY <1>5, <1>3 DEF ContextEnds
<1>6. CASE UNCHANGED discoveryVars
  BY <1>6 DEF discoveryVars, DiscoveryInv, DiscoveryTypes, RunInv, FlowInv, Ending, Stored
<1> QED BY <1>1, <1>2, <1>4, <1>5, <1>6 DEF DiscoveryNext

(* The types and the way of the postings hold in every behaviour.           *)
THEOREM DiscoveryInvariance == DiscoverySpec => []DiscoveryInv
  BY DiscoveryInvInit, DiscoveryInvNext, PTL DEF DiscoverySpec

(* NothingLostQuietly: of any number of overlapping runs, whatever pages    *)
(* fail, contexts end and transactions abort, a posting that the scraper    *)
(* sent is on its way, in the table, or in a batch that was reported to     *)
(* fail; and a run that is done has nothing on its way.                     *)
THEOREM PostingsAreAccountedFor == DiscoverySpec => []NothingLostQuietly
<1>1. DiscoveryInv => NothingLostQuietly
  <2> SUFFICES ASSUME DiscoveryInv, NEW r \in Runs
               PROVE  /\ sent[r] \subseteq
                           Stored \cup dropped[r] \cup IdsOf(jobsCh[r]) \cup IdsOf(run[r].batch)
                      /\ run[r].at = "done" => sent[r] \subseteq Stored \cup dropped[r]
                      /\ run[r].at \in Finished => run[r].batch = <<>>
    BY DEF NothingLostQuietly
  <2>1. IdsOf(<<>>) = {}
    BY DEF IdsOf
  <2>2. sent[r] \subseteq Stored \cup dropped[r] \cup IdsOf(jobsCh[r]) \cup IdsOf(run[r].batch)
    BY DEF DiscoveryInv, FlowInv
  <2>3. run[r].at \in Finished => run[r].batch = <<>>
    BY DEF DiscoveryInv, RunInv
  <2>4. run[r].at = "done" => jobsCh[r] = <<>> /\ run[r].batch = <<>>
    BY <2>3 DEF DiscoveryInv, RunInv, Ending, Finished
  <2> QED BY <2>1, <2>2, <2>3, <2>4
<1> QED BY <1>1, DiscoveryInvariance, PTL

-----------------------------------------------------------------------------
(* The rows a run has locked, what its record says by itself, and what the  *)
(* runs together have counted. A row that is locked and not in the table is *)
(* new; no other run can lock it before the transaction ends, so it is in   *)
(* nobody else's count, and it comes into the table with the commit that    *)
(* counts it.                                                               *)
HeldBy(s) == {i \in Ids : s.at = "flush" /\ i \in IdsOf(SubSeq(s.batch, 1, s.row))}

RunCounts(s) ==
  /\ s.row <= Len(s.batch)
  /\ s.at # "flush" => s.row = 0 /\ s.fresh = {}
  /\ s.new = Cardinality(s.counted)

CountInv ==
  /\ \A r \in Runs :
       /\ RunCounts(run[r]) /\ run[r].counted \subseteq Stored
       /\ run[r].fresh = HeldBy(run[r]) \ Stored
  /\ \A r, o \in Runs : r # o => /\ HeldBy(run[r]) \cap HeldBy(run[o]) = {}
                                 /\ run[r].counted \cap run[o].counted = {}
  /\ Stored \subseteq UNION {run[r].counted \cup dropped[r] : r \in Runs}

(* The ids of the first postings of a batch.                                *)
LEMMA FirstIds ==
  ASSUME NEW b \in Seq(Posting), NEW n \in 0..Len(b)
  PROVE  /\ IdsOf(SubSeq(b, 1, n)) = {b[k].id : k \in 1..n}
         /\ IdsOf(SubSeq(b, 1, n)) \subseteq IdsOf(b)
         /\ n = 0 => IdsOf(SubSeq(b, 1, n)) = {}
         /\ n = Len(b) => IdsOf(SubSeq(b, 1, n)) = IdsOf(b)
<1> DEFINE s == SubSeq(b, 1, n)
<1>1. Len(b) \in Nat /\ DOMAIN b = 1..Len(b) /\ n \in Nat /\ n <= Len(b)
  OBVIOUS
<1>2. \A i \in 1..n : b[i] \in Posting
  BY <1>1
<1>3. /\ s \in Seq(Posting) /\ Len(s) = IF 1 <= n THEN n - 1 + 1 ELSE 0
      /\ \A i \in 1..(n - 1 + 1) : s[i] = b[1 + i - 1]
  BY <1>1, <1>2, SubSeqProperties
<1>4. Len(s) = n /\ \A i \in 1..n : s[i] = b[i]
  BY <1>1, <1>3
<1>5. DOMAIN s = 1..n
  BY <1>3, <1>4, LenProperties
<1> HIDE DEF s
<1>6. IdsOf(s) = {b[k].id : k \in 1..n}
  BY <1>4, <1>5 DEF IdsOf
<1>7. IdsOf(s) \subseteq IdsOf(b)
  <2>1. ASSUME NEW k \in 1..n PROVE b[k].id \in IdsOf(b)
    <3>1. k \in DOMAIN b
      BY <1>1
    <3> QED BY <3>1 DEF IdsOf
  <2> QED BY <1>6, <2>1
<1>8. n = 0 => IdsOf(s) = {}
  BY <1>6
<1>9. n = Len(b) => IdsOf(s) = IdsOf(b)
  BY <1>1, <1>6 DEF IdsOf
<1> QED BY <1>6, <1>7, <1>8, <1>9 DEF s

LEMMA HeldRows ==
  ASSUME NEW s \in RunState, s.row <= Len(s.batch)
  PROVE  /\ HeldBy(s) \subseteq IdsOf(s.batch)
         /\ s.at # "flush" => HeldBy(s) = {}
         /\ s.row = 0 => HeldBy(s) = {}
         /\ s.at = "flush" /\ s.row = Len(s.batch) => HeldBy(s) = IdsOf(s.batch)
         /\ s.at = "flush" => HeldBy(s) = {s.batch[k].id : k \in 1..s.row}
<1>1. s.batch \in Seq(Posting) /\ s.row \in 0..Len(s.batch)
  BY DEF RunState
<1>2. IdsOf(SubSeq(s.batch, 1, s.row)) \subseteq IdsOf(s.batch) /\ IdsOf(s.batch) \subseteq Ids
  BY <1>1, FirstIds, IdsOfSequences
<1>3. HeldBy(s) = IF s.at = "flush" THEN IdsOf(SubSeq(s.batch, 1, s.row)) ELSE {}
  BY <1>2 DEF HeldBy
<1> QED BY <1>1, <1>2, <1>3, FirstIds

(* A step of one run, and what it owes to the others.                       *)
LEMMA CountMoves ==
  ASSUME DiscoveryTypes, CountInv, NEW r \in Runs, NEW s \in RunState,
         run' = [run EXCEPT ![r] = s],
         Stored \subseteq Stored', \A o \in Runs : dropped[o] \subseteq dropped'[o],
         Stored' \ Stored \subseteq s.counted \cup dropped'[r],
         \A o \in Runs \ {r} : /\ HeldBy(run[o]) \cap (Stored' \ Stored) = {}
                               /\ HeldBy(run[o]) \cap HeldBy(s) = {},
         RunCounts(s), s.fresh = HeldBy(s) \ Stored',
         run[r].counted \subseteq s.counted, s.counted \subseteq Stored',
         (s.counted \ run[r].counted) \cap Stored = {}
  PROVE  CountInv'
<1>1. \A o \in Runs : run'[o] = IF o = r THEN s ELSE run[o]
  BY DEF DiscoveryTypes
<1>2. \A o \in Runs :
        /\ RunCounts(run'[o]) /\ run'[o].counted \subseteq Stored'
        /\ run'[o].fresh = HeldBy(run'[o]) \ Stored'
  BY <1>1 DEF CountInv
<1>3. \A o \in Runs \ {r} : run[o].counted \cap s.counted = {}
  BY DEF CountInv
<1>4. \A p, o \in Runs : p # o => /\ HeldBy(run'[p]) \cap HeldBy(run'[o]) = {}
                                  /\ run'[p].counted \cap run'[o].counted = {}
  <2>1. ASSUME NEW o \in Runs \ {r}
        PROVE  /\ run'[o] = run[o] /\ run'[r] = s
               /\ HeldBy(run[o]) \cap HeldBy(s) = {} /\ run[o].counted \cap s.counted = {}
    BY <1>1, <1>3
  <2>2. ASSUME NEW o \in Runs \ {r}, NEW p \in Runs \ {r}, o # p
        PROVE  /\ HeldBy(run'[p]) \cap HeldBy(run'[o]) = {}
               /\ run'[p].counted \cap run'[o].counted = {}
    BY <2>1, <2>2 DEF CountInv
  <2>3. ASSUME NEW o \in Runs \ {r}
        PROVE  /\ HeldBy(run'[r]) \cap HeldBy(run'[o]) = {} /\ HeldBy(run'[o]) \cap HeldBy(run'[r]) = {}
               /\ run'[r].counted \cap run'[o].counted = {}
               /\ run'[o].counted \cap run'[r].counted = {}
    BY <2>1
  <2> QED BY <2>2, <2>3
<1>5. Stored' \subseteq UNION {run'[o].counted \cup dropped'[o] : o \in Runs}
  <2>1. ASSUME NEW i \in Stored, NEW o \in Runs, i \in run[o].counted \cup dropped[o]
        PROVE  i \in run'[o].counted \cup dropped'[o]
    BY <1>1, <2>1
  <2>2. ASSUME NEW i \in Stored' \ Stored PROVE i \in run'[r].counted \cup dropped'[r]
    BY <1>1
  <2> QED BY <2>1, <2>2 DEF CountInv
<1> QED BY <1>2, <1>4, <1>5 DEF CountInv

(* A step of the scraper counts nothing.                                    *)
LEMMA CountSame ==
  ASSUME CountInv, UNCHANGED <<jobs, run, dropped>> PROVE CountInv'
<1>1. Stored' = Stored
  BY DEF Stored
<1> QED BY <1>1 DEF CountInv

(* Nor does a step of the consumer that holds no rows yet.                  *)
LEMMA CountUnlocked ==
  ASSUME DiscoveryTypes, CountInv, NEW r \in Runs, NEW s \in RunState,
         run' = [run EXCEPT ![r] = s], UNCHANGED <<jobs, dropped>>,
         run[r].at # "flush",
         s.row = run[r].row, s.fresh = run[r].fresh, s.new = run[r].new, s.counted = run[r].counted
  PROVE  CountInv'
<1>1. Stored' = Stored
  BY DEF Stored
<1>2. s.row = 0 /\ s.fresh = {} /\ s.new = Cardinality(s.counted) /\ s.counted \subseteq Stored
  BY DEF CountInv, RunCounts
<1>3. s.batch \in Seq(Posting) /\ Len(s.batch) \in Nat
  BY DEF RunState
<1>4. RunCounts(s) /\ HeldBy(s) = {}
  BY <1>2, <1>3, HeldRows DEF RunCounts
<1> QED BY <1>1, <1>2, <1>4, CountMoves

LEMMA CountFlushThen ==
  ASSUME DiscoveryTypes, CountInv, NEW r \in Runs, run[r].at = "select",
         NEW batch \in Seq(Posting), NEW then \in {"select", "done", "cancelled"},
         \/ FlushThen(r, batch, then)
         \/ run' = [run EXCEPT ![r].batch = batch],
         UNCHANGED <<jobs, dropped>>
  PROVE  CountInv'
<1> DEFINE at == IF batch = <<>> THEN then ELSE "flush"
           s == [run[r] EXCEPT !.at = at, !.then = then, !.batch = batch]
           t == [run[r] EXCEPT !.batch = batch]
<1>1. run \in [Runs -> RunState] /\ run[r] \in RunState
  BY DEF DiscoveryTypes
<1>2. /\ s \in RunState /\ s.row = run[r].row /\ s.fresh = run[r].fresh
      /\ s.new = run[r].new /\ s.counted = run[r].counted
  <2>1. at \in {"idle", "select", "flush", "done", "cancelled"}
    OBVIOUS
  <2> HIDE DEF at
  <2> QED BY <1>1, <2>1 DEF RunState
<1>3. /\ t \in RunState /\ t.row = run[r].row /\ t.fresh = run[r].fresh
      /\ t.new = run[r].new /\ t.counted = run[r].counted
  BY <1>1 DEF RunState
<1>4. run' = [run EXCEPT ![r] = s] \/ run' = [run EXCEPT ![r] = t]
  BY <1>1 DEF FlushThen
<1> HIDE DEF s, t
<1> QED BY <1>2, <1>3, <1>4, CountUnlocked

LEMMA CountUpsertRow ==
  ASSUME DiscoveryTypes, CountInv, NEW r \in Runs, UpsertRow(r) PROVE CountInv'
<1> DEFINE i == NextId(r)
           fresh == IF i \in Stored THEN run[r].fresh ELSE run[r].fresh \cup {i}
           s == [run[r] EXCEPT !.row = run[r].row + 1, !.fresh = fresh]
<1>1. /\ run \in [Runs -> RunState] /\ run[r] \in RunState /\ run[r].at = "flush"
      /\ run[r].batch \in Seq(Posting) /\ run[r].row \in Nat /\ run[r].row < Len(run[r].batch)
  BY DEF UpsertRow, AtRow, DiscoveryTypes, RunState
<1>2. i \in Ids
  <2>1. run[r].row + 1 \in 1..Len(run[r].batch)
    BY <1>1
  <2>2. run[r].batch[run[r].row + 1] \in Posting
    BY <1>1, <2>1
  <2> QED BY <2>2 DEF NextId, Posting
<1>3. /\ s \in RunState /\ s.batch = run[r].batch /\ s.at = "flush" /\ s.row = run[r].row + 1
      /\ s.fresh = fresh /\ s.new = run[r].new /\ s.counted = run[r].counted
  <2>1. fresh \in SUBSET Ids /\ run[r].row + 1 \in Nat
    BY <1>1, <1>2 DEF RunState
  <2> HIDE DEF fresh
  <2> QED BY <1>1, <2>1 DEF RunState
<1>4. run' = [run EXCEPT ![r] = s] /\ UNCHANGED <<jobs, dropped>> /\ Stored' = Stored
  BY <1>1 DEF UpsertRow, Stored, RunState
<1>5. HeldBy(s) = HeldBy(run[r]) \cup {i}
  <2>1. s.row <= Len(s.batch) /\ run[r].row <= Len(run[r].batch)
    BY <1>1, <1>3
  <2>2. /\ HeldBy(s) = {run[r].batch[k].id : k \in 1..(run[r].row + 1)}
        /\ HeldBy(run[r]) = {run[r].batch[k].id : k \in 1..run[r].row}
    <3> HIDE DEF s
    <3>1. HeldBy(s) = {s.batch[k].id : k \in 1..s.row}
      BY <1>3, <2>1, HeldRows
    <3>2. HeldBy(run[r]) = {run[r].batch[k].id : k \in 1..run[r].row}
      BY <1>1, <2>1, HeldRows
    <3> QED BY <1>3, <3>1, <3>2
  <2>3. 1..(run[r].row + 1) = (1..run[r].row) \cup {run[r].row + 1}
    BY <1>1
  <2> QED BY <2>2, <2>3 DEF NextId
<1>6. \A o \in Runs \ {r} : i \notin HeldBy(run[o])
  <2> SUFFICES ASSUME NEW o \in Runs \ {r}, i \in HeldBy(run[o]) PROVE FALSE
    OBVIOUS
  <2>1. Holds(o, i)
    BY DEF Holds, HeldBy
  <2>2. WaitsFor(r, o)
    BY <2>1 DEF WaitsFor, UpsertRow
  <2> QED BY <2>2 DEF UpsertRow
<1>7. run[r].fresh = HeldBy(run[r]) \ Stored /\ run[r].counted \subseteq Stored /\ RunCounts(run[r])
  BY DEF CountInv
<1>8. RunCounts(s)
  BY <1>1, <1>3, <1>7 DEF RunCounts
<1>9. s.fresh = HeldBy(s) \ Stored
  BY <1>3, <1>5, <1>7
<1>10. \A o \in Runs \ {r} : HeldBy(run[o]) \cap HeldBy(s) = {}
  BY <1>5, <1>6 DEF CountInv
<1> HIDE DEF s, i, fresh
<1> QED BY <1>3, <1>4, <1>7, <1>8, <1>9, <1>10, CountMoves

(* The rows that a commit adds are those its run called new.                *)
LEMMA CountFlushed ==
  ASSUME DiscoveryTypes, CountInv, NEW r \in Runs, NEW dupes \in Int, NEW fresh \in SUBSET Ids,
         run[r].at = "flush", Flushed(r, fresh, dupes),
         Stored \subseteq Stored', \A o \in Runs : dropped[o] \subseteq dropped'[o],
         Stored' \ Stored \subseteq HeldBy(run[r]),
         \/ fresh = {} /\ Stored' \ Stored \subseteq dropped'[r]
         \/ fresh = run[r].fresh /\ run[r].fresh \subseteq Stored'
  PROVE  CountInv'
<1> DEFINE s == [at |-> run[r].then, then |-> run[r].then, batch |-> <<>>, row |-> 0, fresh |-> {},
                 new |-> run[r].new + Cardinality(fresh), dupe |-> run[r].dupe + dupes,
                 counted |-> run[r].counted \cup fresh]
<1>1. /\ run[r] \in RunState /\ run \in [Runs -> RunState]
      /\ run[r].then \in {"select", "done", "cancelled"}
      /\ run[r].new \in Nat /\ run[r].dupe \in Int /\ run[r].counted \in SUBSET Ids
  BY DEF DiscoveryTypes, RunState
<1>2. /\ IsFiniteSet(fresh) /\ IsFiniteSet(run[r].counted)
      /\ Cardinality(fresh) \in Nat /\ Cardinality(run[r].counted) \in Nat
  BY <1>1, DiscoveryAssumption, FS_Subset, FS_CardinalityType
<1>3. /\ run[r].fresh = HeldBy(run[r]) \ Stored /\ run[r].counted \subseteq Stored
      /\ run[r].new = Cardinality(run[r].counted)
  BY DEF CountInv, RunCounts
<1>4. fresh \cap run[r].counted = {} /\ fresh \cap Stored = {} /\ fresh \subseteq Stored'
  BY <1>3
<1>5. Cardinality(run[r].counted \cup fresh) = run[r].new + Cardinality(fresh)
  <2>1. run[r].counted \cap fresh = {}
    BY <1>4
  <2>2. Cardinality(run[r].counted \cap fresh) = 0
    BY <2>1, FS_EmptySet
  <2>3. Cardinality(run[r].counted \cup fresh)
          = Cardinality(run[r].counted) + Cardinality(fresh) - Cardinality(run[r].counted \cap fresh)
    BY <1>2, FS_Union
  <2> HIDE DEF s
  <2> QED BY <1>2, <1>3, <2>2, <2>3
<1>6. s \in RunState
  <2>1. /\ run[r].dupe + dupes \in Int /\ run[r].new + Cardinality(fresh) \in Nat
        /\ run[r].counted \cup fresh \in SUBSET Ids /\ <<>> \in Seq(Posting)
    BY <1>1, <1>2
  <2>2. /\ run[r].then \in {"idle", "select", "flush", "done", "cancelled"}
        /\ {} \in SUBSET Ids /\ 0 \in Nat
    BY <1>1
  <2> QED BY <1>1, <2>1, <2>2 DEF RunState
<1>7. /\ s.at # "flush" /\ s.row = 0 /\ s.fresh = {} /\ s.batch = <<>>
      /\ s.new = run[r].new + Cardinality(fresh) /\ s.counted = run[r].counted \cup fresh
  BY <1>1
<1>8. run' = [run EXCEPT ![r] = s]
  BY <1>1 DEF Flushed
<1> HIDE DEF s
<1>9. RunCounts(s) /\ HeldBy(s) = {}
  <2>1. s.row <= Len(s.batch)
    BY <1>7
  <2> QED BY <1>5, <1>6, <1>7, <2>1, HeldRows DEF RunCounts
<1>10. Stored' \ Stored \subseteq s.counted \cup dropped'[r]
  BY <1>3, <1>7
<1>11. \A o \in Runs \ {r} : HeldBy(run[o]) \cap (Stored' \ Stored) = {}
  BY DEF CountInv
<1>12. /\ s.fresh = HeldBy(s) \ Stored' /\ run[r].counted \subseteq s.counted
       /\ s.counted \subseteq Stored' /\ (s.counted \ run[r].counted) \cap Stored = {}
  BY <1>3, <1>4, <1>7, <1>9
<1>13. \A o \in Runs \ {r} : HeldBy(run[o]) \cap HeldBy(s) = {}
  BY <1>9
<1> QED BY <1>6, <1>8, <1>9, <1>10, <1>11, <1>12, <1>13, CountMoves

LEMMA CountCommit ==
  ASSUME DiscoveryTypes, CountInv, NEW r \in Runs, Commit(r) PROVE CountInv'
<1>1. /\ run[r] \in RunState /\ run[r].batch \in Seq(Posting) /\ run[r].fresh \in SUBSET Ids
      /\ run[r].at = "flush" /\ run[r].row = Len(run[r].batch) /\ Len(run[r].batch) \in Nat
      /\ dropped \in [Runs -> SUBSET Ids]
  BY DEF Commit, DiscoveryTypes, RunState
<1>2. jobs' = [i \in Ids |-> IF i \in IdsOf(run[r].batch) THEN Row(LastText(run[r].batch, i))
                                                         ELSE jobs[i]]
  BY DEF Commit
<1>3. IdsOf(run[r].batch) \subseteq Stored' /\ Stored \subseteq Stored'
  BY <1>1, <1>2, CommitStores
<1>4. Stored' \ Stored \subseteq IdsOf(run[r].batch)
  <2>1. \A i \in Ids : i \notin IdsOf(run[r].batch) => jobs'[i] = jobs[i]
    BY <1>2
  <2> QED BY <2>1 DEF Stored
<1>5. HeldBy(run[r]) = IdsOf(run[r].batch)
  BY <1>1, HeldRows
<1>6. run[r].fresh \subseteq Stored' /\ Len(run[r].batch) - Cardinality(run[r].fresh) \in Int
  BY <1>1, <1>3, <1>5, DupesAreNumber DEF CountInv
<1>7. CASE Flushed(r, run[r].fresh, Len(run[r].batch) - Cardinality(run[r].fresh)) /\ dropped' = dropped
  BY <1>1, <1>3, <1>4, <1>5, <1>6, <1>7, CountFlushed
<1>8. CASE Flushed(r, {}, 0) /\ dropped' = [dropped EXCEPT ![r] = @ \cup IdsOf(run[r].batch)]
  <2>1. /\ \A o \in Runs : dropped[o] \subseteq dropped'[o]
        /\ IdsOf(run[r].batch) \subseteq dropped'[r]
    BY <1>1, <1>8
  <2> QED BY <1>1, <1>3, <1>4, <1>5, <1>8, <2>1, CountFlushed
<1> QED BY <1>7, <1>8 DEF Commit

LEMMA CountRollback ==
  ASSUME DiscoveryTypes, CountInv, NEW r \in Runs, Rollback(r) PROVE CountInv'
<1>1. run[r].at = "flush" /\ Flushed(r, {}, 0) /\ jobs' = jobs /\ dropped \in [Runs -> SUBSET Ids]
  BY DEF Rollback, DiscoveryTypes
<1>2. \A o \in Runs : dropped[o] \subseteq dropped'[o]
  BY <1>1 DEF Rollback
<1>3. Stored' = Stored
  BY <1>1 DEF Stored
<1> QED BY <1>1, <1>2, <1>3, CountFlushed

LEMMA CountInit == DiscoveryInit => CountInv
<1> SUFFICES ASSUME DiscoveryInit PROVE CountInv
  OBVIOUS
<1>1. Stored = {}
  BY DEF DiscoveryInit, Stored
<1>2. ASSUME NEW r \in Runs
      PROVE  /\ run[r].row = 0 /\ run[r].batch = <<>> /\ run[r].at = "idle" /\ run[r].fresh = {}
             /\ run[r].new = 0 /\ run[r].counted = {}
  BY DEF DiscoveryInit
<1>3. ASSUME NEW r \in Runs PROVE HeldBy(run[r]) = {} /\ RunCounts(run[r])
  <2>1. run[r].row <= Len(run[r].batch) /\ Cardinality({}) = 0
    BY <1>2, FS_EmptySet
  <2> QED BY <1>2, <2>1 DEF HeldBy, RunCounts
<1> QED BY <1>1, <1>2, <1>3 DEF CountInv

LEMMA CountNext ==
  DiscoveryInv /\ CountInv /\ [DiscoveryNext]_discoveryVars => CountInv'
<1> SUFFICES ASSUME DiscoveryInv, CountInv, [DiscoveryNext]_discoveryVars PROVE CountInv'
  OBVIOUS
<1>1. DiscoveryTypes
  BY DEF DiscoveryInv
<1>2. ASSUME NEW r \in Runs, Discover(r) PROVE CountInv'
  <2> DEFINE s == [run[r] EXCEPT !.at = "select"]
  <2>1. run \in [Runs -> RunState] /\ run[r] \in RunState
    BY <1>1 DEF DiscoveryTypes
  <2>2. /\ s \in RunState /\ s.row = run[r].row /\ s.fresh = run[r].fresh
        /\ s.new = run[r].new /\ s.counted = run[r].counted
    BY <2>1 DEF RunState
  <2>3. run' = [run EXCEPT ![r] = s] /\ run[r].at # "flush" /\ UNCHANGED <<jobs, dropped>>
    BY <1>2, <2>1 DEF Discover
  <2> HIDE DEF s
  <2> QED BY <1>1, <2>2, <2>3, CountUnlocked
<1>3. ASSUME NEW r \in Runs, Scrape(r) PROVE CountInv'
  <2>1. UNCHANGED <<jobs, run, dropped>>
    BY <1>3 DEF Scrape, Return, ReadPage, PageFails, SendError, SendJob, StopSending
  <2> QED BY <2>1, CountSame
<1>4. ASSUME NEW r \in Runs, ReceiveJob(r) PROVE CountInv'
  <2> DEFINE batch == Append(run[r].batch, Head(jobsCh[r]))
  <2>1. /\ run[r].batch \in Seq(Posting) /\ jobsCh[r] \in Seq(Posting) /\ jobsCh[r] # <<>>
        /\ run[r].at = "select"
    BY <1>1, <1>4 DEF ReceiveJob, DiscoveryTypes, RunState
  <2>2. batch \in Seq(Posting)
    BY <2>1, IdsOfSequences
  <2>3. /\ FlushThen(r, batch, "select") \/ run' = [run EXCEPT ![r].batch = batch]
        /\ UNCHANGED <<jobs, dropped>>
    BY <1>4 DEF ReceiveJob
  <2> HIDE DEF batch
  <2> QED BY <1>1, <2>1, <2>2, <2>3, CountFlushThen
<1>5. ASSUME NEW r \in Runs, ReceiveError(r) PROVE CountInv'
  BY <1>5, CountSame DEF ReceiveError
<1>6. ASSUME NEW r \in Runs, ReceiveClosed(r) \/ Cancelled(r) PROVE CountInv'
  <2>1. run[r].batch \in Seq(Posting)
    BY <1>1 DEF DiscoveryTypes, RunState
  <2>2. /\ run[r].at = "select" /\ UNCHANGED <<jobs, dropped>>
        /\ FlushThen(r, run[r].batch, "done") \/ FlushThen(r, run[r].batch, "cancelled")
    BY <1>6 DEF ReceiveClosed, Cancelled
  <2> QED BY <1>1, <2>1, <2>2, CountFlushThen
<1>7. ASSUME NEW r \in Runs, Consume(r) PROVE CountInv'
  BY <1>1, <1>4, <1>5, <1>6, <1>7, CountUpsertRow, CountCommit, CountRollback DEF Consume
<1>8. ASSUME NEW r \in Runs, ContextEnds(r) PROVE CountInv'
  BY <1>8, CountSame DEF ContextEnds
<1>9. CASE UNCHANGED discoveryVars
  BY <1>9, CountSame DEF discoveryVars
<1> QED BY <1>2, <1>3, <1>7, <1>8, <1>9 DEF DiscoveryNext

LEMMA CountInvariance == DiscoverySpec => []CountInv
  BY CountInit, CountNext, DiscoveryInvariance, PTL DEF DiscoverySpec

-----------------------------------------------------------------------------
(* Sizes. The page of a scraper that is about to go on is one it may ask    *)
(* for, so the next one is at most one too many.                            *)
ScraperSizes(r, s) ==
  /\ s.page \in 1..(PageLimit(r) + 1)
  /\ s.at \in {"send", "error", "fatal"} => s.page <= PageLimit(r)
  /\ s.at = "send" <=> s.out # <<>>

RunSizes(s) ==
  /\ s.at = "idle" => s.batch = <<>>
  /\ s.at = "select" => Len(s.batch) < BatchSize
  /\ s.at = "flush" => Len(s.batch) \in 1..BatchSize
  /\ s.dupe \in Nat

SizeInv ==
  /\ jobs \in [Ids -> {NoRow} \cup {Row(t) : t \in Texts}]
  /\ ctx \in [Runs -> BOOLEAN] /\ errCh \in [Runs -> {0, 1}]
  /\ \A r \in Runs : /\ ScraperSizes(r, scraper[r]) /\ RunSizes(run[r])
                     /\ Len(jobsCh[r]) <= Buffer

LEMMA PageLimits == ASSUME NEW r \in Runs PROVE PageLimit(r) \in Nat
  BY DiscoveryAssumption DEF PageLimit, LinkedInPages, Pages5

(* A step of the scraper.                                                   *)
LEMMA SizeScraper ==
  ASSUME DiscoveryTypes, SizeInv, NEW r \in Runs, NEW at, NEW page, NEW out,
         GotoScraper(r, at, page, out), ScraperSizes(r, [at |-> at, page |-> page, out |-> out]),
         UNCHANGED <<board, jobs, ctx, run>>, errCh' \in [Runs -> {0, 1}],
         \A o \in Runs : Len(jobsCh'[o]) <= Buffer
  PROVE  SizeInv'
<1> DEFINE s == [at |-> at, page |-> page, out |-> out]
<1>1. \A o \in Runs : scraper'[o] = IF o = r THEN s ELSE scraper[o]
  BY DEF GotoScraper, DiscoveryTypes
<1> HIDE DEF s
<1>2. \A o \in Runs : PageLimit(o)' = PageLimit(o)
  BY DEF PageLimit
<1>3. \A o \in Runs : ScraperSizes(o, scraper[o])' <=> ScraperSizes(o, scraper'[o])
  BY <1>2 DEF ScraperSizes
<1>4. ScraperSizes(r, s)
  BY DEF s
<1>5. \A o \in Runs : ScraperSizes(o, scraper[o])'
  BY <1>1, <1>3, <1>4 DEF SizeInv
<1> QED BY <1>5 DEF SizeInv, RunSizes

(* A step of the consumer.                                                  *)
LEMMA SizeRun ==
  ASSUME DiscoveryTypes, SizeInv, NEW r \in Runs, NEW s,
         run' = [run EXCEPT ![r] = s], RunSizes(s), UNCHANGED <<board, ctx, scraper, errCh>>,
         jobs' \in [Ids -> {NoRow} \cup {Row(t) : t \in Texts}],
         \A o \in Runs : Len(jobsCh'[o]) <= Buffer
  PROVE  SizeInv'
<1>1. \A o \in Runs : run'[o] = IF o = r THEN s ELSE run[o]
  BY DEF DiscoveryTypes
<1>2. \A o \in Runs : RunSizes(run'[o])
  BY <1>1 DEF SizeInv
<1>3. \A o \in Runs : ScraperSizes(o, scraper[o])'
  BY DEF SizeInv, ScraperSizes, PageLimit
<1> QED BY <1>2, <1>3 DEF SizeInv

LEMMA SizeFlushThen ==
  ASSUME DiscoveryTypes, SizeInv, NEW r \in Runs,
         NEW batch \in Seq(Posting), NEW then \in {"select", "done", "cancelled"},
         FlushThen(r, batch, then), Len(batch) <= BatchSize, UNCHANGED <<board, jobs, ctx, scraper, errCh>>,
         \A o \in Runs : Len(jobsCh'[o]) <= Buffer
  PROVE  SizeInv'
<1> DEFINE at == IF batch = <<>> THEN then ELSE "flush"
           s == [run[r] EXCEPT !.at = at, !.then = then, !.batch = batch]
<1>1. run \in [Runs -> RunState] /\ run[r] \in RunState
  BY DEF DiscoveryTypes
<1>2. run' = [run EXCEPT ![r] = s] /\ s.at = at /\ s.batch = batch
      /\ s.dupe = run[r].dupe
  BY <1>1 DEF FlushThen, RunState
<1>3. Len(batch) \in Nat /\ (batch = <<>> => Len(batch) = 0) /\ (batch # <<>> => Len(batch) # 0)
      /\ BatchSize \in Nat /\ BatchSize > 0
  BY EmptySeq, DiscoveryAssumption
<1> HIDE DEF s
<1>4. RunSizes(s)
  BY <1>2, <1>3 DEF RunSizes, SizeInv
<1> QED BY <1>2, <1>4, SizeRun DEF SizeInv

(* As many ids as postings, or fewer.                                       *)
LEMMA IdsCount ==
  ASSUME NEW b \in Seq(Posting), NEW fresh \in SUBSET IdsOf(b)
  PROVE  Cardinality(fresh) \in Nat /\ Cardinality(fresh) <= Len(b)
<1> DEFINE f == [k \in 1..Len(b) |-> b[k].id]
<1>1. Len(b) \in Nat /\ DOMAIN b = 1..Len(b)
  OBVIOUS
<1>2. IsFiniteSet(1..Len(b)) /\ Cardinality(1..Len(b)) = Len(b)
  BY <1>1, FS_Interval, SMTT(30)
<1>3. IdsOf(b) = {f[k] : k \in 1..Len(b)}
  BY <1>1 DEF IdsOf
<1>4. f \in Surjection(1..Len(b), IdsOf(b))
  BY <1>3 DEF Surjection
<1>5. IsFiniteSet(IdsOf(b)) /\ Cardinality(IdsOf(b)) <= Len(b)
  BY <1>2, <1>4, FS_Surjection
<1>6. Cardinality(fresh) <= Cardinality(IdsOf(b)) /\ Cardinality(fresh) \in Nat /\ Cardinality(IdsOf(b)) \in Nat
  BY <1>5, FS_Subset, FS_CardinalityType
<1> QED BY <1>1, <1>5, <1>6

LEMMA SizeFlushed ==
  ASSUME DiscoveryTypes, SizeInv, NEW r \in Runs, run[r].at = "flush",
         NEW dupes \in Nat, NEW fresh \in SUBSET Ids, Flushed(r, fresh, dupes),
         Cardinality(fresh) \in Nat,
         UNCHANGED <<board, ctx, scraper, jobsCh, errCh>>,
         jobs' \in [Ids -> {NoRow} \cup {Row(t) : t \in Texts}]
  PROVE  SizeInv'
<1> DEFINE s == [at |-> run[r].then, then |-> run[r].then, batch |-> <<>>, row |-> 0, fresh |-> {},
                 new |-> run[r].new + Cardinality(fresh), dupe |-> run[r].dupe + dupes,
                 counted |-> run[r].counted \cup fresh]
<1>1. run \in [Runs -> RunState] /\ run[r].then \in {"select", "done", "cancelled"}
  BY DEF DiscoveryTypes, RunState
<1>2. run' = [run EXCEPT ![r] = s]
  BY <1>1 DEF Flushed
<1>3. run[r].dupe \in Nat /\ BatchSize \in Nat /\ BatchSize > 0
  BY DiscoveryAssumption DEF SizeInv, RunSizes
<1>4. s.batch = <<>> /\ s.at \in {"select", "done", "cancelled"} /\ s.dupe \in Nat
  BY <1>1, <1>3
<1> HIDE DEF s
<1>5. RunSizes(s)
  BY <1>3, <1>4 DEF RunSizes
<1> QED BY <1>2, <1>5, SizeRun DEF SizeInv

LEMMA SizeScrape ==
  ASSUME DiscoveryTypes, SizeInv, NEW r \in Runs, Scrape(r) PROVE SizeInv'
<1>1. /\ scraper[r] \in ScraperState /\ scraper[r].page \in Nat /\ ScraperSizes(r, scraper[r])
      /\ PageLimit(r) \in Nat
      /\ errCh \in [Runs -> {0, 1}] /\ \A o \in Runs : Len(jobsCh[o]) <= Buffer
  BY PageLimits DEF DiscoveryTypes, ScraperState, SizeInv
<1>2. scraper[r].page \in 1..(PageLimit(r) + 1)
  BY <1>1 DEF ScraperSizes
<1>3. ScraperSizes(r, [at |-> "closed", page |-> scraper[r].page, out |-> <<>>])
  BY <1>2 DEF ScraperSizes
<1>4. scraper[r].page <= PageLimit(r)
        => /\ ScraperSizes(r, [at |-> "fetch", page |-> scraper[r].page + 1, out |-> <<>>])
           /\ \A at \in {"error", "fatal"} :
                ScraperSizes(r, [at |-> at, page |-> scraper[r].page, out |-> <<>>])
           /\ \A out \in Seq(Posting) : out # <<>> =>
                ScraperSizes(r, [at |-> "send", page |-> scraper[r].page, out |-> out])
  BY <1>1, <1>2 DEF ScraperSizes
<1>5. CASE Return(r)
  BY <1>1, <1>3, <1>5, SizeScraper DEF Return
<1>6. CASE ReadPage(r)
  <2>1. PICK page \in Pages :
          GotoScraper(r, IF Parsed(board, page) = <<>> THEN "closed" ELSE "send",
                      scraper[r].page, Parsed(board, page))
    BY <1>6 DEF ReadPage
  <2> DEFINE out == Parsed(board, page)
  <2>2. out \in Seq(Posting)
    BY ParsedPostings DEF DiscoveryTypes
  <2>3. GotoScraper(r, IF out = <<>> THEN "closed" ELSE "send", scraper[r].page, out)
    BY <2>1
  <2>4. scraper[r].page <= PageLimit(r) /\ UNCHANGED <<board, jobs, ctx, jobsCh, errCh, run>>
    BY <1>6 DEF ReadPage
  <2> HIDE DEF out
  <2>5. CASE out = <<>>
    <3>1. GotoScraper(r, "closed", scraper[r].page, <<>>)
      BY <2>3, <2>5
    <3> QED BY <1>1, <1>3, <2>4, <3>1, SizeScraper
  <2>6. CASE out # <<>>
    <3>1. GotoScraper(r, "send", scraper[r].page, out)
      BY <2>3, <2>6
    <3>2. ScraperSizes(r, [at |-> "send", page |-> scraper[r].page, out |-> out])
      BY <1>4, <2>2, <2>4, <2>6
    <3> QED BY <1>1, <2>4, <3>1, <3>2, SizeScraper
  <2> QED BY <2>5, <2>6
<1>7. CASE PageFails(r)
  <2>1. scraper[r].page <= PageLimit(r) /\ UNCHANGED <<board, jobs, ctx, jobsCh, run>>
    BY <1>7 DEF PageFails
  <2>2. /\ errCh' = errCh \/ errCh' = [errCh EXCEPT ![r] = 1]
        /\ \/ \E at \in {"error", "fatal", "closed"} : GotoScraper(r, at, scraper[r].page, <<>>)
           \/ GotoScraper(r, "fetch", scraper[r].page + 1, <<>>)
    BY <1>7 DEF PageFails, IndeedSearch, ZipRecruiterSearch, LinkedInSearch, GlassdoorSearch,
                ThenSend, NextPage
  <2>3. errCh' \in [Runs -> {0, 1}] /\ \A o \in Runs : Len(jobsCh'[o]) <= Buffer
    BY <1>1, <2>1, <2>2
  <2>4. ASSUME NEW at \in {"error", "fatal", "closed"}, GotoScraper(r, at, scraper[r].page, <<>>)
        PROVE  SizeInv'
    <3>1. ScraperSizes(r, [at |-> at, page |-> scraper[r].page, out |-> <<>>])
      BY <1>3, <1>4, <2>1
    <3> QED BY <2>1, <2>3, <2>4, <3>1, SizeScraper
  <2>5. CASE GotoScraper(r, "fetch", scraper[r].page + 1, <<>>)
    BY <1>4, <2>1, <2>3, <2>5, SizeScraper
  <2> QED BY <2>2, <2>4, <2>5
<1>8. CASE SendError(r)
  <2>1. /\ scraper[r].page <= PageLimit(r) /\ UNCHANGED <<board, jobs, ctx, jobsCh, run>>
        /\ errCh' = [errCh EXCEPT ![r] = 1]
    BY <1>1, <1>8 DEF SendError, ScraperSizes
  <2>2. \/ GotoScraper(r, "closed", scraper[r].page, <<>>)
        \/ GotoScraper(r, "fetch", scraper[r].page + 1, <<>>)
    BY <1>8 DEF SendError, NextPage
  <2>3. errCh' \in [Runs -> {0, 1}] /\ \A o \in Runs : Len(jobsCh'[o]) <= Buffer
    BY <1>1, <2>1
  <2> QED BY <1>3, <1>4, <2>1, <2>2, <2>3, SizeScraper
<1>9. CASE SendJob(r)
  <2> DEFINE job == Head(scraper[r].out)  rest == Tail(scraper[r].out)
  <2>1. /\ scraper[r].page <= PageLimit(r) /\ UNCHANGED <<board, jobs, ctx, errCh, run>>
        /\ scraper[r].out # <<>> /\ scraper[r].out \in Seq(Posting)
        /\ jobsCh[r] \in Seq(Posting) /\ Len(jobsCh[r]) < Buffer
        /\ jobsCh' = [jobsCh EXCEPT ![r] = Append(jobsCh[r], job)]
    BY <1>1, <1>9 DEF SendJob, ScraperSizes, ScraperState, DiscoveryTypes
  <2>2. job \in Posting /\ rest \in Seq(Posting)
    BY <2>1, IdsOfSequences
  <2>3. \/ rest = <<>> /\ GotoScraper(r, "fetch", scraper[r].page + 1, <<>>)
        \/ rest # <<>> /\ GotoScraper(r, "send", scraper[r].page, rest)
    BY <1>9 DEF SendJob, NextPage
  <2> HIDE DEF job, rest
  <2>4. Len(Append(jobsCh[r], job)) <= Buffer
    <3>1. Len(Append(jobsCh[r], job)) = Len(jobsCh[r]) + 1 /\ Len(jobsCh[r]) \in Nat
      BY <2>1, <2>2, AppendProperties
    <3> QED BY <2>1, <3>1, DiscoveryAssumption
  <2>5. \A o \in Runs : Len(jobsCh'[o]) <= Buffer
    BY <1>1, <2>1, <2>4 DEF DiscoveryTypes
  <2>6. errCh' \in [Runs -> {0, 1}]
    BY <1>1, <2>1
  <2>7. CASE rest = <<>> /\ GotoScraper(r, "fetch", scraper[r].page + 1, <<>>)
    BY <1>4, <2>1, <2>5, <2>6, <2>7, SizeScraper
  <2>8. CASE rest # <<>> /\ GotoScraper(r, "send", scraper[r].page, rest)
    <3>1. ScraperSizes(r, [at |-> "send", page |-> scraper[r].page, out |-> rest])
      BY <1>4, <2>1, <2>2, <2>8
    <3> QED BY <2>1, <2>5, <2>6, <2>8, <3>1, SizeScraper
  <2> QED BY <2>3, <2>7, <2>8
<1>10. CASE StopSending(r)
  BY <1>1, <1>3, <1>10, SizeScraper DEF StopSending
<1> QED BY <1>5, <1>6, <1>7, <1>8, <1>9, <1>10 DEF Scrape

LEMMA SizeConsume ==
  ASSUME DiscoveryTypes, CountInv, SizeInv, NEW r \in Runs, Consume(r) PROVE SizeInv'
<1>1. /\ run \in [Runs -> RunState] /\ run[r] \in RunState /\ RunSizes(run[r]) /\ RunCounts(run[r])
      /\ run[r].batch \in Seq(Posting) /\ Len(run[r].batch) \in Nat /\ run[r].row \in Nat
      /\ jobsCh \in [Runs -> Seq(Posting)] /\ \A o \in Runs : Len(jobsCh[o]) <= Buffer
      /\ jobs \in [Ids -> {NoRow} \cup {Row(t) : t \in Texts}]
      /\ BatchSize \in Nat /\ BatchSize > 0
  BY DiscoveryAssumption, SMTT(30) DEF DiscoveryTypes, RunState, SizeInv, CountInv
<1>2. CASE ReceiveJob(r)
  <2> DEFINE job == Head(jobsCh[r])  rest == Tail(jobsCh[r])  batch == Append(run[r].batch, job)
  <2>1. /\ run[r].at = "select" /\ jobsCh[r] # <<>> /\ jobsCh[r] \in Seq(Posting)
        /\ UNCHANGED <<board, jobs, ctx, scraper, errCh>>
        /\ jobsCh' = [jobsCh EXCEPT ![r] = rest]
        /\ \/ FlushThen(r, batch, "select")
           \/ run' = [run EXCEPT ![r].batch = batch] /\ ~ (Len(batch) >= BatchSize)
    BY <1>1, <1>2 DEF ReceiveJob
  <2>2. job \in Posting /\ Len(rest) <= Len(jobsCh[r]) /\ Len(rest) \in Nat
    BY <2>1, HeadTailProperties
  <2>3. batch \in Seq(Posting) /\ Len(batch) = Len(run[r].batch) + 1
    BY <1>1, <2>2, AppendProperties
  <2> HIDE DEF job, rest, batch
  <2>4. Len(batch) <= BatchSize
    BY <1>1, <2>1, <2>3 DEF RunSizes
  <2>5. \A o \in Runs : Len(jobsCh'[o]) <= Buffer
    <3>1. Len(rest) <= Buffer
      BY <1>1, <2>1, <2>2, DiscoveryAssumption
    <3> QED BY <1>1, <2>1, <3>1
  <2>6. CASE FlushThen(r, batch, "select")
    BY <2>1, <2>3, <2>4, <2>5, <2>6, SizeFlushThen
  <2>7. CASE run' = [run EXCEPT ![r].batch = batch] /\ ~ (Len(batch) >= BatchSize)
    <3> DEFINE s == [run[r] EXCEPT !.batch = batch]
    <3>1. run' = [run EXCEPT ![r] = s]
      BY <1>1, <2>7
    <3>2. /\ s.batch = batch /\ s.at = "select" /\ s.dupe = run[r].dupe
      BY <1>1, <2>1 DEF RunState
    <3> HIDE DEF s
    <3>3. Len(batch) < BatchSize
      BY <1>1, <2>3, <2>7
    <3>4. RunSizes(s)
      BY <1>1, <3>2, <3>3 DEF RunSizes
    <3> QED BY <1>1, <2>1, <2>5, <3>1, <3>4, SizeRun
  <2> QED BY <2>1, <2>6, <2>7
<1>3. CASE ReceiveError(r)
  <2>1. errCh' = [errCh EXCEPT ![r] = 0] /\ UNCHANGED <<board, jobs, ctx, scraper, jobsCh, run>>
    BY <1>3 DEF ReceiveError
  <2>2. errCh' \in [Runs -> {0, 1}]
    BY <2>1 DEF SizeInv
  <2> QED BY <2>1, <2>2 DEF SizeInv, ScraperSizes, PageLimit, RunSizes
<1>4. CASE ReceiveClosed(r) \/ Cancelled(r)
  <2>1. /\ run[r].at = "select" /\ UNCHANGED <<board, jobs, ctx, scraper, jobsCh, errCh>>
        /\ FlushThen(r, run[r].batch, "done") \/ FlushThen(r, run[r].batch, "cancelled")
    BY <1>4 DEF ReceiveClosed, Cancelled
  <2>2. Len(run[r].batch) <= BatchSize
    BY <1>1, <2>1 DEF RunSizes
  <2> QED BY <1>1, <2>1, <2>2, SizeFlushThen
<1>5. CASE UpsertRow(r)
  <2> DEFINE fresh == IF NextId(r) \in Stored THEN run[r].fresh ELSE run[r].fresh \cup {NextId(r)}
             s == [run[r] EXCEPT !.row = run[r].row + 1, !.fresh = fresh]
  <2>1. /\ run' = [run EXCEPT ![r] = s] /\ s.at = run[r].at /\ s.batch = run[r].batch
        /\ s.dupe = run[r].dupe
    BY <1>1, <1>5 DEF UpsertRow, RunState
  <2> HIDE DEF s
  <2>2. RunSizes(s)
    BY <1>1, <2>1 DEF RunSizes
  <2>3. UNCHANGED <<board, jobs, ctx, scraper, jobsCh, errCh>>
    BY <1>5 DEF UpsertRow
  <2> QED BY <1>1, <2>1, <2>2, <2>3, SizeRun
<1>6. CASE Commit(r)
  <2>1. /\ run[r].at = "flush" /\ run[r].fresh \subseteq IdsOf(run[r].batch)
        /\ run[r].fresh \in SUBSET Ids
    <3>1. run[r].fresh \subseteq HeldBy(run[r]) /\ run[r].row <= Len(run[r].batch)
      BY DEF CountInv, RunCounts
    <3>2. HeldBy(run[r]) \subseteq IdsOf(run[r].batch)
      BY <1>1, <3>1, HeldRows
    <3> QED BY <1>1, <1>6, <3>1, <3>2 DEF Commit, RunState
  <2>2. Cardinality(run[r].fresh) \in Nat /\ Cardinality(run[r].fresh) <= Len(run[r].batch)
    BY <1>1, <2>1, IdsCount
  <2>3. jobs' \in [Ids -> {NoRow} \cup {Row(t) : t \in Texts}]
    <3>1. jobs' = [i \in Ids |-> IF i \in IdsOf(run[r].batch) THEN Row(LastText(run[r].batch, i))
                                                             ELSE jobs[i]]
      BY <1>6 DEF Commit
    <3>2. \A i \in IdsOf(run[r].batch) : LastText(run[r].batch, i) \in Texts
      BY <1>1, LastTextIsText
    <3> QED BY <1>1, <3>1, <3>2
  <2>4. UNCHANGED <<board, ctx, scraper, jobsCh, errCh>>
    BY <1>6 DEF Commit
  <2>5. Cardinality({}) \in Nat /\ Cardinality({}) <= 0 /\ {} \in SUBSET Ids
    BY FS_EmptySet
  <2>6. Flushed(r, run[r].fresh, Len(run[r].batch) - Cardinality(run[r].fresh)) \/ Flushed(r, {}, 0)
    BY <1>6 DEF Commit
  <2>7. CASE Flushed(r, run[r].fresh, Len(run[r].batch) - Cardinality(run[r].fresh))
    BY <1>1, <2>1, <2>2, <2>3, <2>4, <2>7, SizeFlushed
  <2>8. CASE Flushed(r, {}, 0)
    BY <2>1, <2>3, <2>4, <2>5, <2>8, SizeFlushed
  <2> QED BY <2>6, <2>7, <2>8
<1>7. CASE Rollback(r)
  <2>1. /\ run[r].at = "flush" /\ Flushed(r, {}, 0)
        /\ UNCHANGED <<board, jobs, ctx, scraper, jobsCh, errCh>>
    BY <1>7 DEF Rollback
  <2>2. Cardinality({}) \in Nat /\ Cardinality({}) <= 0 /\ {} \in SUBSET Ids
    BY FS_EmptySet
  <2> QED BY <1>1, <2>1, <2>2, SizeFlushed
<1> QED BY <1>2, <1>3, <1>4, <1>5, <1>6, <1>7 DEF Consume

LEMMA SizeInit == DiscoveryInit => SizeInv
<1> SUFFICES ASSUME DiscoveryInit PROVE SizeInv
  OBVIOUS
<1>1. ASSUME NEW r \in Runs
      PROVE  /\ scraper[r] = [at |-> "closed", page |-> 1, out |-> <<>>]
             /\ run[r].at = "idle" /\ run[r].batch = <<>> /\ run[r].dupe = 0
             /\ jobsCh[r] = <<>>
  BY DEF DiscoveryInit
<1>2. ASSUME NEW r \in Runs
      PROVE  ScraperSizes(r, scraper[r]) /\ RunSizes(run[r]) /\ Len(jobsCh[r]) <= Buffer
  BY <1>1, <1>2, PageLimits, DiscoveryAssumption DEF ScraperSizes, RunSizes
<1>3. /\ jobs \in [Ids -> {NoRow} \cup {Row(t) : t \in Texts}]
      /\ ctx \in [Runs -> BOOLEAN] /\ errCh \in [Runs -> {0, 1}]
  BY DEF DiscoveryInit
<1> QED BY <1>2, <1>3 DEF SizeInv

LEMMA SizeNext ==
  DiscoveryInv /\ CountInv /\ SizeInv /\ [DiscoveryNext]_discoveryVars => SizeInv'
<1> SUFFICES ASSUME DiscoveryInv, CountInv, SizeInv, [DiscoveryNext]_discoveryVars PROVE SizeInv'
  OBVIOUS
<1>1. DiscoveryTypes
  BY DEF DiscoveryInv
<1>2. ASSUME NEW r \in Runs, Discover(r) PROVE SizeInv'
  <2> DEFINE s == [run[r] EXCEPT !.at = "select"]
  <2>1. run \in [Runs -> RunState] /\ run[r] \in RunState /\ run[r].at = "idle" /\ RunSizes(run[r])
    BY <1>1, <1>2 DEF DiscoveryTypes, SizeInv, Discover
  <2>2. /\ s.at = "select" /\ s.batch = <<>> /\ s.dupe = run[r].dupe
        /\ run' = [run EXCEPT ![r] = s]
    BY <1>2, <2>1 DEF Discover, RunSizes, RunState
  <2> HIDE DEF s
  <2>3. RunSizes(s)
    <3>1. Len(s.batch) < BatchSize
      BY <2>2, DiscoveryAssumption
    <3> QED BY <2>1, <2>2, <3>1 DEF RunSizes
  <2>4. /\ scraper' = [scraper EXCEPT ![r] = [at |-> "fetch", page |-> 1, out |-> <<>>]]
        /\ UNCHANGED <<board, jobs, ctx, jobsCh, errCh>>
    BY <1>2 DEF Discover, GotoScraper
  <2>5. ScraperSizes(r, [at |-> "fetch", page |-> 1, out |-> <<>>])
    BY PageLimits DEF ScraperSizes
  <2>6. \A o \in Runs : /\ run'[o] = IF o = r THEN s ELSE run[o]
                        /\ scraper'[o] = IF o = r THEN [at |-> "fetch", page |-> 1, out |-> <<>>]
                                                  ELSE scraper[o]
    BY <1>1, <2>2, <2>4 DEF DiscoveryTypes
  <2>7. \A o \in Runs : ScraperSizes(o, scraper[o])' <=> ScraperSizes(o, scraper'[o])
    BY <2>4 DEF ScraperSizes, PageLimit
  <2>8. \A o \in Runs : ScraperSizes(o, scraper[o])' /\ RunSizes(run'[o])
    BY <2>3, <2>5, <2>6, <2>7 DEF SizeInv
  <2> QED BY <2>4, <2>8 DEF SizeInv
<1>3. ASSUME NEW r \in Runs, ContextEnds(r) PROVE SizeInv'
  <2>1. ctx' = [ctx EXCEPT ![r] = FALSE] /\ UNCHANGED <<board, jobs, scraper, jobsCh, errCh, run>>
    BY <1>3 DEF ContextEnds
  <2>2. ctx' \in [Runs -> BOOLEAN]
    BY <2>1 DEF SizeInv
  <2> QED BY <2>1, <2>2 DEF SizeInv, ScraperSizes, PageLimit, RunSizes
<1>4. CASE UNCHANGED discoveryVars
  BY <1>4 DEF discoveryVars, SizeInv, ScraperSizes, PageLimit, RunSizes
<1> QED BY <1>1, <1>2, <1>3, <1>4, SizeScrape, SizeConsume DEF DiscoveryNext

LEMMA SizeInvariance == DiscoverySpec => []SizeInv
  BY SizeInit, SizeNext, CountInvariance, DiscoveryInvariance, PTL DEF DiscoverySpec

(* DiscoveryTypeOK: a channel never holds more than its buffer, a batch     *)
(* never more than a batch, and no more rows are locked than it has.        *)
THEOREM DiscoveryTypesHold == DiscoverySpec => []DiscoveryTypeOK
<1>1. DiscoveryInv /\ CountInv /\ SizeInv => DiscoveryTypeOK
  <2> SUFFICES ASSUME DiscoveryInv, CountInv, SizeInv PROVE DiscoveryTypeOK
    OBVIOUS
  <2>1. /\ board \in Boards /\ jobs \in [Ids -> {NoRow} \cup {Row(t) : t \in Texts}]
        /\ ctx \in [Runs -> BOOLEAN] /\ errCh \in [Runs -> {0, 1}]
        /\ sent \in [Runs -> SUBSET Ids] /\ dropped \in [Runs -> SUBSET Ids]
    BY DEF DiscoveryInv, DiscoveryTypes, SizeInv
  <2>2. ASSUME NEW r \in Runs
        PROVE  /\ scraper[r].at \in {"fetch", "send", "error", "fatal", "closed"}
               /\ scraper[r].page \in 1..(PageLimit(r) + 1) /\ scraper[r].out \in Seq(Posting)
               /\ (scraper[r].at = "send") <=> (scraper[r].out # <<>>)
               /\ jobsCh[r] \in Seq(Posting) /\ Len(jobsCh[r]) <= Buffer
    <3>1. scraper[r] \in ScraperState /\ jobsCh[r] \in Seq(Posting)
      BY DEF DiscoveryInv, DiscoveryTypes
    <3>2. ScraperSizes(r, scraper[r]) /\ Len(jobsCh[r]) <= Buffer
      BY DEF SizeInv
    <3> QED BY <3>1, <3>2 DEF ScraperState, ScraperSizes
  <2>3. ASSUME NEW r \in Runs
        PROVE  /\ run[r].at \in {"idle", "select", "flush"} \cup Finished
               /\ run[r].batch \in Seq(Posting) /\ run[r].row \in 0..Len(run[r].batch)
               /\ run[r].at = "select" => Len(run[r].batch) < BatchSize
               /\ run[r].at = "flush" => Len(run[r].batch) \in 1..BatchSize
               /\ run[r].fresh \subseteq IdsOf(run[r].batch)
               /\ run[r].new \in Nat /\ run[r].dupe \in Nat
    <3>1. run[r] \in RunState
      BY DEF DiscoveryInv, DiscoveryTypes
    <3>2. RunCounts(run[r]) /\ run[r].fresh \subseteq HeldBy(run[r]) /\ RunSizes(run[r])
      BY DEF CountInv, SizeInv
    <3>3. run[r].row <= Len(run[r].batch)
      BY <3>2 DEF RunCounts
    <3>4. run[r].fresh \subseteq IdsOf(run[r].batch)
      BY <3>1, <3>2, <3>3, HeldRows
    <3> QED BY <3>1, <3>2, <3>3, <3>4 DEF RunState, RunSizes, Finished
  <2> QED BY <2>1, <2>2, <2>3 DEF DiscoveryTypeOK
<1> QED BY <1>1, DiscoveryInvariance, CountInvariance, SizeInvariance, PTL

-----------------------------------------------------------------------------
(* What is accounted for. While no batch of a run has failed, its counts    *)
(* and what it has on its way cover everything it was sent.                 *)
Covered(r) ==
  dropped[r] = {} =>
    Cardinality(sent[r]) <= run[r].new + run[r].dupe + Len(run[r].batch) + Len(jobsCh[r])

FoundInv == \A r \in Runs : Covered(r)

LEMMA SumIsNumber == \A a \in Nat, b \in Int, c \in Nat, d \in Nat : a + b + c + d \in Int
  OBVIOUS

(* A consumer's or scraper's step of run r that loses nothing.              *)
LEMMA CoveredKept ==
  ASSUME DiscoveryTypes, DiscoveryTypes', FoundInv, NEW r \in Runs, NEW more \in {0, 1},
         \A o \in Runs \ {r} : /\ run'[o] = run[o] /\ jobsCh'[o] = jobsCh[o]
                              /\ sent'[o] = sent[o] /\ dropped'[o] = dropped[o],
         dropped'[r] = {} =>
           /\ dropped[r] = {} /\ Cardinality(sent'[r]) <= Cardinality(sent[r]) + more
           /\ run'[r].new + run'[r].dupe + Len(run'[r].batch) + Len(jobsCh'[r])
                = run[r].new + run[r].dupe + Len(run[r].batch) + Len(jobsCh[r]) + more
  PROVE  FoundInv'
<1>1. ASSUME NEW o \in Runs \ {r} PROVE Covered(o)'
  BY DEF FoundInv, Covered
<1>2. Covered(r)'
  <2>1. SUFFICES ASSUME dropped'[r] = {}
        PROVE  Cardinality(sent'[r]) <= run'[r].new + run'[r].dupe + Len(run'[r].batch) + Len(jobsCh'[r])
    BY DEF Covered
  <2>2. /\ run[r].new \in Nat /\ run[r].dupe \in Int /\ Len(run[r].batch) \in Nat /\ Len(jobsCh[r]) \in Nat
        /\ sent[r] \in SUBSET Ids /\ sent'[r] \in SUBSET Ids
    BY DEF DiscoveryTypes, RunState
  <2>3. Cardinality(sent[r]) \in Nat /\ Cardinality(sent'[r]) \in Nat
    BY <2>2, DiscoveryAssumption, FS_Subset, FS_CardinalityType
  <2>4. Cardinality(sent[r]) <= run[r].new + run[r].dupe + Len(run[r].batch) + Len(jobsCh[r])
    BY <2>1 DEF FoundInv, Covered
  <2> DEFINE old == run[r].new + run[r].dupe + Len(run[r].batch) + Len(jobsCh[r])
             new == run'[r].new + run'[r].dupe + Len(run'[r].batch) + Len(jobsCh'[r])
  <2>5. old \in Int
    BY <2>2, SumIsNumber, Zenon
  <2>6. dropped'[r] = {} => Cardinality(sent'[r]) <= Cardinality(sent[r]) + more /\ new = old + more
    OBVIOUS
  <2>7. Cardinality(sent[r]) <= old
    BY <2>4
  <2>8. SUFFICES Cardinality(sent'[r]) <= new
    OBVIOUS
  <2> HIDE DEF old, new
  <2> QED BY <2>1, <2>3, <2>5, <2>6, <2>7
<1> QED BY <1>1, <1>2 DEF FoundInv

(* The batch of a transaction that succeeds is counted, new or not; of one  *)
(* that fails the ids are dropped.                                          *)
LEMMA CoveredFlushed ==
  ASSUME DiscoveryTypes, DiscoveryTypes', FoundInv, SizeInv, NEW r \in Runs, run[r].at = "flush",
         UNCHANGED <<jobsCh, sent>>,
         \/ /\ dropped' = dropped
            /\ Flushed(r, run[r].fresh, Len(run[r].batch) - Cardinality(run[r].fresh))
         \/ /\ dropped' = [dropped EXCEPT ![r] = @ \cup IdsOf(run[r].batch)]
            /\ Flushed(r, {}, 0)
  PROVE  FoundInv'
<1>1. /\ run \in [Runs -> RunState] /\ run[r] \in RunState /\ run[r].batch \in Seq(Posting)
      /\ run[r].new \in Nat /\ run[r].dupe \in Int /\ Len(run[r].batch) \in Nat
      /\ Len(jobsCh[r]) \in Nat /\ dropped \in [Runs -> SUBSET Ids] /\ sent[r] \in SUBSET Ids
      /\ run[r].fresh \in SUBSET Ids
  BY DEF DiscoveryTypes, RunState
<1>2. Cardinality(run[r].fresh) \in Nat /\ Cardinality(sent[r]) \in Nat
  BY <1>1, DiscoveryAssumption, FS_Subset, FS_CardinalityType
<1>3. \A o \in Runs \ {r} : /\ run'[o] = run[o] /\ jobsCh'[o] = jobsCh[o]
                           /\ sent'[o] = sent[o] /\ dropped'[o] = dropped[o]
  BY <1>1 DEF Flushed
<1>4. CASE /\ dropped' = dropped
           /\ Flushed(r, run[r].fresh, Len(run[r].batch) - Cardinality(run[r].fresh))
  <2>1. /\ run'[r].new = run[r].new + Cardinality(run[r].fresh)
        /\ run'[r].dupe = run[r].dupe + (Len(run[r].batch) - Cardinality(run[r].fresh))
        /\ run'[r].batch = <<>>
    BY <1>1, <1>4 DEF Flushed
  <2>2. Len(run'[r].batch) = 0
    BY <2>1
  <2>3. run'[r].new + run'[r].dupe + Len(run'[r].batch) + Len(jobsCh'[r])
          = run[r].new + run[r].dupe + Len(run[r].batch) + Len(jobsCh[r]) + 0
    BY <1>1, <1>2, <2>1, <2>2
  <2>4. Cardinality(sent'[r]) <= Cardinality(sent[r]) + 0
    BY <1>2
  <2> QED BY <1>3, <1>4, <2>3, <2>4, CoveredKept
<1>5. CASE dropped' = [dropped EXCEPT ![r] = @ \cup IdsOf(run[r].batch)]
  <2>1. run[r].batch # <<>>
    BY <1>1 DEF SizeInv, RunSizes
  <2>2. IdsOf(run[r].batch) # {}
    BY <1>1, <2>1, IdsOfSequences
  <2>3. dropped'[r] # {}
    BY <1>1, <1>5, <2>2
  <2>4. Covered(r)'
    BY <2>3 DEF Covered
  <2>5. ASSUME NEW o \in Runs \ {r} PROVE Covered(o)'
    BY <1>3 DEF FoundInv, Covered
  <2> QED BY <2>4, <2>5 DEF FoundInv
<1> QED BY <1>4, <1>5

LEMMA CoveredSame ==
  ASSUME FoundInv, UNCHANGED <<run, jobsCh, sent, dropped>> PROVE FoundInv'
  BY DEF FoundInv, Covered

(* What run r accounts for, in names the arithmetic can be done with.       *)
LEMMA TotalsAre ==
  ASSUME NEW r \in Runs, run[r].new \in Nat, run[r].dupe \in Int, Len(run[r].batch) \in Nat,
         Len(jobsCh[r]) \in Nat, NEW b \in Int, NEW c \in Int,
         run'[r].new = run[r].new, run'[r].dupe = run[r].dupe,
         Len(run'[r].batch) = Len(run[r].batch) + b, Len(jobsCh'[r]) = Len(jobsCh[r]) + c
  PROVE  run'[r].new + run'[r].dupe + Len(run'[r].batch) + Len(jobsCh'[r])
           = run[r].new + run[r].dupe + Len(run[r].batch) + Len(jobsCh[r]) + (b + c)
<1> DEFINE n == run[r].new
           u == run[r].dupe
           m == Len(run[r].batch)
           k == Len(jobsCh[r])
<1>1. n \in Nat /\ u \in Int /\ m \in Nat /\ k \in Nat
  OBVIOUS
<1>2. run'[r].new = n /\ run'[r].dupe = u /\ Len(run'[r].batch) = m + b /\ Len(jobsCh'[r]) = k + c
  OBVIOUS
<1> HIDE DEF n, u, m, k
<1>3. n + u + (m + b) + (k + c) = n + u + m + k + (b + c)
  BY <1>1
<1>4. run'[r].new + run'[r].dupe + Len(run'[r].batch) + Len(jobsCh'[r]) = n + u + m + k + (b + c)
  BY <1>2, <1>3
<1> QED BY <1>4 DEF n, u, m, k

(* A posting is one more that was sent, and one more in the channel.        *)
LEMMA CoveredSendJob ==
  ASSUME DiscoveryTypes, DiscoveryTypes', RunInv, FoundInv, NEW r \in Runs, SendJob(r) PROVE FoundInv'
<1> DEFINE posting == Head(scraper[r].out)
<1>1. /\ scraper[r].out \in Seq(Posting) /\ scraper[r].out # <<>> /\ jobsCh \in [Runs -> Seq(Posting)]
      /\ sent \in [Runs -> SUBSET Ids] /\ run[r].new \in Nat /\ run[r].dupe \in Int
      /\ Len(run[r].batch) \in Nat
  BY DEF SendJob, DiscoveryTypes, ScraperState, RunState, RunInv
<1>2. posting \in Posting
  BY <1>1
<1>3. /\ jobsCh' = [jobsCh EXCEPT ![r] = Append(@, posting)] /\ UNCHANGED <<run, dropped>>
      /\ sent' = [sent EXCEPT ![r] = @ \cup {posting.id}]
  BY DEF SendJob
<1>4. posting.id \in Ids
  BY <1>2 DEF Posting
<1> HIDE DEF posting
<1>5. Len(jobsCh'[r]) = Len(jobsCh[r]) + 1 /\ Len(jobsCh[r]) \in Nat
  BY <1>1, <1>2, <1>3
<1>6. Cardinality(sent'[r]) <= Cardinality(sent[r]) + 1
  <2>1. IsFiniteSet(sent[r]) /\ Cardinality(sent[r]) \in Nat
    BY <1>1, DiscoveryAssumption, FS_Subset, FS_CardinalityType
  <2>2. Cardinality(sent[r] \cup {posting.id})
          = IF posting.id \in sent[r] THEN Cardinality(sent[r]) ELSE Cardinality(sent[r]) + 1
    BY <2>1, FS_AddElement
  <2> QED BY <1>1, <1>3, <2>1, <2>2
<1>7. run'[r].new + run'[r].dupe + Len(run'[r].batch) + Len(jobsCh'[r])
        = run[r].new + run[r].dupe + Len(run[r].batch) + Len(jobsCh[r]) + 1
  <2>1. /\ run[r].new \in Nat /\ run[r].dupe \in Int /\ Len(run[r].batch) \in Nat
        /\ run'[r].new = run[r].new /\ run'[r].dupe = run[r].dupe
        /\ Len(run'[r].batch) = Len(run[r].batch) + 0
    BY <1>1, <1>3
  <2>2. /\ Len(jobsCh[r]) \in Nat /\ Len(jobsCh'[r]) = Len(jobsCh[r]) + 1
        /\ 0 \in Int /\ 1 \in Int /\ 0 + 1 = 1
    BY <1>5
  <2> HIDE DEF posting
  <2>3. run'[r].new + run'[r].dupe + Len(run'[r].batch) + Len(jobsCh'[r])
          = run[r].new + run[r].dupe + Len(run[r].batch) + Len(jobsCh[r]) + (0 + 1)
    BY <2>1, <2>2, TotalsAre
  <2> QED BY <2>2, <2>3
<1>8. \A o \in Runs \ {r} : /\ run'[o] = run[o] /\ jobsCh'[o] = jobsCh[o]
                           /\ sent'[o] = sent[o] /\ dropped'[o] = dropped[o]
  BY <1>1, <1>3
<1> QED BY <1>3, <1>6, <1>7, <1>8, CoveredKept

(* A posting moves from the channel to the batch.                           *)
LEMMA CoveredReceiveJob ==
  ASSUME DiscoveryTypes, DiscoveryTypes', FoundInv, NEW r \in Runs, ReceiveJob(r) PROVE FoundInv'
<1> DEFINE batch == Append(run[r].batch, Head(jobsCh[r]))
<1>1. /\ run \in [Runs -> RunState] /\ run[r] \in RunState /\ jobsCh \in [Runs -> Seq(Posting)]
      /\ jobsCh[r] \in Seq(Posting) /\ jobsCh[r] # <<>> /\ run[r].batch \in Seq(Posting)
      /\ run[r].new \in Nat /\ run[r].dupe \in Int /\ sent[r] \in SUBSET Ids
  BY DEF ReceiveJob, DiscoveryTypes, RunState
<1>2. /\ FlushThen(r, batch, "select") \/ run' = [run EXCEPT ![r].batch = batch]
      /\ jobsCh' = [jobsCh EXCEPT ![r] = Tail(@)] /\ UNCHANGED <<sent, dropped>>
  BY DEF ReceiveJob
<1>3. /\ Len(batch) = Len(run[r].batch) + 1 /\ Len(run[r].batch) \in Nat
      /\ Len(Tail(jobsCh[r])) = Len(jobsCh[r]) - 1 /\ Len(jobsCh[r]) \in Nat
  BY <1>1
<1> HIDE DEF batch
<1>4. /\ run'[r].new = run[r].new /\ run'[r].dupe = run[r].dupe /\ run'[r].batch = batch
      /\ \A o \in Runs \ {r} : run'[o] = run[o]
  <2>1. CASE FlushThen(r, batch, "select")
    BY <1>1, <2>1 DEF FlushThen, RunState
  <2>2. CASE run' = [run EXCEPT ![r].batch = batch]
    BY <1>1, <2>2 DEF RunState
  <2> QED BY <1>2, <2>1, <2>2
<1>5. jobsCh'[r] = Tail(jobsCh[r]) /\ \A o \in Runs \ {r} : jobsCh'[o] = jobsCh[o]
  BY <1>1, <1>2
<1>6. run'[r].new + run'[r].dupe + Len(run'[r].batch) + Len(jobsCh'[r])
        = run[r].new + run[r].dupe + Len(run[r].batch) + Len(jobsCh[r]) + 0
  <2>1. /\ Len(run'[r].batch) = Len(run[r].batch) + 1 /\ Len(jobsCh'[r]) = Len(jobsCh[r]) + (-1)
        /\ 1 \in Int /\ -1 \in Int /\ 1 + (-1) = 0
    BY <1>3, <1>4, <1>5
  <2>2. /\ run'[r].new = run[r].new /\ run'[r].dupe = run[r].dupe
        /\ run[r].new \in Nat /\ run[r].dupe \in Int
        /\ Len(run[r].batch) \in Nat /\ Len(jobsCh[r]) \in Nat
    BY <1>1, <1>3, <1>4
  <2>3. run'[r].new + run'[r].dupe + Len(run'[r].batch) + Len(jobsCh'[r])
          = run[r].new + run[r].dupe + Len(run[r].batch) + Len(jobsCh[r]) + (1 + (-1))
    BY <2>1, <2>2, TotalsAre
  <2> QED BY <2>1, <2>3
<1>7. Cardinality(sent'[r]) <= Cardinality(sent[r]) + 0
  <2>1. sent' = sent /\ Cardinality(sent[r]) \in Nat
    BY <1>1, <1>2, DiscoveryAssumption, FS_Subset, FS_CardinalityType
  <2> QED BY <2>1
<1> QED BY <1>2, <1>4, <1>5, <1>6, <1>7, CoveredKept

LEMMA FoundInit == DiscoveryInit => FoundInv
<1> SUFFICES ASSUME DiscoveryInit, NEW r \in Runs PROVE Covered(r)
  BY DEF FoundInv
<1>1. sent[r] = {} /\ jobsCh[r] = <<>> /\ run[r].batch = <<>> /\ run[r].new = 0 /\ run[r].dupe = 0
  BY DEF DiscoveryInit
<1>2. Cardinality({}) = 0 /\ Len(<<>>) = 0
  BY FS_EmptySet
<1> QED BY <1>1, <1>2 DEF Covered

LEMMA FoundNext ==
  ASSUME DiscoveryInv, DiscoveryInv', SizeInv, FoundInv, [DiscoveryNext]_discoveryVars PROVE FoundInv'
<1>1. DiscoveryTypes /\ DiscoveryTypes' /\ RunInv
  BY DEF DiscoveryInv
<1>2. ASSUME NEW r \in Runs, \/ Return(r) \/ ReadPage(r) \/ PageFails(r) \/ SendError(r)
                           \/ StopSending(r) \/ ReceiveError(r) \/ ContextEnds(r)
      PROVE  FoundInv'
  <2>1. UNCHANGED <<run, jobsCh, sent, dropped>>
    BY <1>2 DEF Return, ReadPage, PageFails, SendError, StopSending, ReceiveError, ContextEnds
  <2> QED BY <2>1, CoveredSame
<1>3. ASSUME NEW r \in Runs,
             Discover(r) \/ UpsertRow(r) \/ FlushThen(r, run[r].batch, "done") \/ FlushThen(r, run[r].batch, "cancelled"),
             UNCHANGED <<jobsCh, sent, dropped>>
      PROVE  FoundInv'
  <2>1. run \in [Runs -> RunState]
    BY <1>1 DEF DiscoveryTypes
  <2>2. ASSUME NEW o \in Runs
        PROVE  run'[o].new = run[o].new /\ run'[o].dupe = run[o].dupe /\ run'[o].batch = run[o].batch
    <3>1. CASE Discover(r)
      BY <2>1, <3>1 DEF Discover, RunState
    <3>2. CASE UpsertRow(r)
      BY <2>1, <3>2 DEF UpsertRow, RunState
    <3>3. CASE FlushThen(r, run[r].batch, "done")
      BY <2>1, <3>3 DEF FlushThen, RunState
    <3>4. CASE FlushThen(r, run[r].batch, "cancelled")
      BY <2>1, <3>4 DEF FlushThen, RunState
    <3> QED BY <1>3, <3>1, <3>2, <3>3, <3>4
  <2> QED BY <1>3, <2>2 DEF FoundInv, Covered
<1>4. ASSUME NEW r \in Runs, ReceiveClosed(r) \/ Cancelled(r) PROVE FoundInv'
  BY <1>3, <1>4 DEF ReceiveClosed, Cancelled
<1>5. ASSUME NEW r \in Runs, Discover(r) \/ UpsertRow(r) PROVE FoundInv'
  BY <1>3, <1>5 DEF Discover, UpsertRow
<1>6. ASSUME NEW r \in Runs, Commit(r) \/ Rollback(r) PROVE FoundInv'
  BY <1>1, <1>6, CoveredFlushed DEF Commit, Rollback
<1>7. ASSUME NEW r \in Runs, Scrape(r) PROVE FoundInv'
  BY <1>1, <1>2, <1>7, CoveredSendJob DEF Scrape
<1>8. ASSUME NEW r \in Runs, Consume(r) PROVE FoundInv'
  BY <1>1, <1>2, <1>4, <1>5, <1>6, <1>8, CoveredReceiveJob DEF Consume
<1>9. CASE UNCHANGED discoveryVars
  BY <1>9, CoveredSame DEF discoveryVars
<1> QED BY <1>2, <1>5, <1>7, <1>8, <1>9 DEF DiscoveryNext

LEMMA FoundInvariance == DiscoverySpec => []FoundInv
  BY FoundInit, FoundNext, DiscoveryInvariance, SizeInvariance, PTL DEF DiscoverySpec

(* NewCountedOnce: of any number of overlapping runs, with aborted and      *)
(* unacknowledged transactions, each row of the table is in the count of at *)
(* most one run, once, and in one unless a batch that held it was reported  *)
(* to fail; and what a run without such a batch has found is no less than   *)
(* it was sent.                                                             *)
THEOREM NewRowsAreCountedOnce == DiscoverySpec => []NewCountedOnce
<1>1. DiscoveryInv /\ CountInv /\ FoundInv => NewCountedOnce
  <2> SUFFICES ASSUME DiscoveryInv, CountInv, FoundInv PROVE NewCountedOnce
    OBVIOUS
  <2>1. ASSUME NEW r \in Runs, run[r].at = "done", dropped[r] = {}
        PROVE  Cardinality(sent[r]) <= JobsFound(r)
    <3>1. run[r].batch = <<>> /\ jobsCh[r] = <<>>
      BY <2>1 DEF DiscoveryInv, RunInv, Finished, Ending
    <3>2. run[r].new \in Nat /\ run[r].dupe \in Int
      BY DEF DiscoveryInv, DiscoveryTypes, RunState
    <3>3. Len(run[r].batch) = 0 /\ Len(jobsCh[r]) = 0
      BY <3>1
    <3>4. Cardinality(sent[r]) <= run[r].new + run[r].dupe + Len(run[r].batch) + Len(jobsCh[r])
      BY <2>1 DEF FoundInv, Covered
    <3>5. run[r].new + run[r].dupe + 0 + 0 = run[r].new + run[r].dupe
      BY <3>2
    <3> QED BY <2>1, <3>3, <3>4, <3>5 DEF JobsFound
  <2> QED BY <2>1 DEF CountInv, RunCounts, NewCountedOnce
<1> QED BY <1>1, DiscoveryInvariance, CountInvariance, FoundInvariance, PTL
=============================================================================
