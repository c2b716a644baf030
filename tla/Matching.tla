------------------------------ MODULE Matching ------------------------------
(***************************************************************************)
(* Matching runs for one user. A run (the Lambda every two hours, or POST  *)
(* /matches/run) reads the user, the preferences, the resume, the matches  *)
(* there are and the newest jobs, each with a query of its own, scores the *)
(* jobs it has not seen and inserts the good ones in batches. Meanwhile    *)
(* discovery inserts jobs and reclassifies them, the user reviews matches  *)
(* and changes the settings, other runs insert, and auto-approve cycles    *)
(* approve what they have listed.                                          *)
(*                                                                         *)
(* What the auto-apply scheduler does with approved matches is in module   *)
(* AutoApply. Matches of other users are other rows and never meet these.  *)
(***************************************************************************)
EXTENDS Scorer, SequencesExt

CONSTANTS
  Jobs,          \* what discovery may find
  Times,         \* NOW() of the transactions of discovery: discovered_at of what each inserts
  PostingOf,     \* PostingOf[j]: what job j says
  Cosine,        \* Cosine[j]: similarity of the embeddings of job j and of the resume
  Profiles,      \* the preferences, with the resume, the user may have
  Settings,      \* the user's settings: apply_mode, auto_threshold, auto_apply_enabled
  MatchRuns,     \* runs that may overlap
  Approvers,     \* auto-approve services
  MinMatchScore, \* 3500
  MaxJobsPerRun, \* 2000
  MatchBatch,    \* batchSize, 50
  BulkLimit,     \* most matches of a bulk action, 100
  MaxMoves,      \* bound on what discovery and the user do
  MatchFaults    \* read: a query fails;  db: a statement fails;
                 \* ack: a commit goes through but reports an error

ASSUME MatchingAssumption ==
  /\ IsFiniteSet(Jobs) /\ IsFiniteSet(MatchRuns) /\ Times \subseteq Nat
  /\ DOMAIN PostingOf = Jobs /\ Cosine \in [Jobs -> -Whole..Whole]
  /\ \A s \in Settings : s.mode \in {"review", "auto"} /\ s.threshold \in 0..Whole
                           /\ s.enabled \in BOOLEAN
  /\ MinMatchScore \in 0..Whole /\ MaxJobsPerRun \in Nat
  /\ MatchBatch \in Nat \ {0} /\ BulkLimit \in Nat \ {0} /\ MaxMoves \in Nat
  /\ MatchFaults \subseteq {"read", "db", "ack"}

ASSUME ScorerAssumption ==
  /\ \A j \in Jobs : PostingOf[j] \in Posting /\ IsFiniteSet(PostingOf[j].keywords)
  /\ Profiles \subseteq Profile

VARIABLES
  job,        \* job[j]: not there yet, clean, or marked as a scam; when it was discovered
  settings,   \* the user's row
  profile,    \* the preferences row and the primary resume
  match,      \* match[j]: the row for job j, or NoMatch
  matching,   \* matching[r]: where run r is, what it read, its list, its batch, its transaction
  approver,   \* approver[a]: what an auto-approve cycle holds: a threshold and a list
  moves,      \* what discovery and the user have done, up to MaxMoves
  decided,    \* decided[j]: the user's last word on the match of j (history)
  consents,   \* thresholds the user agreed to have matches approved at (history)
  owed        \* owed[r]: candidates run r has yet to store or to fail with (history)

matchingVars == <<job, settings, profile, match, matching, approver, moves, decided, consents, owed>>

MatchStatuses == {"pending", "approved", "rejected"}
NoMatch == [status |-> "none", score |-> 0, feedback |-> "none"]
Matched == {j \in Jobs : match[j] # NoMatch}
With(status) == {j \in Jobs : match[j].status = status}

Consent(s) == IF s.mode = "auto" \/ s.enabled THEN {s.threshold} ELSE {}

NoCycle == [threshold |-> 0, todo |-> {}]

NoJob == [verdict |-> "absent", discovered |-> 0]

NoRun == [at |-> "idle", settings |-> CHOOSE s \in Settings : TRUE,
          profile |-> CHOOSE p \in Profiles : TRUE, seen |-> {}, todo |-> <<>>,
          batch |-> <<>>, row |-> 1, rows |-> {}]

MatchingInit ==
  /\ \/ job = [j \in Jobs |-> NoJob]
     \/ job \in [Jobs -> {[verdict |-> "clean", discovered |-> t] : t \in Times}]
  /\ settings \in Settings /\ profile \in Profiles
  /\ match = [j \in Jobs |-> NoMatch]
  /\ matching = [r \in MatchRuns |-> NoRun]
  /\ approver = [a \in Approvers |-> NoCycle]
  /\ moves = 0
  /\ decided = [j \in Jobs |-> "none"]
  /\ consents = Consent(settings)
  /\ owed = [r \in MatchRuns |-> {}]

-----------------------------------------------------------------------------
(* A step of discovery or of the user.                                      *)
Move == moves < MaxMoves /\ moves' = moves + 1

(* Discovery inserts a job, or rewrites it and its verdict, but not the     *)
(* time. All jobs of a batch get the time of their transaction.             *)
Upserted(j, verdict) ==
  /\ Move /\ job[j].verdict # verdict
  /\ \E t \in IF job[j] = NoJob THEN Times ELSE {job[j].discovered} :
       job' = [job EXCEPT ![j] = [verdict |-> verdict, discovered |-> t]]
  /\ UNCHANGED <<settings, profile, match, matching, approver, decided, consents, owed>>

(* PUT /users/me: the settings are one row.                                 *)
ChangeSettings(s) ==
  /\ Move /\ settings # s
  /\ settings' = s /\ consents' = consents \cup Consent(s)
  /\ UNCHANGED <<job, profile, match, matching, approver, decided, owed>>

(* PUT /users/me/preferences, and the primary resume.                       *)
ChangeProfile(p) ==
  /\ Move /\ profile # p
  /\ profile' = p
  /\ UNCHANGED <<job, settings, match, matching, approver, decided, consents, owed>>

(* One UPDATE for the rows of the user among js, whatever their status was. *)
SetStatus(js, status) ==
  /\ Move /\ js \subseteq Matched
  /\ match' = [j \in Jobs |-> IF j \in js THEN [match[j] EXCEPT !.status = status] ELSE match[j]]
  /\ decided' = [j \in Jobs |->
       IF j \notin js THEN decided[j]
       ELSE IF \E a \in Approvers : j \in approver[a].todo THEN "raced" ELSE status]
  /\ UNCHANGED <<job, settings, profile, matching, approver, consents, owed>>

(* PATCH /matches/{id}, and the routes that name the user in the body.      *)
UpdateMatchMe(j, status) == SetStatus({j}, status)
ApproveMatch(j) == SetStatus({j}, "approved")
RejectMatch(j) == SetStatus({j}, "rejected")

(* POST /matches/bulk-action.                                               *)
BulkAction(js, status) == js # {} /\ Cardinality(js) <= BulkLimit /\ SetStatus(js, status)

(* A thumb for the quality of the match, apart from its status.             *)
SetFeedback(j, thumb) ==
  /\ Move /\ j \in Matched
  /\ match' = [match EXCEPT ![j].feedback = thumb]
  /\ UNCHANGED <<job, settings, profile, matching, approver, decided, consents, owed>>

-----------------------------------------------------------------------------
(* RunForUser.                                                              *)
ReadUser(r) ==
  /\ matching[r].at = "idle"
  /\ matching' = [matching EXCEPT ![r] = [NoRun EXCEPT !.at = "profile", !.settings = settings]]
  /\ UNCHANGED <<job, settings, profile, match, approver, moves, decided, consents, owed>>

(* The preferences and the resume. Without both of them there is nothing to *)
(* do.                                                                      *)
ReadProfile(r) ==
  /\ matching[r].at = "profile"
  /\ matching' = [matching EXCEPT ![r] =
       IF profile.complete THEN [@ EXCEPT !.profile = profile, !.at = "seen"] ELSE NoRun]
  /\ UNCHANGED <<job, settings, profile, match, approver, moves, decided, consents, owed>>

ReadMatched(r) ==
  /\ matching[r].at = "seen"
  /\ matching' = [matching EXCEPT ![r].seen = Matched, ![r].at = "jobs"]
  /\ UNCHANGED <<job, settings, profile, match, approver, moves, decided, consents, owed>>

Clean == {j \in Jobs : job[j].verdict = "clean"}
Newest(s) == SubSeq(s, 1, Min({Len(s), MaxJobsPerRun}))

(* ORDER BY discovered_at DESC: jobs of one time are in any order.          *)
MayPrecede(i, j) == i # j /\ job[i].discovered >= job[j].discovered
Descending(s) == \A k, l \in DOMAIN s : k < l => MayPrecede(s[k], s[l])

(* Mutant: the query has no ORDER BY.                                       *)
ReadJobsUnordered(r) ==
  /\ matching[r].at = "jobs"
  /\ \E s \in SetToSeqs(Clean) :
       matching' = [matching EXCEPT ![r] =
         IF s = <<>> THEN NoRun ELSE [@ EXCEPT !.todo = Newest(s), !.at = "score"]]
  /\ UNCHANGED <<job, settings, profile, match, approver, moves, decided, consents, owed>>

ReadJobs(r) ==
  /\ matching[r].at = "jobs"
  /\ \E s \in [1..Cardinality(Clean) -> Clean] :
       /\ Descending(s)
       /\ matching' = [matching EXCEPT ![r] =
            IF Newest(s) = <<>> THEN NoRun ELSE [@ EXCEPT !.todo = Newest(s), !.at = "score"]]
  /\ UNCHANGED <<job, settings, profile, match, approver, moves, decided, consents, owed>>

(* The user is not found, or a query fails: the run ends.                   *)
ReadFails(r) ==
  /\ "read" \in MatchFaults /\ matching[r].at \in {"profile", "seen", "jobs"}
  /\ matching' = [matching EXCEPT ![r] = NoRun]
  /\ UNCHANGED <<job, settings, profile, match, approver, moves, decided, consents, owed>>

(* Mutant: the threshold is not looked at.                                  *)
StatusNoThreshold(s, score) == IF s.mode = "auto" THEN "approved" ELSE "pending"

Status(s, score) == IF s.mode = "auto" /\ score >= s.threshold THEN "approved" ELSE "pending"

(* Mutant: what is left when the list ends is not inserted.                 *)
AfterScoringNoRemainder(batch, todo) ==
  IF Len(batch) >= MatchBatch THEN "begin" ELSE IF todo # <<>> THEN "score" ELSE "idle"

AfterScoring(batch, todo) ==
  IF Len(batch) >= MatchBatch \/ (todo = <<>> /\ batch # <<>>) THEN "begin"
  ELSE IF todo # <<>> THEN "score" ELSE "idle"

(* The next job of the list, scored unless it has a match or is excluded.   *)
ScoreNext(r) ==
  /\ matching[r].at = "score"
  /\ LET m == matching[r]
         j == Head(m.todo)
         p == PostingOf[j]
         skipped == j \in m.seen \/ IsExcluded(p, m.profile)
     IN  \E score \in Scores(p, m.profile, Cosine[j]) :
           LET good == ~skipped /\ score >= MinMatchScore
               entry == [job |-> j, score |-> score, status |-> Status(m.settings, score)]
               batch == IF good THEN Append(m.batch, entry) ELSE m.batch
               at == AfterScoring(batch, Tail(m.todo))
           IN  /\ matching' = [matching EXCEPT ![r] =
                    IF at = "idle" THEN NoRun
                    ELSE [@ EXCEPT !.todo = Tail(m.todo), !.batch = batch, !.at = at]]
               /\ owed' = [owed EXCEPT ![r] = IF good THEN @ \cup {j} ELSE @]
  /\ UNCHANGED <<job, settings, profile, match, approver, moves, decided, consents>>

-----------------------------------------------------------------------------
(* BulkInsert: one transaction per batch.                                   *)
BatchJobs(r) == {matching[r].batch[k].job : k \in DOMAIN matching[r].batch}
Entry(r) == matching[r].batch[matching[r].row]
Inserting(r) == matching[r].at = "begin"
Legal(score) == score \in 0..Whole

(* The transaction whose end the next row waits for.                        *)
Awaits(r, other) ==
  /\ r # other /\ Inserting(r) /\ matching[r].row <= Len(matching[r].batch)
  /\ Entry(r).job \in matching[other].rows

(* Mutant: the next batch starts with the rows of the last one.             *)
EndBatchKeepingRows(r) ==
  matching' = [matching EXCEPT ![r].batch = <<>>, ![r].row = 1,
                               ![r].at = IF matching[r].todo = <<>> THEN "idle" ELSE "score"]

(* The transaction is over: the run goes on with its list.                  *)
EndBatch(r) ==
  matching' = [matching EXCEPT ![r] =
    IF @.todo = <<>> THEN NoRun
                     ELSE [@ EXCEPT !.batch = <<>>, !.row = 1, !.rows = {}, !.at = "score"]]

(* A row that another transaction has inserted is skipped, when that one is *)
(* over.                                                                    *)
InsertRow(r) ==
  /\ Inserting(r) /\ matching[r].row <= Len(matching[r].batch)
  /\ \A other \in MatchRuns : ~Awaits(r, other)
  /\ Legal(Entry(r).score)
  /\ matching' = [matching EXCEPT
       ![r].row = @ + 1,
       ![r].rows = IF Entry(r).job \in Matched THEN @ ELSE @ \cup {Entry(r).job}]
  /\ UNCHANGED <<job, settings, profile, match, approver, moves, decided, consents, owed>>

(* Transactions that wait for each other: PostgreSQL aborts one of them.    *)
Circle(rs) == rs # {} /\ \A r \in rs : \E other \in rs : Awaits(r, other)

(* The check on match_score, or the database, refuses a row: all rows of    *)
(* the transaction are rolled back.                                         *)
InsertFails(r) ==
  /\ Inserting(r) /\ matching[r].row <= Len(matching[r].batch)
  /\ \/ "db" \in MatchFaults \/ ~Legal(Entry(r).score)
     \/ \E rs \in SUBSET MatchRuns : r \in rs /\ Circle(rs)
  /\ EndBatch(r)
  /\ owed' = [owed EXCEPT ![r] = @ \ BatchJobs(r)]
  /\ UNCHANGED <<job, settings, profile, match, approver, moves, decided, consents>>

(* What the batch says of job j.                                            *)
RowFor(r, j) ==
  LET k == CHOOSE n \in DOMAIN matching[r].batch : matching[r].batch[n].job = j
  IN  [status |-> matching[r].batch[k].status, score |-> matching[r].batch[k].score,
       feedback |-> "none"]

(* Mutant: ON CONFLICT DO UPDATE.                                           *)
StoredOverwriting(r) ==
  [j \in Jobs |-> IF j \in BatchJobs(r) THEN RowFor(r, j) ELSE match[j]]

Stored(r) == [j \in Jobs |-> IF j \in matching[r].rows THEN RowFor(r, j) ELSE match[j]]

CommitBatch(r) ==
  /\ Inserting(r) /\ matching[r].row > Len(matching[r].batch)
  /\ match' = Stored(r)
  /\ EndBatch(r)
  /\ owed' = [owed EXCEPT ![r] = @ \ (Matched \cup matching[r].rows)]
  /\ UNCHANGED <<job, settings, profile, approver, moves, decided, consents>>

(* The error is logged and the run goes on.                                 *)
CommitFails(r) ==
  /\ Inserting(r) /\ matching[r].row > Len(matching[r].batch)
  /\ \/ "db" \in MatchFaults /\ UNCHANGED match
     \/ "ack" \in MatchFaults /\ match' = Stored(r)
  /\ EndBatch(r)
  /\ owed' = [owed EXCEPT ![r] = @ \ BatchJobs(r)]
  /\ UNCHANGED <<job, settings, profile, approver, moves, decided, consents>>

-----------------------------------------------------------------------------
(* AutoApproveService: RunForAllUsers reads the threshold with the flag,    *)
(* ProcessPendingMatches lists, then updates one by one.                    *)
Cycle(a) ==
  /\ approver[a].todo = {} /\ settings.enabled /\ With("pending") # {}
  /\ approver' = [approver EXCEPT ![a] =
       [threshold |-> settings.threshold, todo |-> With("pending")]]
  /\ UNCHANGED <<job, settings, profile, match, matching, moves, decided, consents, owed>>

Rest(a, j) == [threshold |-> approver[a].threshold, todo |-> approver[a].todo \ {j}]

(* UpdateMatchStatus does not ask what the status is by now; when it fails, *)
(* the next match is tried.                                                 *)
AutoApprove(a, j, ok) ==
  /\ j \in approver[a].todo
  /\ approver' = [approver EXCEPT ![a] = IF approver[a].todo = {j} THEN NoCycle ELSE Rest(a, j)]
  /\ match' = IF ok /\ match[j].score >= approver[a].threshold
              THEN [match EXCEPT ![j].status = "approved"] ELSE match
  /\ UNCHANGED <<job, settings, profile, matching, moves, decided, consents, owed>>

-----------------------------------------------------------------------------
RunStep(r) ==
  \/ ReadUser(r) \/ ReadProfile(r) \/ ReadMatched(r) \/ ReadJobs(r) \/ ReadFails(r)
  \/ ScoreNext(r) \/ InsertRow(r) \/ InsertFails(r) \/ CommitBatch(r) \/ CommitFails(r)

MatchingNext ==
  \/ \E j \in Jobs, verdict \in {"clean", "scam"} : Upserted(j, verdict)
  \/ \E s \in Settings : ChangeSettings(s)
  \/ \E p \in Profiles : ChangeProfile(p)
  \/ \E j \in Jobs, status \in {"approved", "rejected"} : UpdateMatchMe(j, status)
  \/ \E j \in Jobs : ApproveMatch(j) \/ RejectMatch(j)
  \/ \E js \in SUBSET Jobs, status \in {"approved", "rejected"} : BulkAction(js, status)
  \/ \E j \in Jobs, thumb \in {"up", "down"} : SetFeedback(j, thumb)
  \/ \E r \in MatchRuns : RunStep(r)
  \/ \E a \in Approvers : Cycle(a) \/ \E j \in Jobs, ok \in BOOLEAN : AutoApprove(a, j, ok)

MatchingSpec == MatchingInit /\ [][MatchingNext]_matchingVars

-----------------------------------------------------------------------------
MatchingTypeOK ==
  /\ job \in [Jobs -> {NoJob} \cup [verdict : {"clean", "scam"}, discovered : Times]]
  /\ settings \in Settings /\ profile \in Profiles
  /\ \A j \in Matched : match[j].status \in MatchStatuses /\ match[j].score \in MinMatchScore..Whole
                        /\ match[j].feedback \in {"none", "up", "down"}
  /\ \A r \in MatchRuns :
       /\ matching[r].at \in {"idle", "profile", "seen", "jobs", "score", "begin"}
       /\ Len(matching[r].batch) <= MatchBatch /\ matching[r].rows \subseteq BatchJobs(r)
       /\ Inserting(r) => matching[r].batch # <<>>
  /\ \A a \in Approvers : approver[a].todo \subseteq Matched
  /\ decided \in [Jobs -> {"none", "raced", "approved", "rejected"}]
  /\ consents \subseteq 0..Whole

(* Overlapping runs wait for each other's transactions in a circle only if  *)
(* two of them have come to different jobs of the same time: BulkInsert has *)
(* no order of its own and no retry, and what keeps runs from costing each  *)
(* other a batch is the order of the query, which leaves those jobs open.   *)
DeadlocksNeedTies ==
  \A rs \in SUBSET MatchRuns :
    Circle(rs) => \E r, other \in rs :
      /\ Awaits(r, other) /\ Entry(r).job # Entry(other).job
      /\ job[Entry(r).job].discovered = job[Entry(other).job].discovered

(* The user's rejection stands: no run that was on its way when the user    *)
(* decided overwrites it, and neither does an auto-approve cycle, unless it *)
(* had listed the match before the user rejected it.                        *)
RejectionStands == \A j \in Jobs : decided[j] = "rejected" => match[j].status = "rejected"

(* A match that is approved without the user's word has a score of at least *)
(* one of the thresholds at which the user wanted that, whatever the user   *)
(* changed while the run or the cycle was going on.                         *)
AutoApprovalWarranted ==
  \A j \in Jobs : match[j].status = "approved" /\ decided[j] = "none"
                    => \E t \in consents : match[j].score >= t

(* When a run is over, every job it scored as good has a match, its own or  *)
(* one of an overlapping run or an older one, unless the batch failed.      *)
CandidatesStored == \A r \in MatchRuns : matching[r].at = "idle" => owed[r] = {}

(* The user's title t says a word of the posting's title more than once.    *)
Repeats(t, title) == \E i, k \in DOMAIN t : i # k /\ t[i] = t[k] /\ t[i] \in Range(title)

(* A score beyond the check on match_score costs the run the whole batch.   *)
(* WordOverlap counts a repeated word each time and may be more than one;   *)
(* all the other dimensions, the weights and the mix stay within one, so    *)
(* only a title of the user's that repeats a word can have such a score.    *)
IllegalOnlyByRepetition ==
  \A r \in MatchRuns : \A k \in DOMAIN matching[r].batch :
    LET entry == matching[r].batch[k]
    IN  Legal(entry.score)
        \/ \E t \in matching[r].profile.titles : Repeats(t, PostingOf[entry.job].title)
=============================================================================
