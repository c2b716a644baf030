----------------------------- MODULE AutoApply -----------------------------
(***************************************************************************)
(* Matches of one user on their way to an application: the job matcher     *)
(* inserts them, the user approves or rejects them (one by one or in bulk) *)
(* or submits one by hand, and the auto-apply scheduler of the apply       *)
(* engine submits the approved ones up to the daily limit.                 *)
(*                                                                         *)
(* The scheduler works on what it read: the count of today's applications, *)
(* then a batch of approved matches. The user, midnight and other          *)
(* instances of the engine act between any two of its statements, and the  *)
(* application and the status of its match are written separately.         *)
(*                                                                         *)
(* Service.Submit is one step here: it creates the applications row or it  *)
(* does not, and it may report an error either way. Module ApplyPipeline   *)
(* has its inside and what follows.                                        *)
(***************************************************************************)
EXTENDS Naturals, FiniteSets

CONSTANTS
  Matches,      \* named by rank: 1 has the best score
  Strong,       \* matches scoring at least the user's auto_threshold
  Schedulers,   \* instances of the apply engine
  DailyLimit,   \* users.daily_limit
  MaxPerRun,    \* SCHEDULER_MAX_MATCHES_PER_RUN
  Faults        \* db: a statement fails;  insert: Submit fails after its row;
                \* restart: the engine dies or its context is cancelled

ASSUME AutoApplyAssumption ==
  /\ Matches \subseteq Nat /\ IsFiniteSet(Matches)
  /\ Strong \subseteq Matches
  /\ DailyLimit \in Nat \ {0} /\ MaxPerRun \in Nat \ {0}
  /\ Faults \subseteq {"db", "insert", "restart"}
  /\ IsFiniteSet(Schedulers) /\ Schedulers \cap {"none", "earlier", "user"} = {}

VARIABLES
  match,     \* matches.status of each match
  app,       \* the application for it: none, of an earlier day, or who made it today
  mode,      \* users.apply_mode
  at,        \* where each scheduler is
  quota,     \* the LIMIT it computed from the daily limit, until it is used
  todo       \* the rest of the batch it fetched

vars == <<match, app, mode, at, quota, todo>>
schedVars == <<at, quota, todo>>

MatchStatuses == {"absent", "pending", "approved", "rejected", "applied"}
Makers == {"user"} \cup Schedulers

Today == {m \in Matches : app[m] \in Makers}
Approved == {m \in Matches : match[m] = "approved"}

(* The n best of a set of matches: ORDER BY match_score DESC LIMIT n.       *)
Best(S, n) == {m \in S : Cardinality({k \in S : k < m}) < n}
Lesser(a, b) == IF a < b THEN a ELSE b

Init ==
  /\ match = [m \in Matches |-> "absent"]
  /\ app = [m \in Matches |-> "none"]
  /\ mode \in {"auto", "review"}
  /\ at = [s \in Schedulers |-> "idle"]
  /\ quota = [s \in Schedulers |-> 0]
  /\ todo = [s \in Schedulers |-> {}]

-----------------------------------------------------------------------------
(* The matcher: RunForUser reads apply_mode once and inserts with ON        *)
(* CONFLICT DO NOTHING, so a run that is overtaken by a change of the mode  *)
(* still inserts under the old one.                                         *)
MatchFound(m) ==
  /\ match[m] = "absent"
  /\ \E status \in IF m \in Strong THEN {"pending", "approved"} ELSE {"pending"} :
       match' = [match EXCEPT ![m] = status]
  /\ UNCHANGED <<app, mode, schedVars>>

(* The user: PATCH /matches/{id} and POST /matches/bulk-action, one UPDATE  *)
(* without a condition on the status it replaces.                           *)
Decide(ms, status) ==
  /\ ms # {} /\ \A m \in ms : match[m] # "absent"
  /\ match' = [m \in Matches |-> IF m \in ms THEN status ELSE match[m]]
  /\ UNCHANGED <<app, mode, schedVars>>

(* POST /applications/submit: the row is created, the match left alone.     *)
SubmitByHand(m) ==
  /\ match[m] # "absent" /\ app[m] = "none"
  /\ app' = [app EXCEPT ![m] = "user"]
  /\ UNCHANGED <<match, mode, schedVars>>

SetMode(new) ==
  /\ mode # new
  /\ mode' = new
  /\ UNCHANGED <<match, app, schedVars>>

Midnight ==
  /\ Today # {}
  /\ app' = [m \in Matches |-> IF m \in Today THEN "earlier" ELSE app[m]]
  /\ UNCHANGED <<match, mode, schedVars>>

-----------------------------------------------------------------------------
(* Scheduler s. A tick outside the apply window, or whose reads fail, does  *)
(* nothing.                                                                 *)

Goto(s, step) == at' = [at EXCEPT ![s] = step]

(* GetAutoModeUserIDs: the user is in auto mode and has an approved match.  *)
Tick(s) ==
  /\ at[s] = "idle"
  /\ mode = "auto" /\ Approved # {}
  /\ Goto(s, "count")
  /\ UNCHANGED <<match, app, mode, quota, todo>>

(* Mutant: the limit is checked, but it does not bound the batch.           *)
CountUnbounded(s) ==
  /\ at[s] = "count"
  /\ IF Cardinality(Today) < DailyLimit
     THEN Goto(s, "fetch") /\ quota' = [quota EXCEPT ![s] = MaxPerRun]
     ELSE Goto(s, "idle") /\ UNCHANGED quota
  /\ UNCHANGED <<match, app, mode, todo>>

(* Mutant: no early return when nothing remains.                            *)
CountWithoutReturn(s) ==
  /\ at[s] = "count"
  /\ quota' = [quota EXCEPT ![s] = Lesser(DailyLimit - Cardinality(Today), MaxPerRun)]
  /\ Goto(s, "fetch")
  /\ UNCHANGED <<match, app, mode, todo>>

(* CountAppliedToday and the arithmetic on it.                              *)
Count(s) ==
  /\ at[s] = "count"
  /\ \/ /\ Cardinality(Today) < DailyLimit
        /\ quota' = [quota EXCEPT ![s] = Lesser(DailyLimit - Cardinality(Today), MaxPerRun)]
        /\ Goto(s, "fetch")
     \/ /\ Cardinality(Today) >= DailyLimit \/ "db" \in Faults
        /\ Goto(s, "idle")
        /\ UNCHANGED quota
  /\ UNCHANGED <<match, app, mode, todo>>

Continue(s, batch) ==
  /\ todo' = [todo EXCEPT ![s] = batch]
  /\ Goto(s, IF batch = {} THEN "idle" ELSE "submit")

(* Mutant: the query forgets its condition on the status.                   *)
FetchAnyStatus(s) ==
  /\ at[s] = "fetch"
  /\ Continue(s, Best({m \in Matches : match[m] \in {"pending", "approved"}}, quota[s]))
  /\ quota' = [quota EXCEPT ![s] = 0]
  /\ UNCHANGED <<match, app, mode>>

(* Mutant: the batch is cut before the approved matches are picked from it. *)
FetchBestOfAll(s) ==
  /\ at[s] = "fetch"
  /\ Continue(s, Approved \cap Best({m \in Matches : match[m] # "absent"}, quota[s]))
  /\ quota' = [quota EXCEPT ![s] = 0]
  /\ UNCHANGED <<match, app, mode>>

(* GetApprovedForUser.                                                      *)
Fetch(s) ==
  /\ at[s] = "fetch"
  /\ \/ Continue(s, Best(Approved, quota[s]))
     \/ "db" \in Faults /\ Continue(s, {})
  /\ quota' = [quota EXCEPT ![s] = 0]
  /\ UNCHANGED <<match, app, mode>>

First(s) == CHOOSE m \in todo[s] : \A k \in todo[s] : m <= k
Rest(s) == todo[s] \ {First(s)}

Submitted(s) ==
  /\ at[s] = "submit"
  /\ app[First(s)] = "none"
  /\ app' = [app EXCEPT ![First(s)] = s]
  /\ \/ Goto(s, "mark") /\ UNCHANGED todo
     \/ "insert" \in Faults /\ Continue(s, Rest(s))
  /\ UNCHANGED <<match, mode, quota>>

(* Mutant: an error of Submit does not keep the match from being marked.    *)
SubmitFailedIgnored(s) ==
  /\ at[s] = "submit"
  /\ app[First(s)] # "none" \/ "db" \in Faults
  /\ Goto(s, "mark")
  /\ UNCHANGED <<match, app, mode, quota, todo>>

(* UNIQUE (user_id, job_id), or any failure before the row.                 *)
SubmitFailed(s) ==
  /\ at[s] = "submit"
  /\ app[First(s)] # "none" \/ "db" \in Faults
  /\ Continue(s, Rest(s))
  /\ UNCHANGED <<match, app, mode, quota>>

(* UpdateStatus applied, whatever the status is by now; a failure is logged.*)
Mark(s) ==
  /\ at[s] = "mark"
  /\ \/ match' = [match EXCEPT ![First(s)] = "applied"]
     \/ "db" \in Faults /\ UNCHANGED match
  /\ Continue(s, Rest(s))
  /\ UNCHANGED <<app, mode, quota>>

(* The process dies or its context is cancelled between two statements.     *)
Restart(s) ==
  /\ "restart" \in Faults
  /\ at[s] # "idle"
  /\ Continue(s, {})
  /\ quota' = [quota EXCEPT ![s] = 0]
  /\ UNCHANGED <<match, app, mode>>

-----------------------------------------------------------------------------
Step(s) ==
  Tick(s) \/ Count(s) \/ Fetch(s) \/ Submitted(s) \/ SubmitFailed(s) \/ Mark(s)

User ==
  \/ \E ms \in SUBSET Matches, status \in {"approved", "rejected"} : Decide(ms, status)
  \/ \E m \in Matches : SubmitByHand(m)
  \/ \E new \in {"auto", "review"} : SetMode(new)

Next ==
  \/ \E m \in Matches : MatchFound(m)
  \/ User
  \/ Midnight
  \/ \E s \in Schedulers : Step(s) \/ Restart(s)

Spec == Init /\ [][Next]_vars

(* The loop ticks again and again, some tick of it inside the apply window, *)
(* and goes through its batch; days pass; the database does not fail each   *)
(* time, nor does the engine restart each time. The user owes nothing.      *)
Fairness ==
  /\ WF_vars(Midnight)
  /\ \A s \in Schedulers :
       /\ WF_vars(Step(s))
       /\ SF_vars(at[s] = "count" /\ Count(s) /\ at'[s] = "fetch")
       /\ SF_vars(at[s] = "fetch" /\ Fetch(s) /\ at'[s] = "submit")
       /\ SF_vars(SubmitFailed(s))
       /\ \A m \in Matches : SF_vars(Submitted(s) /\ First(s) = m)

FairSpec == Spec /\ Fairness

-----------------------------------------------------------------------------
(* Properties                                                               *)

TypeOK ==
  /\ match \in [Matches -> MatchStatuses]
  /\ app \in [Matches -> {"none", "earlier"} \cup Makers]
  /\ mode \in {"auto", "review"}
  /\ at \in [Schedulers -> {"idle", "count", "fetch", "submit", "mark"}]
  /\ quota \in [Schedulers -> 0..Lesser(DailyLimit, MaxPerRun)]
  /\ todo \in [Schedulers -> SUBSET Matches]

(* Engines together make at most the daily limit in a day and, for each of  *)
(* them but one, the batch it had on its way while another counted; so one  *)
(* by itself keeps to the daily limit. They do although a count is stale by *)
(* the time it is used, the user submits by hand meanwhile, midnight falls  *)
(* into a batch and a batch is given up half way.                           *)
AutoWithinLimit ==
  \A S \in (SUBSET Schedulers) \ {{}} :
    Cardinality({m \in Matches : app[m] \in S})
      <= DailyLimit + (Cardinality(S) - 1) * Lesser(DailyLimit, MaxPerRun)

(* A match marked as applied has an application.                            *)
AppliedHasApplication ==
  \A m \in Matches : match[m] = "applied" => app[m] # "none"

(* The scheduler submits a match only after somebody approved it. (It may   *)
(* have been rejected again since the batch was fetched: nothing looks.)    *)
OnlyDecidedMatchesSubmitted ==
  [][\A m \in Matches :
       app[m] = "none" /\ app'[m] \in Schedulers => match[m] \in {"approved", "rejected"}]_vars

(* Approved, but with an application already: every Submit of it fails.     *)
Stuck == {m \in Approved : app[m] # "none"}
Waiting(m) == match[m] = "approved" /\ app[m] = "none"

(* As long as the matches whose Submit can only fail do not fill a batch, a *)
(* user who stays in auto mode gets every match applied to that stays       *)
(* approved.                                                                *)
ApprovedGetsSubmitted ==
  <>[](mode = "auto" /\ Cardinality(Stuck) < Lesser(DailyLimit, MaxPerRun))
    => \A m \in Matches : Waiting(m) ~> ~Waiting(m)

-----------------------------------------------------------------------------
(* What a comment says of the scheduler and the code does not do            *)

(* The scheduler picks up the approved matches of a user in auto mode and   *)
(* submits them, at least when the user has stopped changing anything.      *)
ApprovedIsPickedUp ==
  <>[][~User]_vars
    => \A m \in Matches : (mode = "auto" /\ Waiting(m)) ~> (mode = "review" \/ ~Waiting(m))

=============================================================================
