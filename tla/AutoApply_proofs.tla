-------------------------- MODULE AutoApply_proofs --------------------------
(***************************************************************************)
(* Proofs about AutoApply, for any matches, scheduler instances, limits    *)
(* and faults.                                                             *)
(*                                                                         *)
(* A scheduler computes its quota from a count that is stale by the time   *)
(* it submits. EnginesInv is what keeps the limit all the same: what some  *)
(* engines have made today and what they may still make. When one of them  *)
(* counts, what it may make and what was made fit into the limit, and each *)
(* other one has a batch on its way at most.                               *)
(***************************************************************************)
EXTENDS AutoApply, FiniteSetTheorems, TLAPS

Decided == {"approved", "rejected", "applied"}

BatchInv(s) ==
  /\ at[s] \in {"submit", "mark"} => todo[s] # {}
  /\ at[s] = "mark" => app[First(s)] # "none"
  /\ \A m \in todo[s] : match[m] \in Decided

SchedulerInv == \A s \in Schedulers : BatchInv(s)

AutoInv == TypeOK /\ AppliedHasApplication /\ SchedulerInv

-----------------------------------------------------------------------------
(* Sets of matches.                                                         *)

LEMMA Counts ==
  ASSUME NEW S \in SUBSET Matches
  PROVE  /\ IsFiniteSet(S) /\ Cardinality(S) \in Nat
         /\ \A m \in S : Cardinality(S \ {m}) = Cardinality(S) - 1
         /\ \A m \in Matches \ S : Cardinality(S \cup {m}) = Cardinality(S) + 1
         /\ \A T \in SUBSET S : Cardinality(T) <= Cardinality(S)
<1>1. IsFiniteSet(S)
  BY AutoApplyAssumption, FS_Subset
<1> QED BY <1>1, FS_CardinalityType, FS_AddElement, FS_RemoveElement, FS_Subset

(* A non-empty set of numbers has a least one.                              *)
LEMMA LeastOf ==
  ASSUME NEW T \in SUBSET Nat, T # {}
  PROVE  \E m \in T : \A k \in T : m <= k
<1> DEFINE Below == OpToRel(<, Nat)
<1>1. IsWellFoundedOn(Below, Nat)
  BY NatLessThanWellFounded
<1> HIDE DEF Below
<1>2. PICK m \in T : \A k \in T : <<k, m>> \notin Below
  BY <1>1, WFMin
<1>3. \A k \in T : ~(k < m)
  BY <1>2, Zenon DEF Below, OpToRel
<1>4. m \in Nat /\ \A k \in T : k \in Nat
  OBVIOUS
<1>5. \A k \in T : m <= k
  BY <1>3, <1>4
<1> QED BY <1>5

LEMMA FirstOfBatch ==
  ASSUME NEW s \in Schedulers, todo[s] \in SUBSET Matches, todo[s] # {}
  PROVE  First(s) \in todo[s]
<1>1. todo[s] \in SUBSET Nat
  BY AutoApplyAssumption
<1>2. \E m \in todo[s] : \A k \in todo[s] : m <= k
  BY <1>1, LeastOf
<1> QED BY <1>2 DEF First

(* LIMIT n returns n rows at most: the last of them in the order has all    *)
(* the others before it.                                                    *)
LEMMA BestBounded ==
  ASSUME NEW S \in SUBSET Matches, NEW n \in Nat
  PROVE  Best(S, n) \in SUBSET S /\ Cardinality(Best(S, n)) <= n
<1> DEFINE before(m) == {k \in S : k < m}
           rank(m) == Cardinality(before(m))
           B == Best(S, n)
           left == {n - rank(m) : m \in B}
<1>1. B \in SUBSET S /\ B \in SUBSET Matches /\ S \in SUBSET Nat
  BY AutoApplyAssumption DEF Best
<1>2. \A m : before(m) \in SUBSET Matches /\ rank(m) \in Nat
  BY Counts
<1>3. \A m \in B : rank(m) < n
  BY DEF Best
<1>4. \A k \in Matches, m \in Matches : m \in S /\ m < k => rank(m) + 1 <= rank(k)
  <2> SUFFICES ASSUME NEW k \in Matches, NEW m \in S, m < k PROVE rank(m) + 1 <= rank(k)
    OBVIOUS
  <2>1. m \in Matches \ before(m) /\ before(m) \cup {m} \in SUBSET before(k)
    <3>1. k \in Nat /\ \A j \in S : j \in Nat
      BY AutoApplyAssumption
    <3>2. \A j \in S : j < m => j < k
      BY <3>1
    <3>3. ~(m < m)
      BY <3>1
    <3> QED BY <3>2, <3>3
  <2>2. Cardinality(before(m) \cup {m}) = rank(m) + 1
    BY <1>2, <2>1, Counts
  <2> HIDE DEF before
  <2>3. Cardinality(before(m) \cup {m}) <= Cardinality(before(k))
    BY <1>2, <2>1, Counts
  <2> QED BY <2>2, <2>3
<1> HIDE DEF B, rank
<1>5. CASE B = {}
  BY <1>5, FS_EmptySet DEF B
<1>6. CASE B # {}
  <2>1. left \in SUBSET Nat /\ left # {}
    BY <1>2, <1>3, <1>6
  <2>2. PICK d \in left : \A e \in left : d <= e
    BY <2>1, LeastOf
  <2>3. PICK m \in B : d = n - rank(m)
    BY <2>2
  <2>4. \A k \in B : rank(k) <= rank(m)
    <3> TAKE k \in B
    <3>1. n - rank(m) <= n - rank(k)
      BY <2>2, <2>3
    <3> QED BY <1>2, <3>1
  <2>5. \A k \in B : k <= m
    <3> SUFFICES ASSUME NEW k \in B, m < k PROVE FALSE
      BY <1>1
    <3>1. rank(m) + 1 <= rank(k)
      BY <1>1, <1>4
    <3> QED BY <1>2, <2>4, <3>1
  <2>6. B \ {m} \in SUBSET before(m)
    BY <1>1, <2>5
  <2>7. Cardinality(B) - 1 <= rank(m)
    BY <1>1, <1>2, <2>6, Counts DEF rank
  <2>8. Cardinality(B) \in Nat /\ rank(m) \in Nat /\ rank(m) < n
    BY <1>1, <1>2, <1>3, Counts
  <2>9. Cardinality(B) <= n
    BY <2>7, <2>8
  <2> QED BY <1>1, <2>9 DEF B
<1> QED BY <1>1, <1>5, <1>6 DEF B

-----------------------------------------------------------------------------
(* What another instance, the user or midnight leaves of a batch.           *)
LEMMA OthersKeep ==
  ASSUME AutoInv, NEW s \in Schedulers, at'[s] = at[s], todo'[s] = todo[s],
         \A m \in Matches : /\ app[m] # "none" => app'[m] # "none"
                            /\ match[m] \in Decided => match'[m] \in Decided
  PROVE  BatchInv(s)'
<1>1. todo[s] \in SUBSET Matches
  BY DEF AutoInv, TypeOK
<1>2. First(s)' = First(s)
  BY DEF First
<1>3. at[s] = "mark" => First(s) \in Matches
  BY <1>1, FirstOfBatch DEF AutoInv, SchedulerInv, BatchInv
<1> QED BY <1>1, <1>2, <1>3 DEF AutoInv, SchedulerInv, BatchInv

LEMMA UserKeeps ==
  ASSUME AutoInv, User \/ Midnight \/ \E m \in Matches : MatchFound(m) PROVE AutoInv'
<1> USE DEF AutoInv, TypeOK, AppliedHasApplication, MatchStatuses, Makers
<1>1. ASSUME NEW ms \in SUBSET Matches, NEW status \in {"approved", "rejected"}, Decide(ms, status)
      PROVE  AutoInv'
  <2>1. TypeOK' /\ AppliedHasApplication'
    BY <1>1 DEF Decide, schedVars
  <2> QED BY <1>1, <2>1, OthersKeep DEF Decide, SchedulerInv, Decided, schedVars
<1>2. ASSUME NEW m \in Matches, SubmitByHand(m) PROVE AutoInv'
  <2>1. TypeOK' /\ AppliedHasApplication'
    BY <1>2 DEF SubmitByHand, schedVars
  <2>2. \A s \in Schedulers : s # "user"
    BY AutoApplyAssumption
  <2> QED BY <1>2, <2>1, <2>2, OthersKeep DEF SubmitByHand, SchedulerInv, schedVars
<1>3. ASSUME NEW new \in {"auto", "review"}, SetMode(new) PROVE AutoInv'
  BY <1>3, OthersKeep DEF SetMode, SchedulerInv, schedVars
<1>4. ASSUME Midnight PROVE AutoInv'
  <2>1. TypeOK' /\ AppliedHasApplication'
    BY <1>4 DEF Midnight, Today, schedVars
  <2>2. \A s \in Schedulers : s # "earlier"
    BY AutoApplyAssumption
  <2> QED BY <1>4, <2>1, <2>2, OthersKeep DEF Midnight, SchedulerInv, schedVars
<1>5. ASSUME NEW m \in Matches, MatchFound(m) PROVE AutoInv'
  <2>1. match' \in [Matches -> MatchStatuses] /\ match[m] = "absent" /\ match'[m] # "applied"
        /\ \A k \in Matches \ {m} : match'[k] = match[k]
    BY <1>5 DEF MatchFound
  <2>2. TypeOK' /\ AppliedHasApplication'
    BY <1>5, <2>1 DEF MatchFound, schedVars
  <2> QED BY <1>5, <2>1, <2>2, OthersKeep DEF MatchFound, SchedulerInv, Decided, schedVars
<1> QED BY <1>1, <1>2, <1>3, <1>4, <1>5 DEF User

-----------------------------------------------------------------------------
(* A step of scheduler s. Its own part of the invariant and the types are   *)
(* what remains to be shown of each.                                        *)
LEMMA StepOfOne ==
  ASSUME AutoInv, NEW s \in Schedulers, TypeOK', AppliedHasApplication', BatchInv(s)',
         \A t \in Schedulers \ {s} : at'[t] = at[t] /\ todo'[t] = todo[t],
         \A m \in Matches : /\ app[m] # "none" => app'[m] # "none"
                            /\ match[m] \in Decided => match'[m] \in Decided
  PROVE  AutoInv'
<1>1. \A t \in Schedulers \ {s} : BatchInv(t)'
  BY OthersKeep
<1> QED BY <1>1 DEF AutoInv, SchedulerInv

LEMMA SizesOf ==
  ASSUME AutoInv, NEW s \in Schedulers
  PROVE  /\ todo[s] \in SUBSET Matches /\ Cardinality(todo[s]) \in Nat
         /\ quota[s] \in Nat /\ DailyLimit \in Nat \ {0} /\ MaxPerRun \in Nat \ {0}
         /\ Lesser(DailyLimit, MaxPerRun) \in Nat
  BY Counts, AutoApplyAssumption DEF AutoInv, TypeOK, Lesser

LEMMA TickKeeps == ASSUME AutoInv, NEW s \in Schedulers, Tick(s) PROVE AutoInv'
<1>1. TypeOK' /\ AppliedHasApplication'
  BY DEF AutoInv, TypeOK, AppliedHasApplication, Tick, Goto
<1>2. BatchInv(s)'
  BY DEF AutoInv, TypeOK, SchedulerInv, BatchInv, Tick, Goto
<1> QED BY <1>1, <1>2, StepOfOne DEF Tick, Goto

LEMMA CountKeeps == ASSUME AutoInv, NEW s \in Schedulers, Count(s) PROVE AutoInv'
<1> DEFINE left == Lesser(DailyLimit - Cardinality(Today), MaxPerRun)
<1>1. Today \in SUBSET Matches
  BY DEF Today
<1>2. Cardinality(Today) < DailyLimit => left \in 0..Lesser(DailyLimit, MaxPerRun)
  BY <1>1, Counts, SizesOf DEF Lesser
<1>3. UNCHANGED <<match, app, mode, todo>>
  BY DEF Count
<1>4. /\ at' \in [Schedulers -> {"idle", "count", "fetch", "submit", "mark"}]
      /\ quota' \in [Schedulers -> 0..Lesser(DailyLimit, MaxPerRun)]
      /\ at'[s] \in {"fetch", "idle"} /\ \A t \in Schedulers \ {s} : at'[t] = at[t]
  <2> HIDE DEF left
  <2>1. CASE Cardinality(Today) < DailyLimit /\ quota' = [quota EXCEPT ![s] = left] /\ Goto(s, "fetch")
    BY <1>2, <2>1 DEF AutoInv, TypeOK, Goto
  <2>2. CASE Goto(s, "idle") /\ UNCHANGED quota
    BY <2>2 DEF AutoInv, TypeOK, Goto
  <2> QED BY <2>1, <2>2 DEF Count, left
<1>5. TypeOK' /\ AppliedHasApplication'
  BY <1>3, <1>4 DEF AutoInv, TypeOK, AppliedHasApplication
<1>6. BatchInv(s)'
  BY <1>3, <1>4 DEF AutoInv, SchedulerInv, BatchInv
<1> QED BY <1>3, <1>4, <1>5, <1>6, StepOfOne

(* Going on with the rest of a batch.                                       *)
LEMMA ContinueKeeps ==
  ASSUME AutoInv, NEW s \in Schedulers, NEW batch \in SUBSET Matches, Continue(s, batch),
         match' \in [Matches -> MatchStatuses], app' \in [Matches -> {"none", "earlier"} \cup Makers],
         quota' \in [Schedulers -> 0..Lesser(DailyLimit, MaxPerRun)], UNCHANGED mode,
         \A m \in Matches : /\ app[m] # "none" => app'[m] # "none"
                            /\ match[m] \in Decided => match'[m] \in Decided
                            /\ match'[m] = "applied" => app'[m] # "none",
         \A m \in batch : match'[m] \in Decided
  PROVE  AutoInv'
<1>1. /\ at' \in [Schedulers -> {"idle", "count", "fetch", "submit", "mark"}]
      /\ todo' \in [Schedulers -> SUBSET Matches]
      /\ todo'[s] = batch /\ at'[s] = IF batch = {} THEN "idle" ELSE "submit"
      /\ \A t \in Schedulers \ {s} : at'[t] = at[t] /\ todo'[t] = todo[t]
  BY DEF AutoInv, TypeOK, Continue, Goto
<1>2. TypeOK' /\ AppliedHasApplication'
  BY <1>1 DEF AutoInv, TypeOK, AppliedHasApplication
<1>3. BatchInv(s)'
  BY <1>1 DEF BatchInv
<1> QED BY <1>1, <1>2, <1>3, StepOfOne

LEMMA FetchKeeps == ASSUME AutoInv, NEW s \in Schedulers, Fetch(s) PROVE AutoInv'
<1>1. UNCHANGED <<match, app, mode>> /\ quota' = [quota EXCEPT ![s] = 0]
  BY DEF Fetch
<1>2. quota' \in [Schedulers -> 0..Lesser(DailyLimit, MaxPerRun)]
  BY <1>1, SizesOf DEF AutoInv, TypeOK
<1>3. PICK batch \in {Best(Approved, quota[s]), {}} : Continue(s, batch)
  BY DEF Fetch
<1>4. batch \in SUBSET Approved /\ Approved \in SUBSET Matches
  BY DEF Approved, Best
<1>5. \A m \in batch : match[m] \in Decided
  BY <1>4 DEF Approved, Decided
<1>6. /\ match \in [Matches -> MatchStatuses] /\ app \in [Matches -> {"none", "earlier"} \cup Makers]
      /\ \A m \in Matches : match[m] = "applied" => app[m] # "none"
  BY DEF AutoInv, TypeOK, AppliedHasApplication
<1> HIDE DEF Fetch
<1> QED BY <1>1, <1>2, <1>3, <1>4, <1>5, <1>6, ContinueKeeps

(* The batch has a first match, which is one of the decided ones.           *)
LEMMA FirstAndRest ==
  ASSUME AutoInv, NEW s \in Schedulers, at[s] \in {"submit", "mark"}
  PROVE  /\ First(s) \in todo[s] /\ First(s) \in Matches /\ match[First(s)] \in Decided
         /\ Rest(s) \in SUBSET Matches /\ \A m \in Rest(s) : match[m] \in Decided
         /\ Cardinality(Rest(s)) = Cardinality(todo[s]) - 1 /\ Cardinality(todo[s]) >= 1
<1>1. /\ todo[s] \in SUBSET Matches /\ todo[s] # {} /\ \A m \in todo[s] : match[m] \in Decided
  BY SizesOf DEF AutoInv, SchedulerInv, BatchInv
<1>2. First(s) \in todo[s]
  BY <1>1, FirstOfBatch
<1>3. Cardinality(Rest(s)) = Cardinality(todo[s]) - 1 /\ Cardinality(Rest(s)) \in Nat
  BY <1>1, <1>2, Counts DEF Rest
<1> QED BY <1>1, <1>2, <1>3, SizesOf DEF Rest

LEMMA SubmittedKeeps == ASSUME AutoInv, NEW s \in Schedulers, Submitted(s) PROVE AutoInv'
<1> DEFINE first == First(s)
<1>1. /\ at[s] = "submit" /\ app[first] = "none" /\ app' = [app EXCEPT ![first] = s]
      /\ UNCHANGED <<match, mode, quota>>
  BY DEF Submitted
<1>2. first \in todo[s] /\ first \in Matches
  BY <1>1, FirstAndRest
<1>3. s # "none" /\ s \in Makers
  BY AutoApplyAssumption DEF Makers
<1> HIDE DEF first
<1>4. /\ app' \in [Matches -> {"none", "earlier"} \cup Makers] /\ app'[first] = s
      /\ \A m \in Matches \ {first} : app'[m] = app[m]
  BY <1>1, <1>2, <1>3 DEF AutoInv, TypeOK
<1>5. \A m \in Matches : /\ app[m] # "none" => app'[m] # "none"
                         /\ match'[m] = match[m]
                         /\ match[m] = "applied" => app'[m] # "none"
  BY <1>1, <1>3, <1>4 DEF AutoInv, AppliedHasApplication
<1>6. CASE Goto(s, "mark") /\ UNCHANGED todo
  <2>1. /\ at' \in [Schedulers -> {"idle", "count", "fetch", "submit", "mark"}] /\ at'[s] = "mark"
        /\ \A t \in Schedulers \ {s} : at'[t] = at[t]
    BY <1>6 DEF AutoInv, TypeOK, Goto
  <2>2. TypeOK' /\ AppliedHasApplication'
    BY <1>1, <1>4, <1>5, <1>6, <2>1 DEF AutoInv, TypeOK, AppliedHasApplication
  <2>3. First(s)' = first
    BY <1>6 DEF First, first
  <2>4. todo[s] # {} /\ \A m \in todo[s] : match[m] \in Decided
    BY <1>1 DEF AutoInv, SchedulerInv, BatchInv
  <2>5. BatchInv(s)'
    BY <1>1, <1>3, <1>4, <1>6, <2>1, <2>3, <2>4 DEF BatchInv
  <2> QED BY <1>1, <1>5, <1>6, <2>1, <2>2, <2>5, StepOfOne
<1>7. CASE Continue(s, Rest(s))
  <2>1. match \in [Matches -> MatchStatuses] /\ quota \in [Schedulers -> 0..Lesser(DailyLimit, MaxPerRun)]
    BY DEF AutoInv, TypeOK
  <2>2. Rest(s) \in SUBSET Matches /\ \A m \in Rest(s) : match[m] \in Decided
    BY <1>1, FirstAndRest
  <2> QED BY <1>1, <1>4, <1>5, <1>7, <2>1, <2>2, ContinueKeeps
<1> QED BY <1>6, <1>7 DEF Submitted

LEMMA SubmitFailedKeeps == ASSUME AutoInv, NEW s \in Schedulers, SubmitFailed(s) PROVE AutoInv'
<1>1. at[s] = "submit" /\ Continue(s, Rest(s)) /\ UNCHANGED <<match, app, mode, quota>>
  BY DEF SubmitFailed
<1>2. Rest(s) \in SUBSET Matches /\ \A m \in Rest(s) : match[m] \in Decided
  BY <1>1, FirstAndRest
<1>3. /\ match \in [Matches -> MatchStatuses] /\ app \in [Matches -> {"none", "earlier"} \cup Makers]
      /\ quota \in [Schedulers -> 0..Lesser(DailyLimit, MaxPerRun)]
      /\ \A m \in Matches : match[m] = "applied" => app[m] # "none"
  BY DEF AutoInv, TypeOK, AppliedHasApplication
<1> QED BY <1>1, <1>2, <1>3, ContinueKeeps

(* The match that is marked has the application that was just made.         *)
LEMMA MarkKeeps == ASSUME AutoInv, NEW s \in Schedulers, Mark(s) PROVE AutoInv'
<1> DEFINE first == First(s)
<1>1. /\ at[s] = "mark" /\ Continue(s, Rest(s)) /\ UNCHANGED <<app, mode, quota>>
      /\ match' = [match EXCEPT ![first] = "applied"] \/ match' = match
  BY DEF Mark
<1>2. first \in Matches /\ app[first] # "none"
  BY <1>1, FirstAndRest DEF AutoInv, SchedulerInv, BatchInv
<1> HIDE DEF first
<1>3. /\ match' \in [Matches -> MatchStatuses] /\ match'[first] \in {match[first], "applied"}
      /\ \A m \in Matches \ {first} : match'[m] = match[m]
  BY <1>1, <1>2 DEF AutoInv, TypeOK, MatchStatuses
<1>4. \A m \in Matches : /\ match[m] \in Decided => match'[m] \in Decided
                         /\ match'[m] = "applied" => app[m] # "none"
  BY <1>2, <1>3 DEF AutoInv, AppliedHasApplication, Decided
<1>5. Rest(s) \in SUBSET Matches /\ \A m \in Rest(s) : match'[m] \in Decided
  BY <1>1, <1>4, FirstAndRest
<1>6. /\ app \in [Matches -> {"none", "earlier"} \cup Makers]
      /\ quota \in [Schedulers -> 0..Lesser(DailyLimit, MaxPerRun)]
  BY DEF AutoInv, TypeOK
<1> QED BY <1>1, <1>3, <1>4, <1>5, <1>6, ContinueKeeps

LEMMA RestartKeeps == ASSUME AutoInv, NEW s \in Schedulers, Restart(s) PROVE AutoInv'
<1>1. Continue(s, {}) /\ UNCHANGED <<match, app, mode>> /\ quota' = [quota EXCEPT ![s] = 0]
  BY DEF Restart
<1>2. quota' \in [Schedulers -> 0..Lesser(DailyLimit, MaxPerRun)]
  BY <1>1, SizesOf DEF AutoInv, TypeOK
<1>3. /\ match \in [Matches -> MatchStatuses] /\ app \in [Matches -> {"none", "earlier"} \cup Makers]
      /\ \A m \in Matches : match[m] = "applied" => app[m] # "none"
  BY DEF AutoInv, TypeOK, AppliedHasApplication
<1> QED BY <1>1, <1>2, <1>3, ContinueKeeps

-----------------------------------------------------------------------------
LEMMA AutoInvInit == Init => AutoInv
<1> SUFFICES ASSUME Init PROVE AutoInv
  OBVIOUS
<1>1. 0 \in 0..Lesser(DailyLimit, MaxPerRun)
  BY AutoApplyAssumption DEF Lesser
<1>2. TypeOK /\ AppliedHasApplication
  BY <1>1 DEF Init, TypeOK, AppliedHasApplication, MatchStatuses
<1>3. ASSUME NEW s \in Schedulers PROVE BatchInv(s)
  BY DEF Init, BatchInv
<1> QED BY <1>2, <1>3 DEF AutoInv, SchedulerInv

LEMMA AutoInvNext == ASSUME AutoInv, [Next]_vars PROVE AutoInv'
<1>1. CASE UNCHANGED vars
  BY <1>1 DEF vars, AutoInv, TypeOK, AppliedHasApplication, SchedulerInv, BatchInv, First
<1>2. CASE Next
  BY <1>2, UserKeeps, TickKeeps, CountKeeps, FetchKeeps, SubmittedKeeps, SubmitFailedKeeps,
     MarkKeeps, RestartKeeps DEF Next, Step
<1> QED BY <1>1, <1>2

(* AutoInv holds in every state.                                            *)
THEOREM AutoInvariance == Spec => []AutoInv
  BY AutoInvInit, AutoInvNext, PTL DEF Spec

-----------------------------------------------------------------------------
(* The scheduler and the matches keep their types; the quota never exceeds  *)
(* the daily limit or SCHEDULER_MAX_MATCHES_PER_RUN.                        *)
THEOREM AutoTypes == Spec => []TypeOK
<1>1. AutoInv => TypeOK
  BY DEF AutoInv
<1> QED BY <1>1, AutoInvariance, PTL

(* submitMatch marks no match as applied without an application.            *)
THEOREM AppliedIsBacked == Spec => []AppliedHasApplication
<1>1. AutoInv => AppliedHasApplication
  BY DEF AutoInv
<1> QED BY <1>1, AutoInvariance, PTL

(* No scheduler submits a match that nobody has decided on.                 *)
THEOREM OnlyDecidedSubmitted == Spec => OnlyDecidedMatchesSubmitted
<1>1. ASSUME AutoInv, [Next]_vars, NEW m \in Matches, app[m] = "none", app'[m] \in Schedulers
      PROVE  match[m] \in {"approved", "rejected"}
  <2>1. CASE UNCHANGED app
    BY <1>1, <2>1, AutoApplyAssumption
  <2>2. ASSUME NEW k \in Matches, SubmitByHand(k) PROVE match[m] \in {"approved", "rejected"}
    BY <1>1, <2>2, AutoApplyAssumption DEF SubmitByHand, AutoInv, TypeOK
  <2>3. ASSUME Midnight PROVE match[m] \in {"approved", "rejected"}
    BY <1>1, <2>3, AutoApplyAssumption DEF Midnight, Today, AutoInv, TypeOK
  <2>4. ASSUME NEW s \in Schedulers, Submitted(s) PROVE match[m] \in {"approved", "rejected"}
    <3>1. at[s] = "submit" /\ app' = [app EXCEPT ![First(s)] = s]
      BY <2>4 DEF Submitted
    <3>2. First(s) = m
      BY <1>1, <3>1, AutoApplyAssumption DEF AutoInv, TypeOK
    <3> QED BY <1>1, <3>1, <3>2, FirstAndRest DEF Decided, AutoInv, AppliedHasApplication
  <2> QED BY <1>1, <2>1, <2>2, <2>3, <2>4
          DEF Next, User, Step, vars, MatchFound, Decide, SetMode, Tick, Count, Fetch,
              SubmitFailed, Mark, Restart
<1>2. ASSUME AutoInv, [Next]_vars
      PROVE  \A m \in Matches : app[m] = "none" /\ app'[m] \in Schedulers
                                => match[m] \in {"approved", "rejected"}
  BY <1>1, <1>2
<1> QED BY <1>2, AutoInvariance, PTL DEF Spec, OnlyDecidedMatchesSubmitted

-----------------------------------------------------------------------------
(* The limit. What an instance may still make is one batch at most; the     *)
(* claims of some engines hold one pair for each application on its way.    *)
Batch == Lesser(DailyLimit, MaxPerRun)
Fleets == (SUBSET Schedulers) \ {{}}
MadeBy(S) == {m \in Matches : app[m] \in S}
Allowance(S) == DailyLimit + (Cardinality(S) - 1) * Batch

Owed(s) ==
  CASE at[s] = "fetch" -> quota[s]
    [] at[s] = "submit" -> Cardinality(todo[s])
    [] at[s] = "mark" -> Cardinality(todo[s]) - 1
    [] OTHER -> 0

Claims(S) == {c \in S \X (1..Batch) : c[2] <= Owed(c[1])}

Within(S) == Cardinality(MadeBy(S)) + Cardinality(Claims(S)) <= Allowance(S)

EnginesInv == (\A s \in Schedulers : Owed(s) \in 0..Batch) /\ (\A S \in Fleets : Within(S))

LEMMA BatchIsNumber ==
  Batch \in Nat \ {0} /\ Batch <= DailyLimit /\ DailyLimit \in Nat
  BY AutoApplyAssumption DEF Batch, Lesser

LEMMA FleetsFinite ==
  ASSUME NEW S \in Fleets
  PROVE  /\ S \subseteq Schedulers /\ IsFiniteSet(S)
         /\ Cardinality(S) \in Nat /\ Cardinality(S) >= 1
         /\ IsFiniteSet(1..Batch) /\ Cardinality(1..Batch) = Batch
         /\ (Cardinality(S) - 1) * Batch \in Nat /\ Allowance(S) \in Nat
<1>1. S \subseteq Schedulers /\ S # {} /\ IsFiniteSet(S)
  BY AutoApplyAssumption, FS_Subset DEF Fleets
<1>2. Cardinality(S) \in Nat /\ Cardinality(S) # 0
  BY <1>1, FS_CardinalityType, FS_EmptySet
<1>3. IsFiniteSet(1..Batch) /\ Cardinality(1..Batch) = Batch
  BY BatchIsNumber, FS_Interval
<1> DEFINE n == Cardinality(S)
<1>4. n \in Nat /\ n >= 1
  BY <1>2
<1> HIDE DEF n
<1>5. (n - 1) * Batch \in Nat
  BY <1>4, BatchIsNumber
<1>6. DailyLimit + (n - 1) * Batch \in Nat
  BY <1>5, BatchIsNumber
<1> QED BY <1>1, <1>3, <1>4, <1>5, <1>6 DEF n, Allowance

LEMMA SizesOfFleet ==
  ASSUME NEW S \in Fleets
  PROVE  /\ MadeBy(S) \in SUBSET Matches /\ Cardinality(MadeBy(S)) \in Nat
         /\ IsFiniteSet(Claims(S)) /\ Cardinality(Claims(S)) \in Nat
<1>1. MadeBy(S) \in SUBSET Matches /\ Claims(S) \subseteq S \X (1..Batch)
  BY DEF MadeBy, Claims
<1>2. IsFiniteSet(S \X (1..Batch))
  BY FleetsFinite, FS_Product
<1> QED BY <1>1, <1>2, Counts, FS_Subset, FS_CardinalityType

(* No new application of theirs, and none may make more than before.        *)
LEMMA NoMoreOwed ==
  ASSUME EnginesInv, NEW S \in Fleets, MadeBy(S)' \subseteq MadeBy(S),
         \A s \in S : Owed(s)' \in Nat /\ Owed(s)' <= Owed(s)
  PROVE  Within(S)'
<1>1. Claims(S)' \subseteq Claims(S)
  <2>1. \A s \in S : Owed(s) \in Nat
    BY FleetsFinite DEF EnginesInv
  <2>2. ASSUME NEW c \in S \X (1..Batch), c[2] <= Owed(c[1])' PROVE c[2] <= Owed(c[1])
    <3>1. c[1] \in S /\ c[2] \in Nat
      BY BatchIsNumber
    <3> QED BY <2>1, <2>2, <3>1
  <2> QED BY <2>2 DEF Claims, Batch
<1>2. Cardinality(Claims(S)') <= Cardinality(Claims(S)) /\ Cardinality(Claims(S)') \in Nat
  BY <1>1, SizesOfFleet, FS_Subset, FS_CardinalityType
<1>3. Cardinality(MadeBy(S)') <= Cardinality(MadeBy(S)) /\ Cardinality(MadeBy(S)') \in Nat
  BY SizesOfFleet, Counts
<1>4. Allowance(S)' = Allowance(S)
  BY DEF Allowance, Batch
<1> QED BY <1>2, <1>3, <1>4, SizesOfFleet, FleetsFinite DEF EnginesInv, Within

LEMMA OwedKept ==
  ASSUME NEW t, at'[t] = at[t], quota'[t] = quota[t], todo'[t] = todo[t]
  PROVE  Owed(t)' = Owed(t)
  BY DEF Owed

LEMMA OwedOnContinue ==
  ASSUME AutoInv, NEW s \in Schedulers, NEW batch \in SUBSET Matches, Continue(s, batch)
  PROVE  /\ Owed(s)' = Cardinality(batch) /\ Cardinality(batch) \in Nat
         /\ \A t \in Schedulers \ {s} : at'[t] = at[t] /\ todo'[t] = todo[t]
<1>1. /\ todo'[s] = batch /\ at'[s] = IF batch = {} THEN "idle" ELSE "submit"
      /\ \A t \in Schedulers \ {s} : at'[t] = at[t] /\ todo'[t] = todo[t]
  BY DEF AutoInv, TypeOK, Continue, Goto
<1>2. Cardinality(batch) \in Nat
  BY Counts
<1>3. CASE batch = {}
  BY <1>1, <1>2, <1>3, FS_EmptySet DEF Owed
<1>4. CASE batch # {}
  BY <1>1, <1>2, <1>4 DEF Owed
<1> QED BY <1>1, <1>2, <1>3, <1>4

(* A step after which nobody has made more or may make more.                *)
LEMMA NobodyOwesMore ==
  ASSUME EnginesInv, \A m \in Matches : app'[m] \in Schedulers => app'[m] = app[m],
         \A s \in Schedulers : Owed(s)' \in Nat /\ Owed(s)' <= Owed(s)
  PROVE  EnginesInv'
<1>1. \A s \in Schedulers : Owed(s)' \in 0..Batch
  BY BatchIsNumber DEF EnginesInv
<1>2. ASSUME NEW S \in Fleets PROVE Within(S)'
  <2>1. S \subseteq Schedulers
    BY FleetsFinite
  <2>2. MadeBy(S)' \subseteq MadeBy(S)
    BY <2>1 DEF MadeBy
  <2> QED BY <2>1, <2>2, NoMoreOwed
<1> QED BY <1>1, <1>2 DEF EnginesInv, Fleets, Batch

LEMMA UserOwesNothing ==
  ASSUME AutoInv, EnginesInv, User \/ Midnight \/ \E m \in Matches : MatchFound(m)
  PROVE  EnginesInv'
<1>1. UNCHANGED schedVars
  BY DEF User, Midnight, MatchFound, Decide, SubmitByHand, SetMode
<1>2. \A s \in Schedulers : Owed(s)' \in Nat /\ Owed(s)' <= Owed(s)
  <2>1. \A s \in Schedulers : Owed(s)' = Owed(s)
    BY <1>1, OwedKept DEF schedVars
  <2> QED BY <2>1 DEF EnginesInv
<1>3. \A m \in Matches : app'[m] \in Schedulers => app'[m] = app[m]
  <2>1. CASE UNCHANGED app
    BY <2>1
  <2>2. ASSUME NEW k \in Matches, SubmitByHand(k)
        PROVE  \A m \in Matches : app'[m] \in Schedulers => app'[m] = app[m]
    BY <2>2, AutoApplyAssumption DEF SubmitByHand, AutoInv, TypeOK
  <2>3. CASE Midnight
    BY <2>3, AutoApplyAssumption DEF Midnight, Today
  <2> QED BY <2>1, <2>2, <2>3 DEF User, MatchFound, Decide, SetMode
<1> QED BY <1>2, <1>3, NobodyOwesMore

(* Steps of an engine that make no application.                             *)
LEMMA EngineOwesLess ==
  ASSUME AutoInv, EnginesInv, NEW s \in Schedulers, UNCHANGED app,
         Owed(s)' \in Nat, Owed(s)' <= Owed(s),
         \A t \in Schedulers \ {s} : at'[t] = at[t] /\ quota'[t] = quota[t] /\ todo'[t] = todo[t]
  PROVE  EnginesInv'
<1>1. \A t \in Schedulers \ {s} : Owed(t)' = Owed(t)
  BY OwedKept
<1>2. \A t \in Schedulers : Owed(t)' \in Nat /\ Owed(t)' <= Owed(t)
  BY <1>1 DEF EnginesInv
<1> QED BY <1>2, NobodyOwesMore

LEMMA IdleStepsOweLess ==
  ASSUME AutoInv, EnginesInv, NEW s \in Schedulers,
         Tick(s) \/ Fetch(s) \/ SubmitFailed(s) \/ Mark(s) \/ Restart(s)
  PROVE  EnginesInv'
<1> USE DEF AutoInv, TypeOK
<1>0. Owed(s) \in Nat
  BY DEF EnginesInv
<1>1. CASE Tick(s)
  BY <1>1, EngineOwesLess DEF Tick, Goto, Owed
<1>2. ASSUME Fetch(s) PROVE EnginesInv'
  <2>1. PICK batch \in {Best(Approved, quota[s]), {}} : Continue(s, batch)
    BY <1>2 DEF Fetch
  <2>2. batch \in SUBSET Matches /\ Cardinality(batch) <= quota[s]
    <3>1. Approved \in SUBSET Matches /\ quota[s] \in Nat
      BY SizesOf DEF Approved
    <3>2. /\ Best(Approved, quota[s]) \in SUBSET Approved
          /\ Cardinality(Best(Approved, quota[s])) <= quota[s]
      BY <3>1, BestBounded
    <3>3. CASE batch = {}
      BY <3>1, <3>3, FS_EmptySet
    <3>4. CASE batch = Best(Approved, quota[s])
      BY <3>1, <3>2, <3>4
    <3> QED BY <3>3, <3>4
  <2>3. Owed(s) = quota[s] /\ UNCHANGED app /\ \A t \in Schedulers \ {s} : quota'[t] = quota[t]
    BY <1>2 DEF Fetch, Owed
  <2> QED BY <2>1, <2>2, <2>3, OwedOnContinue, EngineOwesLess
<1>3. ASSUME SubmitFailed(s) \/ Mark(s) PROVE EnginesInv'
  <2>1. Continue(s, Rest(s)) /\ UNCHANGED <<app, quota>> /\ at[s] \in {"submit", "mark"}
    BY <1>3 DEF SubmitFailed, Mark
  <2>2. Rest(s) \in SUBSET Matches /\ Cardinality(Rest(s)) = Cardinality(todo[s]) - 1
        /\ Cardinality(todo[s]) \in Nat
    BY <2>1, FirstAndRest, SizesOf
  <2>3. Cardinality(Rest(s)) <= Owed(s)
    BY <2>1, <2>2 DEF Owed
  <2> QED BY <2>1, <2>2, <2>3, OwedOnContinue, EngineOwesLess
<1>4. ASSUME Restart(s) PROVE EnginesInv'
  <2>1. Continue(s, {}) /\ UNCHANGED app /\ \A t \in Schedulers \ {s} : quota'[t] = quota[t]
    BY <1>4 DEF Restart
  <2>2. Owed(s)' = 0
    BY <2>1, OwedOnContinue, FS_EmptySet
  <2> QED BY <1>0, <2>1, <2>2, OwedOnContinue, EngineOwesLess
<1> QED BY <1>1, <1>2, <1>3, <1>4

(* When one engine counts, it claims no more than the rest of the limit,    *)
(* and the others have claimed a batch each at most.                        *)
LEMMA ClaimsAfterCount ==
  ASSUME NEW S \in Fleets, NEW s \in S, NEW left \in 1..Batch,
         NEW owed \in [Schedulers -> 0..Batch], owed[s] = left
  PROVE  LET claims == {c \in S \X (1..Batch) : c[2] <= owed[c[1]]}
         IN  Cardinality(claims) \in Nat /\ Cardinality(claims) <= left + (Cardinality(S) - 1) * Batch
<1> DEFINE claims == {c \in S \X (1..Batch) : c[2] <= owed[c[1]]}
           own == {s} \X (1..left)
           others == (S \ {s}) \X (1..Batch)
           n == Cardinality(S)
<1>0. left \in Nat
  BY BatchIsNumber
<1>1. claims \subseteq own \cup others
  <2>1. ASSUME NEW c \in S \X (1..Batch), c[2] <= owed[c[1]]
        PROVE  c \in own \cup others
    <3>1. c = <<c[1], c[2]>> /\ c[1] \in S /\ c[2] \in 1..Batch
      OBVIOUS
    <3>2. CASE c[1] = s
      <4>1. c[2] \in 1..left
        BY <1>0, <2>1, <3>1, <3>2, BatchIsNumber
      <4> QED BY <3>1, <3>2, <4>1
    <3>3. CASE c[1] # s
      BY <3>1, <3>3
    <3> QED BY <3>2, <3>3
  <2> QED BY <2>1
<1>2. IsFiniteSet(own) /\ Cardinality(own) = left
  <2>1. IsFiniteSet(1..left) /\ Cardinality(1..left) = left
    BY <1>0, FS_Interval
  <2>2. IsFiniteSet({s}) /\ Cardinality({s}) = 1
    BY FS_Singleton
  <2>3. IsFiniteSet(own) /\ Cardinality(own) = Cardinality({s}) * Cardinality(1..left)
    BY <2>1, <2>2, FS_Product
  <2>4. Cardinality(own) = 1 * left
    BY <2>1, <2>2, <2>3
  <2> QED BY <1>0, <2>3, <2>4
<1>3. IsFiniteSet(others) /\ Cardinality(others) = (n - 1) * Batch
  <2>1. IsFiniteSet(S \ {s}) /\ Cardinality(S \ {s}) = n - 1
    BY FleetsFinite, FS_RemoveElement
  <2>2. IsFiniteSet(others) /\ Cardinality(others) = Cardinality(S \ {s}) * Cardinality(1..Batch)
    BY <2>1, FleetsFinite, FS_Product
  <2> QED BY <2>1, <2>2, FleetsFinite
<1>4. (n - 1) * Batch \in Nat
  BY FleetsFinite
<1> HIDE DEF claims, own, others, n
<1>5. Cardinality(own \cap others) \in Nat
  BY <1>2, FS_Intersection, FS_CardinalityType
<1>6. /\ IsFiniteSet(own \cup others)
      /\ Cardinality(own \cup others) = left + (n - 1) * Batch - Cardinality(own \cap others)
  BY <1>2, <1>3, FS_Union
<1>7. Cardinality(own \cup others) <= left + (n - 1) * Batch /\ Cardinality(own \cup others) \in Nat
  BY <1>0, <1>4, <1>5, <1>6, FS_CardinalityType
<1>8. Cardinality(claims) <= Cardinality(own \cup others) /\ Cardinality(claims) \in Nat
  BY <1>1, <1>6, FS_Subset, FS_CardinalityType
<1>9. Cardinality(claims) <= left + (n - 1) * Batch
  BY <1>0, <1>4, <1>7, <1>8
<1> QED BY <1>8, <1>9 DEF n, claims

LEMMA CountClaimsTheRest ==
  ASSUME AutoInv, EnginesInv, NEW s \in Schedulers, Count(s)
  PROVE  EnginesInv'
<1> DEFINE left == Lesser(DailyLimit - Cardinality(Today), MaxPerRun)
<1>1. /\ at[s] = "count" /\ UNCHANGED <<match, app, mode, todo>>
      /\ \A t \in Schedulers \ {s} : at'[t] = at[t] /\ quota'[t] = quota[t]
  BY DEF Count, Goto, AutoInv, TypeOK
<1>2. CASE Goto(s, "idle")
  <2>1. Owed(s)' = 0 /\ Owed(s) = 0
    BY <1>1, <1>2 DEF Goto, Owed, AutoInv, TypeOK
  <2> QED BY <1>1, <2>1, EngineOwesLess
<1>3. CASE Cardinality(Today) < DailyLimit /\ quota' = [quota EXCEPT ![s] = left] /\ Goto(s, "fetch")
  <2>1. Today \in SUBSET Matches /\ Cardinality(Today) \in Nat
    BY Counts DEF Today
  <2>2. left \in 1..Batch /\ Cardinality(Today) + left <= DailyLimit
    BY <1>3, <2>1, AutoApplyAssumption DEF Batch, Lesser
  <2> HIDE DEF left
  <2>3. Owed(s)' = left
    BY <1>3 DEF Goto, Owed, AutoInv, TypeOK
  <2>4. \A t \in Schedulers \ {s} : Owed(t)' = Owed(t)
    BY <1>1, OwedKept
  <2>5. \A t \in Schedulers : Owed(t)' \in 0..Batch
    BY <2>2, <2>3, <2>4, BatchIsNumber DEF EnginesInv
  <2>6. ASSUME NEW S \in Fleets PROVE Within(S)'
    <3>1. MadeBy(S)' = MadeBy(S) /\ MadeBy(S) \in SUBSET Today
      BY <1>1, FleetsFinite DEF MadeBy, Today, Makers
    <3>2. CASE s \in S
      <4> DEFINE owed == [t \in Schedulers |-> Owed(t)']
      <4>1. owed \in [Schedulers -> 0..Batch] /\ owed[s] = left
        BY <2>3, <2>5
      <4>2. Claims(S)' = {c \in S \X (1..Batch) : c[2] <= owed[c[1]]}
        <5>1. \A c \in S \X (1..Batch) : owed[c[1]] = Owed(c[1])'
          BY FleetsFinite
        <5> QED BY <5>1 DEF Claims, Batch
      <4> HIDE DEF owed
      <4>3. /\ Cardinality(Claims(S)') \in Nat
            /\ Cardinality(Claims(S)') <= left + (Cardinality(S) - 1) * Batch
        BY <2>2, <3>2, <4>1, <4>2, ClaimsAfterCount
      <4>4. Cardinality(MadeBy(S)) <= Cardinality(Today) /\ Cardinality(MadeBy(S)) \in Nat
        BY <2>1, <3>1, Counts, SizesOfFleet
      <4>5. left \in Nat /\ (Cardinality(S) - 1) * Batch \in Nat
        BY <2>2, FleetsFinite, BatchIsNumber
      <4> DEFINE rest == (Cardinality(S) - 1) * Batch
      <4>6. Cardinality(MadeBy(S)) + Cardinality(Claims(S)') <= DailyLimit + rest
        <5> HIDE DEF rest
        <5>1. rest \in Nat /\ Cardinality(Claims(S)') <= left + rest
          BY <4>3, <4>5 DEF rest
        <5> QED BY <2>1, <2>2, <4>3, <4>4, <4>5, <5>1, BatchIsNumber
      <4> QED BY <3>1, <4>6 DEF Within, Allowance, Batch
    <3>3. CASE s \notin S
      <4>1. \A t \in S : Owed(t)' \in Nat /\ Owed(t)' <= Owed(t)
        BY <2>4, <3>3, FleetsFinite DEF EnginesInv
      <4> QED BY <3>1, <4>1, NoMoreOwed
    <3> QED BY <3>2, <3>3
  <2> QED BY <2>5, <2>6 DEF EnginesInv, Fleets, Batch
<1> QED BY <1>2, <1>3 DEF Count, left

(* An application is made of a claim.                                       *)
LEMMA ClaimBecomesApplication ==
  ASSUME AutoInv, EnginesInv, NEW s \in Schedulers, Submitted(s)
  PROVE  EnginesInv'
<1> DEFINE first == First(s)
           claim == <<s, Owed(s)>>
<1>1. /\ at[s] = "submit" /\ app[first] = "none" /\ app' = [app EXCEPT ![first] = s]
      /\ UNCHANGED quota
  BY DEF Submitted
<1>2. first \in Matches /\ Cardinality(todo[s]) >= 1 /\ Cardinality(todo[s]) \in Nat
      /\ Rest(s) \in SUBSET Matches /\ Cardinality(Rest(s)) = Cardinality(todo[s]) - 1
  BY <1>1, FirstAndRest, SizesOf
<1>3. app'[first] = s /\ \A m \in Matches \ {first} : app'[m] = app[m]
  BY <1>1, <1>2 DEF AutoInv, TypeOK
<1>4. Owed(s) = Cardinality(todo[s])
  BY <1>1 DEF Owed
<1>5. Owed(s)' = Owed(s) - 1 /\ \A t \in Schedulers \ {s} : at'[t] = at[t] /\ todo'[t] = todo[t]
  <2>1. CASE Goto(s, "mark") /\ UNCHANGED todo
    BY <1>4, <2>1 DEF Goto, Owed, AutoInv, TypeOK
  <2>2. CASE Continue(s, Rest(s))
    BY <1>2, <1>4, <2>2, OwedOnContinue
  <2> QED BY <2>1, <2>2 DEF Submitted
<1>6. \A t \in Schedulers \ {s} : Owed(t)' = Owed(t)
  BY <1>1, <1>5, OwedKept
<1>7. Owed(s) \in 1..Batch /\ \A t \in Schedulers : Owed(t) \in 0..Batch
  BY <1>2, <1>4, BatchIsNumber DEF EnginesInv
<1>8. \A t \in Schedulers : Owed(t)' \in 0..Batch
  BY <1>5, <1>6, <1>7, BatchIsNumber
<1> HIDE DEF first
<1>9. ASSUME NEW S \in Fleets, s \in S PROVE Within(S)'
  <2>1. Claims(S)' \subseteq Claims(S) \ {claim} /\ claim \in Claims(S)
    <3>1. claim \in Claims(S)
      BY <1>7, <1>9, BatchIsNumber DEF Claims
    <3>2. ASSUME NEW c \in S \X (1..Batch), c[2] <= Owed(c[1])'
          PROVE  c[2] <= Owed(c[1]) /\ c # claim
      <4>1. c[1] \in S /\ c[2] \in 1..Batch
        OBVIOUS
      <4>2. CASE c[1] = s
        BY <1>5, <1>7, <3>2, <4>1, <4>2, BatchIsNumber
      <4>3. CASE c[1] # s
        BY <1>6, <3>2, <4>1, <4>3, FleetsFinite
      <4> QED BY <4>2, <4>3
    <3> QED BY <3>1, <3>2 DEF Claims, Batch
  <2> HIDE DEF claim
  <2>2. Cardinality(Claims(S)') <= Cardinality(Claims(S)) - 1 /\ Cardinality(Claims(S)') \in Nat
    <3>1. /\ IsFiniteSet(Claims(S) \ {claim})
          /\ Cardinality(Claims(S) \ {claim}) = Cardinality(Claims(S)) - 1
      BY <2>1, SizesOfFleet, FS_RemoveElement
    <3> QED BY <2>1, <3>1, FS_Subset, FS_CardinalityType
  <2>3. MadeBy(S)' = MadeBy(S) \cup {first} /\ first \in Matches \ MadeBy(S)
    BY <1>1, <1>2, <1>3, <1>9, FleetsFinite, AutoApplyAssumption DEF MadeBy
  <2>4. Cardinality(MadeBy(S)') = Cardinality(MadeBy(S)) + 1
    BY <2>3, SizesOfFleet, Counts
  <2>5. Allowance(S)' = Allowance(S)
    BY DEF Allowance, Batch
  <2> QED BY <2>2, <2>4, <2>5, SizesOfFleet, FleetsFinite DEF EnginesInv, Within
<1>10. ASSUME NEW S \in Fleets, s \notin S PROVE Within(S)'
  <2>1. MadeBy(S)' \subseteq MadeBy(S)
    BY <1>3, <1>10 DEF MadeBy
  <2>2. \A t \in S : Owed(t)' \in Nat /\ Owed(t)' <= Owed(t)
    BY <1>6, <1>10, FleetsFinite DEF EnginesInv
  <2> QED BY <2>1, <2>2, NoMoreOwed
<1> QED BY <1>8, <1>9, <1>10 DEF EnginesInv, Fleets, Batch

LEMMA EnginesInvInit == Init => EnginesInv
<1> SUFFICES ASSUME Init PROVE EnginesInv
  OBVIOUS
<1>1. \A s \in Schedulers : Owed(s) = 0
  BY DEF Init, Owed
<1>2. ASSUME NEW S \in Fleets PROVE Within(S)
  <2>1. MadeBy(S) = {}
    BY FleetsFinite, AutoApplyAssumption DEF Init, MadeBy
  <2>2. Claims(S) = {}
    BY <1>1, FleetsFinite, BatchIsNumber DEF Claims
  <2> QED BY <2>1, <2>2, FS_EmptySet, FleetsFinite DEF Within
<1> QED BY <1>1, <1>2, BatchIsNumber DEF EnginesInv

LEMMA EnginesInvNext == ASSUME AutoInv, EnginesInv, [Next]_vars PROVE EnginesInv'
<1>1. CASE UNCHANGED vars
  BY <1>1 DEF vars, EnginesInv, Fleets, Within, MadeBy, Claims, Owed, Allowance, Batch
<1>2. CASE Next
  BY <1>2, UserOwesNothing, IdleStepsOweLess, CountClaimsTheRest, ClaimBecomesApplication DEF Next, Step
<1> QED BY <1>1, <1>2

(* However many engines run processUser, and whatever the user does: one    *)
(* makes no more applications in a day than the daily limit, and several    *)
(* together exceed it by a batch for each but one of them at most.          *)
THEOREM WithinDailyLimit == Spec => []AutoWithinLimit
<1>1. EnginesInv => AutoWithinLimit
  <2> SUFFICES ASSUME EnginesInv, NEW S \in Fleets
               PROVE  Cardinality(MadeBy(S)) <= Allowance(S)
    BY DEF AutoWithinLimit, Fleets, MadeBy, Allowance, Batch
  <2> QED BY SizesOfFleet, FleetsFinite DEF EnginesInv, Within
<1> QED BY <1>1, AutoInvariance, EnginesInvInit, EnginesInvNext, PTL DEF Spec
=============================================================================
